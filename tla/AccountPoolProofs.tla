--------------------------- MODULE AccountPoolProofs ---------------------------
(***************************************************************************)
(* What TLAPS proves of the account pool, for any number of accounts,      *)
(* sessions and requests, any delays and an unbounded clock.               *)
(***************************************************************************)
EXTENDS AccountPool, WellFoundedInduction, FiniteSetTheorems, TLAPS

\* Every nonempty set of natural numbers has a least element.
LEMMA LeastNatural ==
  ASSUME NEW S \in SUBSET Nat, S # {}
  PROVE  \E a \in S : \A b \in S : a <= b
<1> DEFINE Less == {p \in Nat \X Nat : p[1] < p[2]}
<1>1. IsWellFoundedOn(Less, Nat)
  BY NatLessThanWellFounded DEF OpToRel
<1>2. PICK a \in S : \A b \in S : <<b, a>> \notin Less
  BY <1>1, WFMin
<1>3. \A b \in S : a <= b
  <2>1. TAKE b \in S
  <2>2. ~(b < a)
    BY <1>2
  <2> QED
    BY <2>2
<1> QED
  BY <1>3

\* First() returns one of the accounts it is given: the candidate list is in
\* configuration order.
LEMMA FirstIsMember ==
  ASSUME NEW S \in SUBSET Accounts, S # {}
  PROVE  First(S) \in S
<1>1. S \in SUBSET Nat
  BY DEF Accounts
<1>2. \E a \in S : \A b \in S : a <= b
  BY <1>1, LeastNatural
<1> QED
  BY <1>2 DEF First

\* select() returns a candidate whenever there is one.
LEMMA SelectedIsAvailable ==
  ASSUME PoolAssumption, NEW t \in Targets, NEW k \in Keys, NEW e \in SUBSET Accounts,
         Available(t, e) # {}
  PROVE  Selected(t, k, e) \in Available(t, e)
<1>1. Available(t, e) \in SUBSET Accounts
  BY DEF Available, PoolAssumption
<1>2. First(Available(t, e)) \in Available(t, e)
  BY <1>1, FirstIsMember
<1> QED
  BY <1>2 DEF Selected

\* The default backoff of markFailure is positive and at most MAX_COOLDOWN_MS.
LEMMA BackoffBounds ==
  ASSUME PoolAssumption, NEW n \in Nat \ {0}
  PROVE  Backoff(n) \in Nat \ {0} /\ Backoff(n) <= MaxCooldown
<1> DEFINE m == Doubling[Smaller(n, 5)]
<1>1. m \in Nat \ {0}
  <2>1. Smaller(n, 5) \in 1..5
    BY DEF Smaller
  <2> QED
    BY <2>1 DEF Doubling
<1> HIDE DEF m
<1>2. BaseCooldown * m \in Nat \ {0}
  BY <1>1 DEF PoolAssumption
<1>3. Smaller(BaseCooldown * m, MaxCooldown) \in Nat \ {0}
      /\ Smaller(BaseCooldown * m, MaxCooldown) <= MaxCooldown
  <2> DEFINE p == BaseCooldown * m
  <2>1. p \in Nat \ {0}
    BY <1>2
  <2> HIDE DEF p
  <2>2. Smaller(p, MaxCooldown) \in Nat \ {0} /\ Smaller(p, MaxCooldown) <= MaxCooldown
    BY <2>1 DEF Smaller, PoolAssumption
  <2> QED
    BY <2>2 DEF p
<1> QED
  BY <1>3 DEF Backoff, m

\* A retry-after is clamped between one second and MAX_RETRY_AFTER_MS.
LEMMA RetryDelayBounds ==
  ASSUME PoolAssumption, NEW ms \in Int
  PROVE  RetryDelay(ms) \in Nat \ {0} /\ RetryDelay(ms) <= MaxRetryAfter
BY DEF RetryDelay, Larger, Smaller, PoolAssumption

--------------------------------------------------------------------------------
(* Typing                                                                  *)

MaxDelay == Larger(MaxRetryAfter, MaxCooldown)

\* The longest delay is a natural number.
LEMMA MaxDelayType == ASSUME PoolAssumption PROVE MaxDelay \in Nat
BY DEF MaxDelay, Larger, PoolAssumption

\* Every delay a failure may be given is positive and at most MaxDelay.
LEMMA DelayBounds ==
  ASSUME PoolAssumption, TypeOK, NEW a \in Accounts, NEW delay \in Delays(a)
  PROVE  delay \in Nat \ {0} /\ delay <= MaxDelay
<1>1. MaxDelay \in Nat /\ MaxRetryAfter <= MaxDelay /\ MaxCooldown <= MaxDelay
  BY DEF MaxDelay, Larger, PoolAssumption
<1>2. CASE delay = Backoff(state[a].failures + 1)
  <2>1. state[a].failures + 1 \in Nat \ {0}
    BY DEF TypeOK, Health
  <2> QED
    BY <1>1, <1>2, <2>1, BackoffBounds DEF PoolAssumption
<1>3. ASSUME NEW ms \in RetryAfters, delay = RetryDelay(ms)
      PROVE  delay \in Nat \ {0} /\ delay <= MaxDelay
  BY <1>1, <1>3, RetryDelayBounds DEF PoolAssumption
<1> QED
  BY <1>2, <1>3 DEF Delays

\* What markFailure does to the health of an account.
LEMMA FailedHealth ==
  ASSUME NEW h \in Health, NEW delay \in Nat \ {0}, now \in Nat,
         NEW d \in Diagnostics \cup {NoDiagnostic}
  PROVE  LET f == Failed(h, delay, d)
         IN /\ f \in Health
            /\ f.until = Larger(h.until, now + delay)
            /\ f.failures = h.failures + 1 /\ f.generation = h.generation + 1
BY DEF Failed, Health, Larger

\* A pool just created has its types.
LEMMA TypeInit == PoolAssumption /\ Init => TypeOK
BY DEF PoolAssumption, Init, TypeOK, Healthy, Health, NoAffinity, Affinity, Idle, Attempt, NoAccount

\* A success leaves an account healthy and a session bound to it.
LEMMA SuccessType ==
  ASSUME PoolAssumption, TypeOK, NEW a \in Accounts, NEW k \in Keys, NEW g \in Nat,
         MarkSuccess(a, k, g)
  PROVE  state' \in [Accounts -> Health] /\ affinity' \in [Keys -> Affinity]
<1>1. Recovered(state[a]) \in Health
  BY DEF TypeOK, Recovered, Health
<1>2. now + StickyTtl \in Nat
  BY DEF TypeOK, PoolAssumption
<1>3. [account |-> a, until |-> now + StickyTtl] \in Affinity /\ NoAffinity \in Affinity
  BY <1>2 DEF Affinity, NoAffinity
<1>4. CASE state[a].generation # g
  BY <1>4 DEF MarkSuccess, TypeOK
<1>5. CASE state[a].generation = g
  <2>1. state' \in [Accounts -> Health]
    BY <1>1, <1>5 DEF MarkSuccess, TypeOK
  <2>2. affinity' \in [Keys -> Affinity]
    BY <1>3, <1>5 DEF MarkSuccess, TypeOK
  <2> QED
    BY <2>1, <2>2
<1> QED
  BY <1>4, <1>5

\* The health of every account after a failure is reported.
LEMMA FailState ==
  ASSUME PoolAssumption, TypeOK, NEW a \in Accounts, NEW also \in SUBSET Accounts,
         NEW delay \in Delays(a), NEW d \in Diagnostics \cup {NoDiagnostic},
         MarkFailures(a, delay, d, also)
  PROVE  /\ state' \in [Accounts -> Health]
         /\ \A b \in Accounts \ ({a} \cup also) : state'[b] = state[b]
         /\ \A b \in {a} \cup also :
              \E e \in Nat \ {0}, x \in Diagnostics \cup {NoDiagnostic} :
                e <= MaxDelay /\ state'[b] = Failed(state[b], e, x)
<1>1. \A b \in Accounts : \E e \in Nat \ {0} :
        e <= MaxDelay /\ e = Backoff(state[b].failures + 1)
  BY DelayBounds DEF Delays
<1>2. delay \in Nat \ {0} /\ delay <= MaxDelay
  BY DelayBounds
<1>3. \A b \in Accounts \ ({a} \cup also) : state'[b] = state[b]
  BY DEF MarkFailures
<1>4. \A b \in {a} \cup also :
        \E e \in Nat \ {0}, x \in Diagnostics \cup {NoDiagnostic} :
          e <= MaxDelay /\ state'[b] = Failed(state[b], e, x)
  BY <1>1, <1>2 DEF MarkFailures
<1>5. \A b \in Accounts : state'[b] \in Health
  <2>1. \A b \in Accounts : state[b] \in Health /\ now \in Nat
    BY DEF TypeOK
  <2> QED
    BY <1>3, <1>4, <2>1, FailedHealth
<1>6. state' = [b \in Accounts |-> state'[b]]
  BY DEF MarkFailures
<1> QED
  BY <1>3, <1>4, <1>5, <1>6

\* Every step keeps the types.
LEMMA TypeStep ==
  ASSUME PoolAssumption, TypeOK, [Next]_vars
  PROVE  TypeOK'
<1>1. ASSUME NEW c \in Callers, NEW t \in Targets, NEW e \in SUBSET Accounts, Begin(c, t, e)
      PROVE  TypeOK'
  <2>1. KeyOf[c] \in Keys
    BY DEF PoolAssumption
  <2> DEFINE a == Selected(t, KeyOf[c], e)
  <2>2. a \in Accounts
    BY <1>1, <2>1, SelectedIsAvailable DEF Begin, Available, PoolAssumption
  <2> HIDE DEF a
  <2>3. attempt' = [attempt EXCEPT ![c] =
           [account |-> a, generation |-> state[a].generation,
            fresh |-> TRUE, tried |-> attempt[c].tried \cup {a}]]
    BY <1>1 DEF Begin, a
  <2>4. attempt' \in [Callers -> Attempt]
    BY <2>2, <2>3 DEF TypeOK, Attempt, Health
  <2>5. affinity' \in [Keys -> Affinity]
    BY <1>1 DEF Begin, PruneAffinity, TypeOK, Affinity, NoAffinity
  <2> QED
    BY <1>1, <2>4, <2>5 DEF Begin, TypeOK
<1>2. ASSUME NEW c \in Callers, Succeed(c) PROVE TypeOK'
  <2>1. KeyOf[c] \in Keys /\ attempt[c] \in Attempt /\ attempt[c].account \in Accounts
    BY <1>2 DEF PoolAssumption, TypeOK, Succeed, Attempt
  <2>2. state' \in [Accounts -> Health] /\ affinity' \in [Keys -> Affinity]
    BY <1>2, <2>1, SuccessType DEF Succeed, Attempt
  <2>3. attempt' \in [Callers -> Attempt]
    BY <1>2 DEF Succeed, TypeOK, Idle, Attempt
  <2> QED
    BY <1>2, <2>2, <2>3 DEF Succeed, TypeOK
<1>3. ASSUME NEW c \in Callers, NEW t \in Targets, NEW e \in SUBSET Accounts, Exhausted(c, t, e)
      PROVE  TypeOK'
  BY <1>3 DEF Exhausted, PruneAffinity, TypeOK, Affinity, NoAffinity
<1>4. ASSUME NEW c \in Callers, NEW d \in Diagnostics \cup {NoDiagnostic}, NEW drop \in BOOLEAN,
             NEW a \in attempt[c].tried, NEW also \in SUBSET (attempt[c].tried \ {a}),
             NEW delay \in Delays(a), Fail(c, a, delay, d, also, drop)
      PROVE  TypeOK'
  <2>1. a \in Accounts /\ also \in SUBSET Accounts
    BY DEF TypeOK, Attempt
  <2>2. state' \in [Accounts -> Health]
    BY <1>4, <2>1, FailState DEF Fail
  <2>3. KeyOf[c] \in Keys
    BY DEF PoolAssumption
  <2>4. affinity' \in [Keys -> Affinity]
    BY <1>4, <2>3 DEF Fail, MarkSessionFailure, TypeOK, Affinity, NoAffinity
  <2>5. \A x \in Callers :
          [attempt[x] EXCEPT !.fresh = @ /\ attempt[x].account \notin {a} \cup also] \in Attempt
    BY DEF TypeOK, Attempt
  <2>6. attempt' \in [Callers -> Attempt]
    BY <1>4, <2>5 DEF Fail
  <2> QED
    BY <1>4, <2>2, <2>4, <2>6 DEF Fail, TypeOK
<1>5. ASSUME NEW c \in Callers, Finish(c) PROVE TypeOK'
  BY <1>5 DEF Finish, poolVars, TypeOK, Idle, Attempt
<1>6. ASSUME NEW a \in Volatile, CredentialChange(a) PROVE TypeOK'
  BY <1>6 DEF CredentialChange, TypeOK, PoolAssumption
<1>7. CASE Tick
  BY <1>7 DEF Tick, TypeOK, PoolAssumption
<1>8. CASE UNCHANGED vars
  BY <1>8 DEF vars, TypeOK
<1> QED
  BY <1>1, <1>2, <1>3, <1>4, <1>5, <1>6, <1>7, <1>8 DEF Next

\* The pool and its callers keep their types in every behaviour.
THEOREM TypeCorrect == Spec => []TypeOK
<1>1. Init => TypeOK
  BY TypeInit, PoolAssumption
<1>2. TypeOK /\ [Next]_vars => TypeOK'
  BY TypeStep, PoolAssumption
<1> QED
  BY <1>1, <1>2, PTL DEF Spec

--------------------------------------------------------------------------------
(* Quarantine                                                              *)

\* The inductive invariant: the counters of every account agree, quarantines are
\* bounded, and generations tell a caller whether its account has failed.
PoolInv ==
  /\ TypeOK
  /\ QuarantineAccounted
  /\ QuarantineBounded
  /\ GenerationDetectsFailure

\* A pool just created, without failures or attempts, satisfies the invariant.
LEMMA PoolInvInit == PoolAssumption /\ Init => PoolInv
<1> SUFFICES ASSUME PoolAssumption, Init PROVE PoolInv
  OBVIOUS
<1>1. TypeOK
  BY TypeInit
<1>2. QuarantineAccounted
  BY DEF Init, QuarantineAccounted, Healthy
<1>3. MaxDelay \in Nat
  BY MaxDelayType
<1>4. QuarantineBounded
  BY <1>3 DEF Init, QuarantineBounded, Healthy, MaxDelay
<1>5. GenerationDetectsFailure
  BY DEF Init, GenerationDetectsFailure, Idle
<1> QED
  BY <1>1, <1>2, <1>4, <1>5 DEF PoolInv

\* A step either leaves the health of an account alone, counts failures against
\* it, or recovers it by a success whose caller saw its present generation.
LEMMA HealthStep ==
  ASSUME PoolAssumption, TypeOK, [Next]_vars, NEW a \in Accounts, state'[a] # state[a]
  PROVE  \/ /\ now' = now
            /\ \E e \in Nat \ {0}, x \in Diagnostics \cup {NoDiagnostic} :
                 e <= MaxDelay /\ state'[a] = Failed(state[a], e, x)
            /\ \E c \in Callers : a \in attempt[c].tried
         \/ /\ now' = now /\ state'[a] = Recovered(state[a])
            /\ \E c \in Callers :
                 /\ attempt[c].account = a /\ attempt[c].generation = state[a].generation
                 /\ attempt' = [attempt EXCEPT ![c] = Idle]
<1>1. CASE \E c \in Callers : Succeed(c)
  <2>1. PICK c \in Callers : Succeed(c)
    BY <1>1
  <2>2. attempt[c].account \in Accounts /\ now' = now
    BY <2>1 DEF Succeed, TypeOK, Attempt
  <2>3. attempt[c].account = a /\ attempt[c].generation = state[a].generation
        /\ state'[a] = Recovered(state[a])
    BY <2>1, <2>2 DEF Succeed, MarkSuccess, TypeOK
  <2> QED
    BY <2>1, <2>2, <2>3 DEF Succeed
<1>2. ASSUME NEW c \in Callers, NEW d \in Diagnostics \cup {NoDiagnostic}, NEW drop \in BOOLEAN,
             NEW b \in attempt[c].tried, NEW also \in SUBSET (attempt[c].tried \ {b}),
             NEW delay \in Delays(b), Fail(c, b, delay, d, also, drop)
      PROVE  /\ now' = now
             /\ \E e \in Nat \ {0}, x \in Diagnostics \cup {NoDiagnostic} :
                  e <= MaxDelay /\ state'[a] = Failed(state[a], e, x)
             /\ a \in attempt[c].tried
  <2>1. b \in Accounts /\ also \in SUBSET Accounts
    BY DEF TypeOK, Attempt
  <2>2. MarkFailures(b, delay, d, also) /\ now' = now
    BY <1>2 DEF Fail
  <2>3. a \in {b} \cup also
    BY <2>1, <2>2, FailState
  <2> QED
    BY <2>1, <2>2, <2>3, FailState
<1> QED
  BY <1>1, <1>2 DEF Next, Begin, Exhausted, Finish, CredentialChange, Tick, poolVars, vars

\* markSuccess clears the counters together and markFailure raises them together.
LEMMA QuarantineAccountedStep ==
  ASSUME PoolAssumption, TypeOK, QuarantineAccounted, [Next]_vars
  PROVE  QuarantineAccounted'
<1> SUFFICES ASSUME NEW a \in Accounts
             PROVE  /\ state'[a].failures = 0 <=> state'[a].until = 0
                    /\ state'[a].failures <= state'[a].generation
                    /\ state'[a].diagnostic # NoDiagnostic => state'[a].failures > 0
  BY DEF QuarantineAccounted
<1>1. state[a] \in Health /\ now \in Nat
  BY DEF TypeOK
<1>2. /\ state[a].failures = 0 <=> state[a].until = 0
      /\ state[a].failures <= state[a].generation
      /\ state[a].diagnostic # NoDiagnostic => state[a].failures > 0
  BY DEF QuarantineAccounted
<1>3. CASE state'[a] = state[a]
  BY <1>2, <1>3
<1>4. ASSUME NEW e \in Nat \ {0}, NEW x \in Diagnostics \cup {NoDiagnostic},
             state'[a] = Failed(state[a], e, x)
      PROVE  /\ state'[a].until > 0 /\ state'[a].failures > 0
             /\ state'[a].failures <= state'[a].generation
  BY <1>1, <1>2, <1>4, FailedHealth DEF Health, Larger
<1>5. CASE state'[a] = Recovered(state[a])
  BY <1>1, <1>5 DEF Recovered, Health
<1>6. CASE state'[a] # state[a]
  BY <1>4, <1>5, <1>6, HealthStep
<1> QED
  BY <1>3, <1>6

\* A failure adds at most the longest delay to the present instant.
LEMMA QuarantineBoundedStep ==
  ASSUME PoolAssumption, TypeOK, QuarantineBounded, [Next]_vars
  PROVE  QuarantineBounded'
<1> SUFFICES ASSUME NEW a \in Accounts
             PROVE  state'[a].until <= now' + MaxDelay
  BY DEF QuarantineBounded, MaxDelay
<1>1. state[a] \in Health /\ now \in Nat /\ MaxDelay \in Nat
  BY MaxDelayType DEF TypeOK
<1>2. state[a].until <= now + MaxDelay
  BY DEF QuarantineBounded, MaxDelay
<1>3. CASE state'[a] = state[a]
  <2>1. now' = now \/ now' = now + 1
    BY DEF Next, Begin, Succeed, Exhausted, Fail, Finish, CredentialChange, Tick, poolVars, vars
  <2> QED
    BY <1>1, <1>2, <1>3, <2>1 DEF Health
<1>4. ASSUME NEW e \in Nat \ {0}, NEW x \in Diagnostics \cup {NoDiagnostic},
             e <= MaxDelay, state'[a] = Failed(state[a], e, x)
      PROVE  state'[a].until <= now + MaxDelay
  BY <1>1, <1>2, <1>4, FailedHealth DEF Health, Larger
<1>5. CASE state'[a] # state[a]
  <2>1. now + MaxDelay >= 0
    BY <1>1
  <2>2. state'[a] = Recovered(state[a]) => state'[a].until = 0
    BY <1>1 DEF Recovered, Health
  <2> QED
    BY <1>4, <1>5, <2>1, <2>2, HealthStep
<1> QED
  BY <1>3, <1>5

--------------------------------------------------------------------------------
(* Generations                                                             *)

\* What GenerationDetectsFailure says of one request.
Detects(c) ==
  attempt[c].account # NoAccount =>
    LET a == attempt[c].account
    IN /\ a \in attempt[c].tried
       /\ attempt[c].generation <= state[a].generation
       /\ attempt[c].fresh <=> attempt[c].generation = state[a].generation

\* A failure outdates every attempt that holds the account, and no other.
LEMMA DetectsFail ==
  ASSUME PoolAssumption, TypeOK, GenerationDetectsFailure,
         NEW c \in Callers, NEW d \in Diagnostics \cup {NoDiagnostic}, NEW drop \in BOOLEAN,
         NEW b \in attempt[c].tried, NEW also \in SUBSET (attempt[c].tried \ {b}),
         NEW delay \in Delays(b), Fail(c, b, delay, d, also, drop), NEW x \in Callers
  PROVE  Detects(x)'
<1> DEFINE hit == {b} \cup also
           a == attempt[x].account
<1>1. hit \in SUBSET Accounts /\ b \in Accounts /\ also \in SUBSET Accounts
  BY DEF TypeOK, Attempt
<1>2. attempt'[x] = [attempt[x] EXCEPT !.fresh = @ /\ attempt[x].account \notin hit]
  BY DEF Fail
<1>3. /\ attempt'[x].account = a /\ attempt'[x].tried = attempt[x].tried
      /\ attempt'[x].generation = attempt[x].generation
      /\ attempt'[x].fresh = (attempt[x].fresh /\ a \notin hit)
  BY <1>2 DEF TypeOK, Attempt
<1>4. attempt[x].generation \in Nat /\ attempt[x].fresh \in BOOLEAN /\ a \in Accounts \cup {NoAccount}
  BY DEF TypeOK, Attempt
<1>5. MarkFailures(b, delay, d, also)
  BY DEF Fail
<1> HIDE DEF hit, a
<1> SUFFICES ASSUME a # NoAccount
             PROVE  /\ a \in attempt[x].tried
                    /\ attempt[x].generation <= state'[a].generation
                    /\ attempt'[x].fresh <=> attempt[x].generation = state'[a].generation
  BY <1>3 DEF Detects
<1>6. /\ a \in attempt[x].tried
      /\ attempt[x].generation <= state[a].generation
      /\ attempt[x].fresh <=> attempt[x].generation = state[a].generation
  BY DEF GenerationDetectsFailure, a
<1>7. state[a] \in Health /\ a \in Accounts /\ now \in Nat
  BY <1>4 DEF TypeOK
<1>8. CASE a \in hit
  <2>1. PICK e \in Nat \ {0}, y \in Diagnostics \cup {NoDiagnostic} :
          state'[a] = Failed(state[a], e, y)
    BY <1>1, <1>5, <1>8, FailState DEF hit
  <2>2. state'[a].generation = state[a].generation + 1 /\ state[a].generation \in Nat
    BY <1>7, <2>1, FailedHealth DEF Health
  <2>3. ~attempt'[x].fresh
    BY <1>3, <1>8
  <2>4. attempt[x].generation < state'[a].generation
    BY <1>4, <1>6, <2>2
  <2>5. attempt[x].generation # state'[a].generation /\ attempt[x].generation <= state'[a].generation
    BY <1>4, <2>2, <2>4
  <2> QED
    BY <1>6, <2>3, <2>5
<1>9. CASE a \notin hit
  <2>1. state'[a] = state[a]
    BY <1>1, <1>5, <1>7, <1>9, FailState DEF hit
  <2>2. attempt'[x].fresh <=> attempt[x].fresh
    BY <1>3, <1>4, <1>9
  <2> QED
    BY <1>6, <2>1, <2>2
<1> QED
  BY <1>8, <1>9

\* Every report keeps the noted generations a sound test for failures.
LEMMA GenerationStep ==
  ASSUME PoolAssumption, TypeOK, GenerationDetectsFailure, [Next]_vars
  PROVE  GenerationDetectsFailure'
<1> SUFFICES ASSUME NEW x \in Callers PROVE Detects(x)'
  BY DEF GenerationDetectsFailure, Detects
<1>0. Detects(x)
  BY DEF GenerationDetectsFailure, Detects
<1>1. ASSUME NEW c \in Callers, NEW t \in Targets, NEW e \in SUBSET Accounts, Begin(c, t, e)
      PROVE  Detects(x)'
  <2> DEFINE a == Selected(t, KeyOf[c], e)
  <2>1. a \in Accounts
    BY <1>1, SelectedIsAvailable DEF Begin, Available, PoolAssumption
  <2> HIDE DEF a
  <2>2. attempt' = [attempt EXCEPT ![c] =
           [account |-> a, generation |-> state[a].generation,
            fresh |-> TRUE, tried |-> attempt[c].tried \cup {a}]] /\ state' = state
    BY <1>1 DEF Begin, a
  <2>3. state[a].generation \in Nat
    BY <2>1 DEF TypeOK, Health
  <2>4. CASE x = c
    BY <2>2, <2>3, <2>4 DEF Detects, TypeOK
  <2>5. CASE x # c
    BY <1>0, <2>2, <2>5 DEF Detects, TypeOK
  <2> QED
    BY <2>4, <2>5
<1>2. ASSUME NEW c \in Callers, Succeed(c) PROVE Detects(x)'
  <2>1. attempt[c].account \in Accounts /\ KeyOf[c] \in Keys
    BY <1>2 DEF Succeed, TypeOK, Attempt, PoolAssumption
  <2>2. \A a \in Accounts : state'[a].generation = state[a].generation
    <3>1. CASE state[attempt[c].account].generation # attempt[c].generation
      BY <1>2, <3>1 DEF Succeed, MarkSuccess
    <3>2. CASE state[attempt[c].account].generation = attempt[c].generation
      <4>1. state' = [state EXCEPT ![attempt[c].account] = Recovered(@)]
        BY <1>2, <3>2 DEF Succeed, MarkSuccess
      <4> QED
        BY <2>1, <4>1 DEF Recovered, TypeOK, Health
    <3> QED
      BY <3>1, <3>2
  <2>3. CASE x = c
    BY <1>2, <2>3 DEF Succeed, Detects, TypeOK, Idle
  <2>4. CASE x # c
    <3>1. attempt'[x] = attempt[x] /\ attempt[x].account \in Accounts \cup {NoAccount}
      BY <1>2, <2>4 DEF Succeed, TypeOK, Attempt
    <3> QED
      BY <1>0, <2>2, <3>1 DEF Detects
  <2> QED
    BY <2>3, <2>4
<1>3. ASSUME NEW c \in Callers, Finish(c) PROVE Detects(x)'
  BY <1>0, <1>3 DEF Finish, poolVars, Detects, TypeOK, Idle
<1>4. CASE UNCHANGED <<state, attempt>>
  BY <1>0, <1>4 DEF Detects
<1> QED
  BY <1>1, <1>2, <1>3, <1>4, DetectsFail DEF Next, Exhausted, CredentialChange, Tick, vars

\* The inductive invariant holds in every behaviour of the pool.
THEOREM PoolInvariant == Spec => []PoolInv
<1>1. Init => PoolInv
  BY PoolInvInit, PoolAssumption
<1>2. PoolInv /\ [Next]_vars => PoolInv'
  BY TypeStep, QuarantineAccountedStep, QuarantineBoundedStep, GenerationStep, PoolAssumption DEF PoolInv
<1> QED
  BY <1>1, <1>2, PTL DEF Spec

\* No interleaving of reports leaves the counters of an account out of step, or
\* quarantines it beyond the longest delay of the code.
THEOREM QuarantineIsSound == Spec => [](QuarantineAccounted /\ QuarantineBounded)
BY PoolInvariant, PTL DEF PoolInv

\* The generation noted at selection detects every failure counted meanwhile.
THEOREM GenerationsAreSound == Spec => []GenerationDetectsFailure
BY PoolInvariant, PTL DEF PoolInv

--------------------------------------------------------------------------------
(* What a step may not do                                                  *)

\* Only markSuccess with the present generation ends a quarantine early.
LEMMA LiftStep ==
  ASSUME PoolAssumption, PoolInv, [Next]_vars
  PROVE  LiftedOnlyByFreshSuccess
<1> USE DEF PoolInv
<1> SUFFICES ASSUME NEW a \in Accounts, state'[a].until < state[a].until
             PROVE  /\ state'[a].until = 0
                    /\ \E c \in Callers : FreshSuccess(c, a)
  BY DEF LiftedOnlyByFreshSuccess
<1>1. state[a] \in Health /\ now \in Nat
  BY DEF TypeOK
<1>2. state'[a] # state[a]
  BY <1>1 DEF Health
<1>3. ASSUME NEW e \in Nat \ {0}, NEW x \in Diagnostics \cup {NoDiagnostic},
             state'[a] = Failed(state[a], e, x)
      PROVE  FALSE
  <2>1. state'[a].until = Larger(state[a].until, now + e)
    BY <1>1, <1>3, FailedHealth
  <2> QED
    BY <1>1, <2>1 DEF Larger, Health
<1>4. state'[a] = Recovered(state[a])
      /\ \E c \in Callers :
           /\ attempt[c].account = a /\ attempt[c].generation = state[a].generation
           /\ attempt' = [attempt EXCEPT ![c] = Idle]
  BY <1>2, <1>3, HealthStep
<1>5. PICK c \in Callers : /\ attempt[c].account = a
                           /\ attempt[c].generation = state[a].generation
                           /\ attempt' = [attempt EXCEPT ![c] = Idle]
  BY <1>4
<1>6. attempt[c].fresh
  BY <1>5 DEF GenerationDetectsFailure, NoAccount, Accounts
<1>7. attempt'[c] = Idle
  BY <1>5 DEF TypeOK
<1>8. state'[a].until = 0
  BY <1>1, <1>4 DEF Recovered, Health
<1> QED
  BY <1>5, <1>6, <1>7, <1>8 DEF FreshSuccess

\* In every behaviour, a quarantine is lifted only by a fresh success.
THEOREM QuarantineIsRespected == Spec => QuarantineRespected
<1>1. PoolInv /\ [Next]_vars => [LiftedOnlyByFreshSuccess]_vars
  BY LiftStep, PoolAssumption
<1> QED
  BY <1>1, PoolInvariant, PTL DEF Spec, QuarantineRespected

\* Only markSuccess with the present generation binds a session.
LEMMA BindStep ==
  ASSUME PoolAssumption, PoolInv, [Next]_vars
  PROVE  BoundOnlyByFreshSuccess
<1> USE DEF PoolInv
<1> SUFFICES ASSUME NEW k \in Keys, affinity'[k] # affinity[k], affinity'[k] # NoAffinity
             PROVE  \E c \in Callers : KeyOf[c] = k /\ FreshSuccess(c, affinity'[k].account)
  BY DEF BoundOnlyByFreshSuccess
<1>1. ASSUME NEW c \in Callers, Succeed(c)
      PROVE  KeyOf[c] = k /\ FreshSuccess(c, affinity'[k].account)
  <2> DEFINE a == attempt[c].account
  <2>1. a \in Accounts /\ a # NoAccount
    BY <1>1 DEF Succeed, TypeOK, Attempt
  <2>2. MarkSuccess(a, KeyOf[c], attempt[c].generation) /\ attempt'[c] = Idle
    BY <1>1 DEF Succeed, TypeOK
  <2>3. attempt[c].generation = state[a].generation
    BY <2>2 DEF MarkSuccess
  <2>4. attempt[c].fresh
    BY <2>1, <2>3 DEF GenerationDetectsFailure
  <2> HIDE DEF a
  <2>5. PICK old \in Evictions(LiveKeys \ {KeyOf[c]}) :
          affinity' = [j \in Keys |->
             CASE j = KeyOf[c] -> [account |-> a, until |-> now + StickyTtl]
               [] j # KeyOf[c] /\ j \in (LiveKeys \ {KeyOf[c]}) \ old -> affinity[j]
               [] OTHER -> NoAffinity]
    BY <2>2, <2>3 DEF MarkSuccess, a
  <2>6. KeyOf[c] = k
    BY <2>5
  <2>7. affinity'[k] = [account |-> a, until |-> now + StickyTtl]
    BY <2>5, <2>6
  <2> QED
    BY <2>2, <2>4, <2>6, <2>7 DEF FreshSuccess, a
<1>2. ASSUME PruneAffinity PROVE FALSE
  BY <1>2 DEF PruneAffinity
<1>3. ASSUME NEW j \in Keys, MarkSessionFailure(j) PROVE FALSE
  BY <1>3 DEF MarkSessionFailure, TypeOK
<1>4. ASSUME UNCHANGED affinity PROVE FALSE
  BY <1>4
<1>5. CASE \E c \in Callers : Succeed(c)
  BY <1>1, <1>5
<1>6. ASSUME NEW c \in Callers, NEW a, NEW delay, NEW d, NEW also, NEW drop,
             Fail(c, a, delay, d, also, drop)
      PROVE  FALSE
  <2>1. KeyOf[c] \in Keys
    BY DEF PoolAssumption
  <2> QED
    BY <1>3, <1>4, <1>6, <2>1 DEF Fail
<1>7. ASSUME NEW c \in Callers, NEW t \in Targets, NEW e \in SUBSET Accounts,
             Begin(c, t, e) \/ Exhausted(c, t, e)
      PROVE  FALSE
  BY <1>2, <1>7 DEF Begin, Exhausted
<1> QED
  BY <1>4, <1>5, <1>6, <1>7 DEF Next, Finish, CredentialChange, Tick, poolVars, vars

\* In every behaviour, a session is bound only by its own fresh success.
THEOREM AffinityIsEarned == Spec => AffinityEarned
<1>1. PoolInv /\ [Next]_vars => [BoundOnlyByFreshSuccess]_vars
  BY BindStep, PoolAssumption
<1> QED
  BY <1>1, PoolInvariant, PTL DEF Spec, AffinityEarned

--------------------------------------------------------------------------------
(* The size of the affinity map                                            *)

BoundKeys == {k \in Keys : affinity[k].account # NoAccount}

\* The map is finite whatever the set of keys, and at most MAX_STICKY large.
AffinityInv == IsFiniteSet(BoundKeys) /\ Cardinality(BoundKeys) <= MaxSticky

\* A pool just created has no affinity.
LEMMA AffinityInvInit == PoolAssumption /\ Init => AffinityInv
<1> SUFFICES ASSUME PoolAssumption, Init PROVE AffinityInv
  OBVIOUS
<1>1. BoundKeys = {}
  BY DEF Init, BoundKeys, NoAffinity
<1> QED
  BY <1>1, FS_EmptySet DEF AffinityInv, PoolAssumption

\* Fewer keys are no risk.
LEMMA FewerKeys ==
  ASSUME PoolAssumption, AffinityInv, BoundKeys' \subseteq BoundKeys
  PROVE  AffinityInv'
<1>1. IsFiniteSet(BoundKeys') /\ Cardinality(BoundKeys') <= Cardinality(BoundKeys)
  BY FS_Subset DEF AffinityInv
<1>2. Cardinality(BoundKeys) \in Nat /\ Cardinality(BoundKeys') \in Nat /\ MaxSticky \in Nat
  BY <1>1, FS_CardinalityType DEF AffinityInv, PoolAssumption
<1> QED
  BY <1>1, <1>2 DEF AffinityInv

\* markSuccess evicts the oldest entries before the map outgrows its limit.
LEMMA SuccessKeys ==
  ASSUME PoolAssumption, TypeOK, AffinityInv, NEW c \in Callers, Succeed(c)
  PROVE  AffinityInv'
<1> DEFINE a == attempt[c].account
           key == KeyOf[c]
           others == LiveKeys \ {key}
<1>1. CASE state[a].generation # attempt[c].generation
  <2>1. BoundKeys' = BoundKeys
    BY <1>1 DEF Succeed, MarkSuccess, BoundKeys
  <2> QED
    BY <2>1, FewerKeys
<1>2. CASE state[a].generation = attempt[c].generation
  <2>1. PICK old \in Evictions(others) :
          affinity' = [j \in Keys |->
             CASE j = key -> [account |-> a, until |-> now + StickyTtl]
               [] j # key /\ j \in others \ old -> affinity[j]
               [] OTHER -> NoAffinity]
    BY <1>2 DEF Succeed, MarkSuccess
  <2> DEFINE kept == others \ old
  <2>2. IsFiniteSet(others) /\ IsFiniteSet(kept)
    <3>1. others \in SUBSET BoundKeys /\ kept \in SUBSET BoundKeys
      BY DEF LiveKeys, BoundKeys
    <3> QED
      BY <3>1, FS_Subset DEF AffinityInv
  <2>3. Cardinality(kept) = Smaller(Cardinality(others), MaxSticky - 1)
    BY <2>1 DEF Evictions
  <2>4. Cardinality(kept) \in Nat /\ Cardinality(others) \in Nat
    BY <2>2, FS_CardinalityType
  <2>5. Cardinality(kept) + 1 <= MaxSticky
    BY <2>3, <2>4 DEF Smaller, PoolAssumption
  <2>6. BoundKeys' \subseteq kept \cup {key}
    BY <2>1 DEF BoundKeys, NoAffinity
  <2> HIDE DEF kept
  <2>7. IsFiniteSet(kept \cup {key}) /\ Cardinality(kept \cup {key}) <= MaxSticky
    <3>1. IsFiniteSet(kept \cup {key})
          /\ Cardinality(kept \cup {key}) =
               IF key \in kept THEN Cardinality(kept) ELSE Cardinality(kept) + 1
      BY <2>2, FS_AddElement
    <3> QED
      BY <2>4, <2>5, <3>1 DEF PoolAssumption
  <2>8. IsFiniteSet(BoundKeys') /\ Cardinality(BoundKeys') <= Cardinality(kept \cup {key})
    BY <2>6, <2>7, FS_Subset
  <2>9. Cardinality(BoundKeys') \in Nat /\ Cardinality(kept \cup {key}) \in Nat
    BY <2>7, <2>8, FS_CardinalityType
  <2> QED
    BY <2>7, <2>8, <2>9 DEF AffinityInv, PoolAssumption
<1> QED
  BY <1>1, <1>2

\* No step binds more than MAX_STICKY sessions at once.
LEMMA AffinityInvStep ==
  ASSUME PoolAssumption, TypeOK, AffinityInv, [Next]_vars
  PROVE  AffinityInv'
<1>1. ASSUME PruneAffinity PROVE AffinityInv'
  <2>1. BoundKeys' \subseteq BoundKeys
    BY <1>1 DEF PruneAffinity, BoundKeys, NoAffinity, LiveKeys
  <2> QED
    BY <2>1, FewerKeys
<1>2. ASSUME NEW j \in Keys, MarkSessionFailure(j) PROVE AffinityInv'
  <2>1. BoundKeys' \subseteq BoundKeys
    BY <1>2 DEF MarkSessionFailure, BoundKeys, NoAffinity, TypeOK
  <2> QED
    BY <2>1, FewerKeys
<1>3. ASSUME UNCHANGED affinity PROVE AffinityInv'
  BY <1>3 DEF AffinityInv, BoundKeys
<1>4. ASSUME NEW c \in Callers, NEW a, NEW delay, NEW d, NEW also, NEW drop,
             Fail(c, a, delay, d, also, drop)
      PROVE  AffinityInv'
  <2>1. KeyOf[c] \in Keys
    BY DEF PoolAssumption
  <2> QED
    BY <1>2, <1>3, <1>4, <2>1 DEF Fail
<1>5. ASSUME NEW c \in Callers, NEW t \in Targets, NEW e \in SUBSET Accounts,
             Begin(c, t, e) \/ Exhausted(c, t, e)
      PROVE  AffinityInv'
  BY <1>1, <1>5 DEF Begin, Exhausted
<1>6. ASSUME NEW c \in Callers, Succeed(c) PROVE AffinityInv'
  BY <1>6, SuccessKeys
<1> QED
  BY <1>3, <1>4, <1>5, <1>6 DEF Next, Finish, CredentialChange, Tick, poolVars, vars

\* The affinity map is bounded however many sessions there are.
THEOREM AffinityIsBounded == Spec => []AffinityBounded
<1>1. Init => AffinityInv
  BY AffinityInvInit, PoolAssumption
<1>2. TypeOK /\ AffinityInv /\ [Next]_vars => AffinityInv'
  BY AffinityInvStep, PoolAssumption
<1>3. AffinityInv => AffinityBounded
  BY DEF AffinityInv, AffinityBounded, BoundKeys
<1> QED
  BY <1>1, <1>2, <1>3, TypeCorrect, PTL DEF Spec

--------------------------------------------------------------------------------
(* Callers that exclude or blame more than the next-state relation names   *)

\* Excluding what is no account excludes nothing.
LEMMA ExcludedAccounts ==
  ASSUME PoolAssumption, NEW t \in Targets, NEW e
  PROVE  /\ Available(t, e) = Available(t, e \cap Accounts)
         /\ \A k \in Keys : Selected(t, k, e) = Selected(t, k, e \cap Accounts)
<1>1. Available(t, e) = Available(t, e \cap Accounts)
  BY DEF Available, PoolAssumption
<1> QED
  BY <1>1 DEF Selected

\* A selection with any exclusions is a step of the pool.
LEMMA BeginIsStep ==
  ASSUME PoolAssumption, NEW c \in Callers, NEW t \in Targets, NEW e, Begin(c, t, e)
  PROVE  Next
<1>1. KeyOf[c] \in Keys
  BY DEF PoolAssumption
<1>2. Begin(c, t, e \cap Accounts)
  BY <1>1, ExcludedAccounts DEF Begin
<1> QED
  BY <1>2 DEF Next

\* So is a selection that finds no account.
LEMMA ExhaustedIsStep ==
  ASSUME PoolAssumption, NEW c \in Callers, NEW t \in Targets, NEW e, Exhausted(c, t, e)
  PROVE  Next
<1>1. Exhausted(c, t, e \cap Accounts)
  BY ExcludedAccounts DEF Exhausted
<1> QED
  BY <1>1 DEF Next

\* A failure that names its account twice counts it once.
LEMMA FailIsStep ==
  ASSUME NEW c \in Callers, NEW a, NEW delay, NEW d \in Diagnostics \cup {NoDiagnostic},
         NEW also, NEW drop \in BOOLEAN, Fail(c, a, delay, d, also, drop)
  PROVE  Next
<1> DEFINE others == also \ {a}
<1>1. {a} \cup others = {a} \cup also
  OBVIOUS
<1>2. MarkFailures(a, delay, d, others)
  BY DEF Fail, MarkFailures
<1>3. Fail(c, a, delay, d, others, drop)
  BY <1>1, <1>2 DEF Fail
<1>4. a \in attempt[c].tried /\ others \in SUBSET (attempt[c].tried \ {a}) /\ delay \in Delays(a)
  BY DEF Fail
<1> HIDE DEF others
<1> QED
  BY <1>3, <1>4 DEF Next
================================================================================
