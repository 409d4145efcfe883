------------------------------ MODULE AccountPool ------------------------------
(***************************************************************************)
(* The OpenCode account pool (opencode-account-pool.mjs): health of every  *)
(* account, sticky affinity of every session, and the order in which       *)
(* interleaved requests may report on the attempts they made.              *)
(*                                                                         *)
(* The pool is a passive object: select() hands out an account, the caller *)
(* notes the account's generation and awaits an upstream, and any number   *)
(* of other callers report in between.  An account is its slot number.     *)
(***************************************************************************)
EXTENDS Integers, FiniteSets

CONSTANTS
  NumAccounts,     \* accounts, in configuration order
  Keys,            \* sticky keys (principal and session hashes)
  Callers,         \* requests that may be in flight at once
  KeyOf,           \* KeyOf[c]: the sticky key of request c
  Targets,         \* (endpoint, model) pairs a request may be for
  Serves,          \* Serves[t]: accounts configured for target t
  Volatile,        \* accounts whose credential file may change meanwhile
  BaseCooldown,    \* 5 s
  MaxCooldown,     \* MAX_COOLDOWN_MS
  MinRetryAfter,   \* 1 s
  MaxRetryAfter,   \* MAX_RETRY_AFTER_MS
  StickyTtl,       \* 1 h
  MaxSticky,       \* MAX_STICKY
  RetryAfters,     \* retry-after values an upstream or a caller may give
  Diagnostics,     \* diagnostics a caller may attach to a failure
  NoDiagnostic,
  Horizon,         \* bound: last instant of the clock
  MaxFailures      \* bound: failures ever counted against one account

Accounts == 1..NumAccounts

ASSUME PoolAssumption ==
  /\ NumAccounts \in Nat \ {0}
  /\ KeyOf \in [Callers -> Keys]
  /\ Serves \in [Targets -> SUBSET Accounts]
  /\ Volatile \subseteq Accounts
  /\ BaseCooldown \in Nat \ {0} /\ MaxCooldown \in Nat /\ MaxCooldown >= BaseCooldown
  /\ MinRetryAfter \in Nat \ {0} /\ MaxRetryAfter \in Nat /\ MaxRetryAfter >= MinRetryAfter
  /\ StickyTtl \in Nat \ {0} /\ MaxSticky \in Nat \ {0}
  /\ RetryAfters \subseteq Int
  /\ NoDiagnostic \notin Diagnostics
  /\ Horizon \in Nat /\ MaxFailures \in Nat

VARIABLES
  now,           \* Date.now()
  credentialed,  \* accounts whose credential can be read
  state,         \* health of every account
  affinity,      \* sticky key -> account that last served it
  attempt        \* what each caller remembers of its attempts

poolVars == <<now, credentialed, state, affinity>>
vars == <<now, credentialed, state, affinity, attempt>>

NoAccount == 0
NoAffinity == [account |-> NoAccount, until |-> 0]
Healthy == [until |-> 0, failures |-> 0, generation |-> 0, diagnostic |-> NoDiagnostic]

Larger(x, y) == IF x >= y THEN x ELSE y
Smaller(x, y) == IF x <= y THEN x ELSE y

\* 2 ** Math.min(failures - 1, 4)
Doubling == <<1, 2, 4, 8, 16>>
Backoff(failures) == Smaller(BaseCooldown * Doubling[Smaller(failures, 5)], MaxCooldown)
RetryDelay(ms) == Larger(MinRetryAfter, Smaller(ms, MaxRetryAfter))

--------------------------------------------------------------------------------
(* The operations of the pool                                              *)

Available(target, exclude) ==
  {a \in Serves[target] \ exclude : a \in credentialed /\ state[a].until <= now}

First(accounts) == CHOOSE a \in accounts : \A b \in accounts : a <= b

\* The account select() returns; the caller checks that there is a candidate.
Selected(target, key, exclude) ==
  LET candidates == Available(target, exclude)
      sticky == affinity[key]
  IN  IF sticky.until > now /\ sticky.account \in candidates
      THEN sticky.account
      ELSE First(candidates)

LiveKeys == {k \in Keys : affinity[k].account # NoAccount /\ affinity[k].until > now}

PruneAffinity ==
  affinity' = [k \in Keys |-> IF k \in LiveKeys THEN affinity[k] ELSE NoAffinity]

\* Sets of keys whose eviction leaves room for one entry: the oldest first.
\* Map order is age, so entries of one instant may go in either order.
Evictions(live) ==
  {old \in SUBSET live :
     /\ Cardinality(live \ old) = Smaller(Cardinality(live), MaxSticky - 1)
     /\ \A i \in old, j \in live \ old : affinity[i].until <= affinity[j].until}

Recovered(health) == [health EXCEPT !.until = 0, !.failures = 0, !.diagnostic = NoDiagnostic]

\* Slips: the generation is not compared; it guards the health but not the session.
MarkSuccessAnyGeneration(a, key, generation) ==
  /\ state' = [state EXCEPT ![a] = Recovered(@)]
  /\ affinity' = [affinity EXCEPT ![key] = [account |-> a, until |-> now + StickyTtl]]
MarkSuccessBindsStale(a, key, generation) ==
  /\ state' = [state EXCEPT ![a] = IF @.generation = generation THEN Recovered(@) ELSE @]
  /\ affinity' = [affinity EXCEPT ![key] = [account |-> a, until |-> now + StickyTtl]]

MarkSuccess(a, key, generation) ==
  IF state[a].generation # generation
  THEN UNCHANGED <<state, affinity>>
  ELSE /\ state' = [state EXCEPT ![a] = Recovered(@)]
       /\ LET others == LiveKeys \ {key}
          IN \E old \in Evictions(others) :
               affinity' = [k \in Keys |->
                  CASE k = key -> [account |-> a, until |-> now + StickyTtl]
                    [] k # key /\ k \in others \ old -> affinity[k]
                    [] OTHER -> NoAffinity]

\* Slip: the generation is not advanced.
FailedSameGeneration(health, delay, diagnostic) ==
  [health EXCEPT !.until = Larger(@, now + delay), !.failures = @ + 1]

Failed(health, delay, diagnostic) ==
  [until      |-> Larger(health.until, now + delay),
   failures   |-> health.failures + 1,
   generation |-> health.generation + 1,
   diagnostic |-> IF diagnostic # NoDiagnostic /\ now + delay >= health.until
                  THEN diagnostic ELSE health.diagnostic]

\* markFailure(a), and then the default backoff of each account of "also".
MarkFailures(a, delay, diagnostic, also) ==
  state' = [b \in Accounts |->
              CASE b = a -> Failed(state[b], delay, diagnostic)
                [] b # a /\ b \in also -> Failed(state[b], Backoff(state[b].failures + 1), NoDiagnostic)
                [] OTHER -> state[b]]

\* Deletes the key whichever account it points to.
MarkSessionFailure(key) == affinity' = [affinity EXCEPT ![key] = NoAffinity]

--------------------------------------------------------------------------------
(* A caller: selects, awaits, reports, and may select again                *)

Idle == [account |-> NoAccount, generation |-> 0, fresh |-> FALSE, tried |-> {}]

\* The delays a failure of account a may be given.
Delays(a) == {Backoff(state[a].failures + 1)} \cup {RetryDelay(ms) : ms \in RetryAfters}

Begin(c, target, exclude) ==
  /\ Available(target, exclude) # {}
  /\ LET a == Selected(target, KeyOf[c], exclude)
     IN attempt' = [attempt EXCEPT ![c] =
           [account |-> a, generation |-> state[a].generation,
            fresh |-> TRUE, tried |-> attempt[c].tried \cup {a}]]
  /\ PruneAffinity
  /\ UNCHANGED <<now, credentialed, state>>

Succeed(c) ==
  /\ attempt[c].account # NoAccount
  /\ MarkSuccess(attempt[c].account, KeyOf[c], attempt[c].generation)
  /\ attempt' = [attempt EXCEPT ![c] = Idle]
  /\ UNCHANGED <<now, credentialed>>

\* select() returns null: the caller may still hold an earlier attempt.
Exhausted(c, target, exclude) ==
  /\ Available(target, exclude) = {}
  /\ PruneAffinity
  /\ UNCHANGED <<now, credentialed, state, attempt>>

\* A failure of account a, reported in one turn of the event loop with the
\* failures of the accounts "also" and, if "drop", the loss of the session.
\* "fresh" is a history variable: no failure was counted against the account
\* since the attempt selected it.
Fail(c, a, delay, diagnostic, also, drop) ==
  /\ {a} \cup also \subseteq attempt[c].tried
  /\ delay \in Delays(a)
  /\ \A b \in {a} \cup also : state[b].generation < MaxFailures
  /\ MarkFailures(a, delay, diagnostic, also)
  /\ IF drop THEN MarkSessionFailure(KeyOf[c]) ELSE UNCHANGED affinity
  /\ attempt' = [d \in Callers |->
                   [attempt[d] EXCEPT !.fresh = @ /\ attempt[d].account \notin {a} \cup also]]
  /\ UNCHANGED <<now, credentialed>>

\* The caller is answered, gives up or is cancelled.
Finish(c) ==
  /\ attempt[c] # Idle
  /\ attempt' = [attempt EXCEPT ![c] = Idle]
  /\ UNCHANGED poolVars

\* A credential file appears, disappears or loses its access token.
CredentialChange(a) ==
  /\ credentialed' = (credentialed \cup {a}) \ (credentialed \cap {a})
  /\ UNCHANGED <<now, state, affinity, attempt>>

Tick ==
  /\ now < Horizon
  /\ now' = now + 1
  /\ UNCHANGED <<credentialed, state, affinity, attempt>>

Init ==
  /\ now = 0
  /\ credentialed \in {readable \in SUBSET Accounts : Accounts \ Volatile \subseteq readable}
  /\ state = [a \in Accounts |-> Healthy]
  /\ affinity = [k \in Keys |-> NoAffinity]
  /\ attempt = [c \in Callers |-> Idle]

Next ==
  \/ \E c \in Callers, t \in Targets, e \in SUBSET Accounts : Begin(c, t, e)
  \/ \E c \in Callers : Succeed(c)
  \/ \E c \in Callers, t \in Targets, e \in SUBSET Accounts : Exhausted(c, t, e)
  \/ \E c \in Callers, d \in Diagnostics \cup {NoDiagnostic}, drop \in BOOLEAN :
       \E a \in attempt[c].tried : \E also \in SUBSET (attempt[c].tried \ {a}), delay \in Delays(a) :
         Fail(c, a, delay, d, also, drop)
  \/ \E c \in Callers : Finish(c)
  \/ \E a \in Volatile : CredentialChange(a)
  \/ Tick

Spec == Init /\ [][Next]_vars

--------------------------------------------------------------------------------
(* Properties                                                              *)

Health == [until : Nat, failures : Nat, generation : Nat,
           diagnostic : Diagnostics \cup {NoDiagnostic}]
Affinity == [account : Accounts \cup {NoAccount}, until : Nat]
Attempt == [account : Accounts \cup {NoAccount}, generation : Nat,
            fresh : BOOLEAN, tried : SUBSET Accounts]

\* The type invariant of the pool and of its callers.
TypeOK ==
  /\ now \in Nat
  /\ credentialed \in SUBSET Accounts
  /\ state \in [Accounts -> Health]
  /\ affinity \in [Keys -> Affinity]
  /\ attempt \in [Callers -> Attempt]

\* markSuccess and markFailure keep the counters of an account in step: it is
\* quarantined, or was, exactly when a failure is counted since its last
\* recovery, and only then can it carry a diagnostic to report.
QuarantineAccounted ==
  \A a \in Accounts :
    /\ state[a].failures = 0 <=> state[a].until = 0
    /\ state[a].failures <= state[a].generation
    /\ state[a].diagnostic # NoDiagnostic => state[a].failures > 0

\* No interleaving of failures, retry-afters and recoveries quarantines an
\* account further into the future than the longest delay the code allows.
QuarantineBounded ==
  \A a \in Accounts : state[a].until <= now + Larger(MaxRetryAfter, MaxCooldown)

\* The generation a caller noted tells, at every later moment, whether its
\* account has failed since: it equals the account's generation exactly then.
GenerationDetectsFailure ==
  \A c \in Callers : attempt[c].account # NoAccount =>
    LET a == attempt[c].account
    IN /\ a \in attempt[c].tried
       /\ attempt[c].generation <= state[a].generation
       /\ attempt[c].fresh <=> attempt[c].generation = state[a].generation

\* The affinity map never outgrows MAX_STICKY.
AffinityBounded == Cardinality({k \in Keys : affinity[k].account # NoAccount}) <= MaxSticky

\* c reports the success of an attempt whose account has not failed since.
FreshSuccess(c, a) ==
  attempt[c].account = a /\ attempt[c].fresh /\ attempt'[c] = Idle

\* A quarantine is never shortened by a later failure, and it is lifted only by
\* a success of an attempt that selected the account after its last failure:
\* an answer that was already under way cannot reopen a failed account.
LiftedOnlyByFreshSuccess ==
  \A a \in Accounts : state'[a].until < state[a].until =>
    /\ state'[a].until = 0
    /\ \E c \in Callers : FreshSuccess(c, a)

\* A session is bound to an account only by a fresh success of that session's
\* own request on that account, never by a stale one.
BoundOnlyByFreshSuccess ==
  \A k \in Keys : affinity'[k] # affinity[k] /\ affinity'[k] # NoAffinity =>
    \E c \in Callers : KeyOf[c] = k /\ FreshSuccess(c, affinity'[k].account)

QuarantineRespected == [][LiftedOnlyByFreshSuccess]_vars
AffinityEarned == [][BoundOnlyByFreshSuccess]_vars
================================================================================
