---------------------------- MODULE SystemOneProofs ----------------------------
(***************************************************************************)
(* What TLAPS proves of the native calls, for any number of calls, chat    *)
(* requests and accounts: they use the pool as it is meant to be used, so  *)
(* all that is proved of the pool holds with them, and they keep their     *)
(* budgets.                                                                *)
(***************************************************************************)
EXTENDS SystemOne, AccountPoolProofs

CallAssumption == SystemOneAssumption /\ PoolAssumption

\* A call that ends lets go of its attempt.
LEMMA EndStep ==
  ASSUME CallAssumption, NEW c \in Native, NEW reply, End(c, reply)
  PROVE  [Next]_vars
<1>1. c \in Callers
  BY DEF CallAssumption, SystemOneAssumption
<1> QED
  BY <1>1 DEF End, Next

\* A failure the call reports is one the pool allows.
LEMMA FailingStep ==
  ASSUME CallAssumption, NEW c \in Native, NEW ms, Failing(c, ms)
  PROVE  Next
<1>1. c \in Callers
  BY DEF CallAssumption, SystemOneAssumption
<1> QED
  BY <1>1, FailIsStep DEF Failing

\* What the catch block does is a step of the pool.
LEMMA CaughtStep ==
  ASSUME CallAssumption, NEW c \in Native, Caught(c)
  PROVE  [Next]_vars
BY EndStep, FailingStep DEF Caught

\* Every step of a call, of a chat request or of the environment is a step of the
\* pool or leaves it alone.
LEMMA ImplementationStep ==
  ASSUME CallAssumption, CallTypeOK, [CallNext]_callVars
  PROVE  [Next]_vars
<1>1. Native \subseteq Callers /\ ModelOf \in [Native -> Targets]
  BY DEF CallAssumption, SystemOneAssumption
<1>2. ASSUME NEW c \in Native, Start(c) \/ Abort(c) PROVE [Next]_vars
  BY <1>2 DEF Start, Abort
<1>3. ASSUME NEW c \in Native, Loop(c) PROVE [Next]_vars
  <2>1. call[c].excluded \in SUBSET Accounts /\ ModelOf[c] \in Targets
    BY <1>1 DEF CallTypeOK
  <2>2. CASE GiveUp(c)
    BY <2>2, EndStep DEF GiveUp
  <2>3. CASE SelectAccount(c)
    BY <1>1, <2>1, <2>3 DEF SelectAccount, Next
  <2>4. CASE NoAccountLeft(c)
    BY <1>1, <2>1, <2>4 DEF NoAccountLeft, Next
  <2>5. CASE Over(c)
    BY <2>5, EndStep DEF Over
  <2> QED
    BY <1>3, <2>2, <2>3, <2>4, <2>5 DEF Loop
<1>4. ASSUME NEW c \in Native, Timeout(c) PROVE [Next]_vars
  BY <1>4, CaughtStep DEF Timeout
<1>5. ASSUME NEW c \in Native, AbortNoticed(c) \/ Rejected(c) PROVE [Next]_vars
  BY <1>5, EndStep DEF AbortNoticed, Rejected
<1>6. ASSUME NEW c \in Native, Refused(c) PROVE [Next]_vars
  BY <1>6, FailingStep DEF Refused
<1>7. ASSUME NEW c \in Native, Awaiting(c) PROVE [Next]_vars
  <2>1. CASE TokenArrives(c)
    BY <2>1, EndStep DEF TokenArrives
  <2>2. CASE TokenMissing(c) \/ Breaks(c)
    BY <2>2, CaughtStep DEF TokenMissing, Breaks
  <2>3. CASE Answers(c)
    BY <1>1, <2>3 DEF Answers, Next
  <2>4. ASSUME NEW pc, NEW ms, Refuses(c, pc, ms) PROVE [Next]_vars
    BY <2>4 DEF Refuses
  <2> QED
    BY <1>7, <2>1, <2>2, <2>3, <2>4 DEF Awaiting
<1>8. ASSUME NEW c \in Callers \ Native, Chat(c) PROVE [Next]_vars
  <2>1. ASSUME NEW t \in Targets, NEW e, Begin(c, t, e) PROVE Next
    BY <2>1, BeginIsStep DEF CallAssumption
  <2>2. ASSUME NEW a, NEW drop \in BOOLEAN, NEW delay, Fail(c, a, delay, NoDiagnostic, {}, drop)
        PROVE  Next
    BY <2>2, FailIsStep
  <2> QED
    BY <1>8, <2>1, <2>2 DEF Chat, Next
<1>9. CASE Clock \/ Credentials
  BY <1>9 DEF Clock, Credentials, Next
<1>10. CASE UNCHANGED callVars
  BY <1>10 DEF callVars
<1> QED
  BY <1>2, <1>3, <1>4, <1>5, <1>6, <1>7, <1>8, <1>9, <1>10 DEF CallNext

--------------------------------------------------------------------------------
(* Typing and time                                                         *)

Call == [pc : {"idle", "head", "token", "upstream", "refused", "rejected", "over", "done"},
         excluded : SUBSET Accounts, attempts : 0..MaxAttempts, aborted : BOOLEAN,
         deadline : Nat, due : Nat, asked : Asked \cup {NotAsked},
         reply : {"none", "ok", "failed", "late", "cancelled", "rejected"}]

\* What holds of one call: while it runs it keeps to its deadline, and the time
\* it has used is covered by the attempts it has made.
InTime(q) ==
  /\ q.pc = "idle" => q.excluded = {} /\ q.attempts = 0
  /\ q.pc # "done" => q.reply = "none"
  /\ q.reply = "late" => q.attempts * AttemptBudget >= Budget
  /\ q.pc \notin {"idle", "done"} =>
       /\ Cardinality(q.excluded) = q.attempts
       /\ now <= q.deadline
       /\ q.pc \notin {"token", "upstream"} =>
            now + Budget <= q.deadline + q.attempts * AttemptBudget
       /\ q.pc \in {"token", "upstream"} =>
            /\ now <= q.due /\ q.due <= q.deadline
            /\ q.due + Budget <= q.deadline + q.attempts * AttemptBudget

\* The inductive invariant.
CallInv ==
  /\ TypeOK
  /\ call \in [Native -> Call]
  /\ \A c \in Native : InTime(call[c])

\* No call has begun.
LEMMA CallInvInit == CallAssumption /\ CallInit => CallInv
<1> SUFFICES ASSUME CallAssumption, CallInit PROVE CallInv
  OBVIOUS
<1>1. TypeOK
  BY TypeInit DEF CallInit, CallAssumption
<1>2. NewCall \in Call
  BY DEF NewCall, Call, NotAsked, CallAssumption, SystemOneAssumption
<1>3. InTime(NewCall)
  BY DEF NewCall, InTime
<1> QED
  BY <1>1, <1>2, <1>3 DEF CallInv, CallInit

\* A step of one call leaves the others as they are.
LEMMA OneCall ==
  ASSUME CallInv, TypeOK', NEW c \in Native, NEW q \in Call, call' = [call EXCEPT ![c] = q],
         now' = now, InTime(q)
  PROVE  CallInv'
<1>1. call' \in [Native -> Call]
  BY DEF CallInv
<1>2. ASSUME NEW d \in Native PROVE InTime(call[d])'
  <2>1. CASE d = c
    <3>1. call'[d] = q
      BY <2>1 DEF CallInv
    <3> QED
      BY <3>1 DEF InTime
  <2>2. CASE d # c
    <3>1. call'[d] = call[d] /\ InTime(call[d])
      BY <2>2 DEF CallInv
    <3> QED
      BY <3>1 DEF InTime
  <2> QED
    BY <2>1, <2>2
<1> QED
  BY <1>1, <1>2 DEF CallInv

\* A call that ends keeps what it has counted.
LEMMA EndInv ==
  ASSUME CallAssumption, CallInv, TypeOK', NEW c \in Native,
         NEW reply \in {"ok", "failed", "late", "cancelled", "rejected"}, End(c, reply),
         reply = "late" => call[c].attempts * AttemptBudget >= Budget
  PROVE  CallInv'
<1> DEFINE q == [call[c] EXCEPT !.pc = "done", !.reply = reply]
<1>1. q \in Call
  BY DEF CallInv, Call
<1>2. q.pc = "done" /\ q.reply = reply /\ q.attempts = call[c].attempts
  BY DEF CallInv, Call
<1>3. InTime(q)
  BY <1>2 DEF InTime
<1>4. now' = now /\ call' = [call EXCEPT ![c] = q]
  BY DEF End, Become, vars, Finish, poolVars
<1> HIDE DEF q
<1> QED
  BY <1>1, <1>3, <1>4, OneCall DEF CallInv

\* A failure takes no time: the attempt had not outlived its timer.
LEMMA FailingInv ==
  ASSUME CallAssumption, CallInv, TypeOK', NEW c \in Native,
         call[c].pc \in {"token", "upstream", "refused"},
         NEW ms, Failing(c, ms)
  PROVE  CallInv'
<1> DEFINE q == [call[c] EXCEPT !.pc = "head"]
<1>1. q \in Call
  BY DEF CallInv, Call
<1>2. InTime(call[c]) /\ call[c] \in Call /\ now \in Nat
  BY DEF CallInv, TypeOK
<1>3. InTime(q)
  <2>1. /\ q.pc = "head" /\ q.attempts = call[c].attempts /\ q.deadline = call[c].deadline
        /\ q.excluded = call[c].excluded /\ q.reply = call[c].reply
    BY <1>2 DEF Call
  <2>2. call[c].due \in Nat /\ call[c].deadline \in Nat /\ call[c].attempts * AttemptBudget \in Nat /\ Budget \in Nat
    BY <1>2 DEF Call, CallAssumption, SystemOneAssumption
  <2> HIDE DEF q
  <2> DEFINE worth == call[c].attempts * AttemptBudget
  <2>3. now + Budget <= call[c].deadline + worth
    <3> SUFFICES ASSUME call[c].pc \in {"token", "upstream"} PROVE now + Budget <= call[c].deadline + worth
      BY <1>2 DEF InTime
    <3>1. now <= call[c].due /\ call[c].due + Budget <= call[c].deadline + worth
      BY <1>2 DEF InTime
    <3>2. worth \in Nat
      BY <2>2
    <3> HIDE DEF worth
    <3> QED
      BY <1>2, <2>2, <3>1, <3>2
  <2> QED
    BY <1>2, <2>1, <2>3 DEF InTime
<1>4. now' = now /\ call' = [call EXCEPT ![c] = q]
  BY DEF Failing, Fail, Become
<1> HIDE DEF q
<1> QED
  BY <1>1, <1>3, <1>4, OneCall

\* Neither does what the catch block does.
LEMMA CaughtInv ==
  ASSUME CallAssumption, CallInv, TypeOK', NEW c \in Native,
         call[c].pc \in {"token", "upstream"}, Caught(c)
  PROVE  CallInv'
<1>1. CASE call[c].aborted
  BY <1>1, EndInv DEF Caught
<1>2. CASE ~call[c].aborted
  BY <1>2, FailingInv DEF Caught, CallInv
<1> QED
  BY <1>1, <1>2

\* A new attempt asks an account not asked before, and its timer is set within
\* the deadline and within one attempt budget.
LEMMA SelectInv ==
  ASSUME CallAssumption, CallInv, TypeOK', NEW c \in Native, SelectAccount(c)
  PROVE  CallInv'
<1> DEFINE a == Selected(ModelOf[c], KeyOf[c], call[c].excluded)
           q == [call[c] EXCEPT !.pc = "token", !.attempts = @ + 1, !.due = Timer(c),
                   !.excluded = @ \cup {a}]
<1>1. /\ call[c] \in Call /\ InTime(call[c]) /\ now \in Nat
      /\ AttemptBudget \in Nat \ {0} /\ Budget \in Nat /\ MaxAttempts \in Nat
      /\ call[c].pc = "head" /\ call[c].attempts < MaxAttempts /\ now < call[c].deadline
  BY DEF CallInv, TypeOK, SelectAccount, Looping, On, CallAssumption, SystemOneAssumption
<1>2. /\ call[c].excluded \in SUBSET Accounts /\ call[c].attempts \in Nat /\ call[c].deadline \in Nat
      /\ now + Budget <= call[c].deadline + call[c].attempts * AttemptBudget
      /\ Cardinality(call[c].excluded) = call[c].attempts /\ call[c].reply = "none"
  BY <1>1 DEF Call, InTime
<1>3. a \in Accounts /\ a \notin call[c].excluded
  <2>1. c \in Callers /\ KeyOf[c] \in Keys /\ ModelOf[c] \in Targets /\ PoolAssumption
    BY DEF CallAssumption, SystemOneAssumption, PoolAssumption
  <2>2. Available(ModelOf[c], call[c].excluded) # {}
    BY DEF SelectAccount, Begin
  <2>3. a \in Available(ModelOf[c], call[c].excluded)
    BY <1>2, <2>1, <2>2, SelectedIsAvailable
  <2> QED
    BY <2>1, <2>3 DEF Available, PoolAssumption
<1> HIDE DEF a
<1>4. /\ Timer(c) \in Nat /\ now <= Timer(c) /\ Timer(c) <= call[c].deadline
      /\ Timer(c) <= now + AttemptBudget
  BY <1>1, <1>2 DEF Timer, Smaller
<1>5. q \in Call
  <2>1. call[c].attempts + 1 \in 0..MaxAttempts
    BY <1>1, <1>2
  <2>2. call[c].excluded \cup {a} \in SUBSET Accounts
    BY <1>2, <1>3
  <2> QED
    BY <1>1, <1>4, <2>1, <2>2 DEF Call
<1>6. /\ q.pc = "token" /\ q.attempts = call[c].attempts + 1 /\ q.due = Timer(c)
      /\ q.deadline = call[c].deadline /\ q.excluded = call[c].excluded \cup {a}
      /\ q.reply = "none"
  BY <1>1, <1>2 DEF Call
<1>7. Cardinality(q.excluded) = q.attempts
  <2>1. IsFiniteSet(call[c].excluded)
    <3>1. IsFiniteSet(Accounts)
      BY FS_Interval DEF Accounts, CallAssumption, PoolAssumption
    <3> QED
      BY <1>2, <3>1, FS_Subset
  <2>2. Cardinality(call[c].excluded \cup {a}) = Cardinality(call[c].excluded) + 1
    BY <1>3, <2>1, FS_AddElement
  <2> QED
    BY <1>2, <1>6, <2>2
<1>8. q.due + Budget <= q.deadline + q.attempts * AttemptBudget
  <2>1. q.attempts * AttemptBudget = call[c].attempts * AttemptBudget + AttemptBudget
    BY <1>1, <1>2, <1>6
  <2>2. call[c].attempts * AttemptBudget \in Nat
    BY <1>1, <1>2
  <2> DEFINE worth == call[c].attempts * AttemptBudget
  <2>3. worth \in Nat /\ now + Budget <= call[c].deadline + worth
    BY <1>2, <2>2
  <2>4. Timer(c) + Budget <= call[c].deadline + (worth + AttemptBudget)
    <3> HIDE DEF worth
    <3> QED
      BY <1>1, <1>2, <1>4, <2>3
  <2> QED
    BY <1>6, <2>1, <2>4
<1> HIDE DEF q
<1>9. InTime(q)
  BY <1>1, <1>4, <1>6, <1>7, <1>8 DEF InTime
<1>10. now' = now /\ call' = [call EXCEPT ![c] = q]
  BY DEF SelectAccount, Become, Begin, q, a
<1> QED
  BY <1>5, <1>9, <1>10, OneCall DEF CallInv

\* q is the call p after it moved from one await to the next, or noted the abort.
Moved(p, q) ==
  /\ \/ q.pc = p.pc
     \/ p.pc = "token" /\ q.pc = "upstream"
     \/ p.pc = "upstream" /\ q.pc \in {"refused", "rejected"}
     \/ p.pc = "head" /\ q.pc = "over"
  /\ q.excluded = p.excluded /\ q.attempts = p.attempts
  /\ q.deadline = p.deadline /\ q.due = p.due /\ q.reply = p.reply

\* Such a step keeps the invariant: it takes no time.
LEMMA MoveInv ==
  ASSUME CallAssumption, CallInv, TypeOK', NEW c \in Native, NEW q \in Call,
         call' = [call EXCEPT ![c] = q], now' = now, Moved(call[c], q)
  PROVE  CallInv'
<1>1. call[c] \in Call /\ InTime(call[c]) /\ now \in Nat
  BY DEF CallInv, TypeOK
<1>2. call[c].due \in Nat /\ call[c].deadline \in Nat /\ Budget \in Nat /\ call[c].attempts * AttemptBudget \in Nat
  BY <1>1 DEF Call, CallAssumption, SystemOneAssumption
<1>3. /\ q.excluded = call[c].excluded /\ q.attempts = call[c].attempts
      /\ q.deadline = call[c].deadline /\ q.due = call[c].due /\ q.reply = call[c].reply
  BY DEF Moved
<1>4. InTime(q)
  <2>1. CASE call[c].pc = "upstream" /\ q.pc \in {"refused", "rejected"}
    <3> DEFINE worth == call[c].attempts * AttemptBudget
    <3>1. now <= call[c].due /\ call[c].due + Budget <= call[c].deadline + worth /\ worth \in Nat
      BY <1>1, <1>2, <2>1 DEF InTime
    <3>2. now + Budget <= call[c].deadline + worth
      <4> HIDE DEF worth
      <4> QED
        BY <1>1, <1>2, <3>1
    <3> QED
      BY <1>1, <1>3, <2>1, <3>2 DEF InTime
  <2>2. CASE q.pc = call[c].pc
    BY <1>1, <1>3, <2>2 DEF InTime
  <2>3. CASE call[c].pc = "token" /\ q.pc = "upstream"
    BY <1>1, <1>3, <2>3 DEF InTime
  <2>4. CASE call[c].pc = "head" /\ q.pc = "over"
    BY <1>1, <1>3, <2>4 DEF InTime
  <2> QED
    BY <2>1, <2>2, <2>3, <2>4 DEF Moved
<1> QED
  BY <1>4, OneCall DEF CallInv

\* A step that leaves the calls and the clock as they are.
LEMMA QuietInv ==
  ASSUME CallInv, TypeOK', UNCHANGED <<now, call>>
  PROVE  CallInv'
BY DEF CallInv, InTime

\* A new call has its whole budget ahead of it.
LEMMA StartInv ==
  ASSUME CallAssumption, CallInv, TypeOK', NEW c \in Native, Start(c)
  PROVE  CallInv'
<1> DEFINE q == [call[c] EXCEPT !.pc = "head", !.deadline = now + Budget]
<1>1. call[c] \in Call /\ InTime(call[c]) /\ call[c].pc = "idle" /\ now \in Nat /\ Budget \in Nat
  BY DEF CallInv, TypeOK, Start, On, CallAssumption, SystemOneAssumption
<1>2. q \in Call
  <2>1. now + Budget \in Nat
    BY <1>1
  <2> QED
    BY <1>1, <2>1 DEF Call
<1>3. /\ q.pc = "head" /\ q.excluded = {} /\ q.attempts = 0
      /\ q.deadline = now + Budget /\ q.reply = "none"
  BY <1>1 DEF Call, InTime
<1> HIDE DEF q
<1>4. InTime(q)
  <2>1. q.attempts * AttemptBudget = 0
    BY <1>3 DEF CallAssumption, SystemOneAssumption
  <2>2. Cardinality(q.excluded) = 0
    BY <1>3, FS_EmptySet
  <2> QED
    BY <1>1, <1>3, <2>1, <2>2 DEF InTime
<1>5. now' = now /\ call' = [call EXCEPT ![c] = q]
  BY DEF Start, Become, vars, q
<1> QED
  BY <1>2, <1>4, <1>5, OneCall DEF CallInv

\* The call that runs out of time has used what its attempts are worth.
LEMMA GiveUpInv ==
  ASSUME CallAssumption, CallInv, TypeOK', NEW c \in Native, GiveUp(c)
  PROVE  CallInv'
<1>1. CASE End(c, "failed") \/ End(c, "cancelled")
  BY <1>1, EndInv
<1>2. CASE now >= call[c].deadline /\ End(c, "late")
  <2> DEFINE worth == call[c].attempts * AttemptBudget
  <2>1. /\ call[c] \in Call /\ now \in Nat /\ Budget \in Nat
        /\ now + Budget <= call[c].deadline + worth
    BY DEF CallInv, InTime, TypeOK, GiveUp, On, CallAssumption, SystemOneAssumption
  <2>2. worth \in Nat /\ call[c].deadline \in Nat
    BY <2>1 DEF Call, CallAssumption, SystemOneAssumption
  <2>3. worth >= Budget
    <3> HIDE DEF worth
    <3> QED
      BY <1>2, <2>1, <2>2
  <2> QED
    BY <1>2, <2>3, EndInv
<1> QED
  BY <1>1, <1>2 DEF GiveUp

\* The steps of a call between its awaits keep the invariant.
LEMMA AwaitingInv ==
  ASSUME CallAssumption, CallInv, TypeOK', NEW c \in Native, Awaiting(c)
  PROVE  CallInv'
<1>1. call[c] \in Call
  BY DEF CallInv
<1>2. CASE TokenArrives(c)
  <2>1. CASE call[c].aborted
    BY <1>2, <2>1, EndInv DEF TokenArrives
  <2>2. CASE ~call[c].aborted
    <3> DEFINE q == [call[c] EXCEPT !.pc = "upstream"]
    <3>1. q \in Call /\ Moved(call[c], q)
      BY <1>1, <1>2 DEF Call, Moved, TokenArrives, On
    <3>2. call' = [call EXCEPT ![c] = q] /\ now' = now
      BY <1>2, <2>2 DEF TokenArrives, Become, vars
    <3> HIDE DEF q
    <3> QED
      BY <3>1, <3>2, MoveInv
  <2> QED
    BY <2>1, <2>2
<1>3. CASE TokenMissing(c) \/ Breaks(c)
  <2>1. call[c].pc \in {"token", "upstream"} /\ Caught(c)
    BY <1>3 DEF TokenMissing, Breaks, On
  <2> QED
    BY <2>1, CaughtInv
<1>4. CASE Answers(c)
  <2> DEFINE q == [call[c] EXCEPT !.pc = "done", !.reply = "ok"]
  <2>1. q \in Call /\ q.pc = "done" /\ q.reply = "ok"
    BY <1>1 DEF Call
  <2>2. now' = now /\ call' = [call EXCEPT ![c] = q]
    BY <1>4 DEF Answers, Succeed, Become
  <2> HIDE DEF q
  <2>3. InTime(q)
    BY <2>1 DEF InTime
  <2> QED
    BY <2>1, <2>2, <2>3, OneCall DEF CallInv
<1>5. ASSUME NEW pc \in {"refused", "rejected"}, NEW ms \in Asked \cup {NotAsked}, Refuses(c, pc, ms)
      PROVE  CallInv'
  <2> DEFINE q == [call[c] EXCEPT !.pc = pc, !.asked = ms]
  <2>1. q \in Call /\ Moved(call[c], q)
    BY <1>1, <1>5 DEF Call, Moved, Refuses, On
  <2>2. call' = [call EXCEPT ![c] = q] /\ now' = now
    BY <1>5 DEF Refuses, Become, vars
  <2> HIDE DEF q
  <2> QED
    BY <2>1, <2>2, MoveInv
<1> QED
  BY <1>2, <1>3, <1>4, <1>5 DEF Awaiting

\* Time passes only while no attempt has outlived its timer.
LEMMA ClockInv ==
  ASSUME CallAssumption, CallInv, TypeOK', Clock
  PROVE  CallInv'
<1>1. now \in Nat /\ now' = now + 1 /\ UNCHANGED call
  BY DEF CallInv, TypeOK, Clock, Tick
<1>2. ASSUME NEW c \in Native PROVE InTime(call[c])'
  <2>1. /\ call[c] \in Call /\ InTime(call[c])
        /\ call[c].pc \notin {"head", "over", "refused", "rejected"}
        /\ call[c].pc \in {"token", "upstream"} => now < call[c].due
    BY DEF CallInv, Clock, Punctual
  <2>2. call[c].due \in Nat /\ call[c].deadline \in Nat
    BY <2>1 DEF Call
  <2>3. call[c].pc \in {"token", "upstream"} => now + 1 <= call[c].due /\ now + 1 <= call[c].deadline
    BY <1>1, <2>1, <2>2 DEF InTime
  <2> QED
    BY <1>1, <2>1, <2>3 DEF InTime, Call
<1> QED
  BY <1>1, <1>2 DEF CallInv

\* The type of the native calls is part of the invariant.
LEMMA CallInvTypes == ASSUME CallInv PROVE CallTypeOK
BY DEF CallInv, CallTypeOK, Call

\* Every step keeps the invariant.
LEMMA CallInvStep ==
  ASSUME CallAssumption, CallInv, [CallNext]_callVars
  PROVE  CallInv'
<1>1. [Next]_vars
  BY ImplementationStep, CallInvTypes
<1>2. TypeOK'
  BY <1>1, TypeStep DEF CallInv, CallAssumption
<1>3. ASSUME NEW c \in Native, Start(c) PROVE CallInv'
  BY <1>2, <1>3, StartInv
<1>4. ASSUME NEW c \in Native, Abort(c) PROVE CallInv'
  <2> DEFINE q == [call[c] EXCEPT !.aborted = TRUE]
  <2>1. q \in Call /\ Moved(call[c], q)
    BY DEF CallInv, Call, Moved
  <2>2. call' = [call EXCEPT ![c] = q] /\ now' = now
    BY <1>4 DEF Abort, Become, vars
  <2> HIDE DEF q
  <2> QED
    BY <1>2, <2>1, <2>2, MoveInv
<1>5. ASSUME NEW c \in Native, Loop(c) PROVE CallInv'
  <2>1. CASE GiveUp(c)
    BY <1>2, <2>1, GiveUpInv
  <2>2. CASE SelectAccount(c)
    BY <1>2, <2>2, SelectInv
  <2>3. CASE NoAccountLeft(c)
    <3> DEFINE q == [call[c] EXCEPT !.pc = "over"]
    <3>1. q \in Call /\ Moved(call[c], q)
      BY <2>3 DEF CallInv, Call, Moved, NoAccountLeft, Looping, On
    <3>2. call' = [call EXCEPT ![c] = q] /\ now' = now
      BY <2>3 DEF NoAccountLeft, Become, Exhausted
    <3> HIDE DEF q
    <3> QED
      BY <1>2, <3>1, <3>2, MoveInv
  <2>4. CASE Over(c)
    BY <1>2, <2>4, EndInv DEF Over
  <2> QED
    BY <1>5, <2>1, <2>2, <2>3, <2>4 DEF Loop
<1>6. ASSUME NEW c \in Native, Timeout(c) PROVE CallInv'
  BY <1>2, <1>6, CaughtInv DEF Timeout, On
<1>7. ASSUME NEW c \in Native, AbortNoticed(c) \/ Rejected(c) PROVE CallInv'
  BY <1>2, <1>7, EndInv DEF AbortNoticed, Rejected
<1>8. ASSUME NEW c \in Native, Refused(c) PROVE CallInv'
  <2>1. \E ms : Failing(c, ms)
    BY <1>8 DEF Refused
  <2> QED
    BY <1>2, <1>8, <2>1, FailingInv DEF Refused, On
<1>9. ASSUME NEW c \in Native, Awaiting(c) PROVE CallInv'
  BY <1>2, <1>9, AwaitingInv
<1>10. ASSUME NEW c \in Callers \ Native, Chat(c) PROVE CallInv'
  <2>1. UNCHANGED <<now, call>>
    BY <1>10 DEF Chat, Begin, Succeed, Finish, Fail, poolVars
  <2> QED
    BY <1>2, <2>1, QuietInv
<1>11. CASE Clock
  BY <1>2, <1>11, ClockInv
<1>12. CASE Credentials \/ UNCHANGED callVars
  <2>1. UNCHANGED <<now, call>>
    BY <1>12 DEF Credentials, CredentialChange, callVars, vars
  <2> QED
    BY <1>2, <2>1, QuietInv
<1> QED
  BY <1>3, <1>4, <1>5, <1>6, <1>7, <1>8, <1>9, <1>10, <1>11, <1>12 DEF CallNext

--------------------------------------------------------------------------------
(* Theorems                                                                *)

\* The named assumptions of the modules are those of the lemmas.
LEMMA Assumptions == CallAssumption
BY SystemOneAssumption, PoolAssumption DEF CallAssumption

\* The invariant holds in every behaviour of the native calls.
THEOREM CallInvariant == CallSpec => []CallInv
<1>1. CallInit => CallInv
  BY CallInvInit, Assumptions
<1>2. CallInv /\ [CallNext]_callVars => CallInv'
  BY CallInvStep, Assumptions
<1> QED
  BY <1>1, <1>2, PTL DEF CallSpec

\* The calls keep their types.
THEOREM CallsAreTyped == CallSpec => []CallTypeOK
<1>1. CallInv => CallTypeOK
  BY CallInvTypes
<1> QED
  BY <1>1, CallInvariant, PTL

\* Native calls and chat requests together use the pool only through its
\* operations, in an order it allows: systemone.mjs implements the pool's callers.
THEOREM ImplementsPool == CallSpec => Spec
<1>1. CallInit => Init
  BY DEF CallInit
<1>2. CallInv /\ [CallNext]_callVars => [Next]_vars
  BY ImplementationStep, CallInvTypes, Assumptions
<1> QED
  BY <1>1, <1>2, CallInvariant, PTL DEF CallSpec, Spec

\* So what is proved of the pool holds while native calls share it with chat
\* requests: no answer that was already under way lifts a quarantine.
THEOREM NativeCallsRespectQuarantine == CallSpec => QuarantineRespected
BY ImplementsPool, QuarantineIsRespected, PTL

\* Every attempt asks another account, and the attempts of a call together keep
\* to its budget, whatever the other callers do to the pool.
THEOREM BudgetIsKept == CallSpec => []BudgetKept
<1>1. CallInv => BudgetKept
  BY DEF CallInv, InTime, BudgetKept
<1> QED
  BY <1>1, CallInvariant, PTL

\* A call that runs out of time has asked as many accounts as attempt budgets fit
\* in, for every budget and every number of accounts.
THEOREM BackupsGetTheirTurn == CallSpec => []BackupsGetATurn
<1>1. CallInv => BackupsGetATurn
  <2> SUFFICES ASSUME CallInv, NEW c \in Native, call[c].reply = "late"
               PROVE  call[c].attempts * AttemptBudget >= Budget
    BY DEF BackupsGetATurn
  <2> QED
    BY DEF CallInv, InTime
<1> QED
  BY <1>1, CallInvariant, PTL

\* What a step may do to the pool once the caller of its call has left.
NoFailureOf(c) ==
  call[c].aborted /\ call[c].pc # "refused" /\ call'[c] # call[c] =>
    UNCHANGED state \/ call'[c].reply = "ok"

\* Ending a call reports nothing.
LEMMA EndsQuietly ==
  ASSUME NEW c \in Native, NEW reply, End(c, reply)
  PROVE  UNCHANGED state
BY DEF End, Finish, vars, poolVars

\* A step that changes an aborted call reports no failure, unless the refusal it
\* reports had already arrived.
LEMMA CancellationStep ==
  ASSUME CallTypeOK, CallNext, NEW c \in Native
  PROVE  NoFailureOf(c)
<1> SUFFICES ASSUME call[c].aborted, call[c].pc # "refused", call'[c] # call[c]
             PROVE  UNCHANGED state \/ call'[c].reply = "ok"
  BY DEF NoFailureOf
<1>1. call \in [Native -> Call]
  BY DEF CallTypeOK, Call
<1>2. ASSUME NEW d \in Native, NEW q, Become(d, q) PROVE d = c
  BY <1>1, <1>2 DEF Become
<1>3. ASSUME NEW d \in Native, Start(d) \/ Abort(d) PROVE UNCHANGED state
  BY <1>3 DEF Start, Abort, vars
<1>4. ASSUME NEW d \in Native, Loop(d) PROVE UNCHANGED state
  <2>1. CASE GiveUp(d) \/ Over(d)
    BY <2>1, EndsQuietly DEF GiveUp, Over
  <2>2. CASE SelectAccount(d) \/ NoAccountLeft(d)
    BY <2>2 DEF SelectAccount, NoAccountLeft, Begin, Exhausted
  <2> QED
    BY <1>4, <2>1, <2>2 DEF Loop
<1>5. ASSUME NEW d \in Native, Caught(d) PROVE UNCHANGED state
  <2>1. d = c
    BY <1>2, <1>5 DEF Caught, End, Failing
  <2> QED
    BY <1>5, <2>1, EndsQuietly DEF Caught
<1>6. ASSUME NEW d \in Native, AbortNoticed(d) \/ Rejected(d) PROVE UNCHANGED state
  BY <1>6, EndsQuietly DEF AbortNoticed, Rejected
<1>7. ASSUME NEW d \in Native, Refused(d) PROVE FALSE
  BY <1>2, <1>7 DEF Refused, Failing, On
<1>8. ASSUME NEW d \in Native, Awaiting(d) PROVE UNCHANGED state \/ call'[c].reply = "ok"
  <2>1. CASE TokenArrives(d)
    <3>1. CASE call[d].aborted
      BY <2>1, <3>1, EndsQuietly DEF TokenArrives
    <3>2. CASE ~call[d].aborted
      BY <2>1, <3>2 DEF TokenArrives, vars
    <3> QED
      BY <3>1, <3>2
  <2>2. CASE TokenMissing(d) \/ Breaks(d)
    BY <1>5, <2>2 DEF TokenMissing, Breaks
  <2>3. CASE Answers(d)
    <3>1. d = c
      BY <1>2, <2>3 DEF Answers
    <3>2. call'[c].reply = "ok"
      BY <1>1, <2>3, <3>1 DEF Answers, Become, Call
    <3> QED
      BY <3>2
  <2>4. ASSUME NEW pc, NEW ms, Refuses(d, pc, ms) PROVE UNCHANGED state
    BY <2>4 DEF Refuses, vars
  <2> QED
    BY <1>8, <2>1, <2>2, <2>3, <2>4 DEF Awaiting
<1>9. CASE Clock \/ Credentials \/ \E d \in Callers \ Native : Chat(d)
  BY <1>9 DEF Clock, Credentials, Chat
<1> QED
  BY <1>3, <1>4, <1>5, <1>6, <1>7, <1>8, <1>9 DEF CallNext, Timeout

\* Cancellation by the caller is never counted against an account, except for a
\* refusal that had already arrived.
THEOREM CancellationCountsNoFailure == CallSpec => CancellationIsNoFailure
<1>1. CallTypeOK /\ [CallNext]_callVars => [\A c \in Native : NoFailureOf(c)]_callVars
  BY CancellationStep
<1>2. [\A c \in Native : NoFailureOf(c)]_callVars =>
        [\A c \in Native : call[c].aborted /\ call[c].pc # "refused" /\ call'[c] # call[c] =>
           UNCHANGED state \/ call'[c].reply = "ok"]_callVars
  BY DEF NoFailureOf
<1> QED
  BY <1>1, <1>2, CallsAreTyped, PTL DEF CallSpec, CancellationIsNoFailure
================================================================================
