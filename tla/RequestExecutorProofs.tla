------------------------- MODULE RequestExecutorProofs -------------------------
(***************************************************************************)
(* What TLAPS proves of executeRoutePlan, for any number of requests,      *)
(* routes and accounts: whatever its requests do, the account pool sees    *)
(* only the operations AccountPool allows; what each client was shown, and *)
(* which accounts are blamed for what.                                     *)
(***************************************************************************)
EXTENDS RequestExecutor, AccountPoolProofs

\* A failure with the default delay is one the pool allows.
LEMMA DefaultFailStep ==
  ASSUME NEW r \in Callers, NEW a, NEW also, NEW drop \in BOOLEAN, DefaultFail(r, a, also, drop)
  PROVE  Next
BY FailIsStep DEF DefaultFail

\* What the loop does by itself is a step of the pool or leaves it alone.
LEMMA ProgressStep ==
  ASSUME PoolAssumption, ExecutorAssumption, NEW r \in Callers, Progress(r)
  PROVE  [Next]_vars
<1>1. CASE Plan(r)
  BY <1>1 DEF Plan
<1>2. CASE SelectAccount(r)
  BY <1>2, BeginIsStep DEF SelectAccount, Pooling, ExecutorAssumption
<1>3. CASE PoolExhausted(r)
  BY <1>3, ExhaustedIsStep DEF PoolExhausted, Pooling, ExecutorAssumption
<1>4. ASSUME NEW status \in Diagnostics, ReportRefusal(r, status) PROVE Next
  BY <1>4, FailIsStep DEF ReportRefusal
<1>5. CASE Return(r)
  BY <1>5 DEF Return, Next
<1> QED
  BY <1>1, <1>2, <1>3, <1>4, <1>5 DEF Progress

\* So is what it does when an upstream answers or fails.
LEMMA UpstreamStep ==
  ASSUME NEW r \in Callers, Upstream(r)
  PROVE  [Next]_vars
<1>1. CASE AttemptFails(r)
  BY <1>1, DefaultFailStep DEF AttemptFails
<1>2. CASE AnswersDocument(r) \/ PreflightFails(r)
  BY <1>2, DefaultFailStep DEF AnswersDocument, PreflightFails
<1>3. CASE RelayFails(r)
  BY <1>3, DefaultFailStep DEF RelayFails
<1>4. CASE RelayCompletes(r)
  BY <1>4 DEF RelayCompletes, Next
<1>5. CASE AnswersStream(r) \/ AnswersRejection(r) \/ \E status \in Diagnostics : AnswersRefusal(r, status)
  BY <1>5 DEF AnswersStream, AnswersRejection, AnswersRefusal
<1>6. CASE PreflightPasses(r) \/ FirstChunk(r) \/ EndsBeforeFirstChunk(r)
  BY <1>6 DEF PreflightPasses, FirstChunk, EndsBeforeFirstChunk
<1>7. CASE UnpooledFails(r) \/ UnpooledAnswers(r) \/ UnpooledCompletes(r) \/ UnpooledBreaks(r)
  BY <1>7 DEF UnpooledFails, UnpooledAnswers, UnpooledCompletes, UnpooledBreaks
<1> QED
  BY <1>1, <1>2, <1>3, <1>4, <1>5, <1>6, <1>7 DEF Upstream

\* Deadlines and clients leave the pool alone.
LEMMA ExecutorStep ==
  ASSUME PoolAssumption, ExecutorAssumption, [ExecNext]_execVars
  PROVE  [Next]_vars
<1>1. ASSUME NEW r \in Callers, Deadline(r) \/ AbortNoticed(r) \/ Disconnect(r) PROVE UNCHANGED vars
  BY <1>1 DEF Deadline, AbortNoticed, Disconnect
<1>2. CASE Environment
  BY <1>2 DEF Environment, Next
<1>3. CASE UNCHANGED execVars
  BY <1>3 DEF execVars
<1> QED
  BY <1>1, <1>2, <1>3, ProgressStep, UpstreamStep DEF ExecNext

\* executeRoutePlan uses the pool only through its operations, in an order it
\* allows, so what is proved of the pool holds for it.
THEOREM ExecutorImplementsPool == ExecSpec => Spec
<1>1. ExecInit => Init
  BY DEF ExecInit
<1>2. [ExecNext]_execVars => [Next]_vars
  BY ExecutorStep, PoolAssumption, ExecutorAssumption
<1> QED
  BY <1>1, <1>2, PTL DEF ExecSpec, Spec

\* No chat request, however late its answer, lifts the quarantine of an account
\* that failed after the request selected it.
THEOREM RequestsRespectQuarantine == ExecSpec => QuarantineRespected
BY ExecutorImplementsPool, QuarantineIsRespected, PTL

--------------------------------------------------------------------------------
(* The retry loop                                                          *)

\* A request may be in one of these while it holds an account.
Holding == {"await", "preflight", "relay"} \cup Diagnostics

\* The fields the retry loop turns on; the others are as they are in q.
Request(q) ==
  [pc : Pcs, plan : {q.plan}, i : {q.i}, excluded : SUBSET Accounts, tries : 0..MaxAttempts - 1,
   result : {q.result}, abort : {q.abort}, out : {q.out}, reply : {q.reply}, notes : {q.notes}]

\* As many accounts are excluded as attempts were made, and only for a pooled
\* candidate; account a, which the request may hold, is not among them.
Retrying(q, a) ==
  /\ q \in Request(q)
  /\ Cardinality(q.excluded) = q.tries
  /\ q.excluded # {} => q.pc # "idle" /\ q.plan[q.i] \in Pooled
  /\ q.pc \in Holding => a \notin q.excluded
  /\ q.pc \in Diagnostics => q.plan[q.i] \in Pooled

\* The inductive invariant.
RetryInv ==
  /\ TypeOK
  /\ req = [r \in Callers |-> req[r]]
  /\ \A r \in Callers : Retrying(req[r], Account(r))

\* No request has begun.
LEMMA RetryInvInit ==
  ASSUME PoolAssumption, ExecutorAssumption, ExecInit
  PROVE  RetryInv
<1>1. NewRequest \in Request(NewRequest)
  <2>1. 0 \in 0..MaxAttempts - 1
    BY DEF ExecutorAssumption
  <2> QED
    BY <2>1 DEF NewRequest, Request, Pcs
<1>2. NewRequest.excluded = {} /\ NewRequest.tries = 0 /\ NewRequest.pc = "idle"
  BY DEF NewRequest
<1>3. "idle" \notin Holding /\ "idle" \notin Diagnostics
  BY DEF Holding, ExecutorAssumption
<1>4. ASSUME NEW r \in Callers PROVE Retrying(req[r], Account(r))
  BY <1>1, <1>2, <1>3, FS_EmptySet DEF ExecInit, Retrying
<1> QED
  BY <1>4, TypeInit DEF RetryInv, ExecInit

\* The next candidate begins with every account.
LEMMA NextCandidateRetrying ==
  ASSUME ExecutorAssumption, NEW q, q \in Request(q), NEW a
  PROVE  Retrying(NextCandidate(q), a)
<1> DEFINE n == NextCandidate(q)
<1>1. 0 \in 0..MaxAttempts - 1
  BY DEF ExecutorAssumption
<1>2. n.excluded = {} /\ n.tries = 0 /\ n.pc \in {"return", "select"}
  BY DEF NextCandidate, Request
<1>3. n \in Request(n)
  BY <1>1 DEF NextCandidate, Request, Pcs
<1>4. n.pc \notin Holding /\ n.pc \notin Diagnostics
  BY <1>2 DEF Holding, ExecutorAssumption
<1>5. Retrying(n, a)
  <2> HIDE DEF n
  <2> QED
    BY <1>2, <1>3, <1>4, FS_EmptySet DEF Retrying
<1> QED
  BY <1>5

\* A failed account joins the excluded ones, and the attempt is counted.
LEMMA RetryPoolRetrying ==
  ASSUME PoolAssumption, ExecutorAssumption, NEW q, q \in Request(q), NEW a \in Accounts \ q.excluded,
         Cardinality(q.excluded) = q.tries, q.tries + 1 < MaxAttempts, q.plan[q.i] \in Pooled, NEW b
  PROVE  Retrying(RetryPool(q, a), b)
<1> DEFINE n == RetryPool(q, a)
<1>1. q.tries \in Nat /\ q.tries + 1 \in 0..MaxAttempts - 1 /\ q.excluded \in SUBSET Accounts
  BY DEF Request, ExecutorAssumption
<1>2. /\ n.excluded = q.excluded \cup {a} /\ n.tries = q.tries + 1 /\ n.pc = "select"
      /\ n.plan = q.plan /\ n.i = q.i
  BY DEF RetryPool, Request
<1>3. n \in Request(n)
  BY <1>1 DEF RetryPool, Request, Pcs
<1>4. Cardinality(n.excluded) = n.tries
  <2>1. IsFiniteSet(q.excluded)
    <3>1. IsFiniteSet(Accounts)
      BY FS_Interval DEF Accounts, PoolAssumption
    <3> QED
      BY <1>1, <3>1, FS_Subset
  <2>2. Cardinality(q.excluded \cup {a}) = Cardinality(q.excluded) + 1
    BY <2>1, FS_AddElement
  <2> QED
    BY <1>2, <2>2
<1>5. n.pc \notin Holding /\ n.pc \notin Diagnostics
  BY <1>2 DEF Holding, ExecutorAssumption
<1>6. Retrying(n, b)
  <2> HIDE DEF n
  <2> QED
    BY <1>2, <1>3, <1>4, <1>5 DEF Retrying
<1> QED
  BY <1>6

\* What reporting a failure does to the request keeps its bookkeeping.
LEMMA RetryOrContinueRetrying ==
  ASSUME PoolAssumption, ExecutorAssumption, RetryInv, NEW r \in Callers,
         NEW q, q \in Request(q), q.excluded = req[r].excluded, q.tries = req[r].tries,
         q.plan = req[r].plan, q.i = req[r].i, Candidate(r) \in Pooled,
         req[r].pc \in Holding, Account(r) \in Accounts, RetryOrContinue(r, q), NEW a
  PROVE  \E n : req' = [req EXCEPT ![r] = n] /\ Retrying(n, a)
<1>1. Retrying(req[r], Account(r))
  BY DEF RetryInv
<1>2. CASE LastTry(r)
  BY <1>2, NextCandidateRetrying DEF RetryOrContinue, Become
<1>3. CASE ~LastTry(r)
  <2>1. Account(r) \notin q.excluded /\ Cardinality(q.excluded) = q.tries /\ q.plan[q.i] \in Pooled
    BY <1>1 DEF Retrying, Candidate
  <2>2. q.tries + 1 < MaxAttempts
    BY <1>3 DEF LastTry, ExecutorAssumption, Request
  <2>3. Retrying(RetryPool(q, Account(r)), a)
    BY <2>1, <2>2, RetryPoolRetrying
  <2> QED
    BY <1>3, <2>3 DEF RetryOrContinue, Become, Account
<1> QED
  BY <1>2, <1>3

\* q is p after a step within one attempt.
Kept(p, q) ==
  /\ q \in Request(q)
  /\ q.excluded = p.excluded /\ q.tries = p.tries /\ q.plan = p.plan /\ q.i = p.i
  /\ q.pc # "idle"
  /\ q.pc \in Holding => p.pc \in Holding \/ p.excluded = {}
  /\ q.pc \in Diagnostics => q.plan[q.i] \in Pooled

\* Such a step keeps the bookkeeping.
LEMMA KeptRetrying ==
  ASSUME NEW p, NEW a, Retrying(p, a), NEW q, Kept(p, q)
  PROVE  Retrying(q, a)
BY DEF Kept, Retrying

\* A step of one request leaves the others, and the accounts they hold, alone.
LEMMA OneRequest ==
  ASSUME RetryInv, TypeOK', NEW r \in Callers, NEW q, req' = [req EXCEPT ![r] = q],
         \A d \in Callers \ {r} : attempt'[d].account = attempt[d].account,
         Retrying(q, attempt'[r].account)
  PROVE  RetryInv'
<1>1. req' = [d \in Callers |-> IF d = r THEN q ELSE req[d]]
  BY DEF RetryInv
<1>2. ASSUME NEW d \in Callers PROVE Retrying(req[d], Account(d))'
  <2>1. CASE d = r
    BY <1>1, <2>1 DEF Retrying, Account, Request
  <2>2. CASE d # r
    <3>1. req'[d] = req[d] /\ attempt'[d].account = attempt[d].account
      BY <1>1, <2>2
    <3>2. Retrying(req[d], Account(d))
      BY DEF RetryInv
    <3> QED
      BY <3>1, <3>2 DEF Retrying, Account, Request
  <2> QED
    BY <2>1, <2>2
<1>3. req' = [d \in Callers |-> req'[d]]
  BY <1>1
<1> QED
  BY <1>2, <1>3 DEF RetryInv

\* A failure changes no caller's account, and asks what the caller asked before.
LEMMA FailKeepsAccounts ==
  ASSUME TypeOK, NEW c \in Callers, NEW a, NEW delay, NEW d, NEW also, NEW drop,
         Fail(c, a, delay, d, also, drop)
  PROVE  /\ \A e \in Callers : attempt'[e].account = attempt[e].account
         /\ a \in Accounts
BY DEF Fail, TypeOK, Attempt

\* A step that reports a failure and moves its request keeps the invariant.
LEMMA FailedRequest ==
  ASSUME RetryInv, TypeOK', NEW r \in Callers, NEW a, NEW delay, NEW d, NEW also, NEW drop,
         Fail(r, a, delay, d, also, drop),
         \E n : req' = [req EXCEPT ![r] = n] /\ Retrying(n, Account(r))
  PROVE  RetryInv'
<1>1. \A e \in Callers : attempt'[e].account = attempt[e].account
  BY FailKeepsAccounts DEF RetryInv
<1>2. PICK n : req' = [req EXCEPT ![r] = n] /\ Retrying(n, Account(r))
  OBVIOUS
<1>3. Retrying(n, attempt'[r].account)
  BY <1>1, <1>2 DEF Account
<1> QED
  BY <1>1, <1>2, <1>3, OneRequest

\* A step within an attempt keeps the invariant.
LEMMA KeptRequest ==
  ASSUME RetryInv, TypeOK', NEW r \in Callers, NEW q, Kept(req[r], q), req' = [req EXCEPT ![r] = q],
         \A d \in Callers : attempt'[d].account = attempt[d].account
  PROVE  RetryInv'
<1>1. Retrying(q, attempt'[r].account)
  BY KeptRetrying DEF RetryInv, Account
<1> QED
  BY <1>1, OneRequest

\* So does a step that gives up the candidate.
LEMMA NextRequest ==
  ASSUME ExecutorAssumption, RetryInv, TypeOK', NEW r \in Callers, NEW q, q \in Request(q),
         req' = [req EXCEPT ![r] = NextCandidate(q)],
         \A d \in Callers : attempt'[d].account = attempt[d].account
  PROVE  RetryInv'
<1>1. Retrying(NextCandidate(q), attempt'[r].account)
  BY NextCandidateRetrying
<1> QED
  BY <1>1, OneRequest

\* The loop head: planning, selecting an account, or finding none.
LEMMA ProgressInv ==
  ASSUME PoolAssumption, ExecutorAssumption, RetryInv, TypeOK', NEW r \in Callers, Progress(r)
  PROVE  RetryInv'
<1>1. Retrying(req[r], Account(r)) /\ req[r] \in Request(req[r])
  BY DEF RetryInv, Retrying
<1>2. CASE Plan(r)
  <2>1. req[r].excluded = {} /\ UNCHANGED attempt
    BY <1>1, <1>2 DEF Plan, At, Retrying, vars
  <2>2. ASSUME NEW plan, NEW q,
               \/ q = [req[r] EXCEPT !.pc = "done", !.reply = "cooling", !.out = "ended"]
               \/ q = [req[r] EXCEPT !.pc = "select", !.plan = plan]
        PROVE  Retrying(q, Account(r))
    <3>1. /\ q \in Request(q) /\ q.excluded = {} /\ q.tries = req[r].tries
          /\ q.pc \in {"done", "select"}
      BY <1>1, <2>1, <2>2 DEF Request, Pcs
    <3>2. q.pc \notin Holding /\ q.pc \notin Diagnostics
      BY <3>1 DEF Holding, ExecutorAssumption
    <3> QED
      BY <1>1, <2>1, <3>1, <3>2 DEF Retrying
  <2>3. PICK order \in Plans :
          LET closed(route) == cooldowns[route] <= now
              plan == SelectSeq(order, closed)
          IN  Become(r, IF plan = <<>>
                        THEN [req[r] EXCEPT !.pc = "done", !.reply = "cooling", !.out = "ended"]
                        ELSE [req[r] EXCEPT !.pc = "select", !.plan = plan])
    BY <1>2 DEF Plan
  <2>4. \E plan, q : /\ req' = [req EXCEPT ![r] = q]
                     /\ \/ q = [req[r] EXCEPT !.pc = "done", !.reply = "cooling", !.out = "ended"]
                        \/ q = [req[r] EXCEPT !.pc = "select", !.plan = plan]
    BY <2>3 DEF Become
  <2>5. PICK q : req' = [req EXCEPT ![r] = q] /\ Retrying(q, Account(r))
    BY <2>2, <2>4
  <2>6. Retrying(q, attempt'[r].account)
    BY <2>1, <2>5 DEF Account
  <2> QED
    BY <2>1, <2>5, <2>6, OneRequest
<1>3. CASE SelectAccount(r)
  <2> DEFINE e == req[r].excluded
             t == Candidate(r)
             a == Selected(t, KeyOf[r], e)
             q == [req[r] EXCEPT !.pc = "await"]
  <2>1. t \in Pooled /\ t \in Targets /\ KeyOf[r] \in Keys /\ e \in SUBSET Accounts
    BY <1>1, <1>3 DEF SelectAccount, Pooling, Request, ExecutorAssumption, PoolAssumption
  <2>2. a \notin e
    <3>1. a \in Available(t, e)
      BY <1>3, <2>1, SelectedIsAvailable DEF SelectAccount, Begin
    <3> QED
      BY <3>1 DEF Available
  <2>3. /\ \A d \in Callers \ {r} : attempt'[d].account = attempt[d].account
        /\ attempt'[r].account = a
    <3>1. attempt \in [Callers -> Attempt]
      BY DEF RetryInv, TypeOK
    <3> QED
      BY <1>3, <3>1 DEF SelectAccount, Begin
  <2>4. /\ q \in Request(q) /\ q.excluded = e /\ q.tries = req[r].tries
        /\ q.plan = req[r].plan /\ q.i = req[r].i /\ q.pc = "await"
    BY <1>1 DEF Request, Pcs
  <2>5. Retrying(q, a)
    <3> HIDE DEF q, a
    <3> QED
      BY <1>1, <2>1, <2>2, <2>4 DEF Retrying, Candidate, ExecutorAssumption
  <2>6. req' = [req EXCEPT ![r] = q]
    BY <1>3 DEF SelectAccount, Become
  <2> HIDE DEF q, a
  <2> QED
    BY <2>3, <2>5, <2>6, OneRequest
<1>4. CASE PoolExhausted(r)
  <2>1. UNCHANGED attempt
    BY <1>4 DEF PoolExhausted, Exhausted
  <2>2. ASSUME NEW told, NEW q, q = [req[r] EXCEPT !.notes[Candidate(r)] = told] PROVE q \in Request(q)
    BY <1>1, <2>2 DEF Request
  <2>3. \E q : q \in Request(q) /\ req' = [req EXCEPT ![r] = NextCandidate(q)]
    BY <1>4, <2>2 DEF PoolExhausted, Become
  <2> QED
    BY <2>1, <2>3, NextRequest
<1>5. ASSUME NEW status \in Diagnostics, ReportRefusal(r, status) PROVE RetryInv'
  <2> DEFINE noted == [req[r] EXCEPT !.notes[Candidate(r)][Account(r)] = status]
             q == [noted EXCEPT !.pc = "return"]
  <2>1. /\ noted \in Request(noted) /\ noted.excluded = req[r].excluded
        /\ noted.tries = req[r].tries /\ noted.plan = req[r].plan /\ noted.i = req[r].i
        /\ q \in Request(q) /\ q.excluded = req[r].excluded /\ q.tries = req[r].tries
        /\ q.plan = req[r].plan /\ q.i = req[r].i /\ q.pc = "return"
    BY <1>1 DEF Request, Pcs
  <2>2. PICK delay : Fail(r, Account(r), delay, status, {}, FALSE)
    BY <1>5 DEF ReportRefusal
  <2>3. Account(r) \in Accounts
    BY <2>2, FailKeepsAccounts DEF RetryInv
  <2>4. req[r].pc \in Holding /\ Candidate(r) \in Pooled
    BY <1>1, <1>5 DEF ReportRefusal, Retrying, Holding, Candidate
  <2>5. IF Aborted(r) THEN req' = [req EXCEPT ![r] = q] ELSE RetryOrContinue(r, noted)
    BY <1>5 DEF ReportRefusal, Become
  <2>6. CASE Aborted(r)
    <3>1. Kept(req[r], q)
      <4> HIDE DEF q, noted
      <4> QED
        BY <2>1 DEF Kept, Holding, ExecutorAssumption
    <3>2. Retrying(q, Account(r))
      BY <1>1, <3>1, KeptRetrying
    <3> HIDE DEF q, noted
    <3> QED
      BY <2>2, <2>5, <2>6, <3>2, FailedRequest
  <2>7. CASE ~Aborted(r)
    <3> HIDE DEF q, noted
    <3>1. \E n : req' = [req EXCEPT ![r] = n] /\ Retrying(n, Account(r))
      BY <2>1, <2>3, <2>4, <2>5, <2>7, RetryOrContinueRetrying
    <3> QED
      BY <2>2, <3>1, FailedRequest
  <2> QED
    BY <2>6, <2>7
<1>6. CASE Return(r)
  <2>1. \A d \in Callers \ {r} : attempt'[d].account = attempt[d].account
    <3>1. attempt \in [Callers -> Attempt]
      BY DEF RetryInv, TypeOK
    <3> QED
      BY <1>6, <3>1 DEF Return, Finish, vars
  <2>2. PICK q : /\ req' = [req EXCEPT ![r] = q]
                 /\ \/ q = [req[r] EXCEPT !.pc = "done"]
                    \/ \E reply : q = [[req[r] EXCEPT !.pc = "done"] EXCEPT !.reply = reply, !.out = "ended"]
    BY <1>6 DEF Return, Become
  <2>3. /\ q \in Request(q) /\ q.excluded = req[r].excluded /\ q.tries = req[r].tries
        /\ q.plan = req[r].plan /\ q.i = req[r].i /\ q.pc = "done"
    BY <1>1, <2>2 DEF Request, Pcs
  <2>4. q.pc \notin Holding /\ q.pc \notin Diagnostics
    BY <2>3 DEF Holding, ExecutorAssumption
  <2>5. Retrying(q, attempt'[r].account)
    BY <1>1, <2>3, <2>4 DEF Retrying
  <2> QED
    BY <2>1, <2>2, <2>5, OneRequest
<1> QED
  BY <1>2, <1>3, <1>4, <1>5, <1>6 DEF Progress

\* Ending the request within an attempt keeps its bookkeeping.
LEMMA ReplyKept ==
  ASSUME ExecutorAssumption, NEW r \in Callers, Retrying(req[r], Account(r)),
         NEW code \in Replies, NEW out
  PROVE  Kept(req[r], Reply(req[r], code, out))
<1> DEFINE q == Reply(req[r], code, out)
<1>1. /\ q \in Request(q) /\ q.excluded = req[r].excluded /\ q.tries = req[r].tries
      /\ q.plan = req[r].plan /\ q.i = req[r].i /\ q.pc = "return"
  BY DEF Retrying, Request, Reply, Pcs, Replies
<1>2. Kept(req[r], q)
  <2> HIDE DEF q
  <2> QED
    BY <1>1 DEF Kept, Holding, ExecutorAssumption
<1> QED
  BY <1>2

\* The request moves within an attempt, from one await to the next.
MovedTo(r, pc, result, out) ==
  Become(r, [req[r] EXCEPT !.pc = pc, !.result = result, !.out = out])

\* Such a step keeps the invariant.
LEMMA MoveInv ==
  ASSUME ExecutorAssumption, RetryInv, TypeOK', NEW r \in Callers,
         req[r].pc \in Holding \/ req[r].excluded = {}, NEW pc \in Holding \cup {"return"},
         pc \in Diagnostics => Candidate(r) \in Pooled, NEW result, NEW out,
         MovedTo(r, pc, result, out),
         \A d \in Callers : attempt'[d].account = attempt[d].account
  PROVE  RetryInv'
<1> DEFINE q == [req[r] EXCEPT !.pc = pc, !.result = result, !.out = out]
<1>1. pc \in Pcs /\ pc # "idle"
  BY DEF Holding, Pcs, ExecutorAssumption
<1>2. /\ q \in Request(q) /\ q.excluded = req[r].excluded /\ q.tries = req[r].tries
      /\ q.plan = req[r].plan /\ q.i = req[r].i /\ q.pc = pc
  BY <1>1 DEF RetryInv, Retrying, Request
<1>3. req' = [req EXCEPT ![r] = q]
  BY DEF MovedTo, Become
<1> HIDE DEF q
<1>4. Kept(req[r], q)
  BY <1>1, <1>2 DEF Kept, Candidate
<1> QED
  BY <1>3, <1>4, KeptRequest

\* An upstream answers, refuses or fails a pooled attempt.
LEMMA PooledInv ==
  ASSUME PoolAssumption, ExecutorAssumption, RetryInv, TypeOK', NEW r \in Callers,
         \/ AttemptFails(r) \/ AnswersDocument(r) \/ AnswersStream(r) \/ AnswersRejection(r)
         \/ \E status \in Diagnostics : AnswersRefusal(r, status)
         \/ PreflightFails(r) \/ PreflightPasses(r) \/ RelayCompletes(r) \/ RelayFails(r)
  PROVE  RetryInv'
<1>1. Retrying(req[r], Account(r)) /\ req[r] \in Request(req[r])
  BY DEF RetryInv, Retrying
<1>2. req[r].pc \in Holding /\ Candidate(r) \in Pooled
  BY DEF AttemptFails, AnswersDocument, AnswersStream, AnswersRejection, AnswersRefusal,
         PreflightFails, PreflightPasses, RelayCompletes, RelayFails, Pooling, At, Holding
<1>3. attempt \in [Callers -> Attempt]
  BY DEF RetryInv, TypeOK
<1>4. CASE AttemptFails(r)
  <2>1. PICK also, drop, delay :
          /\ Fail(r, Account(r), delay, NoDiagnostic, also, drop)
          /\ \/ ~LastTry(r) /\ req' = [req EXCEPT ![r] = RetryPool(req[r], Account(r))]
             \/ req' = [req EXCEPT ![r] = NextCandidate(req[r])]
    BY <1>4 DEF AttemptFails, DefaultFail, CoolAndContinue, Become
  <2>2. Account(r) \in Accounts \ req[r].excluded
    BY <1>1, <1>2, <2>1, FailKeepsAccounts DEF RetryInv, Retrying
  <2>3. ~LastTry(r) => Retrying(RetryPool(req[r], Account(r)), Account(r))
    <3>1. ~LastTry(r) => req[r].tries + 1 < MaxAttempts
      BY <1>1 DEF LastTry, Request, ExecutorAssumption
    <3> QED
      BY <1>1, <1>2, <2>2, <3>1, RetryPoolRetrying DEF Retrying, Candidate
  <2>4. Retrying(NextCandidate(req[r]), Account(r))
    BY <1>1, NextCandidateRetrying
  <2>5. \E n : req' = [req EXCEPT ![r] = n] /\ Retrying(n, Account(r))
    BY <2>1, <2>3, <2>4
  <2> QED
    BY <2>1, <2>5, FailedRequest
<1>5. CASE AnswersDocument(r) \/ PreflightFails(r)
  <2>1. PICK q : /\ q = req[r] \/ q = [req[r] EXCEPT !.result = Account(r)]
                 /\ RetryOrContinue(r, q)
    BY <1>5 DEF AnswersDocument, PreflightFails
  <2>2. PICK delay : Fail(r, Account(r), delay, NoDiagnostic, {}, FALSE)
    BY <1>5 DEF AnswersDocument, PreflightFails, DefaultFail
  <2>3. /\ q \in Request(q) /\ q.excluded = req[r].excluded /\ q.tries = req[r].tries
        /\ q.plan = req[r].plan /\ q.i = req[r].i
    BY <1>1, <2>1 DEF Request
  <2>4. Account(r) \in Accounts
    BY <2>2, FailKeepsAccounts DEF RetryInv
  <2>5. \E n : req' = [req EXCEPT ![r] = n] /\ Retrying(n, Account(r))
    BY <1>2, <2>1, <2>3, <2>4, RetryOrContinueRetrying
  <2> QED
    BY <2>2, <2>5, FailedRequest
<1>6. CASE AnswersStream(r) \/ PreflightPasses(r) \/ \E status \in Diagnostics : AnswersRefusal(r, status)
  <2>1. UNCHANGED attempt
    BY <1>6 DEF AnswersStream, PreflightPasses, AnswersRefusal, vars
  <2>2. AnswersStream(r) => MovedTo(r, "preflight", Account(r), req[r].out)
    <3>1. [req[r] EXCEPT !.pc = "preflight", !.result = Account(r), !.out = req[r].out]
            = [req[r] EXCEPT !.result = Account(r), !.pc = "preflight"]
      BY <1>1 DEF Request
    <3> QED
      BY <3>1 DEF AnswersStream, MovedTo
  <2>3. PreflightPasses(r) => \E out : MovedTo(r, "relay", req[r].result, out)
    <3>1. ASSUME NEW out PROVE
          [req[r] EXCEPT !.pc = "relay", !.result = req[r].result, !.out = out]
            = [req[r] EXCEPT !.pc = "relay", !.out = out]
      BY <1>1 DEF Request
    <3>2. PreflightPasses(r) => \E out : Become(r, [req[r] EXCEPT !.pc = "relay", !.out = out])
      BY DEF PreflightPasses, Become
    <3> QED
      BY <3>1, <3>2 DEF MovedTo
  <2>4. ASSUME NEW status \in Diagnostics, AnswersRefusal(r, status)
        PROVE  MovedTo(r, status, Account(r), req[r].out)
    <3>1. [req[r] EXCEPT !.pc = status, !.result = Account(r), !.out = req[r].out]
            = [req[r] EXCEPT !.result = Account(r), !.pc = status]
      BY <1>1 DEF Request
    <3> QED
      BY <2>4, <3>1 DEF AnswersRefusal, MovedTo
  <2>5. \E pc \in Holding : \E result, out : MovedTo(r, pc, result, out)
    BY <1>6, <2>2, <2>3, <2>4 DEF Holding
  <2> QED
    BY <1>2, <2>1, <2>5, MoveInv
<1>7. CASE AnswersRejection(r)
  <2>1. [req[r] EXCEPT !.notes[Candidate(r)][Account(r)] = "rejected"] \in
          Request([req[r] EXCEPT !.notes[Candidate(r)][Account(r)] = "rejected"])
    BY <1>1 DEF Request
  <2> QED
    BY <1>7, <2>1, NextRequest DEF AnswersRejection, Become, vars
<1>8. CASE RelayCompletes(r)
  <2>1. \A d \in Callers \ {r} : attempt'[d].account = attempt[d].account
    BY <1>3, <1>8 DEF RelayCompletes, Succeed
  <2> DEFINE q == Reply(req[r], "ok", "ended")
  <2>2. Kept(req[r], q) /\ q.pc = "return" /\ req' = [req EXCEPT ![r] = q]
    BY <1>1, <1>8, ReplyKept DEF RelayCompletes, Become, Reply, Replies, Request
  <2> HIDE DEF q
  <2>3. q.pc \notin Holding /\ q.pc \notin Diagnostics
    BY <2>2 DEF Holding, ExecutorAssumption
  <2>4. Retrying(q, attempt'[r].account)
    BY <1>1, <2>2, <2>3 DEF Kept, Retrying
  <2> QED
    BY <2>1, <2>2, <2>4, OneRequest
<1>9. CASE RelayFails(r)
  <2>1. PICK drop, delay : Fail(r, Account(r), delay, NoDiagnostic, {}, drop)
    BY <1>9 DEF RelayFails, DefaultFail
  <2>2. Retrying(NextCandidate(req[r]), Account(r))
    BY <1>1, NextCandidateRetrying
  <2>3. Retrying(Reply(req[r], "broken", "ended"), Account(r))
    BY <1>1, ReplyKept, KeptRetrying DEF Replies
  <2>4. \E n : req' = [req EXCEPT ![r] = n] /\ Retrying(n, Account(r))
    BY <1>9, <2>2, <2>3 DEF RelayFails, CoolAndContinue, Become
  <2> QED
    BY <2>1, <2>4, FailedRequest
<1> QED
  BY <1>4, <1>5, <1>6, <1>7, <1>8, <1>9

\* A candidate that is not pooled fails.
LEMMA GiveUpInv ==
  ASSUME ExecutorAssumption, RetryInv, TypeOK', NEW r \in Callers, GiveUp(r), UNCHANGED vars
  PROVE  RetryInv'
<1>1. Retrying(req[r], Account(r)) /\ req[r] \in Request(req[r])
  BY DEF RetryInv, Retrying
<1>2. UNCHANGED attempt
  BY DEF vars
<1>3. CASE req' = [req EXCEPT ![r] = NextCandidate(req[r])]
  BY <1>1, <1>2, <1>3, NextRequest
<1>4. CASE req' = [req EXCEPT ![r] = Reply(req[r], "refused", "ended")]
  <2>1. Kept(req[r], Reply(req[r], "refused", "ended"))
    BY <1>1, ReplyKept DEF Replies
  <2> QED
    BY <1>2, <1>4, <2>1, KeptRequest
<1> QED
  BY <1>3, <1>4 DEF GiveUp, CoolAndContinue, Become

\* A candidate that is not pooled answers, breaks or ends.
LEMMA UnpooledInv ==
  ASSUME ExecutorAssumption, RetryInv, TypeOK', NEW r \in Callers,
         \/ UnpooledFails(r) \/ UnpooledAnswers(r) \/ FirstChunk(r) \/ EndsBeforeFirstChunk(r)
         \/ UnpooledCompletes(r) \/ UnpooledBreaks(r)
  PROVE  RetryInv'
<1>1. Retrying(req[r], Account(r)) /\ req[r] \in Request(req[r])
  BY DEF RetryInv, Retrying
<1>2. UNCHANGED vars /\ UNCHANGED attempt
  BY DEF UnpooledFails, UnpooledAnswers, FirstChunk, EndsBeforeFirstChunk, UnpooledCompletes,
         UnpooledBreaks, vars
<1>3. req[r].excluded = {}
  BY <1>1 DEF UnpooledFails, UnpooledAnswers, FirstChunk, EndsBeforeFirstChunk, UnpooledCompletes,
              UnpooledBreaks, Unpooled, Candidate, Retrying
<1>4. CASE GiveUp(r)
  BY <1>2, <1>4, GiveUpInv
<1>5. CASE UnpooledAnswers(r) \/ FirstChunk(r)
  <2>1. ASSUME NEW pc, NEW out PROVE
        [req[r] EXCEPT !.pc = pc, !.result = req[r].result, !.out = out]
          = [req[r] EXCEPT !.pc = pc, !.out = out]
    BY <1>1 DEF Request
  <2>2. \E pc \in {"preflight", "relay"} : \E out : Become(r, [req[r] EXCEPT !.pc = pc, !.out = out])
    BY <1>5 DEF UnpooledAnswers, FirstChunk
  <2>3. PICK pc \in {"preflight", "relay"} : \E out : MovedTo(r, pc, req[r].result, out)
    BY <2>1, <2>2 DEF MovedTo
  <2>4. pc \in Holding \cup {"return"} /\ pc \notin Diagnostics
    BY DEF Holding, ExecutorAssumption
  <2> QED
    BY <1>2, <1>3, <2>3, <2>4, MoveInv
<1>6. CASE \E code \in {"ok", "broken"} : \E out : Become(r, Reply(req[r], code, out))
  <2>1. PICK code \in Replies : \E out : Become(r, Reply(req[r], code, out))
    BY <1>6 DEF Replies
  <2>2. PICK out : Become(r, Reply(req[r], code, out))
    BY <2>1
  <2>3. Kept(req[r], Reply(req[r], code, out))
    BY <1>1, ReplyKept
  <2> QED
    BY <1>2, <2>2, <2>3, KeptRequest DEF Become
<1> QED
  BY <1>4, <1>5, <1>6 DEF UnpooledFails, EndsBeforeFirstChunk, UnpooledCompletes, UnpooledBreaks

\* A deadline expires, the client leaves, or the loop notices either.
LEMMA AbortInv ==
  ASSUME ExecutorAssumption, RetryInv, TypeOK', NEW r \in Callers,
         Deadline(r) \/ Disconnect(r) \/ AbortNoticed(r)
  PROVE  RetryInv'
<1>1. Retrying(req[r], Account(r)) /\ req[r] \in Request(req[r])
  BY DEF RetryInv, Retrying
<1>2. UNCHANGED attempt
  BY DEF Deadline, Disconnect, AbortNoticed, vars
<1>3. PICK q : /\ req' = [req EXCEPT ![r] = q]
               /\ \/ Running(r) /\ q = [req[r] EXCEPT !.abort = "deadline"]
                  \/ Running(r) /\ q = [req[r] EXCEPT !.abort = "client", !.out = "destroyed"]
                  \/ \E out : q = [req[r] EXCEPT !.pc = "return", !.out = out]
  BY DEF Deadline, Disconnect, AbortNoticed, Become
<1>4. /\ q \in Request(q) /\ q.excluded = req[r].excluded /\ q.tries = req[r].tries
      /\ q.plan = req[r].plan /\ q.i = req[r].i
      /\ q.pc = "return" \/ (q.pc = req[r].pc /\ q.pc # "idle")
  BY <1>1, <1>3 DEF Request, Pcs, Running
<1>5. Kept(req[r], q)
  BY <1>1, <1>4 DEF Kept, Retrying, Holding, ExecutorAssumption
<1> QED
  BY <1>2, <1>3, <1>5, KeptRequest

\* Every step keeps the invariant.
LEMMA RetryInvStep ==
  ASSUME PoolAssumption, ExecutorAssumption, RetryInv, [ExecNext]_execVars
  PROVE  RetryInv'
<1>1. TypeOK'
  BY ExecutorStep, TypeStep DEF RetryInv
<1>2. ASSUME NEW r \in Callers, Progress(r) PROVE RetryInv'
  BY <1>1, <1>2, ProgressInv
<1>3. ASSUME NEW r \in Callers, Upstream(r) PROVE RetryInv'
  BY <1>1, <1>3, PooledInv, UnpooledInv DEF Upstream
<1>4. ASSUME NEW r \in Callers, Deadline(r) \/ Disconnect(r) \/ AbortNoticed(r) PROVE RetryInv'
  BY <1>1, <1>4, AbortInv
<1>5. CASE Environment \/ UNCHANGED execVars
  <2>1. UNCHANGED <<req, attempt>>
    BY <1>5 DEF Environment, Tick, CredentialChange, execVars, vars
  <2> QED
    BY <1>1, <2>1 DEF RetryInv, Retrying, Account, Request
<1> QED
  BY <1>2, <1>3, <1>4, <1>5 DEF ExecNext

\* The invariant holds in every behaviour of the executor.
THEOREM RetryInvariant == ExecSpec => []RetryInv
<1>1. ExecInit => RetryInv
  BY RetryInvInit, PoolAssumption, ExecutorAssumption
<1>2. RetryInv /\ [ExecNext]_execVars => RetryInv'
  BY RetryInvStep, PoolAssumption, ExecutorAssumption
<1> QED
  BY <1>1, <1>2, PTL DEF ExecSpec

\* The retry loop asks at most MaxAttempts accounts, a different one each time,
\* whatever the other requests do to the pool meanwhile.
THEOREM EveryAccountTriedOnce == ExecSpec => []AccountsTriedOnce
<1>1. RetryInv => AccountsTriedOnce
  <2> SUFFICES ASSUME RetryInv, NEW r \in Callers
               PROVE  /\ Cardinality(req[r].excluded) = req[r].tries
                      /\ req[r].pc \in {"await", "preflight", "relay"} \cup Diagnostics =>
                           Account(r) \notin req[r].excluded
    BY DEF AccountsTriedOnce
  <2> QED
    BY DEF RetryInv, Retrying, Holding
<1> QED
  BY <1>1, RetryInvariant, PTL

--------------------------------------------------------------------------------
(* Replies                                                                 *)


\* A pooled chat stream that the deadline cut while it was visible.
Cut(r, q) ==
  q.abort = "deadline" /\ r \in Streaming \ Messages /\ q.plan[q.i] \in Pooled

\* What the client of request r has been shown agrees with where r stands.
Shown(r, q) ==
  /\ q.abort \in {"none", "deadline", "client"}
  /\ q.out \in {"open", "visible", "ended", "destroyed"}
  /\ q.abort = "client" => q.out = "destroyed"
  /\ q.abort = "none" /\ q.pc \notin {"relay", "return", "done"} => q.out = "open"
  /\ q.abort = "none" /\ q.pc = "relay" => q.out \in {"open", "visible"}
  /\ q.out = "visible" =>
       /\ q.pc \in {"relay", "return", "done"}
       /\ q.plan[q.i] \in Pooled => r \in Streaming
  /\ q.pc = "return" /\ q.out = "visible" => Cut(r, q)
  /\ q.pc = "done" => q.out \in {"ended", "destroyed"} \/ (q.out = "visible" /\ Cut(r, q))

\* The ways a step may take a request from p to q: nothing was or is shown; the
\* reply ends; it begins; it stays as it is; the request is aborted.
Unshown(p, q) ==
  p.out = "open" /\ q.out = "open" /\ q.abort = p.abort /\ q.pc # "done"
Ends(p, q) ==
  /\ q.abort = p.abort /\ q.out \in {"ended", "destroyed"} /\ q.pc \in {"return", "done"}
  /\ p.abort # "client"
Begins(r, p, q) ==
  /\ p.abort = "none" /\ q.abort = "none" /\ p.out = "open" /\ q.out = "visible" /\ q.pc = "relay"
  /\ q.plan[q.i] \in Pooled => r \in Streaming
Stays(r, p, q) ==
  /\ q.abort = p.abort /\ q.out = p.out /\ q.plan = p.plan /\ q.i = p.i
  /\ \/ q.pc = "return" /\ p.abort # "none" /\ (q.out = "visible" => Cut(r, q))
     \/ q.pc = "done" /\ (q.out \in {"ended", "destroyed"} \/ (q.out = "visible" /\ Cut(r, q)))
Aborts(p, q) ==
  /\ p.abort = "none" /\ q.plan = p.plan /\ q.i = p.i /\ q.pc = p.pc /\ q.pc \notin {"return", "done"}
  /\ \/ q.abort = "deadline" /\ q.out = p.out
     \/ q.abort = "client" /\ q.out = "destroyed"

Move(r, p, q) ==
  /\ p.out # "open" =>
       /\ q.i = p.i /\ q.tries = p.tries
       /\ q.pc \in {p.pc, "return", "done"}
  /\ Unshown(p, q) \/ Ends(p, q) \/ Begins(r, p, q) \/ Stays(r, p, q) \/ Aborts(p, q)

\* Each of them keeps the agreement.
LEMMA MoveKeepsShown ==
  ASSUME NEW r, NEW p, NEW q, Shown(r, p), Move(r, p, q)
  PROVE  Shown(r, q)
<1>1. CASE Unshown(p, q)
  BY <1>1 DEF Unshown, Shown
<1>2. CASE Ends(p, q)
  BY <1>2 DEF Ends, Shown
<1>3. CASE Begins(r, p, q)
  BY <1>3 DEF Begins, Shown
<1>4. CASE Stays(r, p, q)
  BY <1>4 DEF Stays, Shown, Cut
<1>5. CASE Aborts(p, q)
  BY <1>5 DEF Aborts, Shown, Cut
<1> QED
  BY <1>1, <1>2, <1>3, <1>4, <1>5 DEF Move

\* Request r moves and the others stay.
Moves(r) == \E q : req' = [req EXCEPT ![r] = q] /\ Move(r, req[r], q)

ShownInv == \A r \in Callers : Shown(r, req[r])

\* The request as a record, with what the retry loop knows of it.
LEMMA AsRecord ==
  ASSUME RetryInv, NEW r \in Callers
  PROVE  req[r] \in Request(req[r])
BY DEF RetryInv, Retrying

\* The next attempt, and the next candidate, show nothing new.
LEMMA Onwards ==
  ASSUME NEW q, q \in Request(q), NEW a
  PROVE  /\ NextCandidate(q).out = q.out /\ NextCandidate(q).abort = q.abort
         /\ NextCandidate(q).pc \in {"return", "select"}
         /\ RetryPool(q, a).out = q.out /\ RetryPool(q, a).abort = q.abort
         /\ RetryPool(q, a).pc = "select"
BY DEF NextCandidate, RetryPool, Request

\* A failure before anything was shown is followed by an attempt or a candidate.
LEMMA GoesOn ==
  ASSUME RetryInv, NEW r \in Callers, NEW q, q \in Request(q), q.out = "open", q.abort = req[r].abort,
         req[r].out = "open",
         RetryOrContinue(r, q) \/ req' = [req EXCEPT ![r] = NextCandidate(q)]
         \/ req' = [req EXCEPT ![r] = RetryPool(q, Account(r))]
  PROVE  Moves(r)
<1>1. PICK n : req' = [req EXCEPT ![r] = n] /\ (n = NextCandidate(q) \/ n = RetryPool(q, Account(r)))
  BY DEF RetryOrContinue, Become, Account
<1>2. n.out = "open" /\ n.abort = req[r].abort /\ n.pc # "done"
  BY <1>1, Onwards
<1> QED
  BY <1>1, <1>2 DEF Moves, Move, Unshown

\* A reply that ends leaves the loop where it stood.
LEMMA RepliesEnd ==
  ASSUME RetryInv, NEW r \in Callers, req[r].abort = "none", NEW code, NEW out \in {"ended", "destroyed"},
         Become(r, Reply(req[r], code, out))
  PROVE  Moves(r)
<1> DEFINE q == Reply(req[r], code, out)
<1>1. /\ q.out = out /\ q.pc = "return" /\ q.abort = "none" /\ q.i = req[r].i /\ q.tries = req[r].tries
  BY AsRecord DEF Reply, Request
<1>2. req' = [req EXCEPT ![r] = q]
  BY DEF Become
<1> HIDE DEF q
<1> QED
  BY <1>1, <1>2 DEF Moves, Move, Ends

\* Before anything was shown, a request that is not aborted may take any step
\* within its attempt.
LEMMA StepsUnshown ==
  ASSUME RetryInv, NEW r \in Callers, req[r].out = "open", NEW q, q.out = "open",
         q.abort = req[r].abort, q.pc # "done", Become(r, q)
  PROVE  Moves(r)
BY DEF Moves, Move, Unshown, Become

\* The loop by itself.
LEMMA ProgressMoves ==
  ASSUME ExecutorAssumption, RetryInv, ShownInv, NEW r \in Callers, Progress(r)
  PROVE  Moves(r)
<1>1. req[r] \in Request(req[r]) /\ Shown(r, req[r])
  BY AsRecord DEF ShownInv
<1>2. CASE Plan(r)
  <2>1. req[r].abort = "none" /\ req[r].out = "open"
    BY <1>1, <1>2 DEF Plan, At, Aborted, Shown
  <2>2. PICK q : /\ Become(r, q)
                 /\ \/ q = [req[r] EXCEPT !.pc = "done", !.reply = "cooling", !.out = "ended"]
                    \/ \E plan : q = [req[r] EXCEPT !.pc = "select", !.plan = plan]
    BY <1>2 DEF Plan
  <2>3. CASE q = [req[r] EXCEPT !.pc = "done", !.reply = "cooling", !.out = "ended"]
    <3>1. q.pc = "done" /\ q.out = "ended" /\ q.abort = "none"
      BY <1>1, <2>1, <2>3 DEF Request
    <3> QED
      BY <2>1, <2>2, <3>1 DEF Moves, Move, Ends, Become
  <2>4. CASE \E plan : q = [req[r] EXCEPT !.pc = "select", !.plan = plan]
    <3>1. q.pc = "select" /\ q.out = "open" /\ q.abort = "none"
      BY <1>1, <2>1, <2>4 DEF Request
    <3> QED
      BY <2>1, <2>2, <3>1, StepsUnshown
  <2> QED
    BY <2>2, <2>3, <2>4
<1>3. CASE SelectAccount(r) \/ PoolExhausted(r)
  <2>1. req[r].abort = "none" /\ req[r].out = "open"
    BY <1>1, <1>3 DEF SelectAccount, PoolExhausted, Pooling, At, Aborted, Shown
  <2>2. CASE SelectAccount(r)
    <3>1. Become(r, [req[r] EXCEPT !.pc = "await"])
      BY <2>2 DEF SelectAccount
    <3>2. /\ [req[r] EXCEPT !.pc = "await"].pc = "await" /\ [req[r] EXCEPT !.pc = "await"].out = req[r].out
          /\ [req[r] EXCEPT !.pc = "await"].abort = req[r].abort
      BY <1>1 DEF Request
    <3> QED
      BY <2>1, <3>1, <3>2, StepsUnshown
  <2>3. CASE PoolExhausted(r)
    <3>1. PICK notes : Become(r, NextCandidate([req[r] EXCEPT !.notes[Candidate(r)] = notes]))
      BY <2>3 DEF PoolExhausted
    <3> DEFINE q == [req[r] EXCEPT !.notes[Candidate(r)] = notes]
    <3>2. q \in Request(q) /\ q.out = req[r].out /\ q.abort = req[r].abort
      BY <1>1 DEF Request
    <3>3. req' = [req EXCEPT ![r] = NextCandidate(q)]
      BY <3>1 DEF Become
    <3> HIDE DEF q
    <3> QED
      BY <2>1, <3>2, <3>3, GoesOn
  <2> QED
    BY <1>3, <2>2, <2>3
<1>4. ASSUME NEW status \in Diagnostics, ReportRefusal(r, status) PROVE Moves(r)
  <2> DEFINE q == [req[r] EXCEPT !.notes[Candidate(r)][Account(r)] = status]
  <2>1. /\ q \in Request(q) /\ q.out = req[r].out /\ q.abort = req[r].abort
        /\ q.plan = req[r].plan /\ q.i = req[r].i /\ q.tries = req[r].tries
    BY <1>1 DEF Request
  <2>2. req[r].pc \in {"quota", "denied"}
    BY <1>4 DEF ReportRefusal, ExecutorAssumption
  <2>3. CASE Aborted(r)
    <3> DEFINE n == [q EXCEPT !.pc = "return"]
    <3>1. req' = [req EXCEPT ![r] = n]
      BY <1>4, <2>3 DEF ReportRefusal, Become
    <3> HIDE DEF q
    <3>2. /\ n.pc = "return" /\ n.out = req[r].out /\ n.abort = req[r].abort
          /\ n.plan = req[r].plan /\ n.i = req[r].i /\ n.tries = req[r].tries
      BY <2>1 DEF Request
    <3> HIDE DEF n
    <3>3. req[r].out # "visible" /\ req[r].abort # "none"
      BY <1>1, <2>2, <2>3 DEF Shown, Aborted
    <3> QED
      BY <3>1, <3>2, <3>3 DEF Moves, Move, Stays
  <2>4. CASE ~Aborted(r)
    <3>1. RetryOrContinue(r, q)
      BY <1>4, <2>4 DEF ReportRefusal
    <3>2. req[r].out = "open"
      BY <1>1, <2>2, <2>4 DEF Shown, Aborted
    <3> HIDE DEF q
    <3> QED
      BY <2>1, <3>1, <3>2, GoesOn
  <2> QED
    BY <2>3, <2>4
<1>5. CASE Return(r)
  <2> DEFINE q == [req[r] EXCEPT !.pc = "done"]
  <2>1. /\ q.pc = "done" /\ q.out = req[r].out /\ q.abort = req[r].abort /\ q \in Request(q)
        /\ q.plan = req[r].plan /\ q.i = req[r].i /\ q.tries = req[r].tries
    BY <1>1 DEF Request, Pcs
  <2>2. PICK code : \/ /\ q.out = "open" /\ q.abort \in {"deadline", "none"}
                       /\ req' = [req EXCEPT ![r] = [q EXCEPT !.reply = code, !.out = "ended"]]
                    \/ /\ ~(q.out = "open" /\ q.abort = "deadline") /\ ~(q.out = "open" /\ q.abort = "none")
                       /\ req' = [req EXCEPT ![r] = q]
    BY <1>5 DEF Return, Become
  <2>3. req[r].pc = "return"
    BY <1>5 DEF Return
  <2>4. ASSUME NEW n, n = [q EXCEPT !.reply = code, !.out = "ended"]
        PROVE  n.pc = "done" /\ n.out = "ended" /\ n.abort = req[r].abort
    <3> HIDE DEF q
    <3> QED
      BY <2>1, <2>4 DEF Request
  <2> HIDE DEF q
  <2>5. CASE q.out = "open" /\ q.abort \in {"deadline", "none"}
    <3>1. PICK n : n = [q EXCEPT !.reply = code, !.out = "ended"]
      OBVIOUS
    <3>2. req' = [req EXCEPT ![r] = n] /\ n.pc = "done" /\ n.out = "ended" /\ n.abort = req[r].abort
      BY <2>2, <2>4, <2>5, <3>1
    <3> QED
      BY <2>1, <2>5, <3>2 DEF Moves, Move, Ends
  <2>6. CASE ~(q.out = "open" /\ q.abort \in {"deadline", "none"})
    <3>1. q.out \in {"ended", "destroyed"} \/ (q.out = "visible" /\ Cut(r, q))
      BY <1>1, <2>1, <2>3, <2>6 DEF Shown, Cut
    <3> QED
      BY <2>1, <2>2, <2>6, <3>1 DEF Moves, Move, Stays
  <2> QED
    BY <2>5, <2>6
<1> QED
  BY <1>2, <1>3, <1>4, <1>5 DEF Progress

\* A pooled candidate answers or fails.
LEMMA PooledMoves ==
  ASSUME ExecutorAssumption, RetryInv, ShownInv, NEW r \in Callers,
         \/ AttemptFails(r) \/ AnswersDocument(r) \/ AnswersStream(r) \/ AnswersRejection(r)
         \/ \E status \in Diagnostics : AnswersRefusal(r, status)
         \/ PreflightFails(r) \/ PreflightPasses(r) \/ RelayCompletes(r) \/ RelayFails(r)
  PROVE  Moves(r)
<1>1. req[r] \in Request(req[r]) /\ Shown(r, req[r])
  BY AsRecord DEF ShownInv
<1>2. req[r].abort = "none" /\ Candidate(r) \in Pooled
  BY DEF AttemptFails, AnswersDocument, AnswersStream, AnswersRejection, AnswersRefusal,
         PreflightFails, PreflightPasses, RelayCompletes, RelayFails, Pooling, At, Aborted
<1>3. req[r].pc \in {"await", "preflight"} => req[r].out = "open"
  BY <1>1, <1>2 DEF Shown
<1>4. CASE AttemptFails(r)
  <2>1. req[r].out = "open"
    BY <1>3, <1>4 DEF AttemptFails, Pooling, At
  <2>2. \/ req' = [req EXCEPT ![r] = RetryPool(req[r], Account(r))]
        \/ req' = [req EXCEPT ![r] = NextCandidate(req[r])]
    BY <1>4 DEF AttemptFails, CoolAndContinue, Become
  <2> QED
    BY <1>1, <2>1, <2>2, GoesOn
<1>5. CASE AnswersDocument(r) \/ PreflightFails(r)
  <2>1. PICK q : /\ q = req[r] \/ q = [req[r] EXCEPT !.result = Account(r)]
                 /\ RetryOrContinue(r, q)
    BY <1>5 DEF AnswersDocument, PreflightFails
  <2>2. q \in Request(q) /\ q.out = req[r].out /\ q.abort = req[r].abort
    BY <1>1, <2>1 DEF Request
  <2>3. req[r].out = "open"
    BY <1>3, <1>5 DEF AnswersDocument, PreflightFails, Pooling, At
  <2> QED
    BY <2>1, <2>2, <2>3, GoesOn
<1>6. CASE AnswersStream(r) \/ \E status \in Diagnostics : AnswersRefusal(r, status)
  <2>1. PICK pc \in {"preflight"} \cup Diagnostics : Become(r, [req[r] EXCEPT !.result = Account(r), !.pc = pc])
    BY <1>6 DEF AnswersStream, AnswersRefusal
  <2> DEFINE q == [req[r] EXCEPT !.result = Account(r), !.pc = pc]
  <2>2. q.pc = pc /\ q.out = req[r].out /\ q.abort = req[r].abort
    BY <1>1 DEF Request
  <2>3. req[r].out = "open" /\ pc # "done"
    BY <1>3, <1>6 DEF AnswersStream, AnswersRefusal, Pooling, At, ExecutorAssumption
  <2> HIDE DEF q
  <2>4. Become(r, q)
    BY <2>1 DEF q
  <2> QED
    BY <2>2, <2>3, <2>4, StepsUnshown
<1>7. CASE AnswersRejection(r)
  <2> DEFINE q == [req[r] EXCEPT !.notes[Candidate(r)][Account(r)] = "rejected"]
  <2>1. q \in Request(q) /\ q.out = req[r].out /\ q.abort = req[r].abort
    BY <1>1 DEF Request
  <2>2. req[r].out = "open" /\ req' = [req EXCEPT ![r] = NextCandidate(q)]
    BY <1>3, <1>7 DEF AnswersRejection, Pooling, At, Become
  <2> HIDE DEF q
  <2> QED
    BY <2>1, <2>2, GoesOn
<1>8. CASE PreflightPasses(r)
  <2>1. PICK out : /\ Become(r, [req[r] EXCEPT !.pc = "relay", !.out = out])
                   /\ out = IF r \in Streaming THEN "visible" ELSE req[r].out
    BY <1>8 DEF PreflightPasses
  <2> DEFINE q == [req[r] EXCEPT !.pc = "relay", !.out = out]
  <2>2. q.pc = "relay" /\ q.out = out /\ q.abort = "none" /\ q.plan = req[r].plan /\ q.i = req[r].i
    BY <1>1, <1>2 DEF Request
  <2>3. req[r].out = "open"
    BY <1>3, <1>8 DEF PreflightPasses, Pooling, At
  <2> HIDE DEF q
  <2>4. req' = [req EXCEPT ![r] = q]
    BY <2>1 DEF q, Become
  <2> QED
    BY <1>2, <2>1, <2>2, <2>3, <2>4 DEF Moves, Move, Unshown, Begins
<1>9. CASE RelayCompletes(r)
  BY <1>2, <1>9, RepliesEnd DEF RelayCompletes
<1>10. CASE RelayFails(r)
  <2>1. CASE r \in Streaming
    BY <1>2, <1>10, <2>1, RepliesEnd DEF RelayFails
  <2>2. CASE r \notin Streaming
    <3>1. req[r].out = "open"
      BY <1>1, <1>2, <1>10, <2>2 DEF RelayFails, Pooling, At, Shown, Candidate
    <3>2. req' = [req EXCEPT ![r] = NextCandidate(req[r])]
      BY <1>10, <2>2 DEF RelayFails, CoolAndContinue, Become
    <3> QED
      BY <1>1, <3>1, <3>2, GoesOn
  <2> QED
    BY <2>1, <2>2
<1> QED
  BY <1>4, <1>5, <1>6, <1>7, <1>8, <1>9, <1>10

\* Another candidate gives up with nothing shown.
LEMMA GiveUpMoves ==
  ASSUME RetryInv, NEW r \in Callers, req[r].abort = "none", req[r].out = "open", GiveUp(r)
  PROVE  Moves(r)
<1>1. CASE req' = [req EXCEPT ![r] = NextCandidate(req[r])]
  BY <1>1, AsRecord, GoesOn
<1>2. CASE Become(r, Reply(req[r], "refused", "ended"))
  BY <1>2, RepliesEnd
<1> QED
  BY <1>1, <1>2 DEF GiveUp, CoolAndContinue, Become

\* Another candidate answers, breaks or ends.
LEMMA UnpooledMoves ==
  ASSUME RetryInv, ShownInv, NEW r \in Callers,
         \/ UnpooledFails(r) \/ UnpooledAnswers(r) \/ FirstChunk(r) \/ EndsBeforeFirstChunk(r)
         \/ UnpooledCompletes(r) \/ UnpooledBreaks(r)
  PROVE  Moves(r)
<1>1. req[r] \in Request(req[r]) /\ Shown(r, req[r])
  BY AsRecord DEF ShownInv
<1>2. req[r].abort = "none" /\ Candidate(r) \notin Pooled
  BY DEF UnpooledFails, UnpooledAnswers, FirstChunk, EndsBeforeFirstChunk, UnpooledCompletes,
         UnpooledBreaks, Unpooled, At, Aborted
<1>3. req[r].pc \in {"select", "preflight"} => req[r].out = "open"
  BY <1>1, <1>2 DEF Shown
<1>4. CASE UnpooledFails(r) \/ EndsBeforeFirstChunk(r)
  BY <1>2, <1>3, <1>4, GiveUpMoves DEF UnpooledFails, EndsBeforeFirstChunk, Unpooled, At
<1>5. CASE UnpooledAnswers(r) \/ FirstChunk(r)
  <2>1. PICK pc \in {"preflight", "relay"}, out \in {"open", "visible"} :
          /\ Become(r, [req[r] EXCEPT !.pc = pc, !.out = out])
          /\ out = "visible" => pc = "relay"
    BY <1>5 DEF UnpooledAnswers, FirstChunk
  <2> DEFINE q == [req[r] EXCEPT !.pc = pc, !.out = out]
  <2>2. q.pc = pc /\ q.out = out /\ q.abort = "none" /\ q.plan = req[r].plan /\ q.i = req[r].i
    BY <1>1, <1>2 DEF Request
  <2>3. req[r].out = "open"
    BY <1>3, <1>5 DEF UnpooledAnswers, FirstChunk, Unpooled, At
  <2> HIDE DEF q
  <2>4. req' = [req EXCEPT ![r] = q]
    BY <2>1 DEF q, Become
  <2>5. q.plan[q.i] \notin Pooled
    BY <1>2, <2>2 DEF Candidate
  <2> QED
    BY <1>2, <2>1, <2>2, <2>3, <2>4, <2>5 DEF Moves, Move, Unshown, Begins
<1>6. CASE UnpooledCompletes(r)
  BY <1>2, <1>6, RepliesEnd DEF UnpooledCompletes
<1>7. CASE UnpooledBreaks(r)
  <2>1. CASE req[r].out = "visible"
    <3>1. PICK out \in CutOff(r) : Become(r, Reply(req[r], "broken", out))
      BY <1>7, <2>1 DEF UnpooledBreaks
    <3>2. out \in {"ended", "destroyed"}
      BY <3>1 DEF CutOff
    <3> QED
      BY <1>2, <3>1, <3>2, RepliesEnd
  <2>2. CASE req[r].out # "visible"
    <3>1. req[r].out = "open"
      BY <1>1, <1>2, <1>7, <2>2 DEF UnpooledBreaks, Unpooled, At, Shown
    <3> QED
      BY <1>2, <1>7, <2>2, <3>1, GiveUpMoves DEF UnpooledBreaks
  <2> QED
    BY <2>1, <2>2
<1> QED
  BY <1>4, <1>5, <1>6, <1>7

\* The deadline, the client, and the loop that notices either.
LEMMA AbortMoves ==
  ASSUME ExecutorAssumption, RetryInv, ShownInv, NEW r \in Callers,
         Deadline(r) \/ Disconnect(r) \/ AbortNoticed(r)
  PROVE  Moves(r)
<1>1. req[r] \in Request(req[r]) /\ Shown(r, req[r])
  BY AsRecord DEF ShownInv
<1>2. CASE Deadline(r) \/ Disconnect(r)
  <2>1. PICK q : /\ req' = [req EXCEPT ![r] = q]
                 /\ \/ q = [req[r] EXCEPT !.abort = "deadline"]
                    \/ q = [req[r] EXCEPT !.abort = "client", !.out = "destroyed"]
    BY <1>2 DEF Deadline, Disconnect, Become
  <2>2. /\ q.pc = req[r].pc /\ q.plan = req[r].plan /\ q.i = req[r].i /\ q.tries = req[r].tries
        /\ \/ q.abort = "deadline" /\ q.out = req[r].out
           \/ q.abort = "client" /\ q.out = "destroyed"
    BY <1>1, <2>1 DEF Request
  <2>3. req[r].abort = "none" /\ req[r].pc \notin {"return", "done"}
    BY <1>2 DEF Deadline, Disconnect, Running, Aborted
  <2> QED
    BY <2>1, <2>2, <2>3 DEF Moves, Move, Aborts
<1>3. CASE AbortNoticed(r)
  <2>1. req[r].abort # "none" /\ req[r].pc \in {"select", "await", "preflight", "relay"}
    BY <1>3 DEF AbortNoticed, Aborted
  <2>2. PICK out : /\ Become(r, [req[r] EXCEPT !.pc = "return", !.out = out])
                   /\ \/ /\ req[r].out = "visible" /\ ~(Candidate(r) \in Pooled /\ r \notin Messages)
                         /\ out \in {"ended", "destroyed"}
                      \/ /\ req[r].out = "visible" => Candidate(r) \in Pooled /\ r \notin Messages
                         /\ out = req[r].out
    BY <1>3 DEF AbortNoticed, CutOff
  <2> DEFINE q == [req[r] EXCEPT !.pc = "return", !.out = out]
  <2>3. /\ q.pc = "return" /\ q.out = out /\ q.abort = req[r].abort
        /\ q.plan = req[r].plan /\ q.i = req[r].i /\ q.tries = req[r].tries
    BY <1>1 DEF Request
  <2> HIDE DEF q
  <2>4. req' = [req EXCEPT ![r] = q]
    BY <2>2 DEF q, Become
  <2>5. CASE out \in {"ended", "destroyed"} /\ req[r].out = "visible"
    BY <1>1, <2>3, <2>4, <2>5 DEF Moves, Move, Ends, Shown
  <2>6. CASE /\ out = req[r].out
             /\ req[r].out = "visible" => Candidate(r) \in Pooled /\ r \notin Messages
    <3>1. q.out = "visible" => Cut(r, q)
      BY <1>1, <2>1, <2>3, <2>6 DEF Cut, Shown, Candidate
    <3> QED
      BY <2>1, <2>3, <2>4, <2>6, <3>1 DEF Moves, Move, Stays
  <2> QED
    BY <2>2, <2>5, <2>6
<1> QED
  BY <1>2, <1>3

\* Every step moves one request or none.
LEMMA ExecutorMoves ==
  ASSUME ExecutorAssumption, RetryInv, ShownInv, [ExecNext]_execVars
  PROVE  UNCHANGED req \/ \E r \in Callers : Moves(r)
<1>1. ASSUME NEW r \in Callers, Upstream(r) PROVE Moves(r)
  BY <1>1, PooledMoves, UnpooledMoves DEF Upstream
<1>2. CASE Environment \/ UNCHANGED execVars
  BY <1>2 DEF Environment, execVars
<1> QED
  BY <1>1, <1>2, ProgressMoves, AbortMoves DEF ExecNext

\* The agreement is kept.
LEMMA ShownStep ==
  ASSUME ExecutorAssumption, RetryInv, ShownInv, [ExecNext]_execVars
  PROVE  ShownInv'
<1>1. ASSUME NEW r \in Callers, Moves(r), NEW d \in Callers PROVE Shown(d, req[d])'
  <2>1. PICK q : req' = [req EXCEPT ![r] = q] /\ Move(r, req[r], q)
    BY <1>1 DEF Moves
  <2>2. req'[d] = IF d = r THEN q ELSE req[d]
    BY <2>1 DEF RetryInv
  <2>3. Shown(d, req'[d])
    BY <2>1, <2>2, MoveKeepsShown DEF ShownInv
  <2> QED
    BY <2>3 DEF Shown, Cut
<1>2. CASE UNCHANGED req
  BY <1>2 DEF ShownInv, Shown, Cut
<1> QED
  BY <1>1, <1>2, ExecutorMoves DEF ShownInv

\* Nothing has been shown to anyone at first.
LEMMA ShownInit == ExecInit => ShownInv
BY DEF ExecInit, NewRequest, ShownInv, Shown

--------------------------------------------------------------------------------
(* Theorems: replies                                                       *)

\* In every behaviour of the executor each request's reply agrees with where it
\* stands.
THEOREM ReplyInvariant == ExecSpec => [](RetryInv /\ ShownInv)
<1>1. RetryInv /\ ShownInv /\ [ExecNext]_execVars => ShownInv'
  BY ShownStep, ExecutorAssumption
<1> QED
  BY <1>1, ShownInit, RetryInvariant, PTL DEF ExecSpec

\* Whatever fails, expires or leaves, a request that is over has ended its reply,
\* but for the pooled chat stream that the deadline cut.
THEOREM RepliesAreEnded == ExecSpec => []OnlyCutChatStreamsStayOpen
<1>1. ShownInv => OnlyCutChatStreamsStayOpen
  BY DEF ShownInv, Shown, Cut, OnlyCutChatStreamsStayOpen, Candidate
<1> QED
  BY <1>1, ReplyInvariant, PTL

\* No step of any request tries another account or candidate for a client that
\* has been sent something.
THEOREM OutputIsFinal == ExecSpec => NoFallbackAfterOutput
<1> DEFINE Final == \A r \in Callers : req[r].out # "open" =>
                      /\ req'[r].i = req[r].i /\ req'[r].tries = req[r].tries
                      /\ req'[r].pc \in {req[r].pc, "return", "done"}
<1>1. ASSUME RetryInv, ShownInv, [ExecNext]_execVars PROVE Final
  <2>1. ASSUME NEW r \in Callers, Moves(r) PROVE Final
    <3>1. PICK q : req' = [req EXCEPT ![r] = q] /\ Move(r, req[r], q)
      BY <2>1 DEF Moves
    <3>2. \A d \in Callers : req'[d] = IF d = r THEN q ELSE req[d]
      BY <1>1, <3>1 DEF RetryInv
    <3> QED
      BY <3>1, <3>2 DEF Move
  <2>2. CASE UNCHANGED req
    BY <2>2
  <2> QED
    BY <1>1, <2>1, <2>2, ExecutorMoves, ExecutorAssumption
<1>2. RetryInv /\ ShownInv /\ [ExecNext]_execVars => [Final]_execVars
  BY <1>1
<1> QED
  BY <1>2, ReplyInvariant, PTL DEF ExecSpec, NoFallbackAfterOutput

--------------------------------------------------------------------------------
(* Theorems: blame                                                         *)

Asking(r) ==
  \/ At(r, "await") \/ At(r, "preflight") \/ At(r, "relay")
  \/ req[r].pc \in Diagnostics

\* Request r reports a failure, of whichever account, and leaves its attempt.
Blames(r) ==
  /\ Asking(r) /\ req'[r] # req[r]
  /\ \E a, delay, diagnostic, also, drop : Fail(r, a, delay, diagnostic, also, drop)

\* A failed attempt is left for another one, another candidate or the end.
LEMMA LeavesAttempt ==
  ASSUME ExecutorAssumption, RetryInv, NEW r \in Callers, NEW q, q \in Request(q), Asking(r),
         \/ RetryOrContinue(r, q) \/ CoolAndContinue(r) \/ Become(r, RetryPool(q, Account(r)))
         \/ \E code, out : Become(r, Reply(req[r], code, out))
         \/ Become(r, [q EXCEPT !.pc = "return"])
  PROVE  req'[r] # req[r]
<1>1. PICK n : req' = [req EXCEPT ![r] = n] /\ n.pc \in {"select", "return"}
  <2>1. CASE RetryOrContinue(r, q) \/ Become(r, RetryPool(q, Account(r)))
    BY <2>1, Onwards DEF RetryOrContinue, Become
  <2>2. CASE CoolAndContinue(r)
    BY <2>2, AsRecord, Onwards DEF CoolAndContinue, Become
  <2>3. ASSUME NEW code, NEW out, Become(r, Reply(req[r], code, out)) PROVE \E n : req' = [req EXCEPT ![r] = n] /\ n.pc \in {"select", "return"}
    <3>1. Reply(req[r], code, out).pc = "return"
      BY AsRecord DEF Reply, Request
    <3> QED
      BY <2>3, <3>1 DEF Become
  <2>4. CASE Become(r, [q EXCEPT !.pc = "return"])
    <3>1. [q EXCEPT !.pc = "return"].pc = "return"
      BY DEF Request
    <3> QED
      BY <2>4, <3>1 DEF Become
  <2> QED
    BY <2>1, <2>2, <2>3, <2>4
<1>2. req'[r] = n
  BY <1>1 DEF RetryInv
<1>3. req[r].pc \notin {"select", "return"}
  BY DEF Asking, At, ExecutorAssumption
<1> QED
  BY <1>1, <1>2, <1>3

\* The counters move only when a request reports a failure.
LEMMA OnlyBlameCounts ==
  ASSUME ExecutorAssumption, RetryInv, [ExecNext]_execVars,
         NEW a \in Accounts, state'[a].generation # state[a].generation
  PROVE  \E r \in Callers : Blames(r)
<1>1. state' # state
  OBVIOUS
<1>2. ASSUME NEW r \in Callers, RelayCompletes(r) PROVE FALSE
  <2>1. state \in [Accounts -> Health]
    BY DEF RetryInv, TypeOK
  <2>2. \/ state' = state
        \/ \E b : state' = [state EXCEPT ![b] = Recovered(@)]
    BY <1>2 DEF RelayCompletes, Succeed, MarkSuccess
  <2>3. Recovered(state[a]).generation = state[a].generation
    BY <2>1 DEF Recovered, Health
  <2> QED
    BY <2>1, <2>2, <2>3
<1>3. ASSUME NEW r \in Callers, AttemptFails(r) PROVE Blames(r)
  <2>1. Asking(r)
    BY <1>3 DEF AttemptFails, Pooling, Asking
  <2>2. \E b, delay, diagnostic, also, drop : Fail(r, b, delay, diagnostic, also, drop)
    BY <1>3 DEF AttemptFails, DefaultFail
  <2>3. CoolAndContinue(r) \/ Become(r, RetryPool(req[r], Account(r)))
    BY <1>3 DEF AttemptFails
  <2> QED
    BY <2>1, <2>2, <2>3, AsRecord, LeavesAttempt DEF Blames
<1>4. ASSUME NEW r \in Callers, AnswersDocument(r) \/ PreflightFails(r) PROVE Blames(r)
  <2>1. Asking(r)
    BY <1>4 DEF AnswersDocument, PreflightFails, Pooling, Asking
  <2>2. \E b, delay, diagnostic, also, drop : Fail(r, b, delay, diagnostic, also, drop)
    BY <1>4 DEF AnswersDocument, PreflightFails, DefaultFail
  <2>3. PICK q : (q = req[r] \/ q = [req[r] EXCEPT !.result = Account(r)]) /\ RetryOrContinue(r, q)
    BY <1>4 DEF AnswersDocument, PreflightFails
  <2>4. q \in Request(q)
    BY <2>3, AsRecord DEF Request
  <2> QED
    BY <2>1, <2>2, <2>3, <2>4, LeavesAttempt DEF Blames
<1>5. ASSUME NEW r \in Callers, RelayFails(r) PROVE Blames(r)
  <2>1. Asking(r)
    BY <1>5 DEF RelayFails, Pooling, Asking
  <2>2. \E b, delay, diagnostic, also, drop : Fail(r, b, delay, diagnostic, also, drop)
    BY <1>5 DEF RelayFails, DefaultFail
  <2>3. CoolAndContinue(r) \/ \E code, out : Become(r, Reply(req[r], code, out))
    BY <1>5 DEF RelayFails
  <2> QED
    BY <2>1, <2>2, <2>3, AsRecord, LeavesAttempt DEF Blames
<1>6. ASSUME NEW r \in Callers, NEW status \in Diagnostics, ReportRefusal(r, status) PROVE Blames(r)
  <2> DEFINE q == [req[r] EXCEPT !.notes[Candidate(r)][Account(r)] = status]
  <2>1. Asking(r) /\ q \in Request(q)
    BY <1>6, AsRecord DEF ReportRefusal, Asking, Request
  <2>2. \E b, delay, diagnostic, also, drop : Fail(r, b, delay, diagnostic, also, drop)
    BY <1>6 DEF ReportRefusal
  <2>3. RetryOrContinue(r, q) \/ Become(r, [q EXCEPT !.pc = "return"])
    BY <1>6 DEF ReportRefusal
  <2> HIDE DEF q
  <2> QED
    BY <2>1, <2>2, <2>3, LeavesAttempt DEF Blames
<1>7. ASSUME NEW r \in Callers, Progress(r), \A status \in Diagnostics : ~ReportRefusal(r, status)
      PROVE  FALSE
  BY <1>1, <1>7 DEF Progress, Plan, SelectAccount, PoolExhausted, Return, Begin, Exhausted, Finish, vars, poolVars
<1>8. ASSUME NEW r \in Callers,
             \/ AnswersStream(r) \/ AnswersRejection(r) \/ PreflightPasses(r)
             \/ \E status \in Diagnostics : AnswersRefusal(r, status)
             \/ UnpooledFails(r) \/ UnpooledAnswers(r) \/ FirstChunk(r) \/ EndsBeforeFirstChunk(r)
             \/ UnpooledCompletes(r) \/ UnpooledBreaks(r)
             \/ Deadline(r) \/ AbortNoticed(r) \/ Disconnect(r)
      PROVE  FALSE
  BY <1>1, <1>8 DEF AnswersStream, AnswersRejection, PreflightPasses, AnswersRefusal, UnpooledFails,
     UnpooledAnswers, FirstChunk, EndsBeforeFirstChunk, UnpooledCompletes, UnpooledBreaks,
     Deadline, AbortNoticed, Disconnect, vars
<1>9. CASE Environment \/ UNCHANGED execVars
  BY <1>1, <1>9 DEF Environment, Tick, CredentialChange, execVars, vars
<1> QED
  BY <1>2, <1>3, <1>4, <1>5, <1>6, <1>7, <1>8, <1>9 DEF ExecNext, Upstream

\* A request that reports a failure counts it only against accounts it has asked.
LEMMA BlamesTheAsked ==
  ASSUME RetryInv, NEW r \in Callers, Blames(r),
         NEW a \in Accounts, state'[a].generation # state[a].generation
  PROVE  a \in attempt[r].tried
<1>1. PICK b, delay, diagnostic, also, drop : Fail(r, b, delay, diagnostic, also, drop)
  BY DEF Blames
<1>2. {b} \cup also \subseteq attempt[r].tried /\ MarkFailures(b, delay, diagnostic, also)
  BY <1>1 DEF Fail
<1>3. a = b \/ a \in also
  BY <1>2 DEF MarkFailures
<1> QED
  BY <1>2, <1>3

\* A deadline or a departed client costs no account its standing: only a live
\* request counts a failure, and only against an account it asked.
THEOREM BlameIsEarned == ExecSpec => CountedByLiveRequest
<1> DEFINE Earned == \A a \in Accounts : state'[a].generation > state[a].generation =>
                       \E r \in Callers :
                         /\ a \in attempt[r].tried /\ req'[r] # req[r]
                         /\ Asking(r)
<1>1. ASSUME RetryInv, [ExecNext]_execVars PROVE Earned
  <2>1. ASSUME NEW a \in Accounts, state'[a].generation > state[a].generation
        PROVE  state'[a].generation # state[a].generation
    <3>1. state[a].generation \in Nat
      BY <1>1 DEF RetryInv, TypeOK, Health
    <3> QED
      BY <2>1, <3>1
  <2> QED
    BY <1>1, <2>1, OnlyBlameCounts, BlamesTheAsked, ExecutorAssumption DEF Blames
<1>2. RetryInv /\ [ExecNext]_execVars => [Earned]_execVars
  BY <1>1
<1> QED
  BY <1>2, RetryInvariant, PTL DEF ExecSpec, CountedByLiveRequest, Asking

--------------------------------------------------------------------------------
(* Theorems: the 429s a refusal is made of                                 *)

\* The pool remembers a 429 only of accounts that answered one and have not
\* recovered since.
LimitInv ==
  \A a \in Accounts : state[a].diagnostic = "quota" /\ "quota" # NoDiagnostic => a \in limited

\* A failure leaves an account's diagnostic or replaces it by its own.
LEMMA FailDiagnostic ==
  ASSUME NEW r \in Callers, NEW a, NEW delay, NEW d, NEW also, NEW drop,
         Fail(r, a, delay, d, also, drop), NEW b \in Accounts
  PROVE  \/ state'[b].diagnostic = state[b].diagnostic
         \/ b = a /\ d # NoDiagnostic /\ state'[b].diagnostic = d
BY DEF Fail, MarkFailures, Failed

\* What is remembered stays so in every step.
LEMMA LimitStep ==
  ASSUME PoolInv, LimitInv, [ExecNext]_execVars
  PROVE  LimitInv'
<1>1. ASSUME NEW r \in Callers, NEW a, NEW also, NEW drop, DefaultFail(r, a, also, drop), UNCHANGED limited
      PROVE  LimitInv'
  BY <1>1, FailDiagnostic DEF DefaultFail, LimitInv
<1>2. CASE UNCHANGED state /\ UNCHANGED limited
  BY <1>2 DEF LimitInv
<1>3. ASSUME NEW r \in Callers, NEW status \in Diagnostics, ReportRefusal(r, status) PROVE LimitInv'
  <2>1. PICK delay : Fail(r, Account(r), delay, status, {}, FALSE)
    BY <1>3 DEF ReportRefusal
  <2>2. limited' = IF status = "quota" THEN limited \cup {Account(r)} ELSE limited
    BY <1>3 DEF ReportRefusal
  <2> QED
    BY <2>1, <2>2, FailDiagnostic DEF LimitInv
<1>4. ASSUME NEW r \in Callers, RelayCompletes(r) PROVE LimitInv'
  <2> DEFINE a == Account(r)
  <2>1. a # NoAccount /\ MarkSuccess(a, KeyOf[r], attempt[r].generation)
    BY <1>4 DEF RelayCompletes, Succeed, Account
  <2>2. limited' = IF attempt[r].fresh THEN limited \ {a} ELSE limited
    BY <1>4 DEF RelayCompletes
  <2>3. attempt[r].fresh <=> attempt[r].generation = state[a].generation
    BY <2>1 DEF PoolInv, GenerationDetectsFailure, Account
  <2>4. state \in [Accounts -> Health] /\ a \in Accounts
    BY <2>1 DEF PoolInv, TypeOK, Attempt, Account
  <2> HIDE DEF a
  <2>5. CASE state[a].generation # attempt[r].generation
    BY <2>1, <2>2, <2>3, <2>5 DEF MarkSuccess, LimitInv
  <2>6. CASE state[a].generation = attempt[r].generation
    <3>1. state' = [state EXCEPT ![a] = Recovered(state[a])]
      BY <2>1, <2>6 DEF MarkSuccess
    <3>2. Recovered(state[a]).diagnostic = NoDiagnostic
      BY <2>4 DEF Recovered, Health
    <3>3. \A b \in Accounts : state'[b] = IF b = a THEN Recovered(state[a]) ELSE state[b]
      BY <2>4, <3>1
    <3> QED
      BY <2>2, <3>2, <3>3 DEF LimitInv
  <2> QED
    BY <2>5, <2>6
<1>5. ASSUME NEW r \in Callers,
             AttemptFails(r) \/ AnswersDocument(r) \/ PreflightFails(r) \/ RelayFails(r)
      PROVE  LimitInv'
  <2>1. UNCHANGED limited
    BY <1>5 DEF AttemptFails, AnswersDocument, PreflightFails, RelayFails
  <2>2. \E a, also, drop : DefaultFail(r, a, also, drop)
    BY <1>5 DEF AttemptFails, AnswersDocument, PreflightFails, RelayFails
  <2> QED
    BY <1>1, <2>1, <2>2
<1>6. ASSUME NEW r \in Callers, Progress(r), \A status \in Diagnostics : ~ReportRefusal(r, status)
      PROVE  LimitInv'
  BY <1>2, <1>6 DEF Progress, Plan, SelectAccount, PoolExhausted, Return, Begin, Exhausted, Finish, vars, poolVars
<1>7. ASSUME NEW r \in Callers,
             \/ AnswersStream(r) \/ AnswersRejection(r) \/ PreflightPasses(r)
             \/ \E status \in Diagnostics : AnswersRefusal(r, status)
             \/ UnpooledFails(r) \/ UnpooledAnswers(r) \/ FirstChunk(r) \/ EndsBeforeFirstChunk(r)
             \/ UnpooledCompletes(r) \/ UnpooledBreaks(r)
             \/ Deadline(r) \/ AbortNoticed(r) \/ Disconnect(r)
      PROVE  LimitInv'
  BY <1>2, <1>7 DEF AnswersStream, AnswersRejection, PreflightPasses, AnswersRefusal, UnpooledFails,
     UnpooledAnswers, FirstChunk, EndsBeforeFirstChunk, UnpooledCompletes, UnpooledBreaks,
     Deadline, AbortNoticed, Disconnect, vars
<1>8. CASE Environment \/ UNCHANGED execVars
  BY <1>2, <1>8 DEF Environment, Tick, CredentialChange, execVars, vars
<1> QED
  BY <1>3, <1>4, <1>5, <1>6, <1>7, <1>8 DEF ExecNext, Upstream

AllNotes == [Pooled -> [Accounts -> Notes]]
NotesInv == \A r \in Callers : req[r].notes \in AllNotes

\* Request r takes no note of a 429 that limited does not know of.
NotesMove(r) ==
  \E q : /\ req' = [req EXCEPT ![r] = q]
         /\ q.notes \in AllNotes
         /\ \A p \in Pooled, a \in Accounts :
              q.notes[p][a] = "quota" => req[r].notes[p][a] = "quota" \/ a \in limited'

\* The next candidate and the next attempt keep what was noted.
LEMMA NotesKept ==
  ASSUME NEW q, q \in Request(q), NEW a
  PROVE  NextCandidate(q).notes = q.notes /\ RetryPool(q, a).notes = q.notes
BY DEF NextCandidate, RetryPool, Request

\* With notes q has been given, whatever comes next.
LEMMA NotesFollow ==
  ASSUME NEW r \in Callers, NEW q, q \in Request(q), q.notes \in AllNotes,
         \A p \in Pooled, a \in Accounts :
           q.notes[p][a] = "quota" => req[r].notes[p][a] = "quota" \/ a \in limited',
         \/ RetryOrContinue(r, q) \/ Become(r, NextCandidate(q)) \/ Become(r, q)
         \/ \E a : Become(r, RetryPool(q, a))
         \/ \E code, out : Become(r, Reply(q, code, out))
         \/ \E pc : Become(r, [q EXCEPT !.pc = pc])
         \/ \E pc, out : Become(r, [q EXCEPT !.pc = pc, !.out = out])
         \/ \E pc, a : Become(r, [q EXCEPT !.result = a, !.pc = pc])
         \/ \E reply, out : Become(r, [q EXCEPT !.reply = reply, !.out = out])
  PROVE  NotesMove(r)
<1> DEFINE Same == \E n : req' = [req EXCEPT ![r] = n] /\ n.notes = q.notes
<1>1. ASSUME NEW n, Become(r, n), n.notes = q.notes PROVE Same
  BY <1>1 DEF Become
<1> HIDE DEF Same
<1>2. ASSUME RetryOrContinue(r, q) \/ Become(r, NextCandidate(q)) \/ Become(r, q) PROVE Same
  <2>1. PICK n \in {NextCandidate(q), RetryPool(q, attempt[r].account), q} : Become(r, n)
    BY <1>2 DEF RetryOrContinue
  <2>2. NextCandidate(q).notes = q.notes /\ RetryPool(q, attempt[r].account).notes = q.notes
    BY NotesKept
  <2>3. n.notes = q.notes
    BY <2>1, <2>2, Zenon
  <2> QED
    BY <1>1, <2>1, <2>3
<1>3. ASSUME NEW a, Become(r, RetryPool(q, a)) PROVE Same
  BY <1>1, <1>3, NotesKept
<1>4. ASSUME NEW a, NEW pc, Become(r, [q EXCEPT !.result = a, !.pc = pc]) PROVE Same
  <2>1. [q EXCEPT !.result = a, !.pc = pc].notes = q.notes
    BY DEF Request
  <2> QED
    BY <1>1, <1>4, <2>1
<1>5. ASSUME NEW code, NEW out, Become(r, Reply(q, code, out)) PROVE Same
  <2>1. Reply(q, code, out).notes = q.notes
    BY DEF Request, Reply
  <2> QED
    BY <1>1, <1>5, <2>1
<1>6. ASSUME NEW pc, NEW out, Become(r, [q EXCEPT !.pc = pc, !.out = out]) PROVE Same
  <2>1. [q EXCEPT !.pc = pc, !.out = out].notes = q.notes
    BY DEF Request
  <2> QED
    BY <1>1, <1>6, <2>1
<1>7. ASSUME NEW reply, NEW out, Become(r, [q EXCEPT !.reply = reply, !.out = out]) PROVE Same
  <2>1. [q EXCEPT !.reply = reply, !.out = out].notes = q.notes
    BY DEF Request
  <2> QED
    BY <1>1, <1>7, <2>1
<1>8. ASSUME NEW pc, Become(r, [q EXCEPT !.pc = pc]) PROVE Same
  <2>1. [q EXCEPT !.pc = pc].notes = q.notes
    BY DEF Request
  <2> QED
    BY <1>1, <1>8, <2>1
<1>9. Same
  BY <1>2, <1>3, <1>4, <1>5, <1>6, <1>7, <1>8
<1>10. PICK n : req' = [req EXCEPT ![r] = n] /\ n.notes = q.notes
  BY <1>9 DEF Same
<1> QED
  BY <1>10 DEF NotesMove

\* The three operations that take notes.
LEMMA NotesTaken ==
  ASSUME ExecutorAssumption, RetryInv, LimitInv, NotesInv, NEW r \in Callers,
         \/ PoolExhausted(r) \/ AnswersRejection(r)
         \/ \E status \in Diagnostics : ReportRefusal(r, status)
  PROVE  NotesMove(r)
<1>1. req[r] \in Request(req[r]) /\ req[r].notes \in AllNotes
  BY AsRecord DEF NotesInv
<1>2. CASE PoolExhausted(r)
  <2> DEFINE told == [a \in Accounts |-> IF a \in Serves[Candidate(r)] THEN SlotNote(a) ELSE "none"]
             q == [req[r] EXCEPT !.notes[Candidate(r)] = told]
  <2>1. Become(r, NextCandidate(q)) /\ UNCHANGED limited
    BY <1>2 DEF PoolExhausted
  <2>2. \A a \in Accounts : SlotNote(a) \in Notes /\ (SlotNote(a) = "quota" => a \in limited)
    BY DEF SlotNote, LimitInv, Notes, Statuses, ExecutorAssumption, RetryInv, TypeOK, Health
  <2>3. told \in [Accounts -> Notes] /\ \A a \in Accounts : told[a] = "quota" => a \in limited
    BY <2>2 DEF Notes
  <2>4. q \in Request(q)
    BY <1>1 DEF Request
  <2> HIDE DEF told
  <2>5. q.notes = [req[r].notes EXCEPT ![Candidate(r)] = told]
    BY <1>1 DEF Request
  <2> HIDE DEF q
  <2>6. /\ q.notes \in AllNotes
        /\ \A p \in Pooled, a \in Accounts :
             q.notes[p][a] = "quota" => req[r].notes[p][a] = "quota" \/ a \in limited
    BY <1>1, <2>3, <2>5 DEF AllNotes
  <2> QED
    BY <2>1, <2>4, <2>6, NotesFollow
<1>3. ASSUME NEW note \in Notes, note = "quota" => Account(r) \in limited',
             NEW q, q = [req[r] EXCEPT !.notes[Candidate(r)][Account(r)] = note]
      PROVE  /\ q \in Request(q) /\ q.notes \in AllNotes
             /\ \A p \in Pooled, a \in Accounts :
                  q.notes[p][a] = "quota" => req[r].notes[p][a] = "quota" \/ a \in limited'
  <2> DEFINE before == req[r].notes
             c == Candidate(r)
             told == [before[c] EXCEPT ![Account(r)] = note]
  <2>1. q \in Request(q) /\ q.notes = [before EXCEPT ![c] = told]
    BY <1>1, <1>3 DEF Request
  <2>2. before \in AllNotes
    BY <1>1
  <2> HIDE DEF before, c
  <2>3. c \in Pooled => /\ told \in [Accounts -> Notes]
                        /\ \A a \in Accounts : told[a] = "quota" => before[c][a] = "quota" \/ a \in limited'
    BY <1>3, <2>2 DEF AllNotes
  <2> HIDE DEF told
  <2>4. /\ q.notes \in AllNotes
        /\ \A p \in Pooled, a \in Accounts :
             q.notes[p][a] = "quota" => before[p][a] = "quota" \/ a \in limited'
    BY <2>1, <2>2, <2>3 DEF AllNotes
  <2> QED
    BY <2>1, <2>4 DEF before
<1>4. CASE AnswersRejection(r)
  <2>1. PICK q : /\ q = [req[r] EXCEPT !.notes[Candidate(r)][Account(r)] = "rejected"]
                 /\ Become(r, NextCandidate(q))
    BY <1>4 DEF AnswersRejection
  <2>2. "rejected" \in Notes
    BY DEF Notes, Statuses
  <2>3. /\ q \in Request(q) /\ q.notes \in AllNotes
        /\ \A p \in Pooled, a \in Accounts :
             q.notes[p][a] = "quota" => req[r].notes[p][a] = "quota" \/ a \in limited'
    BY <1>3, <2>1, <2>2
  <2> QED
    BY <2>1, <2>3, NotesFollow
<1>5. ASSUME NEW status \in Diagnostics, ReportRefusal(r, status) PROVE NotesMove(r)
  <2>1. PICK q : /\ q = [req[r] EXCEPT !.notes[Candidate(r)][Account(r)] = status]
                 /\ RetryOrContinue(r, q) \/ Become(r, [q EXCEPT !.pc = "return"])
    BY <1>5 DEF ReportRefusal
  <2>2. status \in Notes /\ (status = "quota" => Account(r) \in limited')
    BY <1>5 DEF ReportRefusal, ExecutorAssumption, Notes, Statuses
  <2>3. /\ q \in Request(q) /\ q.notes \in AllNotes
        /\ \A p \in Pooled, a \in Accounts :
             q.notes[p][a] = "quota" => req[r].notes[p][a] = "quota" \/ a \in limited'
    BY <1>3, <2>1, <2>2
  <2> QED
    BY <2>1, <2>3, NotesFollow
<1> QED
  BY <1>2, <1>4, <1>5

\* Every step of a request takes its notes on evidence.
LEMMA NotesStep ==
  ASSUME ExecutorAssumption, RetryInv, LimitInv, NotesInv, [ExecNext]_execVars
  PROVE  UNCHANGED req \/ \E r \in Callers : NotesMove(r)
<1>1. ASSUME NEW r \in Callers PROVE req[r] \in Request(req[r]) /\ req[r].notes \in AllNotes
  BY AsRecord DEF NotesInv
<1>2. ASSUME NEW r \in Callers, Plan(r) PROVE NotesMove(r)
  <2>1. PICK q : /\ Become(r, q)
                 /\ \/ q = [req[r] EXCEPT !.pc = "done", !.reply = "cooling", !.out = "ended"]
                    \/ \E plan : q = [req[r] EXCEPT !.pc = "select", !.plan = plan]
    BY <1>2 DEF Plan
  <2>2. q.notes = req[r].notes
    BY <1>1, <2>1 DEF Request
  <2> QED
    BY <1>1, <2>1, <2>2 DEF NotesMove, Become
<1>3. ASSUME NEW r \in Callers, Return(r) PROVE NotesMove(r)
  <2> DEFINE q == [req[r] EXCEPT !.pc = "done"]
  <2>1. q \in Request(q) /\ q.notes = req[r].notes
    BY <1>1 DEF Request, Pcs
  <2>2. Become(r, q) \/ \E reply, out : Become(r, [q EXCEPT !.reply = reply, !.out = out])
    BY <1>3 DEF Return
  <2> HIDE DEF q
  <2> QED
    BY <1>1, <2>1, <2>2, NotesFollow
<1>4. ASSUME NEW r \in Callers, SelectAccount(r) PROVE NotesMove(r)
  BY <1>1, <1>4, NotesFollow DEF SelectAccount
<1>5. ASSUME NEW r \in Callers,
             \/ AttemptFails(r) \/ AnswersStream(r) \/ \E status \in Diagnostics : AnswersRefusal(r, status)
             \/ PreflightFails(r) \/ PreflightPasses(r) \/ RelayCompletes(r) \/ RelayFails(r)
      PROVE  NotesMove(r)
  <2>1. \/ RetryOrContinue(r, req[r]) \/ Become(r, NextCandidate(req[r]))
        \/ \E a : Become(r, RetryPool(req[r], a))
        \/ \E code, out : Become(r, Reply(req[r], code, out))
        \/ \E pc, out : Become(r, [req[r] EXCEPT !.pc = pc, !.out = out])
        \/ \E pc, a : Become(r, [req[r] EXCEPT !.result = a, !.pc = pc])
    <3>1. CASE AttemptFails(r)
      BY <3>1 DEF AttemptFails, CoolAndContinue
    <3>2. CASE AnswersStream(r) \/ \E status \in Diagnostics : AnswersRefusal(r, status)
      BY <3>2 DEF AnswersStream, AnswersRefusal
    <3>3. CASE PreflightFails(r) \/ PreflightPasses(r)
      BY <3>3 DEF PreflightFails, PreflightPasses
    <3>4. CASE RelayCompletes(r) \/ RelayFails(r)
      BY <3>4 DEF RelayCompletes, RelayFails, CoolAndContinue
    <3> QED
      BY <1>5, <3>1, <3>2, <3>3, <3>4
  <2> QED
    BY <1>1, <2>1, NotesFollow
<1>6. ASSUME NEW r \in Callers, AnswersDocument(r) PROVE NotesMove(r)
  <2>1. PICK q : q = [req[r] EXCEPT !.result = Account(r)] /\ RetryOrContinue(r, q)
    BY <1>6 DEF AnswersDocument
  <2>2. q \in Request(q) /\ q.notes = req[r].notes
    BY <1>1, <2>1 DEF Request
  <2> QED
    BY <1>1, <2>1, <2>2, NotesFollow
<1>7. ASSUME NEW r \in Callers, GiveUp(r) PROVE NotesMove(r)
  <2>1. Become(r, NextCandidate(req[r])) \/ \E code, out : Become(r, Reply(req[r], code, out))
    BY <1>7 DEF GiveUp, CoolAndContinue
  <2> QED
    BY <1>1, <2>1, NotesFollow
<1>8. ASSUME NEW r \in Callers,
             \/ UnpooledFails(r) \/ UnpooledAnswers(r) \/ FirstChunk(r) \/ EndsBeforeFirstChunk(r)
             \/ UnpooledCompletes(r) \/ UnpooledBreaks(r)
      PROVE  NotesMove(r)
  <2>1. \/ GiveUp(r) \/ \E code, out : Become(r, Reply(req[r], code, out))
        \/ \E pc, out : Become(r, [req[r] EXCEPT !.pc = pc, !.out = out])
    BY <1>8 DEF UnpooledFails, UnpooledAnswers, FirstChunk, EndsBeforeFirstChunk, UnpooledCompletes, UnpooledBreaks
  <2> QED
    BY <1>1, <1>7, <2>1, NotesFollow
<1>9. ASSUME NEW r \in Callers, Deadline(r) \/ AbortNoticed(r) \/ Disconnect(r) PROVE NotesMove(r)
  <2>1. PICK q : /\ req' = [req EXCEPT ![r] = q]
                 /\ \/ q = [req[r] EXCEPT !.abort = "deadline"]
                    \/ q = [req[r] EXCEPT !.abort = "client", !.out = "destroyed"]
                    \/ \E out : q = [req[r] EXCEPT !.pc = "return", !.out = out]
    BY <1>9 DEF Deadline, AbortNoticed, Disconnect, Become
  <2>2. q.notes = req[r].notes
    BY <1>1, <2>1 DEF Request
  <2> QED
    BY <1>1, <2>1, <2>2 DEF NotesMove
<1>10. CASE Environment \/ UNCHANGED execVars
  BY <1>10 DEF Environment, execVars
<1> QED
  BY <1>2, <1>3, <1>4, <1>5, <1>6, <1>8, <1>9, <1>10, NotesTaken DEF ExecNext, Progress, Upstream

\* Notes keep their shape.
LEMMA NotesInvStep ==
  ASSUME ExecutorAssumption, RetryInv, LimitInv, NotesInv, [ExecNext]_execVars
  PROVE  NotesInv'
<1>1. ASSUME NEW r \in Callers, NotesMove(r) PROVE NotesInv'
  <2>1. PICK q : req' = [req EXCEPT ![r] = q] /\ q.notes \in AllNotes
    BY <1>1 DEF NotesMove
  <2>2. \A d \in Callers : req'[d] = IF d = r THEN q ELSE req[d]
    BY <2>1 DEF RetryInv
  <2> QED
    BY <2>1, <2>2 DEF NotesInv, AllNotes
<1>2. CASE UNCHANGED req
  BY <1>2 DEF NotesInv, AllNotes
<1> QED
  BY <1>1, <1>2, NotesStep

\* No request has a note at first, and no account a diagnostic.
LEMMA EvidenceInit == ExecInit => LimitInv /\ NotesInv
<1>1. ASSUME ExecInit PROVE LimitInv
  BY <1>1 DEF ExecInit, Init, Healthy, LimitInv
<1>2. ASSUME ExecInit PROVE NotesInv
  <2>1. NoNotes \in AllNotes
    BY DEF NoNotes, AllNotes, Notes
  <2> QED
    BY <1>2, <2>1 DEF ExecInit, NewRequest, NotesInv
<1> QED
  BY <1>1, <1>2

\* A client is told of a quota only if the accounts it is told of answered 429
\* and none of them has served a request since.
THEOREM QuotaIsEvident == ExecSpec => QuotaNotedOnEvidence
<1> DEFINE Evident == \A r \in Callers, p \in Pooled, a \in Accounts :
                        req'[r].notes[p][a] = "quota" /\ req[r].notes[p][a] # "quota" => a \in limited'
<1>1. PoolInv /\ RetryInv /\ LimitInv /\ NotesInv /\ [ExecNext]_execVars => LimitInv' /\ NotesInv'
  BY LimitStep, NotesInvStep, ExecutorAssumption
<1>2. ASSUME RetryInv, LimitInv, NotesInv, [ExecNext]_execVars PROVE Evident
  <2>1. ASSUME NEW r \in Callers, NotesMove(r) PROVE Evident
    <3>1. PICK q : /\ req' = [req EXCEPT ![r] = q]
                   /\ \A p \in Pooled, a \in Accounts :
                        q.notes[p][a] = "quota" => req[r].notes[p][a] = "quota" \/ a \in limited'
      BY <2>1 DEF NotesMove
    <3>2. \A d \in Callers : req'[d] = IF d = r THEN q ELSE req[d]
      BY <1>2, <3>1 DEF RetryInv
    <3> QED
      BY <3>1, <3>2
  <2>2. CASE UNCHANGED req
    BY <2>2
  <2> QED
    BY <1>2, <2>1, <2>2, NotesStep, ExecutorAssumption
<1>3. RetryInv /\ LimitInv /\ NotesInv /\ [ExecNext]_execVars => [Evident]_execVars
  BY <1>2
<1>4. ExecSpec => []PoolInv
  BY ExecutorImplementsPool, PoolInvariant, PTL
<1> QED
  BY <1>1, <1>3, <1>4, EvidenceInit, RetryInvariant, PTL DEF ExecSpec, QuotaNotedOnEvidence
================================================================================
