---------------------------- MODULE RequestExecutor ----------------------------
(***************************************************************************)
(* executeRoutePlan (request-executor.mjs) over the shared account pool and *)
(* the shared route cooldowns.  Every request runs its candidate loop; each *)
(* await is a point where other requests, the clock and the request's own  *)
(* deadlines and client may act.  A request is one of the pool's callers.  *)
(***************************************************************************)
EXTENDS AccountPool, Sequences

CONSTANTS
  Pooled,          \* routes served by the opencode-zen adapter (Targets)
  Direct,          \* routes served by any other HTTP provider
  Terminal,        \* native bridges and specialists: never fall back
  Plans,           \* the candidate orders the route configuration allows
  Streaming,       \* requests whose client asked for a stream
  Messages,        \* requests in the Messages protocol, the others are chat
  MaxAttempts,     \* accountPool.maxAttempts
  RouteCooldowns   \* cooldownMs() and errorCooldownMs() of a failed route

Routes == Pooled \cup Direct \cup Terminal

ASSUME ExecutorAssumption ==
  /\ Targets = Pooled
  /\ Pooled \cap (Direct \cup Terminal) = {} /\ Direct \cap Terminal = {}
  /\ Plans \subseteq Seq(Routes)
  /\ Streaming \subseteq Callers /\ Messages \subseteq Callers
  /\ Diagnostics \subseteq {"quota", "denied"}
  /\ MaxAttempts \in Nat \ {0}
  /\ RouteCooldowns \subseteq Nat

VARIABLES
  req,        \* the local variables of each executeRoutePlan
  cooldowns,  \* runtimeState.cooldowns: route -> instant it may be planned again
  limited     \* history: accounts whose last report was a 429, until they recover

execVars == <<vars, req, cooldowns, limited>>

\* What upstreamFailures may hold of an account: an upstream status or none.
Statuses == {"quota", "denied", "rejected"}
Notes == Statuses \cup {"none", "unattributed"}
NoNotes == [p \in Pooled |-> [a \in Accounts |-> "none"]]

NewRequest ==
  [pc |-> "idle", plan |-> <<>>, i |-> 1, excluded |-> {}, tries |-> 0,
   result |-> NoAccount, abort |-> "none", out |-> "open", reply |-> "none",
   notes |-> NoNotes]

Candidate(r) == req[r].plan[req[r].i]
Aborted(r) == req[r].abort # "none"
At(r, pc) == req[r].pc = pc /\ ~Aborted(r)
LastTry(r) == req[r].tries + 1 >= MaxAttempts

\* The head of candidateLoop: the next candidate, or the end of the loop.
NextCandidate(q) ==
  LET following == [q EXCEPT !.i = @ + 1, !.excluded = {}, !.tries = 0, !.result = NoAccount]
  IN  [following EXCEPT !.pc = IF following.i > Len(q.plan) THEN "return" ELSE "select"]

\* excludedAccounts.push(a); poolAttempt += 1; continue.
\* attemptResult keeps the value of the attempt before.
RetryPool(q, a) == [q EXCEPT !.excluded = @ \cup {a}, !.tries = @ + 1, !.pc = "select"]

Reply(q, code, out) == [q EXCEPT !.reply = code, !.out = out, !.pc = "return"]

Become(r, q) == req' = [req EXCEPT ![r] = q]

\* cooldowns.set(provider:model:protocol, now + cooldown), then the next candidate.
CoolAndContinue(r) ==
  /\ \E d \in RouteCooldowns : cooldowns' = [cooldowns EXCEPT ![Candidate(r)] = now + d]
  /\ Become(r, NextCandidate(req[r]))

\* The account failed: another one if maxPoolAttempts allows it, else the next
\* candidate.
RetryOrContinue(r, q) ==
  Become(r, IF LastTry(r) THEN NextCandidate(q) ELSE RetryPool(q, attempt[r].account))

DefaultFail(r, a, also, drop) ==
  Fail(r, a, Backoff(state[a].failures + 1), NoDiagnostic, also, drop)

--------------------------------------------------------------------------------
(* Planning                                                                *)

\* buildRoutePlan leaves out the candidates whose circuit is open; with none
\* left the request is refused without an attempt.
Plan(r) ==
  /\ At(r, "idle")
  /\ \E order \in Plans :
       LET closed(route) == cooldowns[route] <= now
           plan == SelectSeq(order, closed)
       IN  Become(r, IF plan = <<>>
                     THEN [req[r] EXCEPT !.pc = "done", !.reply = "cooling", !.out = "ended"]
                     ELSE [req[r] EXCEPT !.pc = "select", !.plan = plan])
  /\ UNCHANGED <<vars, cooldowns, limited>>

--------------------------------------------------------------------------------
(* One attempt on a pooled candidate                                       *)

Pooling(r, pc) == At(r, pc) /\ Candidate(r) \in Pooled
Account(r) == attempt[r].account

SelectAccount(r) ==
  /\ Pooling(r, "select")
  /\ Begin(r, Candidate(r), req[r].excluded)
  /\ Become(r, [req[r] EXCEPT !.pc = "await"])
  /\ UNCHANGED <<cooldowns, limited>>

\* What diagnostic() says of an account: its last diagnostic while it cools.
\* It is asked without the exclusions of this request.
SlotNote(a) ==
  IF state[a].until > now /\ state[a].diagnostic # NoDiagnostic
  THEN state[a].diagnostic ELSE "unattributed"

PoolExhausted(r) ==
  /\ Pooling(r, "select")
  /\ Exhausted(r, Candidate(r), req[r].excluded)
  /\ LET told == [a \in Accounts |-> IF a \in Serves[Candidate(r)] THEN SlotNote(a) ELSE "none"]
     IN Become(r, NextCandidate([req[r] EXCEPT !.notes[Candidate(r)] = told]))
  /\ UNCHANGED <<cooldowns, limited>>

\* Session, token or transport fails before an answer: error.poolAccount.  On the
\* last try the error reaches the outer catch, which blames attemptResult: the
\* account that answered an earlier attempt, if one did.
AttemptFails(r) ==
  /\ Pooling(r, "await")
  /\ LET a == Account(r)
         stale == {req[r].result} \ {NoAccount}
     IN \/ /\ ~LastTry(r)
           /\ DefaultFail(r, a, {}, FALSE)
           /\ Become(r, RetryPool(req[r], a))
           /\ UNCHANGED cooldowns
        \/ /\ LastTry(r)
           /\ DefaultFail(r, a, stale, stale # {})
           /\ CoolAndContinue(r)
  /\ UNCHANGED limited

\* A 2xx answer that is not an event stream.
AnswersDocument(r) ==
  /\ Pooling(r, "await")
  /\ DefaultFail(r, Account(r), {}, FALSE)
  /\ RetryOrContinue(r, [req[r] EXCEPT !.result = Account(r)])
  /\ UNCHANGED <<cooldowns, limited>>

AnswersStream(r) ==
  /\ Pooling(r, "await")
  /\ Become(r, [req[r] EXCEPT !.result = Account(r), !.pc = "preflight"])
  /\ UNCHANGED <<vars, cooldowns, limited>>

\* 429, 401, 403 or 5xx: the body is read before the failure is counted.
AnswersRefusal(r, status) ==
  /\ Pooling(r, "await")
  /\ Become(r, [req[r] EXCEPT !.result = Account(r), !.pc = status])
  /\ UNCHANGED <<vars, cooldowns, limited>>

\* Slip: every refusal is taken for a quota.
ReportRefusalAsQuota(r, status) ==
  /\ req[r].pc = status
  /\ DefaultFail(r, Account(r), {}, FALSE)
  /\ RetryOrContinue(r, [req[r] EXCEPT !.notes[Candidate(r)][Account(r)] = "quota"])
  /\ limited' = IF status = "quota" THEN limited \cup {Account(r)} ELSE limited
  /\ UNCHANGED cooldowns

\* The body has been read or timed out after 1 s; an abort in the meantime ends
\* the read but not the report.
ReportRefusal(r, status) ==
  /\ req[r].pc = status
  /\ \E delay \in Delays(Account(r)) : Fail(r, Account(r), delay, status, {}, FALSE)
  /\ LET noted == [req[r] EXCEPT !.notes[Candidate(r)][Account(r)] = status]
     IN IF Aborted(r) THEN Become(r, [noted EXCEPT !.pc = "return"])
        ELSE RetryOrContinue(r, noted)
  /\ limited' = IF status = "quota" THEN limited \cup {Account(r)} ELSE limited
  /\ UNCHANGED cooldowns

\* Any other status rejects the request, not the account.
AnswersRejection(r) ==
  /\ Pooling(r, "await")
  /\ Become(r, NextCandidate([req[r] EXCEPT !.notes[Candidate(r)][Account(r)] = "rejected"]))
  /\ UNCHANGED <<vars, cooldowns, limited>>

\* preflightOpenCodeStream: the stream ends, errs or stalls with nothing shown.
PreflightFails(r) ==
  /\ Pooling(r, "preflight")
  /\ DefaultFail(r, Account(r), {}, FALSE)
  /\ RetryOrContinue(r, req[r])
  /\ UNCHANGED <<cooldowns, limited>>

\* The first semantic event: a streaming client is sent headers and prefix.
PreflightPasses(r) ==
  /\ Pooling(r, "preflight")
  /\ Become(r, [req[r] EXCEPT !.pc = "relay", !.out = IF r \in Streaming THEN "visible" ELSE @])
  /\ UNCHANGED <<vars, cooldowns, limited>>

\* Slip: markSuccess is called without poolGeneration, which defaults to the present.
RelayCompletesUnfenced(r) ==
  /\ Pooling(r, "relay")
  /\ MarkSuccess(Account(r), KeyOf[r], state[Account(r)].generation)
  /\ attempt' = [attempt EXCEPT ![r] = Idle]
  /\ Become(r, Reply(req[r], "ok", "ended"))
  /\ UNCHANGED <<now, credentialed, cooldowns, limited>>

RelayCompletes(r) ==
  /\ Pooling(r, "relay")
  /\ Succeed(r)
  /\ Become(r, Reply(req[r], "ok", "ended"))
  /\ limited' = IF attempt[r].fresh THEN limited \ {Account(r)} ELSE limited
  /\ UNCHANGED cooldowns

\* A stream already visible is closed with an error event.  A completion that was
\* still being collected throws: the candidate cools and the next one is tried.
RelayFails(r) ==
  /\ Pooling(r, "relay")
  /\ \E drop \in (IF r \in Streaming \ Messages THEN BOOLEAN ELSE {TRUE}) :
       DefaultFail(r, Account(r), {}, drop)
  /\ IF r \in Streaming
     THEN Become(r, Reply(req[r], "broken", "ended")) /\ UNCHANGED cooldowns
     ELSE CoolAndContinue(r)
  /\ UNCHANGED limited

--------------------------------------------------------------------------------
(* A candidate that is not pooled: one attempt                             *)

Unpooled(r, pc) == At(r, pc) /\ Candidate(r) \notin Pooled

\* The outer catch of executeRoutePlan with nothing sent: native bridges and
\* specialists answer with their own error, the others cool and fall back, and a
\* last Cline candidate does both.
GiveUp(r) ==
  \/ Candidate(r) \in Direct /\ CoolAndContinue(r)
  \/ /\ Candidate(r) \in Terminal
     /\ Become(r, Reply(req[r], "refused", "ended"))
     /\ UNCHANGED cooldowns
  \/ /\ Candidate(r) \in Direct /\ req[r].i = Len(req[r].plan)
     /\ \E d \in RouteCooldowns : cooldowns' = [cooldowns EXCEPT ![Candidate(r)] = now + d]
     /\ Become(r, Reply(req[r], "refused", "ended"))

\* No connection, or a status other than 2xx.
UnpooledFails(r) ==
  /\ Unpooled(r, "select")
  /\ GiveUp(r)
  /\ UNCHANGED <<vars, limited>>

\* A stream that is piped waits for its first chunk; other bodies and Messages
\* event streams are relayed from the headers on; a Messages document and a
\* specialist's answer are collected first.
UnpooledAnswers(r) ==
  /\ Unpooled(r, "select")
  /\ \E pc \in {"preflight", "relay"}, out \in {"open", "visible"} :
       /\ pc = "preflight" => r \in Streaming /\ out = "open"
       /\ out = "visible" => r \notin Streaming \ Messages
       /\ pc = "relay" /\ out = "open" => r \in Messages \/ Candidate(r) \in Terminal
       /\ Become(r, [req[r] EXCEPT !.pc = pc, !.out = out])
  /\ UNCHANGED <<vars, cooldowns, limited>>

FirstChunk(r) ==
  /\ Unpooled(r, "preflight")
  /\ Become(r, [req[r] EXCEPT !.pc = "relay", !.out = "visible"])
  /\ UNCHANGED <<vars, cooldowns, limited>>

EndsBeforeFirstChunk(r) ==
  /\ Unpooled(r, "preflight")
  /\ GiveUp(r)
  /\ UNCHANGED <<vars, limited>>

UnpooledCompletes(r) ==
  /\ Unpooled(r, "relay")
  /\ Become(r, Reply(req[r], "ok", "ended"))
  /\ UNCHANGED <<vars, cooldowns, limited>>

\* Slip: the pipe's error leaves the response open.
CutOffNever(r) == {"visible"}

\* How a response that is already visible is cut off: an event stream in the
\* Messages protocol gets an error event, a piped body is destroyed.
CutOff(r) ==
  IF r \notin Streaming \cap Messages THEN {"destroyed"}
  ELSE IF Candidate(r) \in Pooled THEN {"ended"} ELSE {"ended", "destroyed"}

\* Slip: headersSent is not looked at.
UnpooledBreaksOver(r) ==
  /\ Unpooled(r, "relay")
  /\ GiveUp(r)
  /\ UNCHANGED <<vars, limited>>

UnpooledBreaks(r) ==
  /\ Unpooled(r, "relay")
  /\ IF req[r].out = "visible"
     THEN /\ \E out \in CutOff(r) : Become(r, Reply(req[r], "broken", out))
          /\ UNCHANGED cooldowns
     ELSE GiveUp(r)
  /\ UNCHANGED <<vars, limited>>

--------------------------------------------------------------------------------
(* Deadlines, disconnection and the end of the request                     *)

Running(r) == req[r].pc \notin {"idle", "return", "done"}

\* Slip: only the response-start deadline is armed.
DeadlineBeforeHeaders(r) ==
  /\ Running(r) /\ ~Aborted(r) /\ req[r].out = "open"
  /\ Become(r, [req[r] EXCEPT !.abort = "deadline"])
  /\ UNCHANGED <<vars, cooldowns, limited>>

\* The total deadline or, while no header is sent, the response-start deadline.
Deadline(r) ==
  /\ Running(r) /\ ~Aborted(r)
  /\ Become(r, [req[r] EXCEPT !.abort = "deadline"])
  /\ UNCHANGED <<vars, cooldowns, limited>>

Disconnect(r) ==
  /\ Running(r) /\ ~Aborted(r)
  /\ Become(r, [req[r] EXCEPT !.abort = "client", !.out = "destroyed"])
  /\ UNCHANGED <<vars, cooldowns, limited>>

\* Slip: an abort counts as a failure of the account.
AbortCounted(r) ==
  /\ Aborted(r) /\ req[r].pc \in {"await", "preflight", "relay"}
  /\ DefaultFail(r, Account(r), {}, FALSE)
  /\ Become(r, [req[r] EXCEPT !.pc = "return"])
  /\ UNCHANGED <<cooldowns, limited>>

\* The await in progress rejects, or the loop head sees the signal.  A pooled chat
\* stream returns at once and leaves a visible response as it is.
AbortNoticed(r) ==
  /\ Aborted(r) /\ req[r].pc \in {"select", "await", "preflight", "relay"}
  /\ LET chatStream == Candidate(r) \in Pooled /\ r \notin Messages
     IN \E out \in (IF req[r].out = "visible" /\ ~chatStream THEN CutOff(r) ELSE {req[r].out}) :
          Become(r, [req[r] EXCEPT !.pc = "return", !.out = out])
  /\ UNCHANGED <<vars, cooldowns, limited>>

\* The status composed from upstreamFailures, one entry per account and model.
Composed(q) ==
  LET told == {q.notes[p][a] : p \in Pooled, a \in Accounts} \ {"none"}
  IN CASE told = {"quota"} -> "rate_limited"
       [] told = {"rejected"} -> "rejected"
       [] OTHER -> "unavailable"

\* The finally block, the last reply if nothing was sent, and the caller's end.
Return(r) ==
  /\ req[r].pc = "return"
  /\ LET q == [req[r] EXCEPT !.pc = "done"]
     IN Become(r, CASE q.out = "open" /\ q.abort = "deadline" ->
                           [q EXCEPT !.reply = "timeout", !.out = "ended"]
                    [] q.out = "open" /\ q.abort = "none" ->
                           [q EXCEPT !.reply = Composed(q), !.out = "ended"]
                    [] OTHER -> q)
  /\ IF attempt[r] = Idle THEN UNCHANGED vars ELSE Finish(r)
  /\ UNCHANGED <<cooldowns, limited>>

--------------------------------------------------------------------------------
ExecInit ==
  /\ Init
  /\ req = [r \in Callers |-> NewRequest]
  /\ cooldowns = [p \in Routes |-> 0]
  /\ limited = {}

Progress(r) ==
  \/ Plan(r)
  \/ SelectAccount(r)
  \/ PoolExhausted(r)
  \/ \E status \in Diagnostics : ReportRefusal(r, status)
  \/ Return(r)

Upstream(r) ==
  \/ AttemptFails(r) \/ AnswersDocument(r) \/ AnswersStream(r) \/ AnswersRejection(r)
  \/ \E status \in Diagnostics : AnswersRefusal(r, status)
  \/ PreflightFails(r) \/ PreflightPasses(r) \/ RelayCompletes(r) \/ RelayFails(r)
  \/ UnpooledFails(r) \/ UnpooledAnswers(r) \/ FirstChunk(r) \/ EndsBeforeFirstChunk(r)
  \/ UnpooledCompletes(r) \/ UnpooledBreaks(r)

Environment ==
  /\ Tick \/ \E a \in Volatile : CredentialChange(a)
  /\ UNCHANGED <<req, cooldowns, limited>>

ExecNext ==
  \/ \E r \in Callers : Progress(r) \/ Upstream(r)
  \/ \E r \in Callers : Deadline(r) \/ AbortNoticed(r)
  \/ \E r \in Callers : Disconnect(r)
  \/ Environment

\* The process runs what is ready and its timers fire; upstreams and clients owe
\* nothing.
Fairness ==
  \A r \in Callers : WF_execVars(Progress(r)) /\ WF_execVars(Deadline(r) \/ AbortNoticed(r))

ExecSpec == ExecInit /\ [][ExecNext]_execVars /\ Fairness

--------------------------------------------------------------------------------
(* Properties                                                              *)

Pcs == {"idle", "select", "await", "preflight", "relay", "return", "done"} \cup Diagnostics
Replies == {"none", "cooling", "ok", "refused", "broken", "timeout",
            "rate_limited", "rejected", "unavailable"}

\* The type invariant of the executor.
ExecTypeOK ==
  /\ req \in [Callers ->
       [pc : Pcs, plan : Seq(Routes), i : Nat \ {0}, excluded : SUBSET Accounts,
        tries : 0..MaxAttempts - 1, result : Accounts \cup {NoAccount},
        abort : {"none", "deadline", "client"},
        out : {"open", "visible", "ended", "destroyed"}, reply : Replies,
        notes : [Pooled -> [Accounts -> Notes]]]]
  /\ cooldowns \in [Routes -> Nat]
  /\ limited \in SUBSET Accounts

\* The retry loop of one candidate asks a different account each time: as many
\* are excluded as were tried, and the one now asked is not among them.
AccountsTriedOnce ==
  \A r \in Callers :
    /\ Cardinality(req[r].excluded) = req[r].tries
    /\ req[r].pc \in {"await", "preflight", "relay"} \cup Diagnostics =>
         Account(r) \notin req[r].excluded

\* A request that is over has had its response ended or its connection destroyed,
\* with one exception: a pooled chat stream cut by the deadline.
OnlyCutChatStreamsStayOpen ==
  \A r \in Callers : req[r].pc = "done" =>
    \/ req[r].out \in {"ended", "destroyed"}
    \/ /\ req[r].out = "visible" /\ req[r].abort = "deadline"
       /\ r \in Streaming \ Messages /\ Candidate(r) \in Pooled

\* Once anything was sent to the client no other account and no other candidate
\* is tried for it.
NoFallbackAfterOutput ==
  [][\A r \in Callers : req[r].out # "open" =>
       /\ req'[r].i = req[r].i /\ req'[r].tries = req[r].tries
       /\ req'[r].pc \in {req[r].pc, "return", "done"}]_execVars

\* A failure is counted against an account only by a request that asked it, and
\* only while that request lives: a deadline or a departed client counts none,
\* except that a refusal already received is reported.
CountedByLiveRequest ==
  [][\A a \in Accounts : state'[a].generation > state[a].generation =>
       \E r \in Callers :
         /\ a \in attempt[r].tried /\ req'[r] # req[r]
         /\ \/ At(r, "await") \/ At(r, "preflight") \/ At(r, "relay")
            \/ req[r].pc \in Diagnostics]_execVars

\* A 429 is held against an account in the final reply only if the account did
\* answer 429 and has not served a request since.
QuotaNotedOnEvidence ==
  [][\A r \in Callers, p \in Pooled, a \in Accounts :
       req'[r].notes[p][a] = "quota" /\ req[r].notes[p][a] # "quota" =>
         a \in limited']_execVars

\* Whatever its upstreams do, a request ends: every await is bounded by the
\* deadline and no loop of the executor outlives its candidates.
EveryRequestEnds == \A r \in Callers : req[r].pc # "idle" ~> req[r].pc = "done"

--------------------------------------------------------------------------------
(* What the documentation and the tests say, and the code does not do      *)

\* test/messages-stream-integration.test.mjs: a deadline after commitment emits
\* an error; no request is over while its client still waits.
FinishedMeansAnswered ==
  \A r \in Callers : req[r].pc = "done" => req[r].out \in {"ended", "destroyed"}

\* docs/systemone.md: the failing account is quarantined.  No other is.
PenaltyIsOwn ==
  [][\A a \in Accounts : state'[a].generation > state[a].generation =>
       \E r \in Callers : attempt[r].account = a /\ req'[r] # req[r]]_execVars
================================================================================
