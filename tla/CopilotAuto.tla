----------------------------- MODULE CopilotAuto -----------------------------
(***************************************************************************)
(* copilot-auto.mjs: createCopilotAutoAdapter.                             *)
(*                                                                         *)
(* A turn is one call of complete: it opens a session, or continues one    *)
(* with the result of a tool call.  A session is named by the turn that    *)
(* opened it.  The runtime behind the SDK asks for tools, and ends         *)
(* sendAndWait with a result or an error, at the latest after RunLimit.    *)
(* Timers count down: the one of the session, and those that a pending     *)
(* call, a copy of the session's state, holds apart from it.               *)
(***************************************************************************)
EXTENDS Integers, FiniteSets

CONSTANTS
    Turns,
    NoTurn,
    Openers,        \* bound of the model: turns that may open a session
    MaxCalls,       \* bound of the model: tool calls of one session
    RunLimit,       \* the timeout of sendAndWait (120000)
    SessionTtl      \* sessionTtlMs

ASSUME CopilotAssumption ==
    /\ NoTurn \notin Turns /\ Openers \subseteq Turns
    /\ MaxCalls \in Nat /\ RunLimit \in Nat \ {0} /\ SessionTtl \in Nat
    /\ RunLimit < SessionTtl

VARIABLES
    client,         \* clientPromise: none, starting, up
    turn,           \* locals of each call of complete
    sess,           \* state of each session
    copyLeft        \* <<session, call>> |-> what is left on the copy's timer, -1 for none

copilotVars == <<client, turn, sess, copyLeft>>

CallIds == 1 .. MaxCalls

\* A turn at a session: `rpc` is its handlePendingToolCall, `outcome` what
\* waitForOutcome has come to.
NewTurn == [pc |-> "idle", at |-> NoTurn, call |-> 0, rpc |-> "none", outcome |-> "none"]

NoSession == [live |-> FALSE, used |-> 0, pending |-> {}, told |-> {}, waiting |-> NoTurn,
              left |-> 0, run |-> -1]

Outcomes == {"none", "open", "tool", "complete", "error", "closing", "ready", "thrown", "lost"}

CopilotTypeOK ==
    /\ client \in {"none", "starting", "up"}
    /\ turn \in [Turns -> [pc : {"idle", "client", "create", "on", "done", "failed"},
                           at : Turns \cup {NoTurn}, call : 0 .. MaxCalls,
                           rpc : {"none", "sent", "accepted"}, outcome : Outcomes]]
    /\ sess \in [Turns -> [live : BOOLEAN, used : 0 .. MaxCalls, pending : SUBSET CallIds,
                           told : SUBSET CallIds, waiting : Turns \cup {NoTurn},
                           left : 0 .. SessionTtl, run : -1 .. RunLimit]]
    /\ copyLeft \in [Turns \X CallIds -> -1 .. SessionTtl]

CopilotInit ==
    /\ client = "none"
    /\ turn = [t \in Turns |-> NewTurn]
    /\ sess = [s \in Turns |-> NoSession]
    /\ copyLeft = [c \in Turns \X CallIds |-> -1]

Fail(t) == turn' = [turn EXCEPT ![t] = [NewTurn EXCEPT !.pc = "failed"]]

\* settle: whoever is registered gets the outcome, and nobody is then.
Deliver(turns, s, outcome) ==
    [t \in Turns |-> IF t = sess[s].waiting THEN [turns[t] EXCEPT !.outcome = outcome] ELSE turns[t]]

\* Slip: pending calls survive the session.
CleanedUpKeepingCalls(s) == [sess EXCEPT ![s].live = FALSE, ![s].left = 0]

\* cleanup: the timer, the pending calls and the subscriptions go; whoever
\* waits is not told.
CleanedUp(s) == [sess EXCEPT ![s].live = FALSE, ![s].pending = {}, ![s].left = 0]

-----------------------------------------------------------------------------
\* client(): one start for all, forgotten when it fails.
Open(t) ==
    /\ turn[t].pc = "idle" /\ t \in Openers
    /\ turn' = [turn EXCEPT ![t].pc = IF client = "up" THEN "create" ELSE "client"]
    /\ client' = IF client = "none" THEN "starting" ELSE client
    /\ UNCHANGED <<sess, copyLeft>>

ClientStarts(ok) ==
    /\ client = "starting"
    /\ client' = IF ok THEN "up" ELSE "none"
    /\ turn' = [t \in Turns |-> IF turn[t].pc # "client" THEN turn[t]
                                ELSE [turn[t] EXCEPT !.pc = IF ok THEN "create" ELSE "failed"]]
    /\ UNCHANGED <<sess, copyLeft>>

\* The account has no vision, the tools are no functions, or createSession fails.
CreateFails(t) ==
    /\ turn[t].pc = "create"
    /\ Fail(t)
    /\ UNCHANGED <<client, sess, copyLeft>>

Create(t) ==
    /\ turn[t].pc = "create"
    /\ turn' = [turn EXCEPT ![t].pc = "on", ![t].at = t, ![t].outcome = "open"]
    /\ sess' = [sess EXCEPT ![t] = [NoSession EXCEPT !.live = TRUE, !.waiting = t,
                                                     !.left = SessionTtl, !.run = RunLimit]]
    /\ UNCHANGED <<client, copyLeft>>

\* external_tool.requested: the call is pending and the session's timer starts anew.
ToolRequested(s) ==
    LET n == sess[s].used + 1
    IN  /\ sess[s].live /\ n \in CallIds
        /\ sess' = [sess EXCEPT ![s].used = n, ![s].pending = @ \cup {n}, ![s].left = SessionTtl,
                                ![s].waiting = NoTurn]
        /\ turn' = Deliver(turn, s, "tool")
        /\ UNCHANGED <<client, copyLeft>>

RunSettles(s, outcome) ==
    /\ sess[s].run >= 0
    /\ outcome \in {"complete", "error"}
    /\ sess' = [sess EXCEPT ![s].run = -1, ![s].waiting = NoTurn]
    /\ turn' = Deliver(turn, s, outcome)
    /\ UNCHANGED <<client, copyLeft>>

-----------------------------------------------------------------------------
\* complete with a tool result: an unknown call or another caller's is an error.
ContinueRefused(t) ==
    /\ turn[t].pc = "idle"
    /\ Fail(t)
    /\ UNCHANGED <<client, sess, copyLeft>>

\* Slip: the turn registers no waiter of its own.
ContinueUnregistered(t, s, n) ==
    /\ turn[t].pc = "idle"
    /\ n \in sess[s].pending /\ n \in sess[s].told
    /\ copyLeft' = [copyLeft EXCEPT ![<<s, n>>] = SessionTtl]
    /\ turn' = [turn EXCEPT ![t] = [NewTurn EXCEPT !.pc = "on", !.at = s, !.call = n,
                                                   !.rpc = "sent", !.outcome = "open"]]
    /\ UNCHANGED <<client, sess>>

\* The timer that touch clears is the one the copy carries, and the new one
\* belongs to the copy.  The waiter is registered before the call is sent, in
\* the place of any other, whose promise is then never settled.
Continue(t, s, n) ==
    LET displaced(u) == u = sess[s].waiting
    IN  /\ turn[t].pc = "idle"
        /\ n \in sess[s].pending /\ n \in sess[s].told
        /\ copyLeft' = [copyLeft EXCEPT ![<<s, n>>] = SessionTtl]
        /\ sess' = [sess EXCEPT ![s].waiting = t]
        /\ turn' = [u \in Turns |->
               IF u = t THEN [NewTurn EXCEPT !.pc = "on", !.at = s, !.call = n, !.rpc = "sent", !.outcome = "open"]
               ELSE IF displaced(u) THEN [turn[u] EXCEPT !.outcome = "lost"] ELSE turn[u]]
        /\ UNCHANGED client

\* handlePendingToolCall returns.
Accepted(t) ==
    LET s == turn[t].at
    IN  /\ turn[t].pc = "on" /\ turn[t].rpc = "sent"
        /\ turn' = [turn EXCEPT ![t].rpc = "accepted"]
        /\ sess' = [sess EXCEPT ![s].pending = @ \ {turn[t].call}]
        /\ UNCHANGED <<client, copyLeft>>

\* A refusal fails the turn; its wait goes on without it.
NotAccepted(t) ==
    /\ turn[t].pc = "on" /\ turn[t].rpc = "sent"
    /\ turn' = [turn EXCEPT ![t].pc = "failed", ![t].rpc = "none"]
    /\ UNCHANGED <<client, sess, copyLeft>>

-----------------------------------------------------------------------------
\* What waitForOutcome does with the outcome: the calls are shown; an error
\* closes the session; an answer closes it, unless its validation throws.
ShowCalls(t) ==
    LET s == turn[t].at
    IN  /\ turn[t].outcome = "tool"
        /\ turn' = [turn EXCEPT ![t].outcome = "ready"]
        /\ sess' = IF turn[t].pc = "on" THEN [sess EXCEPT ![s].told = @ \cup sess[s].pending] ELSE sess
        /\ UNCHANGED <<client, copyLeft>>

\* Closing awaits session.disconnect, which may fail; `closing` is an outcome
\* that will be thrown when that is over.
Answer(t) ==
    /\ turn[t].outcome = "complete"
    /\ \E o \in {"ready", "closing"} : turn' = [turn EXCEPT ![t].outcome = o]
    /\ sess' = CleanedUp(turn[t].at)
    /\ UNCHANGED <<client, copyLeft>>

RunFailed(t) ==
    /\ turn[t].outcome = "error"
    /\ turn' = [turn EXCEPT ![t].outcome = "closing"]
    /\ sess' = CleanedUp(turn[t].at)
    /\ UNCHANGED <<client, copyLeft>>

\* The outcome is a promise that a turn which resumes a session awaits only
\* after its RPC has returned, and never when the RPC has failed it.
Unawaited(t) == turn[t].pc = "failed" \/ turn[t].rpc = "sent"

AnswerInvalid(t) ==
    /\ turn[t].outcome = "complete" /\ ~Unawaited(t)
    /\ turn' = [turn EXCEPT ![t].outcome = "thrown"]
    /\ UNCHANGED <<client, sess, copyLeft>>

Throws(t) ==
    /\ turn[t].outcome = "closing" /\ ~Unawaited(t)
    /\ turn' = [turn EXCEPT ![t].outcome = "thrown"]
    /\ UNCHANGED <<client, sess, copyLeft>>

EndOfProcess ==
    /\ client' = "none"
    /\ turn' = [u \in Turns |-> IF turn[u].pc \in {"idle", "done"} THEN turn[u]
                                ELSE [NewTurn EXCEPT !.pc = "failed"]]
    /\ sess' = [s \in Turns |-> NoSession]
    /\ copyLeft' = [c \in DOMAIN copyLeft |-> -1]

\* A rejection that nobody awaits ends the process, which is started again: an
\* invalid answer or a failed run meets a turn that does not await its outcome.
Die(t) == Unawaited(t) /\ turn[t].outcome \in {"complete", "closing"} /\ EndOfProcess

Return(t) ==
    /\ turn[t].pc = "on" /\ turn[t].rpc # "sent"
    /\ turn[t].outcome \in {"ready", "thrown"}
    /\ turn' = [turn EXCEPT ![t] = [NewTurn EXCEPT !.pc = IF turn[t].outcome = "ready" THEN "done" ELSE "failed",
                                                   !.at = turn[t].at, !.call = turn[t].call]]
    /\ UNCHANGED <<client, sess, copyLeft>>

\* Slip: only sessions with a pending call are closed.
ExpirePending(s) ==
    /\ sess[s].live /\ sess[s].left = 0 /\ sess[s].pending # {}
    /\ sess' = CleanedUp(s)
    /\ UNCHANGED <<client, turn, copyLeft>>

\* The timers.  They are punctual: time waits for one that is due.
Expire(s) ==
    /\ sess[s].live /\ sess[s].left = 0
    /\ sess' = CleanedUp(s)
    /\ UNCHANGED <<client, turn, copyLeft>>

CopyExpires(s, n) ==
    /\ copyLeft[<<s, n>>] = 0
    /\ copyLeft' = [copyLeft EXCEPT ![<<s, n>>] = -1]
    /\ sess' = CleanedUp(s)
    /\ UNCHANGED <<client, turn>>

\* Nobody awaits the clean-up of a timer either.
DisconnectFails(s) ==
    /\ sess[s].live
    /\ sess[s].left = 0 \/ \E n \in CallIds : copyLeft[<<s, n>>] = 0
    /\ EndOfProcess

Sooner(x) == IF x > 0 THEN x - 1 ELSE x

CopilotTick ==
    /\ \A s \in Turns : (sess[s].live => sess[s].left > 0) /\ sess[s].run # 0
    /\ \A c \in DOMAIN copyLeft : copyLeft[c] # 0
    /\ \E s \in Turns : sess[s].live \/ sess[s].run > 0
    /\ sess' = [s \in Turns |-> [sess[s] EXCEPT !.left = Sooner(@), !.run = Sooner(@)]]
    /\ copyLeft' = [c \in DOMAIN copyLeft |-> Sooner(copyLeft[c])]
    /\ UNCHANGED <<client, turn>>

CopilotNext ==
    \/ \E ok \in BOOLEAN : ClientStarts(ok)
    \/ \E t \in Turns :
        \/ Open(t) \/ Create(t) \/ CreateFails(t) \/ ContinueRefused(t)
        \/ \E s \in Turns, n \in CallIds : Continue(t, s, n)
        \/ Accepted(t) \/ NotAccepted(t)
        \/ ShowCalls(t) \/ Answer(t) \/ AnswerInvalid(t) \/ RunFailed(t) \/ Throws(t) \/ Die(t) \/ Return(t)
    \/ \E s \in Turns :
        \/ ToolRequested(s) \/ Expire(s) \/ DisconnectFails(s)
        \/ \E o \in {"complete", "error"} : RunSettles(s, o)
        \/ \E n \in CallIds : CopyExpires(s, n)
    \/ CopilotTick

\* What runs by itself: continuations of settled promises, the timers, that of
\* sendAndWait included, the answer of the runtime to an RPC, and time.  That a
\* disconnect fails is owed by nobody.
ByItself ==
    \/ \E t \in Turns :
        \/ Accepted(t) \/ NotAccepted(t)
        \/ ShowCalls(t) \/ Answer(t) \/ AnswerInvalid(t) \/ RunFailed(t) \/ Throws(t) \/ Die(t) \/ Return(t)
    \/ \E s \in Turns :
        Expire(s) \/ RunSettles(s, "error") \/ \E n \in CallIds : CopyExpires(s, n)
    \/ CopilotTick

CopilotFairness == WF_copilotVars(ByItself)

CopilotSpec == CopilotInit /\ [][CopilotNext]_copilotVars /\ CopilotFairness

-----------------------------------------------------------------------------
\* A call that waits for its result belongs to a session that still runs its
\* timer, so that the entry cannot outlive it and a later result never reaches
\* a session that was closed.
NoDeadCall == \A s \in Turns : sess[s].pending # {} => sess[s].live

\* Whatever ends a turn, an invalid answer or a client that never comes back
\* included, its session is closed in the end.
SessionsClose == \A s \in Openers : sess[s].live ~> ~sess[s].live

\* A turn that comes while the runtime still works, and that no second turn of
\* the same session displaces, is answered.  (One that comes after the runtime
\* has ended waits for nothing.)
TurnsEnd ==
    \A t \in Turns :
        (turn[t].pc = "on" /\ turn[t].outcome = "open" /\ sess[turn[t].at].run > 0)
            ~> (turn[t].pc # "on" \/ turn[t].outcome = "lost")
=============================================================================
