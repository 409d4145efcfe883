------------------------------- MODULE SystemOne -------------------------------
(***************************************************************************)
(* Native calls (createSystemOnePool, systemone.mjs) on the account pool   *)
(* they share with the chat requests.  A call asks one account after       *)
(* another within its own time budget; the chat requests are any callers   *)
(* that keep to the pool's operations.                                     *)
(***************************************************************************)
EXTENDS AccountPool

CONSTANTS
  Native,         \* callers that make a native call, the others chat
  ModelOf,        \* ModelOf[c]: the target of native call c
  MaxAttempts,    \* accountPool.maxAttempts
  Budget,         \* timeoutMs, 30 s
  AttemptBudget,  \* attemptTimeoutMs, 10 s
  FailureDelay,   \* 30 s; also stands for the 60 s of a 429 without a time
  NativeCap,      \* MAX_COOLDOWN_MS of systemone.mjs, 1 h
  Asked           \* retry-after times an upstream may ask for

ASSUME SystemOneAssumption ==
  /\ Native \subseteq Callers /\ ModelOf \in [Native -> Targets]
  /\ MaxAttempts \in Nat \ {0}
  /\ AttemptBudget \in Nat \ {0} /\ Budget \in Nat \ {0}
  /\ Asked \subseteq Nat \ {0}
  /\ NativeCap \in Nat /\ FailureDelay \in RetryAfters
  /\ \A ms \in Asked : Smaller(ms, NativeCap) \in RetryAfters

VARIABLES
  call      \* the local variables of each request()

callVars == <<vars, call>>

NotAsked == 0
NewCall == [pc |-> "idle", excluded |-> {}, attempts |-> 0, aborted |-> FALSE,
            deadline |-> 0, due |-> 0, asked |-> NotAsked, reply |-> "none"]

On(c, pc) == c \in Native /\ call[c].pc = pc
Asking(c) == attempt[c].account

Become(c, q) == call' = [call EXCEPT ![c] = q]

\* The request is over; the pool hears nothing of it.
End(c, reply) ==
  /\ Become(c, [call[c] EXCEPT !.pc = "done", !.reply = reply])
  /\ IF attempt[c] = Idle THEN UNCHANGED vars ELSE Finish(c)

\* markFailure with a fixed or a given delay, then the head of the loop.
Failing(c, ms) ==
  /\ Fail(c, Asking(c), RetryDelay(ms), NoDiagnostic, {}, FALSE)
  /\ Become(c, [call[c] EXCEPT !.pc = "head"])

\* An abort of the caller comes first in the catch block: it counts no failure.
Caught(c) ==
  IF call[c].aborted THEN End(c, "cancelled")
  ELSE Failing(c, FailureDelay)

--------------------------------------------------------------------------------
(* The loop                                                                *)

Start(c) ==
  /\ On(c, "idle")
  /\ now + Budget <= Horizon
  /\ Become(c, [call[c] EXCEPT !.pc = "head", !.deadline = now + Budget])
  /\ UNCHANGED <<vars>>

GiveUp(c) ==
  /\ On(c, "head")
  /\ \/ call[c].attempts = MaxAttempts /\ End(c, "failed")
     \/ call[c].attempts < MaxAttempts /\ call[c].aborted /\ End(c, "cancelled")
     \/ /\ call[c].attempts < MaxAttempts /\ ~call[c].aborted
        /\ now >= call[c].deadline
        /\ End(c, "late")

\* Slip: an attempt may take all that is left of the budget.
TimerWhole(c) == call[c].deadline

\* setTimeout(..., min(attemptTimeoutMs, deadline - now))
Timer(c) == now + Smaller(AttemptBudget, call[c].deadline - now)

Looping(c) ==
  /\ On(c, "head") /\ call[c].attempts < MaxAttempts
  /\ ~call[c].aborted /\ now < call[c].deadline

SelectAccount(c) ==
  /\ Looping(c)
  /\ Begin(c, ModelOf[c], call[c].excluded)
  /\ Become(c, [call[c] EXCEPT !.pc = "token", !.attempts = @ + 1, !.due = Timer(c),
                  !.excluded = @ \cup {Selected(ModelOf[c], KeyOf[c], call[c].excluded)}])

NoAccountLeft(c) ==
  /\ Looping(c)
  /\ Exhausted(c, ModelOf[c], call[c].excluded)
  /\ Become(c, [call[c] EXCEPT !.pc = "over"])

\* break, and the error after the loop.
Over(c) == On(c, "over") /\ End(c, "failed")

--------------------------------------------------------------------------------
(* One attempt                                                             *)

\* authorizationFor() is not cancelled: an abort is seen when it returns.
TokenArrives(c) ==
  /\ On(c, "token")
  /\ IF call[c].aborted THEN End(c, "cancelled")
     ELSE Become(c, [call[c] EXCEPT !.pc = "upstream"]) /\ UNCHANGED <<vars>>

TokenMissing(c) == On(c, "token") /\ Caught(c)

\* Slip: the generation noted before the awaits is not passed on.
AnswersUnfenced(c) ==
  /\ On(c, "upstream")
  /\ MarkSuccess(Asking(c), KeyOf[c], state[Asking(c)].generation)
  /\ attempt' = [attempt EXCEPT ![c] = Idle]
  /\ Become(c, [call[c] EXCEPT !.pc = "done", !.reply = "ok"])
  /\ UNCHANGED <<now, credentialed>>

\* A valid document, even if the caller left while it was being checked.
Answers(c) ==
  /\ On(c, "upstream")
  /\ Succeed(c)
  /\ Become(c, [call[c] EXCEPT !.pc = "done", !.reply = "ok"])

\* A status other than 2xx; the body is cancelled before anything is reported.
Refuses(c, pc, ms) ==
  /\ On(c, "upstream")
  /\ Become(c, [call[c] EXCEPT !.pc = pc, !.asked = ms])
  /\ UNCHANGED <<vars>>

\* 400, 404 and 422 blame the request.
Rejected(c) ==
  /\ On(c, "rejected")
  /\ End(c, IF call[c].aborted THEN "cancelled" ELSE "rejected")

Refused(c) ==
  /\ On(c, "refused")
  /\ LET ms == call[c].asked
     IN IF ms = NotAsked
        THEN Failing(c, FailureDelay)
        ELSE Failing(c, Smaller(ms, NativeCap))

\* The connection fails, or the document is too large or not what was asked.
Breaks(c) == On(c, "upstream") /\ Caught(c)

\* Slips: an attempt cut off by its caller counts like one that timed out; the
\* answer is awaited without the timer.
TimeoutBlind(c) ==
  /\ On(c, "token") \/ On(c, "upstream")
  /\ now >= call[c].due
  /\ Failing(c, FailureDelay)

TimeoutOfToken(c) ==
  /\ On(c, "token")
  /\ now >= call[c].due
  /\ Caught(c)

Timeout(c) ==
  /\ On(c, "token") \/ On(c, "upstream")
  /\ now >= call[c].due
  /\ Caught(c)

Abort(c) ==
  /\ c \in Native /\ call[c].pc \notin {"idle", "done"} /\ ~call[c].aborted
  /\ Become(c, [call[c] EXCEPT !.aborted = TRUE])
  /\ UNCHANGED <<vars>>

\* fetch() and the body reader listen to the signal.
AbortNoticed(c) == On(c, "upstream") /\ call[c].aborted /\ End(c, "cancelled")

--------------------------------------------------------------------------------
(* The chat requests and the clock                                         *)

Chat(c) ==
  /\ c \notin Native
  /\ \/ \E t \in Targets, e \in SUBSET attempt[c].tried : Begin(c, t, e)
     \/ Succeed(c)
     \/ Finish(c)
     \/ \E a \in attempt[c].tried, drop \in BOOLEAN : \E delay \in Delays(a) :
          Fail(c, a, delay, NoDiagnostic, {}, drop)
  /\ UNCHANGED <<call>>

\* Timers fire in time, and what takes no awaiting takes no time.
Punctual ==
  \A c \in Native :
    /\ call[c].pc \in {"token", "upstream"} => now < call[c].due
    /\ call[c].pc \notin {"head", "over", "refused", "rejected"}

Clock == Punctual /\ Tick /\ UNCHANGED <<call>>

Credentials == (\E a \in Volatile : CredentialChange(a)) /\ UNCHANGED <<call>>

CallInit ==
  /\ Init
  /\ call = [c \in Native |-> NewCall]

Loop(c) == GiveUp(c) \/ SelectAccount(c) \/ NoAccountLeft(c) \/ Over(c)
Awaiting(c) ==
  \/ TokenArrives(c) \/ TokenMissing(c) \/ Answers(c) \/ Breaks(c)
  \/ \E ms \in Asked \cup {NotAsked} : Refuses(c, "refused", ms)
  \/ Refuses(c, "rejected", NotAsked)

CallNext ==
  \/ \E c \in Native : Start(c) \/ Abort(c)
  \/ \E c \in Native : Loop(c) \/ Timeout(c) \/ AbortNoticed(c) \/ Rejected(c) \/ Refused(c)
  \/ \E c \in Native : Awaiting(c)
  \/ \E c \in Callers \ Native : Chat(c)
  \/ Clock
  \/ Credentials

\* The loop runs, time passes and timers fire; upstreams and callers owe nothing.
Fairness ==
  /\ \A c \in Native : WF_callVars(Loop(c) \/ Timeout(c) \/ AbortNoticed(c) \/ Rejected(c) \/ Refused(c))
  /\ WF_callVars(Clock)

CallSpec == CallInit /\ [][CallNext]_callVars /\ Fairness

--------------------------------------------------------------------------------
(* Properties                                                              *)

\* The type invariant of the native calls.
CallTypeOK ==
  /\ call \in [Native ->
       [pc : {"idle", "head", "token", "upstream", "refused", "rejected", "over", "done"},
        excluded : SUBSET Accounts, attempts : 0..MaxAttempts, aborted : BOOLEAN,
        deadline : Nat, due : Nat, asked : Asked \cup {NotAsked},
        reply : {"none", "ok", "failed", "late", "cancelled", "rejected"}]]

\* docs/systemone.md: every attempt asks another account, up to max_attempts, and
\* all of them together keep to the total budget.
BudgetKept ==
  \A c \in Native : call[c].pc \notin {"idle", "done"} =>
    /\ Cardinality(call[c].excluded) = call[c].attempts
    /\ now <= call[c].deadline
    /\ call[c].pc \in {"token", "upstream"} => call[c].due <= call[c].deadline

\* A hung account cannot use up the budget of the call: a call that runs out of
\* time has asked as many accounts as attempt budgets fit in.
BackupsGetATurn ==
  \A c \in Native : call[c].reply = "late" => call[c].attempts * AttemptBudget >= Budget

\* Cancellation by the caller is not an account failure: a call that was aborted
\* counts none, except for a refusal that had already arrived.
CancellationIsNoFailure ==
  [][\A c \in Native : call[c].aborted /\ call[c].pc # "refused" /\ call'[c] # call[c] =>
       UNCHANGED state \/ call'[c].reply = "ok"]_callVars

\* Within its budget, whatever its upstreams do, every call is answered.
EveryCallEnds == \A c \in Native : call[c].pc # "idle" ~> call[c].pc = "done"
================================================================================
