------------------------------ MODULE FrontEnd ------------------------------
(***************************************************************************)
(* The HTTP front end (tgw-proxy.mjs) and the specialist routes            *)
(* (specialist-routes.mjs): the life of a request from its first byte to   *)
(* the end of its reply.                                                   *)
(*                                                                         *)
(* Every request takes one lane, the branch of the server that answers it. *)
(* Lanes differ in the events they listen to, in the timers they set, and  *)
(* in whether an error handler looks at headersSent.  A second writeHead   *)
(* throws; nobody catches what is thrown in a callback or rejected in an   *)
(* async function without a catch, so the process ends and every exchange  *)
(* under way with it.  A supervisor starts it again.                       *)
(*                                                                         *)
(* External: a socket that fails emits 'error' on the request.  One that   *)
(* closes too early emits it only on a response that has a listener.  What *)
(* is written to a reply whose client has left goes nowhere, but counts as *)
(* written.                                                                *)
(***************************************************************************)
EXTENDS Integers, FiniteSets

CONSTANTS
    Requests,
    NoLane,
    BodyLimit,          \* bodyTimer of the specialists (30000)
    IdleLimit,          \* upstream.setTimeout of the specialists (120000)
    HandshakeLimit,     \* upstream.setTimeout of an upgrade (15000)
    MaxChunks           \* bound of the model: chunks of a specialist's response

\* What reads a body that its lane depends on, and the lanes.
Bodies == {"chat", "responses", "messages"}
Lanes == Bodies \cup
         {"reply", "plan", "copilot", "codex", "relay", "raw", "collect", "eager", "translate", "specialist",
          "upgrade", "systemone", "late", "early"}

ASSUME FrontAssumption ==
    /\ NoLane \notin Lanes
    /\ BodyLimit \in Nat /\ IdleLimit \in Nat /\ HandshakeLimit \in Nat /\ MaxChunks \in Nat

VARIABLE req    \* request |-> its exchange

frontVars == <<req>>

\* Who the models of a request belong to.  A planned model has a profile, a
\* role, a catalog entry or an adapter of its own.
Kinds == {"jev", "planned", "copilot", "codex", "reserved", "modal", "oc_minimax", "opencode",
          "openrouter", "mistral", "minimax", "other"}

\* The branches of each surface, by what they do with the upstream's response:
\* collect it and answer a document of their own, translate it likewise but
\* pass on what they cannot parse, or relay it as it comes.
ChatCollects == {"oc_minimax", "opencode"}
ChatRelays == {"modal", "openrouter", "mistral", "minimax", "other"}
ResponsesCollects == {"modal", "oc_minimax", "opencode", "openrouter", "mistral"}
ResponsesTranslates == {"minimax", "other"}
MessagesCollectModal == {"modal"}
MessagesCollectOpenCode == {"opencode"}
MessagesCollectMistral == {"mistral"}
MessagesRelayOpenRouter == {"openrouter"}
MessagesRelays == {"minimax", "other"}

\* A retired model, a wrong surface or a plan with an error is answered at
\* once; a plan with candidates is executed.
PlanLanes == {"reply", "plan"}

\* A configured Codex model is proxied; a reserved name without one is a 404.
CodexLane(k) == IF k = "codex" THEN {"codex"} ELSE {"reply"}

ChatLanes(k) ==
    CASE k = "jev" -> {"reply"}
      [] k = "planned" -> PlanLanes
      [] k = "copilot" -> {"copilot", "reply"}
      [] k \in {"codex", "reserved"} -> CodexLane(k)
      [] k \in ChatCollects -> {"collect"}
      [] k \in ChatRelays -> {"relay"}

ResponsesLanes(k) ==
    CASE k = "jev" -> {"reply"}
      [] k = "planned" -> PlanLanes
      [] k \in {"codex", "reserved"} -> CodexLane(k)
      [] k \in ResponsesCollects -> {"collect"}
      [] k \in ResponsesTranslates \cup {"copilot"} -> {"translate"}

\* MiniMax behind OpenCode writes the head of its message before it makes it.
MessagesLanes(k) ==
    CASE k = "jev" -> {"reply"}
      [] k = "planned" -> PlanLanes
      [] k \in {"codex", "reserved"} -> CodexLane(k)
      [] k \in MessagesCollectModal \cup MessagesCollectOpenCode \cup MessagesCollectMistral -> {"collect"}
      [] k = "oc_minimax" -> {"eager"}
      [] k \in MessagesRelayOpenRouter \cup MessagesRelays \cup {"copilot"} -> {"relay"}

LanesOf(surface) ==
    CASE surface = "chat" -> UNION {ChatLanes(k) : k \in Kinds}
      [] surface = "responses" -> UNION {ResponsesLanes(k) : k \in Kinds}
      [] surface = "messages" -> UNION {MessagesLanes(k) : k \in Kinds}

-----------------------------------------------------------------------------
\* `head` is headersSent; `over` how the reply ended: its end was called, it
\* was destroyed, its client left first, or its handler wrote a second head.
\* `up` is what the lane waits for, mostly an upstream: stopped is a socket it
\* has destroyed and that has yet to say so, gone one that nobody hears.
NewRequest == [lane |-> NoLane, body |-> "none", head |-> FALSE, over |-> "no", up |-> "none",
               bodyLeft |-> -1, idleLeft |-> -1, chunks |-> 0]

Exchange == [lane : Lanes \cup {NoLane}, body : {"none", "reading", "aborted", "read"},
             head : BOOLEAN, over : {"no", "ended", "cut", "left", "threw"},
             up : {"none", "asked", "open", "stopped", "gone", "done"},
             bodyLeft : -1 .. BodyLimit,
             idleLeft : (-1 .. IdleLimit) \cup (-1 .. HandshakeLimit),
             chunks : 0 .. MaxChunks]

FrontTypeOK == req \in [Requests -> Exchange]

FrontInit == req = [r \in Requests |-> NewRequest]

Put(r, x) == req' = [req EXCEPT ![r] = x]

\* res.end and res.destroy; what is over stays as it is.
Ended(x) == [x EXCEPT !.over = IF @ = "no" THEN "ended" ELSE @]
Destroyed(x) == [x EXCEPT !.over = IF @ = "no" THEN "cut" ELSE @]

\* Nothing more comes of what the lane waited for.
Done(x) == [x EXCEPT !.up = "done", !.idleLeft = -1]

\* The process ends: replies are cut, reads, timers and sockets go.
Severed(x) == [Destroyed(Done(x)) EXCEPT !.body = "read", !.bodyLeft = -1]

Dies(r, x) ==
    req' = [q \in Requests |-> IF q = r THEN Severed(x)
                               ELSE IF req[q].lane = NoLane THEN req[q] ELSE Severed(req[q])]

\* res.writeHead of an exchange that goes on as x.
WriteHead(r, x) ==
    IF req[r].head THEN Dies(r, [x EXCEPT !.over = "threw"]) ELSE Put(r, [x EXCEPT !.head = TRUE])

-----------------------------------------------------------------------------
(* Requests come in.                                                       *)

New(lane) == [NewRequest EXCEPT !.lane = lane, !.body = "read", !.up = "asked"]

Idle(r) == req[r].lane = NoLane

\* Health, the dashboard, lists, redirections and refusals.
ReceiveReply(r) == Idle(r) /\ Put(r, [Ended(Done(New("reply"))) EXCEPT !.head = TRUE])

ReceiveBody(r) ==
    /\ Idle(r)
    /\ \E lane \in Bodies \cup {"raw"} : Put(r, [NewRequest EXCEPT !.lane = lane, !.body = "reading"])

ReceiveSpecialist(r) ==
    Idle(r) /\ Put(r, [NewRequest EXCEPT !.lane = "specialist", !.body = "reading", !.bodyLeft = BodyLimit])

ReceiveUpgrade(r) == Idle(r) /\ Put(r, [New("upgrade") EXCEPT !.idleLeft = HandshakeLimit])

\* SystemOne; and what awaits something and then answers: the list of models,
\* the start of a login, the quotas, a change of the preferences.
ReceiveWaiting(r) ==
    Idle(r) /\ \E lane \in {"systemone", "late"} : Put(r, New(lane))

\* Status and logout of the login adapter write the head before they await.
ReceiveEarly(r) == Idle(r) /\ Put(r, [New("early") EXCEPT !.head = TRUE])

\* The reset of the preferences answers, unless its write throws.
ReceiveReset(r) ==
    /\ Idle(r)
    /\ \/ Put(r, [Ended(Done(New("reply"))) EXCEPT !.head = TRUE])
       \/ Dies(r, New("reply"))

Reads(r, lanes) == req[r].lane \in lanes /\ req[r].body = "reading"

\* The body has ended.  Copilot Auto writes the head of a stream at once.
BodyEnds(r) ==
    /\ Reads(r, Bodies)
    /\ \E lane \in LanesOf(req[r].lane) :
           IF lane = "reply" THEN Put(r, [Ended(Done(New(lane))) EXCEPT !.head = TRUE])
           ELSE Put(r, [New(lane) EXCEPT !.head = FALSE])

CopilotStreams(r) == Reads(r, {"chat"}) /\ Put(r, [New("copilot") EXCEPT !.head = TRUE])

RawBodyEnds(r) == Reads(r, {"raw"}) /\ Put(r, New("raw"))

\* A document that has no fields, or a Modal message without its list, throws
\* in the callback that reads it.
BodyHasNoFields(r) == Reads(r, Bodies) /\ Dies(r, req[r])
MessagesHaveNoList(r) == Reads(r, {"messages"}) /\ Dies(r, req[r])

-----------------------------------------------------------------------------
(* What the lanes do with the upstream's events.                           *)

Waits(r, lanes, ups) == req[r].lane \in lanes /\ req[r].up \in ups

\* The response begins: its head is passed on, or it is collected.
PassesHead(r) == WriteHead(r, [req[r] EXCEPT !.up = "open"])
RelayAnswers(r) == Waits(r, {"relay"}, {"asked"}) /\ PassesHead(r)
CodexAnswers(r) == Waits(r, {"codex"}, {"asked"}) /\ PassesHead(r)
RawAnswers(r) == Waits(r, {"raw"}, {"asked"}) /\ PassesHead(r)
CollectAnswers(r) == Waits(r, {"collect", "eager"}, {"asked"}) /\ Put(r, [req[r] EXCEPT !.up = "open"])
TranslateAnswers(r) == Waits(r, {"translate"}, {"asked"}) /\ Put(r, [req[r] EXCEPT !.up = "open"])

\* It ends.
PipeEnds(r) == Waits(r, {"relay", "codex"}, {"open"}) /\ Put(r, Ended(Done(req[r])))
RawEnds(r) == Waits(r, {"raw"}, {"open"}) /\ Put(r, Ended(Done(req[r])))
CollectEnds(r) == Waits(r, {"collect"}, {"open"}) /\ WriteHead(r, Ended(Done(req[r])))
TranslateEnds(r) == Waits(r, {"translate"}, {"open"}) /\ WriteHead(r, Ended(Done(req[r])))

\* A document without fields throws after the head, and the handler of that
\* writes another.
EagerEnds(r) ==
    /\ Waits(r, {"eager"}, {"open"})
    /\ \/ WriteHead(r, Ended(Done(req[r])))
       \/ Dies(r, [req[r] EXCEPT !.head = TRUE, !.over = "threw"])

\* The socket fails.  Only Codex looks at headersSent.
AnswersError(r) == WriteHead(r, Ended(Done(req[r])))
RelayFails(r) == Waits(r, {"relay"}, {"asked", "open"}) /\ AnswersError(r)
RawFails(r) == Waits(r, {"raw"}, {"asked", "open"}) /\ AnswersError(r)
CollectFails(r) == Waits(r, {"collect", "eager"}, {"asked", "open"}) /\ AnswersError(r)
TranslateFails(r) == Waits(r, {"translate"}, {"asked", "open"}) /\ AnswersError(r)

CodexFails(r) ==
    /\ Waits(r, {"codex"}, {"asked", "open", "stopped"})
    /\ IF req[r].head THEN Put(r, Destroyed(Done(req[r]))) ELSE AnswersError(r)

\* It closes too early: pipeAndRecordUsage listens, the others do not.
PipeVanishes(r) == Waits(r, {"relay", "codex"}, {"open"}) /\ Put(r, Ended(Done(req[r])))
Unheard(r) ==
    Waits(r, {"raw", "collect", "eager", "translate"}, {"open"}) /\ Put(r, [req[r] EXCEPT !.up = "gone"])

-----------------------------------------------------------------------------
(* Copilot Auto, plans, SystemOne and the admin routes: `up` is the promise *)
(* they await.                                                             *)

CopilotReturns(r) ==
    /\ Waits(r, {"copilot"}, {"asked"})
    /\ IF req[r].head THEN Put(r, Ended(Done(req[r]))) ELSE WriteHead(r, Ended(Done(req[r])))

CopilotThrows(r) ==
    /\ Waits(r, {"copilot"}, {"asked"})
    /\ IF req[r].head THEN Put(r, Ended(Done(req[r]))) ELSE AnswersError(r)

\* A rejected outcome that nobody awaits (CopilotAuto!Die).
CopilotUnhandled(r) == Waits(r, {"copilot"}, {"asked"}) /\ Dies(r, req[r])

PlanCommits(r) == Waits(r, {"plan"}, {"asked"}) /\ PassesHead(r)
PlanEnds(r) == Waits(r, {"plan"}, {"open"}) /\ Put(r, Ended(Done(req[r])))
PlanThrows(r) ==
    /\ Waits(r, {"plan"}, {"asked", "open"})
    /\ IF req[r].head THEN Put(r, Destroyed(Done(req[r]))) ELSE AnswersError(r)

\* executeRoutePlan returns and leaves a hung chat stream open.
PlanLeavesOpen(r) == Waits(r, {"plan"}, {"open"}) /\ Put(r, [req[r] EXCEPT !.up = "gone"])

SystemOneSettles(r) ==
    /\ Waits(r, {"systemone"}, {"asked"})
    /\ IF req[r].over = "no" THEN WriteHead(r, Ended(Done(req[r]))) ELSE Put(r, Done(req[r]))

LateSettles(r) == Waits(r, {"late"}, {"asked"}) /\ WriteHead(r, Ended(Done(req[r])))
EarlyEnds(r) == Waits(r, {"early"}, {"asked"}) /\ Put(r, Ended(Done(req[r])))
EarlyFails(r) == Waits(r, {"early"}, {"asked"}) /\ AnswersError(r)

-----------------------------------------------------------------------------
(* The specialist routes.                                                  *)

\* Slip: the guard of headersSent is missing.
ErrorResponseUnguarded(r, x) ==
    IF req[r].over \in {"cut", "left"} THEN Put(r, x) ELSE WriteHead(r, Ended(x))

\* errorResponse, of an exchange that goes on as x.
ErrorResponse(r, x) ==
    IF req[r].over \in {"cut", "left"} THEN Put(r, x)
    ELSE IF req[r].head THEN Put(r, Destroyed(x))
    ELSE WriteHead(r, Ended(x))

\* bodyTimer answers 408 and destroys the request, which aborts a body under way.
BodyTimesOut(r) ==
    /\ req[r].bodyLeft = 0
    /\ ErrorResponse(r, [req[r] EXCEPT !.body = IF @ = "reading" THEN "aborted" ELSE @, !.bodyLeft = -1])

BodyTooLarge(r) == Reads(r, {"specialist"}) /\ Put(r, [req[r] EXCEPT !.body = "aborted"])

\* readBody rejects, and the handler answers that as well.
ReadBodyRejects(r) ==
    /\ req[r].lane = "specialist" /\ req[r].body = "aborted"
    /\ ErrorResponse(r, [req[r] EXCEPT !.body = "read", !.bodyLeft = -1])

\* The model or the form is refused.
SpecialistRefuses(r) ==
    /\ Reads(r, {"specialist"})
    /\ ErrorResponse(r, [req[r] EXCEPT !.body = "read", !.bodyLeft = -1])

\* Slip: the upstream has no timer.
AsksWithoutTimer(r) ==
    /\ Reads(r, {"specialist"})
    /\ Put(r, [req[r] EXCEPT !.body = "read", !.bodyLeft = -1, !.up = "asked"])

SpecialistAsks(r) ==
    /\ Reads(r, {"specialist"})
    /\ IF req[r].over \in {"cut", "left"} THEN Put(r, [req[r] EXCEPT !.body = "read", !.bodyLeft = -1])
       ELSE Put(r, [req[r] EXCEPT !.body = "read", !.bodyLeft = -1, !.up = "asked", !.idleLeft = IdleLimit])

SpecialistAnswers(r) ==
    /\ Waits(r, {"specialist"}, {"asked"})
    /\ WriteHead(r, [req[r] EXCEPT !.up = "open", !.idleLeft = IdleLimit])

SpecialistChunk(r) ==
    /\ Waits(r, {"specialist"}, {"open"}) /\ req[r].chunks < MaxChunks
    /\ Put(r, [req[r] EXCEPT !.chunks = @ + 1, !.idleLeft = IdleLimit])

SpecialistEnds(r) == Waits(r, {"specialist"}, {"open"}) /\ Put(r, Ended(Done(req[r])))
SpecialistVanishes(r) == Waits(r, {"specialist"}, {"open"}) /\ Put(r, Destroyed(Done(req[r])))

SpecialistFails(r) ==
    Waits(r, {"specialist"}, {"asked", "open", "stopped"}) /\ ErrorResponse(r, Done(req[r]))

\* upstream.setTimeout: the socket is destroyed, with an error for its listener.
SocketTimesOut(r) == req[r].idleLeft = 0 /\ Put(r, [req[r] EXCEPT !.up = "stopped", !.idleLeft = -1])

\* The answer to an upgrade is written to the socket, where no head is counted.
UpgradeRefused(r) == Waits(r, {"upgrade"}, {"asked"}) /\ Put(r, [Ended(Done(req[r])) EXCEPT !.head = TRUE])

\* The tunnel has no timer.
Upgraded(r) ==
    Waits(r, {"upgrade"}, {"asked"}) /\ Put(r, [req[r] EXCEPT !.head = TRUE, !.up = "open", !.idleLeft = -1])

TunnelCloses(r) == Waits(r, {"upgrade"}, {"open"}) /\ Put(r, Destroyed(Done(req[r])))

UpgradeFails(r) ==
    /\ Waits(r, {"upgrade"}, {"asked", "stopped"})
    /\ Put(r, IF req[r].over = "no" THEN [Ended(Done(req[r])) EXCEPT !.head = TRUE] ELSE Done(req[r]))

-----------------------------------------------------------------------------
\* The client leaves: a body under way is aborted.  Codex and the specialists
\* destroy the socket of their upstream; plans and SystemOne abort what they
\* await, which then settles; the others read on.
Gone(r) == [req[r] EXCEPT !.over = "left", !.body = IF @ = "reading" THEN "aborted" ELSE @]
Stopped(r) == [Gone(r) EXCEPT !.up = IF @ \in {"asked", "open"} THEN "stopped" ELSE @, !.idleLeft = -1]

Leaves(r, lanes) == req[r].lane \in lanes /\ req[r].over = "no"

CodexLeft(r) == Leaves(r, {"codex"}) /\ Put(r, Stopped(r))
SpecialistLeft(r) == Leaves(r, {"specialist"}) /\ Put(r, Stopped(r))
UpgradeLeft(r) ==
    /\ Leaves(r, {"upgrade"})
    /\ Put(r, IF req[r].up = "open" THEN Done(Gone(r)) ELSE Stopped(r))
OtherLeft(r) == Leaves(r, Lanes \ {"codex", "specialist", "upgrade"}) /\ Put(r, Gone(r))

\* Timers are punctual: time waits for one that is due.
Less(x) == IF x > 0 THEN x - 1 ELSE x

FrontTick ==
    /\ \A r \in Requests : req[r].bodyLeft # 0 /\ req[r].idleLeft # 0
    /\ \E r \in Requests : req[r].bodyLeft > 0 \/ req[r].idleLeft > 0
    /\ req' = [r \in Requests |-> [req[r] EXCEPT !.bodyLeft = Less(@), !.idleLeft = Less(@)]]

Arrives(r) ==
    \/ ReceiveReply(r) \/ ReceiveBody(r) \/ ReceiveSpecialist(r) \/ ReceiveUpgrade(r)
    \/ ReceiveWaiting(r) \/ ReceiveEarly(r) \/ ReceiveReset(r)
    \/ BodyEnds(r) \/ CopilotStreams(r) \/ RawBodyEnds(r) \/ BodyHasNoFields(r) \/ MessagesHaveNoList(r)

UpstreamMoves(r) ==
    \/ RelayAnswers(r) \/ CodexAnswers(r) \/ RawAnswers(r) \/ CollectAnswers(r) \/ TranslateAnswers(r)
    \/ PipeEnds(r) \/ RawEnds(r) \/ CollectEnds(r) \/ TranslateEnds(r) \/ EagerEnds(r)
    \/ RelayFails(r) \/ RawFails(r) \/ CollectFails(r) \/ TranslateFails(r) \/ CodexFails(r)
    \/ PipeVanishes(r) \/ Unheard(r)

PromiseSettles(r) ==
    \/ CopilotReturns(r) \/ CopilotThrows(r) \/ CopilotUnhandled(r)
    \/ PlanCommits(r) \/ PlanEnds(r) \/ PlanThrows(r) \/ PlanLeavesOpen(r)
    \/ SystemOneSettles(r) \/ LateSettles(r) \/ EarlyEnds(r) \/ EarlyFails(r)

SpecialistMoves(r) ==
    \/ BodyTooLarge(r) \/ SpecialistRefuses(r) \/ SpecialistAsks(r) \/ SpecialistAnswers(r)
    \/ SpecialistChunk(r) \/ SpecialistEnds(r) \/ SpecialistVanishes(r) \/ SpecialistFails(r)
    \/ UpgradeRefused(r) \/ Upgraded(r) \/ TunnelCloses(r) \/ UpgradeFails(r)

ClientLeaves(r) == CodexLeft(r) \/ SpecialistLeft(r) \/ UpgradeLeft(r) \/ OtherLeft(r)

Timer(r) == BodyTimesOut(r) \/ ReadBodyRejects(r) \/ SocketTimesOut(r)

FrontNext ==
    \/ FrontTick
    \/ \E r \in Requests :
        Arrives(r) \/ UpstreamMoves(r) \/ PromiseSettles(r) \/ SpecialistMoves(r) \/ ClientLeaves(r) \/ Timer(r)

\* What the process runs by itself for a request: its timers, the rejection of
\* its body, and the close of a socket that it has destroyed.
Runs(r) == Timer(r) \/ (req[r].up = "stopped" /\ (SpecialistFails(r) \/ UpgradeFails(r)))

FrontFairness == WF_frontVars(FrontTick \/ \E r \in Requests : Runs(r))

FrontSpec == FrontInit /\ [][FrontNext]_frontVars /\ FrontFairness

-----------------------------------------------------------------------------
\* However the body timer, the abort of a body, the socket timer, the events of
\* the upstream and the departure of the client are ordered, a reply gets one
\* head: the second one that throws is written only by those that relay a
\* response without looking, by the two admin routes that answer before they
\* know, and by the one that answers before it has read the document.
Careless == {"relay", "raw", "eager", "early"}

OneHead == \A r \in Requests : req[r].over = "threw" => req[r].lane \in Careless

\* Specialist requests are answered, destroyed or left, and upgrades decided,
\* although neither clients nor upstreams ever say another word: the timers of
\* the body, of the socket and of the handshake see to it between them.  (The
\* requests of the model come once, so that a moment when none waits, again and
\* again, says that every wait ends.)
Undecided(r) ==
    \/ req[r].lane = "specialist" /\ req[r].over = "no"
    \/ req[r].lane = "upgrade" /\ req[r].over = "no" /\ ~req[r].head

SpecialistsSettle == []<>(\A r \in Requests : ~Undecided(r))
=============================================================================
