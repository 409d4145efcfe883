---------------------------- MODULE ZenSessions ----------------------------
(***************************************************************************)
(* opencode-zen-session.mjs: one pool of sessions per account, all of them *)
(* served by the local `opencode serve` of one origin.                     *)
(*                                                                         *)
(* A request asks its pool for a session, names a key or none, and goes    *)
(* through sessionId, ensureServer and mint.  A session is named by the    *)
(* request that minted it.  The queue `ready` is filled by fill alone, and *)
(* fill runs only after an entry was taken from `ready`: the queue is      *)
(* always empty, so that a request has its affinity or mints.  Probes,     *)
(* starts and POSTs have timeouts and may fail at any time; serve may exit *)
(* at any time.                                                            *)
(***************************************************************************)
EXTENDS Integers, FiniteSets

CONSTANTS
    Askers,         \* requests
    Pools,          \* pools that share the origin (one per account)
    Keys,           \* sticky keys
    NoKey,          \* the key of a request without one
    Nobody,
    Home,           \* request |-> pool of the account it was given
    Ttl,            \* ttlMs
    ZenHorizon      \* bound of the model: the last instant

ASSUME ZenAssumption ==
    /\ NoKey \notin Keys
    /\ Nobody \notin Askers \cup Pools
    /\ Home \in [Askers -> Pools]
    /\ Ttl \in Nat /\ ZenHorizon \in Nat

VARIABLES
    clock,
    ask,            \* request |-> where its call stands
    sticky,         \* pool |-> <<key, session>>
    stickyPending,  \* pool |-> key |-> request whose promise the others await
    starting,       \* pool |-> request whose start is under way
    serverStarts,   \* the same for the origin, shared by all pools
    child,          \* pools whose child process runs
    serving         \* the pool whose child answers on the port

zenVars == <<clock, ask, sticky, stickyPending, starting, serverStarts, child, serving>>

Fresh == [pc |-> "idle", key |-> NoKey, on |-> Nobody, got |-> Nobody, minted |-> 0]

PCs == {"idle", "follow", "probe", "wait1", "probe2", "wait2", "probe3", "boot", "mint", "done", "failed"}

ZenTypeOK ==
    /\ clock \in 0 .. ZenHorizon
    /\ ask \in [Askers -> [pc : PCs, key : Keys \cup {NoKey},
                           on : Askers \cup {Nobody}, got : Askers \cup {Nobody}, minted : Nat]]
    /\ sticky \in [Pools -> SUBSET (Keys \X Askers)]
    /\ stickyPending \in [Pools -> [Keys -> Askers \cup {Nobody}]]
    /\ starting \in [Pools -> Askers \cup {Nobody}]
    /\ serverStarts \in Askers \cup {Nobody}
    /\ child \subseteq Pools
    /\ serving \in child \cup {Nobody}

ZenInit ==
    /\ clock = 0
    /\ ask = [a \in Askers |-> Fresh]
    /\ sticky = [p \in Pools |-> {}]
    /\ stickyPending = [p \in Pools |-> [k \in Keys |-> Nobody]]
    /\ starting = [p \in Pools |-> Nobody]
    /\ serverStarts = Nobody
    /\ child = {} /\ serving = Nobody

-----------------------------------------------------------------------------
\* The sessions that a key of the pool may reuse.  (`until` is later than the
\* end of the session's own ttl, which therefore decides.)
Affine(p, k) == {s \in Askers : <<k, s>> \in sticky[p] /\ clock - ask[s].minted <= Ttl}

\* The answer of request a reaches those that await the same promise.
Followers(a) == {b \in Askers : ask[b].pc = "follow" /\ ask[b].on = a}

Settled(pending, a) ==
    [p \in Pools |-> [k \in Keys |-> IF pending[p][k] = a THEN Nobody ELSE pending[p][k]]]

Answered(asks, a, session) ==
    [b \in Askers |-> IF b \in {a} \cup Followers(a)
                      THEN [asks[b] EXCEPT !.pc = IF session = Nobody THEN "failed" ELSE "done",
                                           !.on = Nobody, !.got = session]
                      ELSE asks[b]]

At(a, pc) == ask' = [ask EXCEPT ![a].pc = pc]

\* Slip: every request selects for itself.
SessionIdAlone(a, k) ==
    LET p     == Home[a]
        asked == [Fresh EXCEPT !.key = k]
    IN  /\ ask[a].pc = "idle"
        /\ IF Affine(p, k) # {}
           THEN \E s \in Affine(p, k) : ask' = [ask EXCEPT ![a] = [asked EXCEPT !.pc = "done", !.got = s]]
           ELSE ask' = [ask EXCEPT ![a] = [asked EXCEPT !.pc = "probe"]]
        /\ UNCHANGED <<clock, sticky, stickyPending, starting, serverStarts, child, serving>>

\* sessionId up to its first await: affinity, a promise to share, or the probe
\* with which ensureServer begins.
SessionId(a, k) ==
    LET p     == Home[a]
        bound == Affine(p, k)
        lead  == IF k = NoKey THEN Nobody ELSE stickyPending[p][k]
        asked == [Fresh EXCEPT !.key = k]
    IN  /\ ask[a].pc = "idle"
        /\ \/ /\ lead # Nobody
              /\ ask' = [ask EXCEPT ![a] = [asked EXCEPT !.pc = "follow", !.on = lead]]
              /\ UNCHANGED stickyPending
           \/ /\ lead = Nobody
              /\ \E s \in bound : ask' = [ask EXCEPT ![a] = [asked EXCEPT !.pc = "done", !.got = s]]
              /\ UNCHANGED stickyPending
           \/ /\ lead = Nobody /\ bound = {}
              /\ ask' = [ask EXCEPT ![a] = [asked EXCEPT !.pc = "probe"]]
              /\ stickyPending' = IF k = NoKey THEN stickyPending
                                  ELSE [stickyPending EXCEPT ![p][k] = a]
        /\ UNCHANGED <<clock, sticky, starting, serverStarts, child, serving>>

-----------------------------------------------------------------------------
\* ensureServer.  A probe that succeeds ends it.
Reachable(a) ==
    /\ ask[a].pc \in {"probe", "probe2", "probe3"}
    /\ serving # Nobody
    /\ At(a, "mint")
    /\ UNCHANGED <<clock, sticky, stickyPending, starting, serverStarts, child, serving>>

\* One that fails leads to the start of the origin, then to that of the pool,
\* each of which is awaited once and not looked at again.
JoinStart(a) ==
    LET own == starting[Home[a]]
    IN  /\ \/ /\ ask[a].pc = "probe" /\ serverStarts # Nobody
              /\ ask' = [ask EXCEPT ![a].pc = "wait1", ![a].on = serverStarts]
           \/ /\ \/ ask[a].pc = "probe" /\ serverStarts = Nobody
                 \/ ask[a].pc = "probe2"
              /\ own # Nobody
              /\ ask' = [ask EXCEPT ![a].pc = "wait2", ![a].on = own]
        /\ UNCHANGED <<clock, sticky, stickyPending, starting, serverStarts, child, serving>>

MustStart(a) ==
    \/ ask[a].pc = "probe" /\ serverStarts = Nobody /\ starting[Home[a]] = Nobody
    \/ ask[a].pc = "probe2" /\ starting[Home[a]] = Nobody
    \/ ask[a].pc = "probe3"

\* The start of a pool whose child runs is over at once: it waits for nothing
\* and its end clears both marks, whoever had set them.
StartOver(a) ==
    LET p == Home[a]
    IN  /\ MustStart(a) /\ p \in child
        /\ starting' = [starting EXCEPT ![p] = Nobody]
        /\ serverStarts' = Nobody
        /\ At(a, "mint")
        /\ UNCHANGED <<clock, sticky, stickyPending, child, serving>>

Spawn(a) ==
    LET p == Home[a]
    IN  /\ MustStart(a) /\ p \notin child
        /\ starting' = [starting EXCEPT ![p] = a]
        /\ serverStarts' = a
        /\ child' = child \cup {p}
        /\ At(a, "boot")
        /\ UNCHANGED <<clock, sticky, stickyPending, serving>>

\* Slip: a failed start stays in the map.
StartEndsMarked(a, ok) ==
    /\ ask[a].pc = "boot"
    /\ ok => serving # Nobody
    /\ At(a, IF ok THEN "mint" ELSE "failed")
    /\ UNCHANGED <<clock, sticky, stickyPending, starting, serverStarts, child, serving>>

\* The end of a start: waitForServer saw the server or gave up.
StartEnds(a, ok) ==
    LET waits(b)  == ask[b].pc \in {"wait1", "wait2"} /\ ask[b].on = a
        lost(b)   == ~ok /\ (b = a \/ waits(b))
        failed(b) == lost(b) \/ \E l \in Askers : lost(l) /\ b \in Followers(l)
        next(b)   == IF failed(b) THEN "failed"
                     ELSE IF b = a THEN "mint"
                     ELSE IF ~waits(b) THEN ask[b].pc
                     ELSE IF ask[b].pc = "wait1" THEN "probe2" ELSE "probe3"
    IN  /\ ask[a].pc = "boot"
        /\ ok => serving # Nobody
        /\ ask' = [b \in Askers |-> [ask[b] EXCEPT !.pc = next(b),
                         !.on = IF failed(b) \/ waits(b) THEN Nobody ELSE @]]
        /\ starting' = [starting EXCEPT ![Home[a]] = Nobody]
        /\ serverStarts' = Nobody
        /\ stickyPending' = [p \in Pools |-> [k \in Keys |->
                LET l == stickyPending[p][k] IN IF l # Nobody /\ failed(l) THEN Nobody ELSE l]]
        /\ UNCHANGED <<clock, sticky, child, serving>>

-----------------------------------------------------------------------------
\* mint and setAffinity: the POST creates a session, or fails.  (The bound of
\* 2048 keys is left out.)
Mint(a) ==
    LET p == Home[a]
        k == ask[a].key
    IN  /\ ask[a].pc = "mint" /\ serving # Nobody
        /\ ask' = [Answered(ask, a, a) EXCEPT ![a].minted = clock]
        /\ sticky' = IF k = NoKey THEN sticky
                     ELSE [sticky EXCEPT ![p] = {e \in @ : e[1] # k} \cup {<<k, a>>}]
        /\ stickyPending' = Settled(stickyPending, a)
        /\ UNCHANGED <<clock, starting, serverStarts, child, serving>>

MintFails(a) ==
    /\ ask[a].pc = "mint"
    /\ ask' = Answered(ask, a, Nobody)
    /\ stickyPending' = Settled(stickyPending, a)
    /\ UNCHANGED <<clock, sticky, starting, serverStarts, child, serving>>

\* The child process, and time.
Listen(p) ==
    /\ p \in child /\ serving = Nobody
    /\ serving' = p
    /\ UNCHANGED <<clock, ask, sticky, stickyPending, starting, serverStarts, child>>

ChildExits(p) ==
    /\ p \in child
    /\ child' = child \ {p}
    /\ serving' = IF serving = p THEN Nobody ELSE serving
    /\ UNCHANGED <<clock, ask, sticky, stickyPending, starting, serverStarts>>

ZenTick ==
    /\ clock < ZenHorizon
    /\ clock' = clock + 1
    /\ UNCHANGED <<ask, sticky, stickyPending, starting, serverStarts, child, serving>>

Step(a) ==
    \/ Reachable(a) \/ JoinStart(a) \/ StartOver(a) \/ Spawn(a)
    \/ \E ok \in BOOLEAN : StartEnds(a, ok)
    \/ Mint(a) \/ MintFails(a)

ZenNext ==
    \/ \E a \in Askers : Step(a) \/ \E k \in Keys \cup {NoKey} : SessionId(a, k)
    \/ \E p \in Pools : Listen(p) \/ ChildExits(p)
    \/ ZenTick

\* Every await of a call has a timeout, so that the calls go on by themselves.
\* (No call takes infinitely many steps.)
ZenFairness == WF_zenVars(\E a \in Askers : Step(a))

ZenSpec == ZenInit /\ [][ZenNext]_zenVars /\ ZenFairness

-----------------------------------------------------------------------------
\* Two sessions are minted for one key of a pool only when the first has
\* outlived its ttl: whatever requests for the key come
\* together, they share one session (stickyPending, sticky).
OneSessionPerKey ==
    \A a, b \in Askers :
        /\ a # b /\ ask[a].got = a /\ ask[b].got = b
        /\ Home[a] = Home[b] /\ ask[a].key = ask[b].key /\ ask[a].key # NoKey
        => \/ ask[a].minted - ask[b].minted > Ttl
           \/ ask[b].minted - ask[a].minted > Ttl

\* Every request for a session is answered, with a session or an error, even
\* when serve never comes up and when starts of several pools interfere.
\* (Each asks once, so that they all have ended when none is under way.)
EveryAskEnds == <>[](\A a \in Askers : ask[a].pc \in {"idle", "done", "failed"})
=============================================================================
