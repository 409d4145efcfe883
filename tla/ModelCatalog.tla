---------------------------- MODULE ModelCatalog ----------------------------
(***************************************************************************)
(* The registry of models (tgw-proxy.mjs) and the discovery of free Zen    *)
(* models (opencode-free-models.mjs): a refresh clears the registry, puts  *)
(* the configured models back, asks every provider at once, prunes what a  *)
(* provider no longer lists, and registers the profiles anew.  A timer     *)
(* refreshes the Zen models by itself and shares its flight with the       *)
(* refresh of the whole.                                                   *)
(*                                                                         *)
(* External: what a provider lists, and whether it answers.  Ages are      *)
(* abstracted to whether a cached discovery still holds and whether its    *)
(* snapshot is still trusted.                                              *)
(***************************************************************************)
EXTENDS FiniteSets

CONSTANTS
    Models,         \* keys of the registry
    Sources,        \* providers a refresh asks
    Configured,     \* key of a configured model |-> its provider
    Profiles,       \* keys of profiles and roles
    Offers,          \* provider |-> keys it may list
    NoProvider

ASSUME CatalogAssumption ==
    /\ {"zen", "cline", "antigravity", "own"} \subseteq Sources /\ "codex" \notin Sources
    /\ DOMAIN Configured \cup Profiles \subseteq Models /\ DOMAIN Configured \cap Profiles = {}
    /\ \A k \in DOMAIN Configured : Configured[k] \in Sources \cup {"codex"}
    /\ Offers \in [Sources -> SUBSET Models]
    /\ \A s \in Sources : NoProvider # s
    /\ NoProvider # "codex"

VARIABLES
    registry,   \* key |-> the provider it is registered for, and whether by the configuration
    asked,      \* provider |-> how far the refresh is with it, and the keys it registered
    zenFlight,  \* a discovery of Zen models is under way
    cached,     \* outcome of the last discovery, while it is reused
    snapshot,   \* the Zen models the last discovery found free
    trusted     \* the snapshot is young enough

catalogVars == <<registry, asked, zenFlight, cached, snapshot, trusted>>

Absent == [by |-> NoProvider, config |-> FALSE]
NotAsked == [at |-> "idle", ids |-> {}]

CatalogTypeOK ==
    /\ registry \in [Models -> [by : Sources \cup {"codex", NoProvider}, config : BOOLEAN]]
    /\ asked \in [Sources -> [at : {"idle", "asked", "listed", "failed"}, ids : SUBSET Models]]
    /\ zenFlight \in BOOLEAN /\ trusted \in BOOLEAN
    /\ cached \in {"none", "listed", "failed"}
    /\ snapshot \in SUBSET Models

\* registerModel: nothing takes a key from Codex.
Registered(reg, keys, p) ==
    [k \in Models |-> IF k \in keys /\ (reg[k].by # "codex" \/ p = "codex")
                      THEN [by |-> p, config |-> FALSE] ELSE reg[k]]

\* registerRoutingProfiles.
WithProfiles(reg) == Registered(reg, Profiles, "own")

\* seedConfiguredModels: everything else is gone until it is discovered again.
Seeded ==
    WithProfiles([k \in Models |-> IF k \in DOMAIN Configured
                                   THEN [by |-> Configured[k], config |-> TRUE] ELSE Absent])

\* Slip: configured models are pruned like discovered ones.
PrunedAll(reg, p, keep) == [k \in Models |-> IF reg[k].by = p /\ k \notin keep THEN Absent ELSE reg[k]]

\* pruneStaleDiscovered: configured models stay, except those of Cline and Zen.
Pruned(reg, p, keep) ==
    [k \in Models |->
        IF reg[k].by = p /\ (~reg[k].config \/ p \in {"cline", "zen"}) /\ k \notin keep
        THEN Absent ELSE reg[k]]

Refreshing == \E s \in Sources : asked[s].at # "idle"

CatalogInit ==
    /\ registry = Seeded
    /\ asked = [s \in Sources |-> NotAsked]
    /\ zenFlight = FALSE /\ cached = "none" /\ snapshot = {} /\ trusted = FALSE

-----------------------------------------------------------------------------
\* refreshModelRegistry; a second caller waits for the refresh under way.
StartRefresh ==
    /\ ~Refreshing
    /\ registry' = Seeded
    /\ asked' = [s \in Sources |-> [at |-> "asked", ids |-> {}]]
    /\ zenFlight' = TRUE
    /\ UNCHANGED <<cached, snapshot, trusted>>

\* A provider's endpoint answers: every model it lists is registered, even in
\* the place of a configured one.
EndpointLists(s) ==
    /\ s # "zen" /\ asked[s].at = "asked"
    /\ \E ids \in SUBSET Offers[s] :
           /\ registry' = Registered(registry, ids, s)
           /\ asked' = [asked EXCEPT ![s] = [at |-> "listed", ids |-> ids]]
    /\ UNCHANGED <<zenFlight, cached, snapshot, trusted>>

\* It fails; registerAntigravityModels makes an empty list of that.
EndpointFails(s) ==
    /\ s # "zen" /\ asked[s].at = "asked"
    /\ asked' = [asked EXCEPT ![s] = [at |-> IF s = "antigravity" THEN "listed" ELSE "failed", ids |-> {}]]
    /\ UNCHANGED <<registry, zenFlight, cached, snapshot, trusted>>

\* The timer's refresh of the Zen models.
TimerRefresh ==
    /\ ~zenFlight
    /\ zenFlight' = TRUE
    /\ UNCHANGED <<registry, asked, cached, snapshot, trusted>>

ZenSettled(at, ids) ==
    /\ zenFlight /\ zenFlight' = FALSE
    /\ asked' = [asked EXCEPT !["zen"] = IF @.at = "asked" THEN [at |-> at, ids |-> ids] ELSE @]

\* discoverOpenCodeFreeModels finds the models that cost nothing, or has found
\* them less than a minute ago.
ZenLists ==
    /\ \E ids \in SUBSET Offers["zen"] :
           /\ cached = "listed" => ids = snapshot
           /\ ZenSettled("listed", ids)
           /\ registry' = Pruned(Registered(registry, ids, "zen"), "zen", ids)
           /\ snapshot' = ids
    /\ cached # "failed" /\ cached' = "listed"
    /\ trusted' = (trusted \/ cached = "none")

\* Slip: a failed discovery leaves the registry alone.
ZenFailsQuietly ==
    /\ ZenSettled("failed", {})
    /\ cached # "listed" /\ cached' = "failed"
    /\ snapshot' = {} /\ trusted' = TRUE
    /\ UNCHANGED registry

\* It fails, or has failed less than ten seconds ago: no Zen model is free.
ZenFails ==
    /\ ZenSettled("failed", {})
    /\ cached # "listed" /\ cached' = "failed"
    /\ snapshot' = {} /\ trusted' = TRUE
    /\ registry' = Pruned(registry, "zen", {})

\* The cached outcome is too old to be reused, and then the snapshot to be
\* trusted.
CacheExpires ==
    /\ cached # "none" /\ cached' = "none"
    /\ UNCHANGED <<registry, asked, zenFlight, snapshot, trusted>>

SnapshotExpires ==
    /\ cached = "none" /\ trusted /\ trusted' = FALSE
    /\ UNCHANGED <<registry, asked, zenFlight, cached, snapshot>>

\* All have settled: every provider that answered is pruned, by what it listed
\* when it answered.
PrunedBy(a) ==
    [k \in Models |->
        IF \E s \in Sources : a[s].at = "listed" /\ Pruned(registry, s, a[s].ids)[k] = Absent
        THEN Absent ELSE registry[k]]

FinishRefresh ==
    /\ Refreshing /\ \A s \in Sources : asked[s].at # "asked"
    /\ registry' = WithProfiles(PrunedBy(asked))
    /\ asked' = [s \in Sources |-> NotAsked]
    /\ UNCHANGED <<zenFlight, cached, snapshot, trusted>>

CatalogNext ==
    \/ StartRefresh \/ TimerRefresh \/ ZenLists \/ ZenFails \/ CacheExpires \/ SnapshotExpires \/ FinishRefresh
    \/ \E s \in Sources : EndpointLists(s) \/ EndpointFails(s)

CatalogSpec == CatalogInit /\ [][CatalogNext]_catalogVars

-----------------------------------------------------------------------------
\* getAvailableModels: a Zen model is listed while it is known to be free.
Listed ==
    {k \in Models : /\ registry[k].by # NoProvider
                    /\ registry[k].by = "zen" => trusted /\ k \in snapshot}

\* At every moment of a refresh, whatever the providers list or fail to list,
\* the configured models and the profiles are there to be called (Zen and
\* Cline models only while they are discovered), and those of Codex are Codex's.
BaseStays ==
    /\ \A k \in DOMAIN Configured :
           /\ Configured[k] \notin {"zen", "cline"} => k \in Listed
           /\ Configured[k] = "codex" => registry[k].by = "codex"
    /\ Profiles \subseteq Listed

\* While no discovery is under way, also in the middle of a refresh, the
\* registry holds no Zen model that the gate would refuse: a discovery that
\* fails, or that a refresh shares with the timer, leaves neither a configured
\* nor an earlier one behind.
GateMatchesRegistry ==
    (~zenFlight /\ cached # "none") => \A k \in Models : registry[k].by = "zen" => k \in snapshot
=============================================================================
