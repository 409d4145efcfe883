----------------------------- MODULE ConsoleProofs -----------------------------
(***************************************************************************)
(* Proofs about what the dashboard shows and sets, for any aliases,        *)
(* targets, limits, models and providers: a confirmed preference survives  *)
(* a restart, no percentage is shown past its limit, and the configured    *)
(* models stay in the registry throughout a refresh.                       *)
(***************************************************************************)
EXTENDS Preferences, QuotaCache, ModelCatalog, TLAPS

--------------------------------------------------------------------------------
(* The preferences                                                         *)

\* What a restart makes of the two files.
Files(a) == IF sidecar[a] = NoTarget THEN routes[a] ELSE sidecar[a]

\* The live override of a confirmed alias is the one in the sidecar, or was
\* baked away while the sidecar kept it; in the middle of a bake the routes
\* hold every live override.
PrefInv ==
  /\ overrides \in [Aliases -> Targets \cup {NoTarget}] /\ sidecar \in [Aliases -> Targets \cup {NoTarget}]
  /\ \A a \in Aliases : promised[a] # NoTarget =>
       /\ promised[a] = Files(a)
       /\ overrides[a] # sidecar[a] => overrides[a] = NoTarget /\ routes[a] = sidecar[a]
  /\ baking => \A a \in Aliases : overrides[a] # NoTarget => routes[a] = overrides[a]

LEMMA PersistStep ==
  ASSUME PrefInv, NEW o \in [Aliases -> Targets \cup {NoTarget}], NEW changed \in SUBSET Aliases,
         \A a \in Aliases \ changed : o[a] = overrides[a], Persisted(o, changed)
  PROVE  PrefInv'
<1>1. overrides' = o /\ routes' = routes /\ ~baking /\ ~baking'
  BY DEF Persisted
<1>2. CASE /\ sidecar' = o
           /\ promised' = [a \in Aliases |-> IF a \notin changed THEN promised[a]
                                             ELSE IF o[a] = NoTarget THEN routes[a] ELSE o[a]]
  BY <1>1, <1>2 DEF PrefInv, Files
<1>3. CASE sidecar' = sidecar /\ promised' = [a \in Aliases |-> IF a \in changed THEN NoTarget ELSE promised[a]]
  BY <1>1, <1>3 DEF PrefInv, Files
<1> QED  BY <1>2, <1>3 DEF Persisted

LEMMA PrefStep == PrefInv /\ [PrefNext]_prefVars => PrefInv'
<1> SUFFICES ASSUME PrefInv, [PrefNext]_prefVars
             PROVE  PrefInv'
  OBVIOUS
<1>1. ASSUME NEW a \in Aliases, NEW t \in Targets \cup {NoTarget}, Persisted([overrides EXCEPT ![a] = t], {a})
      PROVE  PrefInv'
  <2> DEFINE o == [overrides EXCEPT ![a] = t]
  <2>1. /\ o \in [Aliases -> Targets \cup {NoTarget}] /\ {a} \in SUBSET Aliases
        /\ \A b \in Aliases \ {a} : o[b] = overrides[b]
    BY DEF PrefInv
  <2>2. Persisted(o, {a})
    BY <1>1
  <2> HIDE DEF o
  <2> QED  BY <2>1, <2>2, PersistStep
<1>2. CASE Reset
  <2>1. /\ None \in [Aliases -> Targets \cup {NoTarget}] /\ Aliases \in SUBSET Aliases
        /\ \A b \in Aliases \ Aliases : None[b] = overrides[b]
    BY DEF None
  <2>2. Persisted(None, Aliases)
    BY <1>2 DEF Reset
  <2> QED  BY <2>1, <2>2, PersistStep
<1>3. CASE BakeRoutes
  BY <1>3 DEF BakeRoutes, Baked, PrefInv, Files
<1>4. CASE BakeDone
  <2>1. /\ baking /\ ~baking' /\ overrides' = None /\ routes' = routes
        /\ \/ sidecar' = None
              /\ promised' = [a \in Aliases |-> IF overrides[a] = NoTarget THEN promised[a] ELSE overrides[a]]
           \/ UNCHANGED <<sidecar, promised>>
    BY <1>4 DEF BakeDone
  <2>2. None \in [Aliases -> Targets \cup {NoTarget}] /\ \A a \in Aliases : None[a] = NoTarget
    BY DEF None
  <2> QED  BY <2>1, <2>2 DEF PrefInv, Files
<1>5. CASE Restart
  <2>1. /\ overrides' = sidecar /\ UNCHANGED <<sidecar, routes, promised>> /\ ~baking'
    BY <1>5 DEF Restart
  <2> QED  BY <2>1 DEF PrefInv, Files
<1>6. CASE UNCHANGED prefVars
  BY <1>6 DEF prefVars, PrefInv, Files
<1> QED  BY <1>1, <1>2, <1>3, <1>4, <1>5, <1>6 DEF PrefNext, SetOverride, Clear
\* Whatever was confirmed to the operator is what the two files say, so that a
\* restart at any moment, in the middle of a bake too, brings it back
\* (bakeToRoutes writes the routes first).
THEOREM ConfirmationsSurvive == PrefSpec => []ConfirmedSurvives
<1>1. PrefInit => PrefInv
  BY PreferencesAssumption DEF PrefInit, PrefInv, Files, None
<1>2. PrefInv => ConfirmedSurvives
  BY DEF PrefInv, Files, ConfirmedSurvives
<1> QED  BY <1>1, <1>2, PrefStep, PTL DEF PrefSpec

--------------------------------------------------------------------------------
(* The cache of quota probes                                               *)

\* A percentage is at most a limit older than the result it came with, and for
\* Codex as old; a partly fresh result is as old as the failure beside it.
QuotaInv ==
  /\ at \in Ages /\ percent \in Ages /\ failedAge \in Ages /\ shown \in Ages
  /\ percent # NoAge => at # NoAge /\ percent <= at + StaleLimit
  /\ who = "codex" => ~primary /\ percent \in {NoAge, at}
  /\ primary => at = failedAge \/ percent = NoAge
  /\ PercentagesAreRecent

LEMMA StaleIsRecent ==
  ASSUME QuotaInv
  PROVE  AsStale \in Ages /\ (Cached /\ AsStale # NoAge => AsStale = percent /\ percent \in Nat /\ at <= StaleLimit)
BY QuotaAssumption DEF QuotaInv, AsStale, Cached, Ages

LEMMA QuotaStep == QuotaInv /\ [QuotaNext]_quotaVars => QuotaInv'
<1> SUFFICES ASSUME QuotaInv, [QuotaNext]_quotaVars
             PROVE  QuotaInv'
  OBVIOUS
<1> USE QuotaAssumption
<1> USE DEF QuotaInv, PercentagesAreRecent, Ages
<1>1. CASE FreshHit
  <2>1. /\ at # NoAge /\ at < FreshFor /\ shown' = percent /\ ~shownDue'
        /\ UNCHANGED <<who, at, percent, failedAge, primary>>
    BY <1>1 DEF FreshHit, Within, WindowReset, Show
  <2> QED  BY <2>1
<1>2. CASE BackedOff
  <2>1. failedAge # NoAge /\ failedAge < FreshFor /\ who' = who
    BY <1>2 DEF BackedOff, Within
  <2>2. CASE Cached /\ primary
    <3> DEFINE p == IF due THEN NoAge ELSE percent
    <3>1. p \in {percent, NoAge}
      OBVIOUS
    <3> HIDE DEF p
    <3>2. /\ at' = at /\ percent' = p /\ failedAge' = failedAge /\ shown' = p /\ ~shownDue' /\ (primary' <=> primary)
      BY <1>2, <2>2 DEF BackedOff, Show, Hold, p
    <3> QED  BY <2>1, <2>2, <3>1, <3>2
  <2>3. CASE ~(Cached /\ primary)
    <3> DEFINE p == IF Cached THEN AsStale ELSE NoAge
    <3>1. p \in Ages /\ (p # NoAge => p = percent /\ p \in Nat /\ at <= StaleLimit)
      BY StaleIsRecent
    <3> HIDE DEF p
    <3>2. UNCHANGED <<at, percent, failedAge>> /\ (primary' <=> primary) /\ shown' = p /\ ~shownDue'
      BY <1>2, <2>3 DEF BackedOff, Show, p
    <3> QED  BY <2>1, <3>1, <3>2
  <2> QED  BY <2>2, <2>3
<1>3. CASE Probe
  BY <1>3 DEF Probe
<1>4. CASE Succeeds
  <2>1. PICK p \in {0, NoAge} : Hold(0, p, FALSE, NoAge, FALSE) /\ Show(p, FALSE)
    BY <1>4 DEF Succeeds
  <2>2. /\ at' = 0 /\ percent' = p /\ failedAge' = NoAge /\ ~primary'
        /\ shown' = p /\ ~shownDue' /\ who' = who
    BY <1>4, <2>1 DEF Succeeds, Settles, Hold, Show
  <2> QED  BY <2>2
<1>5. CASE CredentialsFail
  <2>1. /\ who = "mistral" /\ who' = who /\ at' \in {0, at} /\ percent' = NoAge /\ failedAge' = 0
        /\ shown' = NoAge /\ ~shownDue'
    BY <1>5 DEF CredentialsFail, Settles, Show, Hold
  <2> QED  BY <2>1
<1>6. CASE MistralFalters
  <2>1. who = "mistral" /\ who' = who
    BY <1>6 DEF MistralFalters, Settles
  <2>2. CASE Hold(0, IF Cached THEN Retained ELSE NoAge, FALSE, 0, TRUE) /\ Show(IF Cached THEN Retained ELSE NoAge, FALSE)
    <3> DEFINE p == IF Cached THEN Retained ELSE NoAge
    <3>1. p \in Ages /\ (p # NoAge => p <= StaleLimit /\ p \in Nat)
      BY DEF Cached, Retained
    <3> HIDE DEF p
    <3>2. /\ at' = 0 /\ percent' = p /\ failedAge' = 0 /\ primary'
          /\ shown' = p /\ ~shownDue'
      BY <2>2 DEF Hold, Show, p
    <3> QED  BY <2>1, <3>1, <3>2
  <2>3. CASE Cached /\ Hold(at, AsStale, FALSE, 0, FALSE) /\ Show(AsStale, FALSE)
    <3>1. /\ at' = at /\ percent' = AsStale /\ failedAge' = 0 /\ ~primary'
          /\ shown' = AsStale /\ ~shownDue'
      BY <2>3 DEF Hold, Show
    <3> QED  BY <2>1, <2>3, <3>1, StaleIsRecent
  <2>4. CASE ~Cached /\ Hold(0, NoAge, FALSE, 0, TRUE) /\ Show(NoAge, FALSE)
    <3>1. at' = 0 /\ percent' = NoAge /\ failedAge' = 0 /\ shown' = NoAge /\ ~shownDue'
      BY <2>4 DEF Hold, Show
    <3> QED  BY <2>1, <3>1
  <2> QED  BY <1>6, <2>2, <2>3, <2>4 DEF MistralFalters
<1>7. CASE CodexFalters
  <2> DEFINE p == IF Cached THEN AsStale ELSE NoAge
  <2>1. p \in Ages /\ (p # NoAge => p = percent /\ p \in Nat /\ at <= StaleLimit)
    BY StaleIsRecent
  <2> HIDE DEF p
  <2>2. /\ at' = at /\ percent' = percent /\ failedAge' = 0 /\ ~primary'
        /\ shown' = p /\ ~shownDue' /\ who' = who /\ who = "codex"
    BY <1>7 DEF CodexFalters, Settles, Hold, Show, p
  <2> QED  BY <2>1, <2>2
<1>8. CASE WindowResets
  BY <1>8 DEF WindowResets
<1>9. CASE Time
  <2>1. /\ at' = Older(at) /\ percent' = Older(percent) /\ failedAge' = Older(failedAge)
        /\ shown' = NoAge /\ ~shownDue' /\ UNCHANGED <<who, due, primary>>
    BY <1>9 DEF Time
  <2>2. \A a \in Ages : Older(a) \in Ages /\ (Older(a) = NoAge <=> a = NoAge)
    BY DEF Older
  <2>3. percent # NoAge => Older(percent) <= Older(at) + StaleLimit
    BY DEF Older
  <2> QED  BY <2>1, <2>2, <2>3
<1>10. CASE UNCHANGED quotaVars
  BY <1>10 DEF quotaVars
<1> QED  BY <1>1, <1>2, <1>3, <1>4, <1>5, <1>6, <1>7, <1>8, <1>9, <1>10 DEF QuotaNext

\* No percentage of a window that was reset is handed out, and none older than
\* the limit, or twice the limit when Mistral kept it beside fresh figures (get,
\* retainRecentSignals, ageAsStale).
THEOREM PercentagesStayRecent == QuotaSpec => []PercentagesAreRecent
<1>1. QuotaInit => QuotaInv
  BY QuotaAssumption DEF QuotaInit, QuotaInv, PercentagesAreRecent, Ages
<1>2. QuotaInv => PercentagesAreRecent
  BY DEF QuotaInv
<1> QED  BY <1>1, <1>2, QuotaStep, PTL DEF QuotaSpec

--------------------------------------------------------------------------------
(* The catalog of models                                                   *)

\* The Zen discovery lists no key that the configuration gives to another
\* provider, nor a profile; Cline's own models may come and go.
ApartFromZen ==
  /\ Profiles \cap Offers["zen"] = {}
  /\ \A k \in DOMAIN Configured : Configured[k] \notin {"zen", "cline"} => k \notin Offers["zen"]

Kept == {k \in DOMAIN Configured : Configured[k] \notin {"zen", "cline"}}

\* A configured model is its own provider's, or has been taken over by a
\* provider that listed it in this refresh, so that its end spares it.
BaseInv ==
  /\ asked \in [Sources -> [at : {"idle", "asked", "listed", "failed"}, ids : SUBSET Models]]
  /\ \A k \in Kept :
       \/ registry[k].config /\ registry[k].by = Configured[k]
       \/ /\ Configured[k] # "codex" /\ registry[k].by \in Sources \ {"zen"}
          /\ \/ asked[registry[k].by].at = "idle"
             \/ asked[registry[k].by].at = "listed" /\ k \in asked[registry[k].by].ids
  /\ \A k \in Profiles : registry[k].by \in Sources \ {"zen"}

\* A discovery registers what it lists for its provider, and takes nothing from
\* Codex.
LEMMA ListingKeepsBase ==
  ASSUME ApartFromZen, BaseInv, NEW s \in Sources \ {"zen"}, EndpointLists(s)
  PROVE  BaseInv'
<1>1. /\ asked[s].at = "asked" /\ asked \in [Sources -> [at : {"idle", "asked", "listed", "failed"}, ids : SUBSET Models]]
      /\ Kept \cup Profiles \subseteq Models
  BY CatalogAssumption DEF EndpointLists, BaseInv, Kept
<1>2. PICK ids \in SUBSET Offers[s] : /\ registry' = Registered(registry, ids, s)
                                      /\ asked' = [asked EXCEPT ![s] = [at |-> "listed", ids |-> ids]]
  BY DEF EndpointLists
<1>3. ids \in SUBSET Models /\ s # "codex"
  BY CatalogAssumption
<1>4. asked' \in [Sources -> [at : {"idle", "asked", "listed", "failed"}, ids : SUBSET Models]]
  BY <1>1, <1>2, <1>3
<1>5. \A k \in Models : registry'[k] = IF k \in ids /\ registry[k].by # "codex"
                                       THEN [by |-> s, config |-> FALSE] ELSE registry[k]
  BY <1>2, <1>3 DEF Registered
<1>6. \A t \in Sources : asked'[t] = IF t = s THEN [at |-> "listed", ids |-> ids] ELSE asked[t]
  BY <1>1, <1>2
<1>7. ASSUME NEW k \in Kept
      PROVE  \/ registry'[k].config /\ registry'[k].by = Configured[k]
             \/ /\ Configured[k] # "codex" /\ registry'[k].by \in Sources \ {"zen"}
                /\ \/ asked'[registry'[k].by].at = "idle"
                   \/ asked'[registry'[k].by].at = "listed" /\ k \in asked'[registry'[k].by].ids
  <2>1. k \in Models
    BY <1>1
  <2>2. CASE registry'[k] = registry[k]
    BY <1>1, <1>6, <2>2 DEF BaseInv
  <2>3. CASE registry'[k] # registry[k]
    <3>1. k \in ids /\ registry[k].by # "codex" /\ registry'[k] = [by |-> s, config |-> FALSE]
      BY <1>5, <2>1, <2>3
    <3>2. Configured[k] # "codex"
      BY <3>1 DEF BaseInv
    <3> QED  BY <1>6, <3>1, <3>2
  <2> QED  BY <2>2, <2>3
<1>8. \A k \in Profiles : registry'[k].by \in Sources \ {"zen"}
  BY <1>1, <1>5 DEF BaseInv
<1> QED  BY <1>4, <1>7, <1>8 DEF BaseInv
\* What a provider no longer lists goes, except what the configuration names.
LEMMA FinishKeepsBase ==
  ASSUME BaseInv, FinishRefresh
  PROVE  BaseInv'
<1>1. Kept \cup Profiles \subseteq Models /\ Kept \cap Profiles = {}
  BY CatalogAssumption DEF Kept
<1>2. /\ registry' = WithProfiles(PrunedBy(asked))
      /\ asked' = [s \in Sources |-> NotAsked]
  BY DEF FinishRefresh
<1>3. /\ asked' \in [Sources -> [at : {"idle", "asked", "listed", "failed"}, ids : SUBSET Models]]
      /\ \A s \in Sources : asked'[s].at = "idle"
  BY <1>2 DEF NotAsked
<1>4. ASSUME NEW k \in Kept
      PROVE  registry'[k] = registry[k]
  <2>1. k \in Models /\ k \notin Profiles
    BY <1>1
  <2>2. registry'[k] = PrunedBy(asked)[k]
    BY <1>2, <2>1 DEF WithProfiles, Registered
  <2>3. registry[k].by \in Sources \cup {"codex"} /\ registry[k].by # "zen" /\ NoProvider \notin Sources \cup {"codex"}
    BY CatalogAssumption DEF BaseInv, Kept
  <2>4. registry[k] # Absent
    BY <2>3 DEF Absent
  <2>5. ASSUME NEW s \in Sources, asked[s].at = "listed", Pruned(registry, s, asked[s].ids)[k] = Absent
        PROVE  FALSE
    <3>1. registry[k].by = s /\ (~registry[k].config \/ s \in {"cline", "zen"}) /\ k \notin asked[s].ids
      BY <2>1, <2>4, <2>5 DEF Pruned
    <3>2. CASE registry[k].config /\ registry[k].by = Configured[k]
      BY <3>1, <3>2 DEF Kept
    <3>3. CASE ~(registry[k].config /\ registry[k].by = Configured[k])
      BY <2>5, <3>1, <3>3 DEF BaseInv
    <3> QED  BY <3>2, <3>3
  <2>6. PrunedBy(asked)[k] = registry[k]
    BY <2>1, <2>5 DEF PrunedBy
  <2> QED  BY <2>2, <2>6
<1>5. ASSUME NEW k \in Profiles
      PROVE  registry'[k].by \in Sources \ {"zen"}
  <2>1. k \in Models /\ registry[k].by \in Sources
    BY <1>1 DEF BaseInv
  <2>2. PrunedBy(asked)[k] \in {Absent, registry[k]}
    BY <2>1 DEF PrunedBy
  <2>3. PrunedBy(asked)[k].by # "codex"
    BY <2>1, <2>2, CatalogAssumption DEF Absent
  <2>4. registry'[k].by = "own"
    BY <1>2, <2>1, <2>3 DEF WithProfiles, Registered
  <2> QED  BY <2>4, CatalogAssumption
<1>6. \A k \in Kept : registry'[k] = registry[k] /\ (Configured[k] # "codex" \/ registry[k].config)
  BY <1>4 DEF BaseInv
<1> QED  BY <1>3, <1>5, <1>6 DEF BaseInv

\* The Zen discovery, on its own or within a refresh, touches Zen models only.
LEMMA ZenKeepsBase ==
  ASSUME ApartFromZen, BaseInv, ZenLists \/ ZenFails
  PROVE  BaseInv'
<1>1. Kept \cup Profiles \subseteq Models /\ "zen" \in Sources
  BY CatalogAssumption DEF Kept
<1>2. \E h \in {"listed", "failed"}, ids \in SUBSET Offers["zen"] :
        /\ ZenSettled(h, ids)
        /\ registry' = Pruned(Registered(registry, ids, "zen"), "zen", ids) \/ registry' = Pruned(registry, "zen", ids)
  BY DEF ZenLists, ZenFails
<1>3. PICK h \in {"listed", "failed"}, ids \in SUBSET Offers["zen"] :
        /\ ZenSettled(h, ids)
        /\ registry' = Pruned(Registered(registry, ids, "zen"), "zen", ids) \/ registry' = Pruned(registry, "zen", ids)
  BY <1>2
<1>4. /\ asked' \in [Sources -> [at : {"idle", "asked", "listed", "failed"}, ids : SUBSET Models]]
      /\ \A s \in Sources \ {"zen"} : asked'[s] = asked[s]
  <2>1. ids \in SUBSET Models
    BY <1>1, CatalogAssumption
  <2>2. [at |-> h, ids |-> ids] \in [at : {"idle", "asked", "listed", "failed"}, ids : SUBSET Models]
    BY <2>1
  <2>3. \E r \in [at : {"idle", "asked", "listed", "failed"}, ids : SUBSET Models] : asked' = [asked EXCEPT !["zen"] = r]
    BY <1>1, <1>3, <2>2 DEF ZenSettled, BaseInv
  <2> QED  BY <1>1, <2>3 DEF BaseInv
<1>5. \A k \in Kept \cup Profiles : registry[k].by # "zen" /\ k \notin Offers["zen"]
  BY DEF BaseInv, Kept, ApartFromZen
<1>6. \A k \in Kept \cup Profiles : registry'[k] = registry[k]
  BY <1>1, <1>3, <1>5 DEF Pruned, Registered
<1> QED  BY <1>4, <1>6 DEF BaseInv
\* A refresh puts the configured models and the profiles back before it asks.
LEMMA SeededShape ==
  /\ \A k \in Kept : Seeded[k].config /\ Seeded[k].by = Configured[k]
  /\ \A k \in Profiles : Seeded[k].by = "own" /\ "own" \in Sources
<1>1. Kept \cup Profiles \subseteq Models /\ Kept \cap Profiles = {} /\ Kept \subseteq DOMAIN Configured
      /\ DOMAIN Configured \cap Profiles = {} /\ NoProvider # "codex" /\ "own" \in Sources
  BY CatalogAssumption DEF Kept
<1>2. ASSUME NEW k \in Kept
      PROVE  Seeded[k].config /\ Seeded[k].by = Configured[k]
  <2>1. Seeded[k] = [by |-> Configured[k], config |-> TRUE]
    BY <1>1 DEF Seeded, WithProfiles, Registered
  <2>2. Seeded[k].config = TRUE /\ Seeded[k].by = Configured[k]
    BY <2>1
  <2> QED  BY Zenon, <2>2
<1>3. \A k \in Profiles : Seeded[k].by = "own"
  BY <1>1 DEF Seeded, WithProfiles, Registered, Absent
<1> QED  BY <1>1, <1>2, <1>3

LEMMA CatalogStep == ApartFromZen /\ BaseInv /\ [CatalogNext]_catalogVars => BaseInv'
<1> SUFFICES ASSUME ApartFromZen, BaseInv, [CatalogNext]_catalogVars
             PROVE  BaseInv'
  OBVIOUS
<1> DEFINE Asked == [at : {"idle", "asked", "listed", "failed"}, ids : SUBSET Models]
<1>1. CASE StartRefresh
  <2>1. registry' = Seeded /\ asked' = [s \in Sources |-> [at |-> "asked", ids |-> {}]]
    BY <1>1 DEF StartRefresh
  <2>2. [at |-> "asked", ids |-> {}] \in Asked
    OBVIOUS
  <2>3. asked' \in [Sources -> Asked]
    BY <2>1, <2>2
  <2>4. \A k \in Kept : registry'[k].config /\ registry'[k].by = Configured[k]
    BY Zenon, <2>1, SeededShape
  <2>5. \A k \in Profiles : registry'[k].by = "own" /\ "own" \in Sources
    BY Zenon, <2>1, SeededShape
  <2> QED  BY <2>3, <2>4, <2>5 DEF BaseInv
<1>2. ASSUME NEW s \in Sources, EndpointLists(s)
      PROVE  BaseInv'
  <2>1. s # "zen"
    BY <1>2 DEF EndpointLists
  <2> QED  BY <1>2, <2>1, ListingKeepsBase
<1>3. ASSUME NEW s \in Sources, EndpointFails(s)
      PROVE  BaseInv'
  <2> DEFINE r == [at |-> IF s = "antigravity" THEN "listed" ELSE "failed", ids |-> {}]
  <2>1. asked[s].at = "asked" /\ asked' = [asked EXCEPT ![s] = r] /\ registry' = registry
    BY <1>3 DEF EndpointFails
  <2>2. r \in Asked
    OBVIOUS
  <2> HIDE DEF r
  <2>3. asked' \in [Sources -> Asked] /\ \A t \in Sources : asked[t].at # "asked" => asked'[t] = asked[t]
    BY <2>1, <2>2 DEF BaseInv
  <2> QED  BY <2>1, <2>3 DEF BaseInv
<1>4. CASE ZenLists \/ ZenFails
  BY <1>4, ZenKeepsBase
<1>5. CASE FinishRefresh
  BY <1>5, FinishKeepsBase
<1>6. CASE TimerRefresh \/ CacheExpires \/ SnapshotExpires \/ UNCHANGED catalogVars
  BY <1>6 DEF TimerRefresh, CacheExpires, SnapshotExpires, catalogVars, BaseInv
<1> QED  BY <1>1, <1>2, <1>3, <1>4, <1>5, <1>6 DEF CatalogNext

\* At every moment of a refresh, whatever the providers list or fail to list,
\* the configured models and the profiles can be called (seedConfiguredModels,
\* pruneStaleDiscovered), as long as Zen lists none of their keys.
THEOREM BaseCanBeCalled == ApartFromZen /\ CatalogSpec => []BaseStays
<1> SUFFICES ASSUME ApartFromZen
             PROVE  CatalogSpec => []BaseStays
  OBVIOUS
<1>1. CatalogInit => BaseInv
  <2> SUFFICES ASSUME CatalogInit
               PROVE  BaseInv
    OBVIOUS
  <2>1. NotAsked \in [at : {"idle", "asked", "listed", "failed"}, ids : SUBSET Models]
    BY DEF NotAsked
  <2>2. asked \in [Sources -> [at : {"idle", "asked", "listed", "failed"}, ids : SUBSET Models]]
    BY <2>1 DEF CatalogInit
  <2>3. \A k \in Kept : registry[k].config /\ registry[k].by = Configured[k]
    BY Zenon, SeededShape DEF CatalogInit
  <2>4. \A k \in Profiles : registry[k].by = "own" /\ "own" \in Sources
    BY Zenon, SeededShape DEF CatalogInit
  <2> QED  BY <2>2, <2>3, <2>4 DEF BaseInv
<1>2. BaseInv => BaseStays
  <2> SUFFICES ASSUME BaseInv
               PROVE  BaseStays
    OBVIOUS
  <2>1. \A k \in DOMAIN Configured : Configured[k] = "codex" => k \in Kept
    BY DEF Kept
  <2>2. \A k \in Kept \cup Profiles : /\ k \in Models /\ registry[k].by # "zen"
                                      /\ registry[k].by \in Sources \cup {"codex"}
    BY CatalogAssumption DEF BaseInv, Kept
  <2>3. Kept \cup Profiles \subseteq Listed
    BY <2>2, CatalogAssumption DEF Listed
  <2>4. \A k \in Kept : Configured[k] = "codex" => registry[k].by = "codex"
    BY DEF BaseInv
  <2> QED  BY <2>1, <2>3, <2>4 DEF BaseStays, Kept
<1>3. BaseInv /\ [CatalogNext]_catalogVars => BaseInv'
  BY CatalogStep
<1> QED  BY <1>1, <1>2, <1>3, PTL DEF CatalogSpec

LEMMA GateStep == GateMatchesRegistry /\ [CatalogNext]_catalogVars => GateMatchesRegistry'
<1> SUFFICES ASSUME GateMatchesRegistry, [CatalogNext]_catalogVars
             PROVE  GateMatchesRegistry'
  OBVIOUS
<1>1. ASSUME NEW s \in Sources, EndpointLists(s)
      PROVE  GateMatchesRegistry'
  <2>1. PICK ids \in SUBSET Offers[s] : registry' = Registered(registry, ids, s)
    BY <1>1 DEF EndpointLists
  <2>2. s # "zen" /\ UNCHANGED <<zenFlight, cached, snapshot>>
    BY <1>1 DEF EndpointLists
  <2>3. \A k \in Models : registry'[k].by = "zen" => registry[k].by = "zen"
    BY <2>1, <2>2 DEF Registered
  <2> QED  BY <2>2, <2>3 DEF GateMatchesRegistry
<1>2. CASE FinishRefresh
  <2>1. UNCHANGED <<zenFlight, cached, snapshot>> /\ registry' = WithProfiles(PrunedBy(asked))
    BY <1>2 DEF FinishRefresh
  <2>2. \A k \in Models : PrunedBy(asked)[k] \in {Absent, registry[k]}
    BY DEF PrunedBy
  <2>3. \A k \in Models : registry'[k].by = "zen" => registry[k].by = "zen"
    BY <2>1, <2>2, CatalogAssumption DEF WithProfiles, Registered, Absent
  <2> QED  BY <2>1, <2>3 DEF GateMatchesRegistry
<1>3. CASE ZenLists
  <2>1. PICK ids \in SUBSET Offers["zen"] :
          registry' = Pruned(Registered(registry, ids, "zen"), "zen", ids) /\ snapshot' = ids
    BY <1>3 DEF ZenLists
  <2>2. \A k \in Models : registry'[k].by = "zen" => k \in ids
    BY <2>1, CatalogAssumption DEF Pruned, Absent
  <2> QED  BY <2>1, <2>2 DEF GateMatchesRegistry
<1>4. CASE ZenFails
  <2>1. registry' = Pruned(registry, "zen", {})
    BY <1>4 DEF ZenFails
  <2>2. \A k \in Models : registry'[k].by # "zen"
    BY <2>1, CatalogAssumption DEF Pruned, Absent
  <2> QED  BY <2>2 DEF GateMatchesRegistry
<1>5. CASE StartRefresh \/ TimerRefresh \/ CacheExpires \/ SnapshotExpires
  BY <1>5 DEF StartRefresh, TimerRefresh, CacheExpires, SnapshotExpires, GateMatchesRegistry
<1>6. CASE (\E s \in Sources : EndpointFails(s)) \/ UNCHANGED catalogVars
  BY <1>6 DEF EndpointFails, catalogVars, GateMatchesRegistry
<1> QED  BY <1>1, <1>2, <1>3, <1>4, <1>5, <1>6 DEF CatalogNext

\* While no discovery is under way the registry holds no Zen model that the gate
\* would refuse (registerOpenCodeFreeModels, pruneStaleDiscovered).
THEOREM RegistryMatchesGate == CatalogSpec => []GateMatchesRegistry
<1>1. CatalogInit => GateMatchesRegistry
  BY DEF CatalogInit, GateMatchesRegistry
<1> QED  BY <1>1, GateStep, PTL DEF CatalogSpec
================================================================================
