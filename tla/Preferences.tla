---------------------------- MODULE Preferences ----------------------------
(***************************************************************************)
(* The routing preferences of the dashboard (preferences.mjs and the admin *)
(* routes of tgw-proxy.mjs): overrides of aliases, live in memory, kept in *)
(* a sidecar file, and baked into the routes on demand.                    *)
(*                                                                         *)
(* An override counts as its target.  Both files are written in place and  *)
(* synchronously; a write may fail, and the process may end between the    *)
(* two writes of a bake.  At a restart the routes are read as they were    *)
(* last written, and the environment may enable other providers.           *)
(***************************************************************************)
CONSTANTS
    Aliases,
    Targets,
    Origin,     \* the target of every alias before the first bake
    NoTarget

ASSUME PreferencesAssumption == Origin \in Targets /\ NoTarget \notin Targets

VARIABLES
    overrides,  \* alias |-> the live override
    sidecar,    \* alias |-> the override in gateway.preferences.yaml
    routes,     \* alias |-> the target in gateway.routes.yaml
    config,     \* alias |-> the target in the configuration the process runs
    enabled,    \* targets whose provider is enabled
    baking,     \* the routes are written, the sidecar is not yet
    promised    \* alias |-> the target last confirmed to the operator

prefVars == <<overrides, sidecar, routes, config, enabled, baking, promised>>

PrefTypeOK ==
    /\ overrides \in [Aliases -> Targets \cup {NoTarget}]
    /\ sidecar \in [Aliases -> Targets \cup {NoTarget}]
    /\ routes \in [Aliases -> Targets] /\ config \in [Aliases -> Targets]
    /\ enabled \in SUBSET Targets /\ baking \in BOOLEAN
    /\ promised \in [Aliases -> Targets \cup {NoTarget}]

None == [a \in Aliases |-> NoTarget]

PrefInit ==
    /\ overrides = None /\ sidecar = None /\ baking = FALSE
    /\ routes = [a \in Aliases |-> Origin] /\ config = routes
    /\ enabled \in SUBSET Targets
    /\ promised = routes

\* resolve: the override, unless its provider is disabled.
Resolve(a) ==
    IF overrides[a] = NoTarget \/ overrides[a] \notin enabled THEN config[a] ELSE overrides[a]

-----------------------------------------------------------------------------
\* _persist: the live overrides become the sidecar.  When the write fails they
\* stay in memory, and the operator is told that nothing was done.
Persisted(o, changed) ==
    /\ ~baking /\ overrides' = o
    /\ \/ /\ sidecar' = o
          /\ promised' = [a \in Aliases |-> IF a \notin changed THEN promised[a]
                                            ELSE IF o[a] = NoTarget THEN routes[a] ELSE o[a]]
       \/ /\ UNCHANGED sidecar
          /\ promised' = [a \in Aliases |-> IF a \in changed THEN NoTarget ELSE promised[a]]
    /\ UNCHANGED <<routes, config, enabled, baking>>

SetOverride(a, t) == t \in enabled /\ Persisted([overrides EXCEPT ![a] = t], {a})

Clear(a) == Persisted([overrides EXCEPT ![a] = NoTarget], {a})

\* A reset that cannot be written ends the process, see Restart.
Reset == Persisted(None, Aliases) /\ sidecar' = None

Baked == [a \in Aliases |-> IF overrides[a] = NoTarget THEN routes[a] ELSE overrides[a]]

\* Slip: the sidecar is cleared before the routes are written.
BakeSidecar ==
    /\ ~baking /\ overrides # None
    /\ sidecar' = None /\ baking' = TRUE
    /\ UNCHANGED <<overrides, routes, config, enabled, promised>>

\* bakeToRoutes writes the routes ...
BakeRoutes ==
    /\ ~baking /\ overrides # None
    /\ routes' = Baked /\ baking' = TRUE
    /\ UNCHANGED <<overrides, sidecar, config, enabled, promised>>

\* ... then drops the overrides, and writes the sidecar.  Its summary confirms
\* every alias; when the sidecar cannot be written the bake is refused.
BakeDone ==
    /\ baking /\ baking' = FALSE
    /\ overrides' = None
    /\ \/ sidecar' = None
          /\ promised' = [a \in Aliases |-> IF overrides[a] = NoTarget THEN promised[a] ELSE overrides[a]]
       \/ UNCHANGED <<sidecar, promised>>
    /\ UNCHANGED <<routes, config, enabled>>

\* A restart, of itself or after a reset that could not be written.
Restart ==
    /\ overrides' = sidecar /\ config' = routes /\ baking' = FALSE
    /\ enabled' \in SUBSET Targets
    /\ UNCHANGED <<sidecar, routes, promised>>

PrefNext ==
    \/ \E a \in Aliases : Clear(a) \/ \E t \in Targets : SetOverride(a, t)
    \/ Reset \/ BakeRoutes \/ BakeDone \/ Restart

PrefSpec == PrefInit /\ [][PrefNext]_prefVars

-----------------------------------------------------------------------------
\* Whatever is confirmed to the operator holds after a restart, also after one
\* in the middle of a bake: the two files together never forget it.
ConfirmedSurvives ==
    \A a \in Aliases : promised[a] # NoTarget =>
        promised[a] = (IF sidecar[a] = NoTarget THEN routes[a] ELSE sidecar[a])

\* preferences.mjs:180, "Config now carries the baked values": what is confirmed
\* is also what the process resolves to, while the provider is enabled.
\* Refuted by a run: a bake drops the overrides, and the configuration in
\* memory is still the old one.
LiveAsConfirmed ==
    \A a \in Aliases : promised[a] \in enabled => Resolve(a) = promised[a]
=============================================================================
