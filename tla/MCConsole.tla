------------------------------- MODULE MCConsole -------------------------------
(* Six components that share no state, side by side: every behaviour is one of *)
(* the component that `part` names, while the others stay as they began.       *)
EXTENDS SessionRegistry, ModelCatalog, QuotaCache, Preferences, MCRoutePlanner, StreamCodec

CONSTANTS k1, k2
VARIABLE part

MCSymmetry == Permutations(Keys)

MCModels == {"gpt", "glm", "pickle", "kilo", "pro", "agent"}
MCSources == {"zen", "cline", "antigravity", "own", "mistral"}
MCConfigured == "gpt" :> "codex" @@ "glm" :> "mistral" @@ "pickle" :> "zen"
MCProfiles == {"agent"}
MCOffers == [s \in MCSources |->
    CASE s = "zen" -> {"pickle", "kilo"} [] s = "cline" -> {"pro", "gpt"} [] s = "antigravity" -> {"pro"}
      [] s = "own" -> {"gpt", "agent"} [] s = "mistral" -> {"glm"}]

Chunk(reasoning, content, calls, finish) ==
    [reasoning |-> reasoning, content |-> content, calls |-> calls, finish |-> finish]
Call(index, args, named) == [index |-> index, args |-> args, named |-> named]
MCDeltas ==
    {Chunk(TRUE, FALSE, <<>>, "none"), Chunk(FALSE, TRUE, <<>>, "none"),
     Chunk(TRUE, TRUE, <<Call(1, TRUE, TRUE)>>, "none"), Chunk(FALSE, FALSE, <<Call(0, FALSE, TRUE)>>, "none"),
     Chunk(FALSE, FALSE, <<Call(0, TRUE, FALSE)>>, "none"), Chunk(FALSE, FALSE, <<Call(1, FALSE, FALSE)>>, "content_filter"),
     Chunk(FALSE, TRUE, <<Call(1, TRUE, FALSE), Call(0, TRUE, TRUE)>>, "tool_calls"),
     Chunk(FALSE, TRUE, <<>>, "stop"), Chunk(FALSE, FALSE, <<>>, "length"), Chunk(TRUE, FALSE, <<>>, "odd")}

Init ==
    /\ part \in {"registry", "catalog", "quota", "preferences", "planner", "codec"}
    /\ RegistryInit /\ CatalogInit /\ QuotaInit /\ PrefInit /\ PlannerInit /\ CodecInit
    /\ part # "quota" => who = "codex"
    /\ part # "preferences" => enabled = Targets
    /\ part # "codec" => options = [strict |-> FALSE, keep |-> FALSE]

Next ==
    /\ UNCHANGED part
    /\ \/ part = "registry" /\ RegistryNext
          /\ UNCHANGED <<catalogVars, quotaVars, prefVars, planVars, codecVars>>
       \/ part = "catalog" /\ CatalogNext
          /\ UNCHANGED <<registryVars, quotaVars, prefVars, planVars, codecVars>>
       \/ part = "quota" /\ QuotaNext
          /\ UNCHANGED <<registryVars, catalogVars, prefVars, planVars, codecVars>>
       \/ part = "preferences" /\ PrefNext
          /\ UNCHANGED <<registryVars, catalogVars, quotaVars, planVars, codecVars>>
       \/ part = "planner" /\ PlannerNext
          /\ UNCHANGED <<registryVars, catalogVars, quotaVars, prefVars, codecVars>>
       \/ part = "codec" /\ CodecNext
          /\ UNCHANGED <<registryVars, catalogVars, quotaVars, prefVars, planVars>>

Console ==
    Init /\ [][Next]_<<part, registryVars, catalogVars, quotaVars, prefVars, planVars, codecVars>>
================================================================================
