----------------------------- MODULE MCRoutePlanner -----------------------------
(* Mistral over translation, Codex native and metered, Zen free with a small    *)
(* window and a pool, and the specialist service; a profile that tries one of   *)
(* them, a rotating role, a specialist, a catalog model and a direct one.       *)
EXTENDS RoutePlanner, TLC

Route(protocols, translates, plain, features, window, class, family) ==
    [protocols |-> protocols, translates |-> translates, plain |-> plain, pooled |-> plain,
     features |-> features, window |-> window, class |-> class, family |-> family]
MCRouteOf ==
    "medium" :> Route({"chat_completions"}, TRUE, FALSE, {"tools"}, 2, 2, "mistral")
    @@ "codex" :> Route({"chat_completions", "messages"}, FALSE, FALSE, {"tools", "reasoning"}, 2, 2, "gpt")
    @@ "zen" :> Route({"chat_completions", "messages"}, FALSE, TRUE, {"tools"}, 1, 3, "mistral")
    @@ "service" :> Route({"responses"}, FALSE, FALSE, {}, 0, 1, "gpt")
Name(kind, candidates, attempts, floor, rotates) ==
    [kind |-> kind, candidates |-> candidates, attempts |-> attempts, floor |-> floor,
     rotates |-> rotates, fallback |-> "agent"]
MCNames ==
    "agent" :> Name("profile", <<"codex", "zen">>, 1, 2, FALSE)
    @@ "review" :> Name("role", <<"codex", "medium">>, 2, 0, TRUE)
    @@ "glm" :> Name("catalog", <<"zen", "medium">>, 2, 0, FALSE)
    @@ "architect" :> Name("specialist", <<"service">>, 1, 0, FALSE)
    @@ "pickle" :> Name("direct", <<"zen">>, 1, 0, FALSE)
Shape(protocol, features, size, delegated) ==
    [protocol |-> protocol, features |-> features, size |-> size, delegated |-> delegated]
MCShapes ==
    {Shape("messages", {"tools"}, 1, FALSE), Shape("messages", {"tools", "reasoning"}, 2, TRUE)}
=================================================================================
