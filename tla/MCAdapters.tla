------------------------------ MODULE MCAdapters ------------------------------
(* Four components that share no state, side by side: every behaviour is one *)
(* of the component that `part` names, while the others stay as they began.   *)
EXTENDS ZenSessions, ZenCredential, CopilotAuto, FrontEnd, TLC
CONSTANTS a1, a2, a3, p1, p2
VARIABLE part
ZenHome == a1 :> p1 @@ a2 :> p1 @@ a3 :> p2

Init == part \in {"sessions", "tokens", "copilot", "front"} /\ ZenInit /\ CredInit /\ CopilotInit /\ FrontInit

Next ==
    /\ UNCHANGED part
    /\ \/ part = "sessions" /\ ZenNext /\ UNCHANGED <<credVars, copilotVars, frontVars>>
       \/ part = "tokens" /\ CredNext /\ UNCHANGED <<zenVars, copilotVars, frontVars>>
       \/ part = "copilot" /\ CopilotNext /\ UNCHANGED <<zenVars, credVars, frontVars>>
       \/ part = "front" /\ FrontNext /\ UNCHANGED <<zenVars, credVars, copilotVars>>

vars == <<part, zenVars, credVars, copilotVars, frontVars>>

Adapters ==
    /\ Init /\ [][Next]_vars
    /\ WF_vars(\/ part = "sessions" /\ (\E a \in Askers : Step(a)) /\ UNCHANGED <<part, credVars, copilotVars, frontVars>>
               \/ part = "copilot" /\ ByItself /\ UNCHANGED <<part, zenVars, credVars, frontVars>>
               \/ part = "front" /\ (FrontTick \/ \E r \in Requests : Runs(r))
                     /\ UNCHANGED <<part, zenVars, credVars, copilotVars>>)
===============================================================================
