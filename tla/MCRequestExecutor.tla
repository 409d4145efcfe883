--------------------------- MODULE MCRequestExecutor ---------------------------
(* Two accounts and one or two requests over a pooled and a direct route.  *)
EXTENDS RequestExecutor, TLC

CONSTANTS c1, c2

MCKeyOf == [c \in Callers |-> "session"]
MCServes == [p \in Pooled |-> Accounts]
PooledOnly == {<<"zen">>}
MixedPlans == {<<"zen", "api">>, <<"api", "native">>}
================================================================================
