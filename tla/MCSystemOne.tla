------------------------------ MODULE MCSystemOne ------------------------------
(* One native call, with or without a chat request of another session.     *)
EXTENDS SystemOne, TLC

CONSTANTS n1, n2, c1

MCKeyOf == [c \in Callers |-> IF c \in Native THEN "native" ELSE "chat"]
MCModelOf == [c \in Native |-> "jev"]
MCServes == [t \in Targets |-> Accounts]
================================================================================
