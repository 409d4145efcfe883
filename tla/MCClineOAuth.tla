----------------------------- MODULE MCClineOAuth -----------------------------
(* Two calls at a time and two generations of logins.                      *)
EXTENDS ClineOAuth, TLC

CONSTANTS k1, k2
================================================================================
