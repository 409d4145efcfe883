--------------------------- MODULE MCSessionRegistry ---------------------------
(* Two conversations over a registry that keeps one idle mapping.          *)
EXTENDS SessionRegistry

CONSTANTS k1, k2
================================================================================
