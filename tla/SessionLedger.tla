----------------------------- MODULE SessionLedger -----------------------------
(* What the plugin's registry of provider sessions promises (the comments of   *)
(* registry.go): a conversation is answered with one id as long as anyone      *)
(* holds a lease of it, no two conversations share one, and only conversations *)
(* that nobody holds are forgotten.  Files, clocks and failures are not seen.  *)
EXTENDS Integers

CONSTANTS Parties, Nothing

VARIABLES
  promise,  \* party -> the id it was last given, Nothing when it is forgotten
  leases,   \* party -> leases held by its callers
  issued    \* ids issued so far

ledgerVars == <<promise, leases, issued>>

LedgerInit ==
  /\ promise = [k \in Parties |-> Nothing]
  /\ leases = [k \in Parties |-> 0]
  /\ issued = 0

Forgotten(gone) == [k \in Parties |-> IF k \in gone THEN Nothing ELSE promise[k]]

Issues == issued' \in {issued, issued + 1}

\* Any party without a lease may be forgotten; an id may be issued to nobody.
LedgerForgets ==
  /\ Issues
  /\ \E gone \in SUBSET {k \in Parties : leases[k] = 0} : promise' = Forgotten(gone)
  /\ UNCHANGED leases

\* A party is given the id it has, or one that nobody has.
Answers(k, lease) ==
  /\ Issues
  /\ \E gone \in SUBSET {j \in Parties : leases[j] = 0}, id \in 1..issued' :
       /\ IF Forgotten(gone)[k] # Nothing THEN id = promise[k]
          ELSE \A j \in Parties \ {k} : Forgotten(gone)[j] # id
       /\ promise' = [Forgotten(gone) EXCEPT ![k] = id]
  /\ leases' = IF lease THEN [leases EXCEPT ![k] = @ + 1] ELSE leases

GivesBack(k) ==
  /\ leases[k] > 0
  /\ leases' = [leases EXCEPT ![k] = @ - 1]
  /\ \E gone \in SUBSET {j \in Parties : leases'[j] = 0} : promise' = Forgotten(gone)
  /\ UNCHANGED issued

\* The owner of the registry is gone, and the leases with it.
OwnerGone ==
  /\ leases' = [k \in Parties |-> 0]
  /\ UNCHANGED <<promise, issued>>

LedgerNext ==
  \/ LedgerForgets \/ OwnerGone
  \/ \E k \in Parties : GivesBack(k) \/ \E lease \in BOOLEAN : Answers(k, lease)

LedgerSpec == LedgerInit /\ [][LedgerNext]_ledgerVars
================================================================================
