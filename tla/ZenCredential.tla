---------------------------- MODULE ZenCredential ----------------------------
(***************************************************************************)
(* opencode-zen-credential.mjs: the token provider of one credential file. *)
(* (provider-adapters.mjs keeps one provider per canonical file.)          *)
(*                                                                         *)
(* A credential is a number: the number of times that the grant was        *)
(* renewed.  Its refresh token is that of the credential `grant[v]`, since *)
(* an answer without a refresh token keeps the old one.  The file is read  *)
(* and written synchronously, so that a call has one await, that of the    *)
(* refresh.  Tokens age; a sign-in may put a new credential in the file.   *)
(***************************************************************************)
EXTENDS Integers, FiniteSets

CONSTANTS
    Holders,        \* calls of authorization and credential
    NoHolder,
    MaxVersion      \* bound of the model: credentials ever issued

ASSUME HolderAssumption == NoHolder \notin Holders /\ MaxVersion \in Nat

VARIABLES
    stored,         \* the credential in the file, -1 for none or an unreadable one
    issued,         \* the newest credential
    age,            \* credential |-> fresh, within the skew of its end, expired
    grant,          \* credential |-> the credential whose refresh token it carries
    inFlight,       \* the call whose refresh the others await
    hold,           \* call |-> where it stands and the credential it read or got
    spent           \* history: tokens that a rotation has replaced

credVars == <<stored, issued, age, grant, inFlight, hold, spent>>

Versions == 0 .. MaxVersion
Ages == {"fresh", "ending", "expired"}

CredTypeOK ==
    /\ stored \in Versions \cup {-1}
    /\ issued \in Versions
    /\ age \in [Versions -> Ages]
    /\ grant \in [Versions -> Versions]
    /\ inFlight \in Holders \cup {NoHolder}
    /\ hold \in [Holders -> [pc : {"idle", "refresh", "await", "done", "failed"}, cred : Versions]]
    /\ spent \subseteq Versions

CredInit ==
    /\ stored \in {-1, 0} /\ issued = 0
    /\ age = [v \in Versions |-> "fresh"]
    /\ grant = [v \in Versions |-> v]
    /\ inFlight = NoHolder
    /\ hold = [h \in Holders |-> [pc |-> "idle", cred |-> 0]]
    /\ spent = {}

-----------------------------------------------------------------------------
\* resolve: the file is missing; its token is good; a refresh is shared or begun.
Missing(h) ==
    /\ hold[h].pc = "idle" /\ stored = -1
    /\ hold' = [hold EXCEPT ![h].pc = "failed"]
    /\ UNCHANGED <<stored, issued, age, grant, inFlight, spent>>

Good(h) ==
    /\ hold[h].pc = "idle" /\ stored # -1 /\ age[stored] = "fresh"
    /\ hold' = [hold EXCEPT ![h] = [pc |-> "done", cred |-> stored]]
    /\ UNCHANGED <<stored, issued, age, grant, inFlight, spent>>

\* Slip: a refresh of its own for each call.
RefreshAlone(h) ==
    /\ hold[h].pc = "idle" /\ stored # -1 /\ age[stored] # "fresh"
    /\ hold' = [hold EXCEPT ![h] = [pc |-> "refresh", cred |-> stored]]
    /\ inFlight' = h
    /\ UNCHANGED <<stored, issued, age, grant, spent>>

Refresh(h) ==
    /\ hold[h].pc = "idle" /\ stored # -1 /\ age[stored] # "fresh"
    /\ hold' = [hold EXCEPT ![h] = [pc |-> IF inFlight = NoHolder THEN "refresh" ELSE "await",
                                    cred |-> stored]]
    /\ inFlight' = IF inFlight = NoHolder THEN h ELSE inFlight
    /\ UNCHANGED <<stored, issued, age, grant, spent>>

Waiting == {h \in Holders : hold[h].pc \in {"refresh", "await"}}

\* The end of the await for all who share it.
Resolved(v) ==
    hold' = [h \in Holders |->
        IF h \in Waiting THEN [pc |-> "done", cred |-> v] ELSE hold[h]]

\* Slip: whoever awaited a failed refresh fails.
RejectedAll ==
    hold' = [h \in Holders |-> IF h \in Waiting THEN [hold[h] EXCEPT !.pc = "failed"] ELSE hold[h]]

\* The refresh failed: a credential that still holds is used, another is an error.
Rejected ==
    hold' = [h \in Holders |->
        IF h \notin Waiting THEN hold[h]
        ELSE [hold[h] EXCEPT !.pc = IF age[hold[h].cred] = "expired" THEN "failed" ELSE "done"]]

\* The token endpoint takes the refresh token of the credential that the call
\* read, unless it was replaced, and may replace it.  Writing the file may fail
\* after that; a good answer is for every call that waits.
Renewed(h, rotates, written) ==
    LET new == issued + 1
    IN  /\ hold[h].pc = "refresh" /\ new \in Versions
        /\ grant[hold[h].cred] \notin spent
        /\ issued' = new
        /\ grant' = [grant EXCEPT ![new] = IF rotates THEN new ELSE grant[hold[h].cred]]
        /\ spent' = IF rotates THEN spent \cup {grant[hold[h].cred]} ELSE spent
        /\ stored' = IF written THEN new ELSE stored
        /\ IF written THEN Resolved(new) ELSE Rejected
        /\ inFlight' = NoHolder
        /\ UNCHANGED age

Refused(h) ==
    /\ hold[h].pc = "refresh"
    /\ Rejected
    /\ inFlight' = NoHolder
    /\ UNCHANGED <<stored, issued, age, grant, spent>>

\* The outcome of the request reached the caller, who asks again for the next.
Again(h) ==
    /\ hold[h].pc \in {"done", "failed"}
    /\ hold' = [hold EXCEPT ![h] = [pc |-> "idle", cred |-> 0]]
    /\ UNCHANGED <<stored, issued, age, grant, inFlight, spent>>

\* A token comes closer to its end; someone signs in and replaces the file.
Grows(v) ==
    /\ v <= issued
    /\ age[v] # "expired"
    /\ age' = [age EXCEPT ![v] = IF @ = "fresh" THEN "ending" ELSE "expired"]
    /\ UNCHANGED <<stored, issued, grant, inFlight, hold, spent>>

SignIn ==
    /\ issued + 1 \in Versions
    /\ issued' = issued + 1
    /\ stored' = issued + 1
    /\ UNCHANGED <<age, grant, inFlight, hold, spent>>

CredNext ==
    \/ \E h \in Holders :
        \/ Missing(h) \/ Good(h) \/ Refresh(h) \/ Refused(h) \/ Again(h)
        \/ \E rotates, written \in BOOLEAN : Renewed(h, rotates, written)
    \/ \E v \in Versions : Grows(v)
    \/ SignIn

CredSpec == CredInit /\ [][CredNext]_credVars

-----------------------------------------------------------------------------
\* Calls that find the token near its end share one refresh: a refresh token,
\* which a rotation replaces, is never presented by two refreshes at a time.
OneRefresh ==
    /\ \A g, h \in Holders : hold[g].pc = "refresh" /\ hold[h].pc = "refresh" => g = h
    /\ \A h \in Holders : hold[h].pc = "refresh" <=> inFlight = h
    /\ \A h \in Holders : hold[h].pc = "await" => inFlight # NoHolder

\* A token that still holds is preferred over a failed refresh: a call that had
\* read a credential fails only once that credential has expired, and none is
\* given an expired one at the moment it is answered.
OutageKeepsValidToken ==
    [][\A h \in Holders : hold[h].pc \in {"refresh", "await"} =>
        /\ hold'[h].pc = "failed" => age[hold[h].cred] = "expired"
        /\ hold'[h].pc = "done" => age[hold'[h].cred] # "expired"]_credVars
=============================================================================
