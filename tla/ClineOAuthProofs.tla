---------------------------- MODULE ClineOAuthProofs ----------------------------
(***************************************************************************)
(* What TLAPS proves of the Cline credentials, for any number of calls,    *)
(* logins and rotations: refreshes are shared, no pending status is a dead *)
(* login's, a replaced login leaves nothing, and a quiet logout is final.  *)
(***************************************************************************)
EXTENDS ClineOAuth, TLAPS

\* Credentials that have a turn left.
Renewable == {c \in Credentials : c[2] < MaxTurn}

\* Only what can be rotated once more becomes stale or is being refreshed.
TypeInv ==
  /\ OAuthTypeOK
  /\ stale \subseteq Renewable
  /\ \A k \in Callers : Busy(k) => caller[k].got \in Renewable

LEMMA RotatedType ==
  ASSUME OAuthAssumption, NEW c \in Renewable
  PROVE  Rotated(c) \in Credentials /\ Rotated(c)[1] = c[1]
BY DEF OAuthAssumption, Renewable, Rotated, Credentials

LEMMA ObtainedType ==
  ASSUME OAuthAssumption, NEW l \in 0..MaxGeneration
  PROVE  Obtained(l) \in Renewable /\ Obtained(l) \in Credentials /\ Obtained(l)[1] = l
BY DEF OAuthAssumption, Renewable, Obtained, Credentials

\* A missing file and an unread one are no credentials.
LEMMA NoCredentials ==
  ASSUME OAuthAssumption
  PROVE  None \notin Credentials /\ Unread \notin Credentials /\ None # Unread
<1>1. Credentials \subseteq Nat \X Nat
  BY DEF OAuthAssumption, Credentials
<1> QED
  BY <1>1 DEF OAuthAssumption

--------------------------------------------------------------------------------
(* Types                                                                   *)

LEMMA TypeInit ==
  ASSUME OAuthAssumption, OAuthInit
  PROVE  TypeInv
<1>1. Obtained(0) \in Renewable /\ Obtained(0) \in Credentials
  BY ObtainedType DEF OAuthAssumption
<1>2. Resting \in Calls /\ Resting.pc = "idle"
  BY DEF Resting, Calls
<1>3. caller \in [Callers -> Calls] /\ \A k \in Callers : ~Busy(k)
  BY <1>2 DEF OAuthInit, Busy, Refreshing
<1>4. oauth \in Statuses /\ generation \in 0..MaxGeneration /\ login \in [Logins -> Stages]
  BY DEF OAuthAssumption, OAuthInit, Statuses, Stages
<1>5. file \in Credentials \cup {None} /\ stale \subseteq Credentials /\ stale \subseteq Renewable
  BY <1>1 DEF OAuthInit
<1> QED
  BY <1>3, <1>4, <1>5 DEF OAuthInit, TypeInv, OAuthTypeOK

\* What a call does with loaded credentials keeps the types.
LEMMA ResumeType ==
  ASSUME OAuthAssumption, TypeInv, NEW k \in Callers,
         NEW current \in Credentials \cup {None, Unread}, Resume(k, current)
  PROVE  /\ caller' \in [Callers -> Calls]
         /\ flight' \in Callers \cup {None}
         /\ \A j \in Callers : Busy(j)' => caller'[j].got \in Renewable
<1>1. caller \in [Callers -> Calls] /\ flight \in Callers \cup {None}
  BY DEF TypeInv, OAuthTypeOK
<1>2. CASE Leave(k) /\ UNCHANGED flight
  <2>1. Resting \in Calls /\ Resting.pc = "idle"
    BY DEF Resting, Calls
  <2> QED
    BY <1>1, <1>2, <2>1 DEF Leave, Go, TypeInv, Busy, Refreshing
<1>3. CASE current \in stale /\ RefreshOnce(k, current)
  <2>1. current \in Renewable /\ current \in Credentials
    BY <1>3 DEF TypeInv, Renewable
  <2>2. CASE flight = None
    <3> DEFINE q == [caller[k] EXCEPT !.pc = "exchanging", !.got = current]
    <3>1. q \in Calls /\ q.got = current
      BY <1>1, <2>1 DEF Calls, Refreshing
    <3>2. caller' = [caller EXCEPT ![k] = q] /\ flight' = k
      BY <1>3, <2>2 DEF RefreshOnce, Go
    <3> HIDE DEF q
    <3> QED
      BY <1>1, <2>1, <3>1, <3>2 DEF TypeInv, Busy
  <2>3. CASE flight # None
    <3> DEFINE q == [caller[k] EXCEPT !.pc = "following", !.via = flight]
    <3>1. q \in Calls /\ q.pc = "following"
      BY <1>1 DEF Calls
    <3>2. caller' = [caller EXCEPT ![k] = q] /\ UNCHANGED flight
      BY <1>3, <2>3 DEF RefreshOnce, Go
    <3> HIDE DEF q
    <3> QED
      BY <1>1, <3>1, <3>2 DEF TypeInv, Busy, Refreshing
  <2> QED
    BY <2>2, <2>3
<1> QED
  BY <1>2, <1>3 DEF Resume

\* The end of a refresh keeps them too.
LEMMA SettledType ==
  ASSUME OAuthAssumption, TypeInv, NEW k \in Callers, Settled(k)
  PROVE  /\ caller' \in [Callers -> Calls]
         /\ flight' \in Callers \cup {None}
         /\ \A j \in Callers : Busy(j)' => caller'[j].got \in Renewable
<1>1. caller \in [Callers -> Calls]
  BY DEF TypeInv, OAuthTypeOK
<1>2. Resting \in Calls
  BY DEF Resting, Calls
<1> QED
  BY <1>1, <1>2 DEF Settled, Released, TypeInv, Busy, Refreshing, Resting

\* And so does a move of a call that starts no refresh and keeps its credentials.
LEMMA GoType ==
  ASSUME TypeInv, NEW k \in Callers, NEW q \in Calls, Go(k, q),
         q.pc \in Refreshing => q.got \in Renewable
  PROVE  /\ caller' \in [Callers -> Calls]
         /\ \A j \in Callers : Busy(j)' => caller'[j].got \in Renewable
BY DEF TypeInv, OAuthTypeOK, Go, Busy

LEMMA LeaveType ==
  ASSUME TypeInv, NEW k \in Callers, Leave(k)
  PROVE  /\ caller' \in [Callers -> Calls]
         /\ \A j \in Callers : Busy(j)' => caller'[j].got \in Renewable
<1>1. Resting \in Calls /\ Resting.pc = "idle"
  BY DEF Resting, Calls
<1> QED
  BY <1>1, GoType DEF Leave, Refreshing

LEMMA TypeStep ==
  ASSUME OAuthAssumption, TypeInv, [OAuthNext]_oauthVars
  PROVE  TypeInv'
<1> USE DEF OAuthTypeOK, TypeInv, tokens, session, logouts, OnlyTheCall, OnlyTheLoop
<1> DEFINE CallType == caller' \in [Callers -> Calls]
                       /\ \A j \in Callers : Busy(j)' => caller'[j].got \in Renewable
<1>1. ASSUME NEW k \in Callers, NEW task \in {"use", "status"}, CallBegins(k, task)
      PROVE  TypeInv'
  <2>1. CASE memory = Unread
    <3> DEFINE q == [Resting EXCEPT !.pc = "reading", !.task = task]
    <3>1. q \in Calls /\ q.pc = "reading"
      BY DEF Resting, Calls, Loading
    <3>2. Go(k, q) /\ UNCHANGED <<file, memory, stale, flight, session, logouts>>
      BY <1>1, <2>1 DEF CallBegins
    <3>3. CallType
      BY <3>1, <3>2, GoType DEF Refreshing
    <3> QED
      BY <3>2, <3>3
  <2>2. CASE Resume(k, memory)
    BY <1>1, <2>2, ResumeType DEF CallBegins
  <2> QED
    BY <1>1, <2>1, <2>2 DEF CallBegins
<1>2. ASSUME NEW k \in Callers, FileRead(k) \/ FileSecured(k) PROVE TypeInv'
  <2> DEFINE q(pc) == [caller[k] EXCEPT !.pc = pc, !.got = file]
  <2>1. PICK pc \in {"read", "secured"} : Go(k, q(pc)) /\ OnlyTheCall
    BY <1>2 DEF FileRead, FileSecured
  <2>2. q(pc) \in Calls /\ q(pc).pc = pc
    BY DEF Calls, Loading
  <2>3. CallType
    BY <2>1, <2>2, GoType DEF Refreshing
  <2> QED
    BY <2>1, <2>3
<1>3. ASSUME NEW k \in Callers, ReadReturns(k) PROVE TypeInv'
  <2>1. CASE Leave(k) /\ UNCHANGED <<memory, flight>>
    BY <1>3, <2>1, LeaveType DEF ReadReturns
  <2>2. CASE memory' = caller[k].got /\ Resume(k, None)
    <3>1. memory' \in Credentials \cup {None, Unread}
      BY <2>2 DEF Calls
    <3> QED
      BY <1>3, <2>2, <3>1, ResumeType DEF ReadReturns
  <2>3. CASE /\ memory' = caller[k].got /\ UNCHANGED flight
             /\ Go(k, [caller[k] EXCEPT !.pc = "securing"])
    <3> DEFINE q == [caller[k] EXCEPT !.pc = "securing"]
    <3>1. q \in Calls /\ q.pc = "securing" /\ memory' \in Credentials \cup {None, Unread}
      BY <2>3 DEF Calls, Loading
    <3>2. CallType
      BY <2>3, <3>1, GoType DEF Refreshing
    <3> QED
      BY <1>3, <2>3, <3>1, <3>2 DEF ReadReturns
  <2> QED
    BY <1>3, <2>1, <2>2, <2>3 DEF ReadReturns
<1>4. ASSUME NEW k \in Callers, SecureReturns(k) PROVE TypeInv'
  <2>1. CASE Leave(k) /\ UNCHANGED <<memory, flight>>
    BY <1>4, <2>1, LeaveType DEF SecureReturns
  <2>2. CASE memory' \in {None, memory} /\ Resume(k, memory')
    <3>1. memory' \in Credentials \cup {None, Unread}
      BY <2>2
    <3> QED
      BY <1>4, <2>2, <3>1, ResumeType DEF SecureReturns
  <2> QED
    BY <1>4, <2>1, <2>2 DEF SecureReturns
<1>5. ASSUME NEW k \in Callers, RotationRenamed(k) PROVE TypeInv'
  <2> DEFINE q == [caller[k] EXCEPT !.pc = "renamed"]
  <2>1. caller[k].got \in Renewable
    BY <1>5 DEF RotationRenamed, At, Busy, Refreshing
  <2>2. q \in Calls /\ q.got = caller[k].got
    BY DEF Calls, Refreshing
  <2>3. CallType
    BY <1>5, <2>1, <2>2, GoType DEF RotationRenamed
  <2> QED
    BY <1>5, <2>1, <2>3, RotatedType DEF RotationRenamed
<1>6. ASSUME NEW k \in Callers, RefreshReturns(k) PROVE TypeInv'
  <2>1. caller[k].got \in Renewable
    BY <1>6 DEF RefreshReturns, At, Busy, Refreshing
  <2> QED
    BY <1>6, <2>1, RotatedType, SettledType DEF RefreshReturns
<1>7. ASSUME NEW k \in Callers, RefreshFails(k) PROVE TypeInv'
  BY <1>7, SettledType DEF RefreshFails
<1>8. ASSUME NEW k \in Callers, AskDevice(k) PROVE TypeInv'
  <2> DEFINE q == [Resting EXCEPT !.pc = "asking"]
  <2>1. q \in Calls /\ q.pc = "asking"
    BY DEF Resting, Calls
  <2>2. CallType
    BY <1>8, <2>1, GoType DEF AskDevice, Refreshing
  <2> QED
    BY <1>8, <2>2 DEF AskDevice
<1>9. ASSUME NEW k \in Callers, DeviceRefused(k) \/ FileUnlinked(k) \/ UnlinkFails(k)
      PROVE  TypeInv'
  BY <1>9, LeaveType DEF DeviceRefused, FileUnlinked, UnlinkFails
<1>10. Supersede => /\ generation' \in 0..MaxGeneration /\ generation' \in Logins
                    /\ generation' = generation + 1 /\ revoked' \subseteq Logins
  <2>1. generation < MaxGeneration =>
          generation + 1 \in 0..MaxGeneration /\ generation + 1 \in 1..MaxGeneration
    BY DEF OAuthAssumption
  <2>2. revoked \cup {l \in Logins : Under(l, Polling)} \subseteq Logins
    OBVIOUS
  <2> QED
    BY <2>1, <2>2 DEF Supersede, Logins
<1>11. ASSUME NEW k \in Callers, DeviceAnswers(k) PROVE TypeInv'
  <2>1. oauth' \in Statuses /\ login' \in [Logins -> Stages]
    BY <1>10, <1>11 DEF DeviceAnswers, Statuses, Stages, Polling
  <2> QED
    BY <1>10, <1>11, <2>1, LeaveType DEF DeviceAnswers
<1>12. ASSUME NEW k \in Callers, Logout(k) PROVE TypeInv'
  <2> DEFINE q == [Resting EXCEPT !.pc = "unlinking"]
  <2>1. q \in Calls /\ q.pc = "unlinking"
    BY DEF Resting, Calls
  <2>2. CallType
    BY <1>12, <2>1, GoType DEF Logout, Refreshing
  <2>3. oauth' \in Statuses /\ loggedOut' \in BOOLEAN /\ quiet' \in BOOLEAN
    BY <1>12 DEF OAuthAssumption, Logout, Statuses, Still
  <2> QED
    BY <1>10, <1>12, <2>2, <2>3 DEF Logout
<1>13. ASSUME NEW l \in Logins, LoginResumes(l) PROVE TypeInv'
  <2>1. \A pc \in Stages : Moves(l, pc) => login' \in [Logins -> Stages]
    BY DEF Moves
  <2>2. Over(l) => login' \in [Logins -> Stages] /\ overdue' \subseteq Logins
    BY <2>1 DEF Over, Stages
  <2>3. \A status \in {"expired", "error", "authenticated"} :
          Ends(l, status) => oauth' \in Statuses
    BY DEF OAuthAssumption, Ends, Statuses
  <2>4. CASE Poll(l) \/ PollAnswers(l)
    BY <2>1, <2>4 DEF Poll, PollAnswers, Stages, Polling, Busy
  <2>5. CASE PollEnds(l) \/ LoginFails(l)
    BY <2>2, <2>3, <2>5 DEF PollEnds, LoginFails, Ends, Busy
  <2>6. CASE Registered(l)
    BY <2>1, <2>2, <2>6 DEF Registered, Stages, Writing, Busy
  <2>7. Obtained(l) \in Credentials
    BY ObtainedType DEF OAuthAssumption, Logins
  <2>8. CASE LoginRenamed(l)
    BY <2>1, <2>7, <2>8 DEF LoginRenamed, Stages, Writing, Busy
  <2>9. CASE LoginReturns(l)
    BY <2>2, <2>3, <2>7, <2>9 DEF LoginReturns, Ends, Busy
  <2> QED
    BY <1>13, <2>4, <2>5, <2>6, <2>8, <2>9 DEF LoginResumes
<1>14. ASSUME NEW l \in Logins, DeviceCodeExpires(l) PROVE TypeInv'
  BY <1>14 DEF DeviceCodeExpires, Busy
<1>15. ASSUME CredentialsExpire PROVE TypeInv'
  <2>1. stale' \subseteq Credentials /\ stale' \subseteq Renewable
    BY <1>15 DEF CredentialsExpire, Renewable
  <2> QED
    BY <1>15, <2>1 DEF CredentialsExpire, Busy
<1>16. CASE UNCHANGED oauthVars
  BY <1>16 DEF oauthVars, Busy
<1> QED
  BY <1>1, <1>2, <1>3, <1>4, <1>5, <1>6, <1>7, <1>8, <1>9, <1>11, <1>12, <1>13, <1>14,
     <1>15, <1>16 DEF OAuthNext, CallerResumes

--------------------------------------------------------------------------------
(* Shared refreshes                                                        *)

\* Until a logout, whoever refreshes is the one the others are sent to.
SharedInv ==
  /\ FlightIsLive
  /\ ~loggedOut => \A j \in Callers : Busy(j) => flight = j

\* A call that neither was nor is refreshing may move.
LEMMA GoShared ==
  ASSUME TypeInv, SharedInv, NEW k \in Callers, ~Busy(k), NEW q, Go(k, q),
         q.pc \notin Refreshing, UNCHANGED flight, loggedOut' \/ UNCHANGED loggedOut
  PROVE  SharedInv'
<1>1. caller' = [caller EXCEPT ![k] = q] /\ caller \in [Callers -> Calls]
  BY DEF Go, TypeInv, OAuthTypeOK
<1>2. \A j \in Callers : Busy(j)' <=> Busy(j)
  BY <1>1 DEF Busy
<1>3. flight # None => flight \in Callers
  BY DEF TypeInv, OAuthTypeOK
<1> QED
  BY <1>2, <1>3 DEF SharedInv, FlightIsLive

LEMMA LeaveShared ==
  ASSUME TypeInv, SharedInv, NEW k \in Callers, ~Busy(k), Leave(k),
         UNCHANGED <<flight, loggedOut>>
  PROVE  SharedInv'
BY GoShared DEF Leave, Resting, Refreshing

\* Somebody who finds no flight is the only one to refresh.
LEMMA ResumeShared ==
  ASSUME OAuthAssumption, TypeInv, SharedInv, NEW k \in Callers, ~Busy(k),
         NEW current, Resume(k, current), UNCHANGED loggedOut
  PROVE  SharedInv'
<1>1. CASE Leave(k) /\ UNCHANGED flight
  BY <1>1, LeaveShared
<1>2. CASE flight = None /\ RefreshOnce(k, current)
  <2>1. flight' = k /\ caller \in [Callers -> Calls]
        /\ Go(k, [caller[k] EXCEPT !.pc = "exchanging", !.got = current])
    BY <1>2 DEF RefreshOnce, TypeInv, OAuthTypeOK
  <2>2. Busy(k)' /\ \A j \in Callers \ {k} : Busy(j)' <=> Busy(j)
    BY <2>1 DEF Go, Busy, Refreshing, Calls
  <2>3. ~loggedOut => \A j \in Callers : ~Busy(j)
    BY <1>2 DEF SharedInv, OAuthAssumption
  <2> QED
    BY <2>1, <2>2, <2>3 DEF SharedInv, FlightIsLive
<1>3. CASE flight # None /\ RefreshOnce(k, current)
  <2> DEFINE q == [caller[k] EXCEPT !.pc = "following", !.via = flight]
  <2>1. q.pc = "following"
    BY DEF TypeInv, OAuthTypeOK, Calls
  <2>2. Go(k, q) /\ UNCHANGED flight
    BY <1>3 DEF RefreshOnce
  <2> QED
    BY <2>1, <2>2, GoShared DEF Refreshing
<1> QED
  BY <1>1, <1>2, <1>3 DEF Resume

LEMMA SettledShared ==
  ASSUME OAuthAssumption, TypeInv, SharedInv, NEW k \in Callers, Busy(k), Settled(k),
         UNCHANGED loggedOut
  PROVE  SharedInv'
<1>1. flight' = None /\ \A j \in Callers : Busy(j)' => Busy(j) /\ j # k
  BY DEF Settled, Released, Awaiting, Busy, Refreshing, Resting
<1> QED
  BY <1>1 DEF SharedInv, FlightIsLive

LEMMA SharedStep ==
  ASSUME OAuthAssumption, TypeInv, SharedInv, [OAuthNext]_oauthVars
  PROVE  SharedInv'
<1> USE DEF session, logouts, tokens, OnlyTheCall, OnlyTheLoop
<1>1. \A k \in Callers : \A pc \in {"idle", "reading", "read", "securing", "secured",
         "asking", "unlinking"} : At(k, pc) => ~Busy(k)
  BY DEF At, Busy, Refreshing
<1>2. ASSUME UNCHANGED <<flight, caller, loggedOut>> PROVE SharedInv'
  BY <1>2 DEF SharedInv, FlightIsLive, Busy
<1>3. ASSUME NEW k \in Callers, NEW task, CallBegins(k, task) PROVE SharedInv'
  <2>1. CASE Resume(k, memory)
    BY <1>1, <1>3, <2>1, ResumeShared DEF CallBegins
  <2>2. CASE Go(k, [Resting EXCEPT !.pc = "reading", !.task = task]) /\ UNCHANGED flight
    <3>1. [Resting EXCEPT !.pc = "reading", !.task = task].pc \notin Refreshing
      BY DEF Resting, Refreshing
    <3> QED
      BY <1>1, <1>3, <2>2, <3>1, GoShared DEF CallBegins
  <2> QED
    BY <1>3, <2>1, <2>2 DEF CallBegins
<1>4. ASSUME NEW k \in Callers, NEW pc \in {"read", "securing", "secured"}, NEW got,
             ~Busy(k), Go(k, [caller[k] EXCEPT !.pc = pc, !.got = got]),
             UNCHANGED <<flight, loggedOut>>
      PROVE  SharedInv'
  <2>1. [caller[k] EXCEPT !.pc = pc, !.got = got].pc \notin Refreshing
    BY DEF TypeInv, OAuthTypeOK, Calls, Refreshing
  <2> QED
    BY <1>4, <2>1, GoShared
<1>5. ASSUME NEW k \in Callers, FileRead(k) \/ FileSecured(k) PROVE SharedInv'
  BY <1>1, <1>4, <1>5 DEF FileRead, FileSecured
<1>6. ASSUME NEW k \in Callers, ReadReturns(k) \/ SecureReturns(k) PROVE SharedInv'
  <2>1. ~Busy(k) /\ UNCHANGED loggedOut
    BY <1>1, <1>6 DEF ReadReturns, SecureReturns
  <2>2. CASE Leave(k) /\ UNCHANGED flight
    BY <2>1, <2>2, LeaveShared
  <2>3. ASSUME NEW current, Resume(k, current) PROVE SharedInv'
    BY <2>1, <2>3, ResumeShared
  <2>4. CASE Go(k, [caller[k] EXCEPT !.pc = "securing"]) /\ UNCHANGED flight
    <3>1. [caller[k] EXCEPT !.pc = "securing"].pc \notin Refreshing
      BY DEF TypeInv, OAuthTypeOK, Calls, Refreshing
    <3> QED
      BY <2>1, <2>4, <3>1, GoShared
  <2> QED
    BY <1>6, <2>2, <2>3, <2>4 DEF ReadReturns, SecureReturns
<1>7. ASSUME NEW k \in Callers, RotationRenamed(k) PROVE SharedInv'
  <2>1. \A j \in Callers : Busy(j)' <=> Busy(j)
    BY <1>7 DEF RotationRenamed, Go, At, Busy, Refreshing, TypeInv, OAuthTypeOK, Calls
  <2> QED
    BY <1>7, <2>1 DEF RotationRenamed, SharedInv, FlightIsLive, TypeInv, OAuthTypeOK
<1>8. ASSUME NEW k \in Callers, RefreshFails(k) \/ RefreshReturns(k) PROVE SharedInv'
  <2>1. Busy(k) /\ Settled(k) /\ UNCHANGED loggedOut
    BY <1>8 DEF RefreshFails, RefreshReturns, At, Busy, Refreshing
  <2> QED
    BY <2>1, SettledShared
<1>9. ASSUME NEW k \in Callers, AskDevice(k) PROVE SharedInv'
  <2>1. [Resting EXCEPT !.pc = "asking"].pc \notin Refreshing
    BY DEF Resting, Refreshing
  <2> QED
    BY <1>1, <1>9, <2>1, GoShared DEF AskDevice
<1>10. ASSUME NEW k \in Callers,
              DeviceRefused(k) \/ DeviceAnswers(k) \/ FileUnlinked(k) \/ UnlinkFails(k)
       PROVE  SharedInv'
  BY <1>1, <1>10, LeaveShared DEF DeviceRefused, DeviceAnswers, FileUnlinked, UnlinkFails
<1>11. ASSUME NEW k \in Callers, Logout(k) PROVE SharedInv'
  BY <1>11 DEF Logout, SharedInv, FlightIsLive
<1>12. ASSUME NEW l \in Logins, LoginResumes(l) \/ DeviceCodeExpires(l) PROVE SharedInv'
  BY <1>2, <1>12 DEF LoginResumes, Poll, PollAnswers, PollEnds, LoginFails, Registered,
    LoginRenamed, LoginReturns, DeviceCodeExpires
<1>13. CASE CredentialsExpire \/ UNCHANGED oauthVars
  BY <1>2, <1>13 DEF CredentialsExpire, oauthVars
<1> QED
  BY <1>3, <1>5, <1>6, <1>7, <1>8, <1>9, <1>10, <1>11, <1>12, <1>13
    DEF OAuthNext, CallerResumes

--------------------------------------------------------------------------------
(* Logins                                                                  *)

\* Logins begin in the order of their generations, and one that was revoked is
\* behind the current generation before it could write.
LoginsInv ==
  /\ PendingHasPoller
  /\ oauth.status = "pending" => generation \in Logins
  /\ \A l \in Logins : ~Under(l, {"unused"}) => l <= generation
  /\ \A l \in revoked : l < generation /\ ~Under(l, Writing)

\* A new generation revokes all that poll and leaves the rest as it is.
LEMMA SupersedeRevokes ==
  ASSUME OAuthAssumption, TypeInv, LoginsInv, Supersede
  PROVE  /\ generation' = generation + 1 /\ generation' \in Logins
         /\ \A l \in Logins : l <= generation => l < generation'
         /\ \A l \in revoked' : l \in Logins /\ l <= generation /\ ~Under(l, Writing)
<1>1. generation \in 0..MaxGeneration /\ revoked \subseteq Logins
  BY DEF TypeInv, OAuthTypeOK
<1>2. generation' = generation + 1 /\ generation' \in Logins
  BY <1>1 DEF OAuthAssumption, Supersede, Logins
<1>3. \A l \in Logins : l <= generation => l < generation'
  BY <1>1, <1>2 DEF OAuthAssumption, Logins
<1>4. ASSUME NEW l \in revoked' PROVE l \in Logins /\ l <= generation /\ ~Under(l, Writing)
  <2>1. CASE l \in revoked
    BY <1>1, <2>1 DEF OAuthAssumption, LoginsInv, Logins
  <2>2. CASE l \in Logins /\ Under(l, Polling)
    BY <2>2 DEF LoginsInv, Under, Polling, Writing
  <2> QED
    BY <1>4, <2>1, <2>2 DEF Supersede
<1> QED
  BY <1>2, <1>3, <1>4

\* One login moves on, and the status is left alone or leaves "pending".
LEMMA MoveLogins ==
  ASSUME OAuthAssumption, TypeInv, LoginsInv, NEW l \in Logins, NEW pc, Moves(l, pc),
         UNCHANGED <<generation, revoked>>, ~Under(l, {"unused"}),
         pc \in Writing => Under(l, Writing) \/ l = generation,
         \/ oauth'.status # "pending"
         \/ UNCHANGED oauth /\ (pc \in Polling \cup Writing \/ l # generation)
  PROVE  LoginsInv'
<1>1. login' = [login EXCEPT ![l] = pc] /\ login \in [Logins -> Stages]
      /\ generation \in 0..MaxGeneration /\ revoked \subseteq Logins
  BY DEF Moves, TypeInv, OAuthTypeOK
<1>2. PendingHasPoller' /\ (oauth'.status = "pending" => generation' \in Logins)
  BY <1>1 DEF LoginsInv, PendingHasPoller, Under
<1>3. \A m \in Logins : ~Under(m, {"unused"})' => m <= generation'
  BY <1>1 DEF LoginsInv, Under
<1>4. \A m \in revoked' : m < generation' /\ ~Under(m, Writing)'
  BY <1>1 DEF OAuthAssumption, LoginsInv, Under, Logins
<1> QED
  BY <1>2, <1>3, <1>4 DEF LoginsInv

LEMMA LoginsStep ==
  ASSUME OAuthAssumption, TypeInv, LoginsInv, [OAuthNext]_oauthVars
  PROVE  LoginsInv'
<1> USE DEF session, logouts, tokens, OnlyTheCall, OnlyTheLoop
<1>1. ASSUME UNCHANGED <<oauth, generation, login, revoked>> PROVE LoginsInv'
  BY <1>1 DEF LoginsInv, PendingHasPoller, Under
<1>2. ASSUME NEW k \in Callers, NEW task, CallBegins(k, task) PROVE LoginsInv'
  BY <1>1, <1>2 DEF CallBegins
<1>3. ASSUME NEW k \in Callers, CallerResumes(k), ~DeviceAnswers(k) PROVE LoginsInv'
  BY <1>1, <1>3 DEF CallerResumes, FileRead, ReadReturns, FileSecured, SecureReturns,
    RotationRenamed, RefreshReturns, RefreshFails, DeviceRefused, FileUnlinked, UnlinkFails
<1>4. ASSUME NEW k \in Callers, DeviceAnswers(k) PROVE LoginsInv'
  <2>1. /\ generation' = generation + 1 /\ generation' \in Logins
        /\ \A l \in Logins : l <= generation => l < generation'
        /\ \A l \in revoked' : l \in Logins /\ l <= generation /\ ~Under(l, Writing)
    BY <1>4, SupersedeRevokes DEF DeviceAnswers
  <2>2. /\ login' = [login EXCEPT ![generation'] = "polling"]
        /\ oauth' = [status |-> "pending", login |-> generation']
        /\ login \in [Logins -> Stages] /\ generation \in Nat
    BY <1>4, <2>1 DEF DeviceAnswers, OAuthAssumption, TypeInv, OAuthTypeOK
  <2>3. PendingHasPoller'
    BY <2>1, <2>2 DEF PendingHasPoller, Under, Polling
  <2>4. \A l \in Logins : ~Under(l, {"unused"})' => l <= generation'
    BY <2>1, <2>2 DEF LoginsInv, Under, Logins
  <2>5. \A l \in revoked' : l < generation' /\ ~Under(l, Writing)'
    BY <2>1, <2>2 DEF Under, Logins
  <2> QED
    BY <2>1, <2>3, <2>4, <2>5 DEF LoginsInv
<1>5. ASSUME NEW k \in Callers, Logout(k) PROVE LoginsInv'
  <2>1. /\ generation' = generation + 1 /\ generation' \in Logins
        /\ \A l \in Logins : l <= generation => l < generation'
        /\ \A l \in revoked' : l \in Logins /\ l <= generation /\ ~Under(l, Writing)
    BY <1>5, SupersedeRevokes DEF Logout
  <2>2. UNCHANGED login /\ oauth'.status # "pending"
    BY <1>5 DEF Logout
  <2>3. \A l \in Logins : ~Under(l, {"unused"})' => l <= generation'
    BY <2>1, <2>2 DEF LoginsInv, Under, Logins, OAuthAssumption, TypeInv, OAuthTypeOK
  <2> QED
    BY <2>1, <2>2, <2>3 DEF LoginsInv, PendingHasPoller, Under
<1>6. ASSUME NEW k \in Callers, AskDevice(k) PROVE LoginsInv'
  BY <1>1, <1>6 DEF AskDevice
<1>7. ASSUME NEW l \in Logins, LoginResumes(l) PROVE LoginsInv'
  <2> USE DEF Under, Polling, Writing
  <2>1. CASE Poll(l)
    BY <2>1, MoveLogins DEF Poll
  <2>2. CASE PollAnswers(l)
    BY <2>2, MoveLogins DEF PollAnswers
  <2>3. CASE PollEnds(l)
    BY <2>3, MoveLogins DEF PollEnds, Ends, Over
  <2>4. CASE LoginFails(l)
    BY <2>4, MoveLogins DEF LoginFails, Ends, Over
  <2>5. CASE Registered(l)
    BY <2>5, MoveLogins DEF Registered, Current, Over
  <2>6. CASE LoginRenamed(l)
    BY <2>6, MoveLogins DEF LoginRenamed
  <2>7. CASE LoginReturns(l)
    BY <2>7, MoveLogins DEF LoginReturns, Ends, Over
  <2> QED
    BY <1>7, <2>1, <2>2, <2>3, <2>4, <2>5, <2>6, <2>7 DEF LoginResumes
<1>8. ASSUME NEW l \in Logins, DeviceCodeExpires(l) PROVE LoginsInv'
  BY <1>1, <1>8 DEF DeviceCodeExpires
<1>9. CASE CredentialsExpire \/ UNCHANGED oauthVars
  BY <1>1, <1>9 DEF CredentialsExpire, oauthVars
<1> QED
  BY <1>2, <1>3, <1>4, <1>5, <1>6, <1>7, <1>8, <1>9 DEF OAuthNext

--------------------------------------------------------------------------------
(* What a login leaves                                                     *)

\* Credentials of a login that went as far as writing them, unrevoked.
Innocent(c) ==
  c \in Credentials => /\ c[1] \notin revoked
                       /\ c[1] \in Logins => Under(c[1], {"renamed", "done"})

CleanInv ==
  /\ Innocent(file) /\ Innocent(memory)
  /\ \A k \in Callers : Innocent(caller[k].got)

\* A login that has written is never revoked, and its generation not used again.
LEMMA InnocentStays ==
  ASSUME OAuthAssumption, TypeInv, LoginsInv, [OAuthNext]_oauthVars
  PROVE  \A c : Innocent(c) => Innocent(c)'
<1> USE DEF session, logouts, tokens, OnlyTheCall, OnlyTheLoop
<1>1. ASSUME UNCHANGED <<login, revoked>> PROVE \A c : Innocent(c) => Innocent(c)'
  BY <1>1 DEF Innocent, Under
<1>2. ASSUME Supersede, UNCHANGED login PROVE \A c : Innocent(c) => Innocent(c)'
  BY <1>2 DEF Supersede, Innocent, Under, Polling
<1>3. ASSUME Supersede, login' = [login EXCEPT ![generation + 1] = "polling"]
      PROVE  \A c : Innocent(c) => Innocent(c)'
  <2>1. generation \in 0..MaxGeneration /\ login \in [Logins -> Stages]
    BY DEF TypeInv, OAuthTypeOK
  <2>2. \A l \in Logins : Under(l, {"renamed", "done"}) => l # generation + 1
    BY <2>1 DEF LoginsInv, Under, Logins, OAuthAssumption
  <2>3. \A l \in Logins : Under(l, {"renamed", "done"}) => Under(l, {"renamed", "done"})'
    BY <1>3, <2>1, <2>2 DEF Under
  <2> QED
    BY <1>3, <2>3 DEF Supersede, Innocent, Under, Polling
<1>4. ASSUME NEW l \in Logins, NEW pc, Moves(l, pc), UNCHANGED revoked,
             Under(l, {"renamed", "done"}) => pc \in {"renamed", "done"}
      PROVE  \A c : Innocent(c) => Innocent(c)'
  BY <1>4 DEF Moves, Innocent, Under, TypeInv, OAuthTypeOK
<1>5. ASSUME NEW k \in Callers, NEW task, CallBegins(k, task) \/ AskDevice(k)
      PROVE  \A c : Innocent(c) => Innocent(c)'
  BY <1>1, <1>5 DEF CallBegins, AskDevice
<1>6. ASSUME NEW k \in Callers, Logout(k) PROVE \A c : Innocent(c) => Innocent(c)'
  BY <1>2, <1>6 DEF Logout
<1>7. ASSUME NEW k \in Callers, CallerResumes(k) PROVE \A c : Innocent(c) => Innocent(c)'
  <2>1. CASE DeviceAnswers(k)
    BY <1>3, <2>1 DEF DeviceAnswers
  <2>2. CASE ~DeviceAnswers(k)
    BY <1>1, <1>7, <2>2 DEF CallerResumes, FileRead, ReadReturns, FileSecured, SecureReturns,
      RotationRenamed, RefreshReturns, RefreshFails, DeviceRefused, FileUnlinked, UnlinkFails
  <2> QED
    BY <2>1, <2>2
<1>8. ASSUME NEW l \in Logins, LoginResumes(l) PROVE \A c : Innocent(c) => Innocent(c)'
  BY <1>4, <1>8 DEF LoginResumes, Poll, PollAnswers, PollEnds, LoginFails, Registered,
    LoginRenamed, LoginReturns, Ends, Over, Under
<1>9. ASSUME NEW l \in Logins, DeviceCodeExpires(l) PROVE \A c : Innocent(c) => Innocent(c)'
  BY <1>1, <1>9 DEF DeviceCodeExpires
<1>10. CASE CredentialsExpire \/ UNCHANGED oauthVars
  BY <1>1, <1>10 DEF CredentialsExpire, oauthVars
<1> QED
  BY <1>5, <1>6, <1>7, <1>8, <1>9, <1>10 DEF OAuthNext

\* A rotation belongs to the login of the credentials it replaces.
LEMMA RotatedInnocent ==
  ASSUME OAuthAssumption, TypeInv, CleanInv, NEW k \in Callers, Busy(k)
  PROVE  Innocent(Rotated(caller[k].got))
<1>1. caller[k].got \in Renewable /\ caller[k].got \in Credentials
  BY DEF TypeInv, Renewable
<1> QED
  BY <1>1, RotatedType DEF CleanInv, Innocent

\* What the calls remember is what they remembered or what is in the file or in memory.
LEMMA GotStep ==
  ASSUME OAuthAssumption, TypeInv, [OAuthNext]_oauthVars
  PROVE  \A j \in Callers : caller'[j].got \in {caller[j].got, file, memory, None}
<1> USE DEF session, logouts, tokens, OnlyTheCall, OnlyTheLoop
<1> DEFINE Kept == \A j \in Callers : caller'[j].got \in {caller[j].got, file, memory, None}
<1>1. caller \in [Callers -> Calls] /\ Resting.got = None
  BY DEF TypeInv, OAuthTypeOK, Resting
<1>2. ASSUME UNCHANGED caller PROVE Kept
  BY <1>2
<1>3. ASSUME NEW k \in Callers, NEW q, Go(k, q), q.got \in {caller[k].got, file, memory, None}
      PROVE  Kept
  BY <1>1, <1>3 DEF Go
<1>4. ASSUME NEW k \in Callers, Settled(k) PROVE Kept
  BY <1>1, <1>4 DEF Settled, Released
<1>5. ASSUME NEW k \in Callers, NEW current \in {None, memory}, Resume(k, current) PROVE Kept
  <2>1. /\ [caller[k] EXCEPT !.pc = "exchanging", !.got = current].got = current
        /\ [caller[k] EXCEPT !.pc = "following", !.via = flight].got = caller[k].got
    BY <1>1 DEF Calls
  <2> QED
    BY <1>1, <1>3, <1>5, <2>1 DEF Resume, RefreshOnce, Leave
<1>6. ASSUME NEW k \in Callers, NEW task, CallBegins(k, task) PROVE Kept
  <2>1. [Resting EXCEPT !.pc = "reading", !.task = task].got = None
    BY DEF Resting
  <2> QED
    BY <1>3, <1>5, <1>6, <2>1 DEF CallBegins
<1>7. ASSUME NEW k \in Callers, FileRead(k) \/ FileSecured(k) PROVE Kept
  <2>1. \A pc : [caller[k] EXCEPT !.pc = pc, !.got = file].got = file
    BY <1>1 DEF Calls
  <2> QED
    BY <1>3, <1>7, <2>1 DEF FileRead, FileSecured
<1>8. ASSUME NEW k \in Callers, ReadReturns(k) \/ RotationRenamed(k) PROVE Kept
  <2>1. \A pc : [caller[k] EXCEPT !.pc = pc].got = caller[k].got
    BY <1>1 DEF Calls
  <2> QED
    BY <1>1, <1>3, <1>5, <1>8, <2>1 DEF ReadReturns, RotationRenamed, Leave
<1>9. ASSUME NEW k \in Callers, SecureReturns(k) PROVE Kept
  <2>1. memory' \in {None, memory} \/ Leave(k)
    BY <1>9 DEF SecureReturns
  <2> QED
    BY <1>1, <1>3, <1>5, <1>9, <2>1 DEF SecureReturns, Leave
<1>10. ASSUME NEW k \in Callers, RefreshFails(k) \/ RefreshReturns(k) PROVE Kept
  BY <1>4, <1>10 DEF RefreshFails, RefreshReturns
<1>11. ASSUME NEW k \in Callers, AskDevice(k) \/ Logout(k) PROVE Kept
  <2>1. \A pc : [Resting EXCEPT !.pc = pc].got = None
    BY DEF Resting
  <2> QED
    BY <1>3, <1>11, <2>1 DEF AskDevice, Logout
<1>12. ASSUME NEW k \in Callers,
              DeviceRefused(k) \/ DeviceAnswers(k) \/ FileUnlinked(k) \/ UnlinkFails(k)
       PROVE  Kept
  BY <1>1, <1>3, <1>12 DEF DeviceRefused, DeviceAnswers, FileUnlinked, UnlinkFails, Leave
<1>13. ASSUME NEW l \in Logins, LoginResumes(l) \/ DeviceCodeExpires(l) PROVE Kept
  BY <1>2, <1>13 DEF LoginResumes, Poll, PollAnswers, PollEnds, LoginFails, Registered,
    LoginRenamed, LoginReturns, DeviceCodeExpires
<1>14. CASE CredentialsExpire \/ UNCHANGED oauthVars
  BY <1>2, <1>14 DEF CredentialsExpire, oauthVars
<1> QED
  BY <1>6, <1>7, <1>8, <1>9, <1>10, <1>11, <1>12, <1>13, <1>14 DEF OAuthNext, CallerResumes

\* The file and the memory get what they had, a rotation, nothing, or what a login
\* obtained that is writing and therefore not revoked.
LEMMA StoreStep ==
  ASSUME OAuthAssumption, TypeInv, LoginsInv, CleanInv, [OAuthNext]_oauthVars
  PROVE  Innocent(file)' /\ Innocent(memory)'
<1> USE DEF session, logouts, tokens, OnlyTheCall, OnlyTheLoop
<1>1. \A c : Innocent(c) => Innocent(c)'
  BY InnocentStays
<1>2. Innocent(None)' /\ Innocent(file) /\ Innocent(memory)
      /\ \A k \in Callers : Innocent(caller[k].got)
  BY NoCredentials DEF Innocent, CleanInv
<1>3. ASSUME NEW x, Innocent(x), file' \in {file, None, x}, memory' \in {memory, None, x}
      PROVE  Innocent(file)' /\ Innocent(memory)'
  BY <1>1, <1>2, <1>3 DEF Innocent, Under
<1>4. ASSUME UNCHANGED <<file, memory>> PROVE Innocent(file)' /\ Innocent(memory)'
  BY <1>2, <1>3, <1>4
<1>5. ASSUME NEW k \in Callers, CallerResumes(k) PROVE Innocent(file)' /\ Innocent(memory)'
  <2>1. CASE RotationRenamed(k) \/ RefreshReturns(k)
    <3>1. Innocent(Rotated(caller[k].got))
      BY <2>1, RotatedInnocent DEF RotationRenamed, RefreshReturns, At, Busy, Refreshing
    <3> QED
      BY <1>3, <2>1, <3>1 DEF RotationRenamed, RefreshReturns
  <2>2. CASE ReadReturns(k)
    BY <1>2, <1>3, <2>2 DEF ReadReturns
  <2>3. CASE ~(RotationRenamed(k) \/ RefreshReturns(k) \/ ReadReturns(k))
    BY <1>2, <1>3, <1>5, <2>3 DEF CallerResumes, FileRead, FileSecured, SecureReturns,
      RefreshFails, DeviceRefused, DeviceAnswers, FileUnlinked, UnlinkFails
  <2> QED
    BY <2>1, <2>2, <2>3
<1>6. ASSUME NEW l \in Logins, LoginRenamed(l) \/ LoginReturns(l)
      PROVE  Innocent(file)' /\ Innocent(memory)'
  <2>1. Obtained(l)[1] = l
    BY ObtainedType DEF OAuthAssumption, Logins
  <2>2. l \notin revoked /\ UNCHANGED revoked
    BY <1>6 DEF LoginRenamed, LoginReturns, LoginsInv, Under, Writing
  <2>3. Under(l, {"renamed", "done"})'
    BY <1>6 DEF LoginRenamed, LoginReturns, Ends, Over, Moves, Under, TypeInv, OAuthTypeOK
  <2>4. Innocent(Obtained(l))'
    BY <2>1, <2>2, <2>3 DEF Innocent, Obtained
  <2>5. file' \in {file, Obtained(l)} /\ memory' \in {memory, Obtained(l)}
    BY <1>6 DEF LoginRenamed, LoginReturns
  <2> QED
    BY <1>1, <1>2, <2>4, <2>5 DEF Innocent, Obtained, Under
<1>7. ASSUME NEW l \in Logins, LoginResumes(l) \/ DeviceCodeExpires(l)
      PROVE  Innocent(file)' /\ Innocent(memory)'
  BY <1>4, <1>6, <1>7 DEF LoginResumes, Poll, PollAnswers, PollEnds, LoginFails, Registered,
    DeviceCodeExpires
<1>8. ASSUME NEW k \in Callers, Logout(k) PROVE Innocent(file)' /\ Innocent(memory)'
  BY <1>2, <1>3, <1>8 DEF Logout
<1>9. ASSUME NEW k \in Callers, NEW task, CallBegins(k, task) \/ AskDevice(k)
      PROVE  Innocent(file)' /\ Innocent(memory)'
  BY <1>4, <1>9 DEF CallBegins, AskDevice
<1>10. CASE CredentialsExpire \/ UNCHANGED oauthVars
  BY <1>4, <1>10 DEF CredentialsExpire, oauthVars
<1> QED
  BY <1>5, <1>7, <1>8, <1>9, <1>10 DEF OAuthNext

LEMMA CleanStep ==
  ASSUME OAuthAssumption, TypeInv, LoginsInv, CleanInv, [OAuthNext]_oauthVars
  PROVE  CleanInv'
<1>1. ASSUME NEW j \in Callers PROVE Innocent(caller[j].got)'
  <2>1. \A c : Innocent(c) => Innocent(c)'
    BY InnocentStays
  <2>2. Innocent(caller[j].got) /\ Innocent(file) /\ Innocent(memory) /\ Innocent(None)
    BY NoCredentials DEF CleanInv, Innocent
  <2>3. caller'[j].got \in {caller[j].got, file, memory, None}
    BY GotStep
  <2> QED
    BY <2>1, <2>2, <2>3 DEF Innocent, Under
<1> QED
  BY <1>1, StoreStep DEF CleanInv

--------------------------------------------------------------------------------
(* A quiet logout                                                          *)

\* After a quiet logout nobody reads, writes or may still register.
QuietInv ==
  quiet => /\ memory = None
           /\ Still
           /\ \A l \in Logins : Under(l, Polling) => ~Current(l)
           /\ (\A k \in Callers : ~At(k, "unlinking")) => file = None

\* A call that stays away from the file leaves a quiet state quiet.
LEMMA GoQuiet ==
  ASSUME TypeInv, QuietInv, NEW k \in Callers, NEW q, Go(k, q),
         q.pc \notin Refreshing \cup Loading, ~At(k, "unlinking"),
         UNCHANGED <<file, memory, generation, login, quiet>>
  PROVE  QuietInv'
<1>1. caller' = [caller EXCEPT ![k] = q] /\ caller \in [Callers -> Calls]
  BY DEF Go, TypeInv, OAuthTypeOK
<1>2. quiet => Still'
  BY <1>1 DEF QuietInv, Still, Under
<1>3. \A j \in Callers : At(j, "unlinking") => At(j, "unlinking")'
  BY <1>1 DEF At
<1> QED
  BY <1>2, <1>3 DEF QuietInv, Under, Current

LEMMA QuietStep ==
  ASSUME OAuthAssumption, TypeInv, LoginsInv, QuietInv, [OAuthNext]_oauthVars
  PROVE  QuietInv'
<1> USE DEF session, logouts, tokens, OnlyTheCall, OnlyTheLoop
<1>1. \A k \in Callers : quiet => ~Busy(k) /\ caller[k].pc \notin Loading
  BY DEF QuietInv, Still, Busy
<1>2. ASSUME ~quiet' PROVE QuietInv'
  BY <1>2 DEF QuietInv
<1>3. ASSUME UNCHANGED <<file, memory, generation, login, quiet, caller>> PROVE QuietInv'
  BY <1>3 DEF QuietInv, Still, Under, Current, At
<1>4. ASSUME NEW k \in Callers, ~At(k, "unlinking"), Leave(k),
             UNCHANGED <<file, memory, generation, login, quiet>>
      PROVE  QuietInv'
  <2>1. Resting.pc \notin Refreshing \cup Loading
    BY DEF Resting, Refreshing, Loading
  <2> QED
    BY <1>4, <2>1, GoQuiet DEF Leave
<1>5. ASSUME NEW k \in Callers, NEW task, CallBegins(k, task) PROVE QuietInv'
  <2>1. CASE ~quiet
    BY <1>2, <1>5, <2>1 DEF CallBegins
  <2>2. CASE quiet
    <3>1. memory = None /\ memory # Unread
      BY <2>2, NoCredentials DEF QuietInv
    <3>2. Leave(k) /\ ~At(k, "unlinking")
      BY <1>5, <3>1 DEF CallBegins, Resume, At
    <3> QED
      BY <1>4, <1>5, <3>2 DEF CallBegins
  <2> QED
    BY <2>1, <2>2
<1>6. ASSUME NEW k \in Callers, FileRead(k) \/ ReadReturns(k) \/ FileSecured(k)
             \/ SecureReturns(k) \/ RotationRenamed(k) \/ RefreshReturns(k) \/ RefreshFails(k)
      PROVE  QuietInv'
  <2>1. ~quiet /\ UNCHANGED quiet
    BY <1>1, <1>6 DEF FileRead, ReadReturns, FileSecured, SecureReturns, RotationRenamed,
      RefreshReturns, RefreshFails, At, Busy, Refreshing, Loading
  <2> QED
    BY <1>2, <2>1
<1>7. ASSUME NEW k \in Callers, AskDevice(k) PROVE QuietInv'
  <2>1. [Resting EXCEPT !.pc = "asking"].pc \notin Refreshing \cup Loading
    BY DEF Resting, Refreshing, Loading
  <2> QED
    BY <1>7, <2>1, GoQuiet DEF AskDevice, At
<1>8. ASSUME NEW k \in Callers, DeviceRefused(k) PROVE QuietInv'
  BY <1>4, <1>8 DEF DeviceRefused, At
<1>9. ASSUME NEW k \in Callers, DeviceAnswers(k) \/ UnlinkFails(k) PROVE QuietInv'
  BY <1>2, <1>9 DEF DeviceAnswers, UnlinkFails
<1>10. ASSUME NEW k \in Callers, FileUnlinked(k) PROVE QuietInv'
  <2>1. caller' = [caller EXCEPT ![k] = Resting] /\ Resting.pc \notin Refreshing \cup Loading
    BY <1>10 DEF FileUnlinked, Leave, Go, Resting, Refreshing, Loading
  <2>2. quiet => Still'
    BY <1>10, <2>1 DEF FileUnlinked, QuietInv, Still, Under, TypeInv, OAuthTypeOK
  <2> QED
    BY <1>10, <2>2 DEF FileUnlinked, QuietInv, Under, Current
<1>11. ASSUME NEW k \in Callers, Logout(k) PROVE QuietInv'
  <2>1. At(k, "unlinking")'
    BY <1>11 DEF Logout, Go, At, Resting, TypeInv, OAuthTypeOK
  <2>2. [Resting EXCEPT !.pc = "unlinking"].pc \notin Refreshing \cup Loading
    BY DEF Resting, Refreshing, Loading
  <2>3. quiet' => Still'
    BY <1>11, <2>2 DEF Logout, Go, QuietInv, Still, Under, TypeInv, OAuthTypeOK
  <2>4. \A l \in Logins : Under(l, Polling)' => ~Current(l)'
    <3>1. \A l \in Logins : l <= generation => l < generation'
      BY <1>11, SupersedeRevokes DEF Logout
    <3>2. \A l \in Logins : Under(l, Polling) => l <= generation
      BY DEF LoginsInv, Under, Polling
    <3> QED
      BY <1>11, <3>1, <3>2 DEF Logout, Under, Current, Logins, OAuthAssumption
  <2> QED
    BY <1>11, <2>1, <2>3, <2>4 DEF Logout, QuietInv
<1>12. ASSUME NEW l \in Logins, LoginResumes(l) PROVE QuietInv'
  <2>1. CASE ~quiet
    <3>1. UNCHANGED quiet
      BY <1>12 DEF LoginResumes, Poll, PollAnswers, PollEnds, LoginFails, Registered,
        LoginRenamed, LoginReturns
    <3> QED
      BY <1>2, <2>1, <3>1
  <2>2. CASE quiet
    <3>1. ~Under(l, Writing) /\ (Under(l, Polling) => ~Current(l))
      BY <2>2 DEF QuietInv, Still
    <3>2. /\ UNCHANGED <<file, memory, generation, quiet, caller>>
          /\ \E pc \in {"waiting", "polling", "registering", "done"} :
               Moves(l, pc) /\ Under(l, Polling)
      BY <1>12, <3>1 DEF LoginResumes, Poll, PollAnswers, PollEnds, LoginFails, Registered,
        LoginRenamed, LoginReturns, Ends, Over, Under, Polling, Writing
    <3>3. Still' /\ \A m \in Logins : Under(m, Polling)' => ~Current(m)'
      BY <2>2, <3>1, <3>2 DEF QuietInv, Still, Moves, Under, Writing, Polling, Current,
        TypeInv, OAuthTypeOK
    <3> QED
      BY <3>2, <3>3 DEF QuietInv, At
  <2> QED
    BY <2>1, <2>2
<1>13. ASSUME NEW l \in Logins, DeviceCodeExpires(l) PROVE QuietInv'
  BY <1>3, <1>13 DEF DeviceCodeExpires
<1>14. CASE CredentialsExpire \/ UNCHANGED oauthVars
  BY <1>3, <1>14 DEF CredentialsExpire, oauthVars
<1> QED
  BY <1>5, <1>6, <1>7, <1>8, <1>9, <1>10, <1>11, <1>12, <1>13, <1>14
    DEF OAuthNext, CallerResumes

--------------------------------------------------------------------------------
(* Theorems                                                                *)

OAuthInv == TypeInv /\ SharedInv /\ LoginsInv /\ CleanInv /\ QuietInv

LEMMA InvInit ==
  ASSUME OAuthAssumption, OAuthInit
  PROVE  OAuthInv
<1>1. TypeInv
  BY TypeInit
<1>2. \A k \in Callers : ~Busy(k)
  BY DEF OAuthInit, Resting, Busy, Refreshing
<1>3. SharedInv
  BY <1>2 DEF OAuthInit, SharedInv, FlightIsLive
<1>4. LoginsInv
  BY DEF OAuthInit, LoginsInv, PendingHasPoller, Under
<1>5. CleanInv
  <2>1. Obtained(0)[1] = 0 /\ 0 \notin Logins
    BY DEF Obtained, Logins, OAuthAssumption
  <2> QED
    BY <2>1, NoCredentials DEF OAuthInit, CleanInv, Innocent, Resting
<1>6. QuietInv
  BY DEF OAuthInit, QuietInv
<1> QED
  BY <1>1, <1>3, <1>4, <1>5, <1>6 DEF OAuthInv

\* The inductive invariant of the Cline credentials.
THEOREM OAuthInvariant == OAuthSpec => []OAuthInv
<1>1. OAuthInit => OAuthInv
  BY OAuthAssumption, InvInit
<1>2. OAuthInv /\ [OAuthNext]_oauthVars => OAuthInv'
  BY OAuthAssumption, TypeStep, SharedStep, LoginsStep, CleanStep, QuietStep DEF OAuthInv
<1> QED
  BY <1>1, <1>2, PTL DEF OAuthSpec

\* Every variable of the adapter keeps its type.
THEOREM OAuthTypeCorrect == OAuthSpec => []OAuthTypeOK
<1>1. OAuthInv => OAuthTypeOK
  BY DEF OAuthInv, TypeInv
<1> QED
  BY <1>1, OAuthInvariant, PTL

\* However many requests meet stale credentials (#validCredentials), no two
\* exchange the same refresh token at a time, until a logout.
THEOREM OneRefreshAtATime == OAuthSpec => []SingleFlight
<1>1. OAuthInv => SingleFlight
  BY DEF OAuthInv, SharedInv, SingleFlight
<1> QED
  BY <1>1, OAuthInvariant, PTL

\* #refreshInFlight is never a promise that has settled.
THEOREM FlightsAreLive == OAuthSpec => []FlightIsLive
<1>1. OAuthInv => FlightIsLive
  BY DEF OAuthInv, SharedInv
<1> QED
  BY <1>1, OAuthInvariant, PTL

\* A pending status belongs to the newest login, which is still under way.
THEOREM PendingIsAlive == OAuthSpec => []PendingHasPoller
<1>1. OAuthInv => PendingHasPoller
  BY DEF OAuthInv, LoginsInv
<1> QED
  BY <1>1, OAuthInvariant, PTL

\* What a login obtained after it was replaced or logged out is dropped for good.
THEOREM RevokedLoginsDropped == OAuthSpec => []RevokedLoginLeavesNothing
<1>1. OAuthInv => RevokedLoginLeavesNothing
  BY DEF OAuthInv, CleanInv, Innocent, RevokedLoginLeavesNothing
<1> QED
  BY <1>1, OAuthInvariant, PTL

\* A logout that meets no file operation removes the credentials until a login begins.
THEOREM QuietLogoutIsFinal == OAuthSpec => []LogoutIsFinal
<1>1. OAuthInv => LogoutIsFinal
  BY DEF OAuthInv, QuietInv, LogoutIsFinal
<1> QED
  BY <1>1, OAuthInvariant, PTL

================================================================================
