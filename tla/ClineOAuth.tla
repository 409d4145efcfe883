------------------------------ MODULE ClineOAuth ------------------------------
(***************************************************************************)
(* The credentials of the Cline adapter (cline-oauth.mjs): a file and its  *)
(* copy in memory, which device logins write, requests refresh, and a      *)
(* logout removes.  Every await of these operations is a step of its own,  *)
(* and a file operation takes effect before its caller resumes.            *)
(***************************************************************************)
EXTENDS Naturals

CONSTANTS
  Callers,        \* calls of the adapter: requests, status, login, logout
  MaxGeneration,  \* bound on #oauthGeneration
  MaxTurn,        \* bound on the rotations of one login's credentials
  None,           \* null, and no such file
  Unread          \* undefined: the file has not been looked at

ASSUME OAuthAssumption ==
  /\ MaxGeneration \in Nat /\ MaxTurn \in Nat \ {0}
  /\ None # Unread /\ None \notin Callers
  /\ {None, Unread} \cap (Nat \X Nat) = {}

VARIABLES
  file,        \* the credentials file
  memory,      \* #credentials
  stale,       \* credentials that expire within the refresh buffer
  flight,      \* #refreshInFlight: the caller that started the refresh
  oauth,       \* #oauthState
  generation,  \* #oauthGeneration
  login,       \* the #completeOAuth of each generation
  overdue,     \* generations whose device code has expired
  caller,      \* where each call is
  revoked,     \* history: logins replaced or logged out while polling
  loggedOut,   \* history: there has been a logout
  quiet        \* history: a logout met no write or read, and no login since

oauthVars == <<file, memory, stale, flight, oauth, generation, login, overdue,
               caller, revoked, loggedOut, quiet>>

\* What login g obtained, rotated n times; the stored one is of login 0.
Credentials == (0..MaxGeneration) \X (0..MaxTurn)
Obtained(g) == <<g, 0>>
Rotated(c) == <<c[1], c[2] + 1>>

Logins == 1..MaxGeneration
Polling == {"waiting", "polling", "registering"}
Writing == {"writing", "renamed"}
Loading == {"reading", "read", "securing", "secured"}
Refreshing == {"exchanging", "renamed"}

Resting == [pc |-> "idle", task |-> "use", got |-> None, via |-> None]
At(k, pc) == caller[k].pc = pc
Go(k, q) == caller' = [caller EXCEPT ![k] = q]
Leave(k) == Go(k, Resting)

Busy(k) == caller[k].pc \in Refreshing
Under(l, pcs) == login[l] \in pcs

tokens == <<file, memory, stale, flight>>
session == <<oauth, generation, login, overdue, revoked>>
logouts == <<loggedOut, quiet>>

OnlyTheCall == UNCHANGED <<tokens, session, logouts>>

OAuthInit ==
  /\ file \in {None, Obtained(0)} /\ memory = Unread
  /\ stale \in SUBSET {Obtained(0)}
  /\ flight = None
  /\ oauth = [status |-> "idle", login |-> 0] /\ generation = 0
  /\ login = [l \in Logins |-> "unused"] /\ overdue = {}
  /\ caller = [k \in Callers |-> Resting]
  /\ revoked = {}
  /\ loggedOut = FALSE /\ quiet = FALSE

--------------------------------------------------------------------------------
(* #loadCredentials and #validCredentials                                  *)

\* Slip: every caller that meets stale credentials refreshes them.
RefreshEach(k, current) ==
  /\ Go(k, [caller[k] EXCEPT !.pc = "exchanging", !.got = current])
  /\ flight' = k

\* One refresh in flight, which the others await.
RefreshOnce(k, current) ==
  IF flight = None
  THEN /\ Go(k, [caller[k] EXCEPT !.pc = "exchanging", !.got = current])
       /\ flight' = k
  ELSE /\ Go(k, [caller[k] EXCEPT !.pc = "following", !.via = flight])
       /\ UNCHANGED flight

\* What a call does with the loaded credentials, without another await: it
\* fails, goes on with them, or has them refreshed.
Resume(k, current) ==
  IF caller[k].task = "status" \/ current = None \/ current \notin stale
  THEN Leave(k) /\ UNCHANGED flight
  ELSE RefreshOnce(k, current)

\* oauthStatus reads the credentials only when no login has been tried.
CallBegins(k, task) ==
  /\ At(k, "idle")
  /\ task = "status" => oauth.status = "idle"
  /\ IF memory = Unread
     THEN Go(k, [Resting EXCEPT !.pc = "reading", !.task = task]) /\ UNCHANGED flight
     ELSE /\ task = "use"
          /\ Resume(k, memory)
  /\ UNCHANGED <<file, memory, stale, session, logouts>>

FileRead(k) ==
  /\ At(k, "reading")
  /\ Go(k, [caller[k] EXCEPT !.pc = "read", !.got = file])
  /\ OnlyTheCall

\* An unreadable file fails the call and is looked at again by the next one.
ReadReturns(k) ==
  /\ At(k, "read")
  /\ \/ Leave(k) /\ UNCHANGED <<memory, flight>>
     \/ /\ memory' = caller[k].got
        /\ IF caller[k].got = None
           THEN Resume(k, None)
           ELSE Go(k, [caller[k] EXCEPT !.pc = "securing"]) /\ UNCHANGED flight
  /\ UNCHANGED <<file, stale, session, logouts>>

FileSecured(k) ==
  /\ At(k, "securing")
  /\ Go(k, [caller[k] EXCEPT !.pc = "secured", !.got = file])
  /\ OnlyTheCall

\* chmod of a file that is gone is ENOENT again; another failure is thrown.
SecureReturns(k) ==
  /\ At(k, "secured")
  /\ \/ caller[k].got # None /\ Leave(k) /\ UNCHANGED <<memory, flight>>
     \/ /\ memory' = IF caller[k].got = None THEN None ELSE memory
        /\ Resume(k, memory')
  /\ UNCHANGED <<file, stale, session, logouts>>

--------------------------------------------------------------------------------
(* #refreshCredentials                                                     *)

Awaiting(k) == {j \in Callers : j = k \/ (At(j, "following") /\ caller[j].via = k)}
Released(k) == [j \in Callers |-> IF j \in Awaiting(k) THEN Resting ELSE caller[j]]

\* The promise settles: its caller and all that await it go on, and
\* #refreshInFlight is cleared, whatever it is by now.
Settled(k) == caller' = Released(k) /\ flight' = None

\* The exchange, the writing or, after the rename, the chmod failed.
RefreshFails(k) ==
  /\ Busy(k)
  /\ Settled(k)
  /\ UNCHANGED <<file, memory, stale, session, logouts>>

\* The exchange is answered and the new file renamed into place.
RotationRenamed(k) ==
  /\ At(k, "exchanging")
  /\ file' = Rotated(caller[k].got)
  /\ Go(k, [caller[k] EXCEPT !.pc = "renamed"])
  /\ UNCHANGED <<memory, stale, flight, session, logouts>>

RefreshReturns(k) ==
  /\ At(k, "renamed")
  /\ memory' = Rotated(caller[k].got)
  /\ Settled(k)
  /\ UNCHANGED <<file, stale, session, logouts>>

--------------------------------------------------------------------------------
(* startOAuth and #completeOAuth                                           *)

\* A login that is still pending is returned as it is.
AskDevice(k) ==
  /\ At(k, "idle")
  /\ ~(oauth.status = "pending" /\ oauth.login \notin overdue)
  /\ Go(k, [Resting EXCEPT !.pc = "asking"])
  /\ OnlyTheCall

DeviceRefused(k) ==
  /\ At(k, "asking") /\ Leave(k)
  /\ OnlyTheCall

\* ++#oauthGeneration: no login that is under way is the current one.
Supersede ==
  /\ generation < MaxGeneration /\ generation' = generation + 1
  /\ revoked' = revoked \cup {l \in Logins : Under(l, Polling)}

\* Another caller may have started a login meanwhile: it is replaced.
DeviceAnswers(k) ==
  /\ At(k, "asking")
  /\ Supersede
  /\ oauth' = [status |-> "pending", login |-> generation + 1]
  /\ login' = [login EXCEPT ![generation + 1] = "polling"]
  /\ Leave(k) /\ quiet' = FALSE
  /\ UNCHANGED <<tokens, overdue, loggedOut>>

OnlyTheLoop == UNCHANGED <<tokens, oauth, generation, revoked, caller, logouts>>
Moves(l, pc) == login' = [login EXCEPT ![l] = pc]
\* The device code matters no longer.
Over(l) == Moves(l, "done") /\ overdue' = overdue \ {l}

\* Slip: a failure is not put into the state.
EndsSilently(l, status) == Over(l) /\ UNCHANGED oauth
Ends(l, status) == Over(l) /\ oauth' = [status |-> status, login |-> 0]

\* Slip: the loop does not look at the clock.
InTimeAlways(l) == TRUE
InTime(l) == l \notin overdue

\* The sleep is over and the device code is still good.
Poll(l) ==
  /\ Under(l, {"waiting"}) /\ InTime(l)
  /\ Moves(l, "polling") /\ OnlyTheLoop /\ UNCHANGED overdue

PollEnds(l) ==
  /\ Under(l, {"waiting"}) /\ ~InTime(l)
  /\ Ends(l, "expired")
  /\ UNCHANGED <<tokens, generation, revoked, caller, logouts>>

\* Tokens, authorization_pending or slow_down.
PollAnswers(l) ==
  /\ Under(l, {"polling"})
  /\ Moves(l, "registering") \/ Moves(l, "waiting")
  /\ OnlyTheLoop /\ UNCHANGED overdue

\* Any throw of the loop.  The generation is not looked at: a login that was
\* replaced reports its failure all the same.
LoginFails(l) ==
  /\ Under(l, {"polling", "registering"} \cup Writing)
  /\ \/ Ends(l, "error")
     \/ Under(l, {"polling"}) /\ Ends(l, "expired")
  /\ UNCHANGED <<tokens, generation, revoked, caller, logouts>>

\* Slip: the generation is not compared.
CurrentAlways(l) == TRUE
Current(l) == l = generation

\* The generation is compared once, before the file is written.
Registered(l) ==
  /\ Under(l, {"registering"})
  /\ IF Current(l) THEN Moves(l, "writing") /\ UNCHANGED overdue ELSE Over(l)
  /\ OnlyTheLoop

LoginRenamed(l) ==
  /\ Under(l, {"writing"})
  /\ file' = Obtained(l)
  /\ Moves(l, "renamed")
  /\ UNCHANGED <<memory, stale, flight, oauth, generation, overdue, revoked, caller, logouts>>

LoginReturns(l) ==
  /\ Under(l, {"renamed"})
  /\ memory' = Obtained(l)
  /\ Ends(l, "authenticated")
  /\ UNCHANGED <<file, stale, flight, generation, revoked, caller, logouts>>

--------------------------------------------------------------------------------
(* logout                                                                  *)

\* Nothing is being written to the file or read from it.
Still == /\ \A k \in Callers : caller[k].pc \notin Refreshing \cup Loading
         /\ \A l \in Logins : ~Under(l, Writing)

Logout(k) ==
  /\ At(k, "idle")
  /\ Supersede
  /\ oauth' = [status |-> "login_required", login |-> 0]
  /\ memory' = None /\ flight' = None
  /\ Go(k, [Resting EXCEPT !.pc = "unlinking"])
  /\ loggedOut' = TRUE /\ quiet' = (quiet \/ Still)
  /\ UNCHANGED <<file, stale, login, overdue>>

FileUnlinked(k) ==
  /\ At(k, "unlinking")
  /\ file' = None /\ Leave(k)
  /\ UNCHANGED <<memory, stale, flight, session, logouts>>

\* cline_logout_failed: the file stays, and a restart will read it again.
UnlinkFails(k) ==
  /\ At(k, "unlinking") /\ file # None
  /\ Leave(k) /\ quiet' = FALSE
  /\ UNCHANGED <<tokens, session, loggedOut>>

--------------------------------------------------------------------------------
(* The clock                                                               *)

\* The last turn a run looks at does not expire.
CredentialsExpire ==
  /\ \E c \in ({file, memory} \cap Credentials) \ stale :
       c[2] < MaxTurn /\ stale' = stale \cup {c}
  /\ UNCHANGED <<file, memory, flight, caller, session, logouts>>

DeviceCodeExpires(l) ==
  /\ Under(l, Polling) /\ l \notin overdue
  /\ overdue' = overdue \cup {l}
  /\ UNCHANGED <<tokens, oauth, generation, login, revoked, caller, logouts>>

CallerResumes(k) ==
  \/ FileRead(k) \/ ReadReturns(k) \/ FileSecured(k) \/ SecureReturns(k)
  \/ RotationRenamed(k) \/ RefreshReturns(k) \/ RefreshFails(k)
  \/ DeviceRefused(k) \/ DeviceAnswers(k) \/ FileUnlinked(k) \/ UnlinkFails(k)

LoginResumes(l) ==
  \/ Poll(l) \/ PollAnswers(l) \/ PollEnds(l) \/ LoginFails(l)
  \/ Registered(l) \/ LoginRenamed(l) \/ LoginReturns(l)

OAuthNext ==
  \/ \E k \in Callers :
       \/ \E task \in {"use", "status"} : CallBegins(k, task)
       \/ AskDevice(k)
       \/ Logout(k)
       \/ CallerResumes(k)
  \/ \E l \in Logins : LoginResumes(l) \/ DeviceCodeExpires(l)
  \/ CredentialsExpire

\* Every fetch has a timeout, sleeps and file operations end, time passes.
OAuthFairness == \A l \in Logins :
  WF_oauthVars(LoginResumes(l)) /\ WF_oauthVars(DeviceCodeExpires(l))

OAuthSpec == OAuthInit /\ [][OAuthNext]_oauthVars /\ OAuthFairness

--------------------------------------------------------------------------------
(* Properties                                                              *)

Calls == [pc : {"idle", "following", "asking", "unlinking"} \cup Loading \cup Refreshing,
          task : {"use", "status"}, got : Credentials \cup {None},
          via : Callers \cup {None}]
Stages == {"unused", "done"} \cup Polling \cup Writing
Statuses == [status : {"idle", "pending", "authenticated", "expired", "error", "login_required"},
             login : 0..MaxGeneration]

\* The type of the state.
OAuthTypeOK ==
  /\ file \in Credentials \cup {None} /\ memory \in Credentials \cup {None, Unread}
  /\ stale \subseteq Credentials
  /\ flight \in Callers \cup {None}
  /\ oauth \in Statuses /\ generation \in 0..MaxGeneration
  /\ login \in [Logins -> Stages]
  /\ overdue \subseteq Logins /\ revoked \subseteq Logins
  /\ caller \in [Callers -> Calls]
  /\ loggedOut \in BOOLEAN /\ quiet \in BOOLEAN

\* A refresh token is exchanged by one call at a time (#refreshInFlight,
\* cline-oauth.mjs:449), however the calls, the first reads of the file and
\* the logins interleave.  A logout ends this: it forgets the flight, and the
\* end of the forgotten one then clears its successor's (450-452).
SingleFlight ==
  loggedOut \/ \A j, k \in Callers :
    Busy(j) /\ Busy(k) /\ caller[j].got = caller[k].got => j = k

\* What calls are sent to await is a refresh that is still running: neither a
\* failed one nor one that a logout forgot stays in #refreshInFlight.
FlightIsLive == flight # None => Busy(flight)

\* After a logout that met no file operation the credentials are gone, from
\* memory and, once the unlink returned, from disk, and stay gone until the
\* next login begins, although device logins may still have been polling or
\* registering (test/cline-oauth.test.mjs:311).
LogoutIsFinal ==
  quiet => /\ memory = None
           /\ (\A k \in Callers : ~At(k, "unlinking")) => file = None

\* A login that was replaced or logged out before its registration came back
\* never has credentials in memory or on disk, in any rotation.
RevokedLoginLeavesNothing ==
  \A c \in {file, memory} \cap Credentials : c[1] \notin revoked

\* The user is told to confirm a device code only while the newest login
\* polls for it or stores what it obtained: no pending status outlives its
\* login, so the next startOAuth is never turned away by a dead one.
PendingHasPoller ==
  oauth.status = "pending" =>
    /\ oauth.login = generation
    /\ Under(generation, Polling \cup Writing)

\* Every pending login comes to an end by itself: by an answer, a failure or
\* the expiry of the device code.
LoginsSettle == oauth.status = "pending" ~> oauth.status # "pending"

================================================================================
