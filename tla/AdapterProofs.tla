----------------------------- MODULE AdapterProofs -----------------------------
(***************************************************************************)
(* Proofs about the adapters, for any number of calls, pools, keys,        *)
(* credentials and turns: the Zen credential refreshes once and keeps a    *)
(* valid token through an outage, a conversation has one Zen session at a  *)
(* time, no tool call of Copilot Auto outlives its session, and a second   *)
(* head that throws is written only by the lanes that do not look.         *)
(***************************************************************************)
EXTENDS ZenSessions, ZenCredential, CopilotAuto, FrontEnd, TLAPS

--------------------------------------------------------------------------------
(* The Zen credential                                                      *)

Hold == [pc : {"idle", "refresh", "await", "done", "failed"}, cred : Versions]

\* What was never issued has not aged, and the mark of a refresh is its own.
CredInv ==
  /\ hold \in [Holders -> Hold] /\ inFlight \in Holders \cup {NoHolder}
  /\ issued \in Versions /\ stored \in Versions \cup {-1}
  /\ age \in [Versions -> Ages]
  /\ \A v \in Versions : v > issued => age[v] = "fresh"
  /\ OneRefresh

\* A call that ends a refresh ends the wait of all who share it.
LEMMA SettledRefresh ==
  ASSUME CredInv, NEW h \in Holders, hold[h].pc = "refresh",
         hold' \in [Holders -> Hold], inFlight' = NoHolder,
         \A g \in Holders : hold'[g].pc \notin {"refresh", "await"}
  PROVE  OneRefresh'
BY HolderAssumption DEF OneRefresh

LEMMA RejectedShape ==
  ASSUME CredInv, Rejected
  PROVE  /\ hold' \in [Holders -> Hold]
         /\ \A g \in Holders : hold'[g].pc \notin {"refresh", "await"}
         /\ \A g \in Holders : hold[g].pc \in {"refresh", "await"} =>
              /\ hold'[g].cred = hold[g].cred
              /\ hold'[g].pc = IF age[hold[g].cred] = "expired" THEN "failed" ELSE "done"
<1>1. ASSUME NEW g \in Holders
      PROVE  /\ hold'[g] \in Hold /\ hold'[g].pc \notin {"refresh", "await"}
             /\ hold[g].pc \in {"refresh", "await"} =>
                  /\ hold'[g].cred = hold[g].cred
                  /\ hold'[g].pc = IF age[hold[g].cred] = "expired" THEN "failed" ELSE "done"
  <2>1. hold[g] \in Hold
    BY DEF CredInv
  <2>2. CASE g \notin Waiting
    BY <2>1, <2>2 DEF Rejected, Waiting
  <2>3. CASE g \in Waiting
    <3>1. hold'[g] = [hold[g] EXCEPT !.pc = IF age[hold[g].cred] = "expired" THEN "failed" ELSE "done"]
      BY <2>3 DEF Rejected
    <3> QED  BY <2>1, <3>1 DEF Hold
  <2> QED  BY <2>2, <2>3
<1>2. hold' = [g \in Holders |-> hold'[g]]
  BY DEF Rejected
<1>3. hold' \in [Holders -> Hold]
  BY <1>1, <1>2
<1> QED  BY <1>1, <1>3

LEMMA ResolvedShape ==
  ASSUME CredInv, NEW v \in Versions, Resolved(v)
  PROVE  /\ hold' \in [Holders -> Hold]
         /\ \A g \in Holders : hold'[g].pc \notin {"refresh", "await"}
         /\ \A g \in Holders : hold[g].pc \in {"refresh", "await"} => hold'[g] = [pc |-> "done", cred |-> v]
<1>1. \A g \in Holders : hold[g] \in Hold
  BY DEF CredInv
<1>2. \A g \in Holders : hold'[g] = IF g \in Waiting THEN [pc |-> "done", cred |-> v] ELSE hold[g]
  BY DEF Resolved
<1>3. \A g \in Holders : hold'[g] \in Hold
  BY <1>1, <1>2 DEF Hold
<1>4. hold' = [g \in Holders |-> hold'[g]]
  BY DEF Resolved
<1> QED  BY <1>2, <1>3, <1>4 DEF Waiting

\* Every step keeps the invariant, and answers no call with an expired token
\* or, while its own holds, with an error.
LEMMA CredStep ==
  ASSUME CredInv, [CredNext]_credVars
  PROVE  /\ CredInv'
         /\ \A h \in Holders : hold[h].pc \in {"refresh", "await"} =>
              /\ hold'[h].pc = "failed" => age[hold[h].cred] = "expired"
              /\ hold'[h].pc = "done" => age[hold'[h].cred] # "expired"
<1> DEFINE Kept == \A h \in Holders : hold[h].pc \in {"refresh", "await"} =>
                     /\ hold'[h].pc = "failed" => age[hold[h].cred] = "expired"
                     /\ hold'[h].pc = "done" => age[hold'[h].cred] # "expired"
<1>1. ASSUME NEW h \in Holders, Missing(h) \/ Good(h) \/ Refresh(h) \/ Again(h)
      PROVE  CredInv' /\ Kept
  <2>1. /\ hold[h].pc \in {"idle", "done", "failed"}
        /\ UNCHANGED <<stored, issued, age>>
    BY <1>1 DEF Missing, Good, Refresh, Again
  <2>2. hold' \in [Holders -> Hold] /\ \A g \in Holders : g # h => hold'[g] = hold[g]
    <3>1. hold[h] \in Hold /\ 0 \in Versions /\ (stored # -1 => stored \in Versions)
      BY HolderAssumption DEF CredInv, Versions
    <3>2. \E e \in Hold : hold' = [hold EXCEPT ![h] = e]
      <4>1. CASE Missing(h)
        BY <3>1, <4>1 DEF Missing, CredInv, Hold
      <4>2. CASE Good(h)
        BY <3>1, <4>2 DEF Good, CredInv, Hold
      <4>3. CASE Refresh(h)
        BY <3>1, <4>3 DEF Refresh, CredInv, Hold
      <4>4. CASE Again(h)
        BY <3>1, <4>4 DEF Again, CredInv, Hold
      <4> QED  BY <1>1, <4>1, <4>2, <4>3, <4>4
    <3> QED  BY <3>2 DEF CredInv
  <2>3. OneRefresh'
    <3>1. ASSUME inFlight' = inFlight, hold'[h].pc \in {"idle", "done", "failed"}
          PROVE  OneRefresh'
      BY <2>1, <2>2, <3>1 DEF CredInv, OneRefresh
    <3>2. hold \in [Holders -> Hold]
      BY DEF CredInv
    <3>3. CASE Missing(h) \/ Good(h) \/ Again(h)
      <4>1. inFlight' = inFlight
        BY <3>3 DEF Missing, Good, Again
      <4>2. hold'[h].pc \in {"idle", "done", "failed"}
        BY <3>2, <3>3 DEF Missing, Good, Again, Hold
      <4> QED  BY <3>1, <4>1, <4>2
    <3>4. CASE Refresh(h)
      <4>1. /\ hold'[h].pc = IF inFlight = NoHolder THEN "refresh" ELSE "await"
            /\ inFlight' = IF inFlight = NoHolder THEN h ELSE inFlight
        BY <3>2, <3>4 DEF Refresh
      <4> QED  BY <2>1, <2>2, <4>1, HolderAssumption DEF CredInv, OneRefresh
    <3> QED  BY <1>1, <3>3, <3>4
  <2>4. inFlight' \in Holders \cup {NoHolder}
    BY <1>1 DEF Missing, Good, Refresh, Again, CredInv
  <2>5. Kept
    BY <2>1, <2>2
  <2> QED  BY <2>1, <2>2, <2>3, <2>4, <2>5 DEF CredInv
<1>2. ASSUME NEW h \in Holders, Refused(h)
      PROVE  CredInv' /\ Kept
  <2>1. /\ hold[h].pc = "refresh" /\ Rejected /\ inFlight' = NoHolder /\ UNCHANGED <<stored, issued, age>>
    BY <1>2 DEF Refused
  <2>2. OneRefresh' /\ hold' \in [Holders -> Hold]
    BY <2>1, RejectedShape, SettledRefresh
  <2>3. Kept
    BY <2>1, RejectedShape
  <2> QED  BY <2>1, <2>2, <2>3 DEF CredInv
<1>3. ASSUME NEW h \in Holders, NEW rotates \in BOOLEAN, NEW written \in BOOLEAN, Renewed(h, rotates, written)
      PROVE  CredInv' /\ Kept
  <2>1. /\ hold[h].pc = "refresh" /\ inFlight' = NoHolder /\ age' = age
        /\ issued + 1 \in Versions /\ issued' = issued + 1
        /\ stored' = IF written THEN issued + 1 ELSE stored
        /\ IF written THEN Resolved(issued + 1) ELSE Rejected
    BY <1>3 DEF Renewed
  <2>2. issued \in Int /\ age[issued + 1] = "fresh"
    BY <2>1 DEF CredInv, Versions
  <2>3. OneRefresh' /\ hold' \in [Holders -> Hold] /\ Kept
    <3>1. CASE written
      <4>1. OneRefresh' /\ hold' \in [Holders -> Hold]
        BY <2>1, <3>1, ResolvedShape, SettledRefresh
      <4>2. \A g \in Holders : hold[g].pc \in {"refresh", "await"} => hold'[g] = [pc |-> "done", cred |-> issued + 1]
        BY <2>1, <3>1, ResolvedShape
      <4> QED  BY <2>2, <4>1, <4>2
    <3>2. CASE ~written
      BY <2>1, <3>2, RejectedShape, SettledRefresh
    <3> QED  BY <3>1, <3>2
  <2>4. /\ stored' \in Versions \cup {-1}
        /\ \A v \in Versions : v > issued' => age'[v] = "fresh"
    BY <2>1, <2>2 DEF CredInv, Versions
  <2> QED  BY <2>1, <2>3, <2>4 DEF CredInv
<1>4. ASSUME NEW v \in Versions, Grows(v)
      PROVE  CredInv' /\ Kept
  <2>1. /\ v <= issued /\ UNCHANGED <<stored, issued, inFlight, hold>>
        /\ age' = [age EXCEPT ![v] = IF @ = "fresh" THEN "ending" ELSE "expired"]
    BY <1>4 DEF Grows
  <2>2. age' \in [Versions -> Ages] /\ \A w \in Versions : w > issued' => age'[w] = "fresh"
    BY <2>1 DEF CredInv, Ages, Versions
  <2>3. OneRefresh'
    BY <2>1 DEF CredInv, OneRefresh
  <2>4. Kept
    BY <2>1
  <2> QED  BY <2>1, <2>2, <2>3, <2>4 DEF CredInv
<1>5. CASE SignIn
  <2>1. /\ issued + 1 \in Versions /\ issued' = issued + 1 /\ stored' = issued + 1
        /\ UNCHANGED <<age, inFlight, hold>>
    BY <1>5 DEF SignIn
  <2>2. OneRefresh'
    BY <2>1 DEF CredInv, OneRefresh
  <2>3. \A v \in Versions : v > issued' => age'[v] = "fresh"
    BY <2>1 DEF CredInv, Versions
  <2> QED  BY <2>1, <2>2, <2>3 DEF CredInv, Versions
<1>6. CASE UNCHANGED credVars
  BY <1>6 DEF credVars, CredInv, OneRefresh
<1> QED  BY <1>1, <1>2, <1>3, <1>4, <1>5, <1>6 DEF CredNext

\* The inductive invariant of the credential.
THEOREM CredentialInvariant == CredSpec => []CredInv
<1>1. CredInit => CredInv
  BY HolderAssumption DEF CredInit, CredInv, OneRefresh, Hold, Versions, Ages
<1>2. CredInv /\ [CredNext]_credVars => CredInv'
  BY CredStep
<1> QED  BY <1>1, <1>2, PTL DEF CredSpec

\* At most one refresh is under way, whoever asks (resolve): a refresh token is
\* never presented twice at a time.
THEOREM RefreshesAreShared == CredSpec => []OneRefresh
<1>1. CredInv => OneRefresh
  BY DEF CredInv
<1> QED  BY <1>1, CredentialInvariant, PTL

\* No call fails while the token it read holds, and none gets an expired one
\* (resolve's fallback on the stored credential).
THEOREM OutagesKeepTokens == CredSpec => OutageKeepsValidToken
<1>1. CredInv /\ [CredNext]_credVars =>
        [\A h \in Holders : hold[h].pc \in {"refresh", "await"} =>
           /\ hold'[h].pc = "failed" => age[hold[h].cred] = "expired"
           /\ hold'[h].pc = "done" => age[hold'[h].cred] # "expired"]_credVars
  BY CredStep
<1> QED  BY <1>1, CredentialInvariant, PTL DEF CredSpec, OutageKeepsValidToken

--------------------------------------------------------------------------------
(* One Zen session for a key                                               *)

Asking == [pc : PCs, key : Keys \cup {NoKey}, on : Askers \cup {Nobody},
           got : Askers \cup {Nobody}, minted : Nat]

\* Between its selection and its session.
Active == {"probe", "wait1", "probe2", "wait2", "probe3", "boot", "mint"}

Minter(b) == ask[b].got = b /\ ask[b].key \in Keys

SameKey(a, b) == Home[a] = Home[b] /\ ask[a].key = ask[b].key

\* Who is on its way to a session of a key is the one that others wait for, and
\* every earlier session of the key has outlived its ttl; the newest session of
\* a key is the one that sticks.
SessionInv ==
  /\ clock \in Nat /\ ask \in [Askers -> Asking]
  /\ sticky \in [Pools -> SUBSET (Keys \X Askers)]
  /\ stickyPending \in [Pools -> [Keys -> Askers \cup {Nobody}]]
  /\ \A a \in Askers : ask[a].minted <= clock /\ (ask[a].pc # "done" => ask[a].got = Nobody)
  /\ \A a \in Askers : ask[a].pc \in Active /\ ask[a].key \in Keys => stickyPending[Home[a]][ask[a].key] = a
  /\ \A p \in Pools, k \in Keys, s \in Askers : <<k, s>> \in sticky[p] => ask[s].pc = "done"
  /\ \A b \in Askers : Minter(b) =>
       \E s \in Askers : <<ask[b].key, s>> \in sticky[Home[b]] /\ ask[b].minted <= ask[s].minted
  /\ \A a, b \in Askers : ask[a].pc \in Active /\ Minter(b) /\ SameKey(a, b) => clock - ask[b].minted > Ttl
  /\ OneSessionPerKey

\* Steps that mint nothing and ask for nothing: calls go on or fail.
LEMMA MoveKeepsSessions ==
  ASSUME SessionInv, ask' \in [Askers -> Asking], clock' = clock, sticky' = sticky,
         stickyPending' \in [Pools -> [Keys -> Askers \cup {Nobody}]],
         \A b \in Askers : /\ ask'[b].key = ask[b].key /\ ask'[b].got = ask[b].got
                           /\ ask'[b].minted = ask[b].minted
                           /\ ask'[b].pc = "done" <=> ask[b].pc = "done"
                           /\ ask'[b].pc \in Active => ask[b].pc \in Active
                           /\ ask'[b].pc \in Active /\ ask[b].key \in Keys =>
                                stickyPending'[Home[b]][ask[b].key] = b
  PROVE  SessionInv'
<1>1. \A b \in Askers : ask'[b].minted <= clock' /\ (ask'[b].pc # "done" => ask'[b].got = Nobody)
  BY DEF SessionInv
<1>2. \A p \in Pools, k \in Keys, s \in Askers : <<k, s>> \in sticky'[p] => ask'[s].pc = "done"
  BY DEF SessionInv
<1>3. \A b \in Askers : Minter(b)' <=> Minter(b)
  BY DEF Minter
<1>4. \A a, b \in Askers : SameKey(a, b)' <=> SameKey(a, b)
  BY DEF SameKey
<1>5. \A b \in Askers : Minter(b)' =>
        \E s \in Askers : <<ask'[b].key, s>> \in sticky'[Home[b]] /\ ask'[b].minted <= ask'[s].minted
  BY <1>3 DEF SessionInv
<1>6. \A a, b \in Askers : ask'[a].pc \in Active /\ Minter(b)' /\ SameKey(a, b)' => clock' - ask'[b].minted > Ttl
  BY <1>3, <1>4 DEF SessionInv
<1>7. OneSessionPerKey'
  BY DEF SessionInv, OneSessionPerKey
<1>8. \A a \in Askers : ask'[a].pc \in Active /\ ask'[a].key \in Keys => stickyPending'[Home[a]][ask'[a].key] = a
  OBVIOUS
<1> QED  BY <1>1, <1>2, <1>5, <1>6, <1>7, <1>8 DEF SessionInv

\* A request selects for a key: it may set out for a new session only when
\* nobody else has, and when no session of the key can be reused.
LEMMA AskKeepsSessions ==
  ASSUME SessionInv, NEW a \in Askers, ask[a].pc = "idle", NEW r \in Asking, ask' = [ask EXCEPT ![a] = r],
         r.minted = 0, r.got # a, r.pc # "done" => r.got = Nobody, clock' = clock, sticky' = sticky,
         stickyPending' \in [Pools -> [Keys -> Askers \cup {Nobody}]],
         \A b \in Askers : ask[b].pc \in Active /\ ask[b].key \in Keys => stickyPending'[Home[b]][ask[b].key] = b,
         r.pc \in Active /\ r.key \in Keys =>
            stickyPending'[Home[a]][r.key] = a /\ Affine(Home[a], r.key) = {}
  PROVE  SessionInv'
<1>1. /\ ask \in [Askers -> Asking] /\ clock \in Nat /\ ask' \in [Askers -> Asking]
      /\ \A b \in Askers : ask'[b] = IF b = a THEN r ELSE ask[b]
  BY DEF SessionInv
<1>2. \A b \in Askers : ask'[b].minted <= clock' /\ (ask'[b].pc # "done" => ask'[b].got = Nobody)
  BY <1>1 DEF SessionInv
<1>3. \A b \in Askers : ask'[b].pc \in Active /\ ask'[b].key \in Keys => stickyPending'[Home[b]][ask'[b].key] = b
  BY <1>1
<1>4. \A p \in Pools, k \in Keys, s \in Askers : <<k, s>> \in sticky'[p] => s # a /\ ask'[s].pc = "done"
  BY <1>1 DEF SessionInv
<1>5. \A b \in Askers : Minter(b)' => b # a /\ Minter(b)
  BY <1>1 DEF Minter
<1>6. \A b \in Askers : Minter(b)' =>
        \E s \in Askers : <<ask'[b].key, s>> \in sticky'[Home[b]] /\ ask'[b].minted <= ask'[s].minted
  <2> SUFFICES ASSUME NEW b \in Askers, Minter(b)'
               PROVE  \E s \in Askers : <<ask'[b].key, s>> \in sticky'[Home[b]] /\ ask'[b].minted <= ask'[s].minted
    OBVIOUS
  <2>1. PICK s \in Askers : <<ask[b].key, s>> \in sticky[Home[b]] /\ ask[b].minted <= ask[s].minted
    BY <1>5 DEF SessionInv
  <2>2. ask[b].key \in Keys /\ Home[b] \in Pools
    BY <1>5, ZenAssumption DEF Minter
  <2>3. s # a
    BY <1>4, <2>1, <2>2
  <2> QED  BY <1>1, <1>5, <2>1, <2>3
<1>7. ASSUME NEW c \in Askers, NEW b \in Askers, ask'[c].pc \in Active, Minter(b)', SameKey(c, b)'
      PROVE  clock' - ask'[b].minted > Ttl
  <2>1. b # a /\ ask'[b] = ask[b] /\ Minter(b) /\ ask[b].key \in Keys
    BY <1>1, <1>5, <1>7 DEF Minter
  <2>2. CASE c # a
    BY <1>1, <1>7, <2>1, <2>2 DEF SessionInv, SameKey
  <2>3. CASE c = a
    <3>1. r.pc \in Active /\ Home[b] = Home[a] /\ ask[b].key = r.key /\ r.key \in Keys
      BY <1>1, <1>7, <2>1, <2>3 DEF SameKey
    <3>2. PICK s \in Askers : <<ask[b].key, s>> \in sticky[Home[b]] /\ ask[b].minted <= ask[s].minted
      BY <2>1 DEF SessionInv
    <3>3. ~(clock - ask[s].minted <= Ttl)
      BY <3>1, <3>2 DEF Affine
    <3>4. ask[s].minted \in Nat /\ ask[b].minted \in Nat /\ Ttl \in Nat
      BY <1>1, ZenAssumption DEF Asking
    <3> QED  BY <1>1, <2>1, <3>2, <3>3, <3>4
  <2> QED  BY <2>2, <2>3
<1>8. OneSessionPerKey'
  <2> SUFFICES ASSUME NEW b \in Askers, NEW c \in Askers, b # c, ask'[b].got = b, ask'[c].got = c,
                      Home[b] = Home[c], ask'[b].key = ask'[c].key, ask'[b].key # NoKey
               PROVE  ask'[b].minted - ask'[c].minted > Ttl \/ ask'[c].minted - ask'[b].minted > Ttl
    BY DEF OneSessionPerKey
  <2>1. b # a /\ c # a
    BY <1>1
  <2> QED  BY <1>1, <2>1 DEF SessionInv, OneSessionPerKey
<1> QED  BY <1>1, <1>2, <1>3, <1>4, <1>6, <1>7, <1>8 DEF SessionInv

\* A session is minted.  Whoever else mints is not for the same key, and the
\* earlier sessions of the key are out of their ttl.
LEMMA MintKeepsSessions ==
  ASSUME SessionInv, NEW a \in Askers, Mint(a)
  PROVE  SessionInv'
<1> DEFINE p == Home[a]
           k == ask[a].key
<1>1. /\ ask[a].pc = "mint" /\ p \in Pools /\ clock' = clock /\ clock \in Nat
      /\ ask \in [Askers -> Asking] /\ k \in Keys \cup {NoKey} /\ ask[a].got = Nobody
      /\ a # Nobody /\ NoKey \notin Keys
  BY ZenAssumption DEF Mint, SessionInv, Asking
<1>2. ASSUME NEW b \in Askers
      PROVE  /\ ask'[b] \in Asking
             /\ ask'[b].key = ask[b].key
             /\ b = a => ask'[b].pc = "done" /\ ask'[b].got = a /\ ask'[b].minted = clock
             /\ b # a => \/ ask'[b] = ask[b] /\ b \notin Followers(a)
                         \/ ask[b].pc = "follow" /\ ask'[b].pc = "done" /\ ask'[b].got = a /\ ask'[b].minted = ask[b].minted
  <2>1. ask[b] \in Asking
    BY <1>1
  <2>2. b = a => ask'[b] = [ask[b] EXCEPT !.pc = "done", !.on = Nobody, !.got = a, !.minted = clock]
    BY <1>1, <2>1 DEF Mint, Answered, Asking
  <2>3. b # a => ask'[b] = IF b \in Followers(a) THEN [ask[b] EXCEPT !.pc = "done", !.on = Nobody, !.got = a] ELSE ask[b]
    BY <1>1, <2>1 DEF Mint, Answered
  <2>4. b \in Followers(a) => ask[b].pc = "follow"
    BY DEF Followers
  <2>5. ask'[b] \in Asking /\ ask'[b].key = ask[b].key
    <3>1. ASSUME NEW m \in Nat
          PROVE  LET r == [ask[b] EXCEPT !.pc = "done", !.on = Nobody, !.got = a, !.minted = m]
                 IN  r \in Asking /\ r.key = ask[b].key
      BY <2>1 DEF Asking, PCs
    <3>2. LET r == [ask[b] EXCEPT !.pc = "done", !.on = Nobody, !.got = a]
          IN  r \in Asking /\ r.key = ask[b].key
      BY <2>1 DEF Asking, PCs
    <3> QED  BY <1>1, <2>1, <2>2, <2>3, <3>1, <3>2
  <2>6. b = a => ask'[b].pc = "done" /\ ask'[b].got = a /\ ask'[b].minted = clock
    BY <2>1, <2>2 DEF Asking
  <2>7. b \in Followers(a) /\ b # a => ask'[b].pc = "done" /\ ask'[b].got = a /\ ask'[b].minted = ask[b].minted
    BY <2>1, <2>3 DEF Asking
  <2> QED  BY <2>3, <2>4, <2>5, <2>6, <2>7
<1>3. ask' \in [Askers -> Asking]
  <2>1. ask' = [b \in Askers |-> ask'[b]]
    BY <1>1 DEF Mint, Answered
  <2> QED  BY <1>2, <2>1
<1>4. \A b \in Askers : /\ ask[b].pc = "done" => b # a /\ ask'[b] = ask[b]
                        /\ ask'[b].pc \in Active => b # a /\ ask'[b] = ask[b]
                        /\ ask'[b].pc # "done" => b # a /\ ask'[b] = ask[b]
  BY <1>1, <1>2 DEF Active
<1>5. \A b \in Askers : /\ ask'[b].got = b /\ b # a => ask'[b] = ask[b]
                        /\ Minter(b)' /\ b # a => Minter(b)
  BY <1>2 DEF Minter
<1>6. \A b \in Askers : ask'[b].minted <= clock' /\ (ask'[b].pc # "done" => ask'[b].got = Nobody)
  <2>1. \A b \in Askers : ask[b].minted <= clock /\ (ask[b].pc # "done" => ask[b].got = Nobody)
    BY DEF SessionInv
  <2>2. \A b \in Askers : ask'[b].minted = clock \/ ask'[b].minted = ask[b].minted
    BY <1>2
  <2> QED  BY <1>1, <1>4, <2>1, <2>2
<1>7. stickyPending' \in [Pools -> [Keys -> Askers \cup {Nobody}]]
  BY DEF Mint, Settled, SessionInv
<1>8. \A b \in Askers : ask'[b].pc \in Active /\ ask'[b].key \in Keys => stickyPending'[Home[b]][ask'[b].key] = b
  <2> SUFFICES ASSUME NEW b \in Askers, ask'[b].pc \in Active, ask'[b].key \in Keys
               PROVE  stickyPending'[Home[b]][ask'[b].key] = b
    OBVIOUS
  <2>1. b # a /\ ask'[b] = ask[b] /\ Home[b] \in Pools
    BY <1>4, ZenAssumption
  <2>2. stickyPending[Home[b]][ask[b].key] = b
    BY <2>1 DEF SessionInv
  <2> QED  BY <2>1, <2>2 DEF Mint, Settled
<1>9. /\ sticky' \in [Pools -> SUBSET (Keys \X Askers)]
      /\ \A q \in Pools, j \in Keys, s \in Askers : <<j, s>> \in sticky'[q] => s = a \/ <<j, s>> \in sticky[q]
      /\ \A q \in Pools, j \in Keys, s \in Askers :
            <<j, s>> \in sticky[q] /\ (q # p \/ j # k) => <<j, s>> \in sticky'[q]
      /\ k \in Keys => <<k, a>> \in sticky'[p]
  <2>1. sticky \in [Pools -> SUBSET (Keys \X Askers)]
    BY DEF SessionInv
  <2>2. CASE k = NoKey
    BY <1>1, <2>1, <2>2 DEF Mint
  <2>3. CASE k # NoKey
    <3>1. sticky' = [sticky EXCEPT ![p] = {e \in @ : e[1] # k} \cup {<<k, a>>}] /\ k \in Keys
      BY <1>1, <2>3 DEF Mint
    <3>2. \A q \in Pools : sticky'[q] = IF q = p THEN {e \in sticky[p] : e[1] # k} \cup {<<k, a>>} ELSE sticky[q]
      BY <2>1, <3>1
    <3>3. sticky' \in [Pools -> SUBSET (Keys \X Askers)]
      BY <1>1, <2>1, <3>1
    <3> QED  BY <1>1, <3>1, <3>2, <3>3
  <2> QED  BY <2>2, <2>3
<1>10. \A q \in Pools, j \in Keys, s \in Askers : <<j, s>> \in sticky'[q] => ask'[s].pc = "done"
  <2>1. \A q \in Pools, j \in Keys, s \in Askers : <<j, s>> \in sticky[q] => ask[s].pc = "done"
    BY DEF SessionInv
  <2> QED  BY <1>2, <1>4, <1>9, <2>1
<1>11. \A b \in Askers : Minter(b)' =>
         \E s \in Askers : <<ask'[b].key, s>> \in sticky'[Home[b]] /\ ask'[b].minted <= ask'[s].minted
  <2> SUFFICES ASSUME NEW b \in Askers, Minter(b)'
               PROVE  \E s \in Askers : <<ask'[b].key, s>> \in sticky'[Home[b]] /\ ask'[b].minted <= ask'[s].minted
    OBVIOUS
  <2>1. ask'[b].key \in Keys /\ ask'[b].key = ask[b].key /\ Home[b] \in Pools
    BY <1>2, ZenAssumption DEF Minter
  <2>2. ask'[b].minted <= clock /\ ask'[a].minted = clock
    BY <1>1, <1>2, <1>6
  <2>3. CASE SameKey(a, b)
    BY <1>9, <2>1, <2>2, <2>3 DEF SameKey
  <2>4. CASE ~SameKey(a, b)
    <3>1. b # a /\ Minter(b) /\ ask'[b] = ask[b]
      BY <1>5, <2>4 DEF SameKey, Minter
    <3>2. PICK s \in Askers : <<ask[b].key, s>> \in sticky[Home[b]] /\ ask[b].minted <= ask[s].minted
      BY <3>1 DEF SessionInv
    <3>3. <<ask[b].key, s>> \in sticky'[Home[b]]
      BY <1>9, <2>1, <2>4, <3>2 DEF SameKey
    <3>4. ask[s].pc = "done"
      BY <2>1, <3>2 DEF SessionInv
    <3>5. ask'[s] = ask[s]
      BY <1>4, <3>4
    <3> QED  BY <2>1, <3>1, <3>2, <3>3, <3>5
  <2> QED  BY <2>3, <2>4
<1>12. \A b \in Askers : Minter(b) /\ SameKey(a, b) => clock - ask[b].minted > Ttl
  BY <1>1 DEF SessionInv, Active
<1>13. ASSUME NEW c \in Askers, NEW b \in Askers, ask'[c].pc \in Active, Minter(b)', SameKey(c, b)'
       PROVE  clock' - ask'[b].minted > Ttl
  <2>1. c # a /\ ask'[c] = ask[c]
    BY <1>4, <1>13
  <2>2. CASE b = a
    <3>1. k \in Keys /\ ask[c].key = k /\ Home[c] = p
      BY <1>2, <1>13, <2>1, <2>2 DEF SameKey, Minter
    <3>2. stickyPending[p][k] = c /\ stickyPending[p][k] = a
      BY <1>1, <1>13, <2>1, <3>1 DEF SessionInv, Active
    <3> QED  BY <2>1, <3>2
  <2>3. CASE b # a
    <3>1. Minter(b) /\ ask'[b] = ask[b]
      BY <1>5, <1>13, <2>3 DEF Minter
    <3> QED  BY <1>1, <1>13, <2>1, <3>1 DEF SessionInv, SameKey
  <2> QED  BY <2>2, <2>3
<1>14. OneSessionPerKey'
  <2> SUFFICES ASSUME NEW b \in Askers, NEW c \in Askers, b # c, ask'[b].got = b, ask'[c].got = c,
                      Home[b] = Home[c], ask'[b].key = ask'[c].key, ask'[b].key # NoKey
               PROVE  ask'[b].minted - ask'[c].minted > Ttl \/ ask'[c].minted - ask'[b].minted > Ttl
    BY DEF OneSessionPerKey
  <2>1. ask'[b].key \in Keys /\ ask'[c].key \in Keys
    BY <1>2 DEF Asking
  <2>2. CASE b # a /\ c # a
    BY <1>5, <2>2 DEF SessionInv, OneSessionPerKey
  <2>3. CASE b = a
    <3>1. c # a /\ ask'[c] = ask[c] /\ Minter(c) /\ SameKey(a, c)
      BY <1>2, <1>5, <2>1, <2>3 DEF Minter, SameKey
    <3> QED  BY <1>2, <1>12, <2>3, <3>1
  <2>4. CASE c = a
    <3>1. b # a /\ ask'[b] = ask[b] /\ Minter(b) /\ SameKey(a, b)
      BY <1>2, <1>5, <2>1, <2>4 DEF Minter, SameKey
    <3> QED  BY <1>2, <1>12, <2>4, <3>1
  <2> QED  BY <2>2, <2>3, <2>4
<1> QED  BY <1>1, <1>3, <1>6, <1>7, <1>8, <1>9, <1>10, <1>11, <1>13, <1>14 DEF SessionInv
\* A move of one request that changes no more than where it stands.
LEMMA PlaceKeepsSessions ==
  ASSUME SessionInv, NEW a \in Askers, ask[a].pc \in Active, NEW pc \in Active, NEW on \in Askers \cup {Nobody},
         ask' = [ask EXCEPT ![a] = [@ EXCEPT !.pc = pc, !.on = on]],
         clock' = clock, sticky' = sticky, stickyPending' = stickyPending
  PROVE  SessionInv'
<1>1. ask[a] \in Asking /\ ask \in [Askers -> Asking]
  BY DEF SessionInv
<1>2. [ask[a] EXCEPT !.pc = pc, !.on = on] \in Asking
  BY <1>1 DEF Asking, PCs, Active
<1>3. ask' \in [Askers -> Asking]
  BY <1>1, <1>2
<1>4. \A b \in Askers : /\ ask'[b].key = ask[b].key /\ ask'[b].got = ask[b].got
                        /\ ask'[b].minted = ask[b].minted
                        /\ ask'[b].pc = IF b = a THEN pc ELSE ask[b].pc
  BY <1>1 DEF Asking
<1>5. \A b \in Askers : ask'[b].pc = "done" <=> ask[b].pc = "done"
  BY <1>4 DEF Active
<1>6. \A b \in Askers : ask'[b].pc \in Active => ask[b].pc \in Active
  BY <1>4
<1>7. \A b \in Askers : ask'[b].pc \in Active /\ ask[b].key \in Keys => stickyPending'[Home[b]][ask[b].key] = b
  BY <1>6 DEF SessionInv
<1>8. stickyPending' \in [Pools -> [Keys -> Askers \cup {Nobody}]]
  BY DEF SessionInv
<1> QED  BY <1>3, <1>4, <1>5, <1>6, <1>7, <1>8, MoveKeepsSessions

\* The marks of starts name requests.
Marks == serverStarts \in Askers \cup {Nobody} /\ starting \in [Pools -> Askers \cup {Nobody}]

LEMMA EnsureKeepsSessions ==
  ASSUME SessionInv, Marks, NEW a \in Askers, Reachable(a) \/ JoinStart(a) \/ StartOver(a) \/ Spawn(a)
  PROVE  SessionInv'
<1>1. /\ ask[a] \in Asking /\ ask \in [Askers -> Asking] /\ ask[a].on \in Askers \cup {Nobody}
      /\ starting[Home[a]] \in Askers \cup {Nobody} /\ serverStarts \in Askers \cup {Nobody}
  BY ZenAssumption DEF SessionInv, Asking, Marks
<1>2. /\ clock' = clock /\ sticky' = sticky /\ stickyPending' = stickyPending
      /\ ask[a].pc \in Active
  BY DEF Reachable, JoinStart, StartOver, Spawn, MustStart, Active
<1>3. \E pc \in Active, on \in Askers \cup {Nobody} : ask' = [ask EXCEPT ![a] = [@ EXCEPT !.pc = pc, !.on = on]]
  <2>1. ASSUME NEW pc, At(a, pc)
        PROVE  ask' = [ask EXCEPT ![a] = [@ EXCEPT !.pc = pc, !.on = ask[a].on]]
    <3>1. [ask[a] EXCEPT !.pc = pc] = [ask[a] EXCEPT !.pc = pc, !.on = ask[a].on]
      BY <1>1 DEF Asking
    <3> QED  BY <1>1, <2>1, <3>1 DEF At
  <2>2. CASE Reachable(a) \/ StartOver(a)
    BY <1>1, <2>1, <2>2 DEF Reachable, StartOver, Active
  <2>3. CASE Spawn(a)
    BY <1>1, <2>1, <2>3 DEF Spawn, Active
  <2>4. CASE JoinStart(a)
    BY <1>1, <2>4 DEF JoinStart, Active
  <2> QED  BY <2>2, <2>3, <2>4
<1>4. PICK pc \in Active, on \in Askers \cup {Nobody} : ask' = [ask EXCEPT ![a] = [@ EXCEPT !.pc = pc, !.on = on]]
  BY <1>3
<1> QED  BY <1>2, <1>4, PlaceKeepsSessions

\* A start that ends brings its own request and those that wait for it on, or
\* fails them with all that follow them.
LEMMA EndKeepsSessions ==
  ASSUME SessionInv, NEW a \in Askers, NEW ok \in BOOLEAN, StartEnds(a, ok)
  PROVE  SessionInv'
<1> DEFINE waits(b)  == ask[b].pc \in {"wait1", "wait2"} /\ ask[b].on = a
           lost(b)   == ~ok /\ (b = a \/ waits(b))
           failed(b) == lost(b) \/ \E l \in Askers : lost(l) /\ b \in Followers(l)
           next(b)   == IF failed(b) THEN "failed"
                        ELSE IF b = a THEN "mint"
                        ELSE IF ~waits(b) THEN ask[b].pc
                        ELSE IF ask[b].pc = "wait1" THEN "probe2" ELSE "probe3"
<1>1. /\ ask[a].pc = "boot" /\ clock' = clock /\ sticky' = sticky
      /\ ask' = [b \in Askers |-> [ask[b] EXCEPT !.pc = next(b),
                                                 !.on = IF failed(b) \/ waits(b) THEN Nobody ELSE @]]
      /\ stickyPending' = [q \in Pools |-> [j \in Keys |->
             LET l == stickyPending[q][j] IN IF l # Nobody /\ failed(l) THEN Nobody ELSE l]]
  BY Zenon DEF StartEnds
<1>2. ASSUME NEW b \in Askers
      PROVE  /\ failed(b) => ask[b].pc \in {"boot", "wait1", "wait2", "follow"}
             /\ next(b) = "done" <=> ask[b].pc = "done"
             /\ next(b) \in Active => ask[b].pc \in Active /\ ~failed(b)
             /\ next(b) \in PCs
  <2>1. failed(b) => ask[b].pc \in {"boot", "wait1", "wait2", "follow"}
    BY <1>1 DEF Followers
  <2>2. ask[b].pc \in PCs
    BY DEF SessionInv, Asking
  <2> HIDE DEF failed
  <2> QED  BY <1>1, <2>1, <2>2 DEF Active, PCs
<1> HIDE DEF next, failed
<1>3. ask \in [Askers -> Asking] /\ stickyPending \in [Pools -> [Keys -> Askers \cup {Nobody}]]
  BY DEF SessionInv
<1>4. \A b \in Askers : /\ ask'[b] \in Asking /\ ask'[b].pc = next(b) /\ ask'[b].key = ask[b].key
                        /\ ask'[b].got = ask[b].got /\ ask'[b].minted = ask[b].minted
  <2> SUFFICES ASSUME NEW b \in Askers
               PROVE  /\ ask'[b] \in Asking /\ ask'[b].pc = next(b) /\ ask'[b].key = ask[b].key
                      /\ ask'[b].got = ask[b].got /\ ask'[b].minted = ask[b].minted
    OBVIOUS
  <2>1. ask[b] \in Asking /\ next(b) \in PCs
    BY <1>2, <1>3
  <2>2. \E o \in Askers \cup {Nobody} : ask'[b] = [ask[b] EXCEPT !.pc = next(b), !.on = o]
    BY <1>1, <2>1 DEF Asking
  <2> QED  BY <2>1, <2>2 DEF Asking
<1>5. ask' \in [Askers -> Asking]
  <2>1. ask' = [b \in Askers |-> ask'[b]]
    BY <1>1
  <2> QED  BY <1>4, <2>1
<1>6. stickyPending' \in [Pools -> [Keys -> Askers \cup {Nobody}]]
  BY <1>1, <1>3
<1>7. \A b \in Askers : ask'[b].pc \in Active /\ ask[b].key \in Keys => stickyPending'[Home[b]][ask[b].key] = b
  <2> SUFFICES ASSUME NEW b \in Askers, ask'[b].pc \in Active, ask[b].key \in Keys
               PROVE  stickyPending'[Home[b]][ask[b].key] = b
    OBVIOUS
  <2>1. ~failed(b) /\ ask[b].pc \in Active
    BY <1>2, <1>4
  <2>2. stickyPending[Home[b]][ask[b].key] = b /\ Home[b] \in Pools
    BY <2>1, ZenAssumption DEF SessionInv
  <2> QED  BY <1>1, <2>1, <2>2
<1>8. \A b \in Askers : /\ ask'[b].pc = "done" <=> ask[b].pc = "done"
                        /\ ask'[b].pc \in Active => ask[b].pc \in Active
  BY <1>2, <1>4
<1> QED  BY <1>1, <1>4, <1>5, <1>6, <1>7, <1>8, MoveKeepsSessions

\* A failed POST answers the request and its followers with an error.
LEMMA MintFailsKeepsSessions ==
  ASSUME SessionInv, NEW a \in Askers, MintFails(a)
  PROVE  SessionInv'
<1>1. /\ ask[a].pc = "mint" /\ clock' = clock /\ sticky' = sticky /\ ask \in [Askers -> Asking]
      /\ ask' = Answered(ask, a, Nobody) /\ stickyPending' = Settled(stickyPending, a)
  BY DEF MintFails, SessionInv
<1>2. ASSUME NEW b \in Askers
      PROVE  /\ ask'[b] \in Asking /\ ask'[b].key = ask[b].key /\ ask'[b].got = ask[b].got
             /\ ask'[b].minted = ask[b].minted
             /\ ask'[b].pc = "done" <=> ask[b].pc = "done"
             /\ ask'[b].pc \in Active => b # a /\ ask[b].pc \in Active
  <2>1. ask[b] \in Asking /\ (ask[b].pc # "done" => ask[b].got = Nobody)
    BY <1>1 DEF SessionInv
  <2>2. CASE b \in {a} \cup Followers(a)
    <3>1. ask'[b] = [ask[b] EXCEPT !.pc = "failed", !.on = Nobody, !.got = Nobody]
      BY <1>1, <2>2 DEF Answered
    <3>2. ask[b].pc \in {"mint", "follow"}
      BY <1>1, <2>2 DEF Followers
    <3> QED  BY <2>1, <3>1, <3>2 DEF Asking, PCs, Active
  <2>3. CASE b \notin {a} \cup Followers(a)
    BY <1>1, <2>1, <2>3 DEF Answered
  <2> QED  BY <2>2, <2>3
<1>3. ask' \in [Askers -> Asking]
  <2>1. ask' = [b \in Askers |-> ask'[b]]
    BY <1>1 DEF Answered
  <2> QED  BY <1>2, <2>1
<1>4. stickyPending' \in [Pools -> [Keys -> Askers \cup {Nobody}]]
  BY <1>1 DEF Settled, SessionInv
<1>5. \A b \in Askers : ask'[b].pc \in Active /\ ask[b].key \in Keys => stickyPending'[Home[b]][ask[b].key] = b
  <2> SUFFICES ASSUME NEW b \in Askers, ask'[b].pc \in Active, ask[b].key \in Keys
               PROVE  stickyPending'[Home[b]][ask[b].key] = b
    OBVIOUS
  <2>1. b # a /\ Home[b] \in Pools /\ stickyPending[Home[b]][ask[b].key] = b
    BY <1>2, ZenAssumption DEF SessionInv
  <2> QED  BY <1>1, <2>1 DEF Settled
<1> QED  BY <1>1, <1>2, <1>3, <1>4, <1>5, MoveKeepsSessions

\* A request that selects follows another, reuses a session, or sets out for one.
LEMMA SelectKeepsSessions ==
  ASSUME SessionInv, NEW a \in Askers, NEW k \in Keys \cup {NoKey}, SessionId(a, k)
  PROVE  SessionInv'
<1> DEFINE p     == Home[a]
           lead  == IF k = NoKey THEN Nobody ELSE stickyPending[p][k]
           asked == [Fresh EXCEPT !.key = k]
<1>1. /\ ask[a].pc = "idle" /\ clock' = clock /\ sticky' = sticky /\ p \in Pools
      /\ ask \in [Askers -> Asking] /\ stickyPending \in [Pools -> [Keys -> Askers \cup {Nobody}]]
      /\ NoKey \notin Keys /\ Nobody \notin Askers
  BY ZenAssumption DEF SessionId, SessionInv
<1>2. asked = [pc |-> "idle", key |-> k, on |-> Nobody, got |-> Nobody, minted |-> 0]
  BY DEF Fresh
<1>3. \A b \in Askers : ask[b].pc \in Active /\ ask[b].key \in Keys => b # a /\ stickyPending[Home[b]][ask[b].key] = b
  BY <1>1 DEF SessionInv, Active
<1>4. \/ /\ lead # Nobody
         /\ ask' = [ask EXCEPT ![a] = [asked EXCEPT !.pc = "follow", !.on = lead]]
         /\ stickyPending' = stickyPending
      \/ \E s \in Affine(p, k) :
            /\ ask' = [ask EXCEPT ![a] = [asked EXCEPT !.pc = "done", !.got = s]]
            /\ stickyPending' = stickyPending
      \/ /\ lead = Nobody /\ Affine(p, k) = {}
         /\ ask' = [ask EXCEPT ![a] = [asked EXCEPT !.pc = "probe"]]
         /\ stickyPending' = IF k = NoKey THEN stickyPending ELSE [stickyPending EXCEPT ![p][k] = a]
  BY Zenon DEF SessionId
<1>8. lead \in Askers \cup {Nobody}
  BY <1>1
<1>9. asked \in Asking /\ asked.minted = 0 /\ asked.got = Nobody
  BY <1>2 DEF Asking, PCs
<1> HIDE DEF lead, p, asked
<1>5. CASE lead # Nobody /\ ask' = [ask EXCEPT ![a] = [asked EXCEPT !.pc = "follow", !.on = lead]]
             /\ stickyPending' = stickyPending
  <2> DEFINE r == [asked EXCEPT !.pc = "follow", !.on = lead]
  <2>1. r \in Asking /\ r.pc = "follow" /\ r.minted = 0 /\ r.got = Nobody
    BY <1>8, <1>9 DEF Asking, PCs
  <2>3. ask' = [ask EXCEPT ![a] = r]
    BY <1>5
  <2> HIDE DEF r
  <2>2. r \in Asking /\ r.minted = 0 /\ r.got = Nobody /\ r.pc \notin Active /\ r.got # a
    BY <1>1, <2>1 DEF Active
  <2> QED  BY <1>1, <1>3, <1>5, <2>2, <2>3, AskKeepsSessions
<1>6. ASSUME NEW s \in Affine(p, k), ask' = [ask EXCEPT ![a] = [asked EXCEPT !.pc = "done", !.got = s]],
             stickyPending' = stickyPending
      PROVE  SessionInv'
  <2> DEFINE r == [asked EXCEPT !.pc = "done", !.got = s]
  <2>1. r \in Asking /\ r.pc = "done" /\ r.minted = 0 /\ r.got = s
    <3>1. s \in Askers
      BY DEF Affine
    <3> QED  BY <1>9, <3>1 DEF Asking, PCs
  <2>5. ask' = [ask EXCEPT ![a] = r]
    BY <1>6
  <2> HIDE DEF r
  <2>2. s \in Askers /\ <<k, s>> \in sticky[p]
    BY DEF Affine
  <2>3. ask[s].pc = "done"
    BY <1>1, <2>2 DEF SessionInv
  <2>4. r \in Asking /\ r.minted = 0 /\ r.pc = "done" /\ r.pc \notin Active /\ r.got # a
    BY <1>1, <2>1, <2>2, <2>3 DEF Active
  <2> QED  BY <1>1, <1>3, <1>6, <2>4, <2>5, AskKeepsSessions
<1>7. CASE /\ lead = Nobody /\ Affine(p, k) = {}
           /\ ask' = [ask EXCEPT ![a] = [asked EXCEPT !.pc = "probe"]]
           /\ stickyPending' = IF k = NoKey THEN stickyPending ELSE [stickyPending EXCEPT ![p][k] = a]
  <2> DEFINE r == [asked EXCEPT !.pc = "probe"]
  <2>1. r = [pc |-> "probe", key |-> k, on |-> Nobody, got |-> Nobody, minted |-> 0]
    BY <1>2
  <2>3. ask' = [ask EXCEPT ![a] = r]
    BY <1>7
  <2> HIDE DEF r
  <2>2. r \in Asking /\ r.minted = 0 /\ r.got = Nobody /\ r.got # a /\ r.key = k
    BY <1>1, <1>8, <2>1 DEF Asking, PCs
  <2>4. stickyPending' \in [Pools -> [Keys -> Askers \cup {Nobody}]]
    BY <1>1, <1>7
  <2>5. \A b \in Askers : ask[b].pc \in Active /\ ask[b].key \in Keys => stickyPending'[Home[b]][ask[b].key] = b
    <3> SUFFICES ASSUME NEW b \in Askers, ask[b].pc \in Active, ask[b].key \in Keys
                 PROVE  stickyPending'[Home[b]][ask[b].key] = b
      OBVIOUS
    <3>1. b # a /\ stickyPending[Home[b]][ask[b].key] = b /\ Home[b] \in Pools /\ b # Nobody
      BY <1>3, ZenAssumption
    <3>2. k # NoKey => ~(Home[b] = p /\ ask[b].key = k)
      BY <1>7, <3>1 DEF lead
    <3> QED  BY <1>1, <1>7, <3>1, <3>2
  <2>6. r.key \in Keys => stickyPending'[Home[a]][r.key] = a /\ Affine(Home[a], r.key) = {}
    BY <1>1, <1>7, <2>2 DEF p
  <2> QED  BY <1>1, <2>2, <2>3, <2>4, <2>5, <2>6, AskKeepsSessions
<1> QED  BY <1>4, <1>5, <1>6, <1>7

\* Whatever waits, a session that is out of its ttl stays so.
LEMMA TimeKeepsSessions ==
  ASSUME SessionInv, UNCHANGED <<ask, sticky, stickyPending>>, clock' = clock \/ clock' = clock + 1
  PROVE  SessionInv'
<1>1. \A b \in Askers : ask[b].minted \in Nat
  BY DEF SessionInv, Asking
<1>2. clock \in Nat /\ clock' \in Nat /\ clock <= clock' /\ Ttl \in Nat
  BY ZenAssumption DEF SessionInv
<1>3. /\ \A b \in Askers : ask'[b].minted <= clock' /\ (ask'[b].pc # "done" => ask'[b].got = Nobody)
      /\ \A c, b \in Askers : ask'[c].pc \in Active /\ Minter(b)' /\ SameKey(c, b)' => clock' - ask'[b].minted > Ttl
  BY <1>1, <1>2 DEF SessionInv, Minter, SameKey
<1>4. /\ \A b \in Askers : ask'[b].pc \in Active /\ ask'[b].key \in Keys => stickyPending'[Home[b]][ask'[b].key] = b
      /\ \A q \in Pools, k \in Keys, s \in Askers : <<k, s>> \in sticky'[q] => ask'[s].pc = "done"
      /\ \A b \in Askers : Minter(b)' =>
           \E s \in Askers : <<ask'[b].key, s>> \in sticky'[Home[b]] /\ ask'[b].minted <= ask'[s].minted
      /\ OneSessionPerKey'
  BY DEF SessionInv, Minter, OneSessionPerKey
<1> QED  BY <1>2, <1>3, <1>4 DEF SessionInv

LEMMA MarksStay == Marks /\ [ZenNext]_zenVars => Marks'
<1> SUFFICES ASSUME Marks, [ZenNext]_zenVars
             PROVE  Marks'
  OBVIOUS
<1>1. ASSUME NEW a \in Askers, Step(a)
      PROVE  Marks'
  BY <1>1 DEF Step, Reachable, JoinStart, StartOver, Spawn, StartEnds, Mint, MintFails, Marks
<1>2. ASSUME NEW a \in Askers, NEW k \in Keys \cup {NoKey}, SessionId(a, k)
      PROVE  Marks'
  BY <1>2 DEF SessionId, Marks
<1>3. CASE (\E p \in Pools : Listen(p) \/ ChildExits(p)) \/ ZenTick \/ UNCHANGED zenVars
  BY <1>3 DEF Listen, ChildExits, ZenTick, zenVars, Marks
<1> QED  BY <1>1, <1>2, <1>3 DEF ZenNext

LEMMA SessionStep == SessionInv /\ Marks /\ [ZenNext]_zenVars => SessionInv'
<1> SUFFICES ASSUME SessionInv, Marks, [ZenNext]_zenVars
             PROVE  SessionInv'
  OBVIOUS
<1>1. ASSUME NEW a \in Askers, Step(a)
      PROVE  SessionInv'
  BY <1>1, EnsureKeepsSessions, EndKeepsSessions, MintKeepsSessions, MintFailsKeepsSessions DEF Step
<1>2. ASSUME NEW a \in Askers, NEW k \in Keys \cup {NoKey}, SessionId(a, k)
      PROVE  SessionInv'
  BY <1>2, SelectKeepsSessions
<1>3. CASE (\E p \in Pools : Listen(p) \/ ChildExits(p)) \/ ZenTick \/ UNCHANGED zenVars
  <2>1. UNCHANGED <<ask, sticky, stickyPending>> /\ (clock' = clock \/ clock' = clock + 1)
    BY <1>3 DEF Listen, ChildExits, ZenTick, zenVars
  <2> QED  BY <2>1, TimeKeepsSessions
<1> QED  BY <1>1, <1>2, <1>3 DEF ZenNext

\* The inductive invariant of the session pools.
THEOREM SessionsInvariant == ZenSpec => [](SessionInv /\ Marks)
<1>1. ZenInit => SessionInv /\ Marks
  <2> SUFFICES ASSUME ZenInit
               PROVE  SessionInv /\ Marks
    OBVIOUS
  <2>1. /\ clock = 0 /\ ask \in [Askers -> Asking]
        /\ \A a \in Askers : ask[a].pc = "idle" /\ ask[a].key = NoKey /\ ask[a].got = Nobody /\ ask[a].minted = 0
    BY DEF ZenInit, Fresh, Asking, PCs
  <2>2. /\ sticky \in [Pools -> SUBSET (Keys \X Askers)]
        /\ stickyPending \in [Pools -> [Keys -> Askers \cup {Nobody}]]
        /\ \A p \in Pools : sticky[p] = {}
    BY DEF ZenInit
  <2>3. Marks
    BY DEF ZenInit, Marks
  <2> QED  BY <2>1, <2>2, <2>3, ZenAssumption DEF SessionInv, Active, Minter, OneSessionPerKey
<1>2. (SessionInv /\ Marks) /\ [ZenNext]_zenVars => (SessionInv /\ Marks)'
  BY SessionStep, MarksStay
<1> QED  BY <1>1, <1>2, PTL DEF ZenSpec

\* Whatever requests for a key come together, through whatever starts of the
\* server, two sessions are minted for it only when the first has outlived its
\* ttl (sessionId, setAffinity).
THEOREM KeysShareSessions == ZenSpec => []OneSessionPerKey
<1>1. SessionInv => OneSessionPerKey
  BY DEF SessionInv
<1> QED  BY <1>1, SessionsInvariant, PTL
--------------------------------------------------------------------------------
(* No tool call outlives its Copilot session                               *)

Session == [live : BOOLEAN, used : Int, pending : SUBSET CallIds, told : SUBSET CallIds,
            waiting : Turns \cup {NoTurn}, left : Int, run : Int]

CallInv == sess \in [Turns -> Session] /\ NoDeadCall

\* What the steps write keeps the fields in their types.
LEMMA Opening ==
  ASSUME NEW x \in Session, NEW r, NEW t \in Turns, NEW f \in Int, NEW u \in Int,
         r = [x EXCEPT !.live = TRUE, !.waiting = t, !.left = f, !.run = u]
  PROVE  r \in Session /\ r.live
BY DEF Session

LEMMA Calling ==
  ASSUME NEW x \in Session, NEW r, NEW n \in Int, NEW p \in SUBSET CallIds, NEW f \in Int,
         r = [x EXCEPT !.used = n, !.pending = p, !.left = f, !.waiting = NoTurn]
  PROVE  r \in Session /\ r.live = x.live
BY DEF Session

LEMMA Settling ==
  ASSUME NEW x \in Session, NEW r, NEW u \in Int, r = [x EXCEPT !.run = u, !.waiting = NoTurn]
  PROVE  r \in Session /\ r.pending = x.pending /\ r.live = x.live
BY DEF Session

\* A session changes by one step in one of these ways: it closes and drops its
\* calls, or it lives and keeps or gains calls, or it keeps or loses some.
LEMMA CallsFollowSession ==
  ASSUME CallInv, NEW s, NEW r, s \in Turns => r \in Session /\ (r.pending # {} => r.live),
         sess' = [sess EXCEPT ![s] = r]
  PROVE  CallInv'
BY DEF CallInv, NoDeadCall

LEMMA CallStep == CallInv /\ [CopilotNext]_copilotVars => CallInv'
<1> SUFFICES ASSUME CallInv, [CopilotNext]_copilotVars
             PROVE  CallInv'
  OBVIOUS
<1>1. /\ sess \in [Turns -> Session] /\ NoSession \in Session
      /\ \A s \in Turns : sess[s].pending # {} => sess[s].live
  BY DEF CallInv, NoDeadCall, NoSession, Session
<1>2. ASSUME NEW s, sess' = CleanedUp(s)
      PROVE  CallInv'
  <2> DEFINE r == [sess[s] EXCEPT !.live = FALSE, !.pending = {}, !.left = 0]
  <2>1. ASSUME s \in Turns
        PROVE  r \in Session /\ r.pending = {}
    <3>1. sess[s] \in Session
      BY <1>1, <2>1
    <3> DEFINE x == sess[s]
               none == {}
               shut == FALSE
               zero == 0
    <3>2. /\ none \in SUBSET CallIds /\ shut \in BOOLEAN /\ zero \in Int /\ x \in Session
          /\ r = [x EXCEPT !.live = shut, !.pending = none, !.left = zero]
      BY <3>1
    <3> HIDE DEF none, shut, zero, r, x
    <3>3. r \in Session /\ r.pending = none
      BY <3>2 DEF Session
    <3> QED  BY <3>3 DEF none
  <2>2. sess' = [sess EXCEPT ![s] = r]
    BY <1>2 DEF CleanedUp
  <2> HIDE DEF r
  <2> QED  BY <2>1, <2>2, CallsFollowSession
<1>3. ASSUME UNCHANGED sess
      PROVE  CallInv'
  BY <1>3 DEF CallInv, NoDeadCall
<1>4. ASSUME NEW t \in Turns, Create(t)
      PROVE  CallInv'
  <2> DEFINE r == [NoSession EXCEPT !.live = TRUE, !.waiting = t, !.left = SessionTtl, !.run = RunLimit]
  <2>1. r \in Session /\ r.live
    <3>1. /\ NoSession.pending \in SUBSET CallIds /\ SessionTtl \in Int /\ RunLimit \in Int
          /\ r = [NoSession EXCEPT !.live = TRUE, !.waiting = t, !.left = SessionTtl, !.run = RunLimit]
      BY <1>1, CopilotAssumption DEF NoSession
    <3> HIDE DEF r
    <3>2. r.live = TRUE /\ r \in Session
      BY <1>1, <3>1, Opening
    <3> QED  BY <3>2
  <2>2. sess' = [sess EXCEPT ![t] = r]
    BY <1>4 DEF Create
  <2> HIDE DEF r
  <2> QED  BY <2>1, <2>2, CallsFollowSession
<1>5. ASSUME NEW s \in Turns, ToolRequested(s)
      PROVE  CallInv'
  <2> DEFINE n == sess[s].used + 1
             r == [sess[s] EXCEPT !.used = n, !.pending = @ \cup {n}, !.left = SessionTtl, !.waiting = NoTurn]
  <2>1. sess[s].live /\ n \in CallIds /\ sess' = [sess EXCEPT ![s] = r]
    BY Zenon, <1>5 DEF ToolRequested
  <2>2. r = [sess[s] EXCEPT !.used = n, !.pending = sess[s].pending \cup {n}, !.left = SessionTtl, !.waiting = NoTurn]
    OBVIOUS
  <2> HIDE DEF n, r
  <2>3. n \in Int /\ SessionTtl \in Int /\ sess[s] \in Session
    BY <1>1, <2>1, CopilotAssumption DEF CallIds
  <2>4. sess[s].pending \cup {n} \in SUBSET CallIds /\ sess[s].live \in BOOLEAN
    BY <2>1, <2>3 DEF Session
  <2>5. r \in Session /\ r.live = sess[s].live
    BY <2>2, <2>3, <2>4, Calling
  <2>6. s \in Turns => r \in Session /\ (r.pending # {} => r.live)
    BY Zenon, <2>1, <2>5
  <2> QED  BY Zenon, <2>1, <2>6, CallsFollowSession
<1>6. ASSUME NEW s \in Turns, NEW o \in {"complete", "error"}, RunSettles(s, o)
      PROVE  CallInv'
  <2> DEFINE r == [sess[s] EXCEPT !.run = -1, !.waiting = NoTurn]
  <2>1. r \in Session /\ r.pending = sess[s].pending /\ r.live = sess[s].live
    <3>1. /\ r = [sess[s] EXCEPT !.run = -1, !.waiting = NoTurn] /\ -1 \in Int
          /\ sess[s].pending \in SUBSET CallIds /\ sess[s].live \in BOOLEAN /\ sess[s] \in Session
      BY <1>1 DEF Session
    <3> HIDE DEF r
    <3> QED  BY <3>1, Settling
  <2>2. sess' = [sess EXCEPT ![s] = r]
    BY <1>6 DEF RunSettles
  <2> HIDE DEF r
  <2> QED  BY <1>1, <2>1, <2>2, CallsFollowSession
<1>7. ASSUME NEW t \in Turns, NEW s \in Turns, NEW n \in CallIds, Continue(t, s, n)
      PROVE  CallInv'
  <2> DEFINE r == [sess[s] EXCEPT !.waiting = t]
  <2>1. r \in Session /\ r.pending = sess[s].pending /\ r.live = sess[s].live
    BY <1>1 DEF Session
  <2>2. sess' = [sess EXCEPT ![s] = r]
    BY <1>7 DEF Continue
  <2> HIDE DEF r
  <2> QED  BY <1>1, <2>1, <2>2, CallsFollowSession
<1>8. ASSUME NEW t \in Turns, Accepted(t)
      PROVE  CallInv'
  <2> DEFINE s == turn[t].at
             r == [sess[s] EXCEPT !.pending = @ \ {turn[t].call}]
  <2>1. sess' = [sess EXCEPT ![s] = r]
    BY <1>8 DEF Accepted
  <2>2. s \in Turns => r \in Session /\ r.pending \subseteq sess[s].pending /\ r.live = sess[s].live
    <3> HIDE DEF s
    <3> QED  BY <1>1 DEF Session
  <2> HIDE DEF s, r
  <2> QED  BY <1>1, <2>1, <2>2, CallsFollowSession
<1>9. ASSUME NEW t \in Turns, ShowCalls(t)
      PROVE  CallInv'
  <2> DEFINE s == turn[t].at
             r == [sess[s] EXCEPT !.told = @ \cup sess[s].pending]
  <2>1. sess' = [sess EXCEPT ![s] = r] \/ sess' = sess
    BY <1>9 DEF ShowCalls
  <2>2. s \in Turns => r \in Session /\ r.pending = sess[s].pending /\ r.live = sess[s].live
    <3> HIDE DEF s
    <3> QED  BY <1>1 DEF Session
  <2> HIDE DEF s, r
  <2> QED  BY <1>1, <1>3, <2>1, <2>2, CallsFollowSession
<1>10. CASE EndOfProcess
  BY <1>1, <1>10 DEF EndOfProcess, CallInv, NoDeadCall, NoSession
<1>11. CASE CopilotTick
  <2>1. \A s \in Turns : Sooner(sess[s].left) \in Int /\ Sooner(sess[s].run) \in Int
    BY <1>1 DEF Session, Sooner
  <2>2. \A s \in Turns : sess'[s] = [sess[s] EXCEPT !.left = Sooner(@), !.run = Sooner(@)]
    BY <1>11 DEF CopilotTick
  <2>3. \A s \in Turns : /\ sess'[s] \in Session
                         /\ sess'[s].pending = sess[s].pending /\ sess'[s].live = sess[s].live
    <3> SUFFICES ASSUME NEW s \in Turns
                 PROVE  /\ sess'[s] \in Session
                        /\ sess'[s].pending = sess[s].pending /\ sess'[s].live = sess[s].live
      OBVIOUS
    <3>1. sess[s] \in Session /\ sess[s].pending \in SUBSET CallIds /\ sess[s].live \in BOOLEAN
      BY <1>1 DEF Session
    <3> DEFINE x == sess[s]
               y == sess'[s]
               f == Sooner(sess[s].left)
               u == Sooner(sess[s].run)
    <3>2. y = [x EXCEPT !.left = f, !.run = u] /\ f \in Int /\ u \in Int /\ x \in Session
      BY <2>1, <2>2, <3>1
    <3> HIDE DEF f, u, x, y
    <3>3. y \in Session /\ y.pending = x.pending /\ y.live = x.live
      BY <3>2 DEF Session
    <3> QED  BY <3>3 DEF x, y
  <2>4. sess' = [s \in Turns |-> sess'[s]]
    BY <1>11 DEF CopilotTick
  <2>5. sess' \in [Turns -> Session]
    BY <2>3, <2>4
  <2> QED  BY <1>1, <2>3, <2>5 DEF CallInv, NoDeadCall
<1>12. ASSUME NEW t \in Turns,
              Open(t) \/ CreateFails(t) \/ ContinueRefused(t) \/ NotAccepted(t) \/ AnswerInvalid(t) \/ Throws(t) \/ Return(t)
       PROVE  CallInv'
  BY <1>3, <1>12 DEF Open, CreateFails, ContinueRefused, NotAccepted, AnswerInvalid, Throws, Return
<1>13. ASSUME NEW t \in Turns, Answer(t) \/ RunFailed(t)
       PROVE  CallInv'
  BY <1>2, <1>13 DEF Answer, RunFailed
<1>14. ASSUME NEW s \in Turns, Expire(s) \/ \E n \in CallIds : CopyExpires(s, n)
       PROVE  CallInv'
  BY <1>2, <1>14 DEF Expire, CopyExpires
<1>15. CASE (\E ok \in BOOLEAN : ClientStarts(ok)) \/ UNCHANGED copilotVars
  BY <1>3, <1>15 DEF ClientStarts, copilotVars
<1> QED  BY <1>4, <1>5, <1>6, <1>7, <1>8, <1>9, <1>10, <1>11, <1>12, <1>13, <1>14, <1>15 DEF CopilotNext, Die, DisconnectFails

\* A pending tool call belongs to a session that is alive: whatever closes a
\* session drops its calls (cleanup), so that no result is sent to a closed one.
THEOREM CallsEndWithSessions == CopilotSpec => []NoDeadCall
<1>1. CopilotInit => CallInv
  BY DEF CopilotInit, CallInv, NoDeadCall, NoSession, Session
<1>2. CallInv => NoDeadCall
  BY DEF CallInv
<1> QED  BY <1>1, <1>2, CallStep, PTL DEF CopilotSpec

--------------------------------------------------------------------------------
(* The front end                                                           *)

\* While a lane waits, its head is unwritten, but for a stream of Copilot Auto
\* and the routes that answer before they know; while a body is read or its
\* timer runs, nothing is asked, and the timer of a socket runs after it is.
Sound(x) ==
  /\ x.over = "threw" => x.lane \in Careless
  /\ x.up = "asked" => ~x.head \/ x.lane \in {"copilot", "early"}
  /\ x.up = "open" => ~x.head \/ x.lane \notin {"collect", "eager", "translate"}
  /\ x.body = "reading" => ~x.head
  /\ x.body \in {"reading", "aborted"} \/ x.bodyLeft # -1 => x.up = "none"
  /\ x.up = "none" => x.idleLeft = -1

FrontInv == FrontTypeOK /\ \A r \in Requests : Sound(req[r])

LEMMA PutSound ==
  ASSUME FrontInv, NEW r \in Requests, NEW x \in Exchange, Sound(x), Put(r, x)
  PROVE  FrontInv'
BY DEF FrontInv, FrontTypeOK, Put

\* What each way to end or to leave an exchange makes of its fields.
LEMMA DoneKeeps ==
  ASSUME NEW x \in Exchange
  PROVE  /\ Done(x) \in Exchange /\ Done(x).up = "done"
         /\ Done(x).lane = x.lane /\ Done(x).body = x.body /\ Done(x).head = x.head
         /\ Done(x).over = x.over /\ Done(x).bodyLeft = x.bodyLeft
<1>1. -1 \in -1 .. IdleLimit
  BY FrontAssumption
<1>2. Done(x) \in Exchange
  BY <1>1 DEF Done, Exchange
<1> QED  BY <1>2 DEF Done, Exchange

LEMMA OverKeeps ==
  ASSUME NEW x \in Exchange, NEW y \in {Ended(x), Destroyed(x)}
  PROVE  /\ y \in Exchange /\ (y.over = "threw" => x.over = "threw")
         /\ y.lane = x.lane /\ y.body = x.body /\ y.head = x.head
         /\ y.up = x.up /\ y.bodyLeft = x.bodyLeft /\ y.idleLeft = x.idleLeft
<1>1. CASE y = Ended(x)
  BY <1>1 DEF Ended, Exchange
<1>2. CASE y = Destroyed(x)
  BY <1>2 DEF Destroyed, Exchange
<1> QED  BY <1>1, <1>2

LEMMA SeveredSound ==
  ASSUME NEW x \in Exchange, x.over = "threw" => x.lane \in Careless
  PROVE  Severed(x) \in Exchange /\ Sound(Severed(x))
<1> DEFINE y == Destroyed(Done(x))
<1>1. y \in Exchange /\ y.lane = x.lane /\ y.up = "done" /\ (y.over = "threw" => x.over = "threw")
  BY DoneKeeps, OverKeeps
<1>2. Severed(x) = [y EXCEPT !.body = "read", !.bodyLeft = -1]
  BY DEF Severed
<1> HIDE DEF y
<1>3. -1 \in -1 .. BodyLimit
  BY FrontAssumption
<1> QED  BY <1>1, <1>2, <1>3 DEF Exchange, Sound

LEMMA DiesSound ==
  ASSUME FrontInv, NEW r \in Requests, NEW x \in Exchange, x.over = "threw" => x.lane \in Careless, Dies(r, x)
  PROVE  FrontInv'
<1>1. \A q \in Requests : req[q] \in Exchange /\ Sound(req[q])
  BY DEF FrontInv, FrontTypeOK
<1>2. \A q \in Requests : Severed(req[q]) \in Exchange /\ Sound(Severed(req[q]))
  BY <1>1, SeveredSound DEF Sound
<1>3. Severed(x) \in Exchange /\ Sound(Severed(x))
  BY SeveredSound
<1> QED  BY <1>1, <1>2, <1>3 DEF Dies, FrontInv, FrontTypeOK

LEMMA WriteSound ==
  ASSUME FrontInv, NEW r \in Requests, NEW x \in Exchange, req[r].head => x.lane \in Careless,
         Sound([x EXCEPT !.head = TRUE]), WriteHead(r, x)
  PROVE  FrontInv'
<1>1. CASE req[r].head
  <2>1. [x EXCEPT !.over = "threw"] \in Exchange /\ [x EXCEPT !.over = "threw"].lane \in Careless
    BY <1>1 DEF Exchange
  <2> QED  BY <1>1, <2>1, DiesSound DEF WriteHead
<1>2. CASE ~req[r].head
  <2>1. [x EXCEPT !.head = TRUE] \in Exchange
    BY DEF Exchange
  <2> QED  BY <1>2, <2>1, PutSound DEF WriteHead
<1> QED  BY <1>1, <1>2

LEMMA ErrorSound ==
  ASSUME FrontInv, NEW r \in Requests, NEW x \in Exchange, Sound(x), x.head = req[r].head,
         x.up \notin {"asked", "open"}, x.body # "reading", ErrorResponse(r, x)
  PROVE  FrontInv'
<1>1. /\ Ended(x) \in Exchange /\ Ended(x).lane = x.lane /\ Ended(x).up = x.up /\ Ended(x).body = x.body
      /\ Ended(x).bodyLeft = x.bodyLeft /\ Ended(x).idleLeft = x.idleLeft /\ (Ended(x).over = "threw" => x.over = "threw")
  BY OverKeeps
<1>2. Destroyed(x) \in Exchange /\ Sound(Destroyed(x))
  BY OverKeeps DEF Sound
<1>3. CASE req[r].over \notin {"cut", "left"} /\ ~req[r].head
  <2> DEFINE y == Ended(x)
  <2>1. Sound([y EXCEPT !.head = TRUE])
    <3> HIDE DEF y
    <3> QED  BY <1>1 DEF Sound, Exchange, y
  <2> QED  BY <1>1, <1>3, <2>1, WriteSound DEF ErrorResponse
<1> QED  BY <1>2, <1>3, PutSound DEF ErrorResponse

\* An answer that ends the exchange, of a lane that has written no head or
\* that writes another without looking.
LEMMA AnswerSound ==
  ASSUME FrontInv, NEW r \in Requests, req[r].head => req[r].lane \in Careless, req[r].body \notin {"reading", "aborted"},
         req[r].bodyLeft = -1, WriteHead(r, Ended(Done(req[r])))
  PROVE  FrontInv'
<1> DEFINE y == Ended(Done(req[r]))
<1>1. y \in Exchange /\ y.lane = req[r].lane /\ y.up = "done" /\ y.body = req[r].body /\ y.body # "aborted"
      /\ y.bodyLeft = req[r].bodyLeft /\ (y.over = "threw" => req[r].over = "threw")
  BY DoneKeeps, OverKeeps DEF FrontInv, FrontTypeOK
<1>2. req[r].over = "threw" => req[r].lane \in Careless
  BY DEF FrontInv, Sound
<1>3. Sound([y EXCEPT !.head = TRUE])
  <2> HIDE DEF y
  <2> QED  BY <1>1, <1>2 DEF Sound, Exchange
<1> QED  BY <1>1, <1>3, WriteSound

\* The exchange of a request that has just come, or whose body has just ended.
LEMMA FreshSound ==
  /\ NewRequest \in Exchange /\ NewRequest.over = "no" /\ ~NewRequest.head /\ NewRequest.body = "none"
  /\ NewRequest.up = "none" /\ NewRequest.bodyLeft = -1 /\ NewRequest.idleLeft = -1
<1>1. -1 \in -1 .. IdleLimit /\ -1 \in -1 .. BodyLimit /\ 0 \in 0 .. MaxChunks
  BY FrontAssumption
<1> QED  BY <1>1 DEF NewRequest, Exchange

LEMMA NewSound ==
  ASSUME NEW lane \in Lanes
  PROVE  /\ New(lane) \in Exchange /\ New(lane).lane = lane /\ New(lane).over = "no" /\ ~New(lane).head
         /\ New(lane).body = "read" /\ New(lane).up = "asked" /\ New(lane).bodyLeft = -1
         /\ [New(lane) EXCEPT !.head = FALSE] = New(lane)
BY FreshSound DEF New, Exchange

LEMMA FrontStart == FrontInit => FrontInv
BY FreshSound DEF FrontInit, FrontInv, FrontTypeOK, Sound

\* Requests come in, and bodies end.
LEMMA ArrivesSound ==
  ASSUME FrontInv, NEW r \in Requests, Arrives(r)
  PROVE  FrontInv'
<1>0. \A q \in Requests : req[q] \in Exchange /\ Sound(req[q])
  BY DEF FrontInv, FrontTypeOK
<1>t. -1 \in -1 .. IdleLimit /\ -1 \in -1 .. BodyLimit /\ 0 \in 0 .. MaxChunks /\ BodyLimit \in -1 .. BodyLimit
      /\ HandshakeLimit \in -1 .. HandshakeLimit
  BY FrontAssumption
<1>1. CASE Put(r, [Ended(Done(New("reply"))) EXCEPT !.head = TRUE])
  <2> DEFINE y == Ended(Done(New("reply")))
  <2>1. y \in Exchange /\ y.up = "done" /\ y.body = "read" /\ y.bodyLeft = -1 /\ y.over # "threw"
    BY NewSound, DoneKeeps, OverKeeps DEF Lanes
  <2>2. Put(r, [y EXCEPT !.head = TRUE])
    BY <1>1
  <2>3. [y EXCEPT !.head = TRUE] \in Exchange /\ Sound([y EXCEPT !.head = TRUE])
    <3> HIDE DEF y
    <3> QED  BY <2>1 DEF Exchange, Sound
  <2> QED  BY <2>2, <2>3, PutSound
<1>2. ASSUME NEW lane \in Bodies \cup {"raw", "specialist"}, NEW left \in {-1, BodyLimit},
             Put(r, [NewRequest EXCEPT !.lane = lane, !.body = "reading", !.bodyLeft = left])
      PROVE  FrontInv'
  <2> DEFINE x == NewRequest
             y == [x EXCEPT !.lane = lane, !.body = "reading", !.bodyLeft = left]
  <2>1. y \in Exchange /\ Sound(y)
    <3>1. x \in Exchange /\ x.over = "no" /\ ~x.head /\ x.up = "none" /\ x.idleLeft = -1
      BY FreshSound
    <3> HIDE DEF x
    <3> QED  BY <1>t, <3>1 DEF Exchange, Sound, Lanes, Bodies
  <2> QED  BY <1>2, <2>1, PutSound
<1>3. CASE ReceiveBody(r) \/ ReceiveSpecialist(r)
  <2>1. \A lane \in Lanes : [NewRequest EXCEPT !.lane = lane, !.body = "reading", !.bodyLeft = -1]
                           = [NewRequest EXCEPT !.lane = lane, !.body = "reading"]
    BY FreshSound DEF Exchange
  <2> QED  BY <1>2, <1>3, <2>1 DEF ReceiveBody, ReceiveSpecialist, Lanes
<1>4. CASE ReceiveUpgrade(r)
  <2> DEFINE y == New("upgrade")
  <2>1. y \in Exchange /\ ~y.head /\ y.up = "asked" /\ y.body = "read" /\ y.over = "no" /\ y.bodyLeft = -1
    BY NewSound DEF Lanes
  <2>2. Put(r, [y EXCEPT !.idleLeft = HandshakeLimit])
    BY <1>4 DEF ReceiveUpgrade
  <2>3. [y EXCEPT !.idleLeft = HandshakeLimit] \in Exchange /\ Sound([y EXCEPT !.idleLeft = HandshakeLimit])
    <3> HIDE DEF y
    <3> QED  BY <1>t, <2>1 DEF Exchange, Sound
  <2> QED  BY <2>2, <2>3, PutSound
<1>5. ASSUME NEW lane \in Lanes, NEW h \in BOOLEAN, h => lane \in {"copilot", "early"},
             Put(r, [New(lane) EXCEPT !.head = h])
      PROVE  FrontInv'
  <2> DEFINE y == New(lane)
  <2>1. y \in Exchange /\ y.lane = lane /\ y.up = "asked" /\ y.body = "read" /\ y.over = "no" /\ y.bodyLeft = -1
    BY NewSound
  <2>2. [y EXCEPT !.head = h] \in Exchange /\ Sound([y EXCEPT !.head = h])
    <3> HIDE DEF y
    <3> QED  BY <1>5, <2>1 DEF Exchange, Sound
  <2> QED  BY <1>5, <2>2, PutSound
<1>6. CASE ReceiveWaiting(r) \/ RawBodyEnds(r)
  <2>1. PICK lane \in Lanes : Put(r, New(lane))
    BY <1>6 DEF ReceiveWaiting, RawBodyEnds, Lanes
  <2>2. Put(r, [New(lane) EXCEPT !.head = FALSE])
    BY <2>1, NewSound
  <2> QED  BY <1>5, <2>2
<1>10. CASE ReceiveEarly(r) \/ CopilotStreams(r)
  <2>1. PICK lane \in {"early", "copilot"} : Put(r, [New(lane) EXCEPT !.head = TRUE])
    BY <1>10 DEF ReceiveEarly, CopilotStreams
  <2> QED  BY <1>5, <2>1 DEF Lanes
<1>7. CASE BodyEnds(r)
  <2>1. LanesOf(req[r].lane) \subseteq Lanes
    BY <1>7 DEF BodyEnds, Reads, LanesOf, Lanes, Bodies, ChatLanes, ResponsesLanes, MessagesLanes, PlanLanes,
                CodexLane, Kinds, ChatCollects, ChatRelays, ResponsesCollects, ResponsesTranslates,
                MessagesCollectModal, MessagesCollectOpenCode, MessagesCollectMistral, MessagesRelayOpenRouter,
                MessagesRelays
  <2>2. PICK lane \in LanesOf(req[r].lane) :
           IF lane = "reply" THEN Put(r, [Ended(Done(New(lane))) EXCEPT !.head = TRUE])
           ELSE Put(r, [New(lane) EXCEPT !.head = FALSE])
    BY <1>7 DEF BodyEnds
  <2> QED  BY <1>1, <1>5, <2>1, <2>2
<1>8. CASE Dies(r, New("reply"))
  BY <1>8, NewSound, DiesSound DEF Lanes
<1>9. CASE BodyHasNoFields(r) \/ MessagesHaveNoList(r)
  BY <1>0, <1>9, DiesSound DEF BodyHasNoFields, MessagesHaveNoList, Sound
<1> QED  BY <1>1, <1>3, <1>4, <1>6, <1>7, <1>8, <1>9, <1>10 DEF Arrives, ReceiveReply, ReceiveReset

\* What an upstream does with the lanes that wait for it.
LEMMA UpstreamSound ==
  ASSUME FrontInv, NEW r \in Requests, UpstreamMoves(r)
  PROVE  FrontInv'
<1> DEFINE x == req[r]
<1>0. x \in Exchange /\ Sound(x)
  BY DEF FrontInv, FrontTypeOK
<1>t. x.up \in {"asked", "open"} => x.body \notin {"reading", "aborted"} /\ x.bodyLeft = -1
  BY <1>0 DEF Sound
<1>1. CASE RelayAnswers(r) \/ CodexAnswers(r) \/ RawAnswers(r)
  <2>1. x.lane \in {"relay", "codex", "raw"} /\ x.up = "asked" /\ WriteHead(r, [x EXCEPT !.up = "open"])
    BY <1>1 DEF RelayAnswers, CodexAnswers, RawAnswers, Waits, PassesHead
  <2> HIDE DEF x
  <2>2. [x EXCEPT !.up = "open"] \in Exchange /\ Sound([[x EXCEPT !.up = "open"] EXCEPT !.head = TRUE]) /\ ~x.head
    BY <1>0, <1>t, <2>1 DEF Exchange, Sound
  <2> QED  BY <2>1, <2>2, WriteSound DEF x
<1>2. CASE CollectAnswers(r) \/ TranslateAnswers(r) \/ Unheard(r)
  <2>1. PICK up \in {"open", "gone"} : Put(r, [x EXCEPT !.up = up]) /\ x.up \in {"asked", "open"} /\ (up = "open" => ~x.head)
    BY <1>0, <1>2 DEF CollectAnswers, TranslateAnswers, Unheard, Waits, Sound
  <2>2. [x EXCEPT !.up = up] \in Exchange /\ Sound([x EXCEPT !.up = up])
    <3> HIDE DEF x
    <3> QED  BY <1>0, <1>t, <2>1 DEF Exchange, Sound
  <2> QED  BY <2>1, <2>2, PutSound
<1>3. ASSUME Put(r, Ended(Done(x))) \/ Put(r, Destroyed(Done(x))), x.up # "none"
      PROVE  FrontInv'
  BY <1>0, <1>3, DoneKeeps, OverKeeps, PutSound DEF Sound
<1>4. CASE PipeEnds(r) \/ RawEnds(r) \/ PipeVanishes(r)
  BY <1>3, <1>4 DEF PipeEnds, RawEnds, PipeVanishes, Waits
<1>5. CASE CollectEnds(r) \/ TranslateEnds(r) \/ CollectFails(r) \/ TranslateFails(r)
  <2>1. ~x.head /\ WriteHead(r, Ended(Done(x))) /\ x.body \notin {"reading", "aborted"} /\ x.bodyLeft = -1
    BY <1>0, <1>t, <1>5 DEF CollectEnds, TranslateEnds, CollectFails, TranslateFails, AnswersError, Waits, Sound
  <2> QED  BY <2>1, AnswerSound
<1>6. CASE RelayFails(r) \/ RawFails(r)
  BY <1>t, <1>6, AnswerSound DEF RelayFails, RawFails, AnswersError, Waits, Careless
<1>7. CASE EagerEnds(r)
  <2>1. x.lane = "eager" /\ x.up = "open"
    BY <1>7 DEF EagerEnds, Waits
  <2>2. CASE WriteHead(r, Ended(Done(x)))
    BY <1>t, <2>1, <2>2, AnswerSound DEF Careless
  <2>3. CASE Dies(r, [x EXCEPT !.head = TRUE, !.over = "threw"])
    <3>1. [x EXCEPT !.head = TRUE, !.over = "threw"] \in Exchange
          /\ [x EXCEPT !.head = TRUE, !.over = "threw"].lane \in Careless
      BY <1>0, <2>1 DEF Exchange, Careless
    <3> QED  BY <2>3, <3>1, DiesSound
  <2> QED  BY <1>7, <2>2, <2>3 DEF EagerEnds
<1>8. CASE CodexFails(r)
  <2>1. x.lane = "codex" /\ x.up \in {"asked", "open", "stopped"}
    BY <1>8 DEF CodexFails, Waits
  <2>2. CASE x.head
    BY <1>3, <1>8, <2>1, <2>2 DEF CodexFails
  <2>3. CASE ~x.head
    <3>1. WriteHead(r, Ended(Done(x)))
      BY <1>8, <2>3 DEF CodexFails, AnswersError
    <3>2. x.body \notin {"reading", "aborted"} /\ x.bodyLeft = -1
      BY <1>0, <2>1 DEF Sound
    <3> QED  BY <2>3, <3>1, <3>2, AnswerSound
  <2> QED  BY <2>2, <2>3
<1> QED  BY <1>1, <1>2, <1>4, <1>5, <1>6, <1>7, <1>8 DEF UpstreamMoves

\* What lanes that await a promise do when it settles.
LEMMA PromiseSound ==
  ASSUME FrontInv, NEW r \in Requests, PromiseSettles(r)
  PROVE  FrontInv'
<1> DEFINE x == req[r]
<1>0. x \in Exchange /\ Sound(x)
  BY DEF FrontInv, FrontTypeOK
<1>1. x.up \in {"asked", "open"}
  BY DEF PromiseSettles, CopilotReturns, CopilotThrows, CopilotUnhandled, PlanCommits, PlanEnds, PlanThrows,
         PlanLeavesOpen, SystemOneSettles, LateSettles, EarlyEnds, EarlyFails, Waits
<1>2. x.body \notin {"reading", "aborted"} /\ x.bodyLeft = -1
  BY <1>0, <1>1 DEF Sound
<1>3. ASSUME NEW y \in {Ended(Done(x)), Destroyed(Done(x)), Done(x)}, Put(r, y)
      PROVE  FrontInv'
  BY <1>0, <1>1, <1>3, DoneKeeps, OverKeeps, PutSound DEF Sound
<1>4. ASSUME ~x.head \/ x.lane \in Careless, WriteHead(r, Ended(Done(x)))
      PROVE  FrontInv'
  BY <1>2, <1>4, AnswerSound
<1>5. CASE CopilotReturns(r) \/ CopilotThrows(r)
  BY <1>3, <1>4, <1>5 DEF CopilotReturns, CopilotThrows, AnswersError
<1>6. CASE CopilotUnhandled(r)
  BY <1>0, <1>6, DiesSound DEF CopilotUnhandled, Sound
<1>7. CASE PlanCommits(r)
  <2>1. ~x.head /\ x.lane = "plan" /\ WriteHead(r, [x EXCEPT !.up = "open"])
    BY <1>0, <1>7 DEF PlanCommits, PassesHead, Waits, Sound
  <2>2. [x EXCEPT !.up = "open"] \in Exchange /\ Sound([[x EXCEPT !.up = "open"] EXCEPT !.head = TRUE])
    <3> HIDE DEF x
    <3> QED  BY <1>0, <1>1, <1>2, <2>1 DEF Exchange, Sound
  <2> QED  BY <2>1, <2>2, WriteSound
<1>8. CASE PlanEnds(r) \/ PlanThrows(r)
  BY <1>3, <1>4, <1>8 DEF PlanEnds, PlanThrows, AnswersError
<1>9. CASE PlanLeavesOpen(r)
  <2>1. [x EXCEPT !.up = "gone"] \in Exchange /\ Sound([x EXCEPT !.up = "gone"])
    <3> HIDE DEF x
    <3> QED  BY <1>0, <1>1, <1>2 DEF Exchange, Sound
  <2> QED  BY <1>9, <2>1, PutSound DEF PlanLeavesOpen
<1>10. CASE SystemOneSettles(r) \/ LateSettles(r) \/ EarlyEnds(r) \/ EarlyFails(r)
  <2>1. x.up = "asked" /\ (~x.head \/ x.lane \in {"copilot", "early"})
    BY <1>0, <1>10 DEF SystemOneSettles, LateSettles, EarlyEnds, EarlyFails, Waits, Sound
  <2> QED  BY <1>3, <1>4, <1>10, <2>1 DEF SystemOneSettles, LateSettles, EarlyEnds, EarlyFails, AnswersError, Waits, Careless
<1> QED  BY <1>5, <1>6, <1>7, <1>8, <1>9, <1>10 DEF PromiseSettles

\* The specialists: errorResponse looks, and an upstream is asked once.
LEMMA SpecialistSound ==
  ASSUME FrontInv, NEW r \in Requests, SpecialistMoves(r) \/ Timer(r)
  PROVE  FrontInv'
<1> DEFINE x == req[r]
<1>0. x \in Exchange /\ Sound(x)
  BY DEF FrontInv, FrontTypeOK
<1>t. -1 \in -1 .. IdleLimit /\ IdleLimit \in -1 .. IdleLimit /\ -1 \in -1 .. BodyLimit
  BY FrontAssumption
<1>1. ASSUME NEW body \in {"none", "aborted", "read"}, NEW left \in {-1, x.bodyLeft}, x.up = "none"
      PROVE  [x EXCEPT !.body = body, !.bodyLeft = left] \in Exchange /\ Sound([x EXCEPT !.body = body, !.bodyLeft = left])
  <2> HIDE DEF x
  <2> QED  BY <1>0, <1>1, <1>t DEF Exchange, Sound
<1>2. ASSUME NEW body \in {"none", "aborted", "read"}, x.up = "none",
             ErrorResponse(r, [x EXCEPT !.body = body, !.bodyLeft = -1])
      PROVE  FrontInv'
  <2> DEFINE y == [x EXCEPT !.body = body, !.bodyLeft = -1]
  <2>1. y.head = x.head /\ y.up = x.up /\ y.body # "reading"
    <3> HIDE DEF x
    <3> QED  BY <1>0, <1>2 DEF Exchange
  <2>2. y \in Exchange /\ Sound(y)
    BY <1>1, <1>2
  <2> HIDE DEF y
  <2> QED  BY <1>2, <2>1, <2>2, ErrorSound DEF y
<1>3. CASE BodyTimesOut(r)
  <2>1. x.bodyLeft # -1 /\ x.up = "none"
    BY <1>0, <1>3 DEF BodyTimesOut, Sound
  <2> DEFINE body == IF x.body = "reading" THEN "aborted" ELSE x.body
  <2>2. body \in {"none", "aborted", "read"}
    BY <1>0 DEF Exchange
  <2>3. ErrorResponse(r, [x EXCEPT !.body = body, !.bodyLeft = -1])
    BY <1>3 DEF BodyTimesOut
  <2> HIDE DEF body
  <2> QED  BY <1>2, <2>1, <2>2, <2>3
<1>4. CASE ReadBodyRejects(r) \/ SpecialistRefuses(r)
  <2>1. x.up = "none"
    BY <1>0, <1>4 DEF ReadBodyRejects, SpecialistRefuses, Reads, Sound
  <2> QED  BY <1>2, <1>4, <2>1 DEF ReadBodyRejects, SpecialistRefuses
<1>5. CASE BodyTooLarge(r)
  <2>1. x.up = "none" /\ Put(r, [x EXCEPT !.body = "aborted"])
    BY <1>0, <1>5 DEF BodyTooLarge, Reads, Sound
  <2>2. [x EXCEPT !.body = "aborted"] \in Exchange /\ Sound([x EXCEPT !.body = "aborted"])
    <3> HIDE DEF x
    <3> QED  BY <1>0, <2>1 DEF Exchange, Sound
  <2> QED  BY <2>1, <2>2, PutSound
<1>6. CASE SpecialistAsks(r)
  <2>1. x.up = "none" /\ ~x.head
    BY <1>0, <1>6 DEF SpecialistAsks, Reads, Sound
  <2>2. CASE Put(r, [x EXCEPT !.body = "read", !.bodyLeft = -1])
    BY <1>1, <2>1, <2>2, PutSound
  <2>3. CASE Put(r, [x EXCEPT !.body = "read", !.bodyLeft = -1, !.up = "asked", !.idleLeft = IdleLimit])
    <3> DEFINE y == [x EXCEPT !.body = "read", !.bodyLeft = -1, !.up = "asked", !.idleLeft = IdleLimit]
    <3>1. y \in Exchange /\ Sound(y)
      <4> HIDE DEF x
      <4> QED  BY <1>0, <1>t, <2>1 DEF Exchange, Sound
    <3> QED  BY <2>3, <3>1, PutSound
  <2> QED  BY <1>6, <2>2, <2>3 DEF SpecialistAsks
<1>7. CASE SpecialistAnswers(r)
  <2> DEFINE y == [x EXCEPT !.up = "open", !.idleLeft = IdleLimit]
  <2>1. x.lane = "specialist" /\ x.up = "asked" /\ WriteHead(r, y)
    BY <1>7 DEF SpecialistAnswers, Waits
  <2>2. ~x.head /\ y \in Exchange /\ Sound([y EXCEPT !.head = TRUE])
    <3> HIDE DEF x
    <3> QED  BY <1>0, <1>t, <2>1 DEF Exchange, Sound
  <2> HIDE DEF y
  <2> QED  BY <2>1, <2>2, WriteSound DEF x
<1>8. CASE SpecialistChunk(r)
  <2> DEFINE y == [x EXCEPT !.chunks = @ + 1, !.idleLeft = IdleLimit]
  <2>1. x.lane = "specialist" /\ x.up = "open" /\ x.chunks < MaxChunks /\ Put(r, y)
    BY <1>8 DEF SpecialistChunk, Waits
  <2>2. y \in Exchange /\ Sound(y)
    <3> HIDE DEF x
    <3>1. x.chunks + 1 \in 0 .. MaxChunks
      BY <1>0, <2>1, FrontAssumption DEF Exchange
    <3> QED  BY <1>0, <1>t, <2>1, <3>1 DEF Exchange, Sound
  <2> QED  BY <2>1, <2>2, PutSound
<1>9. ASSUME NEW y \in {Ended(Done(x)), Destroyed(Done(x)), Done(x)}, x.up # "none"
      PROVE  y \in Exchange /\ Sound(y)
  BY <1>0, <1>9, DoneKeeps, OverKeeps DEF Sound
<1>10. CASE SpecialistEnds(r) \/ SpecialistVanishes(r) \/ TunnelCloses(r)
  BY <1>9, <1>10, PutSound DEF SpecialistEnds, SpecialistVanishes, TunnelCloses, Waits
<1>11. CASE SpecialistFails(r)
  <2>1. x.up # "none" /\ x.body # "reading" /\ ErrorResponse(r, Done(x))
    BY <1>0, <1>11 DEF SpecialistFails, Waits, Sound
  <2>2. Done(x).head = x.head /\ Done(x).up = "done" /\ Done(x).body = x.body
    BY <1>0, DoneKeeps
  <2> QED  BY <1>9, <2>1, <2>2, ErrorSound
<1>12. CASE SocketTimesOut(r)
  <2>1. x.idleLeft # -1 /\ Put(r, [x EXCEPT !.up = "stopped", !.idleLeft = -1])
    BY <1>12 DEF SocketTimesOut
  <2>2. [x EXCEPT !.up = "stopped", !.idleLeft = -1] \in Exchange /\ Sound([x EXCEPT !.up = "stopped", !.idleLeft = -1])
    <3> HIDE DEF x
    <3> QED  BY <1>0, <1>t, <2>1 DEF Exchange, Sound
  <2> QED  BY <2>1, <2>2, PutSound
<1>13. CASE UpgradeRefused(r) \/ UpgradeFails(r)
  <2> DEFINE y == Ended(Done(x))
  <2>1. x.up # "none" /\ (Put(r, [y EXCEPT !.head = TRUE]) \/ Put(r, Done(x)))
    BY <1>13 DEF UpgradeRefused, UpgradeFails, Waits
  <2>2. x.up # "none" => y \in Exchange /\ Sound(y) /\ y.up = "done"
    BY <1>0, <1>9, DoneKeeps, OverKeeps
  <2>3. [y EXCEPT !.head = TRUE] \in Exchange /\ Sound([y EXCEPT !.head = TRUE])
    <3> HIDE DEF y
    <3> QED  BY <2>1, <2>2 DEF Exchange, Sound
  <2> QED  BY <1>9, <2>1, <2>3, PutSound
<1>14. CASE Upgraded(r)
  <2>1. x.lane = "upgrade" /\ x.up = "asked" /\ Put(r, [x EXCEPT !.head = TRUE, !.up = "open", !.idleLeft = -1])
    BY <1>14 DEF Upgraded, Waits
  <2>2. /\ [x EXCEPT !.head = TRUE, !.up = "open", !.idleLeft = -1] \in Exchange
        /\ Sound([x EXCEPT !.head = TRUE, !.up = "open", !.idleLeft = -1])
    <3> HIDE DEF x
    <3> QED  BY <1>0, <1>t, <2>1 DEF Exchange, Sound
  <2> QED  BY <2>1, <2>2, PutSound
<1> QED  BY <1>3, <1>4, <1>5, <1>6, <1>7, <1>8, <1>10, <1>11, <1>12, <1>13, <1>14 DEF SpecialistMoves, Timer

\* A client that leaves writes nothing, whatever it stops.
LEMMA LeavesSound ==
  ASSUME FrontInv, NEW r \in Requests, ClientLeaves(r)
  PROVE  FrontInv'
<1> DEFINE x == req[r]
<1>0. x \in Exchange /\ Sound(x)
  BY DEF FrontInv, FrontTypeOK
<1>1. -1 \in -1 .. IdleLimit
  BY FrontAssumption
<1>2. /\ Gone(r) \in Exchange /\ Sound(Gone(r)) /\ Gone(r).over = "left" /\ Gone(r).lane = x.lane
      /\ Gone(r).up = x.up /\ Gone(r).head = x.head
  <2>1. Gone(r) = [x EXCEPT !.over = "left", !.body = IF @ = "reading" THEN "aborted" ELSE @]
    BY DEF Gone
  <2> HIDE DEF x
  <2> QED  BY <1>0, <2>1 DEF Exchange, Sound
<1>3. Stopped(r) \in Exchange /\ Sound(Stopped(r))
  <2> DEFINE y == Gone(r)
  <2>1. Stopped(r) = [y EXCEPT !.up = IF @ \in {"asked", "open"} THEN "stopped" ELSE @, !.idleLeft = -1]
    BY DEF Stopped
  <2> HIDE DEF y
  <2> QED  BY <1>1, <1>2, <2>1 DEF Exchange, Sound, y
<1>4. x.up = "open" => Done(Gone(r)) \in Exchange /\ Sound(Done(Gone(r)))
  BY <1>2, DoneKeeps DEF Sound
<1> QED  BY <1>2, <1>3, <1>4, PutSound DEF ClientLeaves, CodexLeft, SpecialistLeft, UpgradeLeft, OtherLeft

\* Timers run on.
LEMMA TickSound ==
  ASSUME FrontInv, FrontTick
  PROVE  FrontInv'
<1> DEFINE Later(x) == [x EXCEPT !.bodyLeft = Less(@), !.idleLeft = Less(@)]
<1>1. ASSUME NEW x \in Exchange, Sound(x)
      PROVE  Later(x) \in Exchange /\ Sound(Later(x))
  <2> DEFINE b == Less(x.bodyLeft)
             i == Less(x.idleLeft)
  <2>1. b \in -1 .. BodyLimit /\ (b # -1 => x.bodyLeft # -1)
    BY <1>1, FrontAssumption DEF Exchange, Less
  <2>2. i \in (-1 .. IdleLimit) \cup (-1 .. HandshakeLimit) /\ (x.idleLeft = -1 => i = -1)
    BY <1>1, FrontAssumption DEF Exchange, Less
  <2>3. Later(x) = [x EXCEPT !.bodyLeft = b, !.idleLeft = i]
    OBVIOUS
  <2> HIDE DEF b, i, Later
  <2>4. [x EXCEPT !.bodyLeft = b, !.idleLeft = i] \in Exchange
    BY <1>1, <2>1, <2>2 DEF Exchange
  <2>5. Sound([x EXCEPT !.bodyLeft = b, !.idleLeft = i])
    BY <1>1, <2>1, <2>2 DEF Exchange, Sound
  <2> QED  BY <2>3, <2>4, <2>5
<1>2. req' = [r \in Requests |-> Later(req[r])]
  BY DEF FrontTick
<1> HIDE DEF Later
<1> QED  BY <1>1, <1>2 DEF FrontInv, FrontTypeOK

\* A second head that throws, and ends the process for all, is written only by
\* the lanes that relay a response without looking and by the routes that answer
\* before they know: in no order of timers, upstreams and clients does one come
\* of a plan, Codex, Copilot Auto, SystemOne, a translation or a specialist.
THEOREM HeadsWrittenOnce == FrontSpec => []OneHead
<1>1. FrontInv /\ [FrontNext]_frontVars => FrontInv'
  <2> SUFFICES ASSUME FrontInv, [FrontNext]_frontVars
               PROVE  FrontInv'
    OBVIOUS
  <2>1. CASE UNCHANGED frontVars
    BY <2>1 DEF frontVars, FrontInv, FrontTypeOK
  <2> QED  BY <2>1, ArrivesSound, UpstreamSound, PromiseSound, SpecialistSound, LeavesSound, TickSound DEF FrontNext
<1>2. FrontInv => OneHead
  BY DEF FrontInv, Sound, OneHead
<1> QED  BY <1>1, <1>2, FrontStart, PTL DEF FrontSpec

================================================================================
