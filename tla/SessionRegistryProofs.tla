------------------------- MODULE SessionRegistryProofs -------------------------
(***************************************************************************)
(* Proofs about the plugin's session registry, for any set of keys, any    *)
(* bounds and any clock, set back or not: who holds a lease keeps its      *)
(* session, an id that was given out is on disk, and callers see the       *)
(* ledger; and while the clock is not set back, terminations are kept and  *)
(* the file can be loaded.  The order of eviction plays no part in any of  *)
(* it: all that is used of eviction is that it spares what is active, and  *)
(* what was terminated within the window.                                  *)
(***************************************************************************)
EXTENDS SessionRegistry, TLAPS

\* A map of entries is sound up to an id: leases and state agree, mappings have
\* ids that were minted, and no two share one.
Sound(es, last) ==
  /\ es \in [Keys -> Entry]
  /\ \A k \in Keys : es[k].state = "active" <=> es[k].leases > 0
  /\ \A k \in Keys : es[k].state # "absent" => es[k].id # NoId
  /\ \A k \in Keys : es[k].id <= last
  /\ \A j, k \in Keys : es[j].id = es[k].id /\ es[j].id # NoId => j = k

ShapeInv ==
  /\ now \in Nat /\ minted \in Nat /\ open \in BOOLEAN /\ failed \in BOOLEAN
  /\ told \in [Keys -> Nat] /\ held \in [Keys -> Nat]
  /\ Sound(entries, minted) /\ Sound(disk.entries, minted)

\* Leases are counted exactly until a save fails, and from then on at least.
LeaseInv ==
  \A k \in Keys :
    /\ held[k] > 0 => open /\ told[k] # NoId
    /\ open => held[k] <= entries[k].leases
    /\ open /\ ~failed => held[k] = entries[k].leases

RegistryInv == ShapeInv /\ LeaseInv /\ IdentityIsDurable

--------------------------------------------------------------------------------
(* Eviction and the shape of entries                                       *)

\* evictLocked spares active mappings.
LEMMA EvictionSparesActive ==
  ASSUME NEW es, NEW ord, NEW k \in Evicted(es, ord)
  PROVE  k \in Keys /\ es[k].state # "active"
BY DEF Evicted, Expired, Surplus, Idle, Present

\* An entry that is dropped leaves nothing behind.
LEMMA WithoutIsSound ==
  ASSUME NEW last \in Nat, NEW es, NEW gone, Sound(es, last)
  PROVE  Sound(Without(es, gone), last)
<1> DEFINE rest == Without(es, gone)
<1>1. \A k \in Keys : rest[k] = IF k \in gone THEN NoEntry ELSE es[k]
  BY DEF Without
<1>2. NoEntry \in Entry
  BY DEF NoEntry, Entry, NoId
<1>3. rest \in [Keys -> Entry]
  BY <1>2 DEF Without, Sound
<1> HIDE DEF rest
<1>4. /\ \A k \in Keys : rest[k].state = "active" <=> rest[k].leases > 0
      /\ \A k \in Keys : rest[k].state # "absent" => rest[k].id # NoId
      /\ \A k \in Keys : rest[k].id <= last
  BY <1>1 DEF NoEntry, NoId, Sound
<1>5. \A j, k \in Keys : rest[j].id = rest[k].id /\ rest[j].id # NoId => j = k
  BY <1>1 DEF NoEntry, Sound
<1>6. Sound(rest, last)
  BY <1>3, <1>4, <1>5 DEF Sound
<1> QED  BY <1>6 DEF rest

\* An entry may be rewritten under the same id, or under an id of its own.
LEMMA RewrittenIsSound ==
  ASSUME NEW last \in Nat, NEW es, Sound(es, last), NEW k \in Keys, NEW e \in Entry,
         e.state = "active" <=> e.leases > 0, e.state # "absent" => e.id # NoId,
         NEW next \in Nat, last <= next,
         e.id = es[k].id \/ (e.id = next /\ next > last)
  PROVE  Sound([es EXCEPT ![k] = e], next)
<1> DEFINE more == [es EXCEPT ![k] = e]
<1>0. es \in [Keys -> Entry] /\ \A j \in Keys : es[j].id \in Nat
  BY DEF Sound, Entry
<1>1. \A j \in Keys : more[j] = IF j = k THEN e ELSE es[j]
  BY <1>0
<1>2. more \in [Keys -> Entry]
  BY <1>0
<1> HIDE DEF more
<1>3. /\ \A j \in Keys : more[j].state = "active" <=> more[j].leases > 0
      /\ \A j \in Keys : more[j].state # "absent" => more[j].id # NoId
  BY <1>1 DEF Sound
<1>4. \A j \in Keys : es[j].id <= last
  BY DEF Sound
<1>5. \A j \in Keys : more[j].id <= next
  BY <1>0, <1>1, <1>4
<1>6. \A i, j \in Keys : more[i].id = more[j].id /\ more[i].id # NoId => i = j
  BY <1>0, <1>1, <1>4 DEF Sound
<1>7. Sound(more, next)
  BY <1>2, <1>3, <1>5, <1>6 DEF Sound
<1> QED  BY <1>7 DEF more

\* Minting more ids disturbs nothing.
LEMMA SoundGrows ==
  ASSUME NEW last \in Nat, NEW next \in Nat, last <= next, NEW es, Sound(es, last)
  PROVE  Sound(es, next)
BY DEF Sound, Entry

\* What persistLocked leaves in memory and on disk.
LEMMA PersistWrites ==
  ASSUME NEW es, NEW ord, NEW saved, NEW ok, Persist(es, ord, saved, ok)
  PROVE  /\ entries' = es /\ (failed' <=> ~ok)
         /\ disk'.entries = es \/ disk' = disk
         /\ ok => disk'.entries = es
BY DEF Persist

--------------------------------------------------------------------------------
(* The leases an entry gains and loses                                     *)

LEMMA LeasedEntry ==
  ASSUME NEW e \in Entry, NEW lease \in BOOLEAN, now \in Nat,
         e.state \in {"idle", "active"}, e.state = "active" <=> e.leases > 0,
         NEW f, f = Leased([e EXCEPT !.used = now], lease)
  PROVE  /\ f \in Entry /\ f.id = e.id /\ f.state \in {"idle", "active"}
         /\ f.state = "active" <=> f.leases > 0
         /\ f.leases = IF lease THEN e.leases + 1 ELSE e.leases
<1>1. e.leases \in Nat
  BY DEF Entry
<1>2. CASE lease
  <2>1. f = [e EXCEPT !.used = now, !.leases = e.leases + 1, !.state = "active"]
    BY <1>2 DEF Leased, Entry
  <2>2. f = [id |-> e.id, state |-> "active", created |-> e.created, used |-> now,
             leases |-> e.leases + 1]
    BY <2>1 DEF Entry
  <2>3. f \in Entry
    BY <1>1, <2>2 DEF Entry
  <2>4. f.leases = e.leases + 1 /\ f.leases > 0
    BY <1>1, <2>2
  <2>5. f.leases = IF lease THEN e.leases + 1 ELSE e.leases
    BY <1>2, <2>4
  <2> QED  BY <2>2, <2>3, <2>4, <2>5
<1>3. CASE ~lease
  <2>1. f = [e EXCEPT !.used = now]
    BY <1>3 DEF Leased
  <2>2. f \in Entry
    BY <2>1 DEF Entry
  <2>3. f.id = e.id /\ f.state = e.state /\ f.leases = e.leases
    BY <2>1 DEF Entry
  <2> QED  BY <1>1, <1>3, <2>2, <2>3
<1> QED  BY <1>2, <1>3

LEMMA UnleasedEntry ==
  ASSUME NEW e \in Entry, now \in Nat, e.leases > 0,
         e.state = "active" <=> e.leases > 0,
         NEW f, f = Unleased(e)
  PROVE  /\ f \in Entry /\ f.id = e.id /\ f.state \in {"idle", "active"}
         /\ f.state = "active" <=> f.leases > 0
         /\ f.leases = e.leases - 1
<1>1. e.leases \in Nat
  BY DEF Entry
<1>2. CASE e.leases = 1
  <2>1. f = [e EXCEPT !.leases = 0, !.state = "idle", !.used = now]
    BY <1>2 DEF Unleased
  <2>2. f = [id |-> e.id, state |-> "idle", created |-> e.created, used |-> now, leases |-> 0]
    BY <2>1 DEF Entry
  <2>3. f \in Entry
    BY <2>2 DEF Entry
  <2> QED  BY <1>2, <2>2, <2>3
<1>3. CASE e.leases # 1
  <2>1. f = [e EXCEPT !.leases = e.leases - 1]
    BY <1>3 DEF Unleased
  <2>2. f \in Entry
    <3>1. e.leases - 1 \in Nat
      BY <1>1
    <3> QED  BY <2>1, <3>1 DEF Entry
  <2>3. f.id = e.id /\ f.state = e.state /\ f.leases = e.leases - 1
    BY <2>1 DEF Entry
  <2> QED  BY <1>1, <1>3, <2>2, <2>3
<1> QED  BY <1>2, <1>3

--------------------------------------------------------------------------------
(* The invariant                                                           *)

\* Who holds a lease holds it of an active mapping.
LEMMA HolderIsActive ==
  ASSUME RegistryInv, NEW k \in Keys, held[k] > 0
  PROVE  open /\ entries[k].state = "active" /\ entries[k].id = told[k] /\ told[k] # NoId
<1>1. held[k] \in Nat /\ entries[k].leases \in Nat
  BY DEF RegistryInv, ShapeInv, Sound, Entry
<1>2. open /\ told[k] # NoId /\ held[k] <= entries[k].leases
  BY DEF RegistryInv, LeaseInv
<1>3. entries[k].leases > 0
  BY <1>1, <1>2
<1>4. entries[k].state = "active"
  BY <1>3 DEF RegistryInv, ShapeInv, Sound
<1>5. entries[k].id = told[k]
  BY <1>2 DEF RegistryInv, IdentityIsDurable
<1> QED  BY <1>2, <1>4, <1>5

\* The three properties follow from the invariant.
LEMMA InvariantImplies == RegistryInv => LeaseHolderKeepsSession /\ IdentityIsDurable
<1>1. ASSUME RegistryInv, NEW k \in Keys, held[k] > 0
      PROVE  /\ open /\ entries[k].state = "active" /\ entries[k].id = told[k]
             /\ held[k] <= entries[k].leases
             /\ ~failed => held[k] = entries[k].leases
  <2>1. open /\ entries[k].state = "active" /\ entries[k].id = told[k]
    BY <1>1, HolderIsActive
  <2> QED  BY <1>1, <2>1 DEF RegistryInv, LeaseInv
<1> QED  BY <1>1 DEF LeaseHolderKeepsSession, RegistryInv

\* A method that writes new entries keeps the invariant when it tells callers
\* what it has written, and counts the leases they get.
LEMMA WriteKeeps ==
  ASSUME RegistryInv, open, open' = open, now' = now,
         minted' \in Nat, minted <= minted',
         NEW es, NEW ord, NEW saved \in BOOLEAN, NEW ok \in BOOLEAN,
         Sound(es, minted'), Persist(es, ord, saved, ok),
         told' \in [Keys -> Nat], held' \in [Keys -> Nat],
         \A j \in Keys : told'[j] # NoId => told'[j] = es[j].id /\ (ok \/ told'[j] = told[j]),
         \A j \in Keys : held'[j] > 0 => told'[j] # NoId,
         \A j \in Keys : held'[j] <= es[j].leases,
         ok => \A j \in Keys : held'[j] = es[j].leases
  PROVE  RegistryInv'
<1>1. /\ entries' = es /\ (failed' <=> ~ok)
      /\ disk'.entries = es \/ disk' = disk
      /\ ok => disk'.entries = es
  BY PersistWrites
<1>2. failed' \in BOOLEAN
  BY DEF Persist
<1>3. Sound(disk.entries, minted')
  BY SoundGrows DEF RegistryInv, ShapeInv
<1>4. Sound(entries', minted') /\ Sound(disk'.entries, minted')
  BY <1>1, <1>3
<1>5. ShapeInv'
  <2>1. now' \in Nat /\ open' \in BOOLEAN
    BY DEF RegistryInv, ShapeInv
  <2>2. Sound(entries, minted)' /\ Sound(disk.entries, minted)'
    BY <1>4 DEF Sound, Entry
  <2> QED  BY <1>2, <2>1, <2>2 DEF ShapeInv
<1>6. LeaseInv'
  BY <1>1 DEF LeaseInv
<1>7. IdentityIsDurable'
  <2> SUFFICES ASSUME NEW j \in Keys, told'[j] # NoId
               PROVE  disk'.entries[j].id = told'[j] /\ entries'[j].id = told'[j]
    BY DEF IdentityIsDurable
  <2>1. told'[j] = es[j].id /\ (ok \/ told'[j] = told[j])
    OBVIOUS
  <2>2. told[j] # NoId => disk.entries[j].id = told[j]
    BY DEF RegistryInv, IdentityIsDurable
  <2> QED  BY <1>1, <2>1, <2>2
<1> QED  BY <1>5, <1>6, <1>7 DEF RegistryInv

\* Conversations that the registry evicts are held by nobody, and forgetting
\* them is a step of the ledger.
LEMMA ForgettingIsLedgers ==
  ASSUME RegistryInv, NEW gone, \A k \in gone : k \in Keys /\ held[k] = 0,
         told' = [k \in Keys |-> IF k \in gone THEN NoId ELSE told[k]],
         held' = held, minted' \in {minted, minted + 1}
  PROVE  Ledger!LedgerForgets
<1>1. gone \in SUBSET {k \in Keys : held[k] = 0}
  OBVIOUS
<1>2. told' = Ledger!Forgotten(gone)
  BY DEF Ledger!Forgotten
<1> QED  BY <1>1, <1>2 DEF Ledger!LedgerForgets, Ledger!Issues

--------------------------------------------------------------------------------
(* Opening and closing                                                     *)

\* load() starts from what is on disk; nobody holds a lease.
LEMMA OpenStep ==
  ASSUME RegistryInv, NEW saved \in BOOLEAN, NEW ok \in BOOLEAN, Open(saved, ok)
  PROVE  RegistryInv' /\ Ledger!LedgerForgets
<1> DEFINE es0 == [k \in Keys |-> Recovered(disk.entries[k])]
           stale == {k \in Expired(es0) : es0[k].state = "terminated"}
           es == Without(es0, stale)
           ord == Keep(disk.order, stale)
           gone == Evicted(es, ord)
           rest == Without(es, gone)
<1>1. /\ ~open /\ (open' <=> ok) /\ open' \in BOOLEAN /\ Forget(stale \cup gone)
      /\ entries' = IF ok THEN rest ELSE entries
      /\ ok => disk'.entries = rest \/ (disk' = disk /\ es0 = disk.entries /\ gone = {})
      /\ disk'.entries = rest \/ disk' = disk
      /\ now' = now /\ failed' = failed /\ minted' = minted /\ held' = held
  <2>1. /\ ~open /\ open' = ok /\ Forget(stale \cup gone)
        /\ now' = now /\ failed' = failed /\ minted' = minted /\ held' = held
    BY DEF Open
  <2>2. entries' = IF ok THEN rest ELSE entries
    BY Zenon DEF Open
  <2>3. IF gone # {} \/ es0 # disk.entries
        THEN /\ ok => saved
             /\ disk' = IF saved THEN [entries |-> rest, order |-> Keep(ord, gone)] ELSE disk
        ELSE saved /\ ok /\ disk' = disk
    BY Zenon DEF Open
  <2> HIDE DEF es0, stale, es, ord, gone, rest
  <2> QED  BY <2>1, <2>2, <2>3
<1>2. Sound(disk.entries, minted) /\ now \in Nat /\ minted \in Nat /\ disk.entries \in [Keys -> Entry]
  BY DEF RegistryInv, ShapeInv, Sound
<1>3. ASSUME NEW k \in Keys
      PROVE  /\ es0[k] \in Entry /\ es0[k].id = disk.entries[k].id /\ es0[k].leases = 0
             /\ es0[k].state \in {"absent", "idle", "terminated"}
             /\ es0[k].state = "absent" <=> disk.entries[k].state = "absent"
  <2> DEFINE e == disk.entries[k]
  <2>1. e \in Entry /\ (e.state = "active" <=> e.leases > 0)
    BY <1>2 DEF Sound
  <2> HIDE DEF e
  <2>2. /\ Recovered(e) \in Entry /\ Recovered(e).id = e.id /\ Recovered(e).leases = 0
        /\ Recovered(e).state \in {"absent", "idle", "terminated"}
        /\ Recovered(e).state = "absent" <=> e.state = "absent"
    <3>1. CASE e.state = "active"
      <4>1. Recovered(e) = [id |-> e.id, state |-> "idle", created |-> e.created, used |-> now, leases |-> 0]
        BY <2>1, <3>1 DEF Recovered, Entry
      <4> QED  BY <1>2, <2>1, <3>1, <4>1 DEF Entry
    <3>2. CASE e.state # "active"
      BY <2>1, <3>2 DEF Recovered, Entry
    <3> QED  BY <3>1, <3>2
  <2> QED  BY <2>2 DEF e
<1>4. Sound(es0, minted)
  <2>1. es0 \in [Keys -> Entry]
    BY <1>3
  <2> HIDE DEF es0
  <2>2. \A k \in Keys : es0[k].state = "active" <=> es0[k].leases > 0
    BY <1>3
  <2> QED  BY <1>2, <1>3, <2>1, <2>2 DEF Sound
<1>5. Sound(es, minted) /\ Sound(rest, minted)
  <2> HIDE DEF es0, stale, gone
  <2>1. Sound(es, minted)
    BY <1>2, <1>4, WithoutIsSound
  <2> HIDE DEF es
  <2> QED  BY <1>2, <2>1, WithoutIsSound
<1>6. \A k \in Keys : rest[k] = IF k \in stale \cup gone THEN NoEntry ELSE es0[k]
  <2> HIDE DEF es0, stale, gone
  <2> QED  BY DEF Without
<1>7. stale \cup gone \subseteq Keys
  BY DEF Expired, Present, Evicted, Surplus, Idle
<1>8. \A k \in Keys : held[k] = 0
  BY <1>1 DEF RegistryInv, LeaseInv, ShapeInv
<1>9. told' = [k \in Keys |-> IF k \in stale \cup gone THEN NoId ELSE told[k]]
  BY <1>1 DEF Forget, Recalled
<1> HIDE DEF es0, stale, es, ord, gone, rest
<1>10. ShapeInv'
  <2>1. told' \in [Keys -> Nat]
    BY <1>9 DEF RegistryInv, ShapeInv, NoId
  <2>2. Sound(entries', minted) /\ Sound(disk'.entries, minted)
    BY <1>1, <1>5 DEF RegistryInv, ShapeInv
  <2>3. Sound(entries, minted)' /\ Sound(disk.entries, minted)'
    BY <1>1, <2>2 DEF Sound, Entry
  <2> QED  BY <1>1, <2>1, <2>3 DEF ShapeInv, RegistryInv
<1>11. LeaseInv'
  <2> SUFFICES ASSUME NEW k \in Keys, ok PROVE entries'[k].leases = 0
    BY <1>1, <1>8 DEF LeaseInv
  <2> QED  BY <1>1, <1>3, <1>6 DEF NoEntry
<1>12. IdentityIsDurable'
  <2> SUFFICES ASSUME NEW k \in Keys, told'[k] # NoId
               PROVE  disk'.entries[k].id = told'[k] /\ (ok => entries'[k].id = told'[k])
    BY <1>1 DEF IdentityIsDurable
  <2>1. k \notin stale \cup gone /\ told'[k] = told[k] /\ told[k] # NoId
    BY <1>9
  <2>2. disk.entries[k].id = told[k]
    BY <2>1 DEF RegistryInv, IdentityIsDurable
  <2> QED  BY <1>1, <1>3, <1>6, <2>1, <2>2
<1>13. Ledger!LedgerForgets
  BY <1>1, <1>7, <1>8, <1>9, ForgettingIsLedgers
<1> QED  BY <1>10, <1>11, <1>12, <1>13 DEF RegistryInv

\* Close, or the death of the process.
LEMMA StopStep ==
  ASSUME RegistryInv, Stop
  PROVE  RegistryInv' /\ Ledger!OwnerGone
<1>1. NoEntry \in Entry
  BY DEF NoEntry, Entry, NoId
<1>2. Sound(entries', minted)
  <2>1. entries' = [k \in Keys |-> NoEntry]
    BY DEF Stop
  <2>2. \A k \in Keys : entries'[k] = NoEntry
    BY <2>1
  <2>3. entries' \in [Keys -> Entry]
    BY <1>1, <2>1
  <2>4. minted \in Nat
    BY DEF RegistryInv, ShapeInv
  <2>5. NoEntry.state = "absent" /\ NoEntry.leases = 0 /\ NoEntry.id = NoId /\ NoId = 0
    BY DEF NoEntry, NoId
  <2> QED  BY <2>2, <2>3, <2>4, <2>5 DEF Sound
<1>3. ShapeInv'
  <2>1. Sound(entries, minted)' /\ Sound(disk.entries, minted)'
    BY <1>2 DEF Stop, RegistryInv, ShapeInv, Sound, Entry
  <2> QED  BY <2>1 DEF Stop, RegistryInv, ShapeInv
<1>4. LeaseInv'
  BY DEF Stop, LeaseInv
<1>5. IdentityIsDurable'
  BY DEF Stop, RegistryInv, IdentityIsDurable
<1>6. Ledger!OwnerGone
  BY DEF Stop, Ledger!OwnerGone
<1> QED  BY <1>3, <1>4, <1>5, <1>6 DEF RegistryInv

--------------------------------------------------------------------------------
(* The methods                                                             *)

\* What the methods see: counts are exact, and what they evict is held by nobody.
LEMMA WhenReady ==
  ASSUME RegistryInv, Ready
  PROVE  /\ open /\ ~failed /\ now \in Nat /\ minted \in Nat
         /\ told \in [Keys -> Nat] /\ held \in [Keys -> Nat]
         /\ Sound(entries, minted)
         /\ \A j \in Keys : held[j] = entries[j].leases
         /\ \A j \in Keys : told[j] # NoId => told[j] = entries[j].id
         /\ \A j \in Evicted(entries, order) : j \in Keys /\ held[j] = 0
<1>1. /\ open /\ ~failed /\ now \in Nat /\ minted \in Nat
      /\ told \in [Keys -> Nat] /\ held \in [Keys -> Nat] /\ Sound(entries, minted)
  BY DEF Ready, RegistryInv, ShapeInv
<1>2. \A j \in Keys : held[j] = entries[j].leases
  BY <1>1 DEF RegistryInv, LeaseInv
<1>3. \A j \in Keys : told[j] # NoId => told[j] = entries[j].id
  BY <1>1 DEF RegistryInv, IdentityIsDurable
<1>4. ASSUME NEW j \in Evicted(entries, order) PROVE j \in Keys /\ held[j] = 0
  <2>1. j \in Keys /\ entries[j].state # "active"
    BY EvictionSparesActive
  <2> QED  BY <1>1, <2>1, HolderIsActive
<1> QED  BY <1>1, <1>2, <1>3, <1>4

\* An id that is given again, to a caller that already has it or to one whom
\* nobody holds, is no other conversation's.
LEMMA AnswerIsLedgers ==
  ASSUME RegistryInv, NEW gone, \A j \in gone : j \in Keys /\ held[j] = 0,
         NEW k \in Keys, NEW lease \in BOOLEAN, NEW id \in 1..minted',
         minted' \in {minted, minted + 1},
         IF k \in gone \/ told[k] = NoId
         THEN \A j \in Keys \ {k} : j \in gone \/ told[j] # id
         ELSE id = told[k],
         told' = [j \in Keys |-> IF j = k THEN id ELSE IF j \in gone THEN NoId ELSE told[j]],
         held' = [held EXCEPT ![k] = IF lease THEN @ + 1 ELSE @]
  PROVE  Ledger!Answers(k, lease)
<1>1. gone \in SUBSET {j \in Keys : held[j] = 0}
  OBVIOUS
<1>2. held \in [Keys -> Nat] /\ told \in [Keys -> Nat] /\ minted \in Nat
  BY DEF RegistryInv, ShapeInv
<1> DEFINE rest == Ledger!Forgotten(gone)
<1>3. /\ rest = [j \in Keys |-> IF j \in gone THEN NoId ELSE told[j]]
      /\ \A j \in Keys : rest[j] = IF j \in gone THEN NoId ELSE told[j]
  BY DEF Ledger!Forgotten
<1> HIDE DEF rest
<1>4. told' = [rest EXCEPT ![k] = id]
  BY <1>3
<1>5. IF rest[k] # NoId THEN id = told[k] ELSE \A j \in Keys \ {k} : rest[j] # id
  <2>1. id # NoId
    BY <1>2 DEF NoId
  <2> QED  BY <1>3, <2>1
<1>6. held' = IF lease THEN [held EXCEPT ![k] = @ + 1] ELSE held
  BY <1>2
<1> QED  BY <1>1, <1>4, <1>5, <1>6 DEF rest, Ledger!Answers, Ledger!Issues

\* Create and Acquire of a mapping that exists.
LEMMA ResolveKnownStep ==
  ASSUME RegistryInv, NEW k \in Keys, NEW lease \in BOOLEAN, NEW saved \in BOOLEAN, NEW ok \in BOOLEAN,
         ResolveKnown(k, lease, saved, ok)
  PROVE  RegistryInv' /\ (Ledger!Answers(k, lease) \/ Ledger!LedgerForgets)
<1> DEFINE gone == Evicted(entries, order)
           es == Without(entries, gone)
           e == Leased([es[k] EXCEPT !.used = now], lease)
           new == [es EXCEPT ![k] = e]
<1>1. /\ Ready /\ es[k].state \in {"idle", "active"}
      /\ Persist(new, Touch(Keep(order, gone), k), saved, ok)
      /\ told' = [Recalled(gone) EXCEPT ![k] = IF ok THEN es[k].id ELSE @]
      /\ held' = [held EXCEPT ![k] = IF lease /\ ok THEN @ + 1 ELSE @]
      /\ now' = now /\ open' = open /\ minted' = minted
  BY Zenon DEF ResolveKnown
<1>2. \A j \in Keys : es[j] = IF j \in gone THEN NoEntry ELSE entries[j]
  BY DEF Without
<1> HIDE DEF gone, es, new, e
<1>3. /\ open /\ ~failed /\ now \in Nat /\ minted \in Nat
      /\ told \in [Keys -> Nat] /\ held \in [Keys -> Nat]
      /\ Sound(entries, minted)
      /\ \A j \in Keys : held[j] = entries[j].leases
      /\ \A j \in Keys : told[j] # NoId => told[j] = entries[j].id
      /\ \A j \in gone : j \in Keys /\ held[j] = 0
  BY <1>1, WhenReady DEF gone
<1>4. Sound(es, minted)
  BY <1>3, WithoutIsSound DEF es
<1>5. k \notin gone /\ es[k] = entries[k]
  BY <1>1, <1>2 DEF NoEntry
<1>6. /\ e \in Entry /\ e.id = es[k].id /\ e.state \in {"idle", "active"}
      /\ e.state = "active" <=> e.leases > 0
      /\ e.leases = IF lease THEN es[k].leases + 1 ELSE es[k].leases
  <2>1. es[k] \in Entry /\ (es[k].state = "active" <=> es[k].leases > 0)
    BY <1>4 DEF Sound
  <2> QED  BY <1>1, <1>3, <2>1, LeasedEntry DEF e
<1>7. es[k].id # NoId /\ es[k].id \in 1..minted
  <2>1. es[k].id # NoId /\ es[k].id <= minted /\ es[k].id \in Nat
    BY <1>1, <1>4 DEF Sound, Entry
  <2> QED  BY <1>3, <2>1 DEF NoId
<1>8. Sound(new, minted)
  BY <1>3, <1>4, <1>6, <1>7, RewrittenIsSound DEF new
<1>9. \A j \in Keys : new[j] = IF j = k THEN e ELSE es[j]
  BY <1>4 DEF new, Sound
<1>10. \A j \in Keys : told'[j] = IF j \in gone THEN NoId ELSE IF j = k /\ ok THEN es[k].id ELSE told[j]
  BY <1>1, <1>5 DEF Recalled
<1>11. \A j \in Keys : held'[j] = IF j = k /\ lease /\ ok THEN held[j] + 1 ELSE held[j]
  BY <1>1, <1>3
<1>12. \A j \in Keys : j \in gone => held[j] = 0
  BY <1>3
<1>13. \A j \in Keys : es[j].leases = held[j] /\ held[j] \in Nat
  BY <1>2, <1>3 DEF NoEntry
<1>14. told' \in [Keys -> Nat] /\ held' \in [Keys -> Nat]
  <2>1. es[k].id \in Nat /\ NoId \in Nat
    BY <1>3, <1>7 DEF NoId
  <2>2. Recalled(gone) \in [Keys -> Nat]
    BY <1>3, <2>1 DEF Recalled
  <2>3. told' \in [Keys -> Nat]
    BY <1>1, <2>1, <2>2
  <2>4. held' \in [Keys -> Nat]
    BY <1>1, <1>3
  <2> QED  BY <2>3, <2>4
<1>15. \A j \in Keys : told'[j] # NoId => told'[j] = new[j].id /\ (ok \/ told'[j] = told[j])
  BY <1>2, <1>3, <1>5, <1>6, <1>9, <1>10
<1>16. \A j \in Keys : held'[j] > 0 => told'[j] # NoId
  <2> SUFFICES ASSUME NEW j \in Keys, held'[j] > 0 PROVE told'[j] # NoId
    OBVIOUS
  <2>1. CASE j = k /\ ok
    BY <1>5, <1>7, <1>10, <2>1
  <2>2. CASE ~(j = k /\ ok)
    <3>1. held[j] > 0
      BY <1>11, <2>2
    <3>2. told[j] # NoId /\ j \notin gone
      BY <1>3, <3>1, HolderIsActive
    <3> QED  BY <1>10, <2>2, <3>2
  <2> QED  BY <2>1, <2>2
<1>17. /\ \A j \in Keys : held'[j] <= new[j].leases
       /\ ok => \A j \in Keys : held'[j] = new[j].leases
  BY <1>6, <1>9, <1>11, <1>13
<1>18. RegistryInv'
  BY <1>1, <1>3, <1>8, <1>14, <1>15, <1>16, <1>17, WriteKeeps
<1>19. CASE ok
  <2>1. told' = [j \in Keys |-> IF j = k THEN es[k].id ELSE IF j \in gone THEN NoId ELSE told[j]]
    BY <1>1, <1>5, <1>19 DEF Recalled
  <2>2. held' = [held EXCEPT ![k] = IF lease THEN @ + 1 ELSE @]
    BY <1>1, <1>19
  <2>3. IF k \in gone \/ told[k] = NoId
        THEN \A j \in Keys \ {k} : j \in gone \/ told[j] # es[k].id
        ELSE es[k].id = told[k]
    BY <1>3, <1>5, <1>7 DEF Sound
  <2>4. es[k].id \in 1..minted' /\ minted' \in {minted, minted + 1}
    BY <1>1, <1>7
  <2>5. \A j \in gone : j \in Keys /\ held[j] = 0
    BY <1>3
  <2>6. Ledger!Answers(k, lease)
    BY <2>1, <2>2, <2>3, <2>4, <2>5, AnswerIsLedgers
  <2> QED  BY <1>18, <2>6
<1>20. CASE ~ok
  <2>1. told' = [j \in Keys |-> IF j \in gone THEN NoId ELSE told[j]]
    BY <1>1, <1>5, <1>20 DEF Recalled
  <2>2. held' = held
    BY <1>1, <1>3, <1>20
  <2>3. Ledger!LedgerForgets
    BY <1>1, <1>3, <2>1, <2>2, ForgettingIsLedgers
  <2> QED  BY <1>18, <2>3
<1> QED  BY <1>19, <1>20

\* Create and Acquire of a mapping that does not exist, or no longer.
LEMMA ResolveNewStep ==
  ASSUME RegistryInv, NEW k \in Keys, NEW lease \in BOOLEAN, NEW saved \in BOOLEAN, NEW ok \in BOOLEAN,
         ResolveNew(k, lease, saved, ok)
  PROVE  RegistryInv' /\ (Ledger!Answers(k, lease) \/ Ledger!LedgerForgets)
<1> DEFINE gone == Evicted(entries, order)
           kept == Without(entries, gone)
           fresh == [id |-> minted + 1, state |-> "idle", created |-> now, used |-> now, leases |-> 0]
           e == Leased(fresh, lease)
           es == [kept EXCEPT ![k] = e]
           ord == Touch(Keep(order, gone), k)
           more == Evicted(es, ord)
           new == Without(es, more)
<1>1. /\ Ready /\ kept[k].state = "absent"
      /\ Persist(new, Keep(ord, more), saved, ok)
      /\ told' = [Recalled(gone \cup more) EXCEPT ![k] = IF ok /\ k \notin more THEN minted + 1 ELSE NoId]
      /\ held' = [held EXCEPT ![k] = IF lease /\ ok THEN @ + 1 ELSE @]
      /\ now' = now /\ open' = open /\ minted' = minted + 1
  BY Zenon DEF ResolveNew
<1>2. \A j \in Keys : kept[j] = IF j \in gone THEN NoEntry ELSE entries[j]
  BY DEF Without
<1>3. \A j \in Keys : new[j] = IF j \in more THEN NoEntry ELSE es[j]
  <2> HIDE DEF es, more
  <2> QED  BY DEF Without
<1>4. \A j \in more : j \in Keys /\ es[j].state # "active"
  <2> HIDE DEF es, ord
  <2> QED  BY EvictionSparesActive
<1> HIDE DEF gone, kept, e, es, ord, more, new
<1>5. /\ open /\ ~failed /\ now \in Nat /\ minted \in Nat
      /\ told \in [Keys -> Nat] /\ held \in [Keys -> Nat]
      /\ Sound(entries, minted)
      /\ \A j \in Keys : held[j] = entries[j].leases
      /\ \A j \in Keys : told[j] # NoId => told[j] = entries[j].id
      /\ \A j \in gone : j \in Keys /\ held[j] = 0
  BY <1>1, WhenReady DEF gone
<1>6. Sound(kept, minted)
  BY <1>5, WithoutIsSound DEF kept
<1>7. /\ e \in Entry /\ e.id = minted + 1 /\ e.state \in {"idle", "active"}
      /\ e.state = "active" <=> e.leases > 0
      /\ e.leases = IF lease THEN 1 ELSE 0
  <2>1. fresh \in Entry /\ fresh = [fresh EXCEPT !.used = now]
    BY <1>5 DEF Entry
  <2>2. e = Leased([fresh EXCEPT !.used = now], lease)
    BY <2>1 DEF e
  <2>3. /\ e \in Entry /\ e.id = fresh.id /\ e.state \in {"idle", "active"}
        /\ e.state = "active" <=> e.leases > 0
        /\ e.leases = IF lease THEN fresh.leases + 1 ELSE fresh.leases
    BY <1>5, <2>1, <2>2, LeasedEntry
  <2> QED  BY <2>3
<1>8. Sound(es, minted + 1)
  <2>1. minted + 1 \in Nat /\ minted <= minted + 1 /\ minted + 1 > minted
    BY <1>5
  <2>2. e.state # "absent" => e.id # NoId
    BY <1>5, <1>7 DEF NoId
  <2> QED  BY <1>5, <1>6, <1>7, <2>1, <2>2, RewrittenIsSound DEF es
<1>9. Sound(new, minted + 1)
  BY <1>5, <1>8, WithoutIsSound DEF new
<1>10. \A j \in Keys : es[j] = IF j = k THEN e ELSE kept[j]
  BY <1>6 DEF es, Sound
<1>11. \A j \in Keys : kept[j].leases = held[j] /\ held[j] \in Nat
  BY <1>2, <1>5 DEF NoEntry
<1>12. held[k] = 0
  <2>1. ~(kept[k].leases > 0)
    BY <1>1, <1>6 DEF Sound
  <2> QED  BY <1>11, <2>1
<1>13. \A j \in gone \cup more \cup {k} : j \in Keys /\ held[j] = 0
  <2>1. ASSUME NEW j \in more, j # k PROVE held[j] = 0
    <3>1. j \in Keys /\ kept[j].state # "active"
      BY <1>4, <1>10, <2>1
    <3>2. ~(kept[j].leases > 0)
      BY <1>6, <3>1 DEF Sound
    <3> QED  BY <1>11, <3>1, <3>2
  <2> QED  BY <1>4, <1>5, <1>12, <2>1
<1>14. lease => k \notin more
  BY <1>4, <1>7, <1>10
<1>15. \A j \in Keys : told'[j] = IF j = k THEN IF ok /\ k \notin more THEN minted + 1 ELSE NoId
                                  ELSE IF j \in gone \cup more THEN NoId ELSE told[j]
  BY <1>1 DEF Recalled
<1>16. \A j \in Keys : held'[j] = IF j = k /\ lease /\ ok THEN held[j] + 1 ELSE held[j]
  BY <1>1, <1>5
<1>17. told' \in [Keys -> Nat] /\ held' \in [Keys -> Nat]
  <2>1. NoId \in Nat /\ minted + 1 \in Nat
    BY <1>5 DEF NoId
  <2>2. Recalled(gone \cup more) \in [Keys -> Nat]
    BY <1>5, <2>1 DEF Recalled
  <2>3. told' \in [Keys -> Nat]
    BY <1>1, <2>1, <2>2
  <2>4. held' \in [Keys -> Nat]
    BY <1>1, <1>5
  <2> QED  BY <2>3, <2>4
<1>18. \A j \in Keys : told'[j] # NoId => told'[j] = new[j].id /\ (ok \/ told'[j] = told[j])
  BY <1>2, <1>3, <1>5, <1>7, <1>10, <1>15
<1>19. \A j \in Keys : held'[j] > 0 => told'[j] # NoId
  <2> SUFFICES ASSUME NEW j \in Keys, held'[j] > 0 PROVE told'[j] # NoId
    OBVIOUS
  <2>1. CASE j = k
    <3>1. lease /\ ok
      BY <1>12, <1>16, <2>1
    <3> QED  BY <1>5, <1>14, <1>15, <2>1, <3>1 DEF NoId
  <2>2. CASE j # k
    <3>1. held[j] > 0
      BY <1>16, <2>2
    <3>2. told[j] # NoId
      BY <3>1, HolderIsActive
    <3>3. j \notin gone \cup more
      BY <1>13, <3>1
    <3> QED  BY <1>15, <2>2, <3>2, <3>3
  <2> QED  BY <2>1, <2>2
<1>20. /\ \A j \in Keys : held'[j] <= new[j].leases
       /\ ok => \A j \in Keys : held'[j] = new[j].leases
  <2> SUFFICES ASSUME NEW j \in Keys
               PROVE  held'[j] <= new[j].leases /\ (ok => held'[j] = new[j].leases)
    OBVIOUS
  <2>1. CASE j \in more
    <3>1. held'[j] = 0
      BY <1>13, <1>14, <1>16, <2>1
    <3> QED  BY <1>3, <2>1, <3>1 DEF NoEntry
  <2>2. CASE j \notin more
    BY <1>3, <1>7, <1>10, <1>11, <1>12, <1>16, <2>2
  <2> QED  BY <2>1, <2>2
<1>21. RegistryInv'
  <2>1. minted' \in Nat /\ minted <= minted' /\ Sound(new, minted')
    BY <1>1, <1>5, <1>9
  <2>2. open /\ open' = open /\ now' = now /\ Persist(new, Keep(ord, more), saved, ok)
    BY <1>1, <1>5
  <2> QED  BY <1>17, <1>18, <1>19, <1>20, <2>1, <2>2, WriteKeeps
<1>22. minted' \in {minted, minted + 1}
  BY <1>1
<1>23. CASE ok /\ k \notin more
  <2>1. told' = [j \in Keys |-> IF j = k THEN minted + 1
                               ELSE IF j \in gone \cup more \cup {k} THEN NoId ELSE told[j]]
    BY <1>1, <1>23 DEF Recalled
  <2>2. held' = [held EXCEPT ![k] = IF lease THEN @ + 1 ELSE @]
    BY <1>1, <1>23
  <2>3. \A j \in Keys \ {k} : told[j] # minted + 1
    <3> SUFFICES ASSUME NEW j \in Keys, told[j] = minted + 1 PROVE FALSE
      OBVIOUS
    <3>1. entries[j].id = minted + 1 /\ entries[j].id <= minted
      BY <1>5 DEF Sound, NoId
    <3> QED  BY <1>5, <3>1
  <2>4. minted + 1 \in 1..minted'
    BY <1>1, <1>5
  <2> DEFINE dropped == gone \cup more \cup {k}
  <2>5. k \in dropped /\ \A j \in dropped : j \in Keys /\ held[j] = 0
    BY <1>13
  <2> HIDE DEF dropped
  <2>6. told' = [j \in Keys |-> IF j = k THEN minted + 1 ELSE IF j \in dropped THEN NoId ELSE told[j]]
    BY <2>1 DEF dropped
  <2>7. Ledger!Answers(k, lease)
    BY <1>22, <2>2, <2>3, <2>4, <2>5, <2>6, AnswerIsLedgers
  <2> QED  BY <1>21, <2>7
<1>24. CASE ~(ok /\ k \notin more)
  <2>1. told' = [j \in Keys |-> IF j \in gone \cup more \cup {k} THEN NoId ELSE told[j]]
    BY <1>1, <1>24 DEF Recalled
  <2>2. held' = held
    BY <1>1, <1>5, <1>14, <1>24
  <2> DEFINE dropped == gone \cup more \cup {k}
  <2>3. \A j \in dropped : j \in Keys /\ held[j] = 0
    BY <1>13
  <2>4. told' = [j \in Keys |-> IF j \in dropped THEN NoId ELSE told[j]]
    BY <2>1
  <2> HIDE DEF dropped
  <2>5. Ledger!LedgerForgets
    BY <1>22, <2>2, <2>3, <2>4, ForgettingIsLedgers
  <2> QED  BY <1>21, <2>5
<1> QED  BY <1>23, <1>24

\* The mapping is terminated, or no id can be minted.
LEMMA ResolveRefusedStep ==
  ASSUME RegistryInv, NEW k \in Keys, ResolveRefused(k)
  PROVE  RegistryInv' /\ Ledger!LedgerForgets
<1> DEFINE gone == Evicted(entries, order)
<1>1. /\ Ready /\ entries' = Without(entries, gone) /\ told' = Recalled(gone)
      /\ UNCHANGED <<now, open, failed, disk, minted, held>>
  BY DEF ResolveRefused, Forget
<1> HIDE DEF gone
<1>2. /\ open /\ ~failed /\ now \in Nat /\ minted \in Nat
      /\ told \in [Keys -> Nat] /\ held \in [Keys -> Nat]
      /\ Sound(entries, minted)
      /\ \A j \in Keys : held[j] = entries[j].leases
      /\ \A j \in Keys : told[j] # NoId => told[j] = entries[j].id
      /\ \A j \in gone : j \in Keys /\ held[j] = 0
  BY <1>1, WhenReady DEF gone
<1>3. \A j \in Keys : entries'[j] = IF j \in gone THEN NoEntry ELSE entries[j]
  BY <1>1 DEF Without
<1>4. \A j \in Keys : told'[j] = IF j \in gone THEN NoId ELSE told[j]
  BY <1>1 DEF Recalled
<1>5. ShapeInv'
  <2>1. told' \in [Keys -> Nat]
    BY <1>1, <1>2 DEF Recalled, NoId
  <2>2. Sound(entries', minted)
    BY <1>1, <1>2, WithoutIsSound
  <2>3. Sound(entries, minted)' /\ Sound(disk.entries, minted)'
    BY <1>1, <2>2 DEF RegistryInv, ShapeInv, Sound, Entry
  <2> QED  BY <1>1, <2>1, <2>3 DEF RegistryInv, ShapeInv
<1>6. LeaseInv'
  <2> SUFFICES ASSUME NEW j \in Keys
               PROVE  held'[j] = entries'[j].leases /\ (held'[j] > 0 => told'[j] # NoId)
    BY <1>1, <1>2, <1>3 DEF LeaseInv, NoEntry
  <2>1. held[j] > 0 => told[j] # NoId
    BY HolderIsActive
  <2> QED  BY <1>1, <1>2, <1>3, <1>4, <2>1 DEF NoEntry
<1>7. IdentityIsDurable'
  BY <1>1, <1>2, <1>3, <1>4 DEF RegistryInv, IdentityIsDurable
<1>8. Ledger!LedgerForgets
  BY <1>1, <1>2, ForgettingIsLedgers DEF Recalled
<1> QED  BY <1>5, <1>6, <1>7, <1>8 DEF RegistryInv

\* Reference leases a live mapping again.
LEMMA ReferenceStep ==
  ASSUME RegistryInv, NEW k \in Keys, NEW saved \in BOOLEAN, NEW ok \in BOOLEAN, Reference(k, saved, ok)
  PROVE  RegistryInv' /\ (Ledger!Answers(k, TRUE) \/ Ledger!LedgerForgets)
<1> DEFINE e == Leased([entries[k] EXCEPT !.used = now], TRUE)
           new == [entries EXCEPT ![k] = e]
<1>1. /\ Ready /\ Live(k) /\ Persist(new, order, saved, ok)
      /\ told' = [told EXCEPT ![k] = IF ok THEN entries[k].id ELSE @]
      /\ held' = [held EXCEPT ![k] = IF ok THEN @ + 1 ELSE @]
      /\ now' = now /\ open' = open /\ minted' = minted
  BY Zenon DEF Reference
<1> HIDE DEF e, new
<1>2. /\ open /\ ~failed /\ now \in Nat /\ minted \in Nat
      /\ told \in [Keys -> Nat] /\ held \in [Keys -> Nat]
      /\ Sound(entries, minted)
      /\ \A j \in Keys : held[j] = entries[j].leases
      /\ \A j \in Keys : told[j] # NoId => told[j] = entries[j].id
  BY <1>1, WhenReady
<1>3. entries[k].state \in {"idle", "active"}
  BY <1>1 DEF Live
<1>4. /\ e \in Entry /\ e.id = entries[k].id /\ e.state \in {"idle", "active"}
      /\ e.state = "active" <=> e.leases > 0
      /\ e.leases = entries[k].leases + 1
  <2>1. entries[k] \in Entry /\ (entries[k].state = "active" <=> entries[k].leases > 0)
    BY <1>2 DEF Sound
  <2> QED  BY <1>2, <1>3, <2>1, LeasedEntry DEF e
<1>5. entries[k].id # NoId /\ entries[k].id \in 1..minted
  <2>1. entries[k].id # NoId /\ entries[k].id <= minted /\ entries[k].id \in Nat
    BY <1>2, <1>3 DEF Sound, Entry
  <2> QED  BY <1>2, <2>1 DEF NoId
<1>6. Sound(new, minted)
  BY <1>2, <1>4, <1>5, RewrittenIsSound DEF new
<1>7. \A j \in Keys : new[j] = IF j = k THEN e ELSE entries[j]
  BY <1>2 DEF new, Sound
<1>8. \A j \in Keys : /\ told'[j] = IF j = k /\ ok THEN entries[k].id ELSE told[j]
                      /\ held'[j] = IF j = k /\ ok THEN held[j] + 1 ELSE held[j]
                      /\ held[j] \in Nat
  BY <1>1, <1>2
<1>9. told' \in [Keys -> Nat] /\ held' \in [Keys -> Nat]
  <2>1. entries[k].id \in Nat
    BY <1>2, <1>5
  <2> QED  BY <1>1, <1>2, <2>1
<1>10. \A j \in Keys : told'[j] # NoId => told'[j] = new[j].id /\ (ok \/ told'[j] = told[j])
  BY <1>2, <1>4, <1>7, <1>8
<1>11. \A j \in Keys : held'[j] > 0 => told'[j] # NoId
  <2>1. \A j \in Keys : held[j] > 0 => told[j] # NoId
    BY HolderIsActive
  <2> QED  BY <1>5, <1>8, <2>1
<1>12. /\ \A j \in Keys : held'[j] <= new[j].leases
       /\ ok => \A j \in Keys : held'[j] = new[j].leases
  BY <1>2, <1>4, <1>7, <1>8
<1>13. RegistryInv'
  <2>1. minted' \in Nat /\ minted <= minted' /\ Sound(new, minted')
    BY <1>1, <1>2, <1>6
  <2>2. open /\ open' = open /\ now' = now /\ Persist(new, order, saved, ok)
    BY <1>1, <1>2
  <2> QED  BY <1>9, <1>10, <1>11, <1>12, <2>1, <2>2, WriteKeeps
<1>14. minted' \in {minted, minted + 1}
  BY <1>1
<1> DEFINE none == {}
<1>0. \A j : j \notin none
  OBVIOUS
<1> HIDE DEF none
<1>15. CASE ok
  <2>1. told' = [j \in Keys |-> IF j = k THEN entries[k].id ELSE IF j \in none THEN NoId ELSE told[j]]
    BY <1>0, <1>1, <1>2, <1>15
  <2>2. held' = [held EXCEPT ![k] = IF TRUE THEN @ + 1 ELSE @]
    BY <1>1, <1>15
  <2>3. IF k \in none \/ told[k] = NoId
        THEN \A j \in Keys \ {k} : j \in none \/ told[j] # entries[k].id
        ELSE entries[k].id = told[k]
    BY <1>0, <1>2, <1>5 DEF Sound
  <2>4. entries[k].id \in 1..minted'
    BY <1>1, <1>5
  <2>5. \A j \in none : j \in Keys /\ held[j] = 0
    BY <1>0
  <2>6. Ledger!Answers(k, TRUE)
    BY <1>14, <2>1, <2>2, <2>3, <2>4, <2>5, AnswerIsLedgers
  <2> QED  BY <1>13, <2>6
<1>16. CASE ~ok
  <2>1. told' = [j \in Keys |-> IF j \in none THEN NoId ELSE told[j]]
    BY <1>0, <1>1, <1>2, <1>16
  <2>2. held' = held
    BY <1>1, <1>2, <1>16
  <2>3. Ledger!LedgerForgets
    BY <1>0, <1>14, <2>1, <2>2, ForgettingIsLedgers
  <2> QED  BY <1>13, <2>3
<1> QED  BY <1>15, <1>16

\* A holder gives its lease back; what becomes evictable may go at once.
LEMMA ReleaseStep ==
  ASSUME RegistryInv, NEW k \in Keys, NEW saved \in BOOLEAN, NEW ok \in BOOLEAN, Release(k, saved, ok)
  PROVE  RegistryInv' /\ Ledger!GivesBack(k)
<1>1. /\ open /\ held[k] > 0 /\ held' = [held EXCEPT ![k] = @ - 1]
      /\ now' = now /\ open' = open /\ minted' = minted
  BY DEF Release
<1>2. /\ now \in Nat /\ minted \in Nat /\ told \in [Keys -> Nat] /\ held \in [Keys -> Nat]
      /\ Sound(entries, minted)
  BY DEF RegistryInv, ShapeInv
<1>3. \A j \in Keys : /\ held'[j] = IF j = k THEN held[j] - 1 ELSE held[j]
                      /\ held[j] \in Nat /\ entries[j].leases \in Nat /\ held[j] <= entries[j].leases
  BY <1>1, <1>2 DEF RegistryInv, LeaseInv, Sound, Entry
<1>4. held' \in [Keys -> Nat] /\ \A j \in Keys : held'[j] \in Nat
  <2>1. held[k] - 1 \in Nat
    BY <1>1, <1>3
  <2> QED  BY <1>1, <1>2, <2>1
<1>5. entries[k].leases > 0
  BY <1>1, <1>3
<1>6. \A j \in Keys : held[j] > 0 => told[j] # NoId
  BY HolderIsActive
<1>7. ASSUME NEW gone, \A j \in gone : j \in Keys /\ held'[j] = 0,
             told' = [j \in Keys |-> IF j \in gone THEN NoId ELSE told[j]]
      PROVE  Ledger!GivesBack(k)
  <2>1. gone \in SUBSET {j \in Keys : held'[j] = 0}
    BY <1>7
  <2>2. told' = Ledger!Forgotten(gone)
    BY <1>7 DEF Ledger!Forgotten
  <2> QED  BY <1>1, <2>1, <2>2 DEF Ledger!GivesBack
<1>8. CASE failed
  <2>1. UNCHANGED <<failed, entries, order, disk, told>>
    BY <1>8 DEF Release
  <2>2. ShapeInv'
    <3>1. Sound(entries, minted)' /\ Sound(disk.entries, minted)'
      BY <1>1, <2>1 DEF RegistryInv, ShapeInv, Sound, Entry
    <3> QED  BY <1>1, <1>4, <2>1, <3>1 DEF RegistryInv, ShapeInv
  <2>3. LeaseInv'
    <3> SUFFICES ASSUME NEW j \in Keys
                 PROVE  (held'[j] > 0 => told[j] # NoId) /\ held'[j] <= entries[j].leases
      BY <1>1, <1>8, <2>1 DEF LeaseInv
    <3> QED  BY <1>3, <1>6
  <2>4. IdentityIsDurable'
    BY <1>1, <2>1 DEF RegistryInv, IdentityIsDurable
  <2> DEFINE none == {}
  <2>0. \A j : j \notin none
    OBVIOUS
  <2> HIDE DEF none
  <2>5. told' = [j \in Keys |-> IF j \in none THEN NoId ELSE told[j]]
    BY <1>2, <2>0, <2>1
  <2>6. Ledger!GivesBack(k)
    BY <1>7, <2>0, <2>5
  <2> QED  BY <2>2, <2>3, <2>4, <2>6 DEF RegistryInv
<1>9. CASE ~failed
  <2> DEFINE e == Unleased(entries[k])
             es == [entries EXCEPT ![k] = e]
             ord == IF entries[k].leases = 1 THEN Touch(order, k) ELSE order
             gone == Evicted(es, ord)
             new == Without(es, gone)
  <2>1. Persist(new, Keep(ord, gone), saved, ok) /\ Forget(gone)
    <3>1. entries[k].leases # 0
      BY <1>5
    <3> QED  BY <1>9, <3>1, Zenon DEF Release
  <2>2. \A j \in Keys : new[j] = IF j \in gone THEN NoEntry ELSE es[j]
    <3> HIDE DEF es, gone
    <3> QED  BY DEF Without
  <2>3. \A j \in gone : j \in Keys /\ es[j].state # "active"
    <3> HIDE DEF es, ord
    <3> QED  BY EvictionSparesActive
  <2> HIDE DEF e, es, ord, gone, new
  <2>4. \A j \in Keys : held[j] = entries[j].leases
    BY <1>1, <1>9 DEF RegistryInv, LeaseInv
  <2>5. /\ e \in Entry /\ e.id = entries[k].id /\ e.state \in {"idle", "active"}
        /\ e.state = "active" <=> e.leases > 0
        /\ e.leases = entries[k].leases - 1
    <3>1. entries[k] \in Entry /\ (entries[k].state = "active" <=> entries[k].leases > 0)
      BY <1>2 DEF Sound
    <3> QED  BY <1>2, <1>5, <3>1, UnleasedEntry DEF e
  <2>6. entries[k].id # NoId
    BY <1>2, <1>5 DEF Sound
  <2>7. Sound(es, minted)
    BY <1>2, <2>5, <2>6, RewrittenIsSound DEF es
  <2>8. Sound(new, minted)
    BY <1>2, <2>7, WithoutIsSound DEF new
  <2>9. \A j \in Keys : es[j] = IF j = k THEN e ELSE entries[j]
    BY <1>2 DEF es, Sound
  <2>10. \A j \in Keys : held'[j] = es[j].leases
    BY <1>3, <2>4, <2>5, <2>9
  <2>11. \A j \in gone : j \in Keys /\ held'[j] = 0
    <3> SUFFICES ASSUME NEW j \in gone PROVE j \in Keys /\ held'[j] = 0
      OBVIOUS
    <3>1. j \in Keys /\ ~(es[j].leases > 0)
      BY <2>3, <2>7 DEF Sound
    <3> QED  BY <1>4, <2>10, <3>1
  <2>12. \A j \in Keys : told'[j] = IF j \in gone THEN NoId ELSE told[j]
    BY <2>1 DEF Forget, Recalled
  <2>13. told' \in [Keys -> Nat]
    BY <1>2, <2>1 DEF Forget, Recalled, NoId
  <2>14. \A j \in Keys : told'[j] # NoId => told'[j] = new[j].id /\ (ok \/ told'[j] = told[j])
    <3>1. \A j \in Keys : told[j] # NoId => told[j] = entries[j].id
      BY <1>1 DEF RegistryInv, IdentityIsDurable
    <3> QED  BY <2>2, <2>5, <2>9, <2>12, <3>1
  <2>15. \A j \in Keys : held'[j] > 0 => told'[j] # NoId
    BY <1>3, <1>6, <2>11, <2>12
  <2>16. \A j \in Keys : held'[j] = new[j].leases
    BY <2>2, <2>10, <2>11 DEF NoEntry
  <2>17. \A j \in Keys : held'[j] <= new[j].leases
    BY <1>4, <2>16
  <2>18. RegistryInv'
    <3>1. minted' \in Nat /\ minted <= minted' /\ Sound(new, minted')
      BY <1>1, <1>2, <2>8
    <3> QED  BY <1>1, <1>4, <2>1, <2>13, <2>14, <2>15, <2>16, <2>17, <3>1, WriteKeeps
  <2>19. told' = [j \in Keys |-> IF j \in gone THEN NoId ELSE told[j]]
    BY <2>1 DEF Forget, Recalled
  <2>20. Ledger!GivesBack(k)
    BY <1>7, <2>11, <2>19
  <2> QED  BY <2>18, <2>20
<1> QED  BY <1>8, <1>9

\* Termination changes nothing that callers hold.
LEMMA TerminateStep ==
  ASSUME RegistryInv, NEW k \in Keys, NEW saved \in BOOLEAN, NEW ok \in BOOLEAN, Terminate(k, saved, ok)
  PROVE  RegistryInv' /\ UNCHANGED <<told, held, minted>>
<1> DEFINE e == [entries[k] EXCEPT !.state = "terminated", !.used = now]
           new == [entries EXCEPT ![k].state = "terminated", ![k].used = now]
<1>1. /\ Ready /\ entries[k].state # "absent" /\ entries[k].leases = 0
      /\ Persist(new, order, saved, ok)
      /\ UNCHANGED <<now, open, minted, held, told>>
  BY DEF Terminate
<1>2. /\ open /\ ~failed /\ now \in Nat /\ minted \in Nat
      /\ told \in [Keys -> Nat] /\ held \in [Keys -> Nat]
      /\ Sound(entries, minted)
      /\ \A j \in Keys : held[j] = entries[j].leases
      /\ \A j \in Keys : told[j] # NoId => told[j] = entries[j].id
  BY <1>1, WhenReady
<1>3. entries[k] \in Entry
  BY <1>2 DEF Sound
<1>4. /\ e \in Entry /\ e.id = entries[k].id /\ e.state = "terminated" /\ e.leases = 0
  <2>1. e.leases = 0 /\ e.id = entries[k].id /\ e.state = "terminated"
    BY <1>1, <1>3 DEF Entry
  <2>2. e \in Entry
    BY <1>2, <1>3 DEF Entry
  <2> QED  BY <2>1, <2>2
<1>5. new = [entries EXCEPT ![k] = e]
  <2>1. entries \in [Keys -> Entry]
    BY <1>2 DEF Sound
  <2> QED  BY <1>3, <2>1 DEF Entry
<1> HIDE DEF e, new
<1>6. entries[k].id # NoId
  BY <1>1, <1>2 DEF Sound
<1>7. Sound(new, minted)
  <2>1. (e.state = "active" <=> e.leases > 0) /\ e.id # NoId /\ minted <= minted
    BY <1>2, <1>4, <1>6
  <2> QED  BY <1>2, <1>4, <1>5, <2>1, RewrittenIsSound
<1>8. \A j \in Keys : new[j] = IF j = k THEN e ELSE entries[j]
  BY <1>2, <1>5 DEF Sound
<1>9. \A j \in Keys : told'[j] # NoId => told'[j] = new[j].id /\ told'[j] = told[j]
  BY <1>1, <1>2, <1>4, <1>8
<1>10. \A j \in Keys : held'[j] > 0 => told'[j] # NoId
  BY <1>1, HolderIsActive
<1>11. \A j \in Keys : held'[j] = new[j].leases /\ held'[j] <= new[j].leases
  BY <1>1, <1>2, <1>4, <1>8
<1>12. RegistryInv'
  <2>1. minted' \in Nat /\ minted <= minted' /\ Sound(new, minted')
    BY <1>1, <1>2, <1>7
  <2>2. told' \in [Keys -> Nat] /\ held' \in [Keys -> Nat]
    BY <1>1, <1>2
  <2>3. open /\ open' = open /\ now' = now /\ Persist(new, order, saved, ok)
    BY <1>1, <1>2
  <2> QED  BY <1>9, <1>10, <1>11, <2>1, <2>2, <2>3, WriteKeeps
<1> QED  BY <1>1, <1>12

\* The clock moves, forward or back.
LEMMA ClockStep ==
  ASSUME RegistryInv, Clock
  PROVE  RegistryInv' /\ UNCHANGED <<told, held, minted>>
<1>1. UNCHANGED <<open, failed, entries, disk, minted, held, told>>
  BY DEF Clock
<1>2. now' \in Nat
  BY DEF Clock, Tick, SetBack, RegistryInv, ShapeInv
<1>3. ShapeInv'
  <2>1. Sound(entries, minted)' /\ Sound(disk.entries, minted)'
    BY <1>1 DEF RegistryInv, ShapeInv, Sound, Entry
  <2> QED  BY <1>1, <1>2, <2>1 DEF RegistryInv, ShapeInv
<1>4. LeaseInv' /\ IdentityIsDurable'
  BY <1>1 DEF RegistryInv, LeaseInv, IdentityIsDurable
<1> QED  BY <1>1, <1>3, <1>4 DEF RegistryInv

--------------------------------------------------------------------------------
(* What holds of the registry                                              *)

\* Every step keeps the invariant, and is a step of the ledger or none.
LEMMA StepKeepsLedger ==
  ASSUME RegistryInv, [RegistryNext]_registryVars
  PROVE  RegistryInv' /\ [Ledger!LedgerNext]_<<told, held, minted>>
<1>1. ASSUME NEW saved \in BOOLEAN, NEW ok \in BOOLEAN, Open(saved, ok)
      PROVE  RegistryInv' /\ [Ledger!LedgerNext]_<<told, held, minted>>
  BY <1>1, OpenStep DEF Ledger!LedgerNext
<1>2. CASE Stop
  BY <1>2, StopStep DEF Ledger!LedgerNext
<1>3. ASSUME NEW k \in Keys, NEW lease \in BOOLEAN, NEW saved \in BOOLEAN, NEW ok \in BOOLEAN,
             ResolveKnown(k, lease, saved, ok) \/ ResolveNew(k, lease, saved, ok)
      PROVE  RegistryInv' /\ [Ledger!LedgerNext]_<<told, held, minted>>
  BY <1>3, ResolveKnownStep, ResolveNewStep DEF Ledger!LedgerNext
<1>4. ASSUME NEW k \in Keys, ResolveRefused(k)
      PROVE  RegistryInv' /\ [Ledger!LedgerNext]_<<told, held, minted>>
  BY <1>4, ResolveRefusedStep DEF Ledger!LedgerNext
<1>5. ASSUME NEW k \in Keys, NEW saved \in BOOLEAN, NEW ok \in BOOLEAN, Reference(k, saved, ok)
      PROVE  RegistryInv' /\ [Ledger!LedgerNext]_<<told, held, minted>>
  <2>1. RegistryInv' /\ (Ledger!Answers(k, TRUE) \/ Ledger!LedgerForgets)
    BY <1>5, ReferenceStep
  <2>2. TRUE \in BOOLEAN
    OBVIOUS
  <2> QED  BY <2>1, <2>2 DEF Ledger!LedgerNext
<1>6. ASSUME NEW k \in Keys, NEW saved \in BOOLEAN, NEW ok \in BOOLEAN, Release(k, saved, ok)
      PROVE  RegistryInv' /\ [Ledger!LedgerNext]_<<told, held, minted>>
  BY <1>6, ReleaseStep DEF Ledger!LedgerNext
<1>7. ASSUME NEW k \in Keys, NEW saved \in BOOLEAN, NEW ok \in BOOLEAN, Terminate(k, saved, ok)
      PROVE  RegistryInv' /\ [Ledger!LedgerNext]_<<told, held, minted>>
  BY <1>7, TerminateStep
<1>8. CASE Clock
  BY <1>8, ClockStep
<1>9. CASE UNCHANGED registryVars
  <2>1. Sound(entries, minted)' /\ Sound(disk.entries, minted)'
    BY <1>9 DEF registryVars, RegistryInv, ShapeInv, Sound, Entry
  <2> QED  BY <1>9, <2>1 DEF registryVars, RegistryInv, ShapeInv, LeaseInv, IdentityIsDurable
<1> QED  BY <1>1, <1>2, <1>3, <1>4, <1>5, <1>6, <1>7, <1>8, <1>9 DEF RegistryNext

\* A registry that never ran owes nothing.
LEMMA InitialRegistry == RegistryInit => RegistryInv /\ Ledger!LedgerInit
<1> SUFFICES ASSUME RegistryInit PROVE RegistryInv /\ Ledger!LedgerInit
  OBVIOUS
<1>1. NoEntry \in Entry /\ NoEntry.state = "absent" /\ NoEntry.leases = 0 /\ NoEntry.id = NoId /\ NoId = 0
  BY DEF NoEntry, Entry, NoId
<1>2. entries = [k \in Keys |-> NoEntry] /\ disk.entries = [k \in Keys |-> NoEntry] /\ minted = 0
  BY DEF RegistryInit
<1>3. Sound(entries, minted) /\ Sound(disk.entries, minted)
  <2> DEFINE es == [k \in Keys |-> NoEntry]
  <2>1. es \in [Keys -> Entry] /\ \A k \in Keys : es[k] = NoEntry
    BY <1>1
  <2> HIDE DEF es
  <2>2. Sound(es, 0)
    BY <1>1, <2>1 DEF Sound
  <2> QED  BY <1>2, <2>2 DEF es
<1>4. ShapeInv
  <2>1. told = [k \in Keys |-> NoId] /\ held = [k \in Keys |-> 0]
    BY DEF RegistryInit
  <2>2. told \in [Keys -> Nat] /\ held \in [Keys -> Nat]
    BY <2>1 DEF NoId
  <2>3. now = 1 /\ minted = 0 /\ open = FALSE /\ failed = FALSE
    BY DEF RegistryInit
  <2> QED  BY <1>3, <2>2, <2>3 DEF ShapeInv
<1>5. LeaseInv /\ IdentityIsDurable
  BY DEF RegistryInit, LeaseInv, IdentityIsDurable
<1>6. Ledger!LedgerInit
  BY DEF RegistryInit, Ledger!LedgerInit
<1> QED  BY <1>4, <1>5, <1>6 DEF RegistryInv

\* The inductive invariant of the registry (registry.go): entries are well
\* formed and distinct in memory and on disk, and leases are counted.
THEOREM RegistryInvariant == RegistrySpec => []RegistryInv
<1>1. RegistryInit => RegistryInv
  BY InitialRegistry
<1>2. RegistryInv /\ [RegistryNext]_registryVars => RegistryInv'
  BY StepKeepsLedger
<1> QED  BY <1>1, <1>2, PTL DEF RegistrySpec

\* No eviction, restart or failed save takes a session from under a caller that
\* holds a lease of it (evictLocked, Acquire, Release).
THEOREM HoldersKeepSessions == RegistrySpec => []LeaseHolderKeepsSession
<1>1. RegistryInv => LeaseHolderKeepsSession
  BY InvariantImplies
<1> QED  BY <1>1, RegistryInvariant, PTL

\* An id that a caller was given is on disk until the mapping is evicted,
\* whatever failed or died since (persistLocked).
THEOREM IdentitiesAreDurable == RegistrySpec => []IdentityIsDurable
<1>1. RegistryInv => IdentityIsDurable
  BY DEF RegistryInv
<1> QED  BY <1>1, RegistryInvariant, PTL

\* The registry implements the ledger: through every failure, eviction and
\* restart, callers see ids that stay a conversation's own while it is leased.
THEOREM RegistryKeepsLedger == RegistrySpec => KeepsLedger
<1>1. RegistryInit => Ledger!LedgerInit
  BY InitialRegistry
<1>2. RegistryInv /\ [RegistryNext]_registryVars => [Ledger!LedgerNext]_<<told, held, minted>>
  BY StepKeepsLedger
<1> QED  BY <1>1, <1>2, RegistryInvariant, PTL DEF RegistrySpec, KeepsLedger, Ledger!LedgerSpec, Ledger!ledgerVars

--------------------------------------------------------------------------------
(* Terminations, and the times in the state file                           *)

\* Entries are older than their last use, which is past.
Timed(es) == \A k \in Keys : es[k].created <= es[k].used /\ es[k].used <= now

InWindow(k) == retired[k] # NoTime /\ now - retired[k] <= Ttl

KeptRetired(es, k) == es[k].state = "terminated" /\ retired[k] <= es[k].used

TimeInv ==
  /\ retired \in [Keys -> Nat]
  /\ steady =>
       /\ Timed(entries) /\ Timed(disk.entries)
       /\ \A k \in Keys : InWindow(k) => KeptRetired(disk.entries, k) /\ (open => KeptRetired(entries, k))

\* While its window lasts, a terminated mapping is not evicted (evictLocked).
LEMMA EvictionSparesRetired ==
  ASSUME NEW es, NEW ord, NEW last, Sound(es, last), now \in Nat, retired \in [Keys -> Nat],
         NEW k \in Keys, InWindow(k), KeptRetired(es, k)
  PROVE  k \notin Evicted(es, ord) /\ k \notin Expired(es)
<1>1. es[k].used \in Nat /\ retired[k] \in Nat
  BY DEF Sound, Entry
<1>2. ~(now - es[k].used > Ttl)
  BY <1>1, RegistryAssumption DEF InWindow, KeptRetired
<1>3. k \notin Expired(es)
  BY <1>2 DEF Expired
<1>4. k \notin Surplus(es, ord)
  BY DEF Surplus, Idle, KeptRetired
<1> QED  BY <1>3, <1>4 DEF Evicted

\* A method that writes entries whose times are in order, and drops no mapping
\* terminated within the window, keeps the invariant.
LEMMA WriteKeepsTime ==
  ASSUME TimeInv, open, open' = open, now' = now, steady' = steady,
         NEW es, NEW ord, NEW saved, NEW ok, Persist(es, ord, saved, ok),
         steady => Timed(es), retired' \in [Keys -> Nat],
         \A k \in Keys : steady /\ InWindow(k)' =>
            /\ es[k].state = "terminated" /\ retired'[k] <= es[k].used
            /\ ok \/ retired'[k] = retired[k]
  PROVE  TimeInv'
<1>1. /\ entries' = es
      /\ disk'.entries = es \/ disk' = disk
      /\ ok => disk'.entries = es
  BY PersistWrites
<1>2. ASSUME steady PROVE Timed(entries)' /\ Timed(disk.entries)'
  BY <1>1, <1>2 DEF TimeInv, Timed
<1>3. ASSUME steady, NEW k \in Keys, InWindow(k)'
      PROVE  KeptRetired(disk.entries, k)' /\ KeptRetired(entries, k)'
  <2>1. KeptRetired(entries, k)'
    BY <1>1, <1>3 DEF KeptRetired
  <2>2. CASE disk'.entries = es
    BY <1>3, <2>1, <2>2 DEF KeptRetired
  <2>3. CASE disk' = disk /\ disk'.entries # es
    <3>1. ~ok /\ retired'[k] = retired[k]
      BY <1>1, <1>3, <2>3
    <3>2. InWindow(k)
      BY <1>3, <3>1 DEF InWindow
    <3>3. KeptRetired(disk.entries, k)
      BY <1>3, <3>2 DEF TimeInv
    <3> QED  BY <2>1, <2>3, <3>1, <3>3 DEF KeptRetired
  <2> QED  BY <1>1, <2>1, <2>2, <2>3
<1> QED  BY <1>2, <1>3 DEF TimeInv

\* What is left of entries in order is in order.
LEMMA WithoutIsTimed ==
  ASSUME NEW es, NEW gone, Timed(es), now \in Nat
  PROVE  Timed(Without(es, gone))
<1> DEFINE rest == Without(es, gone)
<1>1. \A k \in Keys : rest[k] = IF k \in gone THEN NoEntry ELSE es[k]
  BY DEF Without
<1> HIDE DEF rest
<1>2. Timed(rest)
  BY <1>1 DEF Timed, NoEntry
<1> QED  BY <1>2 DEF rest

\* An entry may be rewritten with the time of now.
LEMMA RewrittenIsTimed ==
  ASSUME NEW es, NEW last, Sound(es, last), Timed(es), NEW k \in Keys, NEW e, e.created <= e.used, e.used <= now
  PROVE  Timed([es EXCEPT ![k] = e])
BY DEF Timed, Sound

\* Opening the file: what is recovered is used now, what was terminated stays.
LEMMA OpenTime ==
  ASSUME RegistryInv, TimeInv, NEW saved \in BOOLEAN, NEW ok \in BOOLEAN, Open(saved, ok)
  PROVE  TimeInv'
<1> DEFINE es0 == [k \in Keys |-> Recovered(disk.entries[k])]
           stale == {k \in Expired(es0) : es0[k].state = "terminated"}
           es == Without(es0, stale)
           ord == Keep(disk.order, stale)
           gone == Evicted(es, ord)
           rest == Without(es, gone)
<1>1. /\ ~open /\ open' = ok /\ entries' = IF ok THEN rest ELSE entries
      /\ disk'.entries = rest \/ disk' = disk
      /\ now' = now /\ steady' = steady /\ retired' = retired
  <2>1. /\ ~open /\ open' = ok /\ now' = now /\ steady' = steady /\ retired' = retired
    BY DEF Open
  <2>2. entries' = IF ok THEN rest ELSE entries
    BY Zenon DEF Open
  <2>3. IF gone # {} \/ es0 # disk.entries
        THEN /\ ok => saved
             /\ disk' = IF saved THEN [entries |-> rest, order |-> Keep(ord, gone)] ELSE disk
        ELSE saved /\ ok /\ disk' = disk
    BY Zenon DEF Open
  <2> HIDE DEF es0, stale, es, ord, gone, rest
  <2> QED  BY <2>1, <2>2, <2>3
<1>2. Sound(disk.entries, minted) /\ now \in Nat /\ minted \in Nat /\ retired \in [Keys -> Nat]
  BY DEF RegistryInv, ShapeInv, TimeInv
<1>3. \A k \in Keys : es0[k] = Recovered(disk.entries[k])
  OBVIOUS
<1>4. stale \subseteq Expired(es0)
  OBVIOUS
<1>5. \A k \in Keys : es[k] = IF k \in stale THEN NoEntry ELSE es0[k]
  <2> HIDE DEF es0, stale
  <2> QED  BY DEF Without
<1>6. \A k \in Keys : rest[k] = IF k \in gone THEN NoEntry ELSE es[k]
  <2> HIDE DEF es, gone
  <2> QED  BY DEF Without
<1> HIDE DEF es0, stale, es, ord, gone, rest
<1>7. ASSUME steady PROVE Timed(rest)
  <2>1. \A k \in Keys : disk.entries[k] \in Entry /\ disk.entries[k].created <= disk.entries[k].used /\ disk.entries[k].used <= now
    BY <1>2, <1>7 DEF TimeInv, Timed, Sound
  <2>2. ASSUME NEW e \in Entry, e.created <= e.used, e.used <= now
        PROVE  Recovered(e).created <= Recovered(e).used /\ Recovered(e).used <= now
    <3>1. CASE e.state = "active"
      <4>1. Recovered(e).created = e.created /\ Recovered(e).used = now
        BY <2>2, <3>1 DEF Recovered, Entry
      <4> QED  BY <1>2, <2>2, <4>1 DEF Entry
    <3>2. CASE e.state # "active"
      BY <2>2, <3>2 DEF Recovered
    <3> QED  BY <3>1, <3>2
  <2>3. Timed(es0)
    BY <1>3, <2>1, <2>2 DEF Timed
  <2>4. Timed(es)
    BY <1>2, <2>3, WithoutIsTimed DEF es
  <2> QED  BY <1>2, <2>4, WithoutIsTimed DEF rest
<1>8. ASSUME steady, NEW k \in Keys, InWindow(k)
      PROVE  KeptRetired(disk.entries, k) /\ KeptRetired(rest, k)
  <2>1. KeptRetired(disk.entries, k)
    BY <1>8 DEF TimeInv
  <2>2. es0[k] = disk.entries[k]
    BY <1>3, <2>1 DEF Recovered, KeptRetired
  <2>3. disk.entries[k].used \in Nat /\ retired[k] \in Nat
    BY <1>2 DEF Sound, Entry
  <2>4. ~(now - es0[k].used > Ttl)
    BY <1>2, <1>8, <2>1, <2>2, <2>3, RegistryAssumption DEF InWindow, KeptRetired
  <2>5. k \notin stale /\ es[k] = es0[k]
    BY <1>4, <1>5, <2>4 DEF Expired
  <2>6. k \notin gone
    BY <2>1, <2>2, <2>4, <2>5 DEF gone, Evicted, Expired, Surplus, Idle, KeptRetired
  <2>7. rest[k] = disk.entries[k]
    BY <1>6, <2>2, <2>5, <2>6
  <2> QED  BY <2>1, <2>7 DEF KeptRetired
<1>9. ASSUME steady PROVE Timed(entries)' /\ Timed(disk.entries)'
  BY <1>1, <1>7, <1>9 DEF TimeInv, Timed
<1>10. ASSUME steady, NEW k \in Keys, InWindow(k)'
       PROVE  KeptRetired(disk.entries, k)' /\ (open' => KeptRetired(entries, k)')
  <2>1. KeptRetired(disk.entries, k) /\ KeptRetired(rest, k)
    BY <1>1, <1>8, <1>10 DEF InWindow
  <2>2. retired'[k] = retired[k]
    BY <1>1
  <2>3. KeptRetired(disk.entries, k)'
    BY <1>1, <2>1, <2>2 DEF KeptRetired
  <2>4. ok => KeptRetired(entries, k)'
    BY <1>1, <2>1, <2>2 DEF KeptRetired
  <2> QED  BY <1>1, <2>3, <2>4
<1> QED  BY <1>1, <1>2, <1>9, <1>10 DEF TimeInv

\* Stopping leaves the file as it is.
LEMMA StopTime ==
  ASSUME RegistryInv, TimeInv, Stop
  PROVE  TimeInv'
<1>1. /\ open' = FALSE /\ entries' = [k \in Keys |-> NoEntry]
      /\ UNCHANGED <<now, steady, disk, retired>>
  BY DEF Stop
<1>2. now \in Nat
  BY DEF RegistryInv, ShapeInv
<1>3. Timed(entries)'
  BY <1>1, <1>2 DEF Timed, NoEntry
<1>4. steady => Timed(disk.entries)'
  BY <1>1 DEF TimeInv, Timed
<1>5. \A k \in Keys : steady /\ InWindow(k)' => KeptRetired(disk.entries, k)'
  BY <1>1 DEF TimeInv, InWindow, KeptRetired
<1> QED  BY <1>1, <1>3, <1>4, <1>5 DEF TimeInv

\* A lease is taken and given back at the present time.
LEMMA LeaseTimes ==
  ASSUME NEW e \in Entry, NEW lease \in BOOLEAN
  PROVE  /\ Leased([e EXCEPT !.used = now], lease).created = e.created
         /\ Leased([e EXCEPT !.used = now], lease).used = now
         /\ Unleased(e).created = e.created
         /\ Unleased(e).used \in {e.used, now}
BY DEF Leased, Unleased, Entry

\* What a method of the registry finds when the clock was never set back.
LEMMA WhenReadyTime ==
  ASSUME RegistryInv, TimeInv, open, steady
  PROVE  /\ Timed(entries)
         /\ \A j \in Keys : InWindow(j) => KeptRetired(entries, j)
         /\ \A j \in Keys : InWindow(j) => j \notin Evicted(entries, order)
<1>1. Timed(entries) /\ \A j \in Keys : InWindow(j) => KeptRetired(entries, j)
  BY DEF TimeInv
<1>2. Sound(entries, minted) /\ now \in Nat /\ retired \in [Keys -> Nat]
  BY DEF RegistryInv, ShapeInv, TimeInv
<1> QED  BY <1>1, <1>2, EvictionSparesRetired

LEMMA ResolveKnownTime ==
  ASSUME RegistryInv, TimeInv, NEW k \in Keys, NEW lease \in BOOLEAN, NEW saved \in BOOLEAN, NEW ok \in BOOLEAN,
         ResolveKnown(k, lease, saved, ok)
  PROVE  TimeInv'
<1> DEFINE gone == Evicted(entries, order)
           es == Without(entries, gone)
           e == Leased([es[k] EXCEPT !.used = now], lease)
           new == [es EXCEPT ![k] = e]
<1>1. /\ open /\ es[k].state \in {"idle", "active"}
      /\ Persist(new, Touch(Keep(order, gone), k), saved, ok)
      /\ now' = now /\ open' = open /\ steady' = steady /\ retired' = retired
  BY Zenon DEF ResolveKnown, Ready
<1>2. \A j \in Keys : es[j] = IF j \in gone THEN NoEntry ELSE entries[j]
  BY DEF Without
<1> HIDE DEF gone, es, new, e
<1>3. Sound(es, minted) /\ now \in Nat /\ minted \in Nat /\ retired \in [Keys -> Nat]
  BY WithoutIsSound DEF es, RegistryInv, ShapeInv, TimeInv
<1>4. \A j \in Keys : new[j] = IF j = k THEN e ELSE es[j]
  BY <1>3 DEF new, Sound
<1>5. es[k] \in Entry /\ es[k] = entries[k]
  BY <1>1, <1>2, <1>3 DEF Sound, NoEntry
<1>6. ASSUME steady PROVE Timed(new)
  <2>1. Timed(es)
    BY <1>1, <1>3, <1>6, WhenReadyTime, WithoutIsTimed DEF es
  <2>2. e.created <= e.used /\ e.used <= now
    <3>1. e.created = es[k].created /\ e.used = now
      BY <1>5, LeaseTimes DEF e
    <3>2. es[k].created <= es[k].used /\ es[k].used <= now
      BY <2>1 DEF Timed
    <3> QED  BY <1>3, <1>5, <3>1, <3>2 DEF Entry
  <2> QED  BY <1>3, <2>1, <2>2, RewrittenIsTimed DEF new
<1>7. ASSUME NEW j \in Keys, steady, InWindow(j)'
      PROVE  new[j].state = "terminated" /\ retired'[j] <= new[j].used /\ retired'[j] = retired[j]
  <2>1. InWindow(j)
    BY <1>1, <1>7 DEF InWindow
  <2>2. KeptRetired(entries, j) /\ j \notin gone
    BY <1>1, <1>7, <2>1, WhenReadyTime DEF gone
  <2>3. j # k
    BY <1>1, <1>5, <2>2 DEF KeptRetired
  <2> QED  BY <1>1, <1>2, <1>4, <2>2, <2>3 DEF KeptRetired
<1> QED  BY <1>1, <1>3, <1>6, <1>7, WriteKeepsTime

LEMMA ResolveNewTime ==
  ASSUME RegistryInv, TimeInv, NEW k \in Keys, NEW lease \in BOOLEAN, NEW saved \in BOOLEAN, NEW ok \in BOOLEAN,
         ResolveNew(k, lease, saved, ok)
  PROVE  TimeInv'
<1> DEFINE gone == Evicted(entries, order)
           kept == Without(entries, gone)
           fresh == [id |-> minted + 1, state |-> "idle", created |-> now, used |-> now, leases |-> 0]
           e == Leased(fresh, lease)
           es == [kept EXCEPT ![k] = e]
           ord == Touch(Keep(order, gone), k)
           more == Evicted(es, ord)
           new == Without(es, more)
<1>1. /\ open /\ Persist(new, Keep(ord, more), saved, ok)
      /\ now' = now /\ open' = open /\ steady' = steady
      /\ retired' = [retired EXCEPT ![k] = NoTime]
  BY Zenon DEF ResolveNew, Ready
<1>2. \A j \in Keys : kept[j] = IF j \in gone THEN NoEntry ELSE entries[j]
  BY DEF Without
<1>3. \A j \in Keys : new[j] = IF j \in more THEN NoEntry ELSE es[j]
  <2> HIDE DEF es, more
  <2> QED  BY DEF Without
<1>4. e.created = now /\ e.used = now
  BY DEF Leased
<1> HIDE DEF gone, kept, fresh, e, es, ord, more, new
<1>5. Sound(kept, minted) /\ now \in Nat /\ minted \in Nat /\ retired \in [Keys -> Nat]
  BY WithoutIsSound DEF kept, RegistryInv, ShapeInv, TimeInv
<1>6. \A j \in Keys : es[j] = IF j = k THEN e ELSE kept[j]
  BY <1>5 DEF es, Sound
<1>7. retired' \in [Keys -> Nat] /\ \A j \in Keys : retired'[j] = IF j = k THEN NoTime ELSE retired[j]
  BY <1>1, <1>5 DEF NoTime
<1>8. ASSUME steady PROVE Timed(new)
  <2>1. Timed(kept)
    BY <1>1, <1>5, <1>8, WhenReadyTime, WithoutIsTimed DEF kept
  <2>2. Timed(es)
    BY <1>4, <1>5, <2>1, RewrittenIsTimed DEF es
  <2> QED  BY <1>5, <2>2, WithoutIsTimed DEF new
<1>9. ASSUME NEW j \in Keys, steady, InWindow(j)'
      PROVE  new[j].state = "terminated" /\ retired'[j] <= new[j].used /\ retired'[j] = retired[j]
  <2>1. j # k /\ retired'[j] = retired[j] /\ InWindow(j)
    BY <1>1, <1>7, <1>9 DEF InWindow
  <2>2. KeptRetired(entries, j) /\ j \notin gone
    BY <1>1, <1>9, <2>1, WhenReadyTime DEF gone
  <2>3. es[j] = entries[j]
    BY <1>2, <1>6, <2>1, <2>2
  <2>4. entries[j].used \in Nat /\ retired[j] \in Nat
    BY <1>5 DEF RegistryInv, ShapeInv, Sound, Entry
  <2>5. ~(now - entries[j].used > Ttl)
    BY <1>5, <2>1, <2>2, <2>4, RegistryAssumption DEF InWindow, KeptRetired
  <2>6. j \notin more
    BY <2>2, <2>3, <2>5 DEF more, Evicted, Expired, Surplus, Idle, KeptRetired
  <2> QED  BY <1>3, <2>1, <2>2, <2>3, <2>6 DEF KeptRetired
<1> QED  BY <1>1, <1>7, <1>8, <1>9, WriteKeepsTime

LEMMA ResolveRefusedTime ==
  ASSUME RegistryInv, TimeInv, NEW k \in Keys, ResolveRefused(k)
  PROVE  TimeInv'
<1> DEFINE gone == Evicted(entries, order)
<1>1. /\ open /\ entries' = Without(entries, gone)
      /\ UNCHANGED <<now, steady, open, disk, retired>>
  BY DEF ResolveRefused, Ready
<1> HIDE DEF gone
<1>2. now \in Nat /\ retired \in [Keys -> Nat]
  BY DEF RegistryInv, ShapeInv, TimeInv
<1>3. ASSUME steady PROVE Timed(entries)' /\ Timed(disk.entries)'
  <2>1. Timed(Without(entries, gone))
    BY <1>1, <1>2, <1>3, WhenReadyTime, WithoutIsTimed
  <2>2. Timed(disk.entries)
    BY <1>3 DEF TimeInv
  <2> QED  BY <1>1, <2>1, <2>2 DEF Timed
<1>4. ASSUME steady, NEW j \in Keys, InWindow(j)'
      PROVE  KeptRetired(disk.entries, j)' /\ KeptRetired(entries, j)'
  <2>1. InWindow(j) /\ retired'[j] = retired[j]
    BY <1>1, <1>4 DEF InWindow
  <2>2. KeptRetired(entries, j) /\ j \notin gone /\ KeptRetired(disk.entries, j)
    BY <1>1, <1>4, <2>1, WhenReadyTime DEF gone, TimeInv
  <2>3. entries'[j] = entries[j]
    BY <1>1, <2>2 DEF Without
  <2> QED  BY <1>1, <2>1, <2>2, <2>3 DEF KeptRetired
<1> QED  BY <1>1, <1>2, <1>3, <1>4 DEF TimeInv

LEMMA ReferenceTime ==
  ASSUME RegistryInv, TimeInv, NEW k \in Keys, NEW saved \in BOOLEAN, NEW ok \in BOOLEAN, Reference(k, saved, ok)
  PROVE  TimeInv'
<1> DEFINE e == Leased([entries[k] EXCEPT !.used = now], TRUE)
           new == [entries EXCEPT ![k] = e]
<1>1. /\ open /\ Live(k) /\ Persist(new, order, saved, ok)
      /\ now' = now /\ open' = open /\ steady' = steady /\ retired' = retired
  BY Zenon DEF Reference, Ready
<1> HIDE DEF e, new
<1>2. Sound(entries, minted) /\ now \in Nat /\ retired \in [Keys -> Nat] /\ entries[k] \in Entry
  BY DEF RegistryInv, ShapeInv, TimeInv, Sound
<1>3. \A j \in Keys : new[j] = IF j = k THEN e ELSE entries[j]
  BY <1>2 DEF new, Sound
<1>4. ASSUME steady PROVE Timed(new)
  <2>1. Timed(entries)
    BY <1>1, <1>4, WhenReadyTime
  <2>2. e.created = entries[k].created /\ e.used = now
    BY <1>2, LeaseTimes DEF e
  <2>3. e.created <= e.used /\ e.used <= now
    BY <1>2, <2>1, <2>2 DEF Timed, Entry
  <2> QED  BY <1>2, <2>1, <2>3, RewrittenIsTimed DEF new
<1>5. ASSUME NEW j \in Keys, steady, InWindow(j)'
      PROVE  new[j].state = "terminated" /\ retired'[j] <= new[j].used /\ retired'[j] = retired[j]
  <2>1. InWindow(j)
    BY <1>1, <1>5 DEF InWindow
  <2>2. KeptRetired(entries, j)
    BY <1>1, <1>5, <2>1, WhenReadyTime
  <2>3. j # k
    BY <1>1, <2>2 DEF KeptRetired, Live
  <2> QED  BY <1>1, <1>3, <2>2, <2>3 DEF KeptRetired
<1> QED  BY <1>1, <1>2, <1>4, <1>5, WriteKeepsTime

LEMMA ReleaseTime ==
  ASSUME RegistryInv, TimeInv, NEW k \in Keys, NEW saved \in BOOLEAN, NEW ok \in BOOLEAN, Release(k, saved, ok)
  PROVE  TimeInv'
<1>1. /\ open /\ held[k] > 0 /\ now' = now /\ open' = open /\ steady' = steady /\ retired' = retired
  BY DEF Release
<1>2. Sound(entries, minted) /\ minted \in Nat /\ now \in Nat /\ retired \in [Keys -> Nat] /\ entries[k] \in Entry
  BY DEF RegistryInv, ShapeInv, TimeInv, Sound
<1>3. entries[k].state = "active" /\ entries[k].leases > 0
  BY <1>1, <1>2, HolderIsActive DEF Sound
<1>4. CASE failed
  BY <1>1, <1>4 DEF Release, TimeInv, Timed, InWindow, KeptRetired
<1>5. CASE ~failed
  <2> DEFINE e == Unleased(entries[k])
             es == [entries EXCEPT ![k] = e]
             ord == IF entries[k].leases = 1 THEN Touch(order, k) ELSE order
             gone == Evicted(es, ord)
             new == Without(es, gone)
  <2>1. Persist(new, Keep(ord, gone), saved, ok)
    <3>1. entries[k].leases # 0
      BY <1>3
    <3> QED  BY <1>5, <3>1, Zenon DEF Release
  <2>2. \A j \in Keys : new[j] = IF j \in gone THEN NoEntry ELSE es[j]
    <3> HIDE DEF es, gone
    <3> QED  BY DEF Without
  <2> HIDE DEF e, es, ord, gone, new
  <2>3. \A j \in Keys : es[j] = IF j = k THEN e ELSE entries[j]
    BY <1>2 DEF es, Sound
  <2>4. ASSUME steady PROVE Timed(new)
    <3>1. Timed(entries)
      BY <1>1, <2>4, WhenReadyTime
    <3>2. e.created = entries[k].created /\ e.used \in {entries[k].used, now}
      BY <1>2, LeaseTimes DEF e
    <3>3. entries[k].created <= entries[k].used /\ entries[k].used <= now
      BY <3>1 DEF Timed
    <3>4. e.created <= e.used /\ e.used <= now
      BY <1>2, <3>2, <3>3 DEF Entry
    <3>5. Timed(es)
      BY <1>2, <3>1, <3>4, RewrittenIsTimed DEF es
    <3> QED  BY <1>2, <3>5, WithoutIsTimed DEF new
  <2>5. ASSUME NEW j \in Keys, steady, InWindow(j)'
        PROVE  new[j].state = "terminated" /\ retired'[j] <= new[j].used /\ retired'[j] = retired[j]
    <3>1. InWindow(j)
      BY <1>1, <2>5 DEF InWindow
    <3>2. KeptRetired(entries, j)
      BY <1>1, <2>5, <3>1, WhenReadyTime
    <3>3. es[j] = entries[j]
      BY <1>3, <2>3, <3>2 DEF KeptRetired
    <3>4. entries[j].used \in Nat /\ retired[j] \in Nat
      BY <1>2 DEF Sound, Entry
    <3>5. ~(now - entries[j].used > Ttl)
      BY <1>2, <3>1, <3>2, <3>4, RegistryAssumption DEF InWindow, KeptRetired
    <3>6. j \notin gone
      BY <3>2, <3>3, <3>5 DEF gone, Evicted, Expired, Surplus, Idle, KeptRetired
    <3> QED  BY <1>1, <2>2, <3>2, <3>3, <3>6 DEF KeptRetired
  <2> QED  BY <1>1, <1>2, <2>1, <2>4, <2>5, WriteKeepsTime
<1> QED  BY <1>4, <1>5

LEMMA TerminateTime ==
  ASSUME RegistryInv, TimeInv, NEW k \in Keys, NEW saved \in BOOLEAN, NEW ok \in BOOLEAN, Terminate(k, saved, ok)
  PROVE  TimeInv'
<1> DEFINE e == [entries[k] EXCEPT !.state = "terminated", !.used = now]
           new == [entries EXCEPT ![k].state = "terminated", ![k].used = now]
<1>1. /\ open /\ Persist(new, order, saved, ok)
      /\ now' = now /\ open' = open /\ steady' = steady
      /\ retired' = [retired EXCEPT ![k] = IF ok THEN now ELSE @]
  BY DEF Terminate, Ready
<1>2. Sound(entries, minted) /\ now \in Nat /\ retired \in [Keys -> Nat] /\ entries \in [Keys -> Entry]
  BY DEF RegistryInv, ShapeInv, TimeInv, Sound
<1>3. e.state = "terminated" /\ e.used = now /\ e.created = entries[k].created
  BY <1>2 DEF Entry
<1>4. new = [entries EXCEPT ![k] = e]
  BY <1>2 DEF Entry
<1> HIDE DEF e, new
<1>5. \A j \in Keys : new[j] = IF j = k THEN e ELSE entries[j]
  BY <1>2, <1>4
<1>6. /\ retired' \in [Keys -> Nat]
      /\ \A j \in Keys : retired'[j] = IF j = k /\ ok THEN now ELSE retired[j]
  BY <1>1, <1>2
<1>7. ASSUME steady PROVE Timed(new)
  <2>1. Timed(entries)
    BY <1>1, <1>7, WhenReadyTime
  <2>2. e.created <= e.used /\ e.used <= now
    BY <1>2, <1>3, <2>1 DEF Timed, Entry
  <2> QED  BY <1>2, <1>4, <2>1, <2>2, RewrittenIsTimed
<1>8. ASSUME NEW j \in Keys, steady, InWindow(j)'
      PROVE  /\ new[j].state = "terminated" /\ retired'[j] <= new[j].used
             /\ ok \/ retired'[j] = retired[j]
  <2>1. CASE j = k /\ ok
    BY <1>2, <1>3, <1>5, <1>6, <2>1
  <2>2. CASE ~(j = k /\ ok)
    <3>1. retired'[j] = retired[j] /\ InWindow(j)
      BY <1>1, <1>6, <1>8, <2>2 DEF InWindow
    <3>2. KeptRetired(entries, j) /\ Timed(entries)
      BY <1>1, <1>8, <3>1, WhenReadyTime
    <3>3. retired[j] \in Nat /\ entries[j].used \in Nat /\ entries[j].used <= now
      BY <1>2, <3>2 DEF Timed, Entry
    <3> QED  BY <1>2, <1>3, <1>5, <3>1, <3>2, <3>3 DEF KeptRetired
  <2> QED  BY <2>1, <2>2
<1> QED  BY <1>1, <1>6, <1>7, <1>8, WriteKeepsTime

LEMMA ClockTime ==
  ASSUME RegistryInv, TimeInv, Clock
  PROVE  TimeInv'
<1>1. UNCHANGED <<open, entries, disk, retired>> /\ (Tick \/ SetBack)
  BY DEF Clock
<1>2. now \in Nat /\ retired \in [Keys -> Nat] /\ Sound(entries, minted) /\ Sound(disk.entries, minted)
  BY DEF RegistryInv, ShapeInv, TimeInv
<1>3. CASE SetBack
  <2>1. steady' = FALSE
    BY <1>3 DEF SetBack
  <2> QED  BY <1>1, <1>2, <2>1 DEF TimeInv
<1>4. CASE Tick
  <2>1. now' = now + 1 /\ steady' = steady
    BY <1>4 DEF Tick
  <2>2. \A k \in Keys : /\ entries[k].used \in Nat /\ entries[k].created \in Nat
                        /\ disk.entries[k].used \in Nat /\ disk.entries[k].created \in Nat
                        /\ retired[k] \in Nat
    BY <1>2 DEF Sound, Entry
  <2>3. steady => Timed(entries)' /\ Timed(disk.entries)'
    BY <1>1, <1>2, <2>1, <2>2 DEF TimeInv, Timed
  <2>4. \A k \in Keys : InWindow(k)' => InWindow(k)
    BY <1>1, <1>2, <2>1, <2>2, RegistryAssumption DEF InWindow
  <2>5. ASSUME steady, NEW k \in Keys, InWindow(k)'
        PROVE  KeptRetired(disk.entries, k)' /\ (open' => KeptRetired(entries, k)')
    BY <1>1, <2>4, <2>5 DEF TimeInv, KeptRetired
  <2> QED  BY <1>1, <1>2, <2>1, <2>3, <2>5 DEF TimeInv
<1> QED  BY <1>1, <1>3, <1>4

\* Every step keeps the order of times.
LEMMA StepKeepsTime ==
  ASSUME RegistryInv, TimeInv, [RegistryNext]_registryVars
  PROVE  TimeInv'
<1>1. CASE UNCHANGED registryVars
  BY <1>1 DEF registryVars, TimeInv, Timed, InWindow, KeptRetired
<1> QED
  BY <1>1, OpenTime, StopTime, ResolveKnownTime, ResolveNewTime, ResolveRefusedTime, ReferenceTime,
     ReleaseTime, TerminateTime, ClockTime DEF RegistryNext

\* As long as the clock is not set back, times are in order and terminations kept.
LEMMA TimeInvariant == RegistrySpec => []TimeInv
<1>1. RegistryInit => TimeInv
  <2> SUFFICES ASSUME RegistryInit PROVE TimeInv
    OBVIOUS
  <2>1. retired = [k \in Keys |-> NoTime] /\ now = 1
    BY DEF RegistryInit
  <2>2. retired \in [Keys -> Nat] /\ \A k \in Keys : ~InWindow(k)
    BY <2>1 DEF InWindow, NoTime
  <2>3. Timed(entries) /\ Timed(disk.entries)
    BY <2>1 DEF RegistryInit, Timed, NoEntry
  <2> QED  BY <2>2, <2>3 DEF TimeInv
<1>2. RegistryInv /\ TimeInv /\ [RegistryNext]_registryVars => TimeInv'
  BY StepKeepsTime
<1> QED  BY <1>1, <1>2, RegistryInvariant, PTL DEF RegistrySpec

\* A confirmed termination is on disk and, after any restart, in memory, until
\* the retention window has passed (Terminate, evictLocked, load).
THEOREM TerminationsAreRemembered == RegistrySpec => []TerminationIsRemembered
<1>1. TimeInv => TerminationIsRemembered
  BY DEF TimeInv, TerminationIsRemembered, InWindow, KeptRetired
<1> QED  BY <1>1, TimeInvariant, PTL

\* As long as the clock is not set back, load accepts whatever any failure or
\* death left on disk.
THEOREM LeftStateLoads == RegistrySpec => []WrittenStateLoads
<1>1. RegistryInv /\ TimeInv => WrittenStateLoads
  <2> SUFFICES ASSUME RegistryInv, TimeInv, steady PROVE Loadable(disk)
    BY DEF WrittenStateLoads
  <2>1. Sound(disk.entries, minted) /\ Timed(disk.entries)
    BY DEF RegistryInv, ShapeInv, TimeInv
  <2>2. \A k \in Keys : disk.entries[k].used \in Nat /\ disk.entries[k].created \in Nat
    BY <2>1 DEF Sound, Entry
  <2> QED  BY <2>1, <2>2 DEF Loadable, Present, Sound, Timed
<1> QED  BY <1>1, RegistryInvariant, TimeInvariant, PTL
================================================================================
