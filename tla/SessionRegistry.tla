---------------------------- MODULE SessionRegistry ----------------------------
(***************************************************************************)
(* The plugin's durable registry of provider sessions (registry.go): a     *)
(* mapping from (principal, conversation) to a minted session id, kept in  *)
(* memory under one mutex and saved as a whole after every change.         *)
(*                                                                         *)
(* Every method is one step.  A save may fail before the new file is       *)
(* renamed into place or after it, and the process may die at any time;    *)
(* the next owner of the lock file starts from what is on disk.            *)
(***************************************************************************)
EXTENDS Integers, Sequences, FiniteSets

CONSTANTS
  Keys,        \* (principal, conversation) pairs
  Ttl,         \* IdleTTLMS
  MaxIdle,     \* MaxIdleEntries
  StepsBack,   \* whether the wall clock may be set back
  Horizon,     \* bound: last instant of the clock
  MaxLeases,   \* bound: leases of one entry
  MaxIds       \* bound: session ids ever minted

ASSUME RegistryAssumption ==
  /\ Ttl \in Nat \ {0} /\ MaxIdle \in Nat \ {0}
  /\ StepsBack \in BOOLEAN
  /\ Horizon \in Nat /\ MaxLeases \in Nat /\ MaxIds \in Nat

VARIABLES
  now,       \* nowMs()
  steady,    \* history: the clock has never been set back
  open,      \* a process holds the lock and has loaded the file
  failed,    \* failure # nil: nothing is served until a fresh open
  entries,   \* key -> entry, in memory
  order,     \* LRU order, oldest first
  disk,      \* the state file: the entries and their order
  minted,    \* session ids minted so far
  held,      \* history: leases the callers hold
  told,      \* history: the id callers were last given, until it is evicted
  retired    \* history: when a termination was confirmed

registryVars == <<now, steady, open, failed, entries, order, disk, minted, held, told, retired>>

NoId == 0
NoEntry == [id |-> NoId, state |-> "absent", created |-> 0, used |-> 0, leases |-> 0]
NoTime == 0

Present(es) == {k \in Keys : es[k].state # "absent"}
Idle(es) == {k \in Keys : es[k].state = "idle"}

--------------------------------------------------------------------------------
(* Eviction and the state file                                             *)

\* Slip: leased mappings age out like the others.
ExpiredLeased(es) == {k \in Present(es) : now - es[k].used > Ttl}

Expired(es) == {k \in Present(es) : es[k].state # "active" /\ now - es[k].used > Ttl}

\* j comes after k in the LRU order.
Younger(ord, j, k) == \E p, q \in DOMAIN ord : p < q /\ ord[p] = k /\ ord[q] = j

\* Slip: terminated mappings count against the bound and go with the idle ones.
SurplusRetired(es, ord) ==
  LET spare == {k \in Present(es) : es[k].state # "active"} \ Expired(es)
  IN  {k \in spare : Cardinality({j \in spare : Younger(ord, j, k)}) >= MaxIdle}

\* Oldest first until MaxIdle are left: those with MaxIdle younger ones.
Surplus(es, ord) ==
  LET idle == Idle(es) \ Expired(es)
  IN  {k \in idle : Cardinality({j \in idle : Younger(ord, j, k)}) >= MaxIdle}

Evicted(es, ord) == Expired(es) \cup Surplus(es, ord)

Without(es, gone) == [k \in Keys |-> IF k \in gone THEN NoEntry ELSE es[k]]
Keep(ord, gone) == SelectSeq(ord, LAMBDA k : k \notin gone)

Touch(ord, k) == Append(Keep(ord, {k}), k)

\* Slip: the error of the rename is dropped.
PersistUnchecked(es, ord, saved, ok) ==
  /\ entries' = es /\ order' = ord
  /\ disk' = IF saved THEN [entries |-> es, order |-> ord] ELSE disk
  /\ failed' = ~ok

\* persistLocked: "saved" tells whether the rename took place, "ok" whether the
\* call succeeds; an error after the rename leaves the new file behind.
Persist(es, ord, saved, ok) ==
  /\ ok => saved
  /\ entries' = es /\ order' = ord
  /\ disk' = IF saved THEN [entries |-> es, order |-> ord] ELSE disk
  /\ failed' = ~ok

Recalled(gone) == [k \in Keys |-> IF k \in gone THEN NoId ELSE told[k]]
Forget(gone) == told' = Recalled(gone)

Ready == open /\ ~failed

--------------------------------------------------------------------------------
(* Opening, closing and dying                                              *)

\* What load() insists on; anything else is reported and not repaired.
Loadable(d) ==
  /\ \A k \in Present(d.entries) :
       /\ d.entries[k].used >= d.entries[k].created
       /\ d.entries[k].state = "active" <=> d.entries[k].leases > 0
  /\ \A j, k \in Present(d.entries) : d.entries[j].id = d.entries[k].id => j = k

\* The leases of the previous owner died with it.
Recovered(entry) ==
  IF entry.state = "active" THEN [entry EXCEPT !.state = "idle", !.leases = 0, !.used = now]
  ELSE entry

Open(saved, ok) ==
  /\ ~open /\ Loadable(disk)
  /\ LET es0 == [k \in Keys |-> Recovered(disk.entries[k])]
         stale == {k \in Expired(es0) : es0[k].state = "terminated"}
         es == Without(es0, stale)
         ord == Keep(disk.order, stale)
         gone == Evicted(es, ord)
         changed == gone # {} \/ es0 # disk.entries
     IN /\ Forget(stale \cup gone)
        /\ IF changed
           THEN /\ ok => saved
                /\ disk' = IF saved THEN [entries |-> Without(es, gone), order |-> Keep(ord, gone)]
                           ELSE disk
           ELSE saved /\ ok /\ UNCHANGED disk
        /\ open' = ok
        /\ entries' = IF ok THEN Without(es, gone) ELSE entries
        /\ order' = IF ok THEN Keep(ord, gone) ELSE order
  /\ UNCHANGED <<now, steady, failed, minted, held, retired>>

\* Close, or the death of the process: the memory and its leases are gone.
Stop ==
  /\ open
  /\ open' = FALSE /\ failed' = FALSE
  /\ entries' = [k \in Keys |-> NoEntry] /\ order' = <<>>
  /\ held' = [k \in Keys |-> 0]
  /\ UNCHANGED <<now, steady, disk, minted, told, retired>>

--------------------------------------------------------------------------------
(* The methods                                                             *)

Leased(entry, lease) ==
  IF lease THEN [entry EXCEPT !.leases = @ + 1, !.state = "active"] ELSE entry

\* Create (lease = FALSE) and Acquire of a mapping that exists.
ResolveKnown(k, lease, saved, ok) ==
  /\ Ready
  /\ LET gone == Evicted(entries, order)
         es == Without(entries, gone)
     IN /\ es[k].state \in {"idle", "active"}
        /\ lease => es[k].leases < MaxLeases
        /\ Persist([es EXCEPT ![k] = Leased([@ EXCEPT !.used = now], lease)],
                   Touch(Keep(order, gone), k), saved, ok)
        /\ told' = [Recalled(gone) EXCEPT ![k] = IF ok THEN es[k].id ELSE @]
  /\ held' = [held EXCEPT ![k] = IF lease /\ ok THEN @ + 1 ELSE @]
  /\ UNCHANGED <<now, steady, open, minted, retired>>

\* Create and Acquire of a mapping that does not exist, or no longer.
ResolveNew(k, lease, saved, ok) ==
  /\ Ready
  /\ minted < MaxIds
  /\ LET gone == Evicted(entries, order)
         fresh == [id |-> minted + 1, state |-> "idle", created |-> now, used |-> now, leases |-> 0]
         es == [Without(entries, gone) EXCEPT ![k] = Leased(fresh, lease)]
         ord == Touch(Keep(order, gone), k)
         more == Evicted(es, ord)
     IN /\ Without(entries, gone)[k].state = "absent"
        /\ Persist(Without(es, more), Keep(ord, more), saved, ok)
        /\ told' = [Recalled(gone \cup more) EXCEPT
                        ![k] = IF ok /\ k \notin more THEN minted + 1 ELSE NoId]
  /\ minted' = minted + 1
  /\ retired' = [retired EXCEPT ![k] = NoTime]
  /\ held' = [held EXCEPT ![k] = IF lease /\ ok THEN @ + 1 ELSE @]
  /\ UNCHANGED <<now, steady, open>>

\* The mapping is terminated, or no id can be minted: what was evicted on the
\* way is not saved.
ResolveRefused(k) ==
  /\ Ready
  /\ LET gone == Evicted(entries, order)
     IN /\ Without(entries, gone)[k].state \in {"terminated", "absent"}
        /\ entries' = Without(entries, gone) /\ order' = Keep(order, gone)
        /\ Forget(gone)
  /\ UNCHANGED <<now, steady, open, failed, disk, minted, held, retired>>

\* An idle mapping may have expired and not be evicted yet.
Live(k) ==
  \/ entries[k].state = "active"
  \/ entries[k].state = "idle" /\ now - entries[k].used <= Ttl

Reference(k, saved, ok) ==
  /\ Ready /\ Live(k) /\ entries[k].leases < MaxLeases
  /\ Persist([entries EXCEPT ![k] = Leased([@ EXCEPT !.used = now], TRUE)], order, saved, ok)
  /\ told' = [told EXCEPT ![k] = IF ok THEN entries[k].id ELSE @]
  /\ held' = [held EXCEPT ![k] = IF ok THEN @ + 1 ELSE @]
  /\ UNCHANGED <<now, steady, open, minted, retired>>

\* Slip: the count is tested before it is lowered.
UnleasedLate(entry) ==
  IF entry.leases = 0 THEN [entry EXCEPT !.state = "idle", !.used = now]
  ELSE [entry EXCEPT !.leases = @ - 1]

Unleased(entry) ==
  IF entry.leases = 1 THEN [entry EXCEPT !.leases = 0, !.state = "idle", !.used = now]
  ELSE [entry EXCEPT !.leases = @ - 1]

\* A holder gives its lease up; it ignores the error of a registry that failed.
Release(k, saved, ok) ==
  /\ open /\ held[k] > 0
  /\ held' = [held EXCEPT ![k] = @ - 1]
  /\ IF failed \/ entries[k].leases = 0
     THEN saved /\ ok /\ UNCHANGED <<failed, entries, order, disk, told>>
     ELSE LET es == [entries EXCEPT ![k] = Unleased(@)]
              ord == IF entries[k].leases = 1 THEN Touch(order, k) ELSE order
              gone == Evicted(es, ord)
          IN Persist(Without(es, gone), Keep(ord, gone), saved, ok) /\ Forget(gone)
  /\ UNCHANGED <<now, steady, open, minted, retired>>

Terminate(k, saved, ok) ==
  /\ Ready
  /\ entries[k].state # "absent" /\ entries[k].leases = 0
  /\ Persist([entries EXCEPT ![k].state = "terminated", ![k].used = now], order, saved, ok)
  /\ retired' = [retired EXCEPT ![k] = IF ok THEN now ELSE @]
  /\ UNCHANGED <<now, steady, open, minted, held, told>>

--------------------------------------------------------------------------------
Tick == now < Horizon /\ now' = now + 1 /\ UNCHANGED steady
SetBack == StepsBack /\ now > 1 /\ now' = now - 1 /\ steady' = FALSE

Clock == (Tick \/ SetBack) /\ UNCHANGED <<open, failed, entries, order, disk, minted, held, told, retired>>

RegistryInit ==
  /\ now = 1 /\ steady = TRUE
  /\ open = FALSE /\ failed = FALSE
  /\ entries = [k \in Keys |-> NoEntry] /\ order = <<>>
  /\ disk = [entries |-> [k \in Keys |-> NoEntry], order |-> <<>>]
  /\ minted = 0
  /\ held = [k \in Keys |-> 0]
  /\ told = [k \in Keys |-> NoId]
  /\ retired = [k \in Keys |-> NoTime]

RegistryNext ==
  \/ \E saved, ok \in BOOLEAN : Open(saved, ok)
  \/ Stop
  \/ \E k \in Keys, lease, saved, ok \in BOOLEAN : ResolveKnown(k, lease, saved, ok)
  \/ \E k \in Keys, lease, saved, ok \in BOOLEAN : ResolveNew(k, lease, saved, ok)
  \/ \E k \in Keys : ResolveRefused(k)
  \/ \E k \in Keys, saved, ok \in BOOLEAN : Reference(k, saved, ok)
  \/ \E k \in Keys, saved, ok \in BOOLEAN : Release(k, saved, ok)
  \/ \E k \in Keys, saved, ok \in BOOLEAN : Terminate(k, saved, ok)
  \/ Clock

RegistrySpec == RegistryInit /\ [][RegistryNext]_registryVars

--------------------------------------------------------------------------------
(* Properties                                                              *)

Entry == [id : Nat, state : {"absent", "idle", "active", "terminated"},
          created : Nat, used : Nat, leases : Nat]

Lists(ord, es) ==
  /\ Len(ord) = Cardinality(Present(es))
  /\ {ord[i] : i \in DOMAIN ord} = Present(es)

\* The type invariant; the order names every mapping once, in memory and on disk.
RegistryTypeOK ==
  /\ now \in Nat \ {0} /\ steady \in BOOLEAN
  /\ open \in BOOLEAN /\ failed \in BOOLEAN
  /\ entries \in [Keys -> Entry] /\ order \in Seq(Keys)
  /\ disk \in [entries : [Keys -> Entry], order : Seq(Keys)]
  /\ Lists(order, entries) /\ Lists(disk.order, disk.entries)
  /\ minted \in Nat
  /\ held \in [Keys -> Nat] /\ told \in [Keys -> Nat] /\ retired \in [Keys -> Nat]

\* Leases held by callers are the leases counted, unless a save has failed, and
\* no eviction, restart or failed save takes a session from under its holder.
LeaseHolderKeepsSession ==
  \A k \in Keys : held[k] > 0 =>
    /\ open /\ entries[k].state = "active" /\ entries[k].id = told[k]
    /\ held[k] <= entries[k].leases
    /\ ~failed => held[k] = entries[k].leases

\* An id that callers were given is on disk, whatever failed or died since, and is
\* what the registry answers until it evicts the mapping.
IdentityIsDurable ==
  \A k \in Keys : told[k] # NoId =>
    /\ disk.entries[k].id = told[k]
    /\ open => entries[k].id = told[k]

\* A confirmed termination outlives restarts and failed saves: within the
\* retention window, as long as the clock is not set back, the mapping is neither
\* live nor forgotten.
TerminationIsRemembered ==
  \A k \in Keys : steady /\ retired[k] # NoTime /\ now - retired[k] <= Ttl =>
    /\ disk.entries[k].state = "terminated"
    /\ open => entries[k].state = "terminated"

\* As long as the clock is not set back, any file this registry leaves behind,
\* after any failure, is one it can load.
WrittenStateLoads == steady => Loadable(disk)

--------------------------------------------------------------------------------
(* What the registry promises                                              *)

Ledger == INSTANCE SessionLedger WITH
  Parties <- Keys, Nothing <- NoId, promise <- told, leases <- held, issued <- minted

\* Through failed saves, evictions and restarts, callers see the ledger: an id
\* stays a conversation's own while anyone holds a lease of it.
KeepsLedger == Ledger!LedgerSpec

--------------------------------------------------------------------------------
(* What the comments say, and the code does not do                         *)

\* registry.go: the registry survives restarts, whatever the wall clock does.
SurvivesRestarts == Loadable(disk)
================================================================================
