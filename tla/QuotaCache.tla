----------------------------- MODULE QuotaCache -----------------------------
(***************************************************************************)
(* The cache of quota probes (quota-cache.mjs), for one of its two         *)
(* providers; their entries are independent.  A probe's result counts as   *)
(* what the routing and the dashboard read of it: the percentage of a      *)
(* window that is used up, when it was observed, and whether the window    *)
(* has been reset since.                                                   *)
(*                                                                         *)
(* Time advances in units of the cache's time to live; ages stop at        *)
(* OldAge.  The probe itself is external: it succeeds with or without a    *)
(* percentage, fails for its credentials (Mistral), or fails for a while,  *)
(* with or without the account's other figures.  Neither provider's probe  *)
(* throws: both catch what goes wrong and answer with a result.            *)
(***************************************************************************)
EXTENDS Integers

CONSTANTS
    FreshFor,            \* a result is fresh below this age, and a failure not retried
    StaleLimit,     \* a result is shown as stale up to this age
    OldAge,         \* bound of the ages
    NoAge

ASSUME QuotaAssumption ==
    /\ FreshFor \in Nat /\ StaleLimit \in Nat /\ OldAge \in Nat
    /\ 0 < FreshFor /\ FreshFor <= StaleLimit /\ 2 * StaleLimit < OldAge
    /\ NoAge \notin Nat

VARIABLES
    who,        \* whose entry it is
    at,         \* age of the cached result
    percent,    \* age of its percentage
    due,        \* the percentage's window has been reset
    failedAge,     \* age of the last failure
    primary,    \* the cached result is partly fresh (primaryFresh)
    flight,     \* a probe is under way
    shown,      \* age of the percentage last handed out
    shownDue    \* and whether its window had been reset by then

quotaVars == <<who, at, percent, due, failedAge, primary, flight, shown, shownDue>>

Ages == 0..OldAge \cup {NoAge}

QuotaTypeOK ==
    /\ who \in {"codex", "mistral"}
    /\ at \in Ages /\ percent \in Ages /\ failedAge \in Ages /\ shown \in Ages
    /\ due \in BOOLEAN /\ primary \in BOOLEAN /\ flight \in BOOLEAN /\ shownDue \in BOOLEAN

QuotaInit ==
    /\ who \in {"codex", "mistral"}
    /\ at = NoAge /\ percent = NoAge /\ failedAge = NoAge /\ shown = NoAge
    /\ due = FALSE /\ primary = FALSE /\ flight = FALSE /\ shownDue = FALSE

Older(age) == IF age = NoAge \/ age = OldAge THEN age ELSE age + 1
Cached == at # NoAge
Within(age, limit) == age # NoAge /\ age < limit
WindowReset == due /\ percent # NoAge

\* ageAsStale: nothing of a result that is too old, or of a window since reset.
AsStale == IF at <= StaleLimit /\ ~due THEN percent ELSE NoAge

Show(age, reset) == shown' = age /\ shownDue' = (reset /\ age # NoAge)
Hold(a, p, d, f, pr) == at' = a /\ percent' = p /\ due' = (d /\ p # NoAge) /\ failedAge' = f /\ primary' = pr

-----------------------------------------------------------------------------
\* get: a fresh result is handed out as it is.
FreshHit ==
    /\ Within(at, FreshFor) /\ ~WindowReset
    /\ Show(percent, due)
    /\ UNCHANGED <<who, at, percent, due, failedAge, primary, flight>>

\* After a failure the provider is left alone for a while: a partly fresh
\* result is handed out without its reset windows, another one as stale.
BackedOff ==
    /\ ~(Within(at, FreshFor) /\ ~WindowReset) /\ ~flight /\ Within(failedAge, FreshFor)
    /\ IF Cached /\ primary
       THEN /\ Show(IF due THEN NoAge ELSE percent, FALSE)
            /\ Hold(at, IF due THEN NoAge ELSE percent, FALSE, failedAge, primary)
       ELSE /\ Show(IF Cached THEN AsStale ELSE NoAge, FALSE)
            /\ UNCHANGED <<at, percent, due, failedAge, primary>>
    /\ UNCHANGED <<who, flight>>

\* Otherwise the provider is probed; callers that come meanwhile share it.
Probe ==
    /\ ~(Within(at, FreshFor) /\ ~WindowReset) /\ ~flight /\ ~Within(failedAge, FreshFor)
    /\ flight' = TRUE
    /\ UNCHANGED <<who, at, percent, due, failedAge, primary, shown, shownDue>>

Settles == flight /\ flight' = FALSE /\ UNCHANGED who

\* A result replaces the cached one; it may come without a percentage.
Succeeds ==
    /\ Settles
    /\ \E p \in {0, NoAge} : Hold(0, p, FALSE, NoAge, FALSE) /\ Show(p, FALSE)

\* Mistral's credentials are refused: no percentage is kept.
CredentialsFail ==
    /\ Settles /\ who = "mistral"
    /\ \/ Hold(0, NoAge, FALSE, 0, primary)
       \/ Hold(at, NoAge, FALSE, 0, primary)
    /\ Show(NoAge, FALSE)

\* Slip: retainRecentSignals does not look at the age.
RetainedAny == IF due THEN NoAge ELSE percent

\* retainRecentSignals.
Retained == IF due \/ percent = NoAge \/ percent > StaleLimit THEN NoAge ELSE percent

\* Mistral's windows are out of reach for a while.  With the account's other
\* figures, they are cached anew with the percentages seen recently; without,
\* the cached result is aged, and keeps its own age.
MistralFalters ==
    /\ Settles /\ who = "mistral"
    /\ \/ Hold(0, IF Cached THEN Retained ELSE NoAge, FALSE, 0, TRUE)
          /\ Show(IF Cached THEN Retained ELSE NoAge, FALSE)
       \/ Cached /\ Hold(at, AsStale, FALSE, 0, FALSE) /\ Show(AsStale, FALSE)
       \/ ~Cached /\ Hold(0, NoAge, FALSE, 0, TRUE) /\ Show(NoAge, FALSE)

\* Codex is unavailable: the cached result, aged.
CodexFalters ==
    /\ Settles /\ who = "codex"
    /\ Hold(at, percent, due, 0, FALSE)
    /\ Show(IF Cached THEN AsStale ELSE NoAge, FALSE)

WindowResets ==
    /\ percent # NoAge /\ ~due /\ due' = TRUE
    /\ UNCHANGED <<who, at, percent, failedAge, primary, flight, shown, shownDue>>

\* What was handed out is forgotten as time passes.
Time ==
    /\ at' = Older(at) /\ percent' = Older(percent) /\ failedAge' = Older(failedAge)
    /\ shown' = NoAge /\ shownDue' = FALSE
    /\ UNCHANGED <<who, due, primary, flight>>

QuotaNext ==
    \/ FreshHit \/ BackedOff \/ Probe
    \/ Succeeds \/ CredentialsFail \/ MistralFalters \/ CodexFalters
    \/ WindowResets \/ Time

QuotaSpec == QuotaInit /\ [][QuotaNext]_quotaVars

-----------------------------------------------------------------------------
\* No percentage is handed out of a window that has been reset, and none older
\* than the limit; only Mistral's may be twice as old, for a percentage that is
\* kept beside fresh figures takes their age.
PercentagesAreRecent ==
    /\ ~shownDue
    /\ shown # NoAge => shown <= (IF who = "codex" THEN StaleLimit ELSE 2 * StaleLimit)
=============================================================================
