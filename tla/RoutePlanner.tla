---------------------------- MODULE RoutePlanner ----------------------------
(***************************************************************************)
(* buildRoutePlan (routing-planner.mjs): the routes a request is tried on, *)
(* in order, and the runtime state its outcome leaves for the next one:    *)
(* cooldowns, the route a session sticks to, the families it has seen.     *)
(*                                                                         *)
(* Requests of one session overlap: each works through the plan made when  *)
(* it came, while others change the state.  How an attempt fails is the    *)
(* executor's matter (RequestExecutor); here it succeeds, or it fails and  *)
(* may cool its route.                                                     *)
(***************************************************************************)
EXTENDS Integers, Sequences, FiniteSets, SequencesExt, SeqFolds

CONSTANTS
    RouteOf,        \* route |-> its provider's protocols, features, window, cost class and family, whether its
                    \* adapter translates, plans direct models as they come, and has a pool of accounts
    Names,          \* profile, role or catalog model |-> kind, candidates, limits, fallback
    Cheap,          \* the route of class routing (classRouting.cheapPolicyModel)
    Shapes,         \* requests: protocol, features, size, and whether the turn is delegated
    Sessions,
    Metered,        \* routes whose quota is observed
    Inflight,       \* requests that may be under way
    NoRoute, NoSession

ASSUME PlannerAssumption ==
    /\ Cheap \in DOMAIN RouteOf /\ Metered \subseteq DOMAIN RouteOf /\ NoRoute \notin DOMAIN RouteOf /\ NoSession \notin Sessions
    /\ \A r \in DOMAIN RouteOf : RouteOf[r].class \in Nat
    /\ \A n \in DOMAIN Names : /\ Names[n].kind \in {"profile", "role", "specialist", "catalog", "direct"}
                              /\ Names[n].candidates \in Seq(DOMAIN RouteOf) /\ Names[n].attempts \in Nat \ {0}
    /\ \A n \in DOMAIN Names : Names[n].kind = "role" =>
           Names[n].fallback \in DOMAIN Names /\ Names[Names[n].fallback].kind = "profile"
    /\ \A q \in Shapes :
           q = [protocol |-> q.protocol, features |-> q.features, size |-> q.size, delegated |-> q.delegated]

VARIABLES
    cooling,    \* pairs of route and protocol whose circuit is open
    sticky,     \* session, name |-> the route that last served it
    families,   \* session |-> families that served it recently
    headroom,   \* metered route |-> what the last quota probe says is left of it
    plans,      \* request |-> its session, name, shape and the candidates left
    strayed     \* history: session, name pairs whose route was left by a delegated turn

planVars == <<cooling, sticky, families, headroom, plans, strayed>>

Routes == DOMAIN RouteOf
Protocols == {s.protocol : s \in Shapes}
Families == {RouteOf[r].family : r \in Routes}
NoPlan == [session |-> NoSession]

\* A request whose plan is being tried.
UnderPlan == [session : Sessions, name : DOMAIN Names, shape : Shapes, left : Seq(Routes) \ {<<>>}]

PlannerTypeOK ==
    /\ cooling \in SUBSET (Routes \X Protocols)
    /\ sticky \in [Sessions \X DOMAIN Names -> Routes \cup {NoRoute}]
    /\ strayed \in SUBSET (Sessions \X DOMAIN Names)
    /\ families \in [Sessions -> SUBSET Families]
    /\ headroom \in [Metered -> 0..2]
    /\ plans \in [Inflight -> UnderPlan \cup {NoPlan}]

-----------------------------------------------------------------------------
\* translationFor, with the adapters that can execute a translated request.
Translated(r, protocol) ==
    protocol \notin RouteOf[r].protocols /\ protocol = "messages"
    /\ "chat_completions" \in RouteOf[r].protocols /\ RouteOf[r].translates

\* candidateSupports: thinking is not carried across a translation.
Supports(r, q, translated) ==
    /\ (IF translated THEN q.features \ {"reasoning"} ELSE q.features) \subseteq RouteOf[r].features
    /\ RouteOf[r].window = 0 \/ q.size <= RouteOf[r].window

Speaks(r, q) == q.protocol \in RouteOf[r].protocols \/ Translated(r, q.protocol)
Able(r, q) == Supports(r, q, q.protocol \notin RouteOf[r].protocols)
Eligible(r, q) == Speaks(r, q) /\ Able(r, q)

CircuitOpen(r, q) == <<r, q.protocol>> \in cooling
Callable(r, q) == Eligible(r, q) /\ ~CircuitOpen(r, q)

\* quotaScore: the class of cost first; what is left counts as much as a class.
Score(r) == 2 * RouteOf[r].class + (IF r \in Metered THEN headroom[r] ELSE 0)

\* A route goes behind those that score as much.
Ranked(seq, r) ==
    LET k == Cardinality({i \in DOMAIN seq : Score(seq[i]) >= Score(r)})
    IN  SubSeq(seq, 1, k) \o <<r>> \o SubSeq(seq, k + 1, Len(seq))

\* reorderByQuota sorts by score and keeps the configured order of equals.
ByQuota(seq) ==
    LET sorted[k \in 0..Len(seq)] == IF k = 0 THEN <<>> ELSE Ranked(sorted[k - 1], seq[k])
    IN  sorted[Len(seq)]

\* reorderByAffinity.
ByAffinity(seq, r) == IF r \in ToSet(seq) THEN <<r>> \o Only(seq, Routes \ {r}) ELSE seq

First(seq, n) == SubSeq(seq, 1, IF n < Len(seq) THEN n ELSE Len(seq))

\* The open candidates of a name, before anything is said of their order.
Usable(n, q) == Only(Names[n].candidates, {r \in Routes : Callable(r, q)})

\* Slip: the plan is cut to its length before the session's route moves up.
OrderedLate(s, n, seq) ==
    ByAffinity(First(ByQuota(seq), Names[n].attempts), sticky[<<s, n>>])

Ordered(s, n, seq) ==
    First(ByAffinity(ByQuota(seq), sticky[<<s, n>>]), Names[n].attempts)

\* cheapClassCandidate: a delegated turn whose cheap target has a window of
\* the profile's size.
CheapFirst(n, q) ==
    q.delegated /\ Names[n].floor > 0 /\ RouteOf[Cheap].window >= Names[n].floor /\ Callable(Cheap, q)

ProfilePlan(s, n, q) ==
    LET limited == Ordered(s, n, Usable(n, q))
    IN  IF CheapFirst(n, q) THEN <<Cheap>> \o Only(limited, Routes \ {Cheap}) ELSE limited

\* Slip: candidates of a recent family are dropped even if no other is left.
DiverseOnly(s, n, q) == Only(Usable(n, q), {r \in Routes : RouteOf[r].family \notin families[s]})

\* avoid_recent_families, unless it would leave nothing.
Diverse(s, n, q) ==
    LET diverse == Only(Usable(n, q), {r \in Routes : RouteOf[r].family \notin families[s]})
    IN  IF Names[n].rotates /\ diverse # <<>> THEN diverse ELSE Usable(n, q)

\* A role goes on with the plan of its fallback profile.
RolePlan(s, n, q) ==
    LET ordered == Ordered(s, n, Diverse(s, n, q))
        more == ProfilePlan(s, Names[n].fallback, [q EXCEPT !.delegated = FALSE])
    IN  ordered \o Only(more, Routes \ ToSet(ordered))

\* Catalog routes keep their order, from free to paid; when all are cooling
\* the reply says when to come again.
CatalogPlan(n, q) == Usable(n, q)

\* A specialist has one route, which answers in any protocol and is not asked
\* for what it can do.
SpecialistPlan(n) == Only(Names[n].candidates, {r \in Routes : "responses" \in RouteOf[r].protocols})

\* A direct model has one route, cooling or not.  What is not translated is
\* planned for two adapters only, and not asked for features or window; other
\* direct models are not planned.
ServedDirectly(r, q) ==
    IF Translated(r, q.protocol) THEN Supports(r, q, TRUE)
    ELSE RouteOf[r].plain /\ q.protocol \in RouteOf[r].protocols

DirectPlan(n, q) == Only(Names[n].candidates, {r \in Routes : ServedDirectly(r, q)})

Plan(s, n, q) ==
    CASE Names[n].kind = "profile" -> ProfilePlan(s, n, q)
      [] Names[n].kind = "role" -> RolePlan(s, n, q)
      [] Names[n].kind = "specialist" -> SpecialistPlan(n)
      [] Names[n].kind = "catalog" -> CatalogPlan(n, q)
      [] Names[n].kind = "direct" -> DirectPlan(n, q)

-----------------------------------------------------------------------------
PlannerInit ==
    /\ cooling = {}
    /\ sticky = [x \in Sessions \X DOMAIN Names |-> NoRoute] /\ strayed = {}
    /\ families = [s \in Sessions |-> {}]
    /\ headroom = [r \in Metered |-> 0]
    /\ plans = [i \in Inflight |-> NoPlan]

\* A plan without candidates is answered with an error at once.
Ask(i, s, n, q) ==
    /\ plans[i] = NoPlan /\ Plan(s, n, q) # <<>>
    /\ plans' = [plans EXCEPT ![i] = [session |-> s, name |-> n, shape |-> q, left |-> Plan(s, n, q)]]
    /\ UNCHANGED <<cooling, sticky, families, headroom, strayed>>

\* The request goes on with the candidates behind its first one.
GoesOn(i) ==
    /\ LET p == plans[i]
       IN  plans' = [plans EXCEPT ![i] = IF Len(p.left) = 1 THEN NoPlan ELSE [p EXCEPT !.left = Tail(@)]]
    /\ UNCHANGED <<sticky, families, headroom, strayed>>

\* An attempt that throws or a status that is no success cools the route.
CandidateFails(i) ==
    LET p == plans[i]
    IN  /\ p # NoPlan /\ Names[p.name].kind # "specialist"
        /\ cooling' = cooling \cup {<<Head(p.left), p.shape.protocol>>}
        /\ GoesOn(i)

\* An exhausted pool, or a status of one of its accounts, does not.
PoolFails(i) ==
    /\ plans[i] # NoPlan /\ RouteOf[Head(plans[i].left)].pooled
    /\ GoesOn(i) /\ UNCHANGED cooling

\* The request ends and nothing is remembered of it: it is aborted, it fails
\* where no fallback is allowed or after its head, or it was a specialist's or
\* a chat stream of the pool.
Ends(i) ==
    /\ plans[i] # NoPlan /\ plans' = [plans EXCEPT ![i] = NoPlan]
    /\ UNCHANGED <<cooling, sticky, families, headroom, strayed>>

\* Candidates of the catalog, and direct ones as they come, have no family.
HasFamily(n, r, q) ==
    Names[n].kind \in {"profile", "role"} \/ (Names[n].kind = "direct" /\ Translated(r, q.protocol))

\* It succeeds: the session sticks to the route under the profile's or role's
\* name, and the family counts as seen.
Serves(i) ==
    LET p == plans[i]
        r == Head(p.left)
        named == Names[p.name].kind \in {"profile", "role"}
    IN  /\ p # NoPlan /\ Names[p.name].kind # "specialist" /\ plans' = [plans EXCEPT ![i] = NoPlan]
        /\ sticky' = IF named THEN [sticky EXCEPT ![<<p.session, p.name>>] = r] ELSE sticky
        /\ families' = IF HasFamily(p.name, r, p.shape) THEN [families EXCEPT ![p.session] = @ \cup {RouteOf[r].family}]
                       ELSE families
        /\ strayed' = IF ~named THEN strayed
                      ELSE IF p.shape.delegated /\ r # sticky[<<p.session, p.name>>] THEN strayed \cup {<<p.session, p.name>>}
                      ELSE IF p.shape.delegated THEN strayed ELSE strayed \ {<<p.session, p.name>>}
        /\ UNCHANGED <<cooling, headroom>>

CooldownEnds ==
    /\ \E c \in cooling : cooling' = cooling \ {c}
    /\ UNCHANGED <<sticky, families, headroom, plans, strayed>>

\* An hour without a request: neither route nor families are remembered.
Forgets(s) ==
    /\ \/ \E n \in DOMAIN Names : sticky[<<s, n>>] # NoRoute /\ sticky' = [sticky EXCEPT ![<<s, n>>] = NoRoute]
             /\ strayed' = strayed \ {<<s, n>>}
          /\ UNCHANGED families
       \/ families[s] # {} /\ families' = [families EXCEPT ![s] = {}] /\ UNCHANGED <<sticky, strayed>>
    /\ UNCHANGED <<cooling, headroom, plans>>

\* refreshRoutingQuotas.
QuotaObserved ==
    /\ \E r \in Metered, left \in {0, 2} : headroom' = [headroom EXCEPT ![r] = left]
    /\ UNCHANGED <<cooling, sticky, families, plans, strayed>>

PlannerNext ==
    \/ CooldownEnds \/ QuotaObserved
    \/ \E s \in Sessions : Forgets(s)
    \/ \E i \in Inflight :
           \/ CandidateFails(i) \/ PoolFails(i) \/ Ends(i) \/ Serves(i)
           \/ \E s \in Sessions, n \in DOMAIN Names, q \in Shapes : Ask(i, s, n, q)

PlannerSpec == PlannerInit /\ [][PlannerNext]_planVars

-----------------------------------------------------------------------------
\* A turn of the session's own goes first to the route that last served it
\* under this profile, whatever the quotas say and however short the plan is,
\* as long as that route is open.
SessionKeepsItsRoute ==
    [][\A i \in Inflight : (plans[i] = NoPlan /\ plans'[i] # NoPlan) =>
          LET p == plans'[i]
              r == sticky[<<p.session, p.name>>]
          IN  (Names[p.name].kind = "profile" /\ ~p.shape.delegated /\ r \in ToSet(Usable(p.name, p.shape)))
                  => Head(p.left) = r]_planVars

\* A role goes first to a family the session has not seen, while it has one
\* open, and else to what there is: with any candidate open, its own or its
\* fallback's, no turn is lost to the rotation.
RolesRotateFamilies ==
    \A s \in {x \in Sessions : families[x] # {}}, n \in DOMAIN Names, q \in Shapes : Names[n].kind = "role" =>
        LET own == ToSet(Usable(n, q))
            unseen == {r \in own : RouteOf[r].family \notin families[s]}
            chosen == Plan(s, n, q)
        IN  /\ own \cup ToSet(Usable(Names[n].fallback, q)) # {} => chosen # <<>>
            /\ Names[n].rotates /\ unseen # {} => Head(chosen) \in unseen
            /\ own # {} => Head(chosen) \in own

\* README.md:426, "`main` and `compaction` are unchanged": the route a session
\* sticks to is never one that only a delegated turn was served by.  Refuted
\* by a run: a delegated turn is remembered under the profile and the session
\* it was delegated from.
DelegatedTurnsLeaveNoTrace == strayed = {}
=============================================================================
