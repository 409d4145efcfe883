---------------------------- MODULE PlanStreamProofs ----------------------------
(***************************************************************************)
(* Proofs about the two parts of the gateway that work on sequences.  The   *)
(* route planner, for any routes, names, sessions and number of requests:   *)
(* sorting by quota and moving a session's route up lose no candidate, a    *)
(* session goes back to its route, the best routes come first, and the      *)
(* rotation of families never empties a plan.  The Messages encoder, for    *)
(* any chunks and any number of them: the events it sends keep the shape of *)
(* a message, and say what the chunks said.                                 *)
(***************************************************************************)
EXTENDS RoutePlanner, StreamCodec, SequenceTheorems, FiniteSetTheorems, WellFoundedInduction, TLAPS

-----------------------------------------------------------------------------
(* Functions defined by recursion on a bounded natural number              *)

\* Every nonempty set of natural numbers has a least element.
LEMMA LeastNumber ==
  ASSUME NEW S \in SUBSET Nat, S # {}
  PROVE  \E a \in S : \A b \in S : a <= b
<1> DEFINE Less == {p \in Nat \X Nat : p[1] < p[2]}
<1>1. IsWellFoundedOn(Less, Nat)
  BY NatLessThanWellFounded DEF OpToRel
<1>2. PICK a \in S : \A b \in S : <<b, a>> \notin Less
  BY <1>1, WFMin
<1>3. ASSUME NEW b \in S
      PROVE  a <= b
  <2>1. <<b, a>> \notin Less /\ a \in Nat /\ b \in Nat
    BY <1>2
  <2>2. ~(b < a)
    BY <2>1
  <2> QED  BY <2>1, <2>2
<1> QED  BY <1>3

\* A set that holds 0 and, with a number below N, the next one holds 0..N.
LEMMA Climb ==
  ASSUME NEW N \in Nat, NEW T, 0 \in T,
         \A k \in 0..(N - 1) : k \in T => k + 1 \in T
  PROVE  \A k \in 0..N : k \in T
<1> DEFINE Missing == {k \in 0..N : k \notin T}
<1> SUFFICES ASSUME Missing # {} PROVE FALSE
  OBVIOUS
<1>1. PICK m \in Missing : \A b \in Missing : m <= b
  <2>1. Missing \in SUBSET Nat
    OBVIOUS
  <2> HIDE DEF Missing
  <2> QED  BY <2>1, LeastNumber
<1>2. m \in Nat /\ m <= N /\ m \notin T /\ m # 0
  BY <1>1
<1>3. m - 1 \in 0..(N - 1) /\ (m - 1) + 1 = m
  BY <1>2
<1>4. m - 1 \in T
  BY <1>1, <1>2, <1>3
<1> QED  BY <1>2, <1>3, <1>4

Solution(f, X, base, step, N) ==
  f \in [0..N -> X] /\ f[0] = base /\ \A k \in 1..N : f[k] = step[<<f[k - 1], k>>]

\* Such a recursion has a solution, so that CHOOSE finds one.
LEMMA FoldExists ==
  ASSUME NEW X, NEW base \in X, NEW N \in Nat, NEW step \in [X \X (1..N) -> X]
  PROVE  \E f : Solution(f, X, base, step, N)
<1> DEFINE Solves(f, n) == f[0] = base /\ \A k \in 1..n : f[k] = step[<<f[k - 1], k>>]
           T == {n \in 0..N : \E f \in [0..n -> X] : Solves(f, n)}
<1>1. 0 \in T
  <2> DEFINE f == [k \in 0..0 |-> base]
  <2>1. f \in [0..0 -> X] /\ f[0] = base /\ 1..0 = {}
    OBVIOUS
  <2> HIDE DEF f
  <2>2. Solves(f, 0)
    BY <2>1
  <2>3. \E g \in [0..0 -> X] : Solves(g, 0)
    BY <2>1, <2>2
  <2> HIDE DEF Solves
  <2> QED  BY <2>3
<1>2. ASSUME NEW n \in 0..(N - 1), n \in T
      PROVE  n + 1 \in T
  <2>1. PICK f \in [0..n -> X] : Solves(f, n)
    BY <1>2
  <2> DEFINE last == step[<<f[n], n + 1>>]
             g == [k \in 0..(n + 1) |-> IF k = n + 1 THEN last ELSE f[k]]
  <2>2. n + 1 \in 1..N /\ n \in 0..n /\ last \in X
    <3>1. n + 1 \in 1..N /\ n \in 0..n
      OBVIOUS
    <3>2. <<f[n], n + 1>> \in X \X (1..N)
      BY <2>1, <3>1
    <3> QED  BY <3>1, <3>2
  <2> HIDE DEF last
  <2>3. g \in [0..(n + 1) -> X]
    BY <2>1, <2>2
  <2>4. \A k \in 0..n : g[k] = f[k]
    OBVIOUS
  <2>5. g[n + 1] = last
    OBVIOUS
  <2> HIDE DEF g
  <2>6. g[0] = base
    BY <2>1, <2>4
  <2>7. ASSUME NEW k \in 1..(n + 1)
        PROVE  g[k] = step[<<g[k - 1], k>>]
    <3>1. k - 1 \in 0..n /\ g[k - 1] = f[k - 1]
      BY <2>4, <2>7
    <3>2. CASE k = n + 1
      <4>1. k - 1 = n
        BY <3>2
      <4> QED  BY <2>5, <3>1, <3>2, <4>1 DEF last
    <3>3. CASE k # n + 1
      <4>1. k \in 1..n /\ k \in 0..n
        BY <2>7, <3>3
      <4> QED  BY <2>1, <2>4, <3>1, <4>1
    <3> QED  BY <3>2, <3>3
  <2>8. n + 1 \in 0..N
    OBVIOUS
  <2> QED  BY <2>3, <2>6, <2>7, <2>8
<1> HIDE DEF T
<1>3. N \in T
  <2>1. \A k \in 0..N : k \in T
    BY <1>1, <1>2, Climb
  <2> QED  BY <2>1
<1> QED  BY <1>3 DEF T, Solution

-----------------------------------------------------------------------------
(* Filtering and sorting candidates                                        *)

Filtering(f, X, seq, set) ==
  /\ f \in [0..Len(seq) -> Seq(X)] /\ f[0] = <<>>
  /\ \A k \in 1..Len(seq) : f[k] = IF seq[k] \in set THEN Append(f[k - 1], seq[k]) ELSE f[k - 1]

LEMMA OnlyFilters ==
  ASSUME NEW X, NEW seq \in Seq(X), NEW set
  PROVE  \E f : Filtering(f, X, seq, set) /\ Only(seq, set) = f[Len(seq)]
<1> DEFINE N == Len(seq)
           step == [p \in Seq(X) \X (1..N) |-> IF seq[p[2]] \in set THEN Append(p[1], seq[p[2]]) ELSE p[1]]
           Rule(f) == f = [k \in 0..N |->
               IF k = 0 THEN <<>> ELSE IF seq[k] \in set THEN Append(f[k - 1], seq[k]) ELSE f[k - 1]]
           only == CHOOSE f : Rule(f)
<1>1. N \in Nat /\ step \in [Seq(X) \X (1..N) -> Seq(X)] /\ <<>> \in Seq(X)
  OBVIOUS
<1>2. PICK f \in [0..N -> Seq(X)] : f[0] = <<>> /\ \A k \in 1..N : f[k] = step[<<f[k - 1], k>>]
  <2> DEFINE Y == Seq(X)
             base == <<>>
  <2>1. base \in Y /\ N \in Nat /\ step \in [Y \X (1..N) -> Y]
    BY <1>1
  <2> HIDE DEF step, N, Y, base
  <2>2. \E f : Solution(f, Y, base, step, N)
    BY <2>1, FoldExists
  <2> QED  BY <2>2 DEF Y, base, Solution
<1>3. ASSUME NEW k \in 1..N
      PROVE  f[k] = IF seq[k] \in set THEN Append(f[k - 1], seq[k]) ELSE f[k - 1]
  <2>1. <<f[k - 1], k>> \in Seq(X) \X (1..N)
    BY <1>2
  <2> QED  BY <1>2, <2>1
<1>4. Rule(f)
  <2> DEFINE g == [k \in 0..N |-> IF k = 0 THEN <<>> ELSE IF seq[k] \in set THEN Append(f[k - 1], seq[k]) ELSE f[k - 1]]
  <2>1. ASSUME NEW k \in 0..N PROVE f[k] = g[k]
    <3>1. CASE k = 0
      BY <1>2, <3>1
    <3>2. CASE k # 0
      <4>1. k \in 1..N
        BY <3>2
      <4> QED  BY <1>3, <3>2, <4>1
    <3> QED  BY <3>1, <3>2
  <2>2. f = [k \in 0..N |-> f[k]]
    OBVIOUS
  <2> HIDE DEF g
  <2>3. f = g
    BY <2>1, <2>2 DEF g
  <2> QED  BY <2>3 DEF g
<1>5. Rule(only)
  BY <1>4, Zenon
<1>6. Only(seq, set) = only[N]
  BY DEF Only
<1> HIDE DEF only
<1>7. only[0] = <<>>
  BY <1>5
<1>8. ASSUME NEW k \in 1..N
      PROVE  only[k] = IF seq[k] \in set THEN Append(only[k - 1], seq[k]) ELSE only[k - 1]
  <2>1. k \in 0..N /\ k # 0
    OBVIOUS
  <2> HIDE DEF N
  <2> QED  BY <1>5, <2>1
<1>9. \A k \in 0..N : only[k] \in Seq(X)
  <2> DEFINE T == {k \in 0..N : only[k] \in Seq(X)}
  <2>1. 0 \in T
    BY <1>7
  <2>2. ASSUME NEW k \in 0..(N - 1), k \in T
        PROVE  k + 1 \in T
    <3>1. k + 1 \in 1..N /\ k + 1 \in 0..N /\ (k + 1) - 1 = k /\ seq[k + 1] \in X
      OBVIOUS
    <3>2. only[k + 1] = IF seq[k + 1] \in set THEN Append(only[k], seq[k + 1]) ELSE only[k]
      BY <1>8, <3>1
    <3>3. only[k] \in Seq(X)
      BY <2>2
    <3>4. Append(only[k], seq[k + 1]) \in Seq(X)
      BY <3>1, <3>3
    <3>5. only[k + 1] \in Seq(X)
      BY <3>2, <3>3, <3>4
    <3> QED  BY <3>1, <3>5
  <2>3. \A k \in 0..N : k \in T
    <3> HIDE DEF T
    <3> QED  BY <1>1, <2>1, <2>2, Climb
  <2> QED  BY <2>3
<1>10. only \in [0..N -> Seq(X)]
  BY <1>5, <1>9
<1> HIDE DEF Rule
<1> QED  BY <1>6, <1>7, <1>8, <1>10 DEF Filtering

LEMMA AppendedElements ==
  ASSUME NEW X, NEW s \in Seq(X), NEW x \in X
  PROVE  ToSet(Append(s, x)) = ToSet(s) \cup {x}
<1> DEFINE t == Append(s, x)
           N == Len(s)
<1>1. N \in Nat /\ DOMAIN s = 1..N /\ DOMAIN t = 1..(N + 1) /\ t[N + 1] = x /\ \A i \in 1..N : t[i] = s[i]
  OBVIOUS
<1>2. 1..(N + 1) = 1..N \cup {N + 1}
  BY <1>1
<1> HIDE DEF t, N
<1>3. ToSet(t) = ToSet(s) \cup {x}
  BY <1>1, <1>2 DEF ToSet
<1> QED  BY <1>3 DEF t

LEMMA JoinedElements ==
  ASSUME NEW X, NEW s \in Seq(X), NEW t \in Seq(X)
  PROVE  s \o t \in Seq(X) /\ ToSet(s \o t) = ToSet(s) \cup ToSet(t)
<1> DEFINE u == s \o t
           M == Len(s)
           N == Len(t)
<1>1. /\ M \in Nat /\ N \in Nat /\ DOMAIN s = 1..M /\ DOMAIN t = 1..N /\ DOMAIN u = 1..(M + N)
      /\ \A i \in 1..M : u[i] = s[i]
      /\ \A i \in 1..(M + N) : i > M => u[i] = t[i - M]
  OBVIOUS
<1>2. u \in Seq(X)
  OBVIOUS
<1> HIDE DEF u, M, N
<1>3. \A i \in 1..M : i \in 1..(M + N)
  BY <1>1
<1>4. ASSUME NEW i \in 1..N
      PROVE  \E j \in 1..(M + N) : u[j] = t[i]
  <2>1. i + M \in 1..(M + N) /\ i + M > M /\ (i + M) - M = i
    BY <1>1
  <2> QED  BY <1>1, <2>1
<1>5. ASSUME NEW i \in 1..(M + N)
      PROVE  u[i] \in ToSet(s) \cup ToSet(t)
  <2>1. CASE i <= M
    <3>1. i \in 1..M
      BY <1>1, <2>1
    <3> QED  BY <1>1, <3>1 DEF ToSet
  <2>2. CASE i > M
    <3>1. i - M \in 1..N
      BY <1>1, <2>2
    <3> QED  BY <1>1, <2>2, <3>1 DEF ToSet
  <2> QED  BY <1>1, <2>1, <2>2
<1>6. ToSet(u) \subseteq ToSet(s) \cup ToSet(t)
  BY <1>1, <1>5 DEF ToSet
<1>7. ToSet(s) \subseteq ToSet(u) /\ ToSet(t) \subseteq ToSet(u)
  <2>1. ASSUME NEW i \in 1..M PROVE s[i] \in ToSet(u)
    BY <1>1, <1>3 DEF ToSet
  <2>2. ASSUME NEW i \in 1..N PROVE t[i] \in ToSet(u)
    BY <1>1, <1>4 DEF ToSet
  <2> QED  BY <1>1, <2>1, <2>2 DEF ToSet
<1>8. ToSet(u) = ToSet(s) \cup ToSet(t)
  BY <1>6, <1>7
<1> QED  BY <1>2, <1>8 DEF u

\* A sequence is empty when its set is, and begins with one of its elements.
LEMMA HeadElement ==
  ASSUME NEW X, NEW s \in Seq(X)
  PROVE  /\ s = <<>> <=> ToSet(s) = {}
         /\ s # <<>> => Head(s) \in ToSet(s)
         /\ ToSet(s) \subseteq X
<1>1. Len(s) \in Nat /\ DOMAIN s = 1..Len(s)
  OBVIOUS
<1>2. s # <<>> => 1 \in 1..Len(s) /\ Head(s) = s[1]
  OBVIOUS
<1>3. s = <<>> => ToSet(s) = {}
  BY DEF ToSet
<1>4. \A i \in 1..Len(s) : s[i] \in X
  OBVIOUS
<1> QED  BY <1>1, <1>2, <1>3, <1>4 DEF ToSet

\* Filtering keeps what belongs to the set, and nothing else.
LEMMA OnlySelects ==
  ASSUME NEW X, NEW seq \in Seq(X), NEW set
  PROVE  Only(seq, set) \in Seq(X) /\ ToSet(Only(seq, set)) = ToSet(seq) \cap set
<1> DEFINE N == Len(seq)
<1>1. PICK f \in [0..N -> Seq(X)] :
         /\ Only(seq, set) = f[N]
         /\ f[0] = <<>>
         /\ \A k \in 1..N : f[k] = IF seq[k] \in set THEN Append(f[k - 1], seq[k]) ELSE f[k - 1]
  <2>1. PICK f : Filtering(f, X, seq, set) /\ Only(seq, set) = f[Len(seq)]
    BY OnlyFilters
  <2> QED  BY <2>1 DEF Filtering
<1> DEFINE Upto(k) == {seq[i] : i \in 1..k} \cap set
           T == {k \in 0..N : ToSet(f[k]) = Upto(k)}
<1>2. N \in Nat /\ DOMAIN seq = 1..N /\ \A k \in 1..N : seq[k] \in X
  OBVIOUS
<1> HIDE DEF N
<1>3. 0 \in T
  <2>1. 1..0 = {} /\ ToSet(<<>>) = {}
    BY DEF ToSet
  <2> QED  BY <1>1, <1>2, <2>1
<1>4. ASSUME NEW k \in 0..(N - 1), k \in T
      PROVE  k + 1 \in T
  <2>1. k + 1 \in 1..N /\ k + 1 \in 0..N /\ k \in 0..N /\ (k + 1) - 1 = k /\ 1..(k + 1) = 1..k \cup {k + 1}
    BY <1>2
  <2>2. f[k] \in Seq(X) /\ ToSet(f[k]) = Upto(k) /\ seq[k + 1] \in X
    BY <1>1, <1>2, <1>4, <2>1
  <2>3. f[k + 1] = IF seq[k + 1] \in set THEN Append(f[k], seq[k + 1]) ELSE f[k]
    BY <1>1, <2>1
  <2>4. Upto(k + 1) = IF seq[k + 1] \in set THEN Upto(k) \cup {seq[k + 1]} ELSE Upto(k)
    BY <2>1
  <2>5. ToSet(Append(f[k], seq[k + 1])) = ToSet(f[k]) \cup {seq[k + 1]}
    BY <2>2, AppendedElements
  <2> HIDE DEF Upto
  <2>6. ToSet(f[k + 1]) = Upto(k + 1)
    BY <2>2, <2>3, <2>4, <2>5
  <2> QED  BY <2>1, <2>6
<1>5. \A k \in 0..N : k \in T
  <2> HIDE DEF T
  <2> QED  BY <1>2, <1>3, <1>4, Climb
<1>6. N \in 0..N
  BY <1>2
<1>7. ToSet(f[N]) = Upto(N)
  <2> HIDE DEF Upto
  <2> QED  BY <1>5, <1>6
<1>8. Upto(N) = ToSet(seq) \cap set
  BY <1>2 DEF ToSet
<1> HIDE DEF Upto
<1> QED  BY <1>1, <1>6, <1>7, <1>8

-----------------------------------------------------------------------------
(* Sorting by quota                                                        *)

LEMMA ScoreNatural ==
  ASSUME PlannerTypeOK, NEW r \in Routes
  PROVE  Score(r) \in Nat
BY PlannerAssumption DEF Score, PlannerTypeOK, Routes

\* A route that is ranked is added, and no other is lost.
LEMMA RankedElements ==
  ASSUME NEW seq \in Seq(Routes), NEW r \in Routes
  PROVE  Ranked(seq, r) \in Seq(Routes) /\ ToSet(Ranked(seq, r)) = ToSet(seq) \cup {r}
<1> DEFINE N == Len(seq)
           above == {i \in DOMAIN seq : Score(seq[i]) >= Score(r)}
           k == Cardinality(above)
           left == SubSeq(seq, 1, k)
           right == SubSeq(seq, k + 1, N)
<1>1. N \in Nat /\ DOMAIN seq = 1..N
  OBVIOUS
<1>2. k \in 0..N
  <2>1. IsFiniteSet(1..N) /\ Cardinality(1..N) = N
    <3>1. N \in Nat
      BY <1>1
    <3> HIDE DEF N
    <3>2. 1 \in Int /\ N \in Int /\ (IF 1 > N THEN 0 ELSE N - 1 + 1) = N
      BY <3>1
    <3>3. IsFiniteSet(1..N) /\ Cardinality(1..N) = IF 1 > N THEN 0 ELSE N - 1 + 1
      BY <3>2, FS_Interval
    <3> QED  BY <3>2, <3>3
  <2>2. above \subseteq 1..N
    BY <1>1
  <2> HIDE DEF above
  <2>3. IsFiniteSet(above) /\ k <= N
    BY <2>1, <2>2, FS_Subset
  <2> QED  BY <1>1, <2>3, FS_CardinalityType
<1>3. Ranked(seq, r) = (left \o <<r>>) \o right
  BY DEF Ranked
<1> HIDE DEF k
<1>4. /\ left \in Seq(Routes) /\ right \in Seq(Routes)
      /\ DOMAIN left = 1..k /\ DOMAIN right = 1..(N - k)
      /\ \A i \in 1..k : left[i] = seq[i]
      /\ \A i \in 1..(N - k) : right[i] = seq[i + k]
  BY <1>1, <1>2
<1> HIDE DEF left, right, N
<1>5. ToSet(left) \cup ToSet(right) = ToSet(seq)
  <2>1. ASSUME NEW i \in 1..N
        PROVE  seq[i] \in ToSet(left) \cup ToSet(right)
    <3>1. CASE i <= k
      <4>1. i \in 1..k
        BY <1>1, <1>2, <3>1
      <4> QED  BY <1>4, <4>1 DEF ToSet
    <3>2. CASE i > k
      <4>1. i - k \in 1..(N - k) /\ (i - k) + k = i
        BY <1>1, <1>2, <3>2
      <4> QED  BY <1>4, <4>1 DEF ToSet
    <3> QED  BY <1>1, <1>2, <3>1, <3>2
  <2>2. ASSUME NEW i \in 1..k
        PROVE  left[i] \in ToSet(seq)
    <3>1. i \in 1..N
      BY <1>1, <1>2
    <3> QED  BY <1>1, <1>4, <3>1 DEF ToSet
  <2>3. ASSUME NEW i \in 1..(N - k)
        PROVE  right[i] \in ToSet(seq)
    <3>1. i + k \in 1..N
      BY <1>1, <1>2
    <3> QED  BY <1>1, <1>4, <3>1 DEF ToSet
  <2> QED  BY <1>1, <1>4, <2>1, <2>2, <2>3 DEF ToSet
<1>6. <<r>> \in Seq(Routes) /\ ToSet(<<r>>) = {r}
  BY DEF ToSet
<1> DEFINE single == <<r>>
           front == left \o single
<1> HIDE DEF single
<1>7. front \in Seq(Routes) /\ ToSet(front) = ToSet(left) \cup {r}
  <2>1. single \in Seq(Routes) /\ ToSet(single) = {r}
    BY <1>6 DEF single
  <2>2. left \in Seq(Routes)
    BY <1>4
  <2>3. front \in Seq(Routes)
    BY <2>1, <2>2, JoinedElements
  <2>4. ToSet(front) = ToSet(left) \cup ToSet(single)
    BY <2>1, <2>2, JoinedElements
  <2> QED  BY <2>1, <2>3, <2>4
<1>8. front \o right \in Seq(Routes) /\ ToSet(front \o right) = ToSet(front) \cup ToSet(right)
  <2> HIDE DEF front
  <2>1. front \in Seq(Routes) /\ right \in Seq(Routes)
    BY <1>4, <1>7
  <2> QED  BY <2>1, JoinedElements
<1>9. Ranked(seq, r) = front \o right
  BY <1>3 DEF single
<1> HIDE DEF front
<1> QED  BY <1>5, <1>7, <1>8, <1>9

Sorting(f, seq) ==
  /\ f \in [0..Len(seq) -> Seq(Routes)] /\ f[0] = <<>>
  /\ \A k \in 1..Len(seq) : f[k] = Ranked(f[k - 1], seq[k])

LEMMA QuotaSorts ==
  ASSUME NEW seq \in Seq(Routes)
  PROVE  \E f : Sorting(f, seq) /\ ByQuota(seq) = f[Len(seq)]
<1> DEFINE N == Len(seq)
           Y == Seq(Routes)
           base == <<>>
           step == [p \in Y \X (1..N) |-> Ranked(p[1], seq[p[2]])]
           Rule(f) == f = [k \in 0..N |-> IF k = 0 THEN <<>> ELSE Ranked(f[k - 1], seq[k])]
           sorted == CHOOSE f : Rule(f)
<1>1. N \in Nat /\ base \in Y /\ \A k \in 1..N : seq[k] \in Routes
  OBVIOUS
<1>2. step \in [Y \X (1..N) -> Y]
  BY <1>1, RankedElements
<1>3. PICK f : Solution(f, Y, base, step, N)
  <2> HIDE DEF step, N, Y, base
  <2> QED  BY <1>1, <1>2, FoldExists
<1>4. f \in [0..N -> Y] /\ f[0] = <<>>
  BY <1>3 DEF Solution
<1>5. ASSUME NEW k \in 1..N
      PROVE  f[k] = Ranked(f[k - 1], seq[k])
  <2>1. <<f[k - 1], k>> \in Y \X (1..N)
    BY <1>4
  <2>2. f[k] = step[<<f[k - 1], k>>]
    BY <1>3 DEF Solution
  <2> QED  BY <2>1, <2>2
<1>6. Rule(f)
  <2> DEFINE g == [k \in 0..N |-> IF k = 0 THEN <<>> ELSE Ranked(f[k - 1], seq[k])]
  <2>1. ASSUME NEW k \in 0..N PROVE f[k] = g[k]
    <3>1. k = 0 \/ k \in 1..N
      OBVIOUS
    <3> QED  BY <1>4, <1>5, <3>1
  <2>2. f = [k \in 0..N |-> f[k]]
    BY <1>4
  <2> HIDE DEF g
  <2>3. f = g
    BY <2>1, <2>2 DEF g
  <2> QED  BY <2>3 DEF g
<1>7. Rule(sorted)
  BY <1>6, Zenon
<1>8. ByQuota(seq) = sorted[N]
  BY DEF ByQuota
<1> HIDE DEF sorted
<1>9. sorted[0] = <<>>
  BY <1>7
<1>10. ASSUME NEW k \in 1..N
       PROVE  sorted[k] = Ranked(sorted[k - 1], seq[k])
  <2>1. k \in 0..N /\ k # 0
    OBVIOUS
  <2> HIDE DEF N
  <2> QED  BY <1>7, <2>1
<1>11. \A k \in 0..N : sorted[k] \in Y
  <2> DEFINE T == {k \in 0..N : sorted[k] \in Y}
  <2>1. 0 \in T
    <3>1. sorted[0] \in Y
      BY <1>9
    <3>2. 0 \in 0..N
      BY <1>1
    <3> HIDE DEF Y, N
    <3> QED  BY <3>1, <3>2
  <2>2. ASSUME NEW k \in 0..(N - 1), k \in T
        PROVE  k + 1 \in T
    <3>1. k + 1 \in 1..N /\ k + 1 \in 0..N /\ (k + 1) - 1 = k /\ seq[k + 1] \in Routes
      OBVIOUS
    <3>2. sorted[k + 1] = Ranked(sorted[k], seq[k + 1])
      BY <1>10, <3>1
    <3>3. sorted[k + 1] \in Y
      BY <2>2, <3>1, <3>2, RankedElements
    <3> QED  BY <3>1, <3>3
  <2>3. \A k \in 0..N : k \in T
    <3> HIDE DEF T
    <3> QED  BY <1>1, <2>1, <2>2, Climb
  <2> QED  BY <2>3
<1>12. sorted \in [0..N -> Y]
  BY <1>7, <1>11
<1> HIDE DEF Rule
<1> QED  BY <1>8, <1>9, <1>10, <1>12 DEF Sorting

\* Sorting by quota loses no candidate and adds none.
LEMMA QuotaElements ==
  ASSUME NEW seq \in Seq(Routes)
  PROVE  ByQuota(seq) \in Seq(Routes) /\ ToSet(ByQuota(seq)) = ToSet(seq)
<1> DEFINE N == Len(seq)
           Upto(k) == {seq[i] : i \in 1..k}
<1>1. PICK f : Sorting(f, seq) /\ ByQuota(seq) = f[N]
  BY QuotaSorts
<1>2. /\ f \in [0..N -> Seq(Routes)] /\ f[0] = <<>>
      /\ \A k \in 1..N : f[k] = Ranked(f[k - 1], seq[k])
  BY <1>1 DEF Sorting
<1> DEFINE T == {k \in 0..N : ToSet(f[k]) = Upto(k)}
<1>3. N \in Nat /\ DOMAIN seq = 1..N /\ \A k \in 1..N : seq[k] \in Routes
  OBVIOUS
<1> HIDE DEF N
<1>4. 0 \in T
  <2>1. 1..0 = {} /\ ToSet(<<>>) = {}
    BY DEF ToSet
  <2>2. Upto(0) = {}
    BY <2>1
  <2>3. ToSet(f[0]) = {} /\ 0 \in 0..N
    BY <1>2, <1>3, <2>1
  <2> HIDE DEF Upto
  <2> QED  BY <2>2, <2>3
<1>5. ASSUME NEW k \in 0..(N - 1), k \in T
      PROVE  k + 1 \in T
  <2>1. k + 1 \in 1..N /\ k + 1 \in 0..N /\ k \in 0..N /\ (k + 1) - 1 = k /\ 1..(k + 1) = 1..k \cup {k + 1}
    BY <1>3
  <2>2. f[k] \in Seq(Routes) /\ ToSet(f[k]) = Upto(k) /\ seq[k + 1] \in Routes
    BY <1>2, <1>3, <1>5, <2>1
  <2>3. f[k + 1] = Ranked(f[k], seq[k + 1])
    BY <1>2, <2>1
  <2>4. Upto(k + 1) = Upto(k) \cup {seq[k + 1]}
    BY <2>1
  <2>5. ToSet(Ranked(f[k], seq[k + 1])) = ToSet(f[k]) \cup {seq[k + 1]}
    BY <2>2, RankedElements
  <2> HIDE DEF Upto
  <2>6. ToSet(f[k + 1]) = Upto(k + 1)
    BY <2>2, <2>3, <2>4, <2>5
  <2> QED  BY <2>1, <2>6
<1>6. \A k \in 0..N : k \in T
  <2> HIDE DEF T
  <2> QED  BY <1>3, <1>4, <1>5, Climb
<1>7. N \in 0..N
  BY <1>3
<1>8. ToSet(f[N]) = Upto(N)
  <2> HIDE DEF Upto
  <2> QED  BY <1>6, <1>7
<1>9. Upto(N) = ToSet(seq)
  BY <1>3 DEF ToSet
<1> HIDE DEF Upto
<1> QED  BY <1>1, <1>2, <1>7, <1>8, <1>9

-----------------------------------------------------------------------------
(* Plans                                                                   *)

\* Moving the session's route up keeps the candidates, and puts it first.
LEMMA AffinityElements ==
  ASSUME NEW seq \in Seq(Routes), NEW r
  PROVE  /\ ByAffinity(seq, r) \in Seq(Routes) /\ ToSet(ByAffinity(seq, r)) = ToSet(seq)
         /\ r \in ToSet(seq) => ByAffinity(seq, r) # <<>> /\ Head(ByAffinity(seq, r)) = r
<1>1. CASE r \notin ToSet(seq)
  BY <1>1 DEF ByAffinity
<1>2. CASE r \in ToSet(seq)
  <2> DEFINE rest == Only(seq, Routes \ {r})
             single == <<r>>
  <2>1. r \in Routes /\ ToSet(seq) \subseteq Routes
    BY <1>2, HeadElement
  <2>2. rest \in Seq(Routes) /\ ToSet(rest) = ToSet(seq) \ {r}
    <3>1. rest \in Seq(Routes) /\ ToSet(rest) = ToSet(seq) \cap (Routes \ {r})
      BY OnlySelects
    <3> HIDE DEF rest
    <3> QED  BY <2>1, <3>1
  <2>3. single \in Seq(Routes) /\ ToSet(single) = {r}
    BY <2>1 DEF ToSet
  <2>4. ByAffinity(seq, r) = single \o rest
    BY <1>2 DEF ByAffinity
  <2>5. single \o rest # <<>> /\ Head(single \o rest) = r
    <3> HIDE DEF rest
    <3>1. rest \in Seq(Routes)
      BY <2>2
    <3> QED  BY <2>1, <3>1
  <2> HIDE DEF rest, single
  <2>6. single \o rest \in Seq(Routes) /\ ToSet(single \o rest) = ToSet(single) \cup ToSet(rest)
    BY <2>2, <2>3, JoinedElements
  <2> QED  BY <1>2, <2>2, <2>3, <2>4, <2>5, <2>6
<1> QED  BY <1>1, <1>2

\* A plan is cut to a positive number of attempts: its head stays.
LEMMA FirstElements ==
  ASSUME NEW seq \in Seq(Routes), NEW n \in Nat \ {0}
  PROVE  /\ First(seq, n) \in Seq(Routes) /\ ToSet(First(seq, n)) \subseteq ToSet(seq)
         /\ seq # <<>> => First(seq, n) # <<>> /\ Head(First(seq, n)) = Head(seq)
<1> DEFINE m == IF n < Len(seq) THEN n ELSE Len(seq)
           cut == SubSeq(seq, 1, m)
<1>1. m \in 0..Len(seq) /\ Len(seq) \in Nat /\ (seq # <<>> => m > 0)
  OBVIOUS
<1>2. First(seq, n) = cut
  BY DEF First
<1> HIDE DEF m
<1>3. /\ cut \in Seq(Routes) /\ Len(cut) = m /\ DOMAIN cut = 1..m /\ DOMAIN seq = 1..Len(seq)
      /\ \A i \in 1..m : cut[i] = seq[i]
  BY <1>1
<1> HIDE DEF cut
<1>4. ToSet(cut) \subseteq ToSet(seq)
  <2>1. \A i \in 1..m : i \in 1..Len(seq)
    BY <1>1
  <2> QED  BY <1>3, <2>1 DEF ToSet
<1>5. seq # <<>> => cut # <<>> /\ Head(cut) = Head(seq)
  BY <1>1, <1>3
<1> QED  BY <1>2, <1>3, <1>4, <1>5

LEMMA NameFacts ==
  ASSUME NEW n \in DOMAIN Names
  PROVE  Names[n].candidates \in Seq(Routes) /\ Names[n].attempts \in Nat \ {0}
BY PlannerAssumption DEF Routes

LEMMA UsableElements ==
  ASSUME NEW n \in DOMAIN Names, NEW q
  PROVE  Usable(n, q) \in Seq(Routes)
BY NameFacts, OnlySelects DEF Usable

\* The order of the open candidates: some of them, the session's route first
\* when it is among them, and none only when there is none.
LEMMA OrderedElements ==
  ASSUME NEW s, NEW n \in DOMAIN Names, NEW seq \in Seq(Routes)
  PROVE  /\ Ordered(s, n, seq) \in Seq(Routes) /\ ToSet(Ordered(s, n, seq)) \subseteq ToSet(seq)
         /\ seq # <<>> => Ordered(s, n, seq) # <<>> /\ Head(Ordered(s, n, seq)) \in ToSet(seq)
         /\ sticky[<<s, n>>] \in ToSet(seq) => Head(Ordered(s, n, seq)) = sticky[<<s, n>>]
<1> DEFINE r == sticky[<<s, n>>]
           sorted == ByQuota(seq)
           moved == ByAffinity(sorted, r)
           m == Names[n].attempts
<1>1. sorted \in Seq(Routes) /\ ToSet(sorted) = ToSet(seq)
  BY QuotaElements
<1>2. m \in Nat \ {0}
  BY NameFacts
<1>3. Ordered(s, n, seq) = First(moved, m)
  BY DEF Ordered
<1> HIDE DEF r, sorted, m
<1>4. /\ moved \in Seq(Routes) /\ ToSet(moved) = ToSet(sorted)
      /\ r \in ToSet(sorted) => moved # <<>> /\ Head(moved) = r
  BY <1>1, AffinityElements
<1> HIDE DEF moved
<1>5. /\ First(moved, m) \in Seq(Routes) /\ ToSet(First(moved, m)) \subseteq ToSet(moved)
      /\ moved # <<>> => First(moved, m) # <<>> /\ Head(First(moved, m)) = Head(moved)
  BY <1>2, <1>4, FirstElements
<1>6. seq = <<>> <=> moved = <<>>
  BY <1>1, <1>4, HeadElement
<1>7. moved # <<>> => Head(moved) \in ToSet(moved)
  BY <1>4, HeadElement
<1>8. sticky[<<s, n>>] = r
  BY DEF r
<1> QED  BY <1>1, <1>3, <1>4, <1>5, <1>6, <1>7, <1>8

\* What a candidate must carry does not depend on who asks.
LEMMA SameForDelegates ==
  ASSUME NEW q \in Shapes, NEW n
  PROVE  LET own == [q EXCEPT !.delegated = FALSE]
         IN  /\ own.delegated = FALSE
             /\ \A r : Eligible(r, own) <=> Eligible(r, q)
             /\ Usable(n, own) = Usable(n, q)
<1> DEFINE own == [q EXCEPT !.delegated = FALSE]
<1>1. q = [protocol |-> q.protocol, features |-> q.features, size |-> q.size, delegated |-> q.delegated]
  BY PlannerAssumption
<1>2. /\ own.protocol = q.protocol /\ own.features = q.features /\ own.size = q.size
      /\ own.delegated = FALSE
  BY <1>1
<1> HIDE DEF own
<1>3. \A r : Eligible(r, own) <=> Eligible(r, q)
  BY <1>2, Zenon DEF Eligible, Speaks, Able, Supports, Translated
<1>4. \A r : Callable(r, own) <=> Callable(r, q)
  BY <1>2, <1>3 DEF Callable, CircuitOpen
<1>5. {r \in Routes : Callable(r, own)} = {r \in Routes : Callable(r, q)}
  BY <1>4
<1>6. Usable(n, own) = Usable(n, q)
  BY <1>5 DEF Usable
<1> QED  BY <1>2, <1>3, <1>6 DEF own

LEMMA UsableFit ==
  ASSUME NEW n \in DOMAIN Names, NEW q
  PROVE  \A r \in ToSet(Usable(n, q)) : r \in Routes /\ Eligible(r, q)
<1> DEFINE open == {r \in Routes : Callable(r, q)}
<1>1. Names[n].candidates \in Seq(Routes)
  BY NameFacts
<1>2. ToSet(Usable(n, q)) = ToSet(Names[n].candidates) \cap open
  BY <1>1, OnlySelects DEF Usable
<1> QED  BY <1>2 DEF Callable

\* A profile's plan is of eligible routes; a turn of the session's own gets
\* the ordered candidates as they are.
LEMMA ProfilePlanFits ==
  ASSUME NEW s, NEW n \in DOMAIN Names, NEW q
  PROVE  /\ ProfilePlan(s, n, q) \in Seq(Routes)
         /\ \A r \in ToSet(ProfilePlan(s, n, q)) : Eligible(r, q)
         /\ ~q.delegated => ProfilePlan(s, n, q) = Ordered(s, n, Usable(n, q))
<1> DEFINE limited == Ordered(s, n, Usable(n, q))
           rest == Only(limited, Routes \ {Cheap})
           single == <<Cheap>>
<1>1. Usable(n, q) \in Seq(Routes)
  BY UsableElements
<1>2. limited \in Seq(Routes) /\ ToSet(limited) \subseteq ToSet(Usable(n, q))
  BY <1>1, OrderedElements
<1>3. ProfilePlan(s, n, q) = IF CheapFirst(n, q) THEN single \o rest ELSE limited
  BY DEF ProfilePlan
<1>4. ~q.delegated => ~CheapFirst(n, q)
  BY DEF CheapFirst
<1>5. CheapFirst(n, q) => Eligible(Cheap, q)
  BY DEF CheapFirst, Callable
<1>6. \A r \in ToSet(limited) : Eligible(r, q)
  BY <1>2, UsableFit
<1> HIDE DEF limited
<1>7. rest \in Seq(Routes) /\ ToSet(rest) \subseteq ToSet(limited)
  <2>1. rest \in Seq(Routes) /\ ToSet(rest) = ToSet(limited) \cap (Routes \ {Cheap})
    BY <1>2, OnlySelects
  <2> HIDE DEF rest
  <2> QED  BY <2>1
<1>8. single \in Seq(Routes) /\ ToSet(single) = {Cheap}
  BY PlannerAssumption DEF ToSet, Routes
<1> HIDE DEF rest, single
<1>9. single \o rest \in Seq(Routes) /\ ToSet(single \o rest) = ToSet(single) \cup ToSet(rest)
  BY <1>7, <1>8, JoinedElements
<1>10. CASE CheapFirst(n, q)
  BY <1>3, <1>4, <1>5, <1>6, <1>7, <1>8, <1>9, <1>10
<1>11. CASE ~CheapFirst(n, q)
  BY <1>2, <1>3, <1>6, <1>11 DEF limited
<1> QED  BY <1>10, <1>11

\* Leaving recent families out leaves candidates when there were any, and
\* only unseen ones when there is one.
LEMMA DiverseElements ==
  ASSUME NEW s, NEW n \in DOMAIN Names, NEW q
  PROVE  /\ Diverse(s, n, q) \in Seq(Routes) /\ ToSet(Diverse(s, n, q)) \subseteq ToSet(Usable(n, q))
         /\ Usable(n, q) # <<>> => Diverse(s, n, q) # <<>>
         /\ LET unseen == {r \in ToSet(Usable(n, q)) : RouteOf[r].family \notin families[s]}
            IN  Names[n].rotates /\ unseen # {} => ToSet(Diverse(s, n, q)) = unseen
<1> DEFINE usable == Usable(n, q)
           fresh == {r \in Routes : RouteOf[r].family \notin families[s]}
           diverse == Only(usable, fresh)
           unseen == {r \in ToSet(usable) : RouteOf[r].family \notin families[s]}
<1>1. usable \in Seq(Routes)
  BY UsableElements
<1>2. Diverse(s, n, q) = IF Names[n].rotates /\ diverse # <<>> THEN diverse ELSE usable
  BY DEF Diverse
<1> HIDE DEF usable
<1>3. diverse \in Seq(Routes) /\ ToSet(diverse) = ToSet(usable) \cap fresh
  BY <1>1, OnlySelects
<1>4. ToSet(usable) \subseteq Routes
  BY <1>1, HeadElement
<1>5. ToSet(usable) \cap fresh = unseen
  BY <1>4
<1> HIDE DEF diverse, fresh
<1>6. diverse = <<>> <=> unseen = {}
  BY <1>3, <1>5, HeadElement
<1>7. unseen \subseteq ToSet(usable)
  OBVIOUS
<1> HIDE DEF unseen
<1>8. CASE Names[n].rotates /\ diverse # <<>>
  BY <1>2, <1>3, <1>5, <1>7, <1>8 DEF usable, unseen
<1>9. CASE ~(Names[n].rotates /\ diverse # <<>>)
  BY <1>1, <1>2, <1>6, <1>9 DEF usable, unseen
<1> QED  BY <1>8, <1>9

\* A role's plan: its own candidates first, then those of its fallback.
LEMMA RolePlanFits ==
  ASSUME NEW s, NEW n \in DOMAIN Names, NEW q \in Shapes, Names[n].kind = "role"
  PROVE  /\ RolePlan(s, n, q) \in Seq(Routes)
         /\ \A r \in ToSet(RolePlan(s, n, q)) : Eligible(r, q)
         /\ Usable(n, q) # <<>> =>
               RolePlan(s, n, q) # <<>> /\ Head(RolePlan(s, n, q)) \in ToSet(Diverse(s, n, q))
         /\ Usable(Names[n].fallback, q) # <<>> => RolePlan(s, n, q) # <<>>
<1> DEFINE own == [q EXCEPT !.delegated = FALSE]
           f == Names[n].fallback
           diverse == Diverse(s, n, q)
           ordered == Ordered(s, n, diverse)
           more == ProfilePlan(s, f, own)
           rest == Only(more, Routes \ ToSet(ordered))
<1>1. f \in DOMAIN Names
  BY PlannerAssumption
<1>2. \A r : Eligible(r, own) <=> Eligible(r, q)
  BY SameForDelegates
<1>3. Usable(f, own) = Usable(f, q) /\ ~own.delegated
  BY SameForDelegates
<1>4. diverse \in Seq(Routes) /\ (\A r \in ToSet(diverse) : Eligible(r, q)) /\ (Usable(n, q) # <<>> => diverse # <<>>)
  <2>1. diverse \in Seq(Routes) /\ ToSet(diverse) \subseteq ToSet(Usable(n, q)) /\ (Usable(n, q) # <<>> => diverse # <<>>)
    BY DiverseElements
  <2> HIDE DEF diverse
  <2> QED  BY <2>1, UsableFit
<1> HIDE DEF diverse
<1>5. /\ ordered \in Seq(Routes) /\ ToSet(ordered) \subseteq ToSet(diverse)
      /\ diverse # <<>> => ordered # <<>> /\ Head(ordered) \in ToSet(diverse)
  BY <1>4, OrderedElements
<1>6. /\ more \in Seq(Routes)
      /\ \A r \in ToSet(more) : Eligible(r, q)
      /\ Usable(f, q) # <<>> => more # <<>>
  <2>1. /\ more \in Seq(Routes)
        /\ \A r \in ToSet(more) : Eligible(r, own)
        /\ ~own.delegated => more = Ordered(s, f, Usable(f, own))
    BY <1>1, ProfilePlanFits
  <2>2. more = Ordered(s, f, Usable(f, q))
    BY <1>3, <2>1
  <2>3. Usable(f, q) # <<>> => Ordered(s, f, Usable(f, q)) # <<>>
    BY <1>1, UsableElements, OrderedElements
  <2> HIDE DEF more, own
  <2> QED  BY <1>2, <2>1, <2>2, <2>3
<1>7. RolePlan(s, n, q) = ordered \o rest
  BY DEF RolePlan, diverse
<1> HIDE DEF ordered, more, own
<1>8. rest \in Seq(Routes) /\ ToSet(rest) = ToSet(more) \cap (Routes \ ToSet(ordered))
  BY <1>6, OnlySelects
<1> HIDE DEF rest
<1>9. ordered \o rest \in Seq(Routes) /\ ToSet(ordered \o rest) = ToSet(ordered) \cup ToSet(rest)
  <2>1. ordered \in Seq(Routes) /\ rest \in Seq(Routes)
    BY <1>5, <1>8
  <2> QED  BY <2>1, JoinedElements
<1>10. ordered # <<>> => ordered \o rest # <<>> /\ Head(ordered \o rest) = Head(ordered)
  BY <1>5, <1>8
<1>11. /\ ordered \o rest = <<>> <=> ToSet(ordered \o rest) = {}
       /\ more = <<>> <=> ToSet(more) = {}
       /\ ordered = <<>> <=> ToSet(ordered) = {}
       /\ ToSet(more) \subseteq Routes
  <2>1. /\ ordered \o rest \in Seq(Routes) /\ more \in Seq(Routes) /\ ordered \in Seq(Routes)
    BY <1>5, <1>6, <1>9
  <2> QED  BY <2>1, HeadElement
<1>12. \A r \in ToSet(ordered \o rest) : Eligible(r, q)
  BY <1>4, <1>5, <1>6, <1>8, <1>9
<1>13. more # <<>> => ordered \o rest # <<>>
  <2>1. CASE ordered = <<>>
    <3>1. ToSet(rest) = ToSet(more)
      BY <1>8, <1>11, <2>1
    <3> QED  BY <1>9, <1>11, <3>1
  <2>2. CASE ordered # <<>>
    BY <1>10, <2>2
  <2> QED  BY <2>1, <2>2
<1>14. Usable(n, q) # <<>> => ordered \o rest # <<>> /\ Head(ordered \o rest) \in ToSet(diverse)
  BY <1>4, <1>5, <1>10
<1> QED  BY <1>6, <1>7, <1>9, <1>12, <1>13, <1>14 DEF diverse

\* What is known of a candidate: its provider speaks the protocol, natively or
\* translated, and has the features and the window of the request.  Specialists
\* answer in any protocol, and are taken as they come, as are direct models
\* that are not translated.
Qualifies(n, r, q) ==
  /\ Speaks(r, q) \/ (Names[n].kind = "specialist" /\ "responses" \in RouteOf[r].protocols)
  /\ \/ Able(r, q)
     \/ Names[n].kind = "specialist"
     \/ Names[n].kind = "direct" /\ RouteOf[r].plain /\ q.protocol \in RouteOf[r].protocols

LEMMA EligibleFits ==
  ASSUME NEW n, NEW r, NEW q, Eligible(r, q)
  PROVE  Qualifies(n, r, q)
BY DEF Eligible, Qualifies

LEMMA PlanFits ==
  ASSUME NEW s, NEW n \in DOMAIN Names, NEW q \in Shapes
  PROVE  Plan(s, n, q) \in Seq(Routes) /\ \A r \in ToSet(Plan(s, n, q)) : Qualifies(n, r, q)
<1>1. CASE Names[n].kind = "profile"
  BY <1>1, ProfilePlanFits, EligibleFits DEF Plan
<1>2. CASE Names[n].kind = "role"
  BY <1>2, RolePlanFits, EligibleFits DEF Plan
<1>3. CASE Names[n].kind = "catalog"
  <2>1. Plan(s, n, q) = Usable(n, q)
    BY <1>3 DEF Plan, CatalogPlan
  <2> QED  BY <2>1, UsableElements, UsableFit, EligibleFits
<1>4. CASE Names[n].kind = "direct"
  <2> DEFINE able == {r \in Routes : ServedDirectly(r, q)}
             only == Only(Names[n].candidates, able)
  <2>1. Plan(s, n, q) = only
    BY <1>4 DEF Plan, DirectPlan
  <2>2. only \in Seq(Routes) /\ ToSet(only) = ToSet(Names[n].candidates) \cap able
    BY NameFacts, OnlySelects
  <2>3. ASSUME NEW r \in able PROVE Qualifies(n, r, q)
    BY <1>4, <2>3 DEF ServedDirectly, Qualifies, Speaks, Able, Translated
  <2> HIDE DEF only, able
  <2> QED  BY <2>1, <2>2, <2>3
<1>5. CASE Names[n].kind = "specialist"
  <2> DEFINE able == {r \in Routes : "responses" \in RouteOf[r].protocols}
             only == Only(Names[n].candidates, able)
  <2>1. Plan(s, n, q) = only
    BY <1>5 DEF Plan, SpecialistPlan
  <2>2. only \in Seq(Routes) /\ ToSet(only) = ToSet(Names[n].candidates) \cap able
    BY NameFacts, OnlySelects
  <2>3. ASSUME NEW r \in able PROVE Qualifies(n, r, q)
    BY <1>5, <2>3 DEF Qualifies
  <2> HIDE DEF only, able
  <2> QED  BY <2>1, <2>2, <2>3
<1> QED  BY <1>1, <1>2, <1>3, <1>4, <1>5, PlannerAssumption

-----------------------------------------------------------------------------
(* Theorems                                                                *)

\* The candidates a request has left fit it.
PlansFit ==
  \A i \in Inflight : plans[i] # NoPlan => \A r \in ToSet(plans[i].left) : Qualifies(plans[i].name, r, plans[i].shape)

PlannerInv == PlannerTypeOK /\ PlansFit

LEMMA UnderPlanIsPlan ==
  ASSUME NEW p \in UnderPlan
  PROVE  /\ p # NoPlan /\ p.session \in Sessions /\ p.name \in DOMAIN Names /\ p.shape \in Shapes
         /\ p.left \in Seq(Routes) /\ p.left # <<>>
<1>1. /\ p.session \in Sessions /\ p.name \in DOMAIN Names /\ p.shape \in Shapes
      /\ p.left \in Seq(Routes) /\ p.left # <<>>
  BY DEF UnderPlan
<1>2. NoPlan.session = NoSession
  BY DEF NoPlan
<1> QED  BY <1>1, <1>2, PlannerAssumption

\* A request that has no plan left, or fewer candidates, keeps the invariant.
LEMMA PlanShrinks ==
  ASSUME PlannerInv, NEW i \in Inflight, NEW p \in UnderPlan \cup {NoPlan},
         p # NoPlan => \A r \in ToSet(p.left) : Qualifies(p.name, r, p.shape),
         plans' = [plans EXCEPT ![i] = p],
         cooling' \in SUBSET (Routes \X Protocols),
         sticky' \in [Sessions \X DOMAIN Names -> Routes \cup {NoRoute}],
         strayed' \in SUBSET (Sessions \X DOMAIN Names),
         families' \in [Sessions -> SUBSET Families],
         headroom' \in [Metered -> 0..2]
  PROVE  PlannerInv'
<1>1. plans' \in [Inflight -> UnderPlan \cup {NoPlan}]
  BY DEF PlannerInv, PlannerTypeOK
<1>2. PlannerTypeOK'
  BY <1>1 DEF PlannerTypeOK
<1>3. ASSUME NEW j \in Inflight, plans'[j] # NoPlan
      PROVE  \A r \in ToSet(plans'[j].left) : Qualifies(plans'[j].name, r, plans'[j].shape)
  <2>1. CASE j = i
    <3>1. plans'[j] = p
      BY <2>1 DEF PlannerInv, PlannerTypeOK
    <3> QED  BY <1>3, <3>1
  <2>2. CASE j # i
    <3>1. plans'[j] = plans[j]
      BY <2>2 DEF PlannerInv, PlannerTypeOK
    <3> QED  BY <1>3, <3>1 DEF PlannerInv, PlansFit
  <2> QED  BY <2>1, <2>2
<1>4. \A n, r, q : Qualifies(n, r, q)' <=> Qualifies(n, r, q)
  BY DEF Qualifies, Speaks, Able, Supports, Translated
<1> QED  BY <1>2, <1>3, <1>4 DEF PlannerInv, PlansFit

LEMMA FamilyOfRoute ==
  ASSUME NEW r \in Routes
  PROVE  RouteOf[r].family \in Families
BY DEF Families

LEMMA PlannerStep ==
  ASSUME PlannerInv, [PlannerNext]_planVars
  PROVE  PlannerInv'
<1>1. /\ cooling \in SUBSET (Routes \X Protocols)
      /\ sticky \in [Sessions \X DOMAIN Names -> Routes \cup {NoRoute}]
      /\ strayed \in SUBSET (Sessions \X DOMAIN Names)
      /\ families \in [Sessions -> SUBSET Families]
      /\ headroom \in [Metered -> 0..2]
      /\ plans \in [Inflight -> UnderPlan \cup {NoPlan}]
  BY DEF PlannerInv, PlannerTypeOK
<1>2. ASSUME NEW i \in Inflight, plans[i] # NoPlan
      PROVE  /\ plans[i] \in UnderPlan /\ plans[i].session \in Sessions /\ plans[i].name \in DOMAIN Names
             /\ plans[i].shape \in Shapes /\ plans[i].left \in Seq(Routes) /\ plans[i].left # <<>>
             /\ Head(plans[i].left) \in Routes
             /\ \A r \in ToSet(plans[i].left) : Qualifies(plans[i].name, r, plans[i].shape)
  <2>1. plans[i] \in UnderPlan
    BY <1>1, <1>2
  <2>2. /\ plans[i].session \in Sessions /\ plans[i].name \in DOMAIN Names
        /\ plans[i].shape \in Shapes /\ plans[i].left \in Seq(Routes) /\ plans[i].left # <<>>
    BY <2>1, UnderPlanIsPlan
  <2>3. Head(plans[i].left) \in Routes
    BY <2>2
  <2> QED  BY <1>2, <2>1, <2>2, <2>3 DEF PlannerInv, PlansFit
<1>3. ASSUME UNCHANGED plans, PlannerTypeOK'
      PROVE  PlannerInv'
  <2>1. PlansFit'
    BY <1>3 DEF PlannerInv, PlansFit, Qualifies, Speaks, Able, Supports, Translated
  <2> QED  BY <1>3, <2>1 DEF PlannerInv
<1>4. ASSUME NEW i \in Inflight, NEW s \in Sessions, NEW n \in DOMAIN Names, NEW q \in Shapes, Ask(i, s, n, q)
      PROVE  PlannerInv'
  <2> DEFINE left == Plan(s, n, q)
             p == [session |-> s, name |-> n, shape |-> q, left |-> left]
  <2>1. left \in Seq(Routes) \ {<<>>} /\ \A r \in ToSet(left) : Qualifies(n, r, q)
    BY <1>4, PlanFits DEF Ask
  <2>2. plans' = [plans EXCEPT ![i] = p] /\ UNCHANGED <<cooling, sticky, families, headroom, strayed>>
    BY <1>4 DEF Ask
  <2> HIDE DEF left
  <2>3. p \in UnderPlan /\ p.left = left /\ p.shape = q /\ p.name = n
    BY <2>1 DEF UnderPlan
  <2> HIDE DEF p
  <2> QED  BY <1>1, <2>1, <2>2, <2>3, PlanShrinks
<1>5. ASSUME NEW i \in Inflight, CandidateFails(i) \/ PoolFails(i)
      PROVE  PlannerInv'
  <2> DEFINE was == plans[i]
             short == [was EXCEPT !.left = Tail(@)]
             p == IF Len(was.left) = 1 THEN NoPlan ELSE short
  <2>1. was \in UnderPlan /\ \A r \in ToSet(was.left) : Qualifies(was.name, r, was.shape)
    BY <1>2, <1>5 DEF CandidateFails, PoolFails, GoesOn
  <2>2. was.left \in Seq(Routes) /\ was.left # <<>> /\ Head(was.left) \in Routes /\ was.shape \in Shapes
    BY <1>2, <1>5 DEF CandidateFails, PoolFails, GoesOn
  <2>3. plans' = [plans EXCEPT ![i] = p]
    BY <1>5 DEF CandidateFails, PoolFails, GoesOn
  <2>4. (cooling' = cooling \cup {<<Head(was.left), was.shape.protocol>>} \/ cooling' = cooling)
        /\ UNCHANGED <<sticky, families, headroom, strayed>>
    BY <1>5 DEF CandidateFails, PoolFails, GoesOn
  <2> HIDE DEF was
  <2>5. cooling' \in SUBSET (Routes \X Protocols)
    BY <1>1, <2>2, <2>4 DEF Protocols
  <2>6. /\ Tail(was.left) \in Seq(Routes) /\ (Len(was.left) # 1 => Tail(was.left) # <<>>)
        /\ ToSet(Tail(was.left)) \subseteq ToSet(was.left)
    <3> DEFINE t == Tail(was.left)
               N == Len(was.left)
    <3>1. /\ t \in Seq(Routes) /\ N \in Nat /\ N > 0 /\ DOMAIN t = 1..(N - 1) /\ DOMAIN was.left = 1..N
          /\ Len(t) = N - 1 /\ \A k \in 1..(N - 1) : t[k] = was.left[k + 1]
      BY <2>2
    <3> HIDE DEF t, N
    <3>2. \A k \in 1..(N - 1) : k + 1 \in 1..N
      BY <3>1
    <3>3. ToSet(t) \subseteq ToSet(was.left)
      BY <3>1, <3>2 DEF ToSet
    <3>4. N # 1 => t # <<>>
      BY <3>1
    <3> QED  BY <3>1, <3>3, <3>4 DEF t, N
  <2>7. Len(was.left) # 1 => short \in UnderPlan /\ short.left = Tail(was.left) /\ short.shape = was.shape /\ short.name = was.name
    BY <2>1, <2>6 DEF UnderPlan
  <2> HIDE DEF short
  <2>8. p \in UnderPlan \cup {NoPlan} /\ (p # NoPlan => \A r \in ToSet(p.left) : Qualifies(p.name, r, p.shape))
    BY <2>1, <2>6, <2>7
  <2> HIDE DEF p
  <2> QED  BY <1>1, <2>3, <2>4, <2>5, <2>8, PlanShrinks
<1>6. ASSUME NEW i \in Inflight, Ends(i)
      PROVE  PlannerInv'
  <2>1. plans' = [plans EXCEPT ![i] = NoPlan] /\ UNCHANGED <<cooling, sticky, families, headroom, strayed>>
    BY <1>6 DEF Ends
  <2> QED  BY <1>1, <2>1, PlanShrinks
<1>7. ASSUME NEW i \in Inflight, Serves(i)
      PROVE  PlannerInv'
  <2> DEFINE was == plans[i]
             r == Head(was.left)
             x == <<was.session, was.name>>
  <2>1. was \in UnderPlan /\ was.session \in Sessions /\ was.name \in DOMAIN Names /\ r \in Routes
    BY <1>2, <1>7 DEF Serves
  <2>2. plans' = [plans EXCEPT ![i] = NoPlan] /\ UNCHANGED <<cooling, headroom>>
    BY <1>7 DEF Serves
  <2>3. sticky' = [sticky EXCEPT ![x] = r] \/ sticky' = sticky
    BY <1>7 DEF Serves
  <2>4. families' = [families EXCEPT ![was.session] = @ \cup {RouteOf[r].family}] \/ families' = families
    BY <1>7 DEF Serves
  <2>5. strayed' = strayed \/ strayed' = strayed \cup {x} \/ strayed' = strayed \ {x}
    BY <1>7 DEF Serves
  <2> HIDE DEF was, r
  <2>6. RouteOf[r].family \in Families
    BY <2>1, FamilyOfRoute
  <2>7. families' \in [Sessions -> SUBSET Families]
    BY <1>1, <2>1, <2>4, <2>6
  <2>8. x \in Sessions \X DOMAIN Names
    BY <2>1
  <2> HIDE DEF x
  <2>9. sticky' \in [Sessions \X DOMAIN Names -> Routes \cup {NoRoute}] /\ strayed' \in SUBSET (Sessions \X DOMAIN Names)
    BY <1>1, <2>1, <2>3, <2>5, <2>8
  <2> QED  BY <1>1, <2>2, <2>7, <2>9, PlanShrinks
<1>8. CASE CooldownEnds
  BY <1>1, <1>3, <1>8 DEF CooldownEnds, PlannerTypeOK
<1>9. ASSUME NEW s \in Sessions, Forgets(s)
      PROVE  PlannerInv'
  <2>1. sticky' \in [Sessions \X DOMAIN Names -> Routes \cup {NoRoute}] /\ families' \in [Sessions -> SUBSET Families]
        /\ strayed' \subseteq strayed
    BY <1>1, <1>9 DEF Forgets
  <2>2. UNCHANGED <<cooling, headroom, plans>>
    BY <1>9 DEF Forgets
  <2>3. PlannerTypeOK'
    BY <1>1, <2>1, <2>2 DEF PlannerTypeOK
  <2> QED  BY <1>3, <2>2, <2>3
<1>10. CASE QuotaObserved
  BY <1>1, <1>3, <1>10 DEF QuotaObserved, PlannerTypeOK
<1>11. CASE UNCHANGED planVars
  BY <1>1, <1>3, <1>11 DEF planVars, PlannerTypeOK
<1> QED  BY <1>4, <1>5, <1>6, <1>7, <1>8, <1>9, <1>10, <1>11 DEF PlannerNext

LEMMA PlannerStart == PlannerInit => PlannerInv
<1> SUFFICES ASSUME PlannerInit PROVE PlannerInv
  OBVIOUS
<1>1. \A i \in Inflight : plans[i] = NoPlan
  BY DEF PlannerInit
<1>2. PlansFit
  BY <1>1 DEF PlansFit
<1>3. PlannerTypeOK
  BY DEF PlannerInit, PlannerTypeOK
<1> QED  BY <1>2, <1>3 DEF PlannerInv

LEMMA PlannerInvariant == PlannerSpec => []PlannerInv
BY PlannerStart, PlannerStep, PTL DEF PlannerSpec

\* The planner's state is what the executor and the dashboard take it for: a
\* request under way has candidates left, of configured routes, and a route is
\* remembered only for a session and a name that exist.
THEOREM PlannerTypes == PlannerSpec => []PlannerTypeOK
BY PlannerInvariant, PTL DEF PlannerInv

\* No request of a profile, a role or a catalog model, and no translated one, is
\* tried on a route that cannot carry it, whatever was added to its plan: the
\* route of class routing, the session's own, the fallback of a role
\* (candidateSupports).  A direct model of Zen or Cline that is not translated,
\* and a specialist, are tried on a route that takes the protocol, and no more
\* was asked of it (buildRoutePlan:300-338 and 197-204).
THEOREM PlansReachAbleRoutes == PlannerSpec => []PlansFit
BY PlannerInvariant, PTL DEF PlannerInv

\* A plan is made by Ask alone.
LEMMA PlanMade ==
  ASSUME PlannerInv, PlannerNext, NEW i \in Inflight, plans[i] = NoPlan, plans'[i] # NoPlan
  PROVE  \E s \in Sessions, n \in DOMAIN Names, q \in Shapes : Ask(i, s, n, q)
<1>1. plans \in [Inflight -> UnderPlan \cup {NoPlan}]
  BY DEF PlannerInv, PlannerTypeOK
<1>2. ASSUME NEW j \in Inflight, Ends(j) \/ Serves(j)
      PROVE  FALSE
  BY <1>1, <1>2 DEF Ends, Serves
<1>3. ASSUME NEW j \in Inflight, CandidateFails(j) \/ PoolFails(j)
      PROVE  FALSE
  <2>1. j # i /\ plans'[i] = plans[i]
    BY <1>1, <1>3 DEF CandidateFails, PoolFails, GoesOn
  <2> QED  BY <2>1
<1>4. ASSUME NEW j \in Inflight, NEW s \in Sessions, NEW n \in DOMAIN Names, NEW q \in Shapes, Ask(j, s, n, q)
      PROVE  Ask(i, s, n, q)
  <2>1. j = i
    BY <1>1, <1>4 DEF Ask
  <2> QED  BY <1>4, <2>1
<1>5. ~CooldownEnds /\ ~QuotaObserved /\ ~(\E s \in Sessions : Forgets(s))
  BY DEF CooldownEnds, QuotaObserved, Forgets
<1> QED  BY <1>2, <1>3, <1>4, <1>5 DEF PlannerNext

\* A turn of the session's own goes first to the route that last served it
\* (reorderByAffinity before the cut to max_attempts), for any number of
\* requests of any number of sessions, and whatever quotas and cooldowns did
\* between two turns.
THEOREM SessionsReturn == PlannerSpec => SessionKeepsItsRoute
<1> DEFINE Kept == \A i \in Inflight : (plans[i] = NoPlan /\ plans'[i] # NoPlan) =>
                     LET p == plans'[i]
                         r == sticky[<<p.session, p.name>>]
                     IN  (Names[p.name].kind = "profile" /\ ~p.shape.delegated /\ r \in ToSet(Usable(p.name, p.shape)))
                             => Head(p.left) = r
<1>1. ASSUME PlannerInv, [PlannerNext]_planVars
      PROVE  [Kept]_planVars
  <2>1. CASE UNCHANGED planVars
    BY <2>1
  <2>2. CASE PlannerNext
    <3> SUFFICES ASSUME NEW i \in Inflight, plans[i] = NoPlan, plans'[i] # NoPlan,
                        Names[plans'[i].name].kind = "profile", ~plans'[i].shape.delegated,
                        sticky[<<plans'[i].session, plans'[i].name>>] \in ToSet(Usable(plans'[i].name, plans'[i].shape))
                 PROVE  Head(plans'[i].left) = sticky[<<plans'[i].session, plans'[i].name>>]
      BY <2>2 DEF Kept
    <3>1. PICK s \in Sessions, n \in DOMAIN Names, q \in Shapes : Ask(i, s, n, q)
      BY <1>1, <2>2, PlanMade
    <3> DEFINE left == Plan(s, n, q)
    <3>2. plans' = [plans EXCEPT ![i] = [session |-> s, name |-> n, shape |-> q, left |-> left]]
      BY <3>1 DEF Ask
    <3> HIDE DEF left
    <3>3. plans'[i] = [session |-> s, name |-> n, shape |-> q, left |-> left]
      BY <1>1, <3>2 DEF PlannerInv, PlannerTypeOK
    <3>4. plans'[i].session = s /\ plans'[i].name = n /\ plans'[i].shape = q /\ plans'[i].left = left
      BY <3>3
    <3>5. Names[n].kind = "profile" /\ ~q.delegated /\ sticky[<<s, n>>] \in ToSet(Usable(n, q))
      BY <3>4
    <3>6. left = Ordered(s, n, Usable(n, q))
      BY <3>5, ProfilePlanFits DEF left, Plan
    <3>7. Usable(n, q) \in Seq(Routes)
      BY UsableElements
    <3>8. Head(left) = sticky[<<s, n>>]
      BY <3>5, <3>6, <3>7, OrderedElements
    <3> QED  BY <3>4, <3>8
  <2> QED  BY <1>1, <2>1, <2>2
<1> QED  BY <1>1, PlannerInvariant, PTL DEF PlannerSpec, SessionKeepsItsRoute

\* The rotation of families loses no turn: a role with an open candidate, its
\* own or its fallback's, has a plan, which begins with an unseen family when
\* there is one and with a candidate of the role when it has any open.
THEOREM RolesRotate == PlannerSpec => []RolesRotateFamilies
<1>1. RolesRotateFamilies
  <2> SUFFICES ASSUME NEW s \in Sessions, NEW n \in DOMAIN Names, NEW q \in Shapes, Names[n].kind = "role"
               PROVE  LET own == ToSet(Usable(n, q))
                          unseen == {r \in own : RouteOf[r].family \notin families[s]}
                          chosen == Plan(s, n, q)
                      IN  /\ own \cup ToSet(Usable(Names[n].fallback, q)) # {} => chosen # <<>>
                          /\ Names[n].rotates /\ unseen # {} => Head(chosen) \in unseen
                          /\ own # {} => Head(chosen) \in own
    BY DEF RolesRotateFamilies
  <2> DEFINE f == Names[n].fallback
             usable == Usable(n, q)
             unseen == {r \in ToSet(usable) : RouteOf[r].family \notin families[s]}
             diverse == Diverse(s, n, q)
             plan == RolePlan(s, n, q)
  <2>1. Plan(s, n, q) = plan
    BY DEF Plan
  <2>2. /\ usable # <<>> => plan # <<>> /\ Head(plan) \in ToSet(diverse)
        /\ Usable(f, q) # <<>> => plan # <<>>
    BY RolePlanFits
  <2>3. /\ ToSet(diverse) \subseteq ToSet(usable)
        /\ Names[n].rotates /\ unseen # {} => ToSet(diverse) = unseen
    BY DiverseElements
  <2>4. f \in DOMAIN Names
    BY PlannerAssumption
  <2>5. usable = <<>> <=> ToSet(usable) = {}
    BY UsableElements, HeadElement
  <2>6. Usable(f, q) = <<>> <=> ToSet(Usable(f, q)) = {}
    BY <2>4, UsableElements, HeadElement
  <2>7. unseen # {} => ToSet(usable) # {}
    OBVIOUS
  <2> HIDE DEF plan, diverse
  <2>8. ToSet(usable) \cup ToSet(Usable(f, q)) # {} => plan # <<>>
    BY <2>2, <2>5, <2>6
  <2>9. Names[n].rotates /\ unseen # {} => Head(plan) \in unseen
    BY <2>2, <2>3, <2>5, <2>7
  <2>10. ToSet(usable) # {} => Head(plan) \in ToSet(usable)
    BY <2>2, <2>3, <2>5
  <2> QED  BY <2>1, <2>8, <2>9, <2>10
<1> QED  BY <1>1, PTL

-----------------------------------------------------------------------------
(* Plans in order of score                                                 *)

\* The pairs of elements that a sequence lists one before the other, up to a
\* position.
Listed(seq, n) == {p \in ToSet(seq) \X ToSet(seq) : \E i, j \in 1..n : i < j /\ p = <<seq[i], seq[j]>>}

\* The pairs of routes of which the first scores more, or as much and is
\* listed before the other.
Better(listed) ==
  {p \in Routes \X Routes : Score(p[1]) > Score(p[2]) \/ (Score(p[1]) = Score(p[2]) /\ p \in listed)}

\* Two routes stand in this order, unless the first may go before any.
Falls(seq, set, order) ==
  \A a, b \in DOMAIN seq : a < b => seq[a] \in set \/ <<seq[a], seq[b]>> \in order

\* What is left out comes after what is kept, unless that may go before any.
KeepsBest(kept, all, set, order) ==
  \A e \in ToSet(kept), x \in all \ ToSet(kept) : e \in set \/ <<e, x>> \in order

\* A set of positions that holds those before each of its own is an interval.
LEMMA FirstPositions ==
  ASSUME NEW N \in Nat, NEW S \in SUBSET (1..N),
         \A a \in S : \A b \in 1..N : b < a => b \in S
  PROVE  Cardinality(S) \in 0..N /\ S = 1..Cardinality(S)
<1> DEFINE Past == {k \in Nat : k > 0 /\ k \notin S}
<1>1. Past # {}
  <2>1. N + 1 \in Nat /\ N + 1 > 0 /\ N + 1 \notin S
    OBVIOUS
  <2> QED  BY <2>1
<1>2. PICK m \in Past : \A b \in Past : m <= b
  <2>1. Past \in SUBSET Nat
    OBVIOUS
  <2> HIDE DEF Past
  <2> QED  BY <1>1, <2>1, LeastNumber
<1>3. m \in Nat /\ m > 0 /\ m \notin S /\ \A b \in Nat : b > 0 /\ b < m => b \in S
  <2>1. ASSUME NEW b \in Nat, b > 0, b < m
        PROVE  b \in S
    <3>1. ~(m <= b)
      BY <1>2, <2>1
    <3> QED  BY <1>2, <2>1, <3>1
  <2> QED  BY <1>2, <2>1
<1>4. ASSUME NEW a \in S
      PROVE  a < m
  <2>1. m < a => m \in S
    BY <1>3
  <2> QED  BY <1>3, <2>1
<1>5. S = 1..(m - 1) /\ m - 1 \in 0..N
  <2>1. ASSUME NEW a \in 1..(m - 1) PROVE a \in S
    BY <1>3
  <2>2. ASSUME NEW a \in S PROVE a \in 1..(m - 1)
    BY <1>3, <1>4
  <2>3. CASE m = 1
    <3>1. m - 1 = 0 /\ 1..0 = {} /\ 0 \in 0..N
      BY <2>3
    <3>2. 1..(m - 1) = {}
      BY <3>1
    <3>3. S = {}
      BY <2>2, <3>2
    <3>4. m - 1 \in 0..N
      BY <3>1
    <3> QED  BY <3>2, <3>3, <3>4
  <2>4. CASE m > 1
    <3>1. m - 1 \in S
      BY <1>3, <2>4
    <3>2. m - 1 \in 1..N /\ m - 1 \in 0..N
      BY <3>1
    <3>3. S = 1..(m - 1)
      BY <2>1, <2>2
    <3> QED  BY <3>2, <3>3
  <2> QED  BY <1>3, <2>3, <2>4
<1>6. Cardinality(1..(m - 1)) = m - 1
  BY <1>3, FS_Interval
<1> QED  BY <1>5, <1>6

LEMMA LengthOfDomain ==
  ASSUME NEW X, NEW s \in Seq(X), NEW n \in Nat, DOMAIN s = 1..n
  PROVE  Len(s) = n
<1>1. Len(s) \in Nat /\ 1..Len(s) = 1..n
  OBVIOUS
<1>2. ASSUME Len(s) < n PROVE FALSE
  BY <1>1, <1>2
<1>3. ASSUME n < Len(s) PROVE FALSE
  BY <1>1, <1>3
<1> QED  BY <1>1, <1>2, <1>3

Joins(u, s, t) ==
  /\ Len(u) = Len(s) + Len(t)
  /\ \A i \in 1..Len(s) : u[i] = s[i]
  /\ \A i \in 1..Len(t) : u[i + Len(s)] = t[i]

LEMMA JoinedPositions ==
  ASSUME NEW X, NEW s \in Seq(X), NEW t \in Seq(X)
  PROVE  s \o t \in Seq(X) /\ Joins(s \o t, s, t)
<1>1. s \o t \in Seq(X) /\ Len(s \o t) = Len(s) + Len(t)
  OBVIOUS
<1>2. \A i \in 1..Len(s) : (s \o t)[i] = s[i]
  OBVIOUS
<1>3. \A i \in 1..Len(t) : (s \o t)[i + Len(s)] = t[i]
  OBVIOUS
<1> QED  BY <1>1, <1>2, <1>3 DEF Joins

\* A route that is ranked goes behind those that score as much: when they are
\* listed before it the order stays.
LEMMA RankedFalls ==
  ASSUME PlannerTypeOK, NEW seq \in Seq(Routes), NEW r \in Routes,
         NEW listed, NEW longer, listed \subseteq longer,
         Falls(seq, {}, Better(listed)), \A x \in ToSet(seq) : <<x, r>> \in longer
  PROVE  Falls(Ranked(seq, r), {}, Better(longer))
<1> DEFINE N == Len(seq)
           above == {i \in DOMAIN seq : Score(seq[i]) >= Score(r)}
           k == Cardinality(above)
           t == Ranked(seq, r)
<1>1. N \in Nat /\ DOMAIN seq = 1..N /\ \A i \in 1..N : seq[i] \in Routes
  OBVIOUS
<1>2. Score(r) \in Nat /\ \A i \in 1..N : Score(seq[i]) \in Nat
  BY <1>1, ScoreNatural
<1>3. k \in 0..N /\ above = 1..k
  <2>1. above \in SUBSET (1..N)
    BY <1>1
  <2>2. ASSUME NEW a \in above, NEW b \in 1..N, b < a
        PROVE  b \in above
    <3>1. a \in 1..N /\ Score(seq[a]) >= Score(r)
      BY <1>1
    <3>2. Score(seq[b]) >= Score(seq[a])
      <4>1. <<seq[b], seq[a]>> \in Better(listed)
        BY <1>1, <2>2, <3>1 DEF Falls
      <4> QED  BY <1>1, <1>2, <3>1, <4>1 DEF Better
    <3>3. Score(seq[b]) >= Score(r)
      BY <1>2, <3>1, <3>2
    <3> QED  BY <1>1, <3>3
  <2> HIDE DEF above
  <2> QED  BY <1>1, <2>1, <2>2, FirstPositions
<1>4. \A i \in 1..N : (i <= k) <=> (Score(seq[i]) >= Score(r))
  <2>1. \A i \in 1..N : i \in above <=> i <= k
    <3> HIDE DEF above, k
    <3> QED  BY <1>1, <1>3
  <2> HIDE DEF k
  <2> QED  BY <1>1, <2>1
<1>5. t = (SubSeq(seq, 1, k) \o <<r>>) \o SubSeq(seq, k + 1, N)
  BY DEF Ranked
<1> HIDE DEF above, k
<1>6. /\ DOMAIN t = 1..(N + 1)
      /\ \A i \in 1..(N + 1) : t[i] = IF i <= k THEN seq[i] ELSE IF i = k + 1 THEN r ELSE seq[i - 1]
  <2> DEFINE left == SubSeq(seq, 1, k)
             single == <<r>>
             front == left \o single
             right == SubSeq(seq, k + 1, N)
  <2>1. /\ left \in Seq(Routes) /\ right \in Seq(Routes) /\ Len(left) = k /\ Len(right) = N - k
        /\ \A i \in 1..k : left[i] = seq[i]
        /\ \A i \in 1..(N - k) : right[i] = seq[i + k]
    <3>1. left \in Seq(Routes) /\ Len(left) = k /\ \A i \in 1..k : left[i] = seq[i]
      BY <1>1, <1>3
    <3>2. right \in Seq(Routes) /\ Len(right) = N - k
      <4>1. right \in Seq(Routes) /\ DOMAIN right = 1..(N - k) /\ N - k \in Nat
        BY <1>1, <1>3
      <4> HIDE DEF right, N
      <4> QED  BY <4>1, LengthOfDomain
    <3>3. \A i \in 1..(N - k) : right[i] = seq[i + k]
      BY <1>1, <1>3
    <3> QED  BY <3>1, <3>2, <3>3
  <2>2. single \in Seq(Routes) /\ Len(single) = 1 /\ single[1] = r
    OBVIOUS
  <2> HIDE DEF left, right, single
  <2>3. /\ front \in Seq(Routes) /\ Len(front) = k + 1
        /\ \A i \in 1..k : front[i] = left[i]
        /\ front[k + 1] = r
    <3>1. front \in Seq(Routes) /\ Joins(front, left, single)
      BY <2>1, <2>2, JoinedPositions
    <3>2. k \in Nat /\ 1 \in 1..1 /\ 1 + k = k + 1
      BY <1>1, <1>3
    <3> HIDE DEF front
    <3> QED  BY <2>1, <2>2, <3>1, <3>2 DEF Joins
  <2> HIDE DEF front
  <2> DEFINE u == front \o right
  <2>4. /\ DOMAIN u = 1..(N + 1)
        /\ \A i \in 1..(k + 1) : u[i] = front[i]
        /\ \A i \in 1..(N + 1) : i > k + 1 => u[i] = right[i - (k + 1)]
    BY <1>1, <1>3, <2>1, <2>3
  <2>5. t = u
    BY <1>5 DEF front, left, right, single
  <2> HIDE DEF u
  <2>6. ASSUME NEW i \in 1..(N + 1)
        PROVE  u[i] = IF i <= k THEN seq[i] ELSE IF i = k + 1 THEN r ELSE seq[i - 1]
    <3>1. CASE i <= k
      <4>1. i \in 1..k /\ i \in 1..(k + 1)
        BY <1>1, <1>3, <3>1
      <4> QED  BY <2>1, <2>3, <2>4, <3>1, <4>1
    <3>2. CASE i = k + 1
      <4>1. i \in 1..(k + 1) /\ ~(i <= k)
        BY <1>1, <1>3, <3>2
      <4> QED  BY <2>3, <2>4, <3>2, <4>1
    <3>3. CASE i > k + 1
      <4>1. i - (k + 1) \in 1..(N - k) /\ (i - (k + 1)) + k = i - 1 /\ ~(i <= k) /\ i # k + 1
        BY <1>1, <1>3, <3>3
      <4> QED  BY <2>1, <2>4, <3>3, <4>1
    <3> QED  BY <1>3, <3>1, <3>2, <3>3
  <2> HIDE DEF t
  <2> QED  BY <2>4, <2>5, <2>6
<1> HIDE DEF t, N
<1>7. ASSUME NEW a \in 1..(N + 1), NEW b \in 1..(N + 1), a < b
      PROVE  <<t[a], t[b]>> \in Better(longer)
  <2>1. k \in Nat /\ k <= N
    BY <1>1, <1>3
  <2>2. \A i, j \in 1..N : i < j => <<seq[i], seq[j]>> \in Better(longer)
    BY <1>1 DEF Falls, Better
  <2>3. CASE b <= k
    <3>1. a <= k /\ a \in 1..N /\ b \in 1..N
      BY <1>1, <1>7, <2>1, <2>3
    <3>2. t[a] = seq[a] /\ t[b] = seq[b]
      BY <1>6, <2>3, <3>1
    <3> QED  BY <1>7, <2>2, <3>1, <3>2
  <2>4. CASE b = k + 1
    <3>1. a <= k /\ a \in 1..N /\ ~(b <= k)
      BY <1>1, <1>7, <2>1, <2>4
    <3>2. t[a] = seq[a] /\ t[b] = r
      BY <1>6, <2>4, <3>1
    <3>3. Score(seq[a]) >= Score(r) /\ <<seq[a], r>> \in longer /\ seq[a] \in Routes
      BY <1>1, <1>4, <3>1 DEF ToSet
    <3> QED  BY <1>2, <3>1, <3>2, <3>3 DEF Better
  <2>5. CASE b > k + 1
    <3>1. b - 1 \in 1..N /\ ~(b <= k) /\ b # k + 1 /\ ~(b - 1 <= k)
      BY <1>1, <1>7, <2>1, <2>5
    <3>2. t[b] = seq[b - 1]
      BY <1>6, <3>1
    <3>3. <<r, seq[b - 1]>> \in Better(longer)
      <4>1. Score(r) > Score(seq[b - 1]) /\ seq[b - 1] \in Routes
        BY <1>1, <1>2, <1>4, <3>1
      <4> QED  BY <4>1 DEF Better
    <3>4. CASE a <= k
      <4>1. a \in 1..N /\ a < b - 1
        BY <1>1, <1>7, <2>1, <2>5, <3>4
      <4>2. t[a] = seq[a]
        BY <1>6, <3>4
      <4> QED  BY <2>2, <3>1, <3>2, <4>1, <4>2
    <3>5. CASE a = k + 1
      <4>1. ~(a <= k)
        BY <2>1, <3>5
      <4>2. t[a] = r
        BY <1>6, <3>5, <4>1
      <4> QED  BY <3>2, <3>3, <4>2
    <3>6. CASE a > k + 1
      <4>1. a - 1 \in 1..N /\ a - 1 < b - 1 /\ ~(a <= k) /\ a # k + 1
        BY <1>1, <1>7, <2>1, <3>6
      <4>2. t[a] = seq[a - 1]
        BY <1>6, <4>1
      <4> QED  BY <2>2, <3>1, <3>2, <4>1, <4>2
    <3> QED  BY <2>1, <3>4, <3>5, <3>6
  <2> QED  BY <2>1, <2>3, <2>4, <2>5
<1>8. Falls(t, {}, Better(longer))
  BY <1>6, <1>7 DEF Falls
<1> QED  BY <1>8 DEF t

\* Sorting by quota puts the candidates in order of score, and those of equal
\* score in the order in which they came.
LEMMA QuotaFalls ==
  ASSUME PlannerTypeOK, NEW seq \in Seq(Routes)
  PROVE  Falls(ByQuota(seq), {}, Better(Listed(seq, Len(seq))))
<1> DEFINE N == Len(seq)
<1>1. PICK f : Sorting(f, seq) /\ ByQuota(seq) = f[N]
  BY QuotaSorts
<1>2. /\ f \in [0..N -> Seq(Routes)] /\ f[0] = <<>>
      /\ \A k \in 1..N : f[k] = Ranked(f[k - 1], seq[k])
  BY <1>1 DEF Sorting
<1> DEFINE Upto(k) == {seq[i] : i \in 1..k}
           T == {k \in 0..N : Falls(f[k], {}, Better(Listed(seq, k))) /\ ToSet(f[k]) = Upto(k)}
<1>3. N \in Nat /\ DOMAIN seq = 1..N /\ \A k \in 1..N : seq[k] \in Routes
  OBVIOUS
<1> HIDE DEF N
<1>4. 0 \in T
  <2>1. 1..0 = {} /\ DOMAIN <<>> = {} /\ ToSet(<<>>) = {}
    BY DEF ToSet
  <2>2. Upto(0) = {}
    BY <2>1
  <2>3. ToSet(f[0]) = {} /\ Falls(f[0], {}, Better(Listed(seq, 0))) /\ 0 \in 0..N
    BY <1>2, <1>3, <2>1 DEF Falls
  <2> HIDE DEF Upto
  <2> QED  BY <2>2, <2>3
<1>5. ASSUME NEW k \in 0..(N - 1), k \in T
      PROVE  k + 1 \in T
  <2>1. k + 1 \in 1..N /\ k + 1 \in 0..N /\ k \in 0..N /\ (k + 1) - 1 = k /\ 1..(k + 1) = 1..k \cup {k + 1}
    BY <1>3
  <2> DEFINE x == seq[k + 1]
             listed == Listed(seq, k)
             longer == Listed(seq, k + 1)
  <2>2. f[k] \in Seq(Routes) /\ Falls(f[k], {}, Better(listed)) /\ ToSet(f[k]) = Upto(k) /\ x \in Routes
    BY <1>2, <1>3, <1>5, <2>1
  <2>3. f[k + 1] = Ranked(f[k], x)
    BY <1>2, <2>1
  <2>4. Upto(k + 1) = Upto(k) \cup {x}
    BY <2>1
  <2>5. listed \subseteq longer
    BY <2>1 DEF Listed
  <2>6. \A e \in Upto(k) : <<e, x>> \in longer
    <3>1. ASSUME NEW i \in 1..k
          PROVE  <<seq[i], x>> \in longer
      <4>1. i \in 1..N /\ i \in 1..(k + 1) /\ k + 1 \in 1..(k + 1) /\ i < k + 1
        BY <1>3
      <4>2. seq[i] \in ToSet(seq) /\ x \in ToSet(seq)
        BY <1>3, <2>1, <4>1 DEF ToSet
      <4> QED  BY <4>1, <4>2 DEF Listed
    <3> QED  BY <3>1
  <2> HIDE DEF Upto, x, listed, longer
  <2>7. Falls(f[k + 1], {}, Better(longer))
    <3>1. \A e \in ToSet(f[k]) : <<e, x>> \in longer
      BY <2>2, <2>6
    <3> QED  BY <2>2, <2>3, <2>5, <3>1, RankedFalls
  <2>8. ToSet(f[k + 1]) = Upto(k + 1)
    BY <2>2, <2>3, <2>4, RankedElements
  <2> QED  BY <2>1, <2>7, <2>8 DEF longer
<1>6. \A k \in 0..N : k \in T
  <2> HIDE DEF T
  <2> QED  BY <1>3, <1>4, <1>5, Climb
<1>7. N \in 0..N
  BY <1>3
<1>8. Falls(f[N], {}, Better(Listed(seq, N)))
  <2> HIDE DEF Upto
  <2> QED  BY <1>6, <1>7
<1> QED  BY <1>1, <1>8 DEF N

\* What is kept of candidates in order is in order.
LEMMA OnlyFalls ==
  ASSUME NEW seq \in Seq(Routes), NEW set, NEW free, NEW order, Falls(seq, free, order)
  PROVE  Falls(Only(seq, set), free, order)
<1> DEFINE N == Len(seq)
           Upto(k) == {seq[i] : i \in 1..k}
<1>1. PICK f : /\ f \in [0..N -> Seq(Routes)] /\ f[0] = <<>>
               /\ Only(seq, set) = f[N]
               /\ \A k \in 1..N : f[k] = IF seq[k] \in set THEN Append(f[k - 1], seq[k]) ELSE f[k - 1]
  <2>1. PICK f : Filtering(f, Routes, seq, set) /\ Only(seq, set) = f[Len(seq)]
    BY OnlyFilters
  <2> QED  BY <2>1 DEF Filtering
<1> DEFINE T == {k \in 0..N : Falls(f[k], free, order) /\ ToSet(f[k]) \subseteq Upto(k)}
<1>2. N \in Nat /\ DOMAIN seq = 1..N /\ \A k \in 1..N : seq[k] \in Routes
  OBVIOUS
<1> HIDE DEF N
<1>3. 0 \in T
  BY <1>1, <1>2 DEF Falls, ToSet
<1>4. ASSUME NEW k \in 0..(N - 1), k \in T
      PROVE  k + 1 \in T
  <2>1. k + 1 \in 1..N /\ k + 1 \in 0..N /\ k \in 0..N /\ (k + 1) - 1 = k /\ 1..(k + 1) = 1..k \cup {k + 1}
    BY <1>2
  <2> DEFINE s == f[k]
             x == seq[k + 1]
             t == Append(s, x)
  <2>2. s \in Seq(Routes) /\ Falls(s, free, order) /\ ToSet(s) \subseteq Upto(k) /\ x \in Routes
    BY <1>1, <1>2, <1>4, <2>1
  <2>3. f[k + 1] = IF x \in set THEN t ELSE s
    BY <1>1, <2>1
  <2>4. Upto(k + 1) = Upto(k) \cup {x}
    BY <2>1
  <2>5. \A e \in Upto(k) : e \in free \/ <<e, x>> \in order
    <3>1. ASSUME NEW i \in 1..k
          PROVE  seq[i] \in free \/ <<seq[i], x>> \in order
      <4>1. i \in 1..N /\ i < k + 1
        BY <1>2
      <4> QED  BY <1>2, <2>1, <4>1 DEF Falls
    <3> QED  BY <3>1
  <2> HIDE DEF Upto, s, x
  <2>6. ToSet(t) = ToSet(s) \cup {x}
    BY <2>2, AppendedElements
  <2>7. Falls(t, free, order)
    <3> DEFINE M == Len(s)
    <3>1. M \in Nat /\ DOMAIN s = 1..M /\ DOMAIN t = 1..(M + 1) /\ t[M + 1] = x /\ \A i \in 1..M : t[i] = s[i]
      BY <2>2
    <3> HIDE DEF M, t
    <3>2. ASSUME NEW a \in 1..(M + 1), NEW b \in 1..(M + 1), a < b
          PROVE  t[a] \in free \/ <<t[a], t[b]>> \in order
      <4>1. a \in 1..M /\ t[a] = s[a] /\ s[a] \in Upto(k)
        <5>1. a \in 1..M
          BY <3>1, <3>2
        <5> QED  BY <2>2, <3>1, <5>1 DEF ToSet
      <4>2. CASE b \in 1..M
        BY <2>2, <3>1, <3>2, <4>1, <4>2 DEF Falls
      <4>3. CASE b = M + 1
        BY <2>5, <3>1, <4>1, <4>3
      <4> QED  BY <3>1, <4>2, <4>3
    <3> QED  BY <3>1, <3>2 DEF Falls
  <2> HIDE DEF t
  <2>8. Falls(f[k + 1], free, order) /\ ToSet(f[k + 1]) \subseteq Upto(k + 1)
    BY <2>2, <2>3, <2>4, <2>6, <2>7
  <2> QED  BY <2>1, <2>8
<1>5. \A k \in 0..N : k \in T
  <2> HIDE DEF T
  <2> QED  BY <1>2, <1>3, <1>4, Climb
<1>6. N \in 0..N
  BY <1>2
<1> HIDE DEF Upto
<1> QED  BY <1>1, <1>5, <1>6

\* A route that may go first is put before the others.
LEMMA FrontFalls ==
  ASSUME NEW seq \in Seq(Routes), NEW r \in Routes, NEW free, r \in free, NEW order, Falls(seq, free, order)
  PROVE  Falls(<<r>> \o seq, free, order)
<1> DEFINE N == Len(seq)
           t == <<r>> \o seq
<1>1. /\ N \in Nat /\ DOMAIN seq = 1..N /\ DOMAIN t = 1..(N + 1)
      /\ t[1] = r /\ \A i \in 1..(N + 1) : i > 1 => t[i] = seq[i - 1]
  OBVIOUS
<1> HIDE DEF N, t
<1>2. ASSUME NEW a \in 1..(N + 1), NEW b \in 1..(N + 1), a < b
      PROVE  t[a] \in free \/ <<t[a], t[b]>> \in order
  <2>1. CASE a = 1
    BY <1>1, <2>1
  <2>2. CASE a > 1
    <3>1. a - 1 \in 1..N /\ b - 1 \in 1..N /\ a - 1 < b - 1 /\ b > 1
      BY <1>1, <1>2, <2>2
    <3>2. t[a] = seq[a - 1] /\ t[b] = seq[b - 1]
      BY <1>1, <2>2, <3>1
    <3> QED  BY <1>1, <3>1, <3>2 DEF Falls
  <2> QED  BY <1>1, <2>1, <2>2
<1>3. Falls(t, free, order)
  BY <1>1, <1>2 DEF Falls
<1> QED  BY <1>3 DEF t

\* The cut to max_attempts leaves out the worst.
LEMMA FirstFalls ==
  ASSUME NEW seq \in Seq(Routes), NEW n \in Nat, NEW free, NEW order, Falls(seq, free, order)
  PROVE  Falls(First(seq, n), free, order) /\ KeepsBest(First(seq, n), ToSet(seq), free, order)
<1> DEFINE N == Len(seq)
           m == IF n < N THEN n ELSE N
           t == SubSeq(seq, 1, m)
<1>1. N \in Nat /\ DOMAIN seq = 1..N /\ m \in 0..N /\ First(seq, n) = t
  BY DEF First
<1> HIDE DEF m
<1>2. DOMAIN t = 1..m /\ \A i \in 1..m : t[i] = seq[i] /\ i \in 1..N
  BY <1>1
<1> HIDE DEF t, N
<1>3. Falls(t, free, order)
  BY <1>1, <1>2 DEF Falls
<1>4. ASSUME NEW a \in 1..m, NEW b \in 1..N, seq[b] \notin ToSet(t)
      PROVE  t[a] \in free \/ <<t[a], seq[b]>> \in order
  <2>1. b \notin 1..m
    BY <1>2, <1>4 DEF ToSet
  <2>2. a \in 1..N /\ a < b /\ t[a] = seq[a]
    BY <1>1, <1>2, <2>1
  <2> QED  BY <1>1, <2>2 DEF Falls
<1>5. KeepsBest(t, ToSet(seq), free, order)
  BY <1>1, <1>2, <1>4 DEF KeepsBest, ToSet
<1> QED  BY <1>1, <1>3, <1>5

\* More routes may be excepted, and a wider order asked for.
LEMMA MoreFalls ==
  ASSUME NEW seq, NEW free, NEW more, NEW order, NEW wider, Falls(seq, free, order),
         free \subseteq more, order \subseteq wider
  PROVE  Falls(seq, more, wider)
BY DEF Falls

LEMMA OrderedFalls ==
  ASSUME PlannerTypeOK, NEW s, NEW n \in DOMAIN Names, NEW seq \in Seq(Routes)
  PROVE  /\ Falls(Ordered(s, n, seq), {sticky[<<s, n>>]}, Better(Listed(seq, Len(seq))))
         /\ KeepsBest(Ordered(s, n, seq), ToSet(seq), {sticky[<<s, n>>]}, Better(Listed(seq, Len(seq))))
<1> DEFINE r == sticky[<<s, n>>]
           sorted == ByQuota(seq)
           moved == ByAffinity(sorted, r)
           rest == Only(sorted, Routes \ {r})
           order == Better(Listed(seq, Len(seq)))
<1>1. sorted \in Seq(Routes) /\ ToSet(sorted) = ToSet(seq) /\ Falls(sorted, {r}, order)
  <2>1. Falls(sorted, {}, order)
    BY QuotaFalls
  <2>2. sorted \in Seq(Routes) /\ ToSet(sorted) = ToSet(seq)
    BY QuotaElements
  <2> HIDE DEF sorted, r, order
  <2> QED  BY <2>1, <2>2, MoreFalls
<1>2. Names[n].attempts \in Nat
  BY NameFacts
<1>3. Ordered(s, n, seq) = First(moved, Names[n].attempts)
  BY DEF Ordered
<1>4. moved = IF r \in ToSet(sorted) THEN <<r>> \o rest ELSE sorted
  BY DEF ByAffinity
<1> HIDE DEF sorted, r, order
<1>0. ToSet(moved) = ToSet(sorted)
  BY <1>1, AffinityElements
<1> HIDE DEF moved
<1>5. rest \in Seq(Routes)
  BY <1>1, OnlySelects
<1>6. Falls(rest, {r}, order)
  BY <1>1, OnlyFalls
<1>7. r \in ToSet(sorted) => r \in Routes
  BY <1>1, HeadElement
<1> HIDE DEF rest
<1>8. moved \in Seq(Routes) /\ Falls(moved, {r}, order)
  <2>1. CASE r \in ToSet(sorted)
    <3>1. <<r>> \o rest \in Seq(Routes)
      BY <1>5, <1>7, <2>1
    <3>2. Falls(<<r>> \o rest, {r}, order)
      BY <1>5, <1>6, <1>7, <2>1, FrontFalls
    <3> QED  BY <1>4, <2>1, <3>1, <3>2
  <2>2. CASE r \notin ToSet(sorted)
    BY <1>1, <1>4, <2>2
  <2> QED  BY <2>1, <2>2
<1>9. /\ Falls(First(moved, Names[n].attempts), {r}, order)
      /\ KeepsBest(First(moved, Names[n].attempts), ToSet(moved), {r}, order)
  BY <1>2, <1>8, FirstFalls
<1> QED  BY <1>0, <1>1, <1>3, <1>9 DEF r, order

\* The order of a name's candidates: by score, equals as they are configured.
Configured(n) == Better(Listed(Names[n].candidates, Len(Names[n].candidates)))

\* The open candidates come in the order of all.
LEMMA UsableListed ==
  ASSUME NEW n \in DOMAIN Names, NEW q
  PROVE  Better(Listed(Usable(n, q), Len(Usable(n, q)))) \subseteq Configured(n)
<1> DEFINE all == Names[n].candidates
           open == {r \in Routes : Callable(r, q)}
           usable == Only(all, open)
           listed == Listed(all, Len(all))
<1>1. all \in Seq(Routes)
  BY NameFacts
<1>2. Usable(n, q) = usable
  BY DEF Usable
<1>3. Configured(n) = Better(listed)
  BY DEF Configured
<1> HIDE DEF all, open
<1>4. Falls(all, {}, listed)
  <2>1. DOMAIN all = 1..Len(all)
    BY <1>1
  <2>2. ASSUME NEW a \in DOMAIN all, NEW b \in DOMAIN all, a < b
        PROVE  <<all[a], all[b]>> \in listed
    BY <2>1, <2>2 DEF Listed, ToSet
  <2> HIDE DEF listed
  <2> QED  BY <2>2 DEF Falls
<1> HIDE DEF listed
<1>5. usable \in Seq(Routes)
  BY <1>1, OnlySelects
<1>6. Falls(usable, {}, listed)
  BY <1>1, <1>4, OnlyFalls
<1> HIDE DEF usable
<1>7. Listed(usable, Len(usable)) \subseteq listed
  <2>1. DOMAIN usable = 1..Len(usable)
    BY <1>5
  <2> QED  BY <1>6, <2>1 DEF Listed, Falls
<1>8. Better(Listed(usable, Len(usable))) \subseteq Better(listed)
  BY <1>7 DEF Better
<1> QED  BY <1>2, <1>3, <1>8

\* The routes that a plan may put before better ones: the one the session
\* sticks to, and that of class routing on a delegated turn.
Preferred(s, n, q) == {sticky[<<s, n>>]} \cup (IF CheapFirst(n, q) THEN {Cheap} ELSE {})

LEMMA ProfileFalls ==
  ASSUME PlannerTypeOK, NEW s, NEW n \in DOMAIN Names, NEW q
  PROVE  /\ Falls(ProfilePlan(s, n, q), Preferred(s, n, q), Configured(n))
         /\ KeepsBest(ProfilePlan(s, n, q), ToSet(Usable(n, q)), Preferred(s, n, q), Configured(n))
<1> DEFINE limited == Ordered(s, n, Usable(n, q))
           rest == Only(limited, Routes \ {Cheap})
           free == Preferred(s, n, q)
           usable == ToSet(Usable(n, q))
           order == Configured(n)
<1>1. Usable(n, q) \in Seq(Routes)
  BY UsableElements
<1>2. limited \in Seq(Routes)
  BY <1>1, OrderedElements
<1>3. Falls(limited, free, order) /\ KeepsBest(limited, usable, free, order)
  <2> DEFINE own == {sticky[<<s, n>>]}
             open == Usable(n, q)
             narrow == Better(Listed(open, Len(open)))
  <2>1. Falls(limited, own, narrow) /\ KeepsBest(limited, usable, own, narrow)
    BY <1>1, OrderedFalls
  <2>2. own \subseteq free
    BY DEF Preferred
  <2>3. narrow \subseteq order
    BY UsableListed
  <2> HIDE DEF limited, free, order, usable, own, narrow
  <2>4. KeepsBest(limited, usable, free, order)
    BY <2>1, <2>2, <2>3 DEF KeepsBest
  <2>5. Falls(limited, free, order)
    BY <2>1, <2>2, <2>3, MoreFalls
  <2> QED  BY <2>4, <2>5
<1>4. ProfilePlan(s, n, q) = IF CheapFirst(n, q) THEN <<Cheap>> \o rest ELSE limited
  BY DEF ProfilePlan
<1>5. CheapFirst(n, q) => Cheap \in free
  BY DEF Preferred
<1>6. Cheap \in Routes
  BY PlannerAssumption DEF Routes
<1>0. ToSet(limited) \subseteq usable /\ usable \subseteq Routes
  BY <1>1, OrderedElements, HeadElement
<1> HIDE DEF limited, free, usable, order
<1>7. rest \in Seq(Routes) /\ ToSet(rest) = ToSet(limited) \cap (Routes \ {Cheap})
  BY <1>2, OnlySelects
<1>8. Falls(rest, free, order)
  BY <1>2, <1>3, OnlyFalls
<1> HIDE DEF rest
<1>9. CheapFirst(n, q) => Falls(<<Cheap>> \o rest, free, order)
  BY <1>5, <1>6, <1>7, <1>8, FrontFalls
<1> DEFINE single == <<Cheap>>
           front == single \o rest
<1>10. CheapFirst(n, q) => KeepsBest(front, usable, free, order)
  <2>1. single \in Seq(Routes) /\ ToSet(single) = {Cheap}
    BY <1>6 DEF ToSet
  <2> HIDE DEF single
  <2>2. ToSet(front) = ToSet(single) \cup ToSet(rest)
    BY <1>7, <2>1, JoinedElements
  <2> HIDE DEF front
  <2>3. ToSet(front) = ToSet(limited) \cup {Cheap}
    BY <1>0, <1>7, <2>1, <2>2
  <2> QED  BY <1>3, <1>5, <2>3 DEF KeepsBest
<1>11. Falls(ProfilePlan(s, n, q), free, order) /\ KeepsBest(ProfilePlan(s, n, q), usable, free, order)
  <2>1. front = <<Cheap>> \o rest
    OBVIOUS
  <2> HIDE DEF front
  <2> QED  BY <1>3, <1>4, <1>9, <1>10, <2>1
<1> QED  BY <1>11 DEF free, usable, order

\* A profile's plan falls from the routes of a better class, with more quota
\* left, to the others, equals in the order of the profile, and the cut to
\* max_attempts leaves out what comes last in this order; only the route the session sticks to, and on a
\* delegated turn that of class routing, may go before a better one or take
\* its place.
BestRoutesFirst ==
  [][\A i \in Inflight : (plans[i] = NoPlan /\ plans'[i] # NoPlan) =>
        LET p == plans'[i]
            preferred == Preferred(p.session, p.name, p.shape)
        IN  Names[p.name].kind = "profile" =>
                /\ Falls(p.left, preferred, Configured(p.name))
                /\ KeepsBest(p.left, ToSet(Usable(p.name, p.shape)), preferred, Configured(p.name))]_planVars

\* Each step that gives a request the plan of a profile orders and cuts it by
\* what the quota probes said of its routes at that moment (reorderByQuota),
\* for any routes, scores, cooldowns and number of requests.
THEOREM PlansKeepBest == PlannerSpec => BestRoutesFirst
<1> DEFINE Kept == \A i \in Inflight : (plans[i] = NoPlan /\ plans'[i] # NoPlan) =>
                     LET p == plans'[i]
                         preferred == Preferred(p.session, p.name, p.shape)
                     IN  Names[p.name].kind = "profile" =>
                             /\ Falls(p.left, preferred, Configured(p.name))
                             /\ KeepsBest(p.left, ToSet(Usable(p.name, p.shape)), preferred, Configured(p.name))
<1>1. ASSUME PlannerInv, [PlannerNext]_planVars
      PROVE  [Kept]_planVars
  <2>1. CASE UNCHANGED planVars
    BY <2>1
  <2>2. CASE PlannerNext
    <3> SUFFICES ASSUME NEW i \in Inflight, plans[i] = NoPlan, plans'[i] # NoPlan,
                        Names[plans'[i].name].kind = "profile"
                 PROVE  LET p == plans'[i]
                            preferred == Preferred(p.session, p.name, p.shape)
                        IN  /\ Falls(p.left, preferred, Configured(p.name))
                            /\ KeepsBest(p.left, ToSet(Usable(p.name, p.shape)), preferred, Configured(p.name))
      BY <2>2 DEF Kept
    <3>1. PICK s \in Sessions, n \in DOMAIN Names, q \in Shapes : Ask(i, s, n, q)
      BY <1>1, <2>2, PlanMade
    <3> DEFINE left == Plan(s, n, q)
    <3>2. plans' = [plans EXCEPT ![i] = [session |-> s, name |-> n, shape |-> q, left |-> left]]
      BY <3>1 DEF Ask
    <3> HIDE DEF left
    <3>3. plans'[i] = [session |-> s, name |-> n, shape |-> q, left |-> left]
      BY <1>1, <3>2 DEF PlannerInv, PlannerTypeOK
    <3>4. plans'[i].session = s /\ plans'[i].name = n /\ plans'[i].shape = q /\ plans'[i].left = left
      BY <3>3
    <3>5. left = ProfilePlan(s, n, q)
      BY <3>4 DEF left, Plan
    <3>6. /\ Falls(left, Preferred(s, n, q), Configured(n))
          /\ KeepsBest(left, ToSet(Usable(n, q)), Preferred(s, n, q), Configured(n))
      BY <1>1, <3>5, ProfileFalls DEF PlannerInv
    <3> QED  BY <3>4, <3>6
  <2> QED  BY <1>1, <2>1, <2>2
<1> QED  BY <1>1, PlannerInvariant, PTL DEF PlannerSpec, BestRoutesFirst

-----------------------------------------------------------------------------
(* Sequences of Messages events that grow by one                           *)

LEMMA TallyNatural ==
  ASSUME NEW ev, NEW n \in Nat, NEW type
  PROVE  Tally(ev, n, type) \in Nat
<1> DEFINE S == {k \in 1..n : ev[k].type = type}
<1>1. IsFiniteSet(1..n) /\ S \subseteq 1..n
  BY FS_Interval
<1> HIDE DEF S
<1>2. Cardinality(S) \in Nat
  BY <1>1, FS_Subset, FS_CardinalityType
<1> QED  BY <1>2 DEF Tally, S

LEMMA TallyGrows ==
  ASSUME NEW ev \in Seq(Events), NEW e \in Events, NEW type
  PROVE  /\ \A n \in 0..Len(ev) : Tally(Append(ev, e), n, type) = Tally(ev, n, type)
         /\ Tally(Append(ev, e), Len(ev) + 1, type) = Tally(ev, Len(ev), type) + (IF e.type = type THEN 1 ELSE 0)
<1> DEFINE N == Len(ev)
           f == Append(ev, e)
           S(g, n) == {k \in 1..n : g[k].type = type}
<1>1. N \in Nat /\ f[N + 1] = e /\ \A k \in 1..N : f[k] = ev[k]
  OBVIOUS
<1> HIDE DEF N, f
<1>2. ASSUME NEW n \in 0..N
      PROVE  S(f, n) = S(ev, n)
  BY <1>1
<1>3. IsFiniteSet(S(ev, N)) /\ N + 1 \notin S(ev, N)
  <2>1. IsFiniteSet(1..N) /\ S(ev, N) \subseteq 1..N /\ N + 1 \notin 1..N
    BY <1>1, FS_Interval
  <2> HIDE DEF S
  <2>2. IsFiniteSet(S(ev, N))
    BY <2>1, FS_Subset
  <2> QED  BY <2>1, <2>2
<1>4. S(f, N + 1) = IF e.type = type THEN S(ev, N) \cup {N + 1} ELSE S(ev, N)
  <2>1. 1..(N + 1) = 1..N \cup {N + 1}
    BY <1>1
  <2> QED  BY <1>1, <2>1
<1>5. Cardinality(S(f, N + 1)) = Cardinality(S(ev, N)) + (IF e.type = type THEN 1 ELSE 0)
  <2>1. Cardinality(S(ev, N)) \in Nat
    BY <1>3, FS_CardinalityType
  <2> HIDE DEF S
  <2>2. Cardinality(S(ev, N) \cup {N + 1}) = Cardinality(S(ev, N)) + 1
    BY <1>3, FS_AddElement
  <2> QED  BY <1>4, <2>1, <2>2
<1>6. \A n \in 0..N : Tally(f, n, type) = Tally(ev, n, type)
  BY <1>2 DEF Tally
<1>7. Tally(f, N + 1, type) = Tally(ev, N, type) + (IF e.type = type THEN 1 ELSE 0)
  BY <1>5 DEF Tally
<1> QED  BY <1>6, <1>7 DEF N, f

Starts(ev) == Tally(ev, Len(ev), "block_start")
Stops(ev) == Tally(ev, Len(ev), "block_stop")
HasStart(ev, index, kind) == \E k \in DOMAIN ev : ev[k] = Event("block_start", index, kind, <<>>)

\* What an event must be like to come next.
Fits(ev, e) ==
  /\ e.type = "message_start" <=> ev = <<>>
  /\ e.type = "block_start" => e.index = Starts(ev) /\ Starts(ev) = Stops(ev)
  /\ e.type = "block_stop" => e.index = Starts(ev) - 1 /\ Starts(ev) = Stops(ev) + 1
  /\ e.type = "delta" => /\ HasStart(ev, e.index, e.kind)
                         /\ e.kind = "tool" \/ (e.index = Starts(ev) - 1 /\ Starts(ev) = Stops(ev) + 1)
  /\ e.type = "message_stop" => Starts(ev) = Stops(ev)

Placed(ev) == \A n \in DOMAIN ev : WellPlaced(ev, n)

LEMMA EventsGrow ==
  ASSUME NEW ev \in Seq(Events), NEW e \in Events
  PROVE  LET f == Append(ev, e) IN
         /\ f \in Seq(Events) /\ f # <<>> /\ Len(f) = Len(ev) + 1 /\ f[Len(ev) + 1] = e
         /\ Starts(ev) \in Nat /\ Stops(ev) \in Nat
         /\ Starts(f) = Starts(ev) + (IF e.type = "block_start" THEN 1 ELSE 0)
         /\ Stops(f) = Stops(ev) + (IF e.type = "block_stop" THEN 1 ELSE 0)
         /\ \A i, kind : HasStart(ev, i, kind) => HasStart(f, i, kind)
         /\ \A i, kind : e = Event("block_start", i, kind, <<>>) => HasStart(f, i, kind)
<1> DEFINE f == Append(ev, e)
           N == Len(ev)
<1>1. /\ f \in Seq(Events) /\ f # <<>> /\ Len(f) = N + 1 /\ N \in Nat
      /\ DOMAIN ev = 1..N /\ DOMAIN f = 1..(N + 1) /\ f[N + 1] = e /\ \A k \in 1..N : f[k] = ev[k]
  OBVIOUS
<1>2. Starts(ev) \in Nat /\ Stops(ev) \in Nat
  BY <1>1, TallyNatural DEF Starts, Stops
<1>3. /\ Tally(f, N + 1, "block_start") = Tally(ev, N, "block_start") + (IF e.type = "block_start" THEN 1 ELSE 0)
      /\ Tally(f, N + 1, "block_stop") = Tally(ev, N, "block_stop") + (IF e.type = "block_stop" THEN 1 ELSE 0)
  BY TallyGrows
<1> HIDE DEF f, N
<1>4. /\ Starts(f) = Starts(ev) + (IF e.type = "block_start" THEN 1 ELSE 0)
      /\ Stops(f) = Stops(ev) + (IF e.type = "block_stop" THEN 1 ELSE 0)
  BY <1>1, <1>3 DEF Starts, Stops, N
<1>5. \A i, kind : HasStart(ev, i, kind) => HasStart(f, i, kind)
  <2>1. \A k \in 1..N : k \in 1..(N + 1)
    BY <1>1
  <2> QED  BY <1>1, <2>1 DEF HasStart
<1>6. \A i, kind : e = Event("block_start", i, kind, <<>>) => HasStart(f, i, kind)
  BY <1>1 DEF HasStart
<1> QED  BY <1>1, <1>2, <1>4, <1>5, <1>6 DEF f, N

\* Events stay well placed when one that fits is added.
LEMMA PlacedGrows ==
  ASSUME NEW ev \in Seq(Events), NEW e \in Events, Placed(ev), Fits(ev, e)
  PROVE  Placed(Append(ev, e))
<1> DEFINE f == Append(ev, e)
           N == Len(ev)
<1>1. /\ N \in Nat /\ DOMAIN ev = 1..N /\ DOMAIN f = 1..(N + 1) /\ f[N + 1] = e
      /\ (\A k \in 1..N : f[k] = ev[k]) /\ (ev = <<>> <=> N = 0)
  OBVIOUS
<1>2. \A n \in 0..N : \A type : Tally(f, n, type) = Tally(ev, n, type)
  BY TallyGrows
<1> HIDE DEF f
<1>3. ASSUME NEW n \in 1..(N + 1)
      PROVE  /\ LastBlock(f, n) = LastBlock(ev, n)
             /\ BlockIsOpen(f, n) <=> BlockIsOpen(ev, n)
             /\ AllStopped(f, n) <=> AllStopped(ev, n)
  <2>1. n - 1 \in 0..N
    BY <1>1
  <2> QED  BY <1>2, <2>1 DEF LastBlock, BlockIsOpen, AllStopped
<1>4. ASSUME NEW n \in 1..(N + 1), NEW i, NEW kind
      PROVE  StartedBefore(f, n, i, kind) <=> StartedBefore(ev, n, i, kind)
  <2>1. \A k \in 1..(n - 1) : k \in 1..N /\ f[k] = ev[k]
    BY <1>1
  <2> QED  BY <2>1 DEF StartedBefore
<1>5. ASSUME NEW n \in 1..N
      PROVE  WellPlaced(f, n)
  <2>1. f[n] = ev[n] /\ n \in 1..(N + 1) /\ WellPlaced(ev, n)
    BY <1>1 DEF Placed
  <2> QED  BY <1>3, <1>4, <2>1 DEF WellPlaced
<1>6. WellPlaced(f, N + 1)
  <2>1. N + 1 \in 1..(N + 1) /\ (N + 1) - 1 = N /\ f[N + 1] = e /\ (N + 1 = 1 <=> ev = <<>>)
    BY <1>1
  <2>2. /\ LastBlock(ev, N + 1) = Starts(ev) - 1
        /\ BlockIsOpen(ev, N + 1) <=> Starts(ev) = Stops(ev) + 1
        /\ AllStopped(ev, N + 1) <=> Starts(ev) = Stops(ev)
    BY <2>1 DEF LastBlock, BlockIsOpen, AllStopped, Starts, Stops
  <2>3. \A i, kind : StartedBefore(ev, N + 1, i, kind) <=> HasStart(ev, i, kind)
    BY <1>1, <2>1 DEF StartedBefore, HasStart
  <2>4. Starts(ev) \in Nat
    BY EventsGrow
  <2>5. (e.type = "message_start") <=> (N + 1 = 1)
    BY <2>1 DEF Fits
  <2>6. e.type = "block_start" => e.index = LastBlock(f, N + 1) + 1 /\ AllStopped(f, N + 1)
    BY <1>3, <2>1, <2>2, <2>4 DEF Fits
  <2>7. e.type = "block_stop" => e.index = LastBlock(f, N + 1) /\ BlockIsOpen(f, N + 1)
    BY <1>3, <2>1, <2>2 DEF Fits
  <2>8. e.type = "delta" =>
          /\ StartedBefore(f, N + 1, e.index, e.kind)
          /\ e.kind = "tool" \/ (e.index = LastBlock(f, N + 1) /\ BlockIsOpen(f, N + 1))
    BY <1>3, <1>4, <2>1, <2>2, <2>3 DEF Fits
  <2>9. e.type = "message_stop" => AllStopped(f, N + 1)
    BY <1>3, <2>1, <2>2 DEF Fits
  <2> HIDE DEF N
  <2> QED  BY <2>1, <2>5, <2>6, <2>7, <2>8, <2>9 DEF WellPlaced
<1>7. ASSUME NEW n \in 1..(N + 1)
      PROVE  WellPlaced(f, n)
  <2>1. n \in 1..N \/ n = N + 1
    BY <1>1
  <2> QED  BY <1>5, <1>6, <2>1
<1> QED  BY <1>1, <1>7 DEF Placed, f

-----------------------------------------------------------------------------
(* The encoder's state                                                     *)

\* The number of the next block is how many were started; the open one is the
\* last; a call that came has a block of its own.
Shape(c) ==
  /\ Placed(c.events) /\ \A n \in DOMAIN c.events : c.events[n].type # "message_stop"
  /\ Starts(c.events) = c.next
  /\ Stops(c.events) = IF c.open = NoBlock THEN c.next ELSE c.next - 1
  /\ c.open # NoBlock => c.open.index = c.next - 1 /\ HasStart(c.events, c.open.index, c.open.kind)
  /\ \A call \in CallNumbers : c.tools[call] # NoBlock => HasStart(c.events, c.tools[call], "tool")
  /\ c.started <=> c.events # <<>>

LEMMA CodecFields ==
  ASSUME NEW c \in Codecs
  PROVE  /\ c.started \in BOOLEAN /\ c.next \in Nat /\ c.events \in Seq(Events)
         /\ c.open = NoBlock \/ c.open \in [index : Nat, kind : BlockKinds]
         /\ c.tools \in [CallNumbers -> Nat \cup {NoBlock}]
BY DEF Codecs

\* Emitting an event that fits changes nothing else, and keeps what was there.
LEMMA Emitted ==
  ASSUME NEW c \in Codecs, NEW e \in Events
  PROVE  LET d == Emit(c, e) IN
         /\ d \in Codecs /\ d.events = Append(c.events, e) /\ d.next = c.next /\ d.open = c.open
         /\ d.tools = c.tools /\ d.started = c.started /\ d.semantic = c.semantic
<1> DEFINE f == Append(c.events, e)
<1>1. c.events \in Seq(Events)
  BY CodecFields
<1>2. f \in Seq(Events)
  BY <1>1
<1>3. Emit(c, e) = [c EXCEPT !.events = f]
  BY DEF Emit
<1> HIDE DEF f
<1>4. LET d == Emit(c, e) IN
      /\ d \in Codecs /\ d.events = f /\ d.next = c.next /\ d.open = c.open
      /\ d.tools = c.tools /\ d.started = c.started /\ d.semantic = c.semantic
  BY <1>2, <1>3 DEF Codecs
<1> QED  BY <1>4 DEF f

\* The state after an event, when what is said of the open block and of the
\* calls is still true of it.
LEMMA ShapeAfter ==
  ASSUME NEW c \in Codecs, NEW e \in Events, Shape(c), Fits(c.events, e), e.type # "message_stop",
         NEW d \in Codecs, d.events = Append(c.events, e), d.started,
         d.next = c.next + (IF e.type = "block_start" THEN 1 ELSE 0),
         \/ d.open = c.open /\ e.type \notin {"block_start", "block_stop"}
         \/ d.open = NoBlock /\ e.type = "block_stop"
         \/ d.open # NoBlock /\ e.type = "block_start" /\ e = Event("block_start", d.open.index, d.open.kind, <<>>),
         \A call \in CallNumbers : d.tools[call] # NoBlock =>
             d.tools[call] = c.tools[call] \/ e = Event("block_start", d.tools[call], "tool", <<>>)
  PROVE  Shape(d)
<1> DEFINE ev == c.events
           f == Append(ev, e)
<1>1. ev \in Seq(Events) /\ c.next \in Nat
  BY CodecFields
<1>2. /\ f \in Seq(Events) /\ f # <<>> /\ Len(f) = Len(ev) + 1 /\ f[Len(ev) + 1] = e
      /\ Starts(ev) \in Nat /\ Stops(ev) \in Nat
      /\ Starts(f) = Starts(ev) + (IF e.type = "block_start" THEN 1 ELSE 0)
      /\ Stops(f) = Stops(ev) + (IF e.type = "block_stop" THEN 1 ELSE 0)
      /\ \A i, kind : HasStart(ev, i, kind) => HasStart(f, i, kind)
      /\ \A i, kind : e = Event("block_start", i, kind, <<>>) => HasStart(f, i, kind)
  BY <1>1, EventsGrow
<1>3. Placed(f)
  BY <1>1, PlacedGrows DEF Shape
<1>4. \A n \in DOMAIN f : f[n].type # "message_stop"
  <2>1. \A n \in DOMAIN f : (n \in DOMAIN ev /\ f[n] = ev[n]) \/ f[n] = e
    BY <1>1
  <2> QED  BY <2>1 DEF Shape
<1> HIDE DEF f
<1>5. d.events = f
  BY DEF f
<1>6. /\ Starts(ev) = c.next /\ Stops(ev) = IF c.open = NoBlock THEN c.next ELSE c.next - 1
      /\ c.open # NoBlock => c.open.index = c.next - 1 /\ HasStart(ev, c.open.index, c.open.kind)
      /\ \A call \in CallNumbers : c.tools[call] # NoBlock => HasStart(ev, c.tools[call], "tool")
  BY DEF Shape
<1>7. Starts(f) = d.next
  BY <1>2, <1>6
<1>8. /\ Stops(f) = IF d.open = NoBlock THEN d.next ELSE d.next - 1
      /\ d.open # NoBlock => d.open.index = d.next - 1 /\ HasStart(f, d.open.index, d.open.kind)
  <2>1. CASE d.open = c.open /\ e.type \notin {"block_start", "block_stop"}
    BY <1>1, <1>2, <1>6, <2>1
  <2>2. CASE d.open = NoBlock /\ e.type = "block_stop"
    <3>1. Starts(ev) = Stops(ev) + 1 /\ Stops(f) = Stops(ev) + 1 /\ d.next = c.next + 0
      BY <1>2, <2>2 DEF Fits
    <3> QED  BY <1>1, <1>2, <1>6, <2>2, <3>1
  <2>3. CASE d.open # NoBlock /\ e.type = "block_start" /\ e = Event("block_start", d.open.index, d.open.kind, <<>>)
    <3>1. e.index = d.open.index
      BY <2>3 DEF Event
    <3>2. e.index = Starts(ev) /\ Starts(ev) = Stops(ev) /\ Stops(f) = Stops(ev) + 0 /\ d.next = c.next + 1
      BY <1>2, <2>3 DEF Fits
    <3> QED  BY <1>1, <1>2, <1>6, <2>3, <3>1, <3>2
  <2> QED  BY <2>1, <2>2, <2>3
<1>9. \A call \in CallNumbers : d.tools[call] # NoBlock => HasStart(f, d.tools[call], "tool")
  BY <1>2, <1>6
<1> QED  BY <1>2, <1>3, <1>4, <1>5, <1>7, <1>8, <1>9 DEF Shape

LEMMA BlockEvent ==
  ASSUME NEW type \in {"block_start", "block_stop"}, NEW index \in Nat, NEW kind \in BlockKinds
  PROVE  LET e == Event(type, index, kind, <<>>)
         IN  e \in Events /\ e.type = type /\ e.index = index /\ e.kind = kind
BY DEF Event, Events, EventTypes

LEMMA DeltaEvent ==
  ASSUME NEW index \in Nat, NEW kind \in BlockKinds, NEW n \in Nat
  PROVE  LET e == Event("delta", index, kind, <<n>>)
         IN  e \in Events /\ e.type = "delta" /\ e.index = index /\ e.kind = kind
BY DEF Event, Events, EventTypes

LEMMA MessageEvent ==
  ASSUME NEW type \in {"message_start", "message_delta", "message_stop"},
         NEW kind \in {"message", "max_tokens", "tool_use", "end_turn"}
  PROVE  LET e == Event(type, 0, kind, <<>>)
         IN  e \in Events /\ e.type = type
BY DEF Event, Events, EventTypes

\* A state of the encoder between two pieces of a chunk.
Going(c) == c \in Codecs /\ Shape(c) /\ c.started

LEMMA SameShape ==
  ASSUME NEW c, Going(c), NEW d \in Codecs, d.events = c.events, d.next = c.next, d.open = c.open,
         d.tools = c.tools, d.started = c.started
  PROVE  Going(d)
BY DEF Going, Shape

LEMMA StartedGoes ==
  ASSUME NEW c \in Codecs, Shape(c)
  PROVE  Going(Started(c))
<1>1. CASE c.started
  BY <1>1 DEF Started, Going
<1>2. CASE ~c.started
  <2> DEFINE e == Event("message_start", 0, "message", <<>>)
             m == Emit(c, e)
             d == [m EXCEPT !.started = TRUE]
  <2>1. e \in Events /\ e.type = "message_start"
    BY MessageEvent
  <2>2. c.events = <<>>
    BY <1>2, CodecFields DEF Shape
  <2>3. Started(c) = d
    BY <1>2 DEF Started
  <2> HIDE DEF e
  <2>4. /\ m \in Codecs /\ m.events = Append(c.events, e) /\ m.next = c.next /\ m.open = c.open
        /\ m.tools = c.tools
    BY <2>1, Emitted
  <2> HIDE DEF m
  <2>5. /\ d \in Codecs /\ d.events = Append(c.events, e) /\ d.next = c.next /\ d.open = c.open
        /\ d.tools = c.tools /\ d.started = TRUE
    BY <2>4 DEF Codecs
  <2> HIDE DEF d
  <2>6. Fits(c.events, e)
    BY <2>1, <2>2 DEF Fits
  <2>7. d.next = c.next + (IF e.type = "block_start" THEN 1 ELSE 0)
    BY <2>1, <2>5, CodecFields
  <2>8. Shape(d)
    BY <2>1, <2>5, <2>6, <2>7, ShapeAfter
  <2> QED  BY <2>3, <2>5, <2>8 DEF Going
<1> QED  BY <1>1, <1>2, CodecFields

LEMMA ClosedGoes ==
  ASSUME NEW c, Going(c)
  PROVE  LET d == CloseOpen(c) IN
         Going(d) /\ d.open = NoBlock /\ d.next = c.next /\ d.tools = c.tools /\ d.semantic = c.semantic
<1>1. CASE c.open = NoBlock
  BY <1>1 DEF CloseOpen
<1>2. CASE c.open # NoBlock
  <2> DEFINE e == Event("block_stop", c.open.index, c.open.kind, <<>>)
             m == Emit(c, e)
             d == [m EXCEPT !.open = NoBlock]
  <2>1. c \in Codecs /\ Shape(c) /\ c.started /\ c.next \in Nat /\ c.events \in Seq(Events)
    BY CodecFields DEF Going
  <2>2. c.open.index \in Nat /\ c.open.kind \in BlockKinds
    BY <1>2, <2>1, CodecFields
  <2>3. e \in Events /\ e.type = "block_stop" /\ e.index = c.open.index
    BY <2>2, BlockEvent
  <2>4. CloseOpen(c) = d
    BY <1>2 DEF CloseOpen
  <2> HIDE DEF e
  <2>5. /\ m \in Codecs /\ m.events = Append(c.events, e) /\ m.next = c.next /\ m.open = c.open
        /\ m.tools = c.tools /\ m.started = c.started /\ m.semantic = c.semantic
    BY <2>1, <2>3, Emitted
  <2> HIDE DEF m
  <2>6. /\ d \in Codecs /\ d.events = Append(c.events, e) /\ d.next = c.next /\ d.open = NoBlock
        /\ d.tools = c.tools /\ d.started /\ d.semantic = c.semantic
    BY <2>1, <2>5 DEF Codecs
  <2> HIDE DEF d
  <2>7. Fits(c.events, e)
    <3>1. Starts(c.events) = c.next /\ Stops(c.events) = c.next - 1 /\ c.open.index = c.next - 1 /\ c.events # <<>>
      BY <1>2, <2>1 DEF Shape
    <3> QED  BY <2>1, <2>3, <3>1 DEF Fits
  <2>8. d.next = c.next + (IF e.type = "block_start" THEN 1 ELSE 0)
    BY <2>1, <2>3, <2>6
  <2>9. Shape(d)
    BY <2>1, <2>3, <2>6, <2>7, <2>8, ShapeAfter
  <2> QED  BY <2>4, <2>6, <2>9 DEF Going
<1> QED  BY <1>1, <1>2

LEMMA OpenedGoes ==
  ASSUME NEW c, Going(c), NEW kind \in BlockKinds
  PROVE  LET d == OpenBlock(c, kind) IN
         /\ Going(d) /\ d.open = [index |-> c.next, kind |-> kind] /\ d.open # NoBlock
         /\ d.next = c.next + 1 /\ d.tools = c.tools /\ HasStart(d.events, c.next, kind)
<1> DEFINE b == CloseOpen(c)
           e == Event("block_start", c.next, kind, <<>>)
           m == Emit(b, e)
           block == [index |-> c.next, kind |-> kind]
           d == [m EXCEPT !.open = block, !.next = @ + 1]
<1>1. Going(b) /\ b.open = NoBlock /\ b.next = c.next /\ b.tools = c.tools
  BY ClosedGoes
<1>2. OpenBlock(c, kind) = d
  BY DEF OpenBlock
<1> HIDE DEF b
<1>3. b \in Codecs /\ Shape(b) /\ b.started /\ b.next \in Nat /\ c.next \in Nat /\ b.events \in Seq(Events)
  BY <1>1, CodecFields DEF Going
<1>4. e \in Events /\ e.type = "block_start" /\ e.index = c.next
  BY <1>3, BlockEvent
<1>5. block \in [index : Nat, kind : BlockKinds] /\ block # NoBlock /\ block.index = c.next /\ block.kind = kind
  BY <1>3, CodecAssumption
<1>6. e = Event("block_start", block.index, block.kind, <<>>)
  BY <1>5
<1> HIDE DEF e, block
<1>7. /\ m \in Codecs /\ m.events = Append(b.events, e) /\ m.next = b.next
      /\ m.tools = b.tools /\ m.started = b.started
  BY <1>3, <1>4, Emitted
<1> HIDE DEF m
<1>8. /\ d \in Codecs /\ d.events = Append(b.events, e) /\ d.next = b.next + 1 /\ d.open = block
      /\ d.tools = b.tools /\ d.started
  <2> DEFINE next == m.next + 1
  <2>1. d = [m EXCEPT !.open = block, !.next = next] /\ next \in Nat /\ next = b.next + 1
    BY <1>3, <1>7
  <2> HIDE DEF next, d
  <2>2. /\ d \in Codecs /\ d.events = m.events /\ d.next = next /\ d.open = block
        /\ d.tools = m.tools /\ d.started = m.started
    BY <1>5, <1>7, <2>1 DEF Codecs
  <2> QED  BY <1>3, <1>7, <2>1, <2>2
<1> HIDE DEF d
<1>9. Fits(b.events, e)
  <2>1. Starts(b.events) = c.next /\ Stops(b.events) = c.next /\ b.events # <<>>
    BY <1>1, <1>3 DEF Shape
  <2> QED  BY <1>4, <2>1 DEF Fits
<1>10. d.next = b.next + (IF e.type = "block_start" THEN 1 ELSE 0)
  BY <1>4, <1>8
<1>11. d.open # NoBlock /\ e.type = "block_start" /\ e = Event("block_start", d.open.index, d.open.kind, <<>>)
  BY <1>4, <1>5, <1>6, <1>8
<1>12. Shape(d)
  BY <1>3, <1>4, <1>8, <1>9, <1>10, <1>11, ShapeAfter
<1>13. HasStart(d.events, c.next, kind)
  BY <1>3, <1>4, <1>5, <1>6, <1>8, EventsGrow
<1> QED  BY <1>1, <1>2, <1>8, <1>11, <1>12, <1>13 DEF Going, block

\* A delta goes into the open block, or into a tool's block.
LEMMA DeltaGoes ==
  ASSUME NEW c, Going(c), NEW i \in Nat, NEW kind \in BlockKinds, NEW n \in Nat,
         HasStart(c.events, i, kind), kind = "tool" \/ (c.open # NoBlock /\ i = c.open.index)
  PROVE  LET d == Emit(c, Event("delta", i, kind, <<n>>)) IN
         Going(d) /\ d.open = c.open /\ d.next = c.next /\ d.tools = c.tools
<1> DEFINE e == Event("delta", i, kind, <<n>>)
           d == Emit(c, e)
<1>1. c \in Codecs /\ Shape(c) /\ c.started /\ c.next \in Nat /\ c.events \in Seq(Events)
  BY CodecFields DEF Going
<1>2. e \in Events /\ e.type = "delta" /\ e.index = i /\ e.kind = kind
  BY DeltaEvent
<1> HIDE DEF e
<1>3. /\ d \in Codecs /\ d.events = Append(c.events, e) /\ d.next = c.next /\ d.open = c.open
      /\ d.tools = c.tools /\ d.started = c.started
  BY <1>1, <1>2, Emitted
<1> HIDE DEF d
<1>4. Fits(c.events, e)
  <2>1. c.events # <<>> /\ (kind = "tool" \/ (i = Starts(c.events) - 1 /\ Starts(c.events) = Stops(c.events) + 1))
    BY <1>1 DEF Shape
  <2> QED  BY <1>2, <2>1 DEF Fits
<1>5. d.next = c.next + (IF e.type = "block_start" THEN 1 ELSE 0)
  BY <1>1, <1>2, <1>3
<1>6. Shape(d)
  BY <1>1, <1>2, <1>3, <1>4, <1>5, ShapeAfter
<1> QED  BY <1>1, <1>3, <1>6 DEF Going, d, e

\* Marks of the state that the events do not depend on.
LEMMA MarkedGoes ==
  ASSUME NEW c, Going(c)
  PROVE  LET d == [c EXCEPT !.semantic = TRUE] IN
         Going(d) /\ d.events = c.events /\ d.open = c.open /\ d.next = c.next /\ d.tools = c.tools
<1> DEFINE d == [c EXCEPT !.semantic = TRUE]
<1>1. c \in Codecs
  BY DEF Going
<1>2. /\ d \in Codecs /\ d.events = c.events /\ d.next = c.next /\ d.open = c.open
      /\ d.tools = c.tools /\ d.started = c.started
  BY <1>1 DEF Codecs
<1> HIDE DEF d
<1>3. Going(d)
  BY <1>2, SameShape
<1> QED  BY <1>2, <1>3 DEF d

LEMMA ReasoningGoes ==
  ASSUME NEW c, Going(c), NEW n \in Nat
  PROVE  Going(PushReasoning(c, n))
<1>1. CASE ~options.keep
  BY <1>1, MarkedGoes DEF PushReasoning
<1>2. CASE options.keep
  <2> DEFINE opened == OpenBlock(c, "thinking")
             said == Emit(opened, Event("delta", c.next, "thinking", <<n>>))
             marked == [said EXCEPT !.semantic = TRUE]
  <2>1. /\ Going(opened) /\ opened.open = [index |-> c.next, kind |-> "thinking"] /\ opened.open # NoBlock
        /\ HasStart(opened.events, c.next, "thinking")
    BY OpenedGoes DEF BlockKinds
  <2>2. opened.open.index = c.next /\ c.next \in Nat
    BY <2>1, CodecFields DEF Going
  <2> HIDE DEF opened
  <2>3. Going(said)
    BY <2>1, <2>2, DeltaGoes DEF BlockKinds
  <2> HIDE DEF said
  <2>4. Going(marked)
    BY <2>3, MarkedGoes
  <2> HIDE DEF marked
  <2>5. Going(CloseOpen(marked))
    BY <2>4, ClosedGoes
  <2> QED  BY <1>2, <2>5 DEF PushReasoning, marked, said, opened
<1> QED  BY <1>1, <1>2

LEMMA TextGoes ==
  ASSUME NEW c, Going(c), NEW n \in Nat
  PROVE  Going(PushText(c, n))
<1> DEFINE opened == OpenText(c)
           said == Emit(opened, Event("delta", opened.open.index, "text", <<n>>))
<1>1. /\ Going(opened) /\ opened.open # NoBlock /\ opened.open.kind = "text"
      /\ opened.open.index \in Nat /\ HasStart(opened.events, opened.open.index, "text")
  <2>1. CASE c.open # NoBlock /\ c.open.kind = "text"
    <3>1. opened = c
      BY <2>1 DEF OpenText
    <3>2. c.open.index \in Nat /\ HasStart(c.events, c.open.index, c.open.kind)
      BY <2>1, CodecFields DEF Going, Shape
    <3> QED  BY <2>1, <3>1, <3>2
  <2>2. CASE ~(c.open # NoBlock /\ c.open.kind = "text")
    <3>1. opened = OpenBlock(c, "text")
      BY <2>2 DEF OpenText
    <3> DEFINE block == [index |-> c.next, kind |-> "text"]
    <3>2. c.next \in Nat /\ block.index = c.next /\ block.kind = "text"
      BY CodecFields DEF Going
    <3>3. "text" \in BlockKinds
      BY DEF BlockKinds
    <3> HIDE DEF opened, block
    <3>4. Going(opened) /\ opened.open = block /\ opened.open # NoBlock /\ HasStart(opened.events, c.next, "text")
      BY <3>1, <3>3, OpenedGoes DEF block
    <3> QED  BY <3>2, <3>4
  <2> QED  BY <2>1, <2>2
<1> HIDE DEF opened
<1>2. Going(said)
  BY <1>1, DeltaGoes DEF BlockKinds
<1> HIDE DEF said
<1>3. Going([said EXCEPT !.semantic = TRUE])
  BY <1>2, MarkedGoes
<1> QED  BY <1>3 DEF PushText, said, opened

LEMMA ToolGoes ==
  ASSUME NEW c, Going(c), NEW call \in CallNumbers
  PROVE  LET d == OpenTool(c, call) IN
         Going(d) /\ d.tools[call] \in Nat /\ HasStart(d.events, d.tools[call], "tool")
<1>1. c \in Codecs /\ Shape(c) /\ c.tools \in [CallNumbers -> Nat \cup {NoBlock}] /\ c.next \in Nat
  BY CodecFields DEF Going
<1>2. CASE c.tools[call] # NoBlock
  BY <1>1, <1>2 DEF OpenTool, Shape
<1>3. CASE c.tools[call] = NoBlock
  <2> DEFINE opened == OpenBlock(c, "tool")
             tools == [c.tools EXCEPT ![call] = c.next]
             d == [opened EXCEPT !.tools = tools]
  <2>1. /\ Going(opened) /\ opened.tools = c.tools /\ HasStart(opened.events, c.next, "tool")
    BY OpenedGoes DEF BlockKinds
  <2>2. OpenTool(c, call) = [opened EXCEPT !.tools[call] = c.next]
    BY <1>3 DEF OpenTool
  <2> HIDE DEF opened
  <2>3. OpenTool(c, call) = d
    BY <2>1, <2>2
  <2>4. tools \in [CallNumbers -> Nat \cup {NoBlock}] /\ tools[call] = c.next
        /\ \A k \in CallNumbers : k # call => tools[k] = c.tools[k]
    BY <1>1
  <2> HIDE DEF tools
  <2>5. opened \in Codecs
    BY <2>1 DEF Going
  <2>6. /\ d \in Codecs /\ d.events = opened.events /\ d.next = opened.next /\ d.open = opened.open
        /\ d.tools = tools /\ d.started = opened.started
    BY <2>4, <2>5 DEF Codecs
  <2> HIDE DEF d
  <2>7. \A k \in CallNumbers : d.tools[k] # NoBlock => HasStart(d.events, d.tools[k], "tool")
    BY <2>1, <2>4, <2>6 DEF Going, Shape
  <2>8. Going(d)
    BY <2>1, <2>6, <2>7 DEF Going, Shape
  <2> QED  BY <1>1, <2>1, <2>3, <2>4, <2>6, <2>8
<1> QED  BY <1>2, <1>3

LEMMA CallGoes ==
  ASSUME NEW c, Going(c), NEW call \in [index : CallNumbers, args : BOOLEAN, named : BOOLEAN], NEW n \in Nat
  PROVE  Going(PushCall(c, call, n))
<1> DEFINE tool == OpenTool(c, call.index)
           opened == IF call.named \/ call.args THEN [tool EXCEPT !.semantic = TRUE] ELSE tool
           said == Emit(opened, Event("delta", opened.tools[call.index], "tool", <<n>>))
<1>1. Going(tool) /\ tool.tools[call.index] \in Nat /\ HasStart(tool.events, tool.tools[call.index], "tool")
  BY ToolGoes
<1> HIDE DEF tool
<1>2. Going(opened) /\ opened.events = tool.events /\ opened.tools = tool.tools
  BY <1>1, MarkedGoes
<1> HIDE DEF opened
<1>3. opened.tools[call.index] \in Nat /\ HasStart(opened.events, opened.tools[call.index], "tool")
  BY <1>1, <1>2
<1>4. Going(said)
  BY <1>2, <1>3, DeltaGoes DEF BlockKinds
<1> HIDE DEF said
<1>5. PushCall(c, call, n) = IF call.args THEN said ELSE opened
  BY DEF PushCall, said, opened, tool
<1> QED  BY <1>2, <1>4, <1>5

LEMMA FinishedGoes ==
  ASSUME NEW c, Going(c), NEW finish \in Finishes
  PROVE  Going(Finished(c, finish))
<1>1. CASE finish = "none"
  BY <1>1 DEF Finished
<1>2. CASE finish # "none"
  <2> DEFINE d == [c EXCEPT !.finish = finish]
  <2>1. c \in Codecs
    BY DEF Going
  <2>2. /\ d \in Codecs /\ d.events = c.events /\ d.next = c.next /\ d.open = c.open
        /\ d.tools = c.tools /\ d.started = c.started
    BY <2>1 DEF Codecs
  <2>3. Finished(c, finish) = d
    BY <1>2 DEF Finished
  <2> HIDE DEF d
  <2> QED  BY <2>2, <2>3, SameShape
<1> QED  BY <1>1, <1>2

LEMMA SequenceFacts ==
  ASSUME NEW X, NEW s \in Seq(X)
  PROVE  Len(s) \in Nat /\ DOMAIN s = 1..Len(s) /\ \A k \in 1..Len(s) : s[k] \in X
OBVIOUS

DeltaFieldsOK(chunk) ==
  /\ chunk.reasoning \in BOOLEAN /\ chunk.content \in BOOLEAN /\ chunk.finish \in Finishes
  /\ chunk.calls \in Seq([index : CallNumbers, args : BOOLEAN, named : BOOLEAN])

LEMMA DeltaFields ==
  ASSUME NEW chunk \in Deltas
  PROVE  DeltaFieldsOK(chunk)
<1> DEFINE calls == chunk.calls
           Call == [index : CallNumbers, args : BOOLEAN, named : BOOLEAN]
<1>1. /\ chunk.reasoning \in BOOLEAN /\ chunk.content \in BOOLEAN /\ chunk.finish \in Finishes
      /\ calls \in Seq([index : Nat, args : BOOLEAN, named : BOOLEAN])
  BY CodecAssumption
<1>2. Len(calls) \in Nat /\ DOMAIN calls = 1..Len(calls) /\ \A k \in 1..Len(calls) : calls[k] \in [index : Nat, args : BOOLEAN, named : BOOLEAN]
  <2> HIDE DEF calls
  <2> QED  BY <1>1, SequenceFacts
<1>3. ASSUME NEW k \in 1..Len(calls)
      PROVE  calls[k] \in Call
  <2>1. calls[k] \in ToSet(calls)
    BY <1>2 DEF ToSet
  <2>2. calls[k].index \in {call.index : call \in ToSet(calls)}
    BY <2>1
  <2>3. calls[k].index \in CallNumbers
    BY <2>2 DEF CallNumbers
  <2> QED  BY <1>2, <2>3
<1>4. calls \in Seq(Call)
  <2>1. calls = [k \in 1..Len(calls) |-> calls[k]]
    BY <1>1
  <2> HIDE DEF calls, Call
  <2> QED  BY <1>2, <1>3, <2>1
<1> QED  BY <1>1, <1>4 DEF DeltaFieldsOK

\* The pieces of the calls of one chunk, pushed one after the other.
Pushing(f, text, calls, n) ==
  /\ f[0] = text /\ \A k \in 1..Len(calls) : f[k] = PushCall(f[k - 1], calls[k], n)
  /\ \A k \in 0..Len(calls) : Going(f[k])

LEMMA CallsGo ==
  ASSUME NEW text, Going(text), NEW calls \in Seq([index : CallNumbers, args : BOOLEAN, named : BOOLEAN]), NEW n \in Nat
  PROVE  LET pushed == CHOOSE f : f = [k \in 0..Len(calls) |-> IF k = 0 THEN text ELSE PushCall(f[k - 1], calls[k], n)]
         IN  Pushing(pushed, text, calls, n)
<1> DEFINE N == Len(calls)
           Y == {c \in Codecs : Going(c)}
           step == [p \in Y \X (1..N) |-> PushCall(p[1], calls[p[2]], n)]
           Rule(f) == f = [k \in 0..N |-> IF k = 0 THEN text ELSE PushCall(f[k - 1], calls[k], n)]
           pushed == CHOOSE f : Rule(f)
<1>1. N \in Nat /\ \A k \in 1..N : calls[k] \in [index : CallNumbers, args : BOOLEAN, named : BOOLEAN]
  BY SequenceFacts
<1>2. text \in Y /\ \A c : c \in Y <=> Going(c)
  BY DEF Going
<1> HIDE DEF Y
<1>3. ASSUME NEW c \in Y, NEW k \in 1..N
      PROVE  PushCall(c, calls[k], n) \in Y
  BY <1>1, <1>2, <1>3, CallGoes
<1>4. step \in [Y \X (1..N) -> Y]
  BY <1>3
<1>5. PICK f : Solution(f, Y, text, step, N)
  <2> HIDE DEF step, N
  <2> QED  BY <1>1, <1>2, <1>4, FoldExists
<1>6. f \in [0..N -> Y] /\ f[0] = text
  BY <1>5 DEF Solution
<1>7. ASSUME NEW k \in 1..N
      PROVE  f[k] = PushCall(f[k - 1], calls[k], n)
  <2>1. <<f[k - 1], k>> \in Y \X (1..N)
    <3>1. k - 1 \in 0..N
      BY <1>1
    <3>2. f[k - 1] \in Y
      BY <1>6, <3>1
    <3> QED  BY <3>2
  <2>2. f[k] = step[<<f[k - 1], k>>]
    BY <1>5 DEF Solution
  <2> QED  BY <2>1, <2>2
<1>8. Rule(f)
  <2> DEFINE g == [k \in 0..N |-> IF k = 0 THEN text ELSE PushCall(f[k - 1], calls[k], n)]
  <2>1. ASSUME NEW k \in 0..N PROVE f[k] = g[k]
    <3>1. k = 0 \/ k \in 1..N
      OBVIOUS
    <3> QED  BY <1>6, <1>7, <3>1
  <2>2. f = [k \in 0..N |-> f[k]]
    BY <1>6
  <2> HIDE DEF g
  <2>3. f = g
    BY <2>1, <2>2 DEF g
  <2> QED  BY <2>3 DEF g
<1>9. Rule(pushed)
  BY <1>8, Zenon
<1> HIDE DEF pushed
<1>10. pushed[0] = text
  BY <1>9
<1>11. ASSUME NEW k \in 1..N
       PROVE  pushed[k] = PushCall(pushed[k - 1], calls[k], n)
  <2>1. k \in 0..N /\ k # 0
    OBVIOUS
  <2> HIDE DEF N
  <2> QED  BY <1>9, <2>1
<1> DEFINE T == {k \in 0..N : pushed[k] \in Y}
<1> HIDE DEF Rule
<1>12. 0 \in T
  BY <1>1, <1>2, <1>10
<1>13. ASSUME NEW k \in 0..(N - 1), k \in T
       PROVE  k + 1 \in T
  <2>1. k + 1 \in 1..N /\ k + 1 \in 0..N /\ (k + 1) - 1 = k
    OBVIOUS
  <2>2. pushed[k + 1] = PushCall(pushed[k], calls[k + 1], n)
    BY <1>11, <2>1
  <2>3. pushed[k] \in Y
    BY <1>13
  <2>4. pushed[k + 1] \in Y
    BY <1>3, <2>1, <2>2, <2>3
  <2> QED  BY <2>1, <2>4
<1>14. \A k \in 0..N : k \in T
  <2> HIDE DEF T
  <2> QED  BY <1>1, <1>12, <1>13, Climb
<1>15. \A k \in 0..N : Going(pushed[k])
  BY <1>2, <1>14
<1>16. Pushing(pushed, text, calls, n)
  BY <1>10, <1>11, <1>15 DEF Pushing
<1> QED  BY <1>16 DEF pushed, Rule

\* What a chunk says before its calls.
Voiced(c, chunk, n) ==
  LET start == Started(c)
      reason == IF chunk.reasoning THEN PushReasoning(start, n) ELSE start
  IN  IF chunk.content THEN PushText(reason, n) ELSE reason

LEMMA VoicedGoes ==
  ASSUME NEW c \in Codecs, Shape(c), NEW chunk, NEW n \in Nat
  PROVE  Going(Voiced(c, chunk, n))
<1> DEFINE start == Started(c)
           reason == IF chunk.reasoning THEN PushReasoning(start, n) ELSE start
           text == IF chunk.content THEN PushText(reason, n) ELSE reason
<1>1. Going(start)
  BY StartedGoes
<1> HIDE DEF start
<1>2. Going(reason)
  BY <1>1, ReasoningGoes
<1> HIDE DEF reason
<1>3. Going(text)
  BY <1>2, TextGoes
<1> QED  BY <1>3 DEF Voiced, text, reason, start

LEMMA EncodedPushes ==
  ASSUME NEW c \in Codecs, Shape(c), NEW chunk \in Deltas, NEW n \in Nat
  PROVE  \E f : /\ Pushing(f, Voiced(c, chunk, n), chunk.calls, n)
                /\ Encoded(c, chunk, n) = Finished(f[Len(chunk.calls)], chunk.finish)
<1> DEFINE text == Voiced(c, chunk, n)
           calls == chunk.calls
           pushed == CHOOSE f : f = [k \in 0..Len(calls) |-> IF k = 0 THEN text ELSE PushCall(f[k - 1], calls[k], n)]
<1>1. Going(text)
  BY VoicedGoes
<1>2. calls \in Seq([index : CallNumbers, args : BOOLEAN, named : BOOLEAN])
  BY DeltaFields DEF DeltaFieldsOK
<1>3. Encoded(c, chunk, n) = Finished(pushed[Len(calls)], chunk.finish)
  BY DEF Encoded, Voiced
<1> HIDE DEF text, calls
<1>4. Pushing(pushed, text, calls, n)
  BY <1>1, <1>2, CallsGo
<1> HIDE DEF pushed
<1> QED  BY <1>3, <1>4 DEF text, calls

LEMMA EncodedGoes ==
  ASSUME NEW c \in Codecs, Shape(c), NEW chunk \in Deltas, NEW n \in Nat
  PROVE  Going(Encoded(c, chunk, n))
<1> DEFINE N == Len(chunk.calls)
<1>1. PICK f : Pushing(f, Voiced(c, chunk, n), chunk.calls, n) /\ Encoded(c, chunk, n) = Finished(f[N], chunk.finish)
  BY EncodedPushes
<1>2. N \in Nat /\ chunk.finish \in Finishes
  BY DeltaFields DEF DeltaFieldsOK
<1>3. Going(f[N])
  BY <1>1, <1>2 DEF Pushing
<1> HIDE DEF N
<1> QED  BY <1>1, <1>2, <1>3, FinishedGoes

-----------------------------------------------------------------------------
(* Theorems                                                                *)

\* While the stream goes on, and after it failed, no message_stop was sent.
CodecInv == CodecTypeOK /\ StreamShape /\ (phase # "ended" => Shape(codec))

LEMMA ShapeIsStreamShape ==
  ASSUME Shape(codec)
  PROVE  StreamShape
BY DEF Shape, Placed, StreamShape

LEMMA CodecStart == CodecInit => CodecInv
<1> SUFFICES ASSUME CodecInit PROVE CodecInv
  OBVIOUS
<1> DEFINE tools == [call \in CallNumbers |-> NoBlock]
           none == <<>>
<1>1. /\ codec = [started |-> FALSE, next |-> 0, open |-> NoBlock, tools |-> tools,
                  finish |-> "none", done |-> FALSE, semantic |-> FALSE, events |-> none]
      /\ options \in [strict : BOOLEAN, keep : BOOLEAN] /\ chunks = <<>> /\ phase = "streaming"
  BY DEF CodecInit, NewCodec
<1>2. tools \in [CallNumbers -> Nat \cup {NoBlock}] /\ \A call \in CallNumbers : tools[call] = NoBlock
  OBVIOUS
<1>3. none \in Seq(Events) /\ Len(none) = 0 /\ DOMAIN none = {}
  OBVIOUS
<1> HIDE DEF tools, none
<1>4. codec \in Codecs
  BY <1>1, <1>2, <1>3 DEF Codecs, Finishes
<1>5. CodecTypeOK
  BY <1>1, <1>4, CodecAssumption DEF CodecTypeOK
<1>6. Starts(none) = 0 /\ Stops(none) = 0
  <2>1. \A type : Tally(none, 0, type) = 0
    <3> SUFFICES ASSUME NEW type PROVE Tally(none, 0, type) = 0
      OBVIOUS
    <3>1. {k \in 1..0 : none[k].type = type} = {}
      OBVIOUS
    <3> QED  BY <3>1, FS_EmptySet DEF Tally
  <2> QED  BY <1>3, <2>1 DEF Starts, Stops
<1>7. Shape(codec)
  BY <1>1, <1>2, <1>3, <1>6 DEF Shape, Placed, none
<1> QED  BY <1>5, <1>7, ShapeIsStreamShape DEF CodecInv

\* The two events at the end; only the last is a message_stop.
LEMMA EndShape ==
  ASSUME NEW c \in Codecs, Shape(c), NEW reason \in {"max_tokens", "tool_use", "end_turn"}
  PROVE  LET d == Emit(Emit(CloseOpen(Started(c)), Event("message_delta", 0, reason, <<>>)),
                       Event("message_stop", 0, "message", <<>>))
         IN  /\ d \in Codecs
             /\ \A n \in DOMAIN d.events :
                   WellPlaced(d.events, n) /\ (d.events[n].type = "message_stop" => n = Len(d.events))
<1> DEFINE b == CloseOpen(Started(c))
           e1 == Event("message_delta", 0, reason, <<>>)
           m == Emit(b, e1)
           e2 == Event("message_stop", 0, "message", <<>>)
           d == Emit(m, e2)
<1>1. Going(b) /\ b.open = NoBlock
  <2> DEFINE start == Started(c)
  <2>1. Going(start)
    BY StartedGoes
  <2> HIDE DEF start
  <2>2. Going(CloseOpen(start)) /\ CloseOpen(start).open = NoBlock
    BY <2>1, ClosedGoes
  <2> QED  BY <2>2 DEF start
<1> HIDE DEF b
<1>2. b \in Codecs /\ Shape(b) /\ b.started /\ b.next \in Nat /\ b.events \in Seq(Events)
  BY <1>1, CodecFields DEF Going
<1>3. e1 \in Events /\ e1.type = "message_delta" /\ e2 \in Events /\ e2.type = "message_stop"
  BY MessageEvent
<1> HIDE DEF e1, e2
<1>4. /\ m \in Codecs /\ m.events = Append(b.events, e1) /\ m.next = b.next /\ m.open = b.open
      /\ m.tools = b.tools /\ m.started = b.started
  BY <1>2, <1>3, Emitted
<1> HIDE DEF m
<1>5. Fits(b.events, e1)
  <2>1. b.events # <<>>
    BY <1>2 DEF Shape
  <2> QED  BY <1>3, <2>1 DEF Fits
<1>6. Shape(m)
  <2>1. m.next = b.next + (IF e1.type = "block_start" THEN 1 ELSE 0)
    BY <1>2, <1>3, <1>4
  <2> QED  BY <1>2, <1>3, <1>4, <1>5, <2>1, ShapeAfter
<1>7. d \in Codecs /\ d.events = Append(m.events, e2) /\ m.events \in Seq(Events)
  BY <1>3, <1>4, Emitted, CodecFields
<1> HIDE DEF d
<1>8. Fits(m.events, e2)
  <2>1. Starts(m.events) = Stops(m.events) /\ m.events # <<>>
    BY <1>1, <1>2, <1>4, <1>6 DEF Shape
  <2> QED  BY <1>3, <2>1 DEF Fits
<1>9. Placed(d.events)
  BY <1>3, <1>6, <1>7, <1>8, PlacedGrows DEF Shape
<1>10. ASSUME NEW n \in DOMAIN d.events, d.events[n].type = "message_stop"
       PROVE  n = Len(d.events)
  <2> DEFINE ev == m.events
             N == Len(ev)
  <2>1. ev \in Seq(Events) /\ \A k \in DOMAIN ev : ev[k].type # "message_stop"
    BY <1>6, <1>7 DEF Shape
  <2>2. d.events = Append(ev, e2)
    BY <1>7
  <2> HIDE DEF ev
  <2>3. /\ N \in Nat /\ DOMAIN ev = 1..N /\ DOMAIN d.events = 1..(N + 1) /\ Len(d.events) = N + 1
        /\ \A k \in 1..N : d.events[k] = ev[k]
    BY <2>1, <2>2
  <2> HIDE DEF N
  <2>4. n \notin 1..N
    BY <1>10, <2>1, <2>3
  <2> QED  BY <2>3, <2>4
<1> QED  BY <1>7, <1>9, <1>10 DEF Placed, d, m, b, e1, e2

LEMMA CodecStep ==
  ASSUME CodecInv, [CodecNext]_codecVars
  PROVE  CodecInv'
<1>1. /\ options \in [strict : BOOLEAN, keep : BOOLEAN] /\ chunks \in Seq(Deltas) /\ Len(chunks) <= MaxChunks
      /\ phase \in {"streaming", "ended", "failed"} /\ codec \in Codecs
  BY DEF CodecInv, CodecTypeOK
<1>2. ASSUME Going(codec)', options' = options, phase' = phase,
             chunks' \in Seq(Deltas), Len(chunks') <= MaxChunks
      PROVE  CodecInv'
  <2>1. CodecTypeOK'
    BY <1>1, <1>2 DEF CodecTypeOK, Going
  <2>2. Shape(codec)'
    BY <1>2 DEF Going
  <2>3. StreamShape'
    BY <2>2 DEF Shape, Placed, StreamShape
  <2> QED  BY <2>1, <2>2, <2>3 DEF CodecInv
<1>3. CASE Push
  <2>1. PICK chunk \in Deltas :
          /\ Room /\ chunks' = Append(chunks, chunk) /\ codec' = Encoded(codec, chunk, Len(chunks) + 1)
          /\ UNCHANGED <<options, phase>>
    BY <1>3 DEF Push
  <2>2. Shape(codec) /\ Len(chunks) < MaxChunks
    BY <2>1 DEF Room, CodecInv
  <2>3. Len(chunks) + 1 \in Nat /\ chunks' \in Seq(Deltas) /\ Len(chunks') = Len(chunks) + 1
    BY <1>1, <2>1
  <2> DEFINE d == Encoded(codec, chunk, Len(chunks) + 1)
  <2>4. Going(d)
    BY <1>1, <2>2, <2>3, EncodedGoes
  <2>5. Going(codec')
    BY <2>1, <2>4
  <2>6. Going(codec)'
    BY <2>5
  <2> HIDE DEF d
  <2>7. Len(chunks') <= MaxChunks
    BY <1>1, <2>2, <2>3, CodecAssumption
  <2> QED  BY <1>2, <2>1, <2>3, <2>6, <2>7
<1>4. CASE PushBare
  <2>1. Shape(codec) /\ codec' = Started(codec) /\ UNCHANGED <<options, chunks, phase>>
    BY <1>4 DEF PushBare, Room, CodecInv
  <2>2. Going(codec)'
    BY <1>1, <2>1, StartedGoes
  <2> QED  BY <1>1, <1>2, <2>1, <2>2
<1>5. CASE PushDone
  <2> DEFINE d == [codec EXCEPT !.done = TRUE]
  <2>1. phase = "streaming" /\ Shape(codec) /\ codec' = d /\ UNCHANGED <<options, chunks, phase>>
    BY <1>5 DEF PushDone, CodecInv
  <2>2. /\ d \in Codecs /\ d.events = codec.events /\ d.next = codec.next /\ d.open = codec.open
        /\ d.tools = codec.tools /\ d.started = codec.started
    BY <1>1 DEF Codecs
  <2> HIDE DEF d
  <2>3. Shape(codec')
    BY <2>1, <2>2 DEF Shape
  <2>4. CodecTypeOK'
    BY <1>1, <2>1, <2>2 DEF CodecTypeOK
  <2>5. StreamShape'
    BY <2>3 DEF Shape, Placed, StreamShape
  <2> QED  BY <2>3, <2>4, <2>5 DEF CodecInv
<1>6. CASE Throw
  <2>1. phase = "streaming" /\ phase' = "failed" /\ UNCHANGED <<options, chunks, codec>>
    BY <1>6 DEF Throw
  <2>2. CodecTypeOK' /\ StreamShape' /\ Shape(codec)'
    BY <1>1, <2>1 DEF CodecInv, CodecTypeOK, StreamShape, Shape
  <2> QED  BY <2>2 DEF CodecInv
<1>7. CASE End
  <2> DEFINE reason == StopReason(codec.finish)
             d == Emit(Emit(CloseOpen(Started(codec)), Event("message_delta", 0, reason, <<>>)),
                       Event("message_stop", 0, "message", <<>>))
  <2>1. phase = "streaming" /\ phase' = "ended" /\ codec' = d /\ UNCHANGED <<options, chunks>>
    BY <1>7 DEF End
  <2>2. reason \in {"max_tokens", "tool_use", "end_turn"}
    BY DEF StopReason
  <2>3. Shape(codec)
    BY <2>1 DEF CodecInv
  <2> HIDE DEF reason
  <2>4. /\ d \in Codecs
        /\ \A n \in DOMAIN d.events :
              WellPlaced(d.events, n) /\ (d.events[n].type = "message_stop" => n = Len(d.events))
    BY <1>1, <2>2, <2>3, EndShape
  <2> HIDE DEF d
  <2>5. StreamShape'
    BY <2>1, <2>4 DEF StreamShape
  <2>6. CodecTypeOK'
    BY <1>1, <2>1, <2>4 DEF CodecTypeOK
  <2> QED  BY <2>1, <2>5, <2>6 DEF CodecInv
<1>8. CASE UNCHANGED codecVars
  <2>1. UNCHANGED <<options, chunks, codec, phase>>
    BY <1>8 DEF codecVars
  <2> QED  BY <1>1, <2>1 DEF CodecInv, CodecTypeOK, StreamShape, Shape
<1> QED  BY <1>3, <1>4, <1>5, <1>6, <1>7, <1>8 DEF CodecNext

LEMMA CodecInvariant == CodecSpec => []CodecInv
BY CodecStart, CodecStep, PTL DEF CodecSpec

\* The encoder's state is what its callers take it for; a call that came has a
\* block number for as long as the stream lasts.
THEOREM CodecTypes == CodecSpec => []CodecTypeOK
BY CodecInvariant, PTL DEF CodecInv

\* However many chunks an upstream sends, with as many pieces of as many tool
\* calls each, and wherever the stream fails, ends or is cut, the events pushed
\* so far have the shape that clients of the Messages protocol parse (push and
\* end of createAnthropicStreamCodec).
THEOREM StreamsAreWellFormed == CodecSpec => []StreamShape
BY CodecInvariant, PTL DEF CodecInv

-----------------------------------------------------------------------------
(* Nothing is lost, doubled or reordered                                   *)

\* Whose piece a delta is: all text is one voice, all reasoning another, and
\* every tool block is one of its own.
Voice(e) == <<e.kind, IF e.kind = "tool" THEN e.index ELSE 0>>

\* The chunks a voice has spoken for: a delta carries the number of its chunk.
Numbers(ev, v) == {ev[k].body[1] : k \in {j \in DOMAIN ev : ev[j].type = "delta" /\ Voice(ev[j]) = v}}

\* Pieces keep the order of their chunks; text and reasoning come once a chunk.
Rising(ev) ==
  \A j, k \in DOMAIN ev :
      (j < k /\ ev[j].type = "delta" /\ ev[k].type = "delta" /\ Voice(ev[j]) = Voice(ev[k])) =>
          \/ ev[j].body[1] < ev[k].body[1]
          \/ ev[k].kind = "tool" /\ ev[j].body[1] = ev[k].body[1]

\* Every delta carries one number, of a chunk that was pushed.
Loud(ev, n) == \A k \in DOMAIN ev : ev[k].type = "delta" => \E m \in 1..n : ev[k].body = <<m>>

TextOf(cs) == {n \in DOMAIN cs : cs[n].content}
ReasonsOf(cs) == {n \in DOMAIN cs : cs[n].reasoning /\ options.keep}
CallsOf(cs) == {i \in CallNumbers : \E n \in DOMAIN cs : \E k \in DOMAIN cs[n].calls : cs[n].calls[k].index = i}
ArgumentsOf(cs) ==
  [i \in CallNumbers |->
      {n \in DOMAIN cs : \E k \in DOMAIN cs[n].calls : cs[n].calls[k].index = i /\ cs[n].calls[k].args}]

\* What the events of an encoder say: which text, reasoning and arguments, and
\* which calls have a block, each its own.
Carries(c, text, reasons, arguments, calls, n) ==
  /\ Loud(c.events, n) /\ Rising(c.events)
  /\ Numbers(c.events, <<"text", 0>>) = text
  /\ Numbers(c.events, <<"thinking", 0>>) = reasons
  /\ \A i \in CallNumbers : c.tools[i] # NoBlock <=> i \in calls
  /\ \A i \in calls : c.tools[i] < c.next /\ Numbers(c.events, <<"tool", c.tools[i]>>) = arguments[i]
  /\ \A i \in CallNumbers \ calls : arguments[i] = {}
  /\ \A i, j \in calls : c.tools[i] = c.tools[j] => i = j
  /\ \A m \in Nat : m >= c.next => Numbers(c.events, <<"tool", m>>) = {}

Mute(ev, f) ==
  /\ \A v : Numbers(f, v) = Numbers(ev, v)
  /\ Rising(ev) => Rising(f)
  /\ \A n : Loud(ev, n) => Loud(f, n)

\* What the next event adds to its voice, and to no other.
LEMMA NumbersGrow ==
  ASSUME NEW ev \in Seq(Events), NEW e \in Events, NEW v
  PROVE  Numbers(Append(ev, e), v) =
             Numbers(ev, v) \cup (IF e.type = "delta" /\ Voice(e) = v THEN {e.body[1]} ELSE {})
<1> DEFINE N == Len(ev)
           f == Append(ev, e)
           Of(g) == {j \in DOMAIN g : g[j].type = "delta" /\ Voice(g[j]) = v}
<1>1. /\ N \in Nat /\ DOMAIN ev = 1..N /\ DOMAIN f = 1..(N + 1) /\ f[N + 1] = e /\ \A k \in 1..N : f[k] = ev[k]
  OBVIOUS
<1>2. 1..(N + 1) = 1..N \cup {N + 1} /\ N + 1 \notin 1..N
  BY <1>1
<1> HIDE DEF f, N
<1>3. Of(f) = Of(ev) \cup (IF e.type = "delta" /\ Voice(e) = v THEN {N + 1} ELSE {})
  BY <1>1, <1>2
<1>4. Of(ev) \subseteq 1..N
  BY <1>1
<1> HIDE DEF Of
<1>5. {f[k].body[1] : k \in Of(f)} =
          {ev[k].body[1] : k \in Of(ev)} \cup (IF e.type = "delta" /\ Voice(e) = v THEN {e.body[1]} ELSE {})
  BY <1>1, <1>3, <1>4
<1> QED  BY <1>5 DEF Numbers, Of, f

LEMMA RisingGrows ==
  ASSUME NEW ev \in Seq(Events), NEW e \in Events, Rising(ev),
         e.type = "delta" => \A m \in Numbers(ev, Voice(e)) :
             m < e.body[1] \/ (e.kind = "tool" /\ m = e.body[1])
  PROVE  Rising(Append(ev, e))
<1> DEFINE N == Len(ev)
           f == Append(ev, e)
<1>1. /\ N \in Nat /\ DOMAIN ev = 1..N /\ DOMAIN f = 1..(N + 1) /\ f[N + 1] = e /\ \A k \in 1..N : f[k] = ev[k]
  OBVIOUS
<1> HIDE DEF f, N
<1>2. ASSUME NEW j \in DOMAIN f, NEW k \in DOMAIN f, j < k, f[j].type = "delta", f[k].type = "delta",
             Voice(f[j]) = Voice(f[k])
      PROVE  f[j].body[1] < f[k].body[1] \/ (f[k].kind = "tool" /\ f[j].body[1] = f[k].body[1])
  <2>1. j \in 1..N /\ f[j] = ev[j]
    BY <1>1, <1>2
  <2>2. CASE k \in 1..N
    BY <1>1, <1>2, <2>1, <2>2 DEF Rising
  <2>3. CASE k = N + 1
    <3>1. f[k] = e /\ Voice(ev[j]) = Voice(e) /\ ev[j].type = "delta" /\ e.type = "delta"
      BY <1>1, <1>2, <2>1, <2>3
    <3>2. ev[j].body[1] \in Numbers(ev, Voice(e))
      BY <1>1, <2>1, <3>1 DEF Numbers
    <3> QED  BY <2>1, <3>1, <3>2
  <2> QED  BY <1>1, <2>2, <2>3
<1> QED  BY <1>2 DEF Rising, f

LEMMA LoudGrows ==
  ASSUME NEW ev \in Seq(Events), NEW e \in Events, NEW n, Loud(ev, n),
         e.type = "delta" => \E m \in 1..n : e.body = <<m>>
  PROVE  Loud(Append(ev, e), n)
<1> DEFINE N == Len(ev)
           f == Append(ev, e)
<1>1. /\ N \in Nat /\ DOMAIN ev = 1..N /\ DOMAIN f = 1..(N + 1) /\ f[N + 1] = e /\ \A k \in 1..N : f[k] = ev[k]
  OBVIOUS
<1> HIDE DEF f, N
<1>2. ASSUME NEW k \in DOMAIN f, f[k].type = "delta"
      PROVE  \E m \in 1..n : f[k].body = <<m>>
  <2>1. CASE k \in 1..N
    BY <1>1, <1>2, <2>1 DEF Loud
  <2>2. CASE k = N + 1
    BY <1>1, <1>2, <2>2
  <2> QED  BY <1>1, <2>1, <2>2
<1> QED  BY <1>2 DEF Loud, f

\* Events that are no deltas say nothing.
LEMMA MuteEvent ==
  ASSUME NEW ev \in Seq(Events), NEW e \in Events, e.type # "delta"
  PROVE  Mute(ev, Append(ev, e))
<1>1. ASSUME NEW v
      PROVE  Numbers(Append(ev, e), v) = Numbers(ev, v)
  <2>1. Numbers(Append(ev, e), v) = Numbers(ev, v) \cup (IF e.type = "delta" /\ Voice(e) = v THEN {e.body[1]} ELSE {})
    BY NumbersGrow
  <2> QED  BY <2>1
<1>2. Rising(ev) => Rising(Append(ev, e))
  BY RisingGrows
<1>3. \A n : Loud(ev, n) => Loud(Append(ev, e), n)
  BY LoudGrows
<1> QED  BY <1>1, <1>2, <1>3 DEF Mute

LEMMA MuteStarted ==
  ASSUME NEW c \in Codecs
  PROVE  /\ Mute(c.events, Started(c).events)
         /\ Started(c).tools = c.tools /\ Started(c).next = c.next
<1>1. CASE c.started
  BY <1>1 DEF Started, Mute
<1>2. CASE ~c.started
  <2> DEFINE e == Event("message_start", 0, "message", <<>>)
             m == Emit(c, e)
  <2>1. e \in Events /\ e.type # "delta"
    BY MessageEvent
  <2>2. Started(c) = [m EXCEPT !.started = TRUE]
    BY <1>2 DEF Started
  <2> HIDE DEF e
  <2>3. m \in Codecs /\ m.events = Append(c.events, e) /\ m.tools = c.tools /\ m.next = c.next
    BY <2>1, Emitted
  <2> HIDE DEF m
  <2>4. Started(c).events = Append(c.events, e) /\ Started(c).tools = c.tools /\ Started(c).next = c.next
    BY <2>2, <2>3 DEF Codecs
  <2> QED  BY <2>1, <2>4, MuteEvent, CodecFields
<1> QED  BY <1>1, <1>2, CodecFields

LEMMA MuteClosed ==
  ASSUME NEW c \in Codecs
  PROVE  Mute(c.events, CloseOpen(c).events)
<1>1. CASE c.open = NoBlock
  BY <1>1 DEF CloseOpen, Mute
<1>2. CASE c.open # NoBlock
  <2> DEFINE e == Event("block_stop", c.open.index, c.open.kind, <<>>)
             m == Emit(c, e)
  <2>1. c.open.index \in Nat /\ c.open.kind \in BlockKinds
    BY <1>2, CodecFields
  <2>2. e \in Events /\ e.type # "delta"
    BY <2>1, BlockEvent
  <2>3. CloseOpen(c) = [m EXCEPT !.open = NoBlock]
    BY <1>2 DEF CloseOpen
  <2> HIDE DEF e
  <2>4. m \in Codecs /\ m.events = Append(c.events, e)
    BY <2>2, Emitted
  <2> HIDE DEF m
  <2>5. CloseOpen(c).events = Append(c.events, e)
    BY <2>3, <2>4 DEF Codecs
  <2> QED  BY <2>2, <2>5, MuteEvent, CodecFields
<1> QED  BY <1>1, <1>2

LEMMA MuteTwice ==
  ASSUME NEW a, NEW b, NEW c, Mute(a, b), Mute(b, c)
  PROVE  Mute(a, c)
BY DEF Mute

LEMMA MuteOpened ==
  ASSUME NEW c, Going(c), NEW kind \in BlockKinds
  PROVE  Mute(c.events, OpenBlock(c, kind).events)
<1> DEFINE b == CloseOpen(c)
           e == Event("block_start", c.next, kind, <<>>)
           m == Emit(b, e)
           block == [index |-> c.next, kind |-> kind]
<1>1. c \in Codecs /\ c.next \in Nat
  BY CodecFields DEF Going
<1>2. b \in Codecs /\ Mute(c.events, b.events)
  BY <1>1, ClosedGoes, MuteClosed DEF Going
<1>3. OpenBlock(c, kind) = [m EXCEPT !.open = block, !.next = @ + 1]
  BY DEF OpenBlock
<1>4. e \in Events /\ e.type # "delta"
  BY <1>1, BlockEvent
<1> HIDE DEF b, e, block
<1>5. m \in Codecs /\ m.events = Append(b.events, e)
  BY <1>2, <1>4, Emitted
<1> HIDE DEF m
<1>6. OpenBlock(c, kind).events = Append(b.events, e)
  BY <1>3, <1>5 DEF Codecs
<1>7. Mute(b.events, OpenBlock(c, kind).events)
  BY <1>2, <1>4, <1>6, MuteEvent, CodecFields
<1> QED  BY <1>2, <1>7, MuteTwice

LEMMA MuteCarries ==
  ASSUME NEW c \in Codecs, NEW T, NEW R, NEW A, NEW S \in SUBSET CallNumbers, NEW n, Carries(c, T, R, A, S, n),
         NEW d, Mute(c.events, d.events), d.tools = c.tools, d.next \in Nat, d.next >= c.next
  PROVE  Carries(d, T, R, A, S, n)
<1>1. c.next \in Nat /\ c.tools \in [CallNumbers -> Nat \cup {NoBlock}]
  BY CodecFields
<1>2. Loud(d.events, n) /\ Rising(d.events) /\ \A v : Numbers(d.events, v) = Numbers(c.events, v)
  BY DEF Mute, Carries
<1>3. ASSUME NEW i \in S
      PROVE  d.tools[i] < d.next /\ Numbers(d.events, <<"tool", d.tools[i]>>) = A[i]
  <2>1. c.tools[i] \in Nat /\ c.tools[i] < c.next /\ Numbers(c.events, <<"tool", c.tools[i]>>) = A[i]
    BY <1>1, <1>3 DEF Carries
  <2> QED  BY <1>1, <1>2, <2>1
<1>4. \A m \in Nat : m >= d.next => Numbers(d.events, <<"tool", m>>) = {}
  <2>1. \A m \in Nat : m >= d.next => m >= c.next
    BY <1>1
  <2> QED  BY <1>2, <2>1 DEF Carries
<1> QED  BY <1>2, <1>3, <1>4 DEF Carries

\* What a voice says may follow what it has said.
MaySay(c, v, kind, n) == \A m \in Numbers(c.events, v) : m < n \/ (kind = "tool" /\ m = n)

\* The number of a chunk is said by one voice.
Utters(c, d, v, n) ==
  /\ Loud(d.events, n) /\ Rising(d.events) /\ d.tools = c.tools /\ d.next = c.next
  /\ Numbers(d.events, v) = Numbers(c.events, v) \cup {n}
  /\ \A w : w # v => Numbers(d.events, w) = Numbers(c.events, w)

LEMMA DeltaSays ==
  ASSUME NEW c \in Codecs, NEW n \in Nat \ {0}, Loud(c.events, n), Rising(c.events),
         NEW index \in Nat, NEW kind \in BlockKinds, NEW v, v = <<kind, IF kind = "tool" THEN index ELSE 0>>,
         MaySay(c, v, kind, n)
  PROVE  Utters(c, Emit(c, Event("delta", index, kind, <<n>>)), v, n)
<1> DEFINE e == Event("delta", index, kind, <<n>>)
           d == Emit(c, e)
<1>1. e \in Events /\ e.type = "delta" /\ e.index = index /\ e.kind = kind
  BY DeltaEvent
<1>2. e.body = <<n>> /\ e.body[1] = n
  BY DEF Event
<1>3. Voice(e) = v
  BY <1>1 DEF Voice
<1>4. c.events \in Seq(Events)
  BY CodecFields
<1> HIDE DEF e
<1>5. d.events = Append(c.events, e) /\ d.tools = c.tools /\ d.next = c.next
  BY <1>1, Emitted
<1> HIDE DEF d
<1>6. Loud(d.events, n)
  <2>1. n \in 1..n
    OBVIOUS
  <2> QED  BY <1>1, <1>2, <1>4, <1>5, <2>1, LoudGrows
<1>7. Rising(d.events)
  BY <1>1, <1>2, <1>3, <1>4, <1>5, RisingGrows DEF MaySay
<1>8. Numbers(d.events, v) = Numbers(c.events, v) \cup {n}
  BY <1>1, <1>2, <1>3, <1>4, <1>5, NumbersGrow
<1>9. ASSUME NEW w, w # v
      PROVE  Numbers(d.events, w) = Numbers(c.events, w)
  <2>1. Numbers(Append(c.events, e), w) =
            Numbers(c.events, w) \cup (IF e.type = "delta" /\ Voice(e) = w THEN {e.body[1]} ELSE {})
    BY <1>1, <1>4, NumbersGrow
  <2> QED  BY <1>3, <1>5, <1>9, <2>1
<1> QED  BY <1>5, <1>6, <1>7, <1>8, <1>9 DEF Utters, d, e

\* Marks of the state that are no events.
LEMMA MarkedCarries ==
  ASSUME NEW c \in Codecs, NEW T, NEW R, NEW A, NEW S, NEW n, Carries(c, T, R, A, S, n),
         NEW d, d.events = c.events, d.tools = c.tools, d.next = c.next
  PROVE  Carries(d, T, R, A, S, n)
BY DEF Carries

LEMMA ReasoningSays ==
  ASSUME NEW c, Going(c), NEW n \in Nat \ {0}, NEW T, NEW R \in SUBSET (1..(n - 1)), NEW A,
         NEW S \in SUBSET CallNumbers, Carries(c, T, R, A, S, n)
  PROVE  Carries(PushReasoning(c, n), T, IF options.keep THEN R \cup {n} ELSE R, A, S, n)
<1>1. c \in Codecs /\ c.next \in Nat
  BY CodecFields DEF Going
<1>2. CASE ~options.keep
  <2>1. /\ PushReasoning(c, n) = [c EXCEPT !.semantic = TRUE]
        /\ PushReasoning(c, n).events = c.events /\ PushReasoning(c, n).tools = c.tools
        /\ PushReasoning(c, n).next = c.next
    BY <1>2, MarkedGoes DEF PushReasoning
  <2> QED  BY <1>1, <1>2, <2>1, MarkedCarries
<1>3. CASE options.keep
  <2> DEFINE opened == OpenBlock(c, "thinking")
             said == Emit(opened, Event("delta", c.next, "thinking", <<n>>))
             marked == [said EXCEPT !.semantic = TRUE]
             v == <<"thinking", 0>>
  <2>1. "thinking" \in BlockKinds
    BY DEF BlockKinds
  <2>2. /\ Going(opened) /\ opened.open = [index |-> c.next, kind |-> "thinking"] /\ opened.open # NoBlock
        /\ HasStart(opened.events, c.next, "thinking") /\ opened.tools = c.tools /\ opened.next = c.next + 1
    BY <2>1, OpenedGoes
  <2>3. Mute(c.events, opened.events)
    BY <2>1, MuteOpened
  <2>4. opened.open.index = c.next
    BY <2>2
  <2> HIDE DEF opened
  <2>5. opened \in Codecs /\ opened.next \in Nat /\ opened.next >= c.next
    BY <1>1, <2>2 DEF Going
  <2>6. Carries(opened, T, R, A, S, n)
    BY <1>1, <2>2, <2>3, <2>5, MuteCarries
  <2>7. Going(said) /\ said.next = opened.next /\ said.tools = opened.tools
    BY <1>1, <2>1, <2>2, <2>4, DeltaGoes
  <2>8. v = <<"thinking", IF "thinking" = "tool" THEN c.next ELSE 0>>
    OBVIOUS
  <2>9. Numbers(opened.events, v) = R /\ Loud(opened.events, n) /\ Rising(opened.events)
    BY <2>6 DEF Carries
  <2> HIDE DEF v
  <2>10. MaySay(opened, v, "thinking", n)
    <3>1. \A m \in R : m < n
      OBVIOUS
    <3> QED  BY <2>9, <3>1 DEF MaySay
  <2> HIDE DEF v
  <2>11. /\ Loud(said.events, n) /\ Rising(said.events)
         /\ Numbers(said.events, v) = R \cup {n}
         /\ \A w : w # v => Numbers(said.events, w) = Numbers(opened.events, w)
    <3>1. Utters(opened, said, v, n)
      BY <1>1, <2>1, <2>5, <2>8, <2>9, <2>10, DeltaSays
    <3> HIDE DEF said
    <3> QED  BY <2>9, <3>1 DEF Utters
  <2> HIDE DEF said
  <2>12. Carries(said, T, R \cup {n}, A, S, n)
    <3>1. <<"text", 0>> # v /\ \A m : <<"tool", m>> # v
      BY DEF v
    <3>2. Numbers(said.events, <<"text", 0>>) = T /\ Numbers(said.events, <<"thinking", 0>>) = R \cup {n}
      BY <2>6, <2>11, <3>1 DEF Carries, v
    <3>3. \A m : Numbers(said.events, <<"tool", m>>) = Numbers(opened.events, <<"tool", m>>)
      BY <2>11, <3>1
    <3> QED  BY <2>6, <2>7, <2>11, <3>2, <3>3 DEF Carries
  <2>13. Going(marked) /\ marked.events = said.events /\ marked.next = said.next /\ marked.tools = said.tools
    BY <2>7, MarkedGoes
  <2> HIDE DEF marked
  <2>14. said \in Codecs /\ marked \in Codecs
    BY <2>7, <2>13 DEF Going
  <2>15. Carries(marked, T, R \cup {n}, A, S, n)
    BY <2>12, <2>13, <2>14, MarkedCarries
  <2> DEFINE d == CloseOpen(marked)
  <2>16. d.next = marked.next /\ d.tools = marked.tools /\ Mute(marked.events, d.events)
    BY <2>13, <2>14, ClosedGoes, MuteClosed
  <2> HIDE DEF d
  <2>17. d.next \in Nat /\ d.next >= marked.next
    BY <2>5, <2>7, <2>13, <2>16
  <2>18. Carries(d, T, R \cup {n}, A, S, n)
    BY <2>14, <2>15, <2>16, <2>17, MuteCarries
  <2> QED  BY <1>3, <2>18 DEF PushReasoning, d, marked, said, opened
<1> QED  BY <1>2, <1>3

LEMMA TextSays ==
  ASSUME NEW c, Going(c), NEW n \in Nat \ {0}, NEW T \in SUBSET (1..(n - 1)), NEW R, NEW A,
         NEW S \in SUBSET CallNumbers, Carries(c, T, R, A, S, n)
  PROVE  Carries(PushText(c, n), T \cup {n}, R, A, S, n)
<1> DEFINE opened == OpenText(c)
           said == Emit(opened, Event("delta", opened.open.index, "text", <<n>>))
           v == <<"text", 0>>
<1>1. c \in Codecs /\ c.next \in Nat /\ "text" \in BlockKinds
  BY CodecFields DEF Going, BlockKinds
<1>2. /\ Going(opened) /\ opened.open.index \in Nat /\ Carries(opened, T, R, A, S, n)
      /\ opened.open # NoBlock /\ HasStart(opened.events, opened.open.index, "text")
  <2>1. CASE c.open # NoBlock /\ c.open.kind = "text"
    <3>1. opened = c
      BY <2>1 DEF OpenText
    <3>2. c.open.index \in Nat /\ HasStart(c.events, c.open.index, c.open.kind)
      BY <2>1, CodecFields DEF Going, Shape
    <3> QED  BY <2>1, <3>1, <3>2
  <2>2. CASE ~(c.open # NoBlock /\ c.open.kind = "text")
    <3> DEFINE block == [index |-> c.next, kind |-> "text"]
    <3>1. opened = OpenBlock(c, "text")
      BY <2>2 DEF OpenText
    <3>2. block.index = c.next
      OBVIOUS
    <3> HIDE DEF opened, block
    <3>3. /\ Going(opened) /\ opened.open = block /\ opened.open # NoBlock /\ HasStart(opened.events, c.next, "text")
          /\ opened.tools = c.tools /\ opened.next = c.next + 1
      BY <1>1, <3>1, OpenedGoes DEF block
    <3>4. Mute(c.events, opened.events)
      BY <1>1, <3>1, MuteOpened
    <3>5. opened.next \in Nat /\ opened.next >= c.next
      BY <1>1, <3>3
    <3>6. Carries(opened, T, R, A, S, n)
      BY <1>1, <3>3, <3>4, <3>5, MuteCarries
    <3> QED  BY <1>1, <3>2, <3>3, <3>6
  <2> QED  BY <2>1, <2>2
<1> HIDE DEF opened
<1>3. opened \in Codecs
  BY <1>2 DEF Going
<1>4. Numbers(opened.events, v) = T /\ Loud(opened.events, n) /\ Rising(opened.events)
  BY <1>2 DEF Carries
<1>5. MaySay(opened, v, "text", n)
  <2>1. \A m \in T : m < n
    OBVIOUS
  <2> HIDE DEF v
  <2> QED  BY <1>4, <2>1 DEF MaySay
<1>6. v = <<"text", IF "text" = "tool" THEN opened.open.index ELSE 0>>
  OBVIOUS
<1> HIDE DEF v
<1>7. /\ Loud(said.events, n) /\ Rising(said.events) /\ said.tools = opened.tools /\ said.next = opened.next
      /\ Numbers(said.events, v) = T \cup {n}
      /\ \A w : w # v => Numbers(said.events, w) = Numbers(opened.events, w)
  <2>1. Utters(opened, said, v, n)
    BY <1>1, <1>2, <1>3, <1>4, <1>5, <1>6, DeltaSays
  <2> HIDE DEF said
  <2> QED  BY <1>4, <2>1 DEF Utters
<1> HIDE DEF said
<1>8. Carries(said, T \cup {n}, R, A, S, n)
  <2>1. <<"thinking", 0>> # v /\ \A m : <<"tool", m>> # v
    BY DEF v
  <2>2. Numbers(said.events, <<"thinking", 0>>) = R /\ Numbers(said.events, <<"text", 0>>) = T \cup {n}
    BY <1>2, <1>7, <2>1 DEF Carries, v
  <2>3. \A m : Numbers(said.events, <<"tool", m>>) = Numbers(opened.events, <<"tool", m>>)
    BY <1>7, <2>1
  <2> QED  BY <1>2, <1>7, <2>2, <2>3 DEF Carries
<1>9. Going(said)
  <2>1. opened.open.kind = "text" \/ "text" = "tool" \/ (opened.open # NoBlock /\ opened.open.index = opened.open.index)
    BY <1>2
  <2> QED  BY <1>1, <1>2, <2>1, DeltaGoes DEF said
<1> DEFINE d == [said EXCEPT !.semantic = TRUE]
<1>10. said \in Codecs /\ d.events = said.events /\ d.tools = said.tools /\ d.next = said.next
  BY <1>9, MarkedGoes DEF Going
<1> HIDE DEF d
<1>11. Carries(d, T \cup {n}, R, A, S, n)
  BY <1>8, <1>10, MarkedCarries
<1> QED  BY <1>11 DEF PushText, d, said, opened

LEMMA ToolSays ==
  ASSUME NEW c, Going(c), NEW i \in CallNumbers, NEW n, NEW T, NEW R, NEW A,
         NEW S \in SUBSET CallNumbers, Carries(c, T, R, A, S, n)
  PROVE  Carries(OpenTool(c, i), T, R, A, S \cup {i}, n)
<1>1. c \in Codecs /\ c.next \in Nat /\ c.tools \in [CallNumbers -> Nat \cup {NoBlock}]
  BY CodecFields DEF Going
<1>2. CASE c.tools[i] # NoBlock
  <2>1. i \in S
    BY <1>2 DEF Carries
  <2>2. S \cup {i} = S
    BY <2>1
  <2> QED  BY <1>2, <2>2 DEF OpenTool
<1>3. CASE c.tools[i] = NoBlock
  <2> DEFINE opened == OpenBlock(c, "tool")
             d == [opened EXCEPT !.tools[i] = c.next]
  <2>1. "tool" \in BlockKinds
    BY DEF BlockKinds
  <2>2. Going(opened) /\ opened.tools = c.tools /\ opened.next = c.next + 1 /\ Mute(c.events, opened.events)
    BY <2>1, OpenedGoes, MuteOpened
  <2> HIDE DEF opened
  <2>3. opened \in Codecs
    BY <2>2 DEF Going
  <2>4. d.events = opened.events /\ d.next = c.next + 1 /\ d.tools = [c.tools EXCEPT ![i] = c.next]
    BY <2>2, <2>3 DEF Codecs
  <2> HIDE DEF d
  <2>5. d.tools[i] = c.next /\ \A j \in CallNumbers \ {i} : d.tools[j] = c.tools[j]
    BY <1>1, <2>4
  <2>6. i \notin S /\ A[i] = {} /\ c.next # NoBlock
    BY <1>1, <1>3, CodecAssumption DEF Carries
  <2>7. Loud(d.events, n) /\ Rising(d.events) /\ \A v : Numbers(d.events, v) = Numbers(c.events, v)
    BY <2>2, <2>4 DEF Mute, Carries
  <2>8. ASSUME NEW j \in S
        PROVE  /\ c.tools[j] \in Nat /\ c.tools[j] < c.next /\ d.tools[j] = c.tools[j]
               /\ d.tools[j] < d.next /\ Numbers(d.events, <<"tool", d.tools[j]>>) = A[j]
    <3>1. c.tools[j] \in Nat /\ c.tools[j] < c.next /\ Numbers(c.events, <<"tool", c.tools[j]>>) = A[j]
      BY <1>1, <2>8 DEF Carries
    <3>2. d.tools[j] = c.tools[j]
      BY <2>5, <2>6, <2>8
    <3>3. c.tools[j] < c.next + 1
      BY <1>1, <3>1
    <3> QED  BY <2>4, <2>7, <3>1, <3>2, <3>3
  <2>9. d.tools[i] < d.next /\ Numbers(d.events, <<"tool", d.tools[i]>>) = A[i]
    <3>1. c.next < c.next + 1 /\ c.next >= c.next
      BY <1>1
    <3>2. Numbers(c.events, <<"tool", c.next>>) = {}
      BY <1>1, <3>1 DEF Carries
    <3> QED  BY <2>4, <2>5, <2>6, <2>7, <3>1, <3>2
  <2>10. \A m \in Nat : m >= d.next => Numbers(d.events, <<"tool", m>>) = {}
    <3>1. \A m \in Nat : m >= c.next + 1 => m >= c.next
      BY <1>1
    <3> QED  BY <2>4, <2>7, <3>1 DEF Carries
  <2>11. \A j, k \in S \cup {i} : d.tools[j] = d.tools[k] => j = k
    <3>1. \A j, k \in S : d.tools[j] = d.tools[k] => j = k
      BY <2>8 DEF Carries
    <3>2. \A j \in S : d.tools[j] # c.next
      <4>1. ASSUME NEW j \in S
            PROVE  d.tools[j] # c.next
        <5>1. c.tools[j] \in Nat /\ c.tools[j] < c.next /\ d.tools[j] = c.tools[j]
          BY <2>8
        <5> QED  BY <1>1, <5>1
      <4> QED  BY <4>1
    <3> QED  BY <2>5, <3>1, <3>2
  <2>12. \A j \in CallNumbers : d.tools[j] # NoBlock <=> j \in S \cup {i}
    BY <2>5, <2>6 DEF Carries
  <2>13. Numbers(d.events, <<"text", 0>>) = T /\ Numbers(d.events, <<"thinking", 0>>) = R
    BY <2>7 DEF Carries
  <2>14. \A j \in S \cup {i} : d.tools[j] < d.next /\ Numbers(d.events, <<"tool", d.tools[j]>>) = A[j]
    BY <2>8, <2>9
  <2>15. \A j \in CallNumbers \ (S \cup {i}) : A[j] = {}
    BY DEF Carries
  <2>16. Carries(d, T, R, A, S \cup {i}, n)
    BY <2>7, <2>10, <2>11, <2>12, <2>13, <2>14, <2>15 DEF Carries
  <2> QED  BY <1>3, <2>16 DEF OpenTool, d, opened
<1> QED  BY <1>2, <1>3

\* Arguments after one more piece.
Argued(A, call, n) == IF call.args THEN [A EXCEPT ![call.index] = A[call.index] \cup {n}] ELSE A

LEMMA CallSays ==
  ASSUME NEW c, Going(c), NEW call \in [index : CallNumbers, args : BOOLEAN, named : BOOLEAN], NEW n \in Nat \ {0},
         NEW T, NEW R, NEW A \in [CallNumbers -> SUBSET (1..n)],
         NEW S \in SUBSET CallNumbers, Carries(c, T, R, A, S, n)
  PROVE  Carries(PushCall(c, call, n), T, R, Argued(A, call, n), S \cup {call.index}, n)
<1> DEFINE i == call.index
           tool == OpenTool(c, i)
           opened == IF call.named \/ call.args THEN [tool EXCEPT !.semantic = TRUE] ELSE tool
           said == Emit(opened, Event("delta", opened.tools[i], "tool", <<n>>))
           U == S \cup {i}
           B == [A EXCEPT ![i] = A[i] \cup {n}]
           v == <<"tool", opened.tools[i]>>
<1>1. i \in CallNumbers /\ U \in SUBSET CallNumbers /\ i \in U
  OBVIOUS
<1>2. Going(tool) /\ tool.tools[i] \in Nat
  BY <1>1, ToolGoes
<1>3. Carries(tool, T, R, A, U, n)
  BY <1>1, ToolSays
<1> HIDE DEF tool
<1>4. tool \in Codecs /\ Going(opened) /\ opened.events = tool.events /\ opened.tools = tool.tools /\ opened.next = tool.next
  BY <1>2, MarkedGoes DEF Going
<1> HIDE DEF opened
<1>5. opened \in Codecs /\ opened.tools[i] \in Nat
  BY <1>2, <1>4 DEF Going
<1> HIDE DEF i, U
<1>6. Carries(opened, T, R, A, U, n)
  BY <1>3, <1>4, MarkedCarries
<1>7. Numbers(opened.events, v) = A[i] /\ Loud(opened.events, n) /\ Rising(opened.events)
  BY <1>1, <1>6 DEF Carries
<1>8. MaySay(opened, v, "tool", n)
  <2>1. A[i] \in SUBSET (1..n)
    BY <1>1
  <2>2. \A m \in A[i] : m < n \/ m = n
    BY <2>1
  <2> HIDE DEF v
  <2> QED  BY <1>7, <2>2 DEF MaySay
<1>9. v = <<"tool", IF "tool" = "tool" THEN opened.tools[i] ELSE 0>> /\ "tool" \in BlockKinds
  BY DEF BlockKinds
<1> HIDE DEF v
<1>10. Utters(opened, said, v, n)
  BY <1>5, <1>7, <1>8, <1>9, DeltaSays
<1> HIDE DEF said
<1>11. /\ B \in [CallNumbers -> SUBSET (1..n)] /\ B[i] = A[i] \cup {n}
       /\ \A j \in CallNumbers \ {i} : B[j] = A[j]
  <2>1. n \in 1..n
    OBVIOUS
  <2> QED  BY <1>1, <2>1
<1> HIDE DEF B
<1>12. Carries(said, T, R, B, U, n)
  <2>1. <<"text", 0>> # v /\ <<"thinking", 0>> # v /\ \A m : m # opened.tools[i] => <<"tool", m>> # v
    BY DEF v
  <2>2. /\ Loud(said.events, n) /\ Rising(said.events) /\ said.tools = opened.tools /\ said.next = opened.next
        /\ Numbers(said.events, v) = A[i] \cup {n}
        /\ \A w : w # v => Numbers(said.events, w) = Numbers(opened.events, w)
    BY <1>7, <1>10 DEF Utters
  <2>3. Numbers(said.events, <<"text", 0>>) = T /\ Numbers(said.events, <<"thinking", 0>>) = R
    BY <1>6, <2>1, <2>2 DEF Carries
  <2>4. ASSUME NEW j \in U
        PROVE  said.tools[j] < said.next /\ Numbers(said.events, <<"tool", said.tools[j]>>) = B[j]
    <3>1. said.tools[j] < said.next /\ Numbers(opened.events, <<"tool", said.tools[j]>>) = A[j]
      BY <1>6, <2>2, <2>4 DEF Carries
    <3>2. CASE j = i
      BY <1>11, <2>2, <3>1, <3>2 DEF v
    <3>3. CASE j # i
      <4>1. opened.tools[j] # opened.tools[i]
        BY <1>1, <1>6, <2>4, <3>3 DEF Carries
      <4>2. <<"tool", said.tools[j]>> # v
        BY <2>1, <2>2, <4>1
      <4>3. j \in CallNumbers
        BY <1>1, <2>4
      <4> QED  BY <1>11, <2>2, <3>1, <3>3, <4>2, <4>3
    <3> QED  BY <3>2, <3>3
  <2>5. \A j \in CallNumbers \ U : B[j] = {}
    BY <1>1, <1>6, <1>11 DEF Carries
  <2>6. ASSUME NEW m \in Nat, m >= said.next
        PROVE  Numbers(said.events, <<"tool", m>>) = {}
    <3>1. opened.tools[i] < opened.next /\ opened.next \in Nat
      BY <1>1, <1>5, <1>6, CodecFields DEF Carries
    <3>2. m # opened.tools[i]
      BY <1>5, <2>2, <2>6, <3>1
    <3>3. <<"tool", m>> # v
      BY <2>1, <3>2
    <3> QED  BY <1>6, <2>2, <2>6, <3>3 DEF Carries
  <2> QED  BY <1>6, <2>2, <2>3, <2>4, <2>5, <2>6 DEF Carries
<1>13. CASE call.args
  BY <1>12, <1>13 DEF PushCall, Argued, said, opened, tool, B, U, i
<1>14. CASE ~call.args
  BY <1>6, <1>14 DEF PushCall, Argued, opened, tool, U, i
<1> QED  BY <1>13, <1>14

\* What the first k calls of the n-th chunk add.
ArgumentsUpto(A, calls, k, n) ==
  [i \in CallNumbers |-> A[i] \cup {m \in {n} : \E j \in 1..k : calls[j].index = i /\ calls[j].args}]
CallsUpto(S, calls, k) == S \cup {calls[j].index : j \in 1..k}

LEMMA PiecesSay ==
  ASSUME NEW calls \in Seq([index : CallNumbers, args : BOOLEAN, named : BOOLEAN]), NEW n \in Nat \ {0},
         NEW f, NEW text, Pushing(f, text, calls, n),
         NEW T, NEW R, NEW A \in [CallNumbers -> SUBSET (1..n)],
         NEW S \in SUBSET CallNumbers, Carries(text, T, R, A, S, n)
  PROVE  Carries(f[Len(calls)], T, R, ArgumentsUpto(A, calls, Len(calls), n), CallsUpto(S, calls, Len(calls)), n)
<1> DEFINE N == Len(calls)
           Call == [index : CallNumbers, args : BOOLEAN, named : BOOLEAN]
           K == {k \in 0..N : Carries(f[k], T, R, ArgumentsUpto(A, calls, k, n), CallsUpto(S, calls, k), n)}
<1>1. N \in Nat /\ \A k \in 1..N : calls[k] \in Call
  BY SequenceFacts
<1>2. /\ f[0] = text /\ \A k \in 1..N : f[k] = PushCall(f[k - 1], calls[k], n)
      /\ \A k \in 0..N : Going(f[k])
  BY DEF Pushing
<1> HIDE DEF N
<1>3. 0 \in K
  <2>1. 1..0 = {} /\ 0 \in 0..N
    BY <1>1
  <2>2. ArgumentsUpto(A, calls, 0, n) = A
    <3>1. \A i \in CallNumbers : A[i] \cup {m \in {n} : \E j \in 1..0 : calls[j].index = i /\ calls[j].args} = A[i]
      BY <2>1
    <3>2. A = [i \in CallNumbers |-> A[i]]
      OBVIOUS
    <3> QED  BY <3>1, <3>2 DEF ArgumentsUpto
  <2>3. CallsUpto(S, calls, 0) = S
    BY <2>1 DEF CallsUpto
  <2> QED  BY <1>2, <2>1, <2>2, <2>3
<1>4. ASSUME NEW k \in 0..(N - 1), k \in K
      PROVE  k + 1 \in K
  <2> DEFINE call == calls[k + 1]
             B == ArgumentsUpto(A, calls, k, n)
             U == CallsUpto(S, calls, k)
  <2>1. k + 1 \in 1..N /\ k + 1 \in 0..N /\ k \in 0..N /\ (k + 1) - 1 = k /\ 1..(k + 1) = 1..k \cup {k + 1}
        /\ n \in 1..n /\ 1..k \subseteq 1..N
    BY <1>1
  <2>2. call \in Call /\ f[k + 1] = PushCall(f[k], call, n) /\ Going(f[k])
    BY <1>1, <1>2, <2>1
  <2>3. B \in [CallNumbers -> SUBSET (1..n)]
    BY <2>1 DEF ArgumentsUpto
  <2>4. U \in SUBSET CallNumbers
    <3>1. \A j \in 1..k : calls[j].index \in CallNumbers
      BY <1>1, <2>1
    <3> QED  BY <3>1 DEF CallsUpto
  <2>5. CallsUpto(S, calls, k + 1) = U \cup {call.index}
    BY <2>1 DEF CallsUpto
  <2>6. ArgumentsUpto(A, calls, k + 1, n) = Argued(B, call, n)
    <3> DEFINE Has(i, j) == calls[j].index = i /\ calls[j].args
    <3>1. ASSUME NEW i \in CallNumbers
          PROVE  ArgumentsUpto(A, calls, k + 1, n)[i] = Argued(B, call, n)[i]
      <4>1. (\E j \in 1..(k + 1) : Has(i, j)) <=> (\E j \in 1..k : Has(i, j)) \/ Has(i, k + 1)
        BY <2>1
      <4>2. ArgumentsUpto(A, calls, k + 1, n)[i] = A[i] \cup {m \in {n} : \E j \in 1..(k + 1) : Has(i, j)}
        BY DEF ArgumentsUpto
      <4>3. B[i] = A[i] \cup {m \in {n} : \E j \in 1..k : Has(i, j)}
        BY DEF ArgumentsUpto
      <4> HIDE DEF B
      <4>4. Argued(B, call, n)[i] = IF Has(i, k + 1) THEN B[i] \cup {n} ELSE B[i]
        <5>1. CASE call.args /\ call.index = i
          BY <2>3, <5>1 DEF Argued
        <5>2. CASE ~(call.args /\ call.index = i)
          BY <2>3, <5>2 DEF Argued
        <5> QED  BY <5>1, <5>2
      <4> HIDE DEF Has
      <4>5. {m \in {n} : \E j \in 1..(k + 1) : Has(i, j)} =
                IF Has(i, k + 1) THEN {n} ELSE {m \in {n} : \E j \in 1..k : Has(i, j)}
        BY <4>1
      <4> QED  BY <4>1, <4>2, <4>3, <4>4, <4>5
    <3>2. ArgumentsUpto(A, calls, k + 1, n) = [i \in CallNumbers |-> ArgumentsUpto(A, calls, k + 1, n)[i]]
      BY DEF ArgumentsUpto
    <3>3. Argued(B, call, n) = [i \in CallNumbers |-> Argued(B, call, n)[i]]
      <4> HIDE DEF B
      <4>1. Argued(B, call, n) \in [CallNumbers -> SUBSET (1..n)]
        <5>1. B[call.index] \cup {n} \in SUBSET (1..n)
          BY <2>1, <2>2, <2>3
        <5> QED  BY <2>3, <5>1 DEF Argued
      <4> QED  BY <4>1
    <3> HIDE DEF B, call
    <3> QED  BY <3>1, <3>2, <3>3
  <2>7. Carries(f[k], T, R, B, U, n)
    BY <1>4
  <2> HIDE DEF B, U, call
  <2>8. Carries(PushCall(f[k], call, n), T, R, Argued(B, call, n), U \cup {call.index}, n)
    BY <2>2, <2>3, <2>4, <2>7, CallSays
  <2> QED  BY <2>1, <2>2, <2>5, <2>6, <2>8
<1>5. N \in K
  <2> HIDE DEF K
  <2>1. \A k \in 0..N : k \in K
    BY <1>1, <1>3, <1>4, Climb
  <2> QED  BY <1>1, <2>1
<1> QED  BY <1>5 DEF N

\* A number of chunks may grow.
LEMMA LoudLonger ==
  ASSUME NEW c, NEW n \in Nat \ {0}, NEW T, NEW R, NEW A, NEW S, Carries(c, T, R, A, S, n - 1)
  PROVE  Carries(c, T, R, A, S, n)
<1>1. \A m \in 1..(n - 1) : m \in 1..n
  OBVIOUS
<1>2. Loud(c.events, n)
  BY <1>1 DEF Carries, Loud
<1> QED  BY <1>2 DEF Carries

LEMMA ChunkSays ==
  ASSUME NEW c \in Codecs, Shape(c), NEW n \in Nat \ {0}, NEW chunk \in Deltas,
         NEW T \in SUBSET (1..(n - 1)), NEW R \in SUBSET (1..(n - 1)),
         NEW A \in [CallNumbers -> SUBSET (1..(n - 1))], NEW S \in SUBSET CallNumbers,
         Carries(c, T, R, A, S, n - 1)
  PROVE  LET N == Len(chunk.calls) IN
         Carries(Encoded(c, chunk, n), IF chunk.content THEN T \cup {n} ELSE T,
                 IF chunk.reasoning /\ options.keep THEN R \cup {n} ELSE R,
                 ArgumentsUpto(A, chunk.calls, N, n), CallsUpto(S, chunk.calls, N), n)
<1> DEFINE N == Len(chunk.calls)
           start == Started(c)
           reason == IF chunk.reasoning THEN PushReasoning(start, n) ELSE start
           text == IF chunk.content THEN PushText(reason, n) ELSE reason
           said == IF chunk.content THEN T \cup {n} ELSE T
           thought == IF chunk.reasoning /\ options.keep THEN R \cup {n} ELSE R
           calls == chunk.calls
           B == ArgumentsUpto(A, calls, N, n)
           U == CallsUpto(S, calls, N)
<1>1. Carries(c, T, R, A, S, n)
  BY LoudLonger
<1>2. Going(start) /\ Mute(c.events, start.events) /\ start.tools = c.tools /\ start.next = c.next /\ c.next \in Nat
  BY StartedGoes, MuteStarted, CodecFields
<1> HIDE DEF start
<1>3. start.next \in Nat /\ start.next >= c.next
  BY <1>2
<1>4. Carries(start, T, R, A, S, n)
  BY <1>1, <1>2, <1>3, MuteCarries
<1>5. Going(reason) /\ Carries(reason, T, thought, A, S, n)
  <2>1. CASE chunk.reasoning
    <3>1. Carries(PushReasoning(start, n), T, IF options.keep THEN R \cup {n} ELSE R, A, S, n)
      BY <1>2, <1>4, ReasoningSays
    <3> QED  BY <1>2, <2>1, <3>1, ReasoningGoes
  <2>2. CASE ~chunk.reasoning
    BY <1>2, <1>4, <2>2
  <2> QED  BY <2>1, <2>2
<1> HIDE DEF reason, thought
<1>6. Carries(text, said, thought, A, S, n)
  <2>1. CASE chunk.content
    BY <1>5, <2>1, TextSays
  <2>2. CASE ~chunk.content
    BY <1>5, <2>2
  <2> QED  BY <2>1, <2>2
<1> HIDE DEF said
<1>7. text = Voiced(c, chunk, n)
  BY DEF Voiced, reason, start
<1> HIDE DEF text
<1>8. PICK f : Pushing(f, text, calls, n) /\ Encoded(c, chunk, n) = Finished(f[N], chunk.finish)
  BY <1>7, EncodedPushes
<1>9. calls \in Seq([index : CallNumbers, args : BOOLEAN, named : BOOLEAN]) /\ chunk.finish \in Finishes
  BY DeltaFields DEF DeltaFieldsOK
<1>10. A \in [CallNumbers -> SUBSET (1..n)]
  <2>1. SUBSET (1..(n - 1)) \subseteq SUBSET (1..n)
    <3>1. 1..(n - 1) \subseteq 1..n
      OBVIOUS
    <3> QED  BY <3>1
  <2> QED  BY <2>1
<1> HIDE DEF calls
<1>11. Carries(f[Len(calls)], said, thought, ArgumentsUpto(A, calls, Len(calls), n), CallsUpto(S, calls, Len(calls)), n)
  BY <1>6, <1>8, <1>9, <1>10, PiecesSay
<1>12. Carries(f[N], said, thought, B, U, n)
  BY <1>11 DEF calls
<1>13. Going(f[N])
  <2>1. Len(calls) \in 0..Len(calls)
    BY <1>9
  <2>2. Going(f[Len(calls)])
    BY <1>8, <2>1 DEF Pushing
  <2> QED  BY <2>2 DEF calls
<1> DEFINE last == f[N]
           d == Finished(last, chunk.finish)
<1>14. last \in Codecs /\ Carries(last, said, thought, B, U, n)
  BY <1>12, <1>13 DEF Going
<1> HIDE DEF last, B, U
<1>15. d.events = last.events /\ d.tools = last.tools /\ d.next = last.next
  BY <1>14 DEF Finished, Codecs
<1> HIDE DEF d
<1>16. Carries(d, said, thought, B, U, n)
  BY <1>14, <1>15, MarkedCarries
<1> QED  BY <1>8, <1>16 DEF d, last, B, U, said, thought, calls

\* The chunks of a longer stream.
LEMMA OneMoreChunk ==
  ASSUME NEW cs \in Seq(Deltas), NEW chunk \in Deltas
  PROVE  LET ds == Append(cs, chunk)
             n == Len(cs) + 1
             N == Len(chunk.calls)
         IN  /\ TextOf(ds) = IF chunk.content THEN TextOf(cs) \cup {n} ELSE TextOf(cs)
             /\ ReasonsOf(ds) = IF chunk.reasoning /\ options.keep THEN ReasonsOf(cs) \cup {n} ELSE ReasonsOf(cs)
             /\ ArgumentsOf(ds) = ArgumentsUpto(ArgumentsOf(cs), chunk.calls, N, n)
             /\ CallsOf(ds) = CallsUpto(CallsOf(cs), chunk.calls, N)
<1> DEFINE ds == Append(cs, chunk)
           n == Len(cs) + 1
           N == Len(chunk.calls)
           In(c, i) == \E k \in DOMAIN c.calls : c.calls[k].index = i
           Args(c, i) == \E k \in DOMAIN c.calls : c.calls[k].index = i /\ c.calls[k].args
<1>1. /\ n \in Nat /\ DOMAIN cs = 1..(n - 1) /\ DOMAIN ds = 1..(n - 1) \cup {n} /\ n \notin 1..(n - 1)
      /\ ds[n] = chunk /\ \A m \in 1..(n - 1) : ds[m] = cs[m]
  OBVIOUS
<1>2. chunk.calls \in Seq([index : CallNumbers, args : BOOLEAN, named : BOOLEAN])
  BY DeltaFields DEF DeltaFieldsOK
<1>3. DOMAIN chunk.calls = 1..N /\ \A k \in 1..N : chunk.calls[k] \in [index : CallNumbers, args : BOOLEAN, named : BOOLEAN]
  BY <1>2, SequenceFacts
<1> HIDE DEF ds, n, N
<1>4. TextOf(ds) = IF chunk.content THEN TextOf(cs) \cup {n} ELSE TextOf(cs)
  BY <1>1 DEF TextOf
<1>5. ReasonsOf(ds) = IF chunk.reasoning /\ options.keep THEN ReasonsOf(cs) \cup {n} ELSE ReasonsOf(cs)
  BY <1>1 DEF ReasonsOf
<1>6. ArgumentsOf(ds) = ArgumentsUpto(ArgumentsOf(cs), chunk.calls, N, n)
  <2>1. ASSUME NEW i \in CallNumbers
        PROVE  {m \in DOMAIN ds : Args(ds[m], i)} = {m \in DOMAIN cs : Args(cs[m], i)} \cup {m \in {n} : Args(chunk, i)}
    <3> HIDE DEF Args
    <3> QED  BY <1>1
  <2>2. \A i : Args(chunk, i) <=> \E j \in 1..N : chunk.calls[j].index = i /\ chunk.calls[j].args
    BY <1>3
  <2>3. \A i \in CallNumbers : ArgumentsOf(cs)[i] = {m \in DOMAIN cs : Args(cs[m], i)}
    BY DEF ArgumentsOf
  <2>4. ArgumentsOf(ds) = [i \in CallNumbers |-> {m \in DOMAIN ds : Args(ds[m], i)}]
    BY DEF ArgumentsOf
  <2> DEFINE B == ArgumentsOf(cs)
             E(i) == \E j \in 1..N : chunk.calls[j].index = i /\ chunk.calls[j].args
  <2>5. ArgumentsUpto(B, chunk.calls, N, n) = [i \in CallNumbers |-> B[i] \cup {m \in {n} : E(i)}]
    BY DEF ArgumentsUpto
  <2> HIDE DEF B, Args, E
  <2>6. ASSUME NEW i \in CallNumbers
        PROVE  {m \in DOMAIN ds : Args(ds[m], i)} = B[i] \cup {m \in {n} : E(i)}
    <3>1. Args(chunk, i) <=> E(i)
      BY <2>2 DEF E
    <3>2. B[i] = {m \in DOMAIN cs : Args(cs[m], i)}
      BY <2>3 DEF B
    <3> QED  BY <2>1, <3>1, <3>2
  <2>7. ArgumentsOf(ds) = ArgumentsUpto(B, chunk.calls, N, n)
    BY <2>4, <2>5, <2>6
  <2> QED  BY <2>7 DEF B
<1>7. CallsOf(ds) = CallsUpto(CallsOf(cs), chunk.calls, N)
  <2>1. ASSUME NEW i \in CallNumbers
        PROVE  (\E m \in DOMAIN ds : In(ds[m], i)) <=> (\E m \in DOMAIN cs : In(cs[m], i)) \/ In(chunk, i)
    <3> HIDE DEF In
    <3> QED  BY <1>1
  <2>2. \A i : In(chunk, i) <=> i \in {chunk.calls[j].index : j \in 1..N}
    BY <1>3
  <2>3. {chunk.calls[j].index : j \in 1..N} \subseteq CallNumbers
    BY <1>3
  <2>4. \A i : i \in CallsOf(ds) <=> i \in CallNumbers /\ \E m \in DOMAIN ds : In(ds[m], i)
    BY DEF CallsOf
  <2>5. \A i : i \in CallsOf(cs) <=> i \in CallNumbers /\ \E m \in DOMAIN cs : In(cs[m], i)
    BY DEF CallsOf
  <2> HIDE DEF In
  <2>6. \A i : i \in CallsOf(ds) <=> i \in CallsOf(cs) \/ i \in {chunk.calls[j].index : j \in 1..N}
    BY <2>1, <2>2, <2>3, <2>4, <2>5
  <2> QED  BY <2>6 DEF CallsUpto
<1> QED  BY <1>4, <1>5, <1>6, <1>7 DEF ds, n, N

\* The events sent carry the chunks that were pushed.
EveryPieceArrives ==
  Carries(codec, TextOf(chunks), ReasonsOf(chunks), ArgumentsOf(chunks), CallsOf(chunks), Len(chunks))

LEMMA PiecesStart == CodecInit => EveryPieceArrives
<1> SUFFICES ASSUME CodecInit PROVE EveryPieceArrives
  OBVIOUS
<1> DEFINE none == <<>>
<1>1. codec.events = none /\ codec.next = 0 /\ codec.tools = [i \in CallNumbers |-> NoBlock] /\ chunks = none
  BY DEF CodecInit, NewCodec
<1>2. DOMAIN none = {}
  OBVIOUS
<1> HIDE DEF none
<1>3. TextOf(chunks) = {} /\ ReasonsOf(chunks) = {} /\ CallsOf(chunks) = {} /\ \A i \in CallNumbers : ArgumentsOf(chunks)[i] = {}
  BY <1>1, <1>2 DEF TextOf, ReasonsOf, CallsOf, ArgumentsOf
<1>4. Loud(none, Len(chunks)) /\ Rising(none) /\ \A v : Numbers(none, v) = {}
  BY <1>2 DEF Loud, Rising, Numbers
<1> QED  BY <1>1, <1>3, <1>4 DEF EveryPieceArrives, Carries

LEMMA EndMute ==
  ASSUME NEW c \in Codecs, Shape(c), NEW reason \in {"max_tokens", "tool_use", "end_turn"}
  PROVE  LET d == Emit(Emit(CloseOpen(Started(c)), Event("message_delta", 0, reason, <<>>)),
                       Event("message_stop", 0, "message", <<>>))
         IN  Mute(c.events, d.events) /\ d.tools = c.tools /\ d.next = c.next
<1> DEFINE a == Started(c)
           b == CloseOpen(a)
           e1 == Event("message_delta", 0, reason, <<>>)
           m == Emit(b, e1)
           e2 == Event("message_stop", 0, "message", <<>>)
           d == Emit(m, e2)
<1>1. Going(a) /\ a \in Codecs /\ Mute(c.events, a.events) /\ a.tools = c.tools /\ a.next = c.next
  BY StartedGoes, MuteStarted DEF Going
<1> HIDE DEF a
<1>2. b \in Codecs /\ Mute(a.events, b.events) /\ b.tools = a.tools /\ b.next = a.next
  BY <1>1, ClosedGoes, MuteClosed DEF Going
<1> HIDE DEF b
<1>3. e1 \in Events /\ e1.type # "delta" /\ e2 \in Events /\ e2.type # "delta"
  BY MessageEvent
<1> HIDE DEF e1, e2
<1>4. m \in Codecs /\ m.events = Append(b.events, e1) /\ m.tools = b.tools /\ m.next = b.next
  BY <1>2, <1>3, Emitted
<1> HIDE DEF m
<1>5. d.events = Append(m.events, e2) /\ d.tools = m.tools /\ d.next = m.next
  BY <1>3, <1>4, Emitted
<1> HIDE DEF d
<1>6. Mute(b.events, m.events) /\ Mute(m.events, d.events)
  <2>1. b.events \in Seq(Events) /\ m.events \in Seq(Events)
    BY <1>2, <1>4, CodecFields
  <2>2. Mute(b.events, m.events)
    BY <1>3, <1>4, <2>1, MuteEvent
  <2>3. Mute(m.events, d.events)
    BY <1>3, <1>5, <2>1, MuteEvent
  <2> QED  BY <2>2, <2>3
<1>7. Mute(c.events, d.events)
  BY <1>1, <1>2, <1>6, MuteTwice
<1> QED  BY <1>1, <1>2, <1>4, <1>5, <1>7 DEF d, m, b, a, e1, e2

LEMMA PiecesStep ==
  ASSUME CodecInv, EveryPieceArrives, [CodecNext]_codecVars
  PROVE  EveryPieceArrives'
<1> DEFINE T == TextOf(chunks)
           R == ReasonsOf(chunks)
           A == ArgumentsOf(chunks)
           S == CallsOf(chunks)
           n == Len(chunks)
<1>1. codec \in Codecs /\ codec.next \in Nat /\ chunks \in Seq(Deltas) /\ (phase # "ended" => Shape(codec))
  BY CodecFields DEF CodecInv, CodecTypeOK
<1>2. /\ n \in Nat /\ T \in SUBSET (1..n) /\ R \in SUBSET (1..n) /\ S \in SUBSET CallNumbers
      /\ A \in [CallNumbers -> SUBSET (1..n)]
  <2>1. n \in Nat /\ DOMAIN chunks = 1..n
    BY <1>1
  <2> QED  BY <2>1 DEF TextOf, ReasonsOf, ArgumentsOf, CallsOf
<1> HIDE DEF T, R, A, S, n
<1>3. Carries(codec, T, R, A, S, n)
  BY DEF EveryPieceArrives, T, R, A, S, n
<1>4. ASSUME options' = options, chunks' = chunks, Carries(codec', T, R, A, S, n)
      PROVE  EveryPieceArrives'
  <2>1. T' = T /\ R' = R /\ A' = A /\ S' = S /\ n' = n
    BY <1>4 DEF T, R, A, S, n, TextOf, ReasonsOf, ArgumentsOf, CallsOf
  <2>2. Carries(codec', T', R', A', S', n')
    BY <1>4, <2>1
  <2>3. EveryPieceArrives' <=> Carries(codec', T', R', A', S', n')
    BY DEF EveryPieceArrives, Carries, T, R, A, S, n
  <2> QED  BY <2>2, <2>3
<1>5. ASSUME UNCHANGED <<options, chunks>>, Mute(codec.events, codec'.events), codec'.tools = codec.tools,
             codec'.next = codec.next
      PROVE  EveryPieceArrives'
  <2>1. codec'.next \in Nat /\ codec'.next >= codec.next
    BY <1>1, <1>5
  <2>2. Carries(codec', T, R, A, S, n)
    BY <1>1, <1>2, <1>3, <1>5, <2>1, MuteCarries
  <2> QED  BY <1>4, <1>5, <2>2
<1>6. CASE Push
  <2>1. PICK chunk \in Deltas :
          /\ phase = "streaming" /\ chunks' = Append(chunks, chunk) /\ codec' = Encoded(codec, chunk, n + 1)
          /\ UNCHANGED <<options, phase>>
    BY <1>6 DEF Push, Room, n
  <2> DEFINE N == Len(chunk.calls)
             m == n + 1
  <2>2. m \in Nat \ {0} /\ m - 1 = n
    BY <1>2
  <2>3. Carries(Encoded(codec, chunk, m), IF chunk.content THEN T \cup {m} ELSE T,
                IF chunk.reasoning /\ options.keep THEN R \cup {m} ELSE R,
                ArgumentsUpto(A, chunk.calls, N, m), CallsUpto(S, chunk.calls, N), m)
    <3> HIDE DEF m, N
    <3>1. T \in SUBSET (1..(m - 1)) /\ R \in SUBSET (1..(m - 1)) /\ A \in [CallNumbers -> SUBSET (1..(m - 1))]
          /\ Carries(codec, T, R, A, S, m - 1)
      BY <1>2, <1>3, <2>2
    <3> QED  BY <1>1, <1>2, <2>1, <2>2, <3>1, ChunkSays DEF N
  <2> DEFINE ds == Append(chunks, chunk)
  <2>4. /\ TextOf(ds) = IF chunk.content THEN T \cup {m} ELSE T
        /\ ReasonsOf(ds) = IF chunk.reasoning /\ options.keep THEN R \cup {m} ELSE R
        /\ ArgumentsOf(ds) = ArgumentsUpto(A, chunk.calls, N, m)
        /\ CallsOf(ds) = CallsUpto(S, chunk.calls, N)
    BY <1>1, OneMoreChunk DEF T, R, A, S, n
  <2>5. Len(ds) = m
    BY <1>1 DEF n
  <2> HIDE DEF m, N, ds
  <2>6. Carries(Encoded(codec, chunk, m), TextOf(ds), ReasonsOf(ds), ArgumentsOf(ds), CallsOf(ds), Len(ds))
    BY <2>3, <2>4, <2>5
  <2>7. codec' = Encoded(codec, chunk, m) /\ chunks' = ds /\ options' = options
    BY <2>1 DEF m, ds
  <2>8. Carries(codec', TextOf(ds), ReasonsOf(ds), ArgumentsOf(ds), CallsOf(ds), Len(ds))
    BY <2>6, <2>7
  <2>9. /\ TextOf(chunks)' = TextOf(ds) /\ ReasonsOf(chunks)' = ReasonsOf(ds)
        /\ ArgumentsOf(chunks)' = ArgumentsOf(ds) /\ CallsOf(chunks)' = CallsOf(ds) /\ Len(chunks)' = Len(ds)
    BY <2>7 DEF TextOf, ReasonsOf, ArgumentsOf, CallsOf
  <2>10. EveryPieceArrives' <=>
            Carries(codec', TextOf(chunks)', ReasonsOf(chunks)', ArgumentsOf(chunks)', CallsOf(chunks)', Len(chunks)')
    BY DEF EveryPieceArrives, Carries
  <2> QED  BY <2>8, <2>9, <2>10
<1>7. CASE PushBare
  <2>1. codec' = Started(codec) /\ UNCHANGED <<options, chunks>>
    BY <1>7 DEF PushBare
  <2>2. Mute(codec.events, codec'.events) /\ codec'.tools = codec.tools /\ codec'.next = codec.next
    BY <1>1, <2>1, MuteStarted
  <2> QED  BY <1>5, <2>1, <2>2
<1>8. CASE PushDone
  <2>1. codec' = [codec EXCEPT !.done = TRUE] /\ UNCHANGED <<options, chunks>>
    BY <1>8 DEF PushDone
  <2>2. codec'.events = codec.events /\ codec'.tools = codec.tools /\ codec'.next = codec.next
    BY <1>1, <2>1 DEF Codecs
  <2> QED  BY <1>5, <2>1, <2>2 DEF Mute
<1>9. CASE Throw \/ UNCHANGED codecVars
  <2>1. UNCHANGED <<options, chunks, codec>>
    BY <1>9 DEF Throw, codecVars
  <2> QED  BY <1>3, <1>4, <2>1
<1>10. CASE End
  <2> DEFINE reason == StopReason(codec.finish)
             d == Emit(Emit(CloseOpen(Started(codec)), Event("message_delta", 0, reason, <<>>)),
                       Event("message_stop", 0, "message", <<>>))
  <2>1. phase = "streaming" /\ codec' = d /\ UNCHANGED <<options, chunks>>
    BY <1>10 DEF End
  <2>2. reason \in {"max_tokens", "tool_use", "end_turn"}
    BY DEF StopReason
  <2> HIDE DEF reason
  <2>3. Mute(codec.events, d.events) /\ d.tools = codec.tools /\ d.next = codec.next
    BY <1>1, <2>1, <2>2, EndMute
  <2> HIDE DEF d
  <2> QED  BY <1>5, <2>1, <2>3
<1> QED  BY <1>6, <1>7, <1>8, <1>9, <1>10 DEF CodecNext

\* However an upstream splits its answer into chunks, the events sent say what
\* the chunks said and in their order: every text and every kept reasoning
\* once, the arguments of every tool call in a block of that call alone, and a
\* call without arguments has its block too; nothing else is said.
THEOREM PiecesArrive == CodecSpec => []EveryPieceArrives
<1>1. CodecInv /\ EveryPieceArrives /\ [CodecNext]_codecVars => EveryPieceArrives'
  BY PiecesStep
<1> QED  BY <1>1, PiecesStart, CodecInvariant, PTL DEF CodecSpec

-----------------------------------------------------------------------------
(* Folds as inductions over a sequence                                     *)

\* What holds of the empty sequence, and of a longer one when of a shorter, holds of all.
LEMMA AppendInduction ==
  ASSUME NEW X, NEW T, <<>> \in T, \A s \in Seq(X) : s \in T => \A x \in X : Append(s, x) \in T
  PROVE  Seq(X) \subseteq T
<1> SUFFICES ASSUME NEW s \in Seq(X) PROVE s \in T
  OBVIOUS
<1> DEFINE N == Len(s)
           Up(k) == SubSeq(s, 1, k)
           U == {k \in 0..N : Up(k) \in T}
<1>1. N \in Nat /\ Up(0) = <<>> /\ Up(N) = s
  OBVIOUS
<1>2. ASSUME NEW k \in 0..(N - 1)
      PROVE  Up(k) \in Seq(X) /\ s[k + 1] \in X /\ Up(k + 1) = Append(Up(k), s[k + 1])
  OBVIOUS
<1> HIDE DEF N, Up
<1>3. 0 \in U
  BY <1>1
<1>4. ASSUME NEW k \in 0..(N - 1), k \in U
      PROVE  k + 1 \in U
  <2>1. Up(k) \in T /\ k + 1 \in 0..N
    BY <1>1, <1>4
  <2>2. Append(Up(k), s[k + 1]) \in T
    BY <1>2, <2>1
  <2> QED  BY <1>2, <2>1, <2>2
<1>5. \A k \in 0..N : k \in U
  <2> HIDE DEF U
  <2> QED  BY <1>1, <1>3, <1>4, Climb
<1> QED  BY <1>1, <1>5

\* One more element is filtered on its own.
LEMMA OnlyAppend ==
  ASSUME NEW X, NEW s \in Seq(X), NEW x \in X, NEW set
  PROVE  /\ Only(<<>>, set) = <<>>
         /\ Only(Append(s, x), set) = IF x \in set THEN Append(Only(s, set), x) ELSE Only(s, set)
<1> DEFINE t == Append(s, x)
           N == Len(s)
           Z == <<>>
<1>1. N \in Nat /\ t \in Seq(X) /\ Len(t) = N + 1 /\ t[N + 1] = x /\ \A k \in 1..N : t[k] = s[k]
  OBVIOUS
<1>2. PICK f : Filtering(f, X, s, set) /\ Only(s, set) = f[N]
  BY OnlyFilters
<1> HIDE DEF t
<1>3. PICK g : Filtering(g, X, t, set) /\ Only(t, set) = g[N + 1]
  BY <1>1, OnlyFilters
<1> HIDE DEF N
<1>4. f[0] = <<>> /\ \A k \in 1..N : f[k] = IF s[k] \in set THEN Append(f[k - 1], s[k]) ELSE f[k - 1]
  BY <1>2 DEF Filtering, N
<1>5. g[0] = <<>> /\ \A k \in 1..(N + 1) : g[k] = IF t[k] \in set THEN Append(g[k - 1], t[k]) ELSE g[k - 1]
  BY <1>1, <1>3 DEF Filtering
<1> DEFINE T == {k \in 0..N : f[k] = g[k]}
<1>6. 0 \in T
  BY <1>1, <1>4, <1>5
<1>7. ASSUME NEW k \in 0..(N - 1), k \in T
      PROVE  k + 1 \in T
  <2>1. k + 1 \in 1..N /\ k + 1 \in 1..(N + 1) /\ k + 1 \in 0..N /\ (k + 1) - 1 = k /\ f[k] = g[k]
    BY <1>1, <1>7
  <2>2. f[k + 1] = IF s[k + 1] \in set THEN Append(f[k], s[k + 1]) ELSE f[k]
    BY <1>4, <2>1
  <2>3. g[k + 1] = IF t[k + 1] \in set THEN Append(g[k], t[k + 1]) ELSE g[k]
    BY <1>5, <2>1
  <2>4. t[k + 1] = s[k + 1]
    BY <1>1, <2>1
  <2> QED  BY <2>1, <2>2, <2>3, <2>4
<1>8. \A k \in 0..N : k \in T
  <2> HIDE DEF T
  <2> QED  BY <1>1, <1>6, <1>7, Climb
<1>9. f[N] = g[N]
  <2>1. N \in T
    BY <1>1, <1>8
  <2> QED  BY <2>1
<1>10. g[N + 1] = IF x \in set THEN Append(g[N], x) ELSE g[N]
  <2>1. N + 1 \in 1..(N + 1) /\ (N + 1) - 1 = N
    BY <1>1
  <2> QED  BY <1>1, <1>5, <2>1
<1>11. Only(Z, set) = Z
  <2>1. Z \in Seq(X) /\ Len(Z) = 0
    OBVIOUS
  <2>2. PICK h : Filtering(h, X, Z, set) /\ Only(Z, set) = h[Len(Z)]
    BY <2>1, OnlyFilters
  <2> QED  BY <2>1, <2>2 DEF Filtering
<1> QED  BY <1>2, <1>3, <1>9, <1>10, <1>11 DEF t

Joining(f, X, seqs) ==
  /\ f \in [0..Len(seqs) -> Seq(X)] /\ f[0] = <<>>
  /\ \A k \in 1..Len(seqs) : f[k] = f[k - 1] \o seqs[k]

LEMMA FlatJoins ==
  ASSUME NEW X, NEW seqs \in Seq(Seq(X))
  PROVE  \E f : Joining(f, X, seqs) /\ Flat(seqs) = f[Len(seqs)]
<1> DEFINE N == Len(seqs)
           Y == Seq(X)
           base == <<>>
           step == [p \in Y \X (1..N) |-> p[1] \o seqs[p[2]]]
           Rule(f) == f = [k \in 0..N |-> IF k = 0 THEN <<>> ELSE f[k - 1] \o seqs[k]]
           flat == CHOOSE f : Rule(f)
<1>1. N \in Nat /\ base \in Y /\ \A k \in 1..N : seqs[k] \in Y
  BY SequenceFacts
<1>2. ASSUME NEW s \in Y, NEW t \in Y PROVE s \o t \in Y
  OBVIOUS
<1> HIDE DEF Y
<1>3. step \in [Y \X (1..N) -> Y]
  BY <1>1, <1>2
<1>4. PICK f : Solution(f, Y, base, step, N)
  <2> HIDE DEF step, N, base
  <2> QED  BY <1>1, <1>3, FoldExists
<1>5. f \in [0..N -> Y] /\ f[0] = <<>>
  BY <1>4 DEF Solution
<1>6. ASSUME NEW k \in 1..N
      PROVE  f[k] = f[k - 1] \o seqs[k]
  <2>1. <<f[k - 1], k>> \in Y \X (1..N)
    BY <1>5
  <2>2. f[k] = step[<<f[k - 1], k>>]
    BY <1>4 DEF Solution
  <2> QED  BY <2>1, <2>2
<1>7. Rule(f)
  <2> DEFINE g == [k \in 0..N |-> IF k = 0 THEN <<>> ELSE f[k - 1] \o seqs[k]]
  <2>1. ASSUME NEW k \in 0..N PROVE f[k] = g[k]
    <3>1. k = 0 \/ k \in 1..N
      OBVIOUS
    <3> QED  BY <1>5, <1>6, <3>1
  <2>2. f = [k \in 0..N |-> f[k]]
    BY <1>5
  <2> HIDE DEF g
  <2>3. f = g
    BY <2>1, <2>2 DEF g
  <2> QED  BY <2>3 DEF g
<1>8. Rule(flat)
  BY <1>7, Zenon
<1>9. Flat(seqs) = flat[N]
  BY DEF Flat
<1> HIDE DEF flat
<1>10. flat[0] = <<>>
  BY <1>8
<1>11. ASSUME NEW k \in 1..N
       PROVE  flat[k] = flat[k - 1] \o seqs[k]
  <2>1. k \in 0..N /\ k # 0
    OBVIOUS
  <2> HIDE DEF N
  <2> QED  BY <1>8, <2>1
<1> DEFINE T == {k \in 0..N : flat[k] \in Y}
<1>12. 0 \in T
  BY <1>1, <1>10
<1>13. ASSUME NEW k \in 0..(N - 1), k \in T
       PROVE  k + 1 \in T
  <2>1. k + 1 \in 1..N /\ k + 1 \in 0..N /\ (k + 1) - 1 = k
    OBVIOUS
  <2>2. flat[k + 1] = flat[k] \o seqs[k + 1] /\ flat[k] \in Y /\ seqs[k + 1] \in Y
    BY <1>1, <1>11, <1>13, <2>1
  <2>3. flat[k + 1] \in Y
    BY <1>2, <2>2
  <2> QED  BY <2>1, <2>3
<1>14. \A k \in 0..N : k \in T
  <2> HIDE DEF T
  <2> QED  BY <1>1, <1>12, <1>13, Climb
<1>15. flat \in [0..N -> Y]
  BY <1>8, <1>14
<1> HIDE DEF Rule
<1> QED  BY <1>9, <1>10, <1>11, <1>15 DEF Joining, Y

\* One more sequence comes last.
LEMMA FlatAppend ==
  ASSUME NEW X, NEW seqs \in Seq(Seq(X)), NEW s \in Seq(X)
  PROVE  /\ Flat(<<>>) = <<>>
         /\ Flat(seqs) \in Seq(X)
         /\ Flat(Append(seqs, s)) = Flat(seqs) \o s
<1> DEFINE t == Append(seqs, s)
           N == Len(seqs)
           Y == Seq(X)
           Z == <<>>
<1> HIDE DEF Y
<1>0. seqs \in Seq(Y) /\ s \in Y
  BY DEF Y
<1>1. N \in Nat /\ t \in Seq(Y) /\ Len(t) = N + 1 /\ t[N + 1] = s /\ \A k \in 1..N : t[k] = seqs[k]
  BY <1>0
<1>2. PICK f : Joining(f, X, seqs) /\ Flat(seqs) = f[N]
  BY FlatJoins
<1> HIDE DEF t
<1>3. PICK g : Joining(g, X, t) /\ Flat(t) = g[N + 1]
  BY <1>1, FlatJoins DEF Y
<1> HIDE DEF N
<1>4. f[0] = <<>> /\ (\A k \in 1..N : f[k] = f[k - 1] \o seqs[k]) /\ f \in [0..N -> Y]
  BY <1>2 DEF Joining, N, Y
<1>5. g[0] = <<>> /\ \A k \in 1..(N + 1) : g[k] = g[k - 1] \o t[k]
  BY <1>1, <1>3 DEF Joining
<1> DEFINE T == {k \in 0..N : f[k] = g[k]}
<1>6. 0 \in T
  BY <1>1, <1>4, <1>5
<1>7. ASSUME NEW k \in 0..(N - 1), k \in T
      PROVE  k + 1 \in T
  <2>1. k + 1 \in 1..N /\ k + 1 \in 1..(N + 1) /\ k + 1 \in 0..N /\ (k + 1) - 1 = k /\ f[k] = g[k]
    BY <1>1, <1>7
  <2>2. f[k + 1] = f[k] \o seqs[k + 1]
    BY <1>4, <2>1
  <2>3. g[k + 1] = g[k] \o t[k + 1]
    BY <1>5, <2>1
  <2>4. t[k + 1] = seqs[k + 1]
    BY <1>1, <2>1
  <2> QED  BY <2>1, <2>2, <2>3, <2>4
<1>8. \A k \in 0..N : k \in T
  <2> HIDE DEF T
  <2> QED  BY <1>1, <1>6, <1>7, Climb
<1>9. f[N] = g[N] /\ f[N] \in Y
  <2>1. N \in T /\ N \in 0..N
    BY <1>1, <1>8
  <2> QED  BY <1>4, <2>1
<1>10. g[N + 1] = g[N] \o s
  <2>1. N + 1 \in 1..(N + 1) /\ (N + 1) - 1 = N
    BY <1>1
  <2> QED  BY <1>1, <1>5, <2>1
<1>11. Flat(Z) = Z
  <2>1. Z \in Seq(Seq(X)) /\ Len(Z) = 0
    OBVIOUS
  <2>2. PICK h : Joining(h, X, Z) /\ Flat(Z) = h[Len(Z)]
    BY <2>1, FlatJoins
  <2> QED  BY <2>1, <2>2 DEF Joining
<1> QED  BY <1>2, <1>3, <1>9, <1>10, <1>11 DEF t, Y

-----------------------------------------------------------------------------
(* Filters and joins; the fold of events into blocks                       *)

LEMMA EmptyFolds == Flat(<<>>) = <<>> /\ \A S : Only(<<>>, S) = <<>>
<1> DEFINE Z == <<>>
<1>1. Z \in Seq({1}) /\ 1 \in {1} /\ Z \in Seq(Seq({1}))
  OBVIOUS
<1>2. Flat(Z) = Z
  BY <1>1, FlatAppend
<1>3. ASSUME NEW S PROVE Only(Z, S) = Z
  BY <1>1, OnlyAppend
<1> QED  BY <1>2, <1>3

\* Sets that agree on a sequence filter it alike.
LEMMA OnlySame ==
  ASSUME NEW X, NEW s \in Seq(X), NEW R, NEW S, \A k \in DOMAIN s : s[k] \in R <=> s[k] \in S
  PROVE  Only(s, R) = Only(s, S)
<1> DEFINE T == {u \in Seq(X) : (\A k \in DOMAIN u : u[k] \in R <=> u[k] \in S) => Only(u, R) = Only(u, S)}
<1>1. <<>> \in T
  BY EmptyFolds
<1>2. ASSUME NEW u \in Seq(X), u \in T, NEW x \in X
      PROVE  Append(u, x) \in T
  <2> DEFINE v == Append(u, x)
             N == Len(u)
  <2>1. /\ N \in Nat /\ v \in Seq(X) /\ DOMAIN u = 1..N /\ DOMAIN v = 1..(N + 1) /\ v[N + 1] = x
        /\ \A k \in 1..N : k \in 1..(N + 1) /\ v[k] = u[k]
    OBVIOUS
  <2>2. /\ Only(v, R) = IF x \in R THEN Append(Only(u, R), x) ELSE Only(u, R)
        /\ Only(v, S) = IF x \in S THEN Append(Only(u, S), x) ELSE Only(u, S)
    BY OnlyAppend
  <2> HIDE DEF v, N
  <2>3. ASSUME \A k \in DOMAIN v : v[k] \in R <=> v[k] \in S
        PROVE  Only(v, R) = Only(v, S)
    <3>1. \A k \in DOMAIN u : u[k] \in R <=> u[k] \in S
      BY <2>1, <2>3
    <3>2. N + 1 \in 1..(N + 1)
      BY <2>1
    <3>3. x \in R <=> x \in S
      BY <2>1, <2>3, <3>2
    <3> QED  BY <1>2, <2>2, <3>1, <3>3
  <2>4. v \in T
    BY <2>1, <2>3
  <2> QED  BY <2>4 DEF v
<1> HIDE DEF T
<1>3. Seq(X) \subseteq T
  BY <1>1, <1>2, AppendInduction
<1> QED  BY <1>3 DEF T

\* A filter that every element passes changes nothing.
LEMMA OnlyAll ==
  ASSUME NEW X, NEW s \in Seq(X), NEW S, \A k \in DOMAIN s : s[k] \in S
  PROVE  Only(s, S) = s
<1> DEFINE T == {u \in Seq(X) : Only(u, X) = u}
<1>1. Only(s, S) = Only(s, X)
  <2>1. \A k \in DOMAIN s : s[k] \in X
    BY SequenceFacts
  <2> QED  BY <2>1, OnlySame
<1>2. <<>> \in T
  BY EmptyFolds
<1>3. ASSUME NEW u \in Seq(X), u \in T, NEW x \in X
      PROVE  Append(u, x) \in T
  <2>1. Only(Append(u, x), X) = Append(Only(u, X), x)
    BY OnlyAppend
  <2> QED  BY <1>3, <2>1
<1> HIDE DEF T
<1>4. Seq(X) \subseteq T
  BY <1>2, <1>3, AppendInduction
<1> QED  BY <1>1, <1>4 DEF T

\* Filtering a joined sequence filters its two parts.
LEMMA OnlyJoin ==
  ASSUME NEW X, NEW s \in Seq(X), NEW t \in Seq(X), NEW S
  PROVE  Only(s \o t, S) = Only(s, S) \o Only(t, S)
<1> DEFINE T == {u \in Seq(X) : Only(s \o u, S) = Only(s, S) \o Only(u, S)}
<1>0. \A u \in Seq(X) : Only(u, S) \in Seq(X)
  BY OnlySelects
<1>1. <<>> \in T
  <2> DEFINE q == Only(s, S)
  <2>1. <<>> \in Seq(X) /\ s \o <<>> = s /\ q \in Seq(X)
    BY <1>0
  <2> HIDE DEF q
  <2>2. q \o <<>> = q
    BY <2>1
  <2> QED  BY <2>1, <2>2, EmptyFolds DEF q
<1>2. ASSUME NEW u \in Seq(X), u \in T, NEW x \in X
      PROVE  Append(u, x) \in T
  <2> DEFINE p == s \o u
             q == Only(s, S)
             r == Only(u, S)
  <2>1. p \in Seq(X) /\ s \o Append(u, x) = Append(p, x) /\ Append(u, x) \in Seq(X)
    OBVIOUS
  <2>2. Only(Append(u, x), S) = IF x \in S THEN Append(r, x) ELSE r
    BY OnlyAppend
  <2> HIDE DEF p
  <2>3. Only(Append(p, x), S) = IF x \in S THEN Append(Only(p, S), x) ELSE Only(p, S)
    BY <2>1, OnlyAppend
  <2>4. Only(p, S) = q \o r /\ q \in Seq(X) /\ r \in Seq(X)
    BY <1>0, <1>2 DEF p
  <2> HIDE DEF q, r
  <2>5. q \o Append(r, x) = Append(q \o r, x)
    BY <2>4
  <2>6. Only(s \o Append(u, x), S) = q \o Only(Append(u, x), S)
    BY <2>1, <2>2, <2>3, <2>4, <2>5
  <2> QED  BY <2>1, <2>6 DEF q
<1> HIDE DEF T
<1>3. Seq(X) \subseteq T
  BY <1>1, <1>2, AppendInduction
<1> QED  BY <1>3 DEF T

\* Joining is empty only when all that is joined is.
LEMMA FlatEmpty ==
  ASSUME NEW X, NEW s \in Seq(Seq(X))
  PROVE  Flat(s) = <<>> <=> \A k \in DOMAIN s : s[k] = <<>>
<1> DEFINE Y == Seq(X)
           Empty(u) == \A k \in DOMAIN u : u[k] = <<>>
           T == {u \in Seq(Y) : Flat(u) = <<>> <=> Empty(u)}
<1> HIDE DEF Y
<1>1. <<>> \in T
  <2>1. <<>> \in Seq(Y) /\ DOMAIN <<>> = {}
    OBVIOUS
  <2> QED  BY <2>1, EmptyFolds
<1>2. ASSUME NEW u \in Seq(Y), u \in T, NEW x \in Y
      PROVE  Append(u, x) \in T
  <2> DEFINE v == Append(u, x)
             N == Len(u)
  <2>1. /\ N \in Nat /\ v \in Seq(Y) /\ DOMAIN u = 1..N /\ DOMAIN v = 1..(N + 1) /\ v[N + 1] = x
        /\ \A k \in 1..N : k \in 1..(N + 1) /\ v[k] = u[k]
    OBVIOUS
  <2>2. Flat(v) = Flat(u) \o x /\ Flat(u) \in Y
    BY FlatAppend DEF Y
  <2> HIDE DEF v, N
  <2>3. Flat(v) = <<>> <=> Flat(u) = <<>> /\ x = <<>>
    BY <2>2, ConcatEqualIffEmpty DEF Y
  <2>4. Empty(v) <=> Empty(u) /\ x = <<>>
    <3>1. N + 1 \in 1..(N + 1) /\ \A k \in 1..(N + 1) : k \in 1..N \/ k = N + 1
      BY <2>1
    <3> QED  BY <2>1, <3>1
  <2> HIDE DEF Empty
  <2>5. v \in T
    BY <1>2, <2>1, <2>3, <2>4
  <2> QED  BY <2>5 DEF v
<1> HIDE DEF T
<1>3. Seq(Y) \subseteq T
  BY <1>1, <1>2, AppendInduction
<1> QED  BY <1>3 DEF T, Y

\* What Blocks makes of any events.
Pieces == [kind : BlockKinds \cup {"message", "max_tokens", "tool_use", "end_turn"}, body : Seq(Nat)]

LEMMA FoldedPieces ==
  ASSUME NEW m \in Seq(Pieces), NEW e \in Events
  PROVE  Folded(m, e) \in Seq(Pieces)
<1> DEFINE at == e.index + 1
<1>1. e.body \in Seq(Nat) /\ e.index \in Nat
  BY DEF Events
<1>2. CASE e.type = "block_start"
  <2>1. Block(e.kind, <<>>) \in Pieces
    BY DEF Block, Pieces, Events
  <2> QED  BY <1>2, <2>1 DEF Folded
<1>3. CASE e.type # "block_start" /\ e.type = "delta" /\ at \in DOMAIN m
  <2> DEFINE b == m[at]
             c == Block(b.kind, b.body \o e.body)
  <2>1. b \in Pieces /\ at \in 1..Len(m)
    BY <1>3, SequenceFacts
  <2>2. b.body \in Seq(Nat)
    BY <2>1 DEF Pieces
  <2>3. b.body \o e.body \in Seq(Nat)
    BY <1>1, <2>2
  <2> HIDE DEF b
  <2>4. c \in Pieces
    BY <2>1, <2>3 DEF Block, Pieces
  <2>5. Folded(m, e) = [m EXCEPT ![at] = c]
    BY <1>3 DEF Folded, b
  <2> HIDE DEF c, at
  <2>6. [m EXCEPT ![at] = c] \in Seq(Pieces)
    BY <2>1, <2>4, ExceptSeq
  <2> QED  BY <2>5, <2>6
<1>4. CASE e.type # "block_start" /\ ~(e.type = "delta" /\ at \in DOMAIN m)
  BY <1>4 DEF Folded
<1> QED  BY <1>2, <1>3, <1>4

Unfolding(f, events) ==
  /\ f \in [0..Len(events) -> Seq(Pieces)] /\ f[0] = <<>>
  /\ \A k \in 1..Len(events) : f[k] = Folded(f[k - 1], events[k])

LEMMA BlocksUnfold ==
  ASSUME NEW events \in Seq(Events)
  PROVE  \E f : Unfolding(f, events) /\ Blocks(events) = f[Len(events)]
<1> DEFINE N == Len(events)
           Y == Seq(Pieces)
           base == <<>>
           step == [p \in Y \X (1..N) |-> Folded(p[1], events[p[2]])]
           Rule(f) == f = [k \in 0..N |-> IF k = 0 THEN <<>> ELSE Folded(f[k - 1], events[k])]
           blocks == CHOOSE f : Rule(f)
<1>1. N \in Nat /\ base \in Y /\ \A k \in 1..N : events[k] \in Events
  BY SequenceFacts
<1>2. ASSUME NEW s \in Y, NEW k \in 1..N PROVE Folded(s, events[k]) \in Y
  BY <1>1, FoldedPieces
<1> HIDE DEF Y
<1>3. step \in [Y \X (1..N) -> Y]
  BY <1>2
<1>4. PICK f : Solution(f, Y, base, step, N)
  <2> HIDE DEF step, N, base
  <2> QED  BY <1>1, <1>3, FoldExists
<1>5. f \in [0..N -> Y] /\ f[0] = <<>>
  BY <1>4 DEF Solution
<1>6. ASSUME NEW k \in 1..N
      PROVE  f[k] = Folded(f[k - 1], events[k])
  <2>1. <<f[k - 1], k>> \in Y \X (1..N)
    BY <1>5
  <2>2. f[k] = step[<<f[k - 1], k>>]
    BY <1>4 DEF Solution
  <2> QED  BY <2>1, <2>2
<1>7. Rule(f)
  <2> DEFINE g == [k \in 0..N |-> IF k = 0 THEN <<>> ELSE Folded(f[k - 1], events[k])]
  <2>1. ASSUME NEW k \in 0..N PROVE f[k] = g[k]
    <3>1. k = 0 \/ k \in 1..N
      OBVIOUS
    <3> QED  BY <1>5, <1>6, <3>1
  <2>2. f = [k \in 0..N |-> f[k]]
    BY <1>5
  <2> HIDE DEF g
  <2>3. f = g
    BY <2>1, <2>2 DEF g
  <2> QED  BY <2>3 DEF g
<1>8. Rule(blocks)
  BY <1>7, Zenon
<1>9. Blocks(events) = blocks[N]
  BY DEF Blocks
<1> HIDE DEF blocks
<1>10. blocks[0] = <<>>
  BY <1>8
<1>11. ASSUME NEW k \in 1..N
       PROVE  blocks[k] = Folded(blocks[k - 1], events[k])
  <2>1. k \in 0..N /\ k # 0
    OBVIOUS
  <2> HIDE DEF N
  <2> QED  BY <1>8, <2>1
<1> DEFINE T == {k \in 0..N : blocks[k] \in Y}
<1>12. 0 \in T
  BY <1>1, <1>10
<1>13. ASSUME NEW k \in 0..(N - 1), k \in T
       PROVE  k + 1 \in T
  <2>1. k + 1 \in 1..N /\ k + 1 \in 0..N /\ (k + 1) - 1 = k
    OBVIOUS
  <2>2. blocks[k + 1] = Folded(blocks[k], events[k + 1]) /\ blocks[k] \in Y
    BY <1>11, <1>13, <2>1
  <2>3. blocks[k + 1] \in Y
    BY <1>2, <2>1, <2>2
  <2> QED  BY <2>1, <2>3
<1>14. \A k \in 0..N : k \in T
  <2> HIDE DEF T
  <2> QED  BY <1>1, <1>12, <1>13, Climb
<1>15. blocks \in [0..N -> Y]
  BY <1>8, <1>14
<1> HIDE DEF Rule
<1> QED  BY <1>9, <1>10, <1>11, <1>15 DEF Unfolding, Y

\* One more event is folded into what the earlier ones gave.
LEMMA BlocksAppend ==
  ASSUME NEW ev \in Seq(Events), NEW e \in Events
  PROVE  Blocks(Append(ev, e)) = Folded(Blocks(ev), e)
<1> DEFINE t == Append(ev, e)
           N == Len(ev)
<1>1. N \in Nat /\ t \in Seq(Events) /\ Len(t) = N + 1 /\ t[N + 1] = e /\ \A k \in 1..N : t[k] = ev[k]
  OBVIOUS
<1>2. PICK f : Unfolding(f, ev) /\ Blocks(ev) = f[N]
  BY BlocksUnfold
<1> HIDE DEF t
<1>3. PICK g : Unfolding(g, t) /\ Blocks(t) = g[N + 1]
  BY <1>1, BlocksUnfold
<1> HIDE DEF N
<1>4. f[0] = <<>> /\ \A k \in 1..N : f[k] = Folded(f[k - 1], ev[k])
  BY <1>2 DEF Unfolding, N
<1>5. g[0] = <<>> /\ \A k \in 1..(N + 1) : g[k] = Folded(g[k - 1], t[k])
  BY <1>1, <1>3 DEF Unfolding
<1> DEFINE T == {k \in 0..N : f[k] = g[k]}
<1>6. 0 \in T
  BY <1>1, <1>4, <1>5
<1>7. ASSUME NEW k \in 0..(N - 1), k \in T
      PROVE  k + 1 \in T
  <2>1. k + 1 \in 1..N /\ k + 1 \in 1..(N + 1) /\ k + 1 \in 0..N /\ (k + 1) - 1 = k /\ f[k] = g[k]
    BY <1>1, <1>7
  <2>2. f[k + 1] = Folded(f[k], ev[k + 1])
    BY <1>4, <2>1
  <2>3. g[k + 1] = Folded(g[k], t[k + 1])
    BY <1>5, <2>1
  <2>4. t[k + 1] = ev[k + 1]
    BY <1>1, <2>1
  <2> QED  BY <2>1, <2>2, <2>3, <2>4
<1>8. \A k \in 0..N : k \in T
  <2> HIDE DEF T
  <2> QED  BY <1>1, <1>6, <1>7, Climb
<1>9. f[N] = g[N]
  <2>1. N \in T
    BY <1>1, <1>8
  <2> QED  BY <2>1
<1>10. g[N + 1] = Folded(g[N], e)
  <2>1. N + 1 \in 1..(N + 1) /\ (N + 1) - 1 = N
    BY <1>1
  <2> QED  BY <1>1, <1>5, <2>1
<1> QED  BY <1>2, <1>3, <1>9, <1>10 DEF t

LEMMA NoBlocks == Blocks(<<>>) = <<>>
<1> DEFINE Z == <<>>
<1>1. Z \in Seq(Events) /\ Len(Z) = 0
  OBVIOUS
<1>2. PICK f : Unfolding(f, Z) /\ Blocks(Z) = f[Len(Z)]
  BY <1>1, BlocksUnfold
<1> QED  BY <1>1, <1>2 DEF Unfolding

-----------------------------------------------------------------------------
(* The words of a message                                                  *)

LEMMA JoinThree == \A s, t, u \in Seq(Nat) : (s \o t) \o u = s \o (t \o u)
BY SMTT(30)

\* The part of one block in the words of a kind.
Said(b, kind) == IF b.kind = kind THEN b.body ELSE <<>>
Sayings(m, kind) == [k \in DOMAIN m |-> Said(m[k], kind)]

LEMMA WordsOfSayings ==
  ASSUME NEW m \in Seq(MessageBlocks), NEW kind
  PROVE  /\ Sayings(m, kind) \in Seq(Seq(Nat)) /\ DOMAIN Sayings(m, kind) = DOMAIN m
         /\ Words(m, kind) = Flat(Sayings(m, kind)) /\ Words(m, kind) \in Seq(Nat)
<1> DEFINE S == Sayings(m, kind)
<1>1. Len(m) \in Nat /\ DOMAIN m = 1..Len(m) /\ \A k \in 1..Len(m) : m[k] \in MessageBlocks
  BY SequenceFacts
<1>2. \A b \in MessageBlocks : Said(b, kind) \in Seq(Nat)
  BY DEF Said, MessageBlocks
<1>3. S = [k \in 1..Len(m) |-> Said(m[k], kind)]
  BY <1>1 DEF Sayings
<1>4. S \in Seq(Seq(Nat)) /\ DOMAIN S = DOMAIN m
  <2> DEFINE Y == Seq(Nat)
             N == Len(m)
  <2> HIDE DEF Y, N
  <2>1. \A k \in 1..N : Said(m[k], kind) \in Y
    BY <1>1, <1>2 DEF N, Y
  <2>2. S = [k \in 1..N |-> Said(m[k], kind)] /\ N \in Nat
    BY <1>1, <1>3 DEF N
  <2> HIDE DEF S
  <2>3. S \in Seq(Y)
    BY <2>1, <2>2
  <2> QED  BY <1>1, <2>2, <2>3 DEF Y, N
<1>5. Words(m, kind) = Flat(S)
  BY DEF Words, Sayings, Said
<1> HIDE DEF S
<1>6. Flat(S) \in Seq(Nat)
  <2>1. <<>> \in Seq(Nat)
    OBVIOUS
  <2> QED  BY <1>4, <2>1, FlatAppend
<1> QED  BY <1>4, <1>5, <1>6 DEF S

LEMMA WordsAppend ==
  ASSUME NEW m \in Seq(MessageBlocks), NEW b \in MessageBlocks, NEW kind
  PROVE  /\ Words(<<>>, kind) = <<>>
         /\ Words(Append(m, b), kind) = Words(m, kind) \o Said(b, kind)
<1> DEFINE t == Append(m, b)
           N == Len(m)
           S == Sayings(m, kind)
           R == Sayings(t, kind)
           Z == <<>>
<1>1. N \in Nat /\ DOMAIN m = 1..N /\ t \in Seq(MessageBlocks) /\ DOMAIN t = 1..(N + 1) /\ t[N + 1] = b
      /\ \A k \in 1..N : t[k] = m[k]
  OBVIOUS
<1> HIDE DEF t
<1>2. S \in Seq(Seq(Nat)) /\ DOMAIN S = 1..N /\ Words(m, kind) = Flat(S)
  BY <1>1, WordsOfSayings
<1>3. R \in Seq(Seq(Nat)) /\ DOMAIN R = 1..(N + 1) /\ Words(t, kind) = Flat(R)
  BY <1>1, WordsOfSayings
<1>4. Said(b, kind) \in Seq(Nat)
  BY DEF Said, MessageBlocks
<1>5. (\A k \in 1..N : R[k] = S[k]) /\ R[N + 1] = Said(b, kind)
  <2>1. N + 1 \in 1..(N + 1) /\ \A k \in 1..N : k \in 1..(N + 1)
    BY <1>1
  <2> QED  BY <1>1, <2>1 DEF Sayings
<1> HIDE DEF R, S, N
<1>6. R = Append(S, Said(b, kind))
  <2> DEFINE Y == Seq(Nat)
             v == Append(S, Said(b, kind))
  <2> HIDE DEF Y
  <2>1. S \in Seq(Y) /\ R \in Seq(Y) /\ Said(b, kind) \in Y /\ N \in Nat
    BY <1>1, <1>2, <1>3, <1>4 DEF Y
  <2>2. Len(S) = N /\ Len(R) = N + 1
    BY <1>2, <1>3, <2>1, LengthOfDomain
  <2>3. v \in Seq(Y) /\ Len(v) = N + 1 /\ v[N + 1] = Said(b, kind) /\ \A k \in 1..N : v[k] = S[k]
    BY <2>1, <2>2
  <2> HIDE DEF v
  <2>4. \A k \in 1..(N + 1) : R[k] = v[k]
    BY <1>5, <2>1, <2>3
  <2>5. R = v
    BY <2>1, <2>2, <2>3, <2>4, SeqEqual
  <2> QED  BY <2>5 DEF v
<1>7. Flat(R) = Flat(S) \o Said(b, kind)
  BY <1>2, <1>4, <1>6, FlatAppend
<1>8. Words(Z, kind) = Z
  <2>1. Words(Z, kind) = Flat(Sayings(Z, kind))
    BY DEF Words, Sayings, Said
  <2>2. Sayings(Z, kind) = <<>>
    BY DEF Sayings
  <2> QED  BY <2>1, <2>2, EmptyFolds
<1> QED  BY <1>2, <1>3, <1>7, <1>8 DEF t

LEMMA WordsJoin ==
  ASSUME NEW s \in Seq(MessageBlocks), NEW t \in Seq(MessageBlocks), NEW kind
  PROVE  Words(s \o t, kind) = Words(s, kind) \o Words(t, kind)
<1> DEFINE X == MessageBlocks
           T == {u \in Seq(X) : Words(s \o u, kind) = Words(s, kind) \o Words(u, kind)}
<1>0. \A u \in Seq(X) : Words(u, kind) \in Seq(Nat)
  BY WordsOfSayings
<1>1. <<>> \in T
  <2> DEFINE q == Words(s, kind)
  <2>1. <<>> \in Seq(X) /\ s \o <<>> = s /\ q \in Seq(Nat)
    BY <1>0
  <2>2. Words(<<>>, kind) = <<>>
    <3>1. Block("text", <<>>) \in X
      BY DEF Block, MessageBlocks, BlockKinds
    <3> QED  BY <3>1, WordsAppend
  <2> HIDE DEF q
  <2>3. q \o <<>> = q
    BY <2>1
  <2> QED  BY <2>1, <2>2, <2>3 DEF q
<1>2. ASSUME NEW u \in Seq(X), u \in T, NEW x \in X
      PROVE  Append(u, x) \in T
  <2> DEFINE p == s \o u
             q == Words(s, kind)
             r == Words(u, kind)
             a == Said(x, kind)
  <2>1. p \in Seq(X) /\ s \o Append(u, x) = Append(p, x) /\ Append(u, x) \in Seq(X)
    OBVIOUS
  <2>2. Words(Append(u, x), kind) = r \o a
    BY WordsAppend
  <2> HIDE DEF p
  <2>3. Words(Append(p, x), kind) = Words(p, kind) \o a
    BY <2>1, WordsAppend
  <2>4. Words(p, kind) = q \o r /\ q \in Seq(Nat) /\ r \in Seq(Nat) /\ a \in Seq(Nat)
    <3>1. a \in Seq(Nat)
      BY DEF Said, MessageBlocks
    <3>2. q \in Seq(Nat) /\ r \in Seq(Nat)
      BY <1>0
    <3>3. Words(p, kind) = q \o r
      BY <1>2 DEF p
    <3> QED  BY <3>1, <3>2, <3>3
  <2> HIDE DEF q, r, a
  <2>5. (q \o r) \o a = q \o (r \o a)
    <3>1. q \in Seq(Nat) /\ r \in Seq(Nat) /\ a \in Seq(Nat)
      BY <2>4
    <3> QED  BY <3>1, JoinThree
  <2>6. Words(s \o Append(u, x), kind) = q \o Words(Append(u, x), kind)
    BY <2>1, <2>2, <2>3, <2>4, <2>5
  <2> QED  BY <2>1, <2>6 DEF q
<1> HIDE DEF T
<1>3. Seq(X) \subseteq T
  BY <1>1, <1>2, AppendInduction
<1> QED  BY <1>3 DEF T

\* Messages whose blocks say the same have the same words.
LEMMA WordsSame ==
  ASSUME NEW m \in Seq(MessageBlocks), NEW p \in Seq(MessageBlocks), NEW kind, DOMAIN p = DOMAIN m,
         \A k \in DOMAIN m : Said(p[k], kind) = Said(m[k], kind)
  PROVE  Words(p, kind) = Words(m, kind)
<1>1. Sayings(p, kind) = Sayings(m, kind)
  BY DEF Sayings
<1> QED  BY <1>1, WordsOfSayings

\* There are no words of a kind when no block says any.
LEMMA WordsEmpty ==
  ASSUME NEW m \in Seq(MessageBlocks), NEW kind
  PROVE  Words(m, kind) = <<>> <=> \A k \in DOMAIN m : Said(m[k], kind) = <<>>
<1> DEFINE S == Sayings(m, kind)
<1>1. S \in Seq(Seq(Nat)) /\ DOMAIN S = DOMAIN m /\ Words(m, kind) = Flat(S)
  BY WordsOfSayings
<1>2. \A k \in DOMAIN m : S[k] = Said(m[k], kind)
  BY DEF Sayings
<1> HIDE DEF S
<1>3. Flat(S) = <<>> <=> \A k \in DOMAIN S : S[k] = <<>>
  BY <1>1, FlatEmpty
<1> QED  BY <1>1, <1>2, <1>3

\* Blocks that are left out take no words with them when they had none.
LEMMA WordsOnly ==
  ASSUME NEW m \in Seq(MessageBlocks), NEW S, NEW kind,
         \A b \in MessageBlocks : b \notin S => Said(b, kind) = <<>>
  PROVE  Words(Only(m, S), kind) = Words(m, kind)
<1> DEFINE X == MessageBlocks
           T == {u \in Seq(X) : Words(Only(u, S), kind) = Words(u, kind)}
<1>1. <<>> \in T
  <2>1. <<>> \in Seq(X)
    OBVIOUS
  <2> QED  BY <2>1, EmptyFolds
<1>2. ASSUME NEW u \in Seq(X), u \in T, NEW x \in X
      PROVE  Append(u, x) \in T
  <2> DEFINE o == Only(u, S)
             w == Words(u, kind)
             a == Said(x, kind)
  <2>1. Only(Append(u, x), S) = IF x \in S THEN Append(o, x) ELSE o
    BY OnlyAppend
  <2>2. Words(Append(u, x), kind) = w \o a /\ w \in Seq(Nat) /\ Append(u, x) \in Seq(X)
    BY WordsAppend, WordsOfSayings
  <2>3. o \in Seq(X) /\ Words(o, kind) = w
    BY <1>2, OnlySelects
  <2> HIDE DEF o
  <2>4. CASE x \in S
    <3>1. Words(Append(o, x), kind) = w \o a
      BY <2>3, WordsAppend
    <3> QED  BY <2>1, <2>2, <2>4, <3>1
  <2>5. CASE x \notin S
    <3>1. a = <<>>
      BY <2>5
    <3> HIDE DEF a, w
    <3>2. w \o a = w
      BY <2>2, <3>1
    <3> QED  BY <2>1, <2>2, <2>3, <2>5, <3>2
  <2> QED  BY <2>4, <2>5
<1> HIDE DEF T
<1>3. Seq(X) \subseteq T
  BY <1>1, <1>2, AppendInduction
<1> QED  BY <1>3 DEF T

\* The n-th block of a message goes on.
Prolonged(m, n, w) == [m EXCEPT ![n] = Block(m[n].kind, m[n].body \o w)]

\* The words of a message after its last block, the n-th, went on.
LastGrew(p, m, n, w, kind) ==
  /\ p \in Seq(MessageBlocks) /\ DOMAIN p = DOMAIN m
  /\ Words(p, kind) = IF m[n].kind = kind THEN Words(m, kind) \o w ELSE Words(m, kind)

LEMMA WordsOfLast ==
  ASSUME NEW m \in Seq(MessageBlocks), NEW n \in Nat \ {0}, Len(m) = n, NEW w \in Seq(Nat), NEW kind,
         NEW p, p = Prolonged(m, n, w)
  PROVE  LastGrew(p, m, n, w, kind)
<1> DEFINE X == MessageBlocks
           a == m[n]
           b == Block(a.kind, a.body \o w)
           front == SubSeq(m, 1, n - 1)
<1>1. n \in 1..Len(m) /\ a \in X /\ a.kind \in BlockKinds /\ a.body \in Seq(Nat)
  <2>1. n \in 1..Len(m) /\ a \in X
    BY SequenceFacts
  <2> QED  BY <2>1 DEF MessageBlocks
<1>2. a.body \o w \in Seq(Nat)
  BY <1>1
<1>3. b \in X /\ b.kind = a.kind /\ b.body = a.body \o w
  BY <1>1, <1>2 DEF Block, MessageBlocks
<1>4. p \in Seq(X) /\ Len(p) = n /\ \A k \in 1..n : p[k] = IF k = n THEN b ELSE m[k]
  <2>1. p = [m EXCEPT ![n] = b]
    BY DEF Prolonged
  <2> HIDE DEF b, X
  <2> QED  BY <1>1, <1>3, <2>1, ExceptSeq DEF X
<1>5. front \in Seq(X) /\ Len(front) = n - 1 /\ m = Append(front, a)
  OBVIOUS
<1>6. p = Append(front, b)
  <2> DEFINE v == Append(front, b)
  <2>1. \A k \in 1..(n - 1) : front[k] = m[k]
    OBVIOUS
  <2> HIDE DEF front, b
  <2>2. v \in Seq(X) /\ Len(v) = n /\ v[n] = b /\ \A k \in 1..(n - 1) : v[k] = front[k]
    BY <1>3, <1>5
  <2> HIDE DEF v
  <2>3. \A k \in 1..n : p[k] = v[k]
    BY <1>4, <2>1, <2>2
  <2>4. p = v
    BY <1>4, <2>2, <2>3, SeqEqual
  <2> QED  BY <2>4 DEF v
<1> HIDE DEF front, b
<1> DEFINE f == Words(front, kind)
<1>7. Words(m, kind) = f \o Said(a, kind) /\ Words(p, kind) = f \o Said(b, kind) /\ f \in Seq(Nat)
  <2>1. Words(Append(front, a), kind) = f \o Said(a, kind)
    BY <1>1, <1>5, WordsAppend
  <2>2. Words(Append(front, b), kind) = f \o Said(b, kind)
    BY <1>3, <1>5, WordsAppend
  <2> QED  BY <1>5, <1>6, <2>1, <2>2, WordsOfSayings
<1> HIDE DEF f
<1>8. Words(p, kind) = IF a.kind = kind THEN Words(m, kind) \o w ELSE Words(m, kind)
  <2>1. CASE a.kind = kind
    <3>1. Said(a, kind) = a.body /\ Said(b, kind) = a.body \o w
      BY <1>3, <2>1 DEF Said
    <3>2. (f \o a.body) \o w = f \o (a.body \o w)
      <4> DEFINE g == a.body
      <4>1. f \in Seq(Nat) /\ g \in Seq(Nat) /\ w \in Seq(Nat)
        BY <1>1, <1>7
      <4> HIDE DEF g
      <4>2. (f \o g) \o w = f \o (g \o w)
        BY <4>1, JoinThree
      <4> QED  BY <4>2 DEF g
    <3> QED  BY <1>7, <2>1, <3>1, <3>2
  <2>2. CASE a.kind # kind
    BY <1>3, <1>7, <2>2 DEF Said
  <2> QED  BY <2>1, <2>2
<1>9. DOMAIN p = DOMAIN m
  BY <1>4
<1> QED  BY <1>4, <1>8, <1>9 DEF LastGrew

-----------------------------------------------------------------------------
(* Sequences that list the elements of a set                               *)

\* A sequence that lists B[i] once for every i of a set, in some order.
Listing(q, s, D, I, B) ==
  /\ q \in [D -> I]
  /\ \A j, k \in D : q[j] = q[k] => j = k
  /\ \A i \in I : \E k \in D : q[k] = i
  /\ \A k \in D : s[k] = B[q[k]]
Lists(s, I, B) == \E q : Listing(q, s, DOMAIN s, I, B)

\* How often a list has each element.
BagOf(I, B) == [x \in {B[i] : i \in I} |-> Cardinality({i \in I : B[i] = x})]

\* Two sequences that list the same are the same bag.
LEMMA BagOfLists ==
  ASSUME NEW X, NEW s \in Seq(X), NEW I, NEW B, Lists(s, I, B)
  PROVE  ToBag(s) = BagOf(I, B)
<1> DEFINE D == DOMAIN s
<1>1. PICK q \in [D -> I] : /\ \A j, k \in D : q[j] = q[k] => j = k
                            /\ \A i \in I : \E k \in D : q[k] = i
                            /\ \A k \in D : s[k] = B[q[k]]
  BY DEF Lists, Listing
<1>2. IsFiniteSet(D)
  <2>1. Len(s) \in Nat /\ D = 1..Len(s)
    OBVIOUS
  <2> QED  BY <2>1, FS_Interval
<1> HIDE DEF D
<1>3. Range(s) = {B[i] : i \in I}
  BY <1>1 DEF Range, D
<1>4. ASSUME NEW x
      PROVE  Cardinality({k \in D : s[k] = x}) = Cardinality({i \in I : B[i] = x})
  <2> DEFINE J == {k \in D : s[k] = x}
             K == {i \in I : B[i] = x}
             f == [k \in J |-> q[k]]
  <2>1. f \in [J -> K]
    BY <1>1
  <2>2. IsFiniteSet(J)
    <3>1. J \subseteq D
      OBVIOUS
    <3> QED  BY <1>2, <3>1, FS_Subset
  <2>3. \A j, k \in J : f[j] = f[k] => j = k
    BY <1>1
  <2>4. \A i \in K : \E k \in J : f[k] = i
    BY <1>1
  <2> HIDE DEF J, K, f
  <2>5. f \in Bijection(J, K)
    <3>1. DOMAIN f = J
      BY <2>1
    <3> QED  BY <2>1, <2>3, <2>4, <3>1 DEF Bijection, Injection, Surjection, IsInjective
  <2>6. ExistsBijection(J, K)
    BY <2>5 DEF ExistsBijection
  <2>7. Cardinality(K) = Cardinality(J)
    BY <2>2, <2>6, FS_Bijection
  <2> QED  BY <2>7 DEF J, K
<1>5. ToBag(s) = [x \in Range(s) |-> Cardinality({k \in D : s[k] = x})]
  BY DEF ToBag, D
<1> QED  BY <1>3, <1>4, <1>5 DEF BagOf

\* A filtered sequence lists what belongs to the set, place by place.
LEMMA OnlyLists ==
  ASSUME NEW X, NEW s \in Seq(X), NEW S
  PROVE  Lists(Only(s, S), {k \in DOMAIN s : s[k] \in S}, s)
<1> DEFINE I(u) == {k \in DOMAIN u : u[k] \in S}
           T == {u \in Seq(X) : Lists(Only(u, S), I(u), u)}
<1>0. \A u \in Seq(X) : Only(u, S) \in Seq(X)
  BY OnlySelects
<1>1. <<>> \in T
  <2>1. <<>> \in Seq(X) /\ DOMAIN <<>> = {}
    OBVIOUS
  <2>2. Only(<<>>, S) = <<>> /\ I(<<>>) = {}
    BY <2>1, EmptyFolds
  <2>3. Lists(<<>>, {}, <<>>)
    <3> DEFINE Z == <<>>
    <3>1. DOMAIN Z = {} /\ Z \in [{} -> {}]
      OBVIOUS
    <3> HIDE DEF Z
    <3>2. Lists(Z, {}, Z)
      BY <3>1 DEF Lists, Listing
    <3> QED  BY <3>2 DEF Z
  <2> QED  BY <2>1, <2>2, <2>3
<1>2. ASSUME NEW u \in Seq(X), u \in T, NEW x \in X
      PROVE  Append(u, x) \in T
  <2> DEFINE v == Append(u, x)
             N == Len(u)
             o == Only(u, S)
             L == Len(o)
             r == Append(o, x)
  <2>1. /\ N \in Nat /\ v \in Seq(X) /\ DOMAIN u = 1..N /\ DOMAIN v = 1..(N + 1) /\ v[N + 1] = x
        /\ \A k \in 1..N : k \in 1..(N + 1) /\ v[k] = u[k]
    OBVIOUS
  <2>2. Only(v, S) = IF x \in S THEN r ELSE o
    BY OnlyAppend
  <2>3. o \in Seq(X)
    BY <1>0
  <2> HIDE DEF v, N, o
  <2>4. /\ L \in Nat /\ DOMAIN o = 1..L /\ DOMAIN r = 1..(L + 1) /\ r[L + 1] = x
        /\ \A k \in 1..L : k \in 1..(L + 1) /\ r[k] = o[k]
    BY <2>3
  <2> HIDE DEF r, L
  <2>5. I(v) = IF x \in S THEN I(u) \cup {N + 1} ELSE I(u)
    <3>1. 1..(N + 1) = 1..N \cup {N + 1}
      BY <2>1
    <3> QED  BY <2>1, <3>1
  <2>6. I(u) \subseteq 1..N /\ N + 1 \notin I(u)
    BY <2>1
  <2> HIDE DEF I
  <2>7. PICK q \in [1..L -> I(u)] : /\ \A j, k \in 1..L : q[j] = q[k] => j = k
                                    /\ \A i \in I(u) : \E k \in 1..L : q[k] = i
                                    /\ \A k \in 1..L : o[k] = u[q[k]]
    <3>1. Lists(o, I(u), u)
      BY <1>2 DEF o
    <3>2. PICK q : Listing(q, o, 1..L, I(u), u)
      BY <2>4, <3>1 DEF Lists
    <3> QED  BY <3>2 DEF Listing
  <2>8. CASE x \notin S
    <3>1. \A k \in 1..L : o[k] = v[q[k]]
      BY <2>1, <2>6, <2>7
    <3>2. Listing(q, o, 1..L, I(u), v)
      BY <2>7, <3>1 DEF Listing
    <3>3. Lists(o, I(u), v)
      BY <2>4, <3>2 DEF Lists
    <3>4. Lists(Only(v, S), I(v), v)
      BY <2>2, <2>5, <2>8, <3>3
    <3> QED  BY <2>1, <3>4 DEF v
  <2>9. CASE x \in S
    <3> DEFINE p == [k \in 1..(L + 1) |-> IF k = L + 1 THEN N + 1 ELSE q[k]]
               J == I(u) \cup {N + 1}
    <3>1. \A k \in 1..(L + 1) : k \in 1..L \/ k = L + 1
      BY <2>4
    <3>2. \A k \in 1..L : k # L + 1 /\ k \in 1..(L + 1) /\ q[k] \in I(u)
      BY <2>4, <2>7
    <3>3. p \in [1..(L + 1) -> J]
      BY <3>1, <3>2
    <3>4. L + 1 \in 1..(L + 1)
      BY <2>4
    <3>5. p[L + 1] = N + 1 /\ \A k \in 1..L : p[k] = q[k]
      BY <3>2, <3>4
    <3> HIDE DEF p
    <3>6. \A j, k \in 1..(L + 1) : p[j] = p[k] => j = k
      BY <2>6, <2>7, <3>1, <3>2, <3>5
    <3>7. \A i \in J : \E k \in 1..(L + 1) : p[k] = i
      BY <2>7, <3>2, <3>4, <3>5
    <3>8. \A k \in 1..(L + 1) : r[k] = v[p[k]]
      <4>1. \A k \in 1..L : r[k] = v[p[k]]
        BY <2>1, <2>4, <2>6, <2>7, <3>2, <3>5
      <4> QED  BY <2>1, <2>4, <3>1, <3>5, <4>1
    <3>9. Listing(p, r, 1..(L + 1), J, v)
      BY <3>3, <3>6, <3>7, <3>8 DEF Listing
    <3>10. Lists(r, J, v)
      BY <2>4, <3>9 DEF Lists
    <3>11. Lists(Only(v, S), I(v), v)
      BY <2>2, <2>5, <2>9, <3>10
    <3> QED  BY <2>1, <3>11 DEF v
  <2> QED  BY <2>8, <2>9
<1> HIDE DEF T
<1>3. Seq(X) \subseteq T
  BY <1>1, <1>2, AppendInduction
<1> QED  BY <1>3 DEF T

\* A set that is listed through another.
LEMMA ListsThrough ==
  ASSUME NEW s, NEW I, NEW B, Lists(s, I, B), NEW J, NEW C, NEW g \in [I -> J],
         \A i, k \in I : g[i] = g[k] => i = k, \A j \in J : \E i \in I : g[i] = j,
         \A i \in I : B[i] = C[g[i]]
  PROVE  Lists(s, J, C)
<1>1. PICK q \in [DOMAIN s -> I] : /\ \A j, k \in DOMAIN s : q[j] = q[k] => j = k
                                   /\ \A i \in I : \E k \in DOMAIN s : q[k] = i
                                   /\ \A k \in DOMAIN s : s[k] = B[q[k]]
  BY DEF Lists, Listing
<1> DEFINE p == [k \in DOMAIN s |-> g[q[k]]]
<1>2. p \in [DOMAIN s -> J]
  BY <1>1
<1>3. \A k \in DOMAIN s : p[k] = g[q[k]] /\ q[k] \in I
  BY <1>1
<1> HIDE DEF p
<1>4. \A j, k \in DOMAIN s : p[j] = p[k] => j = k
  BY <1>1, <1>3
<1>5. \A j \in J : \E k \in DOMAIN s : p[k] = j
  BY <1>1, <1>3
<1>6. \A k \in DOMAIN s : s[k] = C[p[k]]
  BY <1>1, <1>3
<1> QED  BY <1>2, <1>4, <1>5, <1>6 DEF Lists, Listing

\* SetToSeq lists every element of a finite set.
LEMMA SetIsListed ==
  ASSUME NEW I, IsFiniteSet(I)
  PROVE  LET s == SetToSeq(I) IN
         /\ Cardinality(I) \in Nat
         /\ s \in [1..Cardinality(I) -> I]
         /\ \A j, k \in 1..Cardinality(I) : s[j] = s[k] => j = k
         /\ \A i \in I : \E k \in 1..Cardinality(I) : s[k] = i
<1> DEFINE N == Cardinality(I)
           s == SetToSeq(I)
<1>1. N \in Nat /\ ExistsBijection(1..N, I)
  BY FS_CardinalityType
<1> HIDE DEF N
<1>2. PICK f : f \in Bijection(1..N, I)
  BY <1>1 DEF ExistsBijection
<1>3. f \in [1..N -> I] /\ IsInjective(f)
  BY <1>2 DEF Bijection, Injection
<1>4. s = CHOOSE g \in [1..N -> I] : IsInjective(g)
  BY DEF SetToSeq, N
<1>5. s \in [1..N -> I] /\ IsInjective(s)
  BY <1>3, <1>4
<1> HIDE DEF s
<1>6. s \in Injection(1..N, I)
  BY <1>5 DEF Injection
<1>7. s \in Surjection(1..N, I)
  <2>1. IsFiniteSet(1..N) /\ Cardinality(1..N) = N
    BY <1>1, FS_Interval
  <2>2. Cardinality(1..N) = Cardinality(I)
    BY <2>1 DEF N
  <2> QED  BY <1>6, <2>2, FS_Injection
<1>8. \A j, k \in 1..N : s[j] = s[k] => j = k
  BY <1>5 DEF IsInjective
<1>9. \A i \in I : \E k \in 1..N : s[k] = i
  BY <1>7 DEF Surjection
<1> QED  BY <1>1, <1>5, <1>8, <1>9 DEF s, N

-----------------------------------------------------------------------------
(* What the folded message tells                                           *)

\* A call that came has a tool block of its own, with its arguments; there are no others.
Owned(m, tools, arguments, calls) ==
  /\ \A i \in CallNumbers : tools[i] # NoBlock <=> i \in calls
  /\ \A i \in calls : tools[i] \in Nat /\ tools[i] < Len(m) /\ m[tools[i] + 1] = Block("tool", arguments[i])
  /\ \A i, j \in calls : tools[i] = tools[j] => i = j
  /\ \A k \in DOMAIN m : m[k].kind = "tool" => \E i \in calls : k = tools[i] + 1
  /\ \A i \in CallNumbers \ calls : arguments[i] = <<>>

\* What the message folded from an encoder's events says.
Tale(m, c, text, reasons, arguments, calls) ==
  /\ m \in Seq(MessageBlocks) /\ Len(m) = c.next
  /\ c.open # NoBlock => c.next # 0 /\ m[c.next].kind = c.open.kind
  /\ Words(m, "text") = text /\ Words(m, "thinking") = reasons
  /\ \A k \in DOMAIN m : m[k].kind = "thinking" => m[k].body # <<>>
  /\ Owned(m, c.tools, arguments, calls)

Tells(c, text, reasons, arguments, calls) == Tale(Blocks(c.events), c, text, reasons, arguments, calls)

\* Events between blocks fold to nothing.
LEMMA QuietEvent ==
  ASSUME NEW c \in Codecs, NEW e \in Events, e.type \notin {"block_start", "delta"}
  PROVE  Blocks(Emit(c, e).events) = Blocks(c.events)
<1>1. c.events \in Seq(Events) /\ Emit(c, e).events = Append(c.events, e)
  BY CodecFields, Emitted
<1>2. Blocks(Append(c.events, e)) = Folded(Blocks(c.events), e)
  BY <1>1, BlocksAppend
<1> QED  BY <1>1, <1>2 DEF Folded

LEMMA QuietStarted ==
  ASSUME NEW c \in Codecs
  PROVE  LET d == Started(c) IN
         Blocks(d.events) = Blocks(c.events) /\ d.open = c.open /\ d.next = c.next /\ d.tools = c.tools
<1>1. CASE c.started
  BY <1>1 DEF Started
<1>2. CASE ~c.started
  <2> DEFINE e == Event("message_start", 0, "message", <<>>)
             m == Emit(c, e)
  <2>1. e \in Events /\ e.type = "message_start"
    BY MessageEvent
  <2>2. Started(c) = [m EXCEPT !.started = TRUE]
    BY <1>2 DEF Started
  <2> HIDE DEF e
  <2>3. m \in Codecs /\ m.open = c.open /\ m.tools = c.tools /\ m.next = c.next
    BY <2>1, Emitted
  <2>4. Blocks(m.events) = Blocks(c.events)
    BY <2>1, QuietEvent
  <2> HIDE DEF m
  <2> QED  BY <2>2, <2>3, <2>4 DEF Codecs
<1> QED  BY <1>1, <1>2, CodecFields

LEMMA QuietClosed ==
  ASSUME NEW c \in Codecs
  PROVE  LET d == CloseOpen(c) IN
         Blocks(d.events) = Blocks(c.events) /\ d.open = NoBlock /\ d.next = c.next /\ d.tools = c.tools
<1>1. CASE c.open = NoBlock
  BY <1>1 DEF CloseOpen
<1>2. CASE c.open # NoBlock
  <2> DEFINE e == Event("block_stop", c.open.index, c.open.kind, <<>>)
             m == Emit(c, e)
  <2>1. c.open.index \in Nat /\ c.open.kind \in BlockKinds
    BY <1>2, CodecFields
  <2>2. e \in Events /\ e.type = "block_stop"
    BY <2>1, BlockEvent
  <2>3. CloseOpen(c) = [m EXCEPT !.open = NoBlock]
    BY <1>2 DEF CloseOpen
  <2> HIDE DEF e
  <2>4. m \in Codecs /\ m.tools = c.tools /\ m.next = c.next
    BY <2>2, Emitted
  <2>5. Blocks(m.events) = Blocks(c.events)
    BY <2>2, QuietEvent
  <2> HIDE DEF m
  <2> QED  BY <2>3, <2>4, <2>5 DEF Codecs
<1> QED  BY <1>1, <1>2

LEMMA BlocksOpened ==
  ASSUME NEW c, Going(c), NEW kind \in BlockKinds
  PROVE  Blocks(OpenBlock(c, kind).events) = Append(Blocks(c.events), Block(kind, <<>>))
<1> DEFINE b == CloseOpen(c)
           e == Event("block_start", c.next, kind, <<>>)
           m == Emit(b, e)
           block == [index |-> c.next, kind |-> kind]
<1>1. c \in Codecs /\ c.next \in Nat
  BY CodecFields DEF Going
<1>2. b \in Codecs /\ Blocks(b.events) = Blocks(c.events)
  BY <1>1, ClosedGoes, QuietClosed DEF Going
<1>3. OpenBlock(c, kind) = [m EXCEPT !.open = block, !.next = @ + 1]
  BY DEF OpenBlock
<1>4. e \in Events /\ e.type = "block_start" /\ e.kind = kind
  BY <1>1, BlockEvent
<1> HIDE DEF b, e, block
<1>5. m \in Codecs /\ m.events = Append(b.events, e) /\ b.events \in Seq(Events)
  BY <1>2, <1>4, Emitted, CodecFields
<1>6. Blocks(Append(b.events, e)) = Folded(Blocks(b.events), e)
  BY <1>4, <1>5, BlocksAppend
<1> HIDE DEF m
<1>7. OpenBlock(c, kind).events = m.events
  BY <1>3, <1>5 DEF Codecs
<1> QED  BY <1>2, <1>4, <1>5, <1>6, <1>7 DEF Folded

LEMMA BlocksSaid ==
  ASSUME NEW c \in Codecs, NEW i \in Nat, NEW kind \in BlockKinds, NEW n \in Nat,
         NEW m, Blocks(c.events) = m, i + 1 \in DOMAIN m
  PROVE  Blocks(Emit(c, Event("delta", i, kind, <<n>>)).events) = Prolonged(m, i + 1, <<n>>)
<1> DEFINE e == Event("delta", i, kind, <<n>>)
<1>1. e \in Events /\ e.type = "delta" /\ e.index = i
  BY DeltaEvent
<1>2. e.body = <<n>>
  BY DEF Event
<1> HIDE DEF e
<1>3. c.events \in Seq(Events) /\ Emit(c, e).events = Append(c.events, e)
  BY <1>1, CodecFields, Emitted
<1>4. Blocks(Append(c.events, e)) = Folded(m, e)
  BY <1>1, <1>3, BlocksAppend
<1>5. Folded(m, e) = Prolonged(m, i + 1, <<n>>)
  BY <1>1, <1>2 DEF Folded, Prolonged
<1> QED  BY <1>3, <1>4, <1>5 DEF e

LEMMA QuietTells ==
  ASSUME NEW c, NEW T, NEW R, NEW A, NEW S, Tells(c, T, R, A, S),
         NEW d, Blocks(d.events) = Blocks(c.events), d.next = c.next, d.tools = c.tools, d.open \in {c.open, NoBlock}
  PROVE  Tells(d, T, R, A, S)
BY DEF Tells, Tale

\* A block that is no tool call comes after the others.
LEMMA OwnedGrows ==
  ASSUME NEW m \in Seq(MessageBlocks), NEW tools, NEW A, NEW S, Owned(m, tools, A, S),
         NEW b \in MessageBlocks, b.kind # "tool"
  PROVE  Owned(Append(m, b), tools, A, S)
<1> DEFINE N == Len(m)
           p == Append(m, b)
<1>1. /\ N \in Nat /\ DOMAIN m = 1..N /\ DOMAIN p = 1..(N + 1) /\ Len(p) = N + 1 /\ p[N + 1] = b
      /\ \A k \in 1..N : p[k] = m[k]
  OBVIOUS
<1> HIDE DEF p
<1>2. ASSUME NEW i \in S
      PROVE  tools[i] \in Nat /\ tools[i] < Len(p) /\ p[tools[i] + 1] = Block("tool", A[i])
  <2>1. tools[i] \in Nat /\ tools[i] < N /\ m[tools[i] + 1] = Block("tool", A[i])
    BY <1>2 DEF Owned
  <2>2. tools[i] + 1 \in 1..N /\ tools[i] < N + 1
    BY <1>1, <2>1
  <2> QED  BY <1>1, <2>1, <2>2
<1>3. ASSUME NEW k \in DOMAIN p, p[k].kind = "tool"
      PROVE  \E i \in S : k = tools[i] + 1
  <2>1. k \in 1..N
    BY <1>1, <1>3
  <2> QED  BY <1>1, <1>3, <2>1 DEF Owned
<1> QED  BY <1>2, <1>3 DEF Owned, p

LEMMA TaleGrows ==
  ASSUME NEW m, NEW c, c.next \in Nat, NEW T, NEW R, NEW A, NEW S, Tale(m, c, T, R, A, S),
         NEW b \in MessageBlocks, b.kind # "tool", b.kind = "thinking" => b.body # <<>>,
         NEW d, d.next = c.next + 1, d.tools = c.tools, d.open # NoBlock => d.open.kind = b.kind
  PROVE  Tale(Append(m, b), d, T \o Said(b, "text"), R \o Said(b, "thinking"), A, S)
<1> DEFINE N == Len(m)
           p == Append(m, b)
<1>1. m \in Seq(MessageBlocks) /\ N = c.next
  BY DEF Tale
<1>2. /\ N \in Nat /\ DOMAIN m = 1..N /\ p \in Seq(MessageBlocks) /\ DOMAIN p = 1..(N + 1) /\ Len(p) = N + 1 /\ p[N + 1] = b
      /\ \A k \in 1..N : p[k] = m[k]
  BY <1>1
<1>3. Words(p, "text") = T \o Said(b, "text") /\ Words(p, "thinking") = R \o Said(b, "thinking")
  BY <1>1, WordsAppend DEF Tale
<1>4. Owned(p, d.tools, A, S)
  BY <1>1, OwnedGrows DEF Tale
<1> HIDE DEF p, N
<1>5. d.open # NoBlock => d.next # 0 /\ p[d.next].kind = d.open.kind
  BY <1>1, <1>2
<1>6. \A k \in DOMAIN p : p[k].kind = "thinking" => p[k].body # <<>>
  <2>1. \A k \in 1..N : m[k].kind = "thinking" => m[k].body # <<>>
    BY <1>2 DEF Tale
  <2>2. \A k \in 1..(N + 1) : k \in 1..N \/ k = N + 1
    BY <1>2
  <2> QED  BY <1>2, <2>1, <2>2
<1>7. Len(p) = d.next
  BY <1>1, <1>2
<1>8. Tale(p, d, T \o Said(b, "text"), R \o Said(b, "thinking"), A, S)
  BY <1>2, <1>3, <1>4, <1>5, <1>6, <1>7 DEF Tale
<1> QED  BY <1>8 DEF p

LEMMA MarkedTells ==
  ASSUME NEW c, Going(c), NEW T, NEW R, NEW A, NEW S, Tells(c, T, R, A, S)
  PROVE  Tells([c EXCEPT !.semantic = TRUE], T, R, A, S)
<1> DEFINE d == [c EXCEPT !.semantic = TRUE]
<1>1. d.events = c.events /\ d.open = c.open /\ d.next = c.next /\ d.tools = c.tools
  BY MarkedGoes
<1> HIDE DEF d
<1>2. Tells(d, T, R, A, S)
  BY <1>1, QuietTells
<1> QED  BY <1>2 DEF d

\* Changing the element that was added is adding another.
LEMMA AppendedInstead ==
  ASSUME NEW X, NEW s \in Seq(X), NEW x \in X, NEW y \in X
  PROVE  [Append(s, x) EXCEPT ![Len(s) + 1] = y] = Append(s, y)
<1> DEFINE N == Len(s)
           t == Append(s, x)
           u == [t EXCEPT ![N + 1] = y]
           v == Append(s, y)
<1>1. /\ N \in Nat /\ t \in Seq(X) /\ Len(t) = N + 1 /\ N + 1 \in 1..Len(t) /\ \A k \in 1..N : t[k] = s[k]
      /\ v \in Seq(X) /\ Len(v) = N + 1 /\ v[N + 1] = y /\ \A k \in 1..N : v[k] = s[k]
  OBVIOUS
<1> HIDE DEF t, v, N
<1>2. u \in Seq(X) /\ Len(u) = Len(t) /\ \A k \in 1..Len(t) : u[k] = IF k = N + 1 THEN y ELSE t[k]
  BY <1>1, ExceptSeq
<1> HIDE DEF u
<1>3. \A k \in 1..(N + 1) : u[k] = v[k]
  <2>1. \A k \in 1..(N + 1) : k \in 1..N \/ k = N + 1
    BY <1>1
  <2> QED  BY <1>1, <1>2, <2>1
<1>4. u = v
  BY <1>1, <1>2, <1>3, SeqEqual
<1> QED  BY <1>4 DEF u, v, t, N

\* A reasoning is a block with that reasoning.
LEMMA ReasoningTells ==
  ASSUME NEW c, Going(c), NEW n \in Nat, NEW T \in Seq(Nat), NEW R \in Seq(Nat), NEW A, NEW S,
         Tells(c, T, R, A, S)
  PROVE  Tells(PushReasoning(c, n), T, IF options.keep THEN R \o <<n>> ELSE R, A, S)
<1>1. c \in Codecs /\ c.next \in Nat
  BY CodecFields DEF Going
<1>2. CASE ~options.keep
  BY <1>2, MarkedTells DEF PushReasoning
<1>3. CASE options.keep
  <2> DEFINE opened == OpenBlock(c, "thinking")
             said == Emit(opened, Event("delta", c.next, "thinking", <<n>>))
             marked == [said EXCEPT !.semantic = TRUE]
             d == CloseOpen(marked)
             m == Blocks(c.events)
             p == Append(m, Block("thinking", <<>>))
             b == Block("thinking", <<n>>)
  <2>1. "thinking" \in BlockKinds
    BY DEF BlockKinds
  <2>2. /\ Going(opened) /\ opened.open = [index |-> c.next, kind |-> "thinking"] /\ opened.open # NoBlock
        /\ HasStart(opened.events, c.next, "thinking") /\ opened.tools = c.tools /\ opened.next = c.next + 1
    BY <2>1, OpenedGoes
  <2>3. Blocks(opened.events) = p
    BY <2>1, BlocksOpened
  <2>4. opened.open.index = c.next
    BY <2>2
  <2> HIDE DEF opened
  <2>5. Tale(m, c, T, R, A, S)
    BY DEF Tells
  <2> HIDE DEF m
  <2>6. m \in Seq(MessageBlocks) /\ Len(m) = c.next
    BY <2>5 DEF Tale
  <2>7. Block("thinking", <<>>) \in MessageBlocks /\ b \in MessageBlocks
    BY <2>1 DEF Block, MessageBlocks
  <2>8. p \in Seq(MessageBlocks) /\ DOMAIN p = 1..(c.next + 1) /\ p[c.next + 1] = Block("thinking", <<>>)
    BY <1>1, <2>6, <2>7
  <2>9. [p EXCEPT ![c.next + 1] = b] = Append(m, b)
    <3> DEFINE x == Block("thinking", <<>>)
    <3>1. p = Append(m, x) /\ x \in MessageBlocks
      BY <2>7
    <3> HIDE DEF x, b, p
    <3>2. [Append(m, x) EXCEPT ![Len(m) + 1] = b] = Append(m, b)
      BY <2>6, <2>7, <3>1, AppendedInstead
    <3> QED  BY <2>6, <3>1, <3>2
  <2> HIDE DEF p
  <2>10. Blocks(said.events) = Append(m, b)
    <3>1. c.next + 1 \in DOMAIN p /\ opened \in Codecs
      BY <1>1, <2>2, <2>8 DEF Going
    <3>2. Blocks(said.events) = Prolonged(p, c.next + 1, <<n>>)
      BY <1>1, <2>1, <2>3, <3>1, BlocksSaid
    <3> DEFINE q == p[c.next + 1]
    <3>3. q.kind = "thinking" /\ q.body = <<>>
      BY <2>8 DEF Block
    <3> HIDE DEF q
    <3>4. Block(q.kind, q.body \o <<n>>) = b
      BY <3>3
    <3>5. Prolonged(p, c.next + 1, <<n>>) = [p EXCEPT ![c.next + 1] = b]
      BY <3>4 DEF Prolonged, q
    <3> QED  BY <2>9, <3>2, <3>5
  <2>11. Going(said) /\ said.next = opened.next /\ said.tools = opened.tools
    BY <1>1, <2>1, <2>2, <2>4, DeltaGoes
  <2> HIDE DEF said
  <2>12. Going(marked) /\ marked.events = said.events /\ marked.next = said.next /\ marked.tools = said.tools
    BY <2>11, MarkedGoes
  <2> HIDE DEF marked
  <2>13. marked \in Codecs
    BY <2>12 DEF Going
  <2>14. Blocks(d.events) = Append(m, b) /\ d.open = NoBlock /\ d.next = c.next + 1 /\ d.tools = c.tools
    BY <2>2, <2>10, <2>11, <2>12, <2>13, QuietClosed
  <2> HIDE DEF d
  <2>15. b.kind = "thinking" /\ b.body = <<n>> /\ b.body # <<>> /\ Said(b, "text") = <<>> /\ Said(b, "thinking") = <<n>>
    BY DEF Block, Said
  <2> HIDE DEF b
  <2>16. Tale(Append(m, b), d, T \o Said(b, "text"), R \o Said(b, "thinking"), A, S)
    BY <1>1, <2>5, <2>7, <2>14, <2>15, TaleGrows
  <2>17. T \o Said(b, "text") = T /\ R \o Said(b, "thinking") = R \o <<n>>
    <3>1. T \o <<>> = T
      OBVIOUS
    <3> QED  BY <2>15, <3>1
  <2>18. Tells(d, T, R \o <<n>>, A, S)
    BY <2>14, <2>16, <2>17 DEF Tells
  <2> QED  BY <1>3, <2>18 DEF PushReasoning, d, marked, said, opened
<1> QED  BY <1>2, <1>3

LEMMA TextTells ==
  ASSUME NEW c, Going(c), NEW n \in Nat, NEW T \in Seq(Nat), NEW R \in Seq(Nat), NEW A, NEW S,
         Tells(c, T, R, A, S)
  PROVE  Tells(PushText(c, n), T \o <<n>>, R, A, S)
<1> DEFINE opened == OpenText(c)
           i == opened.open.index
           said == Emit(opened, Event("delta", i, "text", <<n>>))
           m == Blocks(opened.events)
<1>1. c \in Codecs /\ c.next \in Nat /\ "text" \in BlockKinds
  BY CodecFields DEF Going, BlockKinds
<1>2. /\ Going(opened) /\ Tells(opened, T, R, A, S) /\ i \in Nat /\ i = opened.next - 1
      /\ opened.open # NoBlock /\ opened.open.kind = "text" /\ HasStart(opened.events, i, "text")
  <2>1. CASE c.open # NoBlock /\ c.open.kind = "text"
    <3>1. opened = c
      BY <2>1 DEF OpenText
    <3>2. c.open.index \in Nat /\ c.open.index = c.next - 1 /\ HasStart(c.events, c.open.index, c.open.kind)
      BY <2>1, CodecFields DEF Going, Shape
    <3> HIDE DEF opened
    <3> QED  BY <2>1, <3>1, <3>2
  <2>2. CASE ~(c.open # NoBlock /\ c.open.kind = "text")
    <3> DEFINE block == [index |-> c.next, kind |-> "text"]
               b == Block("text", <<>>)
               p == Blocks(c.events)
    <3>1. opened = OpenBlock(c, "text")
      BY <2>2 DEF OpenText
    <3>2. block.index = c.next /\ block.kind = "text"
      OBVIOUS
    <3> HIDE DEF opened, block
    <3>3. /\ Going(opened) /\ opened.open = block /\ opened.open # NoBlock /\ HasStart(opened.events, c.next, "text")
          /\ opened.tools = c.tools /\ opened.next = c.next + 1
      BY <1>1, <3>1, OpenedGoes DEF block
    <3>4. Blocks(opened.events) = Append(p, b)
      BY <1>1, <3>1, BlocksOpened
    <3>5. b \in MessageBlocks /\ b.kind = "text" /\ Said(b, "text") = <<>> /\ Said(b, "thinking") = <<>>
      BY <1>1 DEF Block, MessageBlocks, Said
    <3>6. Tale(p, c, T, R, A, S)
      BY DEF Tells
    <3> HIDE DEF b, p
    <3>7. Tale(Append(p, b), opened, T \o Said(b, "text"), R \o Said(b, "thinking"), A, S)
      BY <1>1, <3>2, <3>3, <3>5, <3>6, TaleGrows
    <3>8. T \o Said(b, "text") = T /\ R \o Said(b, "thinking") = R
      <4>1. T \o <<>> = T /\ R \o <<>> = R
        OBVIOUS
      <4> QED  BY <3>5, <4>1
    <3>9. Tells(opened, T, R, A, S)
      BY <3>4, <3>7, <3>8 DEF Tells
    <3>10. c.next = opened.next - 1
      BY <1>1, <3>3
    <3> QED  BY <1>1, <3>2, <3>3, <3>9, <3>10
  <2> QED  BY <2>1, <2>2
<1> HIDE DEF opened
<1>3. opened \in Codecs /\ opened.next \in Nat
  BY <1>2, CodecFields DEF Going
<1>4. Tale(m, opened, T, R, A, S)
  BY <1>2 DEF Tells
<1> HIDE DEF m, i
<1> DEFINE N == Len(m)
           p == Prolonged(m, N, <<n>>)
<1>5. m \in Seq(MessageBlocks) /\ N = opened.next /\ N = i + 1 /\ N \in Nat \ {0} /\ m[N].kind = "text"
  BY <1>2, <1>3, <1>4 DEF Tale
<1>6. DOMAIN m = 1..N
  BY <1>5
<1> HIDE DEF N
<1>7. Blocks(said.events) = p
  <2>1. i + 1 \in DOMAIN m
    BY <1>5, <1>6
  <2>2. Blocks(said.events) = Prolonged(m, i + 1, <<n>>)
    BY <1>1, <1>2, <1>3, <2>1, BlocksSaid DEF m
  <2> QED  BY <1>5, <2>2
<1>8. Going(said) /\ said.open = opened.open /\ said.next = opened.next /\ said.tools = opened.tools
  BY <1>1, <1>2, DeltaGoes DEF i
<1> HIDE DEF said
<1> HIDE DEF p
<1>9. /\ p \in Seq(MessageBlocks) /\ DOMAIN p = DOMAIN m
      /\ Words(p, "text") = T \o <<n>> /\ Words(p, "thinking") = R
  <2> DEFINE w == <<n>>
  <2>1. w \in Seq(Nat) /\ N \in Nat \ {0} /\ Len(m) = N
    BY <1>5 DEF N
  <2>2. Words(m, "text") = T /\ Words(m, "thinking") = R
    BY <1>4 DEF Tale
  <2>3. p = Prolonged(m, N, w)
    BY DEF p
  <2> HIDE DEF w
  <2>4. LastGrew(p, m, N, w, "text") /\ LastGrew(p, m, N, w, "thinking")
    <3>1. m \in Seq(MessageBlocks)
      BY <1>5
    <3> QED  BY <2>1, <2>3, <3>1, WordsOfLast
  <2>5. /\ p \in Seq(MessageBlocks) /\ DOMAIN p = DOMAIN m
        /\ Words(p, "text") = Words(m, "text") \o w /\ Words(p, "thinking") = Words(m, "thinking")
    <3>1. m[N].kind = "text"
      BY <1>5
    <3> QED  BY <2>4, <3>1 DEF LastGrew
  <2>6. Words(p, "text") = T \o w /\ Words(p, "thinking") = R
    BY <2>2, <2>5
  <2> QED  BY <2>5, <2>6 DEF w
<1>10. /\ p[N].kind = "text" /\ \A k \in 1..N : k # N => p[k] = m[k]
  <2>1. N \in DOMAIN m
    BY <1>5, <1>6
  <2>2. p[N] = Block(m[N].kind, m[N].body \o <<n>>)
    BY <2>1 DEF p, Prolonged
  <2>3. \A k \in 1..N : k # N => p[k] = m[k]
    BY <1>6 DEF p, Prolonged
  <2> QED  BY <1>5, <1>6, <2>2, <2>3 DEF Block
<1>11. Len(p) = N
  BY <1>5, <1>6, <1>9, LengthOfDomain
<1>12. \A k \in DOMAIN p : p[k].kind = "thinking" => p[k].body # <<>>
  BY <1>4, <1>6, <1>9, <1>10 DEF Tale
<1>13. Owned(p, said.tools, A, S)
  <2>1. Owned(m, opened.tools, A, S)
    BY <1>4 DEF Tale
  <2>2. ASSUME NEW j \in S
        PROVE  opened.tools[j] \in Nat /\ opened.tools[j] < Len(p) /\ p[opened.tools[j] + 1] = Block("tool", A[j])
    <3>1. opened.tools[j] \in Nat /\ opened.tools[j] < N /\ m[opened.tools[j] + 1] = Block("tool", A[j])
      BY <2>1, <2>2 DEF Owned, N
    <3>2. m[opened.tools[j] + 1].kind = "tool"
      BY <3>1 DEF Block
    <3>3. opened.tools[j] + 1 \in 1..N /\ opened.tools[j] + 1 # N
      BY <1>5, <3>1, <3>2
    <3> QED  BY <1>10, <1>11, <3>1, <3>3
  <2>3. \A k \in DOMAIN p : p[k].kind = "tool" => \E j \in S : k = opened.tools[j] + 1
    <3>1. ASSUME NEW k \in DOMAIN p, p[k].kind = "tool"
          PROVE  \E j \in S : k = opened.tools[j] + 1
      <4>1. k \in DOMAIN m /\ m[k].kind = "tool"
        BY <1>6, <1>9, <1>10, <3>1
      <4> QED  BY <2>1, <4>1 DEF Owned
    <3> QED  BY <3>1
  <2> QED  BY <1>8, <2>1, <2>2, <2>3 DEF Owned
<1>14. Tale(p, said, T \o <<n>>, R, A, S)
  BY <1>5, <1>8, <1>9, <1>10, <1>11, <1>12, <1>13, <1>2 DEF Tale
<1>15. Tells(said, T \o <<n>>, R, A, S)
  BY <1>7, <1>14 DEF Tells
<1>16. Tells([said EXCEPT !.semantic = TRUE], T \o <<n>>, R, A, S)
  BY <1>8, <1>15, MarkedTells
<1> QED  BY <1>16 DEF PushText, said, i, opened

LEMMA ToolTells ==
  ASSUME NEW c, Going(c), NEW i \in CallNumbers, NEW T \in Seq(Nat), NEW R \in Seq(Nat), NEW A,
         NEW S \in SUBSET CallNumbers, Tells(c, T, R, A, S)
  PROVE  Tells(OpenTool(c, i), T, R, A, S \cup {i})
<1>1. c \in Codecs /\ c.next \in Nat /\ c.tools \in [CallNumbers -> Nat \cup {NoBlock}]
  BY CodecFields DEF Going
<1>2. CASE c.tools[i] # NoBlock
  <2>1. i \in S
    BY <1>2 DEF Tells, Tale, Owned
  <2>2. S \cup {i} = S
    BY <2>1
  <2> QED  BY <1>2, <2>2 DEF OpenTool
<1>3. CASE c.tools[i] = NoBlock
  <2> DEFINE opened == OpenBlock(c, "tool")
             d == [opened EXCEPT !.tools[i] = c.next]
             m == Blocks(c.events)
             b == Block("tool", <<>>)
             p == Append(m, b)
             block == [index |-> c.next, kind |-> "tool"]
             U == S \cup {i}
  <2>1. "tool" \in BlockKinds
    BY DEF BlockKinds
  <2>2. /\ Going(opened) /\ opened.open = block /\ opened.tools = c.tools /\ opened.next = c.next + 1
        /\ Blocks(opened.events) = p
    BY <2>1, OpenedGoes, BlocksOpened
  <2>3. block.kind = "tool"
    OBVIOUS
  <2> HIDE DEF opened, block
  <2>4. opened \in Codecs
    BY <2>2 DEF Going
  <2>5. d.events = opened.events /\ d.next = c.next + 1 /\ d.open = block /\ d.tools = [c.tools EXCEPT ![i] = c.next]
    BY <2>2, <2>4 DEF Codecs
  <2> HIDE DEF d
  <2>6. d.tools[i] = c.next /\ \A j \in CallNumbers \ {i} : d.tools[j] = c.tools[j]
    BY <1>1, <2>5
  <2>7. Tale(m, c, T, R, A, S)
    BY DEF Tells
  <2> HIDE DEF m
  <2>8. m \in Seq(MessageBlocks) /\ Len(m) = c.next /\ Owned(m, c.tools, A, S)
    BY <2>7 DEF Tale
  <2>9. i \notin S /\ A[i] = <<>> /\ c.next # NoBlock
    BY <1>1, <1>3, <2>8, CodecAssumption DEF Owned
  <2>10. b \in MessageBlocks /\ b.kind = "tool" /\ Said(b, "text") = <<>> /\ Said(b, "thinking") = <<>>
    BY <2>1 DEF Block, MessageBlocks, Said
  <2>11. b = Block("tool", A[i])
    BY <2>9
  <2> HIDE DEF b
  <2> DEFINE N == Len(m)
  <2>12. /\ N \in Nat /\ DOMAIN m = 1..N /\ p \in Seq(MessageBlocks) /\ DOMAIN p = 1..(N + 1) /\ Len(p) = N + 1
         /\ p[N + 1] = b /\ \A k \in 1..N : p[k] = m[k]
    BY <2>8, <2>10
  <2>13. Words(p, "text") = T /\ Words(p, "thinking") = R
    <3>1. Words(p, "text") = Words(m, "text") \o <<>> /\ Words(p, "thinking") = Words(m, "thinking") \o <<>>
      BY <2>8, <2>10, WordsAppend
    <3>2. Words(m, "text") = T /\ Words(m, "thinking") = R
      BY <2>7 DEF Tale
    <3>3. T \o <<>> = T /\ R \o <<>> = R
      OBVIOUS
    <3> QED  BY <3>1, <3>2, <3>3
  <2> HIDE DEF p, N
  <2>14. \A k \in DOMAIN p : p[k].kind = "thinking" => p[k].body # <<>>
    <3>1. \A k \in 1..N : m[k].kind = "thinking" => m[k].body # <<>>
      BY <2>7, <2>12 DEF Tale
    <3>2. \A k \in 1..(N + 1) : k \in 1..N \/ k = N + 1
      BY <2>12
    <3> QED  BY <2>10, <2>12, <3>1, <3>2
  <2>15. ASSUME NEW j \in U
         PROVE  /\ d.tools[j] \in Nat /\ d.tools[j] < Len(p) /\ p[d.tools[j] + 1] = Block("tool", A[j])
                /\ j # i => d.tools[j] = c.tools[j] /\ d.tools[j] < N
    <3>1. CASE j = i
      BY <1>1, <2>6, <2>8, <2>11, <2>12, <3>1 DEF N
    <3>2. CASE j # i
      <4>1. j \in S /\ d.tools[j] = c.tools[j]
        BY <2>6, <3>2
      <4>2. c.tools[j] \in Nat /\ c.tools[j] < N /\ m[c.tools[j] + 1] = Block("tool", A[j])
        BY <2>8, <4>1 DEF Owned, N
      <4>3. c.tools[j] + 1 \in 1..N /\ c.tools[j] < N + 1
        BY <2>12, <4>2
      <4> QED  BY <2>12, <4>1, <4>2, <4>3
    <3> QED  BY <3>1, <3>2
  <2>16. \A j, k \in U : d.tools[j] = d.tools[k] => j = k
    <3>1. ASSUME NEW j \in U, NEW k \in U, d.tools[j] = d.tools[k], j # k
          PROVE  FALSE
      <4>1. d.tools[i] = N
        BY <2>6, <2>8 DEF N
      <4>2. j # i /\ k # i
        BY <2>12, <2>15, <3>1, <4>1
      <4>3. j \in S /\ k \in S /\ c.tools[j] = c.tools[k]
        BY <2>15, <3>1, <4>2
      <4> QED  BY <2>8, <3>1, <4>3 DEF Owned
    <3> QED  BY <3>1
  <2>17. ASSUME NEW k \in DOMAIN p, p[k].kind = "tool"
         PROVE  \E j \in U : k = d.tools[j] + 1
    <3>1. CASE k = N + 1
      <4>1. d.tools[i] = N /\ i \in U
        BY <2>6, <2>8 DEF N
      <4> QED  BY <3>1, <4>1
    <3>2. CASE k # N + 1
      <4>1. k \in 1..N
        BY <2>12, <3>2
      <4>2. PICK j \in S : k = c.tools[j] + 1
        BY <2>8, <2>12, <2>17, <4>1 DEF Owned
      <4>3. j \in U /\ d.tools[j] = c.tools[j]
        BY <2>6, <2>9
      <4> QED  BY <4>2, <4>3
    <3> QED  BY <3>1, <3>2
  <2>18. Owned(p, d.tools, A, U)
    <3>1. \A j \in CallNumbers : d.tools[j] # NoBlock <=> j \in U
      BY <2>6, <2>8, <2>9 DEF Owned
    <3>2. \A j \in CallNumbers \ U : A[j] = <<>>
      BY <2>8 DEF Owned
    <3> HIDE DEF U
    <3> QED  BY <2>15, <2>16, <2>17, <3>1, <3>2 DEF Owned
  <2>19. Len(p) = d.next /\ (d.open # NoBlock => d.next # 0 /\ p[d.next].kind = d.open.kind)
    BY <1>1, <2>3, <2>5, <2>8, <2>10, <2>12 DEF N
  <2>20. Tale(p, d, T, R, A, U)
    BY <2>12, <2>13, <2>14, <2>18, <2>19 DEF Tale
  <2>21. Tells(d, T, R, A, U)
    BY <2>2, <2>5, <2>20 DEF Tells
  <2> QED  BY <1>3, <2>21 DEF OpenTool, d, opened
<1> QED  BY <1>2, <1>3

-----------------------------------------------------------------------------
(* Pieces of tool calls                                                    *)

\* The arguments of the calls after a piece of one.
Written(A, call, n) == IF call.args THEN [A EXCEPT ![call.index] = A[call.index] \o <<n>>] ELSE A

\* A tool block that goes on changes no words, and the arguments of its call alone.
LEMMA ToolTaleGoesOn ==
  ASSUME NEW m, NEW c, NEW T, NEW R, NEW A \in [CallNumbers -> Seq(Nat)], NEW S \in SUBSET CallNumbers,
         Tale(m, c, T, R, A, S), NEW i \in S, NEW n \in Nat,
         NEW d, d.next = c.next, d.tools = c.tools, d.open = c.open, d.next \in Nat,
         NEW B \in [CallNumbers -> Seq(Nat)], B[i] = A[i] \o <<n>>, \A j \in CallNumbers \ {i} : B[j] = A[j],
         NEW p, p = Prolonged(m, c.tools[i] + 1, <<n>>)
  PROVE  Tale(p, d, T, R, B, S)
<1> DEFINE N == Len(m)
           k0 == c.tools[i] + 1
           z == Block("tool", B[i])
           w == <<n>>
<1>1. m \in Seq(MessageBlocks) /\ N = c.next /\ Owned(m, c.tools, A, S) /\ Words(m, "text") = T /\ Words(m, "thinking") = R
  BY DEF Tale
<1>2. N \in Nat /\ DOMAIN m = 1..N /\ \A k \in 1..N : m[k] \in MessageBlocks
  BY <1>1, SequenceFacts
<1>3. k0 \in 1..N /\ m[k0] = Block("tool", A[i])
  <2> DEFINE t == c.tools[i]
  <2>1. t \in Nat /\ t < N /\ m[t + 1] = Block("tool", A[i])
    BY <1>1 DEF Owned
  <2> HIDE DEF t, N
  <2>2. t + 1 \in 1..N
    BY <1>2, <2>1
  <2> QED  BY <2>1, <2>2 DEF t
<1>4. z \in MessageBlocks /\ z.kind = "tool" /\ z.body = B[i]
  BY DEF Block, MessageBlocks, BlockKinds
<1>5. m[k0].kind = "tool" /\ m[k0].body = A[i]
  BY <1>3 DEF Block
<1>6. p = [m EXCEPT ![k0] = z]
  BY <1>5 DEF Prolonged
<1> HIDE DEF z, k0, N
<1>7. p \in Seq(MessageBlocks) /\ Len(p) = N /\ \A k \in 1..N : p[k] = IF k = k0 THEN z ELSE m[k]
  <2> DEFINE X == MessageBlocks
  <2>1. k0 \in 1..Len(m) /\ m \in Seq(X) /\ z \in X
    BY <1>1, <1>3, <1>4 DEF N
  <2> HIDE DEF X
  <2>2. p \in Seq(X) /\ Len(p) = Len(m) /\ \A k \in 1..Len(m) : p[k] = IF k = k0 THEN z ELSE m[k]
    <3> DEFINE q == [m EXCEPT ![k0] = z]
    <3>1. q \in Seq(X) /\ Len(q) = Len(m) /\ \A k \in 1..Len(m) : q[k] = IF k = k0 THEN z ELSE m[k]
      BY ONLY <2>1, ExceptSeq
    <3> HIDE DEF q
    <3>2. p = q
      BY <1>6 DEF q
    <3> QED  BY <3>1, <3>2
  <2> QED  BY <2>2 DEF N, X
<1>8. DOMAIN p = 1..N
  BY <1>7, SequenceFacts
<1>9. \A k \in 1..N : p[k].kind = m[k].kind
  BY <1>4, <1>5, <1>7
<1>10. ASSUME NEW kind \in {"text", "thinking"}
       PROVE  Words(p, kind) = Words(m, kind)
  <2>1. ASSUME NEW k \in DOMAIN m
        PROVE  Said(p[k], kind) = Said(m[k], kind)
    BY <1>2, <1>4, <1>5, <1>7 DEF Said
  <2> QED  BY <1>1, <1>2, <1>7, <1>8, <2>1, WordsSame
<1>11. \A k \in DOMAIN p : p[k].kind = "thinking" => p[k].body # <<>>
  <2>1. ASSUME NEW k \in 1..N, p[k].kind = "thinking"
        PROVE  p[k].body # <<>>
    <3>1. k # k0 /\ p[k] = m[k]
      BY <1>4, <1>7, <2>1
    <3> QED  BY <1>2, <2>1, <3>1 DEF Tale
  <2> QED  BY <1>8, <2>1
<1>12. Owned(p, d.tools, B, S)
  <2>1. ASSUME NEW j \in S
        PROVE  d.tools[j] \in Nat /\ d.tools[j] < Len(p) /\ p[d.tools[j] + 1] = Block("tool", B[j])
    <3>1. d.tools[j] \in Nat /\ d.tools[j] < N /\ m[d.tools[j] + 1] = Block("tool", A[j])
      BY <1>1 DEF Owned, N
    <3>2. d.tools[j] + 1 \in 1..N
      <4> DEFINE q == d.tools[j]
      <4>1. q \in Nat /\ q < N
        BY <3>1
      <4> HIDE DEF q
      <4>2. q + 1 \in 1..N
        BY <1>2, <4>1
      <4> QED  BY <4>2 DEF q
    <3>3. CASE j = i
      BY <1>7, <3>1, <3>2, <3>3 DEF z, k0
    <3>4. CASE j # i
      <4>1. d.tools[j] # d.tools[i] /\ d.tools[i] \in Nat
        BY <1>1, <3>4 DEF Owned
      <4>2. d.tools[j] + 1 # k0
        <5> DEFINE q == d.tools[j]
                   r == d.tools[i]
        <5>1. q \in Nat /\ r \in Nat /\ q # r /\ k0 = r + 1
          BY <3>1, <4>1 DEF k0
        <5> HIDE DEF q, r
        <5>2. q + 1 # k0
          BY <5>1
        <5> QED  BY <5>2 DEF q
      <4>3. B[j] = A[j]
        BY <3>4
      <4> QED  BY <1>7, <3>1, <3>2, <4>2, <4>3
    <3> QED  BY <3>3, <3>4
  <2>2. ASSUME NEW k \in DOMAIN p, p[k].kind = "tool"
        PROVE  \E j \in S : k = d.tools[j] + 1
    <3>1. k \in DOMAIN m /\ m[k].kind = "tool"
      BY <1>2, <1>8, <1>9, <2>2
    <3>2. PICK j \in S : k = c.tools[j] + 1
      BY <1>1, <3>1 DEF Owned
    <3> QED  BY <3>2
  <2>3. \A j \in CallNumbers \ S : B[j] = <<>>
    BY <1>1 DEF Owned
  <2> QED  BY <1>1, <2>1, <2>2, <2>3 DEF Owned
<1>13. d.open # NoBlock => d.next # 0 /\ p[d.next].kind = d.open.kind
  <2>1. ASSUME d.open # NoBlock
        PROVE  d.next # 0 /\ p[d.next].kind = d.open.kind
    <3>1. c.next # 0 /\ m[c.next].kind = c.open.kind
      BY <2>1 DEF Tale
    <3>2. c.next \in 1..N
      BY <1>1, <1>2, <3>1
    <3> QED  BY <1>9, <3>1, <3>2
  <2> QED  BY <2>1
<1>14. Words(p, "text") = T /\ Words(p, "thinking") = R
  BY <1>1, <1>10
<1> QED  BY <1>1, <1>7, <1>11, <1>12, <1>13, <1>14 DEF Tale

LEMMA CallTells ==
  ASSUME NEW c, Going(c), NEW call \in [index : CallNumbers, args : BOOLEAN, named : BOOLEAN], NEW n \in Nat,
         NEW T \in Seq(Nat), NEW R \in Seq(Nat), NEW A \in [CallNumbers -> Seq(Nat)],
         NEW S \in SUBSET CallNumbers, Tells(c, T, R, A, S)
  PROVE  Tells(PushCall(c, call, n), T, R, Written(A, call, n), S \cup {call.index})
<1> DEFINE i == call.index
           tool == OpenTool(c, i)
           opened == IF call.named \/ call.args THEN [tool EXCEPT !.semantic = TRUE] ELSE tool
           at == opened.tools[i]
           said == Emit(opened, Event("delta", at, "tool", <<n>>))
           U == S \cup {i}
           B == [A EXCEPT ![i] = A[i] \o <<n>>]
           m == Blocks(opened.events)
<1>1. i \in CallNumbers /\ U \in SUBSET CallNumbers /\ i \in U /\ "tool" \in BlockKinds
  BY DEF BlockKinds
<1>2. Going(tool) /\ tool.tools[i] \in Nat
  BY <1>1, ToolGoes
<1>3. Tells(tool, T, R, A, U)
  BY <1>1, ToolTells
<1> HIDE DEF tool
<1>4. opened \in Codecs /\ Going(opened) /\ Tells(opened, T, R, A, U) /\ opened.tools = tool.tools
  BY <1>2, <1>3, MarkedGoes, MarkedTells DEF Going
<1> HIDE DEF opened, i, U
<1>5. at \in Nat /\ opened.next \in Nat
  BY <1>2, <1>4, CodecFields
<1>6. Tale(m, opened, T, R, A, U)
  BY <1>4 DEF Tells
<1> HIDE DEF m
<1>7. at + 1 \in DOMAIN m
  <2>1. m \in Seq(MessageBlocks) /\ at < Len(m)
    BY <1>1, <1>6 DEF Tale, Owned
  <2>2. at + 1 \in 1..Len(m)
    BY <1>5, <2>1
  <2> QED  BY <2>1, <2>2
<1>8. Blocks(said.events) = Prolonged(m, at + 1, <<n>>)
  BY <1>1, <1>4, <1>5, <1>7, BlocksSaid DEF m
<1>9. said.next = opened.next /\ said.tools = opened.tools /\ said.open = opened.open
  <2> DEFINE e == Event("delta", at, "tool", <<n>>)
  <2>1. e \in Events
    BY <1>1, <1>5, DeltaEvent
  <2> HIDE DEF e, at
  <2> QED  BY <1>4, <2>1, Emitted DEF e
<1>10. B \in [CallNumbers -> Seq(Nat)] /\ B[i] = A[i] \o <<n>> /\ \A j \in CallNumbers \ {i} : B[j] = A[j]
  <2> DEFINE a == A[i]
             b == a \o <<n>>
  <2>1. a \in Seq(Nat)
    BY <1>1
  <2> HIDE DEF a
  <2>2. b \in Seq(Nat)
    BY <2>1
  <2> HIDE DEF b
  <2>3. /\ [A EXCEPT ![i] = b] \in [CallNumbers -> Seq(Nat)] /\ [A EXCEPT ![i] = b][i] = b
        /\ \A j \in CallNumbers \ {i} : [A EXCEPT ![i] = b][j] = A[j]
    BY <1>1, <2>2
  <2> QED  BY <2>3 DEF b, a
<1> HIDE DEF said, B
<1> DEFINE p == Blocks(said.events)
<1>11. said.next \in Nat
  BY <1>5, <1>9
<1>12. p = Prolonged(m, opened.tools[i] + 1, <<n>>)
  BY <1>8
<1> HIDE DEF p, at
<1>13. Tale(p, said, T, R, B, U)
  BY <1>1, <1>6, <1>9, <1>10, <1>11, <1>12, ToolTaleGoesOn
<1>14. Tells(said, T, R, B, U)
  BY <1>13 DEF Tells, p
<1>15. CASE call.args
  BY <1>14, <1>15 DEF PushCall, Written, said, at, opened, tool, B, U, i
<1>16. CASE ~call.args
  BY <1>4, <1>16 DEF PushCall, Written, opened, tool, U, i
<1> QED  BY <1>15, <1>16

\* A function that is a sequence and one more element.
Longer(t, s, x) ==
  /\ t = [k \in 1..(Len(s) + 1) |-> t[k]]
  /\ \A k \in 1..Len(s) : t[k] = s[k]
  /\ t[Len(s) + 1] = x

LEMMA LongerByOne ==
  ASSUME NEW X, NEW s \in Seq(X), NEW x \in X, NEW t, Longer(t, s, x)
  PROVE  t = Append(s, x)
<1> DEFINE N == Len(s)
           v == Append(s, x)
<1>1. N \in Nat /\ v \in Seq(X) /\ Len(v) = N + 1 /\ v[N + 1] = x /\ \A k \in 1..N : v[k] = s[k]
  OBVIOUS
<1> HIDE DEF v, N
<1>2. v = [k \in 1..(N + 1) |-> v[k]]
  <2>1. v = [k \in 1..Len(v) |-> v[k]]
    BY <1>1
  <2> QED  BY <1>1, <2>1
<1>3. \A k \in 1..(N + 1) : k \in 1..N \/ k = N + 1
  BY <1>1
<1>4. \A k \in 1..(N + 1) : t[k] = v[k]
  BY <1>1, <1>3 DEF N, Longer
<1>5. t = v
  BY <1>2, <1>4 DEF N, Longer
<1> QED  BY <1>5 DEF v

\* What one piece writes to the arguments of a call.
Piece(call, i, n) == IF call.index = i /\ call.args THEN <<n>> ELSE <<>>
PiecesOf(calls, i, n) == [k \in DOMAIN calls |-> Piece(calls[k], i, n)]

LEMMA ArgumentsOfPieces ==
  ASSUME NEW X, NEW calls \in Seq(X), NEW i, NEW n \in Nat
  PROVE  /\ PiecesOf(calls, i, n) \in Seq(Seq(Nat)) /\ Len(PiecesOf(calls, i, n)) = Len(calls)
         /\ Arguments(calls, i, n) = Flat(PiecesOf(calls, i, n)) /\ Arguments(calls, i, n) \in Seq(Nat)
<1> DEFINE S == PiecesOf(calls, i, n)
           N == Len(calls)
           Y == Seq(Nat)
<1>1. N \in Nat /\ DOMAIN calls = 1..N
  BY SequenceFacts
<1>2. \A c : Piece(c, i, n) \in Y
  BY DEF Piece
<1>3. S = [k \in 1..N |-> Piece(calls[k], i, n)]
  BY <1>1 DEF PiecesOf
<1> HIDE DEF Y, N, S
<1>4. \A k \in 1..N : Piece(calls[k], i, n) \in Y
  BY <1>2
<1>5. S \in Seq(Y) /\ Len(S) = N
  BY <1>1, <1>3, <1>4
<1>6. Arguments(calls, i, n) = Flat(S)
  BY DEF Arguments, PiecesOf, Piece, S
<1>7. Flat(S) \in Seq(Nat)
  <2>1. <<>> \in Seq(Nat) /\ S \in Seq(Seq(Nat))
    BY <1>5 DEF Y
  <2> QED  BY <2>1, FlatAppend
<1> QED  BY <1>5, <1>6, <1>7 DEF S, N, Y

LEMMA ArgumentsAppend ==
  ASSUME NEW X, NEW calls \in Seq(X), NEW call \in X, NEW i, NEW n \in Nat
  PROVE  /\ Arguments(<<>>, i, n) = <<>>
         /\ Arguments(Append(calls, call), i, n) = Arguments(calls, i, n) \o Piece(call, i, n)
<1> DEFINE t == Append(calls, call)
           N == Len(calls)
           S == PiecesOf(calls, i, n)
           R == PiecesOf(t, i, n)
           x == Piece(call, i, n)
           Y == Seq(Nat)
           Z == <<>>
<1>1. N \in Nat /\ DOMAIN calls = 1..N /\ t \in Seq(X) /\ DOMAIN t = 1..(N + 1) /\ t[N + 1] = call
      /\ \A k \in 1..N : t[k] = calls[k]
  OBVIOUS
<1> HIDE DEF t
<1>2. S \in Seq(Y) /\ Len(S) = N /\ Arguments(calls, i, n) = Flat(S)
  BY ArgumentsOfPieces
<1>3. R = [k \in 1..(N + 1) |-> Piece(t[k], i, n)] /\ Arguments(t, i, n) = Flat(R)
  BY <1>1, ArgumentsOfPieces DEF PiecesOf
<1>4. x \in Y
  BY DEF Piece
<1>5. \A k \in 1..N : S[k] = Piece(calls[k], i, n)
  BY <1>1 DEF PiecesOf
<1> HIDE DEF S, R, x, Y, N
<1>6. /\ R = [k \in 1..(N + 1) |-> R[k]] /\ R[N + 1] = x /\ \A k \in 1..N : R[k] = S[k]
  <2>1. N + 1 \in 1..(N + 1) /\ \A k \in 1..N : k \in 1..(N + 1)
    BY <1>1
  <2> QED  BY <1>1, <1>3, <1>5, <2>1 DEF x
<1>7. R = Append(S, x)
  <2>1. Longer(R, S, x)
    BY <1>2, <1>6 DEF Longer
  <2>2. S \in Seq(Y)
    BY <1>2
  <2> QED  BY <1>4, <2>1, <2>2, LongerByOne
<1>8. Flat(R) = Flat(S) \o x
  BY <1>2, <1>4, <1>7, FlatAppend DEF Y
<1>9. Arguments(Z, i, n) = Z
  <2>1. Z \in Seq(X) /\ PiecesOf(Z, i, n) = Z
    BY DEF PiecesOf
  <2>2. Arguments(Z, i, n) = Flat(PiecesOf(Z, i, n))
    BY <2>1, ArgumentsOfPieces
  <2> QED  BY <2>1, <2>2, EmptyFolds
<1> QED  BY <1>2, <1>3, <1>8, <1>9 DEF t, x

\* The arguments after the pieces of one chunk.
WrittenUpto(A, calls, n) == [i \in CallNumbers |-> A[i] \o Arguments(calls, i, n)]

LEMMA WrittenMore ==
  ASSUME NEW A \in [CallNumbers -> Seq(Nat)], NEW n \in Nat,
         NEW up \in Seq([index : CallNumbers, args : BOOLEAN, named : BOOLEAN]), NEW call \in [index : CallNumbers, args : BOOLEAN, named : BOOLEAN]
  PROVE  /\ WrittenUpto(A, <<>>, n) = A
         /\ WrittenUpto(A, up, n) \in [CallNumbers -> Seq(Nat)]
         /\ WrittenUpto(A, Append(up, call), n) = Written(WrittenUpto(A, up, n), call, n)
<1> DEFINE B == WrittenUpto(A, up, n)
           C == WrittenUpto(A, Append(up, call), n)
           D == Written(B, call, n)
           Z == <<>>
<1>1. \A s, t \in Seq(Nat) : s \o t \in Seq(Nat)
  OBVIOUS
<1>2. \A i : Arguments(up, i, n) \in Seq(Nat)
  BY ArgumentsOfPieces
<1>3. B \in [CallNumbers -> Seq(Nat)]
  BY <1>1, <1>2 DEF WrittenUpto
<1>4. call.index \in CallNumbers /\ call.args \in BOOLEAN /\ B[call.index] \o <<n>> \in Seq(Nat)
  BY <1>3
<1>5. D \in [CallNumbers -> Seq(Nat)]
  <2> HIDE DEF B
  <2> QED  BY <1>3, <1>4 DEF Written
<1>6. ASSUME NEW i \in CallNumbers
      PROVE  C[i] = D[i]
  <2> DEFINE a == A[i]
             u == Arguments(up, i, n)
             w == Piece(call, i, n)
  <2>1. a \in Seq(Nat) /\ u \in Seq(Nat) /\ w \in Seq(Nat)
    BY <1>2 DEF Piece
  <2>2. C[i] = a \o Arguments(Append(up, call), i, n) /\ B[i] = a \o u
    BY DEF WrittenUpto
  <2>3. Arguments(Append(up, call), i, n) = u \o w
    BY ArgumentsAppend
  <2>4. D[i] = B[i] \o w
    <3>1. CASE call.args /\ call.index = i
      <4>2. w = <<n>>
        BY <3>1 DEF Piece
      <4> HIDE DEF B, w
      <4> QED  BY <1>3, <3>1, <4>2 DEF Written
    <3>2. CASE ~(call.args /\ call.index = i)
      <4>2. w = <<>>
        BY <3>2 DEF Piece
      <4> HIDE DEF B, w
      <4>3. B[i] \o <<>> = B[i]
        BY <1>3
      <4>4. D[i] = B[i]
        BY <1>3, <3>2 DEF Written
      <4> QED  BY <4>2, <4>3, <4>4
    <3> QED  BY <3>1, <3>2
  <2> HIDE DEF B, C, D, a, u, w
  <2>5. (a \o u) \o w = a \o (u \o w)
    BY <2>1, JoinThree
  <2> QED  BY <2>2, <2>3, <2>4, <2>5
<1>7. C = [i \in CallNumbers |-> C[i]] /\ D = [i \in CallNumbers |-> D[i]]
  <2>1. C = [i \in CallNumbers |-> C[i]]
    BY DEF WrittenUpto
  <2> HIDE DEF C, D
  <2> QED  BY <1>5, <2>1
<1>8. C = D
  <2> HIDE DEF C, D
  <2> QED  BY <1>6, <1>7
<1>9. WrittenUpto(A, Z, n) = A
  <2>1. \A i \in CallNumbers : A[i] \o Arguments(Z, i, n) = A[i]
    <3> SUFFICES ASSUME NEW i \in CallNumbers PROVE A[i] \o Arguments(Z, i, n) = A[i]
      OBVIOUS
    <3>1. Arguments(Z, i, n) = Z
      BY ArgumentsAppend
    <3>2. A[i] \o Z = A[i]
      OBVIOUS
    <3> QED  BY <3>1, <3>2
  <2>2. A = [i \in CallNumbers |-> A[i]]
    OBVIOUS
  <2> HIDE DEF Z
  <2> QED  BY <2>1, <2>2 DEF WrittenUpto
<1> QED  BY <1>3, <1>8, <1>9

LEMMA PiecesTell ==
  ASSUME NEW calls \in Seq([index : CallNumbers, args : BOOLEAN, named : BOOLEAN]), NEW n \in Nat,
         NEW f, NEW text, Pushing(f, text, calls, n),
         NEW T \in Seq(Nat), NEW R \in Seq(Nat), NEW A \in [CallNumbers -> Seq(Nat)],
         NEW S \in SUBSET CallNumbers, Tells(text, T, R, A, S)
  PROVE  Tells(f[Len(calls)], T, R, WrittenUpto(A, calls, n), CallsUpto(S, calls, Len(calls)))
<1> DEFINE N == Len(calls)
           Call == [index : CallNumbers, args : BOOLEAN, named : BOOLEAN]
           Up(k) == SubSeq(calls, 1, k)
           K == {k \in 0..N : Tells(f[k], T, R, WrittenUpto(A, Up(k), n), CallsUpto(S, calls, k))}
<1>1. N \in Nat /\ \A k \in 1..N : calls[k] \in Call
  BY SequenceFacts
<1>2. /\ f[0] = text /\ \A k \in 1..N : f[k] = PushCall(f[k - 1], calls[k], n)
      /\ \A k \in 0..N : Going(f[k])
  BY DEF Pushing
<1>3. /\ Up(0) = <<>> /\ Up(N) = calls
      /\ \A k \in 0..(N - 1) : Up(k) \in Seq(Call) /\ Up(k + 1) = Append(Up(k), calls[k + 1])
  <2> DEFINE X == Call
  <2>1. calls \in Seq(X)
    OBVIOUS
  <2> HIDE DEF X
  <2>2. Up(0) = <<>> /\ Up(N) = calls
    BY <2>1
  <2>3. ASSUME NEW k \in 0..(N - 1)
        PROVE  Up(k) \in Seq(X) /\ Up(k + 1) = Append(Up(k), calls[k + 1])
    BY <2>1
  <2> QED  BY <2>2, <2>3 DEF X
<1> HIDE DEF N, Up
<1>4. 0 \in K
  <2>1. 1..0 = {} /\ 0 \in 0..N
    BY <1>1
  <2>2. WrittenUpto(A, Up(0), n) = A
    <3> DEFINE Z == <<>>
    <3>1. A = [i \in CallNumbers |-> A[i]]
      OBVIOUS
    <3>2. ASSUME NEW i \in CallNumbers
          PROVE  A[i] \o Arguments(Z, i, n) = A[i]
      <4>1. Z \in Seq({1}) /\ 1 \in {1}
        OBVIOUS
      <4>2. Arguments(Z, i, n) = Z
        BY <4>1, ArgumentsAppend
      <4>3. A[i] \o Z = A[i]
        OBVIOUS
      <4> QED  BY <4>2, <4>3
    <3> HIDE DEF Z
    <3>3. WrittenUpto(A, Z, n) = A
      BY <3>1, <3>2 DEF WrittenUpto
    <3> QED  BY <1>3, <3>3 DEF Z
  <2>3. CallsUpto(S, calls, 0) = S
    BY <2>1 DEF CallsUpto
  <2> QED  BY <1>2, <2>1, <2>2, <2>3
<1>5. ASSUME NEW k \in 0..(N - 1), k \in K
      PROVE  k + 1 \in K
  <2> DEFINE call == calls[k + 1]
             up == Up(k)
             B == WrittenUpto(A, up, n)
             U == CallsUpto(S, calls, k)
  <2>1. k + 1 \in 1..N /\ k + 1 \in 0..N /\ k \in 0..N /\ (k + 1) - 1 = k /\ 1..(k + 1) = 1..k \cup {k + 1}
        /\ 1..k \subseteq 1..N
    <3>1. k \in Nat /\ k < N
      BY <1>1
    <3>2. k + 1 \in 1..N /\ k + 1 \in 0..N /\ k \in 0..N /\ (k + 1) - 1 = k
      BY <1>1, <3>1
    <3>3. 1..(k + 1) = 1..k \cup {k + 1}
      BY <3>1
    <3>4. 1..k \subseteq 1..N
      BY <1>1, <3>1
    <3> QED  BY <3>2, <3>3, <3>4
  <2>2. call \in Call /\ f[k + 1] = PushCall(f[k], call, n) /\ Going(f[k])
    BY <1>1, <1>2, <2>1
  <2>3. up \in Seq(Call) /\ Up(k + 1) = Append(up, call)
    BY <1>3
  <2>4. U \in SUBSET CallNumbers
    <3>1. \A j \in 1..k : calls[j].index \in CallNumbers
      BY <1>1, <2>1
    <3> QED  BY <3>1 DEF CallsUpto
  <2>5. CallsUpto(S, calls, k + 1) = U \cup {call.index}
    BY <2>1 DEF CallsUpto
  <2>6. Tells(f[k], T, R, B, U)
    BY <1>5
  <2> HIDE DEF up, call, U
  <2>7. B \in [CallNumbers -> Seq(Nat)] /\ WrittenUpto(A, Append(up, call), n) = Written(B, call, n)
    BY <2>2, <2>3, WrittenMore
  <2> HIDE DEF B
  <2>8. Tells(PushCall(f[k], call, n), T, R, Written(B, call, n), U \cup {call.index})
    BY <2>2, <2>4, <2>6, <2>7, CallTells
  <2> QED  BY <2>1, <2>2, <2>3, <2>5, <2>7, <2>8
<1>6. N \in K
  <2> HIDE DEF K
  <2>1. \A k \in 0..N : k \in K
    BY <1>1, <1>4, <1>5, Climb
  <2> QED  BY <1>1, <2>1
<1> QED  BY <1>3, <1>6 DEF N

-----------------------------------------------------------------------------
(* Whole chunks                                                            *)

LEMMA ChunkTells ==
  ASSUME NEW c \in Codecs, Shape(c), NEW n \in Nat, NEW chunk \in Deltas,
         NEW T \in Seq(Nat), NEW R \in Seq(Nat), NEW A \in [CallNumbers -> Seq(Nat)],
         NEW S \in SUBSET CallNumbers, Tells(c, T, R, A, S)
  PROVE  Tells(Encoded(c, chunk, n), IF chunk.content THEN T \o <<n>> ELSE T,
               IF chunk.reasoning /\ options.keep THEN R \o <<n>> ELSE R,
               WrittenUpto(A, chunk.calls, n), CallsUpto(S, chunk.calls, Len(chunk.calls)))
<1> DEFINE start == Started(c)
           reason == IF chunk.reasoning THEN PushReasoning(start, n) ELSE start
           text == IF chunk.content THEN PushText(reason, n) ELSE reason
           said == IF chunk.content THEN T \o <<n>> ELSE T
           thought == IF chunk.reasoning /\ options.keep THEN R \o <<n>> ELSE R
           calls == chunk.calls
           N == Len(calls)
           B == WrittenUpto(A, calls, n)
           U == CallsUpto(S, calls, N)
<1>1. Going(start) /\ Blocks(start.events) = Blocks(c.events) /\ start.open = c.open /\ start.tools = c.tools /\ start.next = c.next
  BY StartedGoes, QuietStarted
<1> HIDE DEF start
<1>2. Tells(start, T, R, A, S)
  BY <1>1, QuietTells
<1>3. Going(reason) /\ Tells(reason, T, thought, A, S) /\ thought \in Seq(Nat)
  <2>1. R \o <<n>> \in Seq(Nat)
    OBVIOUS
  <2>2. CASE chunk.reasoning
    <3>1. Tells(PushReasoning(start, n), T, IF options.keep THEN R \o <<n>> ELSE R, A, S)
      BY <1>1, <1>2, ReasoningTells
    <3> QED  BY <1>1, <2>1, <2>2, <3>1, ReasoningGoes
  <2>3. CASE ~chunk.reasoning
    BY <1>1, <1>2, <2>3
  <2> QED  BY <2>2, <2>3
<1> HIDE DEF reason, thought
<1>4. Tells(text, said, thought, A, S) /\ said \in Seq(Nat)
  <2>1. T \o <<n>> \in Seq(Nat)
    OBVIOUS
  <2>2. CASE chunk.content
    <3>1. Tells(PushText(reason, n), T \o <<n>>, thought, A, S)
      BY <1>3, TextTells
    <3> QED  BY <2>1, <2>2, <3>1
  <2>3. CASE ~chunk.content
    BY <1>3, <2>3
  <2> QED  BY <2>2, <2>3
<1> HIDE DEF said
<1>5. text = Voiced(c, chunk, n)
  BY DEF Voiced, reason, start
<1> HIDE DEF text
<1>6. PICK f : Pushing(f, text, calls, n) /\ Encoded(c, chunk, n) = Finished(f[N], chunk.finish)
  BY <1>5, EncodedPushes
<1>7. calls \in Seq([index : CallNumbers, args : BOOLEAN, named : BOOLEAN]) /\ chunk.finish \in Finishes
  BY DeltaFields DEF DeltaFieldsOK
<1> HIDE DEF calls
<1>8. Tells(f[N], said, thought, B, U)
  BY <1>3, <1>4, <1>6, <1>7, PiecesTell
<1>9. Going(f[N])
  <2>1. N \in 0..N
    BY <1>7
  <2> QED  BY <1>6, <2>1 DEF Pushing
<1> DEFINE last == f[N]
           d == Finished(last, chunk.finish)
<1>10. last \in Codecs /\ Tells(last, said, thought, B, U)
  BY <1>8, <1>9 DEF Going
<1> HIDE DEF last, B, U
<1>11. d.events = last.events /\ d.tools = last.tools /\ d.next = last.next /\ d.open = last.open
  BY <1>10 DEF Finished, Codecs
<1> HIDE DEF d
<1>12. Tells(d, said, thought, B, U)
  BY <1>10, <1>11, QuietTells
<1> QED  BY <1>6, <1>12 DEF d, last, B, U, said, thought, calls

\* The numbers from one on.
Counted(n) == [k \in 1..n |-> k]

LEMMA CountedOnly ==
  ASSUME NEW N \in Nat, NEW R, NEW S, \A k \in 1..N : k \in R <=> k \in S
  PROVE  /\ Only(Counted(N), S) \in Seq(Nat)
         /\ Only(Counted(N + 1), R) = IF N + 1 \in R THEN Only(Counted(N), S) \o <<N + 1>> ELSE Only(Counted(N), S)
<1> DEFINE s == Counted(N)
           t == Counted(N + 1)
           o == Only(s, R)
<1>1. s \in Seq(Nat) /\ DOMAIN s = 1..N /\ \A k \in 1..N : s[k] = k
  BY DEF Counted
<1>2. /\ t = [k \in 1..(N + 1) |-> t[k]] /\ t[N + 1] = N + 1 /\ \A k \in 1..N : t[k] = k
  BY DEF Counted
<1> HIDE DEF s, t
<1>3. Len(s) = N
  BY <1>1, LengthOfDomain
<1> DEFINE x == N + 1
<1>4. Longer(t, s, x) /\ x \in Nat
  <2>1. \A k \in 1..N : t[k] = s[k]
    BY <1>1, <1>2
  <2>2. t = [k \in 1..x |-> t[k]] /\ t[x] = x
    BY <1>2
  <2>3. Len(s) + 1 = x
    BY <1>3
  <2>4. x \in Nat
    OBVIOUS
  <2> HIDE DEF x
  <2> QED  BY <1>3, <2>1, <2>2, <2>3, <2>4 DEF Longer
<1> HIDE DEF x
<1>5. t = Append(s, x)
  BY <1>1, <1>4, LongerByOne
<1>6. Only(t, R) = IF x \in R THEN Append(o, x) ELSE o
  BY <1>1, <1>4, <1>5, OnlyAppend
<1>7. o = Only(s, S)
  <2>1. \A k \in DOMAIN s : s[k] \in R <=> s[k] \in S
    BY <1>1
  <2> QED  BY <1>1, <2>1, OnlySame
<1>8. o \in Seq(Nat)
  BY <1>1, OnlySelects
<1> HIDE DEF o
<1>9. Append(o, x) = o \o <<x>>
  BY <1>4, <1>8
<1> QED  BY <1>6, <1>7, <1>8, <1>9 DEF s, t, x

\* What the chunks of a stream say: its text, its kept reasoning, the
\* arguments of its calls.
TextSeq(cs) == Only(Counted(Len(cs)), TextOf(cs))
ReasonSeq(cs) == Only(Counted(Len(cs)), ReasonsOf(cs))
ArgumentSeqs(cs, i) == [n \in DOMAIN cs |-> Arguments(cs[n].calls, i, n)]
ArgumentSeq(cs) == [i \in CallNumbers |-> Flat(ArgumentSeqs(cs, i))]

LEMMA ArgumentsGrow ==
  ASSUME NEW cs \in Seq(Deltas), NEW chunk \in Deltas
  PROVE  /\ ArgumentSeq(cs) \in [CallNumbers -> Seq(Nat)]
         /\ ArgumentSeq(Append(cs, chunk)) = WrittenUpto(ArgumentSeq(cs), chunk.calls, Len(cs) + 1)
<1> DEFINE ds == Append(cs, chunk)
           N == Len(cs)
           Y == Seq(Nat)
<1>1. N \in Nat /\ DOMAIN cs = 1..N /\ \A k \in 1..N : cs[k] \in Deltas
  BY SequenceFacts
<1>2. DOMAIN ds = 1..(N + 1) /\ ds[N + 1] = chunk /\ \A k \in 1..N : ds[k] = cs[k]
  OBVIOUS
<1>3. \A e \in Deltas, n \in Nat, i \in CallNumbers : Arguments(e.calls, i, n) \in Y
  <2> SUFFICES ASSUME NEW e \in Deltas, NEW n \in Nat, NEW i \in CallNumbers PROVE Arguments(e.calls, i, n) \in Y
    OBVIOUS
  <2>1. e.calls \in Seq([index : CallNumbers, args : BOOLEAN, named : BOOLEAN])
    BY DeltaFields DEF DeltaFieldsOK
  <2> QED  BY <2>1, ArgumentsOfPieces
<1> HIDE DEF ds, N
<1>4. ASSUME NEW i \in CallNumbers
      PROVE  /\ Flat(ArgumentSeqs(cs, i)) \in Seq(Nat)
             /\ Flat(ArgumentSeqs(ds, i)) = Flat(ArgumentSeqs(cs, i)) \o Arguments(chunk.calls, i, N + 1)
  <2> DEFINE s == ArgumentSeqs(cs, i)
             t == ArgumentSeqs(ds, i)
             x == Arguments(chunk.calls, i, N + 1)
  <2>1. N + 1 \in Nat /\ N + 1 \in 1..(N + 1) /\ \A k \in 1..N : k \in Nat /\ k \in 1..(N + 1)
    BY <1>1
  <2>2. x \in Y
    BY <1>3, <2>1
  <2>3. s = [k \in 1..N |-> Arguments(cs[k].calls, i, k)]
    BY <1>1 DEF ArgumentSeqs
  <2>4. t = [k \in 1..(N + 1) |-> Arguments(ds[k].calls, i, k)]
    BY <1>2 DEF ArgumentSeqs
  <2>5. \A k \in 1..N : Arguments(cs[k].calls, i, k) \in Y
    BY <1>1, <1>3, <2>1
  <2> HIDE DEF s, t, Y
  <2>6. s \in Seq(Y) /\ DOMAIN s = 1..N
    BY <1>1, <2>3, <2>5
  <2>7. Len(s) = N
    BY <1>1, <2>6, LengthOfDomain
  <2>8. t = [k \in 1..(N + 1) |-> t[k]] /\ t[N + 1] = x /\ \A k \in 1..N : t[k] = s[k]
    BY <1>2, <2>1, <2>3, <2>4
  <2>9. Longer(t, s, x)
    BY <2>7, <2>8 DEF Longer
  <2> HIDE DEF x
  <2>10. t = Append(s, x)
    BY <2>2, <2>6, <2>9, LongerByOne
  <2>11. Flat(s) \in Seq(Nat) /\ Flat(Append(s, x)) = Flat(s) \o x
    BY <2>2, <2>6, FlatAppend DEF Y
  <2> QED  BY <2>10, <2>11 DEF s, t, x
<1>5. ArgumentSeq(cs) \in [CallNumbers -> Seq(Nat)]
  BY <1>4 DEF ArgumentSeq
<1>6. \A i \in CallNumbers : ArgumentSeq(cs)[i] = Flat(ArgumentSeqs(cs, i))
  BY DEF ArgumentSeq
<1>7. ArgumentSeq(ds) = WrittenUpto(ArgumentSeq(cs), chunk.calls, N + 1)
  <2> DEFINE a == ArgumentSeq(cs)
  <2>1. \A i \in CallNumbers : a[i] = Flat(ArgumentSeqs(cs, i))
    BY <1>6
  <2> HIDE DEF a
  <2>2. ArgumentSeq(ds) = [i \in CallNumbers |-> Flat(ArgumentSeqs(ds, i))]
    BY DEF ArgumentSeq
  <2>3. WrittenUpto(a, chunk.calls, N + 1) = [i \in CallNumbers |-> a[i] \o Arguments(chunk.calls, i, N + 1)]
    BY DEF WrittenUpto
  <2>4. \A i \in CallNumbers : Flat(ArgumentSeqs(ds, i)) = a[i] \o Arguments(chunk.calls, i, N + 1)
    BY <1>4, <2>1
  <2>5. ArgumentSeq(ds) = WrittenUpto(a, chunk.calls, N + 1)
    BY <2>2, <2>3, <2>4
  <2> QED  BY <2>5 DEF a
<1> QED  BY <1>5, <1>7 DEF ds, N

LEMMA MoreChunks ==
  ASSUME NEW cs \in Seq(Deltas), NEW chunk \in Deltas
  PROVE  LET ds == Append(cs, chunk)
             n == Len(cs) + 1
         IN  /\ TextSeq(cs) \in Seq(Nat) /\ ReasonSeq(cs) \in Seq(Nat)
             /\ TextSeq(ds) = IF chunk.content THEN TextSeq(cs) \o <<n>> ELSE TextSeq(cs)
             /\ ReasonSeq(ds) = IF chunk.reasoning /\ options.keep THEN ReasonSeq(cs) \o <<n>> ELSE ReasonSeq(cs)
<1> DEFINE ds == Append(cs, chunk)
           N == Len(cs)
<1>1. N \in Nat /\ Len(ds) = N + 1 /\ N + 1 \notin 1..N /\ DOMAIN cs = 1..N
  OBVIOUS
<1>2. /\ TextOf(ds) = IF chunk.content THEN TextOf(cs) \cup {N + 1} ELSE TextOf(cs)
      /\ ReasonsOf(ds) = IF chunk.reasoning /\ options.keep THEN ReasonsOf(cs) \cup {N + 1} ELSE ReasonsOf(cs)
  BY OneMoreChunk
<1>3. TextOf(cs) \subseteq 1..N /\ ReasonsOf(cs) \subseteq 1..N
  BY <1>1 DEF TextOf, ReasonsOf
<1> HIDE DEF ds, N
<1>4. /\ TextSeq(cs) \in Seq(Nat)
      /\ TextSeq(ds) = IF chunk.content THEN TextSeq(cs) \o <<N + 1>> ELSE TextSeq(cs)
  <2> DEFINE S == TextOf(cs)
             R == TextOf(ds)
  <2>1. (\A k \in 1..N : k \in R <=> k \in S) /\ (N + 1 \in R <=> chunk.content)
    BY <1>1, <1>2, <1>3
  <2>2. TextSeq(cs) = Only(Counted(N), S) /\ TextSeq(ds) = Only(Counted(N + 1), R)
    BY <1>1 DEF TextSeq, N
  <2> HIDE DEF S, R
  <2>3. /\ Only(Counted(N), S) \in Seq(Nat)
        /\ Only(Counted(N + 1), R) = IF N + 1 \in R THEN Only(Counted(N), S) \o <<N + 1>> ELSE Only(Counted(N), S)
    BY <1>1, <2>1, CountedOnly
  <2> QED  BY <2>1, <2>2, <2>3
<1>5. /\ ReasonSeq(cs) \in Seq(Nat)
      /\ ReasonSeq(ds) = IF chunk.reasoning /\ options.keep THEN ReasonSeq(cs) \o <<N + 1>> ELSE ReasonSeq(cs)
  <2> DEFINE S == ReasonsOf(cs)
             R == ReasonsOf(ds)
  <2>1. (\A k \in 1..N : k \in R <=> k \in S) /\ (N + 1 \in R <=> (chunk.reasoning /\ options.keep))
    BY <1>1, <1>2, <1>3
  <2>2. ReasonSeq(cs) = Only(Counted(N), S) /\ ReasonSeq(ds) = Only(Counted(N + 1), R)
    BY <1>1 DEF ReasonSeq, N
  <2> HIDE DEF S, R
  <2>3. /\ Only(Counted(N), S) \in Seq(Nat)
        /\ Only(Counted(N + 1), R) = IF N + 1 \in R THEN Only(Counted(N), S) \o <<N + 1>> ELSE Only(Counted(N), S)
    BY <1>1, <2>1, CountedOnly
  <2> QED  BY <2>1, <2>2, <2>3
<1> QED  BY <1>4, <1>5 DEF ds, N

-----------------------------------------------------------------------------
(* The message tells the chunks at every step                              *)

\* The message folded from the events sent says what the chunks said.
MessageTellsChunks == Tells(codec, TextSeq(chunks), ReasonSeq(chunks), ArgumentSeq(chunks), CallsOf(chunks))

LEMMA TellsStart == CodecInit => MessageTellsChunks
<1> SUFFICES ASSUME CodecInit PROVE MessageTellsChunks
  OBVIOUS
<1> DEFINE Z == <<>>
           A == ArgumentSeq(chunks)
<1>1. /\ codec.events = Z /\ codec.next = 0 /\ codec.tools = [i \in CallNumbers |-> NoBlock] /\ chunks = Z
      /\ codec.open = NoBlock
  BY DEF CodecInit, NewCodec
<1>2. DOMAIN Z = {} /\ Len(Z) = 0 /\ Z \in Seq(MessageBlocks)
  OBVIOUS
<1>3. Blocks(Z) = Z
  BY NoBlocks
<1>4. Counted(Len(Z)) = Z
  BY DEF Counted
<1>5. Flat(Z) = Z /\ \A S : Only(Z, S) = Z
  BY EmptyFolds
<1>6. \A kind : Words(Z, kind) = Z
  <2>1. Block("text", <<>>) \in MessageBlocks
    BY DEF Block, MessageBlocks, BlockKinds
  <2> QED  BY <2>1, <1>2, WordsAppend
<1>7. \A i \in CallNumbers : ArgumentSeqs(Z, i) = Z
  BY DEF ArgumentSeqs
<1> HIDE DEF Z
<1>8. TextSeq(chunks) = Z /\ ReasonSeq(chunks) = Z
  BY <1>1, <1>4, <1>5 DEF TextSeq, ReasonSeq
<1>9. \A i \in CallNumbers : A[i] = Z
  BY <1>1, <1>5, <1>7 DEF ArgumentSeq
<1>10. CallsOf(chunks) = {}
  BY <1>1, <1>2 DEF CallsOf
<1> HIDE DEF A
<1>11. Owned(Z, codec.tools, A, {})
  <2>1. \A i \in CallNumbers \ {} : A[i] = <<>>
    BY <1>9 DEF Z
  <2>2. \A i \in CallNumbers : codec.tools[i] = NoBlock
    BY <1>1
  <2> QED  BY <1>2, <2>1, <2>2 DEF Owned
<1>12. Tale(Z, codec, Z, Z, A, {})
  BY <1>1, <1>2, <1>6, <1>11 DEF Tale
<1> QED  BY <1>1, <1>3, <1>8, <1>10, <1>12 DEF MessageTellsChunks, Tells, A

LEMMA EndTells ==
  ASSUME NEW c \in Codecs, Shape(c), NEW reason \in {"max_tokens", "tool_use", "end_turn"}
  PROVE  LET d == Emit(Emit(CloseOpen(Started(c)), Event("message_delta", 0, reason, <<>>)),
                       Event("message_stop", 0, "message", <<>>))
         IN  Blocks(d.events) = Blocks(c.events) /\ d.tools = c.tools /\ d.next = c.next /\ d.open = NoBlock
<1> DEFINE a == Started(c)
           b == CloseOpen(a)
           e1 == Event("message_delta", 0, reason, <<>>)
           m == Emit(b, e1)
           e2 == Event("message_stop", 0, "message", <<>>)
           d == Emit(m, e2)
<1>1. Going(a) /\ a \in Codecs /\ Blocks(a.events) = Blocks(c.events) /\ a.tools = c.tools /\ a.next = c.next
  BY StartedGoes, QuietStarted DEF Going
<1> HIDE DEF a
<1>2. b \in Codecs /\ Blocks(b.events) = Blocks(a.events) /\ b.tools = a.tools /\ b.next = a.next /\ b.open = NoBlock
  BY <1>1, ClosedGoes, QuietClosed DEF Going
<1> HIDE DEF b
<1>3. e1 \in Events /\ e2 \in Events
  BY MessageEvent
<1>4. e1.type \notin {"block_start", "delta"} /\ e2.type \notin {"block_start", "delta"}
  BY DEF Event
<1> HIDE DEF e1, e2
<1>5. m \in Codecs /\ m.tools = b.tools /\ m.next = b.next /\ m.open = b.open /\ Blocks(m.events) = Blocks(b.events)
  BY <1>2, <1>3, <1>4, Emitted, QuietEvent
<1> HIDE DEF m
<1>6. d.tools = m.tools /\ d.next = m.next /\ d.open = m.open /\ Blocks(d.events) = Blocks(m.events)
  BY <1>3, <1>4, <1>5, Emitted, QuietEvent
<1> HIDE DEF d
<1> QED  BY <1>1, <1>2, <1>5, <1>6 DEF d, m, b, a, e1, e2

LEMMA TellsStep ==
  ASSUME CodecInv, MessageTellsChunks, [CodecNext]_codecVars
  PROVE  MessageTellsChunks'
<1> DEFINE T == TextSeq(chunks)
           R == ReasonSeq(chunks)
           A == ArgumentSeq(chunks)
           S == CallsOf(chunks)
           n == Len(chunks)
<1>1. codec \in Codecs /\ codec.next \in Nat /\ chunks \in Seq(Deltas) /\ (phase # "ended" => Shape(codec)) /\ n \in Nat
  BY CodecFields DEF CodecInv, CodecTypeOK
<1>2. S \in SUBSET CallNumbers
  BY DEF CallsOf
<1> HIDE DEF T, R, A, S, n
<1>3. Tells(codec, T, R, A, S)
  BY DEF MessageTellsChunks, T, R, A, S
<1>4. ASSUME options' = options, chunks' = chunks, Tells(codec', T, R, A, S)
      PROVE  MessageTellsChunks'
  <2>1. T' = T /\ R' = R /\ A' = A /\ S' = S
    BY <1>4 DEF T, R, A, S, TextSeq, ReasonSeq, ArgumentSeq, ArgumentSeqs, TextOf, ReasonsOf, CallsOf
  <2>2. Tells(codec', T', R', A', S')
    BY <1>4, <2>1
  <2>3. MessageTellsChunks' <=> Tells(codec', T', R', A', S')
    BY DEF MessageTellsChunks, Tells, Tale, T, R, A, S
  <2> QED  BY <2>2, <2>3
<1>5. ASSUME UNCHANGED <<options, chunks>>, Blocks(codec'.events) = Blocks(codec.events), codec'.tools = codec.tools,
             codec'.next = codec.next, codec'.open \in {codec.open, NoBlock}
      PROVE  MessageTellsChunks'
  <2> DEFINE d == codec'
  <2>1. Blocks(d.events) = Blocks(codec.events) /\ d.tools = codec.tools /\ d.next = codec.next /\ d.open \in {codec.open, NoBlock}
    BY <1>5
  <2> HIDE DEF d
  <2>2. Tells(d, T, R, A, S)
    BY <1>3, <2>1, QuietTells
  <2> QED  BY <1>4, <1>5, <2>2 DEF d
<1>6. CASE Push
  <2>1. PICK chunk \in Deltas :
          /\ phase = "streaming" /\ chunks' = Append(chunks, chunk) /\ codec' = Encoded(codec, chunk, n + 1)
          /\ UNCHANGED <<options, phase>>
    BY <1>6 DEF Push, Room, n
  <2> DEFINE N == Len(chunk.calls)
             m == n + 1
             ds == Append(chunks, chunk)
  <2>2. m \in Nat
    BY <1>1
  <2>3. T \in Seq(Nat) /\ R \in Seq(Nat) /\ A \in [CallNumbers -> Seq(Nat)]
    BY <1>1, <2>1, MoreChunks, ArgumentsGrow DEF T, R, A
  <2>4. /\ TextSeq(ds) = IF chunk.content THEN T \o <<m>> ELSE T
        /\ ReasonSeq(ds) = IF chunk.reasoning /\ options.keep THEN R \o <<m>> ELSE R
    BY <1>1, MoreChunks DEF T, R, n
  <2>5. ArgumentSeq(ds) = WrittenUpto(A, chunk.calls, m)
    BY <1>1, ArgumentsGrow DEF A, n
  <2>6. CallsOf(ds) = CallsUpto(S, chunk.calls, N)
    BY <1>1, OneMoreChunk DEF S
  <2> HIDE DEF m, ds
  <2>7. Tells(Encoded(codec, chunk, m), IF chunk.content THEN T \o <<m>> ELSE T,
              IF chunk.reasoning /\ options.keep THEN R \o <<m>> ELSE R,
              WrittenUpto(A, chunk.calls, m), CallsUpto(S, chunk.calls, Len(chunk.calls)))
    BY <1>1, <1>2, <1>3, <2>1, <2>2, <2>3, ChunkTells
  <2> HIDE DEF N
  <2>8. Tells(Encoded(codec, chunk, m), TextSeq(ds), ReasonSeq(ds), ArgumentSeq(ds), CallsOf(ds))
    BY <2>4, <2>5, <2>6, <2>7 DEF N
  <2>9. codec' = Encoded(codec, chunk, m) /\ chunks' = ds /\ options' = options
    BY <2>1 DEF m, ds
  <2>10. Tells(codec', TextSeq(ds), ReasonSeq(ds), ArgumentSeq(ds), CallsOf(ds))
    BY <2>8, <2>9
  <2>11. /\ TextSeq(chunks)' = TextSeq(ds) /\ ReasonSeq(chunks)' = ReasonSeq(ds)
         /\ ArgumentSeq(chunks)' = ArgumentSeq(ds) /\ CallsOf(chunks)' = CallsOf(ds)
    BY <2>9 DEF TextSeq, ReasonSeq, ArgumentSeq, ArgumentSeqs, TextOf, ReasonsOf, CallsOf
  <2>12. MessageTellsChunks' <=>
            Tells(codec', TextSeq(chunks)', ReasonSeq(chunks)', ArgumentSeq(chunks)', CallsOf(chunks)')
    BY DEF MessageTellsChunks, Tells, Tale
  <2> QED  BY <2>10, <2>11, <2>12
<1>7. CASE PushBare
  <2>1. codec' = Started(codec) /\ UNCHANGED <<options, chunks>>
    BY <1>7 DEF PushBare
  <2>2. /\ Blocks(codec'.events) = Blocks(codec.events) /\ codec'.tools = codec.tools /\ codec'.next = codec.next
        /\ codec'.open = codec.open
    BY <1>1, <2>1, QuietStarted
  <2> QED  BY <1>5, <2>1, <2>2
<1>8. CASE PushDone
  <2>1. codec' = [codec EXCEPT !.done = TRUE] /\ UNCHANGED <<options, chunks>>
    BY <1>8 DEF PushDone
  <2>2. /\ codec'.events = codec.events /\ codec'.tools = codec.tools /\ codec'.next = codec.next
        /\ codec'.open = codec.open
    BY <1>1, <2>1 DEF Codecs
  <2> QED  BY <1>5, <2>1, <2>2
<1>9. CASE Throw \/ UNCHANGED codecVars
  <2>1. UNCHANGED <<options, chunks, codec>>
    BY <1>9 DEF Throw, codecVars
  <2> QED  BY <1>5, <2>1
<1>10. CASE End
  <2> DEFINE reason == StopReason(codec.finish)
             d == Emit(Emit(CloseOpen(Started(codec)), Event("message_delta", 0, reason, <<>>)),
                       Event("message_stop", 0, "message", <<>>))
  <2>1. phase = "streaming" /\ codec' = d /\ UNCHANGED <<options, chunks>>
    BY <1>10 DEF End
  <2>2. reason \in {"max_tokens", "tool_use", "end_turn"}
    BY DEF StopReason
  <2> HIDE DEF reason
  <2>3. Blocks(d.events) = Blocks(codec.events) /\ d.tools = codec.tools /\ d.next = codec.next /\ d.open = NoBlock
    BY <1>1, <2>1, <2>2, EndTells
  <2> HIDE DEF d
  <2> QED  BY <1>5, <2>1, <2>3
<1> QED  BY <1>6, <1>7, <1>8, <1>9, <1>10 DEF CodecNext

LEMMA TellsInvariant == CodecSpec => []MessageTellsChunks
<1>1. CodecInv /\ MessageTellsChunks /\ [CodecNext]_codecVars => MessageTellsChunks'
  BY TellsStep
<1> QED  BY <1>1, TellsStart, CodecInvariant, PTL DEF CodecSpec

-----------------------------------------------------------------------------
(* Filters once more; the stream made from a message                       *)

\* A filtered sequence keeps elements of the sequence that belong to the set.
LEMMA OnlyIn ==
  ASSUME NEW X, NEW s \in Seq(X), NEW S
  PROVE  /\ \A k \in DOMAIN Only(s, S) : Only(s, S)[k] \in S /\ \E j \in DOMAIN s : s[j] = Only(s, S)[k]
         /\ \A j \in DOMAIN s : s[j] \in S => \E k \in DOMAIN Only(s, S) : Only(s, S)[k] = s[j]
<1> DEFINE o == Only(s, S)
<1>1. ToSet(o) = ToSet(s) \cap S
  BY OnlySelects
<1> HIDE DEF o
<1>2. ASSUME NEW k \in DOMAIN o
      PROVE  o[k] \in S /\ \E j \in DOMAIN s : s[j] = o[k]
  <2>1. o[k] \in ToSet(o)
    BY DEF ToSet
  <2>2. o[k] \in ToSet(s) /\ o[k] \in S
    BY <1>1, <2>1
  <2> QED  BY <2>2 DEF ToSet
<1>3. ASSUME NEW j \in DOMAIN s, s[j] \in S
      PROVE  \E k \in DOMAIN o : o[k] = s[j]
  <2>1. s[j] \in ToSet(s)
    BY DEF ToSet
  <2>2. s[j] \in ToSet(o)
    BY <1>1, <1>3, <2>1
  <2> QED  BY <2>2 DEF ToSet
<1> QED  BY <1>2, <1>3 DEF o

\* What no element belongs to leaves nothing.
LEMMA OnlyNone ==
  ASSUME NEW X, NEW s \in Seq(X), NEW S, \A k \in DOMAIN s : s[k] \notin S
  PROVE  Only(s, S) = <<>>
<1> DEFINE T == {u \in Seq(X) : Only(u, {}) = <<>>}
<1>1. Only(s, S) = Only(s, {})
  BY OnlySame
<1>2. <<>> \in T
  BY EmptyFolds
<1>3. ASSUME NEW u \in Seq(X), u \in T, NEW x \in X
      PROVE  Append(u, x) \in T
  <2>1. Only(Append(u, x), {}) = Only(u, {})
    BY OnlyAppend
  <2> QED  BY <1>3, <2>1
<1> HIDE DEF T
<1>4. Seq(X) \subseteq T
  BY <1>2, <1>3, AppendInduction
<1> QED  BY <1>1, <1>4 DEF T

\* Filtering twice is filtering by both sets.
LEMMA OnlyTwice ==
  ASSUME NEW X, NEW s \in Seq(X), NEW R, NEW S
  PROVE  Only(Only(s, R), S) = Only(s, R \cap S)
<1> DEFINE T == {u \in Seq(X) : Only(Only(u, R), S) = Only(u, R \cap S)}
<1>1. <<>> \in T
  <2>1. <<>> \in Seq(X)
    OBVIOUS
  <2> QED  BY <2>1, EmptyFolds
<1>2. ASSUME NEW u \in Seq(X), u \in T, NEW x \in X
      PROVE  Append(u, x) \in T
  <2> DEFINE o == Only(u, R)
             q == Only(u, R \cap S)
             v == Append(u, x)
  <2>1. Only(v, R) = IF x \in R THEN Append(o, x) ELSE o
    BY OnlyAppend
  <2>2. Only(v, R \cap S) = IF x \in R /\ x \in S THEN Append(q, x) ELSE q
    BY OnlyAppend
  <2>3. o \in Seq(X) /\ Only(o, S) = q /\ v \in Seq(X)
    BY <1>2, OnlySelects
  <2> HIDE DEF o, q, v
  <2>4. Only(Append(o, x), S) = IF x \in S THEN Append(q, x) ELSE q
    <3>1. o \in Seq(X)
      BY <2>3
    <3>2. Only(Append(o, x), S) = IF x \in S THEN Append(Only(o, S), x) ELSE Only(o, S)
      BY <3>1, OnlyAppend
    <3>3. Only(o, S) = q
      BY <2>3
    <3> QED  BY <3>2, <3>3
  <2>5. Only(Only(v, R), S) = Only(v, R \cap S)
    BY <2>1, <2>2, <2>3, <2>4
  <2> QED  BY <2>3, <2>5 DEF v
<1> HIDE DEF T
<1>3. Seq(X) \subseteq T
  BY <1>1, <1>2, AppendInduction
<1> QED  BY <1>3 DEF T

\* The frames of the blocks of a message.
FramesOf(m) == [k \in DOMAIN m |-> Frames(m[k], k - 1)]

\* The frames of one more block add that block to what the earlier events gave.
LEMMA FramesFold ==
  ASSUME NEW ev \in Seq(Events), NEW m \in Seq(MessageBlocks), Blocks(ev) = m, NEW b \in MessageBlocks,
         NEW n, n = Len(m)
  PROVE  Frames(b, n) \in Seq(Events) /\ Blocks(ev \o Frames(b, n)) = Append(m, b)
<1> DEFINE e1 == Event("block_start", n, b.kind, <<>>)
           e2 == Event("delta", n, b.kind, b.body)
           e3 == Event("block_stop", n, b.kind, <<>>)
           x == Block(b.kind, <<>>)
           one == <<e1>>
           two == <<e2>>
           three == <<e3>>
<1>1. n \in Nat /\ b.kind \in BlockKinds /\ b.body \in Seq(Nat) /\ b = [kind |-> b.kind, body |-> b.body]
  BY DEF MessageBlocks
<1>2. e1 \in Events /\ e2 \in Events /\ e3 \in Events
  BY <1>1 DEF Event, Events, EventTypes
<1>3. /\ e1.type = "block_start" /\ e1.kind = b.kind /\ e2.type = "delta" /\ e2.index = n /\ e2.body = b.body
      /\ e3.type = "block_stop"
  BY DEF Event
<1>4. x \in MessageBlocks /\ x.kind = b.kind /\ x.body = <<>>
  BY <1>1 DEF Block, MessageBlocks
<1>5. Frames(b, n) = (one \o (IF b.body = <<>> /\ b.kind # "tool" THEN <<>> ELSE two)) \o three
  BY DEF Frames
<1> HIDE DEF e1, e2, e3, x
<1> DEFINE a1 == Append(ev, e1)
           a2 == Append(a1, e2)
<1>6. Blocks(a1) = Append(m, x) /\ a1 \in Seq(Events)
  <2>1. Blocks(a1) = Folded(m, e1)
    BY <1>2, BlocksAppend
  <2>2. Folded(m, e1) = Append(m, x)
    BY <1>3 DEF Folded, x
  <2> QED  BY <1>2, <2>1, <2>2
<1>7. Blocks(a2) = Append(m, b) /\ a2 \in Seq(Events)
  <2> DEFINE p == Append(m, x)
             y == p[n + 1]
  <2>1. Blocks(a2) = Folded(p, e2)
    BY <1>2, <1>6, BlocksAppend
  <2>2. n + 1 \in DOMAIN p /\ p[n + 1] = x
    BY <1>1, <1>4
  <2>3. y.kind = b.kind /\ y.body \o b.body = b.body
    <3> DEFINE s == b.body
    <3>1. s \in Seq(Nat)
      BY <1>1
    <3> HIDE DEF s
    <3>2. <<>> \o s = s
      BY <3>1
    <3>3. y.kind = b.kind /\ y.body = <<>>
      BY <1>4, <2>2
    <3> QED  BY <3>2, <3>3 DEF s
  <2>4. Block(y.kind, y.body \o b.body) = b
    BY <1>1, <2>3 DEF Block
  <2>5. [p EXCEPT ![n + 1] = b] = Append(m, b)
    <3>1. [Append(m, x) EXCEPT ![Len(m) + 1] = b] = Append(m, b)
      BY <1>4, AppendedInstead
    <3> QED  BY <3>1
  <2> HIDE DEF p
  <2>6. Folded(p, e2) = [p EXCEPT ![n + 1] = b]
    BY <1>3, <2>2, <2>4 DEF Folded, y
  <2>7. a2 \in Seq(Events)
    BY <1>2, <1>6
  <2> QED  BY <2>1, <2>5, <2>6, <2>7
<1>8. CASE b.body = <<>> /\ b.kind # "tool"
  <2>1. x = b
    BY <1>1, <1>8 DEF Block, x
  <2>2. Frames(b, n) = one \o three
    <3>1. (one \o <<>>) \o three = one \o three
      OBVIOUS
    <3> QED  BY <1>5, <1>8, <3>1
  <2>3. one \o three \in Seq(Events) /\ ev \o (one \o three) = Append(a1, e3)
    BY <1>2
  <2> HIDE DEF a1
  <2>4. Blocks(Append(a1, e3)) = Folded(Append(m, x), e3)
    BY <1>2, <1>6, BlocksAppend
  <2>5. Folded(Append(m, x), e3) = Append(m, x)
    BY <1>3 DEF Folded
  <2> QED  BY <2>1, <2>2, <2>3, <2>4, <2>5
<1>9. CASE ~(b.body = <<>> /\ b.kind # "tool")
  <2>1. Frames(b, n) = (one \o two) \o three
    BY <1>5, <1>9
  <2>2. (one \o two) \o three \in Seq(Events) /\ ev \o ((one \o two) \o three) = Append(a2, e3)
    BY <1>2
  <2> HIDE DEF a2, a1
  <2>3. Blocks(Append(a2, e3)) = Folded(Append(m, b), e3)
    BY <1>2, <1>7, BlocksAppend
  <2>4. Folded(Append(m, b), e3) = Append(m, b)
    BY <1>3 DEF Folded
  <2> QED  BY <2>1, <2>2, <2>3, <2>4
<1> QED  BY <1>8, <1>9

\* The stream made from a message folds to that message.
LEMMA SynthesisedFolds ==
  ASSUME NEW m \in Seq(MessageBlocks)
  PROVE  Blocks(Synthesised(m)) = m
<1> DEFINE X == MessageBlocks
           Y == Seq(Events)
           T == {u \in Seq(X) : /\ FramesOf(u) \in Seq(Y) /\ Len(FramesOf(u)) = Len(u)
                                /\ Blocks(Flat(FramesOf(u))) = u}
<1>1. <<>> \in T
  <2> DEFINE Z == <<>>
  <2>1. Z \in Seq(X) /\ FramesOf(Z) = Z /\ Z \in Seq(Y)
    BY DEF FramesOf
  <2>2. Flat(Z) = Z /\ Blocks(Z) = Z
    BY EmptyFolds, NoBlocks
  <2> HIDE DEF Z
  <2>3. Z \in T
    BY <2>1, <2>2
  <2> QED  BY <2>3 DEF Z
<1>2. ASSUME NEW u \in Seq(X), u \in T, NEW b \in X
      PROVE  Append(u, b) \in T
  <2> DEFINE v == Append(u, b)
             n == Len(u)
             S == FramesOf(u)
             R == FramesOf(v)
             ev == Flat(S)
             x == Frames(b, n)
  <2>1. n \in Nat /\ DOMAIN u = 1..n /\ v \in Seq(X) /\ DOMAIN v = 1..(n + 1) /\ Len(v) = n + 1 /\ v[n + 1] = b
        /\ \A k \in 1..n : v[k] = u[k]
    OBVIOUS
  <2> HIDE DEF v
  <2>2. S \in Seq(Y) /\ Len(S) = n /\ Blocks(ev) = u
    BY <1>2
  <2>3. ev \in Seq(Events)
    <3>1. <<>> \in Seq(Events) /\ S \in Seq(Seq(Events))
      BY <2>2
    <3> HIDE DEF S
    <3> QED  BY <3>1, FlatAppend
  <2> HIDE DEF S, ev
  <2>4. x \in Y /\ Blocks(ev \o x) = v
    BY <2>2, <2>3, FramesFold DEF v
  <2>5. /\ R = [k \in 1..(n + 1) |-> R[k]] /\ R[n + 1] = x /\ \A k \in 1..n : R[k] = S[k]
    <3>1. R = [k \in 1..(n + 1) |-> Frames(v[k], k - 1)] /\ \A k \in 1..n : S[k] = Frames(u[k], k - 1)
      BY <2>1 DEF FramesOf, S
    <3>2. n + 1 \in 1..(n + 1) /\ (n + 1) - 1 = n /\ \A k \in 1..n : k \in 1..(n + 1)
      BY <2>1
    <3> HIDE DEF R
    <3> QED  BY <2>1, <3>1, <3>2
  <2> HIDE DEF R, x, Y, n
  <2>6. Longer(R, S, x)
    BY <2>2, <2>5 DEF Longer
  <2>7. R = Append(S, x)
    BY <2>2, <2>4, <2>6, LongerByOne
  <2>8. R \in Seq(Y) /\ Len(R) = n + 1
    BY <2>2, <2>4, <2>7
  <2>9. Flat(R) = ev \o x
    <3>1. S \in Seq(Seq(Events)) /\ x \in Seq(Events)
      BY <2>2, <2>4 DEF Y
    <3> QED  BY <2>7, <3>1, FlatAppend DEF ev
  <2>10. v \in T
    BY <2>1, <2>4, <2>8, <2>9 DEF R, n
  <2> QED  BY <2>10 DEF v
<1> HIDE DEF T
<1>3. Seq(X) \subseteq T
  BY <1>1, <1>2, AppendInduction
<1>4. Synthesised(m) = Flat(FramesOf(m))
  BY DEF Synthesised, FramesOf
<1> QED  BY <1>3, <1>4 DEF T

-----------------------------------------------------------------------------
(* The completion and its direct conversion                                *)

\* The completion that carries the chunks.
LEMMA CompletionSays ==
  ASSUME chunks \in Seq(Deltas), options.keep \in BOOLEAN
  PROVE  /\ Completion.content = TextSeq(chunks)
         /\ options.keep => Completion.reasoning = ReasonSeq(chunks)
         /\ ~options.keep => ReasonSeq(chunks) = <<>>
         /\ CallIndices = CallsOf(chunks)
         /\ \A i \in CallIndices : Completion.calls[i] = ArgumentSeq(chunks)[i]
<1> DEFINE N == Len(chunks)
<1>1. N \in Nat /\ DOMAIN chunks = 1..N /\ \A n \in 1..N : chunks[n] \in Deltas
  BY SequenceFacts
<1>2. [n \in DOMAIN chunks |-> n] = Counted(N)
  BY <1>1 DEF Counted
<1>3. Completion.content = TextSeq(chunks)
  BY <1>2 DEF Completion, TextSeq, TextOf
<1>4. ASSUME options.keep
      PROVE  Completion.reasoning = ReasonSeq(chunks)
  <2>1. ReasonsOf(chunks) = {n \in DOMAIN chunks : chunks[n].reasoning}
    BY <1>4 DEF ReasonsOf
  <2> QED  BY <1>2, <2>1 DEF Completion, ReasonSeq
<1>5. ASSUME ~options.keep
      PROVE  ReasonSeq(chunks) = <<>>
  <2>1. ReasonsOf(chunks) = {}
    BY <1>5 DEF ReasonsOf
  <2>2. Counted(N) \in Seq(Nat)
    BY <1>1 DEF Counted
  <2>3. Only(Counted(N), {}) = <<>>
    BY <2>2, OnlyNone
  <2> QED  BY <2>1, <2>3 DEF ReasonSeq
<1>6. CallIndices = CallsOf(chunks)
  <2>1. ASSUME NEW i
        PROVE  i \in CallIndices <=> \E n \in 1..N : \E k \in DOMAIN chunks[n].calls : chunks[n].calls[k].index = i
    BY <1>1 DEF CallIndices, ToSet
  <2>2. ASSUME NEW n \in 1..N, NEW k \in DOMAIN chunks[n].calls
        PROVE  chunks[n].calls[k].index \in CallNumbers
    <3> DEFINE calls == chunks[n].calls
    <3>1. calls \in Seq([index : CallNumbers, args : BOOLEAN, named : BOOLEAN])
      BY <1>1, DeltaFields DEF DeltaFieldsOK
    <3> HIDE DEF calls
    <3>2. \A j \in DOMAIN calls : calls[j] \in [index : CallNumbers, args : BOOLEAN, named : BOOLEAN]
      BY <3>1, SequenceFacts
    <3>3. \A j \in DOMAIN calls : calls[j].index \in CallNumbers
      BY <3>2
    <3> QED  BY <3>3 DEF calls
  <2>3. \A i : i \in CallsOf(chunks) <=> i \in CallNumbers /\ \E n \in 1..N : \E k \in DOMAIN chunks[n].calls : chunks[n].calls[k].index = i
    BY <1>1 DEF CallsOf
  <2> DEFINE In(i) == \E n \in 1..N : \E k \in DOMAIN chunks[n].calls : chunks[n].calls[k].index = i
  <2>4. \A i : In(i) => i \in CallNumbers
    <3> HIDE DEF N
    <3> QED  BY <2>2
  <2>5. \A i : i \in CallIndices <=> In(i)
    BY <2>1
  <2>6. \A i : i \in CallsOf(chunks) <=> i \in CallNumbers /\ In(i)
    BY <2>3
  <2> HIDE DEF In
  <2> QED  BY <2>4, <2>5, <2>6
<1>7. ASSUME NEW i \in CallIndices
      PROVE  Completion.calls[i] = ArgumentSeq(chunks)[i]
  <2>1. i \in CallNumbers
    BY <1>6 DEF CallsOf
  <2>2. ArgumentSeq(chunks)[i] = Flat(ArgumentSeqs(chunks, i))
    BY <2>1 DEF ArgumentSeq
  <2>3. Completion.calls[i] = Flat(ArgumentSeqs(chunks, i))
    BY DEF Completion, ArgumentSeqs
  <2> QED  BY <2>2, <2>3
<1> QED  BY <1>3, <1>4, <1>5, <1>6, <1>7

\* A message of at most one block, and the tool blocks of calls in some order.
OneBlock(kind, body) == IF body = <<>> THEN <<>> ELSE <<Block(kind, body)>>
ToolBlocks(calls, A) == [k \in 1..Cardinality(calls) |-> Block("tool", A[SetToSeq(calls)[k]])]
Tools == {b \in MessageBlocks : b.kind = "tool"}

LEMMA OneBlockSays ==
  ASSUME NEW kind \in {"text", "thinking"}, NEW body \in Seq(Nat)
  PROVE  /\ OneBlock(kind, body) \in Seq(MessageBlocks) /\ Only(OneBlock(kind, body), Tools) = <<>>
         /\ \A k : Words(OneBlock(kind, body), k) = IF k = kind THEN body ELSE <<>>
<1> DEFINE b == Block(kind, body)
           Z == <<>>
<1>1. b \in MessageBlocks /\ b \notin Tools
  BY DEF Block, MessageBlocks, BlockKinds, Tools
<1>2. \A k : Said(b, k) = IF k = kind THEN body ELSE <<>>
  BY DEF Said, Block
<1> HIDE DEF b
<1>3. Z \in Seq(MessageBlocks) /\ <<b>> \in Seq(MessageBlocks) /\ Append(Z, b) = <<b>>
  BY <1>1
<1>4. \A k : Words(Z, k) = Z
  BY <1>1, <1>3, WordsAppend
<1>5. \A k : Words(<<b>>, k) = Z \o Said(b, k)
  <2> SUFFICES ASSUME NEW k PROVE Words(<<b>>, k) = Z \o Said(b, k)
    OBVIOUS
  <2>1. Words(Append(Z, b), k) = Words(Z, k) \o Said(b, k)
    BY <1>1, <1>3, WordsAppend
  <2> QED  BY <1>3, <1>4, <2>1
<1>6. \A k : Words(<<b>>, k) = IF k = kind THEN body ELSE <<>>
  <2> SUFFICES ASSUME NEW k PROVE Words(<<b>>, k) = IF k = kind THEN body ELSE <<>>
    OBVIOUS
  <2>1. Said(b, k) = IF k = kind THEN body ELSE <<>>
    BY <1>2
  <2>2. Z \o body = body /\ Z \o Z = Z
    OBVIOUS
  <2> HIDE DEF Z
  <2> QED  BY <1>5, <2>1, <2>2 DEF Z
<1>7. Only(<<b>>, Tools) = <<>>
  <2> DEFINE s == <<b>>
  <2>1. s \in Seq(MessageBlocks) /\ \A k \in DOMAIN s : s[k] = b
    BY <1>3
  <2> HIDE DEF s
  <2>2. Only(s, Tools) = <<>>
    BY <1>1, <2>1, OnlyNone
  <2> QED  BY <2>2 DEF s
<1>8. CASE body = <<>>
  <2>1. OneBlock(kind, body) = Z
    BY <1>8 DEF OneBlock
  <2>2. Only(Z, Tools) = Z
    BY EmptyFolds
  <2> QED  BY <1>3, <1>4, <1>8, <2>1, <2>2
<1>9. CASE body # <<>>
  <2>1. OneBlock(kind, body) = <<b>>
    BY <1>9 DEF OneBlock, b
  <2> QED  BY <1>3, <1>6, <1>7, <2>1
<1> QED  BY <1>8, <1>9

LEMMA ToolBlocksSay ==
  ASSUME NEW S, IsFiniteSet(S), NEW A, \A i \in S : A[i] \in Seq(Nat)
  PROVE  LET s == ToolBlocks(S, A) IN
         /\ s \in Seq(MessageBlocks) /\ Only(s, Tools) = s
         /\ \A kind \in {"text", "thinking"} : Words(s, kind) = <<>>
         /\ Lists(s, S, [i \in S |-> Block("tool", A[i])])
<1> DEFINE q == SetToSeq(S)
           N == Cardinality(S)
           C == [i \in S |-> Block("tool", A[i])]
           s == ToolBlocks(S, A)
           X == MessageBlocks
<1>1. /\ N \in Nat /\ q \in [1..N -> S]
      /\ \A j, k \in 1..N : q[j] = q[k] => j = k
      /\ \A i \in S : \E k \in 1..N : q[k] = i
  BY SetIsListed
<1>2. s = [k \in 1..N |-> Block("tool", A[q[k]])]
  BY DEF ToolBlocks
<1> HIDE DEF q, N, s
<1>3. \A k \in 1..N : q[k] \in S /\ Block("tool", A[q[k]]) \in X /\ Block("tool", A[q[k]]).kind = "tool"
  BY <1>1 DEF Block, MessageBlocks, BlockKinds
<1>4. s \in Seq(X) /\ DOMAIN s = 1..N /\ \A k \in 1..N : s[k] = Block("tool", A[q[k]])
  <2> HIDE DEF X
  <2> QED  BY <1>1, <1>2, <1>3
<1>5. \A k \in DOMAIN s : s[k].kind = "tool" /\ s[k] \in X
  BY <1>3, <1>4
<1>6. Only(s, Tools) = s
  <2>1. \A k \in DOMAIN s : s[k] \in Tools
    BY <1>5 DEF Tools
  <2> QED  BY <1>4, <2>1, OnlyAll
<1>7. ASSUME NEW kind \in {"text", "thinking"}
      PROVE  Words(s, kind) = <<>>
  <2>1. \A k \in DOMAIN s : Said(s[k], kind) = <<>>
    BY <1>5 DEF Said
  <2> QED  BY <1>4, <2>1, WordsEmpty
<1>8. Listing(q, s, 1..N, S, C)
  <2>1. \A k \in 1..N : s[k] = C[q[k]]
    BY <1>3, <1>4
  <2> HIDE DEF C
  <2> QED  BY <1>1, <2>1 DEF Listing
<1>9. Lists(s, S, C)
  <2> HIDE DEF C
  <2> QED  BY <1>4, <1>8 DEF Lists
<1> QED  BY <1>4, <1>6, <1>7, <1>9 DEF s

\* The tool blocks of a message list its calls.
LEMMA OwnedLists ==
  ASSUME NEW m \in Seq(MessageBlocks), NEW tools, NEW A, NEW S \in SUBSET CallNumbers, Owned(m, tools, A, S)
  PROVE  IsFiniteSet(S) /\ Lists(Only(m, Tools), S, [i \in S |-> Block("tool", A[i])])
<1> DEFINE N == Len(m)
           I == {k \in DOMAIN m : m[k] \in Tools}
           C == [i \in S |-> Block("tool", A[i])]
           f == [i \in S |-> tools[i] + 1]
           g == [k \in I |-> CHOOSE i \in S : k = tools[i] + 1]
<1>1. N \in Nat /\ DOMAIN m = 1..N /\ \A k \in 1..N : m[k] \in MessageBlocks
  BY SequenceFacts
<1>2. ASSUME NEW i \in S
      PROVE  tools[i] \in Nat /\ tools[i] + 1 \in 1..N /\ m[tools[i] + 1] = Block("tool", A[i])
  <2> DEFINE t == tools[i]
  <2>1. t \in Nat /\ t < N /\ m[t + 1] = Block("tool", A[i])
    BY DEF Owned
  <2> HIDE DEF t, N
  <2>2. t + 1 \in 1..N
    BY <1>1, <2>1
  <2> QED  BY <2>1, <2>2 DEF t
<1>3. \A i, j \in S : tools[i] = tools[j] => i = j
  BY DEF Owned
<1>4. IsFiniteSet(S)
  <2>1. f \in [S -> 1..N]
    BY <1>2
  <2>2. \A i, j \in S : f[i] = f[j] => i = j
    <3>1. ASSUME NEW i \in S, NEW j \in S, f[i] = f[j]
          PROVE  i = j
      <4>1. tools[i] \in Nat /\ tools[j] \in Nat /\ tools[i] + 1 = tools[j] + 1
        BY <1>2, <3>1
      <4>2. tools[i] = tools[j]
        BY <4>1
      <4> QED  BY <1>3, <4>2
    <3> QED  BY <3>1
  <2>3. IsFiniteSet(1..N)
    BY <1>1, FS_Interval
  <2> HIDE DEF f, N
  <2>4. f \in Injection(S, 1..N)
    <3>1. DOMAIN f = S
      BY <2>1
    <3> QED  BY <2>1, <2>2, <3>1 DEF Injection, IsInjective
  <2> QED  BY <2>3, <2>4, FS_Injection
<1>5. ASSUME NEW k \in I
      PROVE  \E i \in S : k = tools[i] + 1
  <2>1. k \in DOMAIN m /\ m[k].kind = "tool"
    BY DEF Tools
  <2> QED  BY <2>1 DEF Owned
<1>6. \A i \in S : tools[i] + 1 \in I
  <2> SUFFICES ASSUME NEW i \in S PROVE tools[i] + 1 \in I
    OBVIOUS
  <2> DEFINE k == tools[i] + 1
  <2>1. k \in 1..N /\ m[k] = Block("tool", A[i])
    BY <1>2
  <2> HIDE DEF k
  <2>2. m[k].kind = "tool" /\ m[k] \in MessageBlocks
    BY <1>1, <2>1 DEF Block
  <2>3. k \in I
    BY <1>1, <2>1, <2>2 DEF Tools
  <2> QED  BY <2>3 DEF k
<1> HIDE DEF I
<1>7. ASSUME NEW k \in I
      PROVE  g[k] \in S /\ k = tools[g[k]] + 1
  BY <1>5
<1>8. g \in [I -> S]
  BY <1>7
<1> HIDE DEF g
<1>9. \A j, k \in I : g[j] = g[k] => j = k
  <2>1. ASSUME NEW j \in I, NEW k \in I, g[j] = g[k]
        PROVE  j = k
    <3>1. j = tools[g[j]] + 1 /\ k = tools[g[k]] + 1
      BY <1>7
    <3> QED  BY <2>1, <3>1
  <2> QED  BY <2>1
<1>10. \A i \in S : \E k \in I : g[k] = i
  <2> SUFFICES ASSUME NEW i \in S PROVE \E k \in I : g[k] = i
    OBVIOUS
  <2> DEFINE k == tools[i] + 1
             j == g[k]
  <2>1. k \in I /\ j \in S /\ k = tools[j] + 1
    BY <1>6, <1>7
  <2>2. tools[i] \in Nat /\ tools[j] \in Nat
    BY <1>2, <2>1
  <2>3. tools[i] + 1 = tools[j] + 1
    BY <2>1
  <2>4. tools[i] = tools[j]
    BY <2>2, <2>3
  <2>5. j = i
    BY <1>3, <2>1, <2>4
  <2> QED  BY <2>1, <2>5
<1>11. \A k \in I : m[k] = C[g[k]]
  <2> SUFFICES ASSUME NEW k \in I PROVE m[k] = C[g[k]]
    OBVIOUS
  <2> DEFINE i == g[k]
  <2>1. i \in S /\ k = tools[i] + 1
    BY <1>7
  <2>2. m[tools[i] + 1] = Block("tool", A[i])
    BY <1>2, <2>1
  <2>3. C[i] = Block("tool", A[i])
    BY <2>1
  <2> QED  BY <2>1, <2>2, <2>3
<1>12. Lists(Only(m, Tools), I, m)
  BY OnlyLists DEF I
<1> HIDE DEF C
<1>13. Lists(Only(m, Tools), S, C)
  BY <1>8, <1>9, <1>10, <1>11, <1>12, ListsThrough
<1> QED  BY <1>4, <1>13 DEF C

LEMMA OnlyFinds ==
  ASSUME NEW X, NEW s \in Seq(X), NEW S, NEW j \in DOMAIN s, s[j] \in S
  PROVE  \E k \in DOMAIN Only(s, S) : Only(s, S)[k] = s[j]
<1> DEFINE o == Only(s, S)
<1>1. ToSet(o) = ToSet(s) \cap S
  BY OnlySelects
<1> HIDE DEF o
<1>2. s[j] \in ToSet(s)
  BY DEF ToSet
<1>3. s[j] \in ToSet(o)
  BY <1>1, <1>2
<1> QED  BY <1>3 DEF ToSet, o

\* Repairing a nested document of a message without empty blocks keeps it whole.
LEMMA RepairKeeps ==
  ASSUME NEW w \in Seq(MessageBlocks), \A k \in DOMAIN w : w[k].kind = "tool" \/ w[k].body # <<>>
  PROVE  /\ Compact(w) = w
         /\ Normalized(Nested(w), TRUE) = w
         /\ w # <<>> => Normalized(Nested(w), FALSE) # <<>>
<1> DEFINE X == MessageBlocks
           P == {b \in X : b.kind # "thinking" \/ b.body # <<>>}
           Kept(keep) == {b \in X : keep \/ b.kind # "thinking"}
           d == Nested(w)
           one == [k \in DOMAIN d |-> Only(d[k].parts, P)]
           expanded == PushedBlocks(d)
           says == [k \in DOMAIN w |-> IF w[k].kind = "tool" THEN <<>> ELSE w[k].body]
<1>1. \A k \in DOMAIN w : w[k] \in X
  BY SequenceFacts
<1>2. Compact(w) = w
  <2>1. \A k \in DOMAIN w : w[k] \in {b \in X : b.kind = "tool" \/ b.body # <<>>}
    BY <1>1
  <2> QED  BY <2>1, OnlyAll DEF Compact
<1>3. Only(w, P) = w
  <2>1. \A k \in DOMAIN w : w[k] \in P
    BY <1>1
  <2> HIDE DEF P
  <2> QED  BY <2>1, OnlyAll
<1> HIDE DEF P
<1>4. expanded = w
  <2> DEFINE Y == Seq(X)
             Z == <<>>
  <2>1. DOMAIN d = {1} /\ d[1].parts = w
    BY DEF Nested
  <2>2. one = [k \in {1} |-> w]
    BY <1>3, <2>1
  <2>3. Z \in Seq(Y) /\ Append(Z, w) = <<w>> /\ <<w>> = [k \in {1} |-> w]
    OBVIOUS
  <2>4. Flat(Append(Z, w)) = Flat(Z) \o w /\ Flat(Z) = Z
    BY <2>3, FlatAppend
  <2>5. Z \o w = w
    OBVIOUS
  <2>6. expanded = Flat(one)
    BY DEF PushedBlocks, P
  <2> HIDE DEF one, Z
  <2> QED  BY <2>2, <2>3, <2>4, <2>5, <2>6
<1> HIDE DEF d, expanded
<1>5. ASSUME NEW keep
      PROVE  Normalized(d, keep) = IF Only(w, Kept(keep)) = <<>> /\ Flat(says) # <<>> THEN <<Block("text", Flat(says))>>
                                   ELSE Only(w, Kept(keep))
  BY <1>2, <1>4 DEF Normalized, expanded
<1>6. Normalized(d, TRUE) = w
  <2>1. Only(w, Kept(TRUE)) = w
    <3>1. \A k \in DOMAIN w : w[k] \in Kept(TRUE)
      BY <1>1
    <3> HIDE DEF Kept
    <3> QED  BY <3>1, OnlyAll
  <2>2. CASE w = <<>>
    <3>1. says = <<>>
      BY <2>2
    <3>2. Flat(says) = <<>>
      BY <3>1, EmptyFolds
    <3> QED  BY <1>5, <2>1, <3>2
  <2>3. CASE w # <<>>
    BY <1>5, <2>1, <2>3
  <2> QED  BY <2>2, <2>3
<1>7. ASSUME w # <<>>
      PROVE  Normalized(d, FALSE) # <<>>
  <2> DEFINE o == Only(w, Kept(FALSE))
             b == w[1]
  <2>1. 1 \in DOMAIN w /\ b \in X
    BY <1>1, <1>7
  <2>2. CASE o # <<>>
    BY <1>5, <2>2
  <2>3. CASE o = <<>>
    <3>1. b \notin Kept(FALSE)
      <4>1. ASSUME b \in Kept(FALSE)
            PROVE  FALSE
        <5>1. \E k \in DOMAIN o : o[k] = b
          <6> DEFINE S == Kept(FALSE)
          <6>1. 1 \in DOMAIN w /\ w[1] \in S
            BY <2>1, <4>1
          <6> HIDE DEF S
          <6>2. \E k \in DOMAIN Only(w, S) : Only(w, S)[k] = w[1]
            BY <6>1, OnlyFinds
          <6> QED  BY <6>2 DEF S
        <5>2. DOMAIN o = {}
          BY <2>3
        <5> QED  BY <5>1, <5>2
      <4> QED  BY <4>1
    <3>2. b.kind = "thinking" /\ b.body # <<>>
      BY <2>1, <3>1
    <3>3. says[1] # <<>> /\ 1 \in DOMAIN says
      BY <2>1, <3>2
    <3>4. says \in Seq(Seq(Nat))
      <4> DEFINE N == Len(w)
                 Y == Seq(Nat)
      <4>1. N \in Nat /\ DOMAIN w = 1..N
        BY SequenceFacts
      <4>2. \A k \in 1..N : (IF w[k].kind = "tool" THEN <<>> ELSE w[k].body) \in Y
        <5> SUFFICES ASSUME NEW k \in 1..N PROVE (IF w[k].kind = "tool" THEN <<>> ELSE w[k].body) \in Y
          OBVIOUS
        <5> DEFINE at == w[k]
        <5>1. at \in X
          BY <1>1, <4>1
        <5> HIDE DEF at
        <5>2. at.body \in Y /\ <<>> \in Y
          BY <5>1 DEF MessageBlocks
        <5> QED  BY <5>2 DEF at
      <4>3. says = [k \in 1..N |-> IF w[k].kind = "tool" THEN <<>> ELSE w[k].body]
        BY <4>1
      <4> HIDE DEF N, Y, says
      <4>4. says \in Seq(Y)
        BY <4>1, <4>2, <4>3
      <4> QED  BY <4>4 DEF Y
    <3> HIDE DEF says
    <3>5. Flat(says) # <<>>
      BY <3>3, <3>4, FlatEmpty
    <3> DEFINE s == Flat(says)
               t == <<Block("text", s)>>
    <3>6. t # <<>>
      OBVIOUS
    <3>7. Normalized(d, FALSE) = t
      BY <1>5, <2>3, <3>5
    <3> HIDE DEF t
    <3> QED  BY <3>6, <3>7
  <2> QED  BY <2>2, <2>3
<1> QED  BY <1>2, <1>6, <1>7 DEF d

\* The direct conversion: the reasoning, the text, the calls.
LEMMA DirectSays ==
  ASSUME NEW T, NEW R, NEW A, NEW S, IsFiniteSet(S), S = CallIndices, options.keep \in BOOLEAN,
         Completion.content = T, options.keep => Completion.reasoning = R, ~options.keep => R = <<>>,
         \A i \in S : Completion.calls[i] = A[i]
  PROVE  Direct(Completion) = (OneBlock("thinking", R) \o OneBlock("text", T)) \o ToolBlocks(S, A)
<1> DEFINE q == SetToSeq(S)
           N == Cardinality(S)
           calls == [k \in 1..N |-> Block("tool", Completion.calls[q[k]])]
           thought == IF options.keep THEN OneBlock("thinking", Completion.reasoning) ELSE <<>>
<1>1. q \in [1..N -> S]
  BY SetIsListed
<1>2. Direct(Completion) = (thought \o OneBlock("text", T)) \o calls
  BY DEF Direct, OneBlock
<1> HIDE DEF q, N
<1>3. calls = [k \in 1..N |-> Block("tool", A[q[k]])]
  BY <1>1
<1>4. calls = ToolBlocks(S, A)
  BY <1>3 DEF ToolBlocks, q, N
<1>5. thought = OneBlock("thinking", R)
  <2>1. CASE options.keep
    BY <2>1
  <2>2. CASE ~options.keep
    BY <2>2 DEF OneBlock
  <2> QED  BY <2>1, <2>2
<1> HIDE DEF calls, thought
<1> QED  BY <1>2, <1>4, <1>5

\* The words and the tool blocks of the direct conversion.
DirectIs(direct, T, R, blocks) ==
  Words(direct, "text") = T /\ Words(direct, "thinking") = R /\ Only(direct, Tools) = blocks

LEMMA DirectWords ==
  ASSUME NEW T \in Seq(Nat), NEW R \in Seq(Nat), NEW S, IsFiniteSet(S), NEW A, \A i \in S : A[i] \in Seq(Nat),
         NEW direct, direct = (OneBlock("thinking", R) \o OneBlock("text", T)) \o ToolBlocks(S, A)
  PROVE  DirectIs(direct, T, R, ToolBlocks(S, A))
<1> DEFINE X == MessageBlocks
           p == OneBlock("thinking", R)
           q == OneBlock("text", T)
           r == ToolBlocks(S, A)
           pq == p \o q
           Z == <<>>
<1>1. p \in Seq(X) /\ Only(p, Tools) = Z /\ Words(p, "text") = Z /\ Words(p, "thinking") = R
  BY OneBlockSays
<1>2. q \in Seq(X) /\ Only(q, Tools) = Z /\ Words(q, "text") = T /\ Words(q, "thinking") = Z
  BY OneBlockSays
<1>3. r \in Seq(X) /\ Only(r, Tools) = r /\ Words(r, "text") = Z /\ Words(r, "thinking") = Z
  BY ToolBlocksSay
<1> HIDE DEF p, q, r
<1>4. pq \in Seq(X)
  BY <1>1, <1>2
<1>5. /\ Words(pq, "text") = Z \o T /\ Words(pq, "thinking") = R \o Z /\ Only(pq, Tools) = Z \o Z
  <2>1. \A kind : Words(pq, kind) = Words(p, kind) \o Words(q, kind)
    BY <1>1, <1>2, WordsJoin
  <2>2. Only(pq, Tools) = Only(p, Tools) \o Only(q, Tools)
    BY <1>1, <1>2, OnlyJoin
  <2> QED  BY <1>1, <1>2, <2>1, <2>2
<1>6. Z \o T = T /\ R \o Z = R /\ Z \o Z = Z
  OBVIOUS
<1> HIDE DEF pq
<1>7. direct = pq \o r
  BY DEF pq, p, q, r
<1>8. Words(direct, "text") = T \o Z /\ Words(direct, "thinking") = R \o Z /\ Only(direct, Tools) = Z \o r
  <2>1. \A kind : Words(pq \o r, kind) = Words(pq, kind) \o Words(r, kind)
    BY <1>3, <1>4, WordsJoin
  <2>2. Only(pq \o r, Tools) = Only(pq, Tools) \o Only(r, Tools)
    <3>1. pq \in Seq(X) /\ r \in Seq(X)
      BY <1>3, <1>4
    <3> HIDE DEF X
    <3> QED  BY <3>1, OnlyJoin
  <2> HIDE DEF Z
  <2> QED  BY <1>3, <1>5, <1>6, <1>7, <2>1, <2>2
<1>9. T \o Z = T /\ Z \o r = r
  BY <1>3
<1> HIDE DEF Z
<1> QED  BY <1>6, <1>8, <1>9 DEF r, DirectIs

LEMMA SameBag ==
  ASSUME NEW X, NEW s \in Seq(X), NEW t \in Seq(X), NEW I, NEW B, Lists(s, I, B), Lists(t, I, B)
  PROVE  ToBag(s) = ToBag(t)
BY BagOfLists

\* The collected message against the direct one, and what is made of it.
CollectedKeeps(ev, direct, content, reasons) ==
  LET folded == Collected(ev)
  IN  /\ \A kind \in {"text", "thinking"} : Words(folded, kind) = Words(direct, kind)
      /\ ToBag(OfKind(folded, "tool")) = ToBag(OfKind(direct, "tool"))
      /\ Collected(Synthesised(folded)) = folded
      /\ Compact(Normalized(Nested(folded), TRUE)) = Compact(folded)
      /\ Replayed(folded).content = content
      /\ Replayed(folded).reasoning = reasons
      /\ folded # <<>> => Normalized(Nested(folded), FALSE) # <<>>

LEMMA TaleKeeps ==
  ASSUME NEW ev, NEW m, m = Blocks(ev), NEW c, NEW T \in Seq(Nat), NEW R \in Seq(Nat),
         NEW A, NEW S \in SUBSET CallNumbers, \A i \in S : A[i] \in Seq(Nat), Tale(m, c, T, R, A, S),
         NEW direct \in Seq(MessageBlocks), DirectIs(direct, T, R, ToolBlocks(S, A))
  PROVE  CollectedKeeps(ev, direct, T, R)
<1> DEFINE X == MessageBlocks
           K == {b \in X : b.kind # "text" \/ b.body # <<>>}
           w == Only(m, K)
           C == [i \in S |-> Block("tool", A[i])]
<1>1. m \in Seq(X) /\ Words(m, "text") = T /\ Words(m, "thinking") = R /\ Owned(m, c.tools, A, S)
  BY DEF Tale
<1>2. Collected(ev) = w
  BY DEF Collected
<1>3. \A b \in X : b \notin K => b.kind = "text" /\ b.body = <<>>
  OBVIOUS
<1>4. \A b \in K : b \in X /\ (b.kind # "text" \/ b.body # <<>>)
  OBVIOUS
<1>5. Tools \subseteq K /\ K \cap Tools = Tools
  BY DEF Tools
<1> HIDE DEF K
<1>6. w \in Seq(X)
  BY <1>1, OnlySelects
<1>7. \A kind \in {"text", "thinking"} : Words(w, kind) = Words(m, kind)
  <2> SUFFICES ASSUME NEW kind \in {"text", "thinking"} PROVE Words(w, kind) = Words(m, kind)
    OBVIOUS
  <2>1. \A b \in X : b \notin K => Said(b, kind) = <<>>
    BY <1>3 DEF Said
  <2> QED  BY <1>1, <2>1, WordsOnly
<1>8. \A k \in DOMAIN w : w[k] \in K /\ \E j \in DOMAIN m : m[j] = w[k]
  BY <1>1, OnlyIn
<1>9. \A k \in DOMAIN w : w[k].kind = "tool" \/ w[k].body # <<>>
  <2> SUFFICES ASSUME NEW k \in DOMAIN w PROVE w[k].kind = "tool" \/ w[k].body # <<>>
    OBVIOUS
  <2> DEFINE b == w[k]
  <2>1. b \in K
    BY <1>8
  <2>2. PICK j \in DOMAIN m : m[j] = b
    BY <1>8
  <2> HIDE DEF b
  <2>3. b \in X /\ (b.kind # "text" \/ b.body # <<>>)
    BY <1>4, <2>1
  <2>4. b.kind = "thinking" => b.body # <<>>
    BY <2>2 DEF Tale
  <2>5. b.kind \in {"text", "thinking", "tool"}
    BY <2>3 DEF MessageBlocks, BlockKinds
  <2>6. b.kind = "tool" \/ b.body # <<>>
    BY <2>3, <2>4, <2>5
  <2> QED  BY <2>6 DEF b
<1>10. OfKind(w, "tool") = Only(m, Tools)
  <2>1. OfKind(w, "tool") = Only(w, Tools)
    BY DEF OfKind, Tools
  <2>2. Only(Only(m, K), Tools) = Only(m, K \cap Tools)
    BY <1>1, OnlyTwice
  <2> QED  BY <1>5, <2>1, <2>2
<1>11. OfKind(direct, "tool") = ToolBlocks(S, A) /\ Words(direct, "text") = T /\ Words(direct, "thinking") = R
  BY DEF OfKind, Tools, DirectIs
<1>12. IsFiniteSet(S) /\ Lists(Only(m, Tools), S, C) /\ Only(m, Tools) \in Seq(X)
  BY <1>1, OwnedLists, OnlySelects
<1>13. Lists(ToolBlocks(S, A), S, C) /\ ToolBlocks(S, A) \in Seq(X)
  BY <1>12, ToolBlocksSay
<1> HIDE DEF C
<1>14. ToBag(Only(m, Tools)) = ToBag(ToolBlocks(S, A))
  BY <1>12, <1>13, SameBag
<1>15. Collected(Synthesised(w)) = w
  <2>1. Blocks(Synthesised(w)) = w
    BY <1>6, SynthesisedFolds
  <2>2. Collected(Synthesised(w)) = Only(w, K)
    BY <2>1 DEF Collected, K
  <2>3. \A k \in DOMAIN w : w[k] \in K
    BY <1>8
  <2> HIDE DEF w
  <2>4. Only(w, K) = w
    BY <1>6, <2>3, OnlyAll
  <2> QED  BY <2>2, <2>4
<1>16. /\ Compact(w) = w /\ Normalized(Nested(w), TRUE) = w
       /\ w # <<>> => Normalized(Nested(w), FALSE) # <<>>
  <2> HIDE DEF w
  <2> QED  BY <1>6, <1>9, RepairKeeps
<1>17. Words(w, "text") = T /\ Words(w, "thinking") = R
  BY <1>1, <1>7
<1>18. Replayed(w).content = T /\ Replayed(w).reasoning = R
  BY <1>17 DEF Replayed
<1> HIDE DEF w
<1> QED  BY <1>2, <1>10, <1>11, <1>14, <1>15, <1>16, <1>17, <1>18 DEF CollectedKeeps

LEMMA ToldIsKept ==
  ASSUME CodecInv, MessageTellsChunks
  PROVE  FoldKeepsAnswer
<1> DEFINE T == TextSeq(chunks)
           R == ReasonSeq(chunks)
           A == ArgumentSeq(chunks)
           S == CallsOf(chunks)
           ev == codec.events
           m == Blocks(ev)
           direct == Direct(Completion)
<1>1. chunks \in Seq(Deltas) /\ options.keep \in BOOLEAN
  BY DEF CodecInv, CodecTypeOK
<1>2. Tale(m, codec, T, R, A, S)
  BY DEF MessageTellsChunks, Tells
<1>3. S \in SUBSET CallNumbers
  BY DEF CallsOf
<1>4. T \in Seq(Nat) /\ R \in Seq(Nat) /\ A \in [CallNumbers -> Seq(Nat)]
  <2>1. ASSUME NEW chunk \in Deltas
        PROVE  T \in Seq(Nat) /\ R \in Seq(Nat) /\ A \in [CallNumbers -> Seq(Nat)]
    BY <1>1, MoreChunks, ArgumentsGrow
  <2>2. CASE Deltas = {}
    <3> DEFINE Z == <<>>
    <3>1. chunks = Z /\ Z \in Seq(Nat)
      BY <1>1, <2>2
    <3>2. Counted(Len(Z)) = Z /\ \A i : ArgumentSeqs(Z, i) = Z
      BY DEF Counted, ArgumentSeqs
    <3>3. T = Z /\ R = Z
      BY <3>1, <3>2, EmptyFolds DEF TextSeq, ReasonSeq
    <3>4. A = [i \in CallNumbers |-> Z]
      BY <3>1, <3>2, EmptyFolds DEF ArgumentSeq
    <3> HIDE DEF Z, T, R, A
    <3> QED  BY <3>1, <3>3, <3>4
  <2> QED  BY <2>1, <2>2
<1>5. /\ Completion.content = T /\ (options.keep => Completion.reasoning = R) /\ (~options.keep => R = <<>>)
      /\ CallIndices = S /\ \A i \in S : Completion.calls[i] = A[i]
  BY <1>1, CompletionSays
<1> HIDE DEF T, R, A, S, m
<1>6. \A i \in S : A[i] \in Seq(Nat)
  BY <1>3, <1>4
<1>7. IsFiniteSet(S)
  BY <1>2, <1>3, OwnedLists DEF Tale
<1>8. direct = (OneBlock("thinking", R) \o OneBlock("text", T)) \o ToolBlocks(S, A)
  BY <1>1, <1>5, <1>7, DirectSays
<1> HIDE DEF direct
<1>9. DirectIs(direct, T, R, ToolBlocks(S, A))
  BY <1>4, <1>6, <1>7, <1>8, DirectWords
<1>10. direct \in Seq(MessageBlocks)
  <2> DEFINE p == OneBlock("thinking", R)
             q == OneBlock("text", T)
             r == ToolBlocks(S, A)
  <2>1. p \in Seq(MessageBlocks) /\ q \in Seq(MessageBlocks) /\ r \in Seq(MessageBlocks)
    BY <1>4, <1>6, <1>7, OneBlockSays, ToolBlocksSay
  <2> HIDE DEF p, q, r
  <2>2. (p \o q) \o r \in Seq(MessageBlocks)
    BY <2>1
  <2> QED  BY <1>8, <2>2 DEF p, q, r
<1>11. CollectedKeeps(ev, direct, T, R)
  <2>1. m = Blocks(ev)
    BY DEF m
  <2> HIDE DEF ev
  <2> QED  BY <1>2, <1>3, <1>4, <1>6, <1>9, <1>10, <2>1, TaleKeeps
<1> QED  BY <1>5, <1>11 DEF FoldKeepsAnswer, CollectedKeeps, ev, direct

\* However an upstream splits and orders the pieces of its answer, the message
\* folded from the events sent is what the unstreamed conversion of the same
\* answer is: the same text, the same kept reasoning, the same arguments for
\* every call in a block of its own; the stream made from that message, the
\* repaired nested document of it and the history it becomes keep it whole.
THEOREM StreamedIsUnstreamed == CodecSpec => []FoldKeepsAnswer
<1>1. CodecInv /\ MessageTellsChunks => FoldKeepsAnswer
  BY ToldIsKept
<1> QED  BY <1>1, TellsInvariant, CodecInvariant, PTL
=============================================================================
