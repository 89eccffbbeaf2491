--------------------------- MODULE PatchPolicyProofs ---------------------------
(***************************************************************************)
(* The orders of PatchPolicy, for sequences of any length: Python's order  *)
(* of tuples is a strict total order, and so are the orders of the keys    *)
(* candidates are ranked by.  Hence the maxima the resolver, the audit and *)
(* the kernel sources select exist, whatever upstream publishes.           *)
(***************************************************************************)
EXTENDS PatchPolicy, TLAPS, WellFoundedInduction, SequenceTheorems, FiniteSetTheorems

Below == {pair \in Nat \X Nat : pair[1] < pair[2]}

LEMMA BelowWellFounded == IsWellFoundedOn(Below, Nat)
BY NatLessThanWellFounded DEF OpToRel, Below

(* Every set of natural numbers but the empty one has a least member.      *)
LEMMA LeastNatural ==
  ASSUME NEW T \in SUBSET Nat, T # {}
  PROVE  \E x \in T : \A y \in T : x <= y
<1>1. PICK x \in T : \A y \in T : <<y, x>> \notin Below
  BY BelowWellFounded, WFMin
<1>2. \A y \in T : ~(y < x)
  BY <1>1 DEF Below
<1>3. \A y \in T : y \in Nat /\ x \in Nat
  OBVIOUS
<1> QED BY <1>2, <1>3

StrictOrder(R, S) ==
  /\ \A x \in S : <<x, x>> \notin R
  /\ \A x, y, z \in S : <<x, y>> \in R /\ <<y, z>> \in R => <<x, z>> \in R

(* A finite set has a member that nothing in it is above.                  *)
LEMMA MaximalMember ==
  ASSUME NEW S, IsFiniteSet(S), S # {}, NEW R, StrictOrder(R, S)
  PROVE  \E x \in S : \A y \in S : <<x, y>> \notin R
<1> DEFINE Above(x) == {y \in S : <<x, y>> \in R}
           Sizes == {n \in Nat : \E x \in S : n = Cardinality(Above(x))}
<1>1. \A x \in S : Above(x) \in SUBSET S /\ IsFiniteSet(Above(x)) /\ Cardinality(Above(x)) \in Nat
  BY FS_Subset, FS_CardinalityType
<1>2. Sizes # {} /\ Sizes \in SUBSET Nat
  BY <1>1
<1>3. PICK n \in Sizes : \A m \in Sizes : n <= m
  BY <1>2, LeastNatural
<1>4. PICK x \in S : n = Cardinality(Above(x))
  BY <1>3
<1>5. ASSUME NEW y \in S, <<x, y>> \in R PROVE FALSE
  <2>1. Above(y) \in SUBSET Above(x) /\ y \in Above(x) /\ y \notin Above(y)
    BY <1>5 DEF StrictOrder
  <2>2. Cardinality(Above(y)) <= Cardinality(Above(x)) /\ Cardinality(Above(y)) # Cardinality(Above(x))
    <3> HIDE DEF Above
    <3> QED BY <1>1, <2>1, FS_Subset
  <2>3. Cardinality(Above(y)) \in Sizes /\ Cardinality(Above(y)) \in Nat
    BY <1>1
  <2>4. n <= Cardinality(Above(y))
    BY <1>3, <2>3
  <2> HIDE DEF Above
  <2> QED BY <1>1, <1>4, <2>2, <2>3, <2>4
<1> QED BY <1>5

-----------------------------------------------------------------------------
(* The order of versions.                                                  *)

Numbers == Seq(Int)

LEMMA LessIrreflexive == \A a \in Numbers : ~Less(a, a)
BY DEF Less, Numbers

LEMMA LessTransitive ==
  ASSUME NEW a \in Numbers, NEW b \in Numbers, NEW c \in Numbers, Less(a, b), Less(b, c)
  PROVE  Less(a, c)
<1>1. PICK i \in DOMAIN b : /\ i <= Len(a) + 1
                            /\ \A j \in 1..(i - 1) : a[j] = b[j]
                            /\ i <= Len(a) => a[i] < b[i]
  BY DEF Less
<1>2. PICK k \in DOMAIN c : /\ k <= Len(b) + 1
                            /\ \A j \in 1..(k - 1) : b[j] = c[j]
                            /\ k <= Len(b) => b[k] < c[k]
  BY DEF Less
<1>3. /\ DOMAIN a = 1..Len(a) /\ DOMAIN b = 1..Len(b) /\ DOMAIN c = 1..Len(c)
      /\ Len(a) \in Nat /\ Len(b) \in Nat /\ Len(c) \in Nat
      /\ \A n \in 1..Len(a) : a[n] \in Int
      /\ \A n \in 1..Len(b) : b[n] \in Int
      /\ \A n \in 1..Len(c) : c[n] \in Int
  BY DEF Numbers
<1>4. CASE i < k
  <2>1. i \in DOMAIN c /\ b[i] = c[i] /\ \A j \in 1..(i - 1) : a[j] = c[j]
    BY <1>1, <1>2, <1>3, <1>4
  <2> QED BY <1>1, <2>1 DEF Less
<1>5. CASE i = k
  <2>1. (i <= Len(a) => a[i] < c[i]) /\ \A j \in 1..(i - 1) : a[j] = c[j]
    BY <1>1, <1>2, <1>3, <1>5
  <2> QED BY <1>1, <1>2, <1>5, <2>1 DEF Less
<1>6. CASE k < i
  <2>1. k \in 1..(i - 1) /\ k <= Len(a) + 1 /\ k <= Len(b)
    BY <1>1, <1>3, <1>6
  <2>2. a[k] = b[k] /\ b[k] < c[k]
    BY <1>1, <1>2, <2>1
  <2>3. \A j \in 1..(k - 1) : j \in 1..(i - 1) /\ a[j] = c[j]
    BY <1>1, <1>2, <1>3, <2>1
  <2> QED BY <2>1, <2>2, <2>3 DEF Less
<1> QED BY <1>1, <1>2, <1>3, <1>4, <1>5, <1>6

LEMMA LessTotal ==
  ASSUME NEW a \in Numbers, NEW b \in Numbers, a # b
  PROVE  Less(a, b) \/ Less(b, a)
<1>1. /\ DOMAIN a = 1..Len(a) /\ DOMAIN b = 1..Len(b) /\ Len(a) \in Nat /\ Len(b) \in Nat
      /\ \A n \in 1..Len(a) : a[n] \in Int
      /\ \A n \in 1..Len(b) : b[n] \in Int
  BY DEF Numbers
<1> DEFINE D == {n \in 1..Len(a) : n <= Len(b) /\ a[n] # b[n]}
<1>2. CASE D = {}
  <2>1. Len(a) # Len(b)
    <3>1. ASSUME Len(a) = Len(b) PROVE FALSE
      <4>1. \A n \in 1..Len(a) : a[n] = b[n]
        BY <1>1, <1>2, <3>1
      <4> QED BY <3>1, <4>1, SeqEqual DEF Numbers
    <3> QED BY <3>1
  <2>2. CASE Len(a) < Len(b)
    <3>1. Len(a) + 1 \in DOMAIN b /\ \A j \in 1..((Len(a) + 1) - 1) : a[j] = b[j]
      BY <1>1, <1>2, <2>2
    <3> QED BY <1>1, <3>1 DEF Less
  <2>3. CASE Len(b) < Len(a)
    <3>1. Len(b) + 1 \in DOMAIN a /\ \A j \in 1..((Len(b) + 1) - 1) : b[j] = a[j]
      BY <1>1, <1>2, <2>3
    <3> QED BY <1>1, <3>1 DEF Less
  <2>4. Len(a) < Len(b) \/ Len(b) < Len(a)
    <3> HIDE DEF D
    <3>1. Len(a) \in Nat /\ Len(b) \in Nat
      BY <1>1
    <3> QED BY <2>1, <3>1
  <2> QED BY <2>2, <2>3, <2>4
<1>3. CASE D # {}
  <2>0. D \in SUBSET Nat
    OBVIOUS
  <2>1. PICK n \in D : \A m \in D : n <= m
    BY <1>3, <2>0, LeastNatural
  <2>2. n \in DOMAIN a /\ n \in DOMAIN b /\ \A j \in 1..(n - 1) : a[j] = b[j]
    BY <1>1, <2>1
  <2>3. a[n] < b[n] \/ b[n] < a[n]
    BY <1>1, <2>1, <2>2
  <2> QED BY <1>1, <2>2, <2>3 DEF Less
<1> QED BY <1>2, <1>3

-----------------------------------------------------------------------------
(* The order of keys, which are sequences of n sequences of numbers.       *)

Keys(n) == [1..n -> Numbers]

LEMMA KeyIrreflexive == \A n \in Nat : \A a \in Keys(n) : ~KeyLess(a, a)
BY LessIrreflexive DEF KeyLess, Keys

LEMMA KeyTransitive ==
  ASSUME NEW n \in Nat, NEW a \in Keys(n), NEW b \in Keys(n), NEW c \in Keys(n),
         KeyLess(a, b), KeyLess(b, c)
  PROVE  KeyLess(a, c)
<1>1. PICK i \in 1..n : Less(a[i], b[i]) /\ \A j \in 1..(i - 1) : a[j] = b[j]
  BY DEF KeyLess, Keys
<1>2. PICK k \in 1..n : Less(b[k], c[k]) /\ \A j \in 1..(k - 1) : b[j] = c[j]
  BY DEF KeyLess, Keys
<1>3. \A m \in 1..n : a[m] \in Numbers /\ b[m] \in Numbers /\ c[m] \in Numbers
  BY DEF Keys
<1>4. CASE i < k
  <2>1. Less(a[i], c[i]) /\ \A j \in 1..(i - 1) : a[j] = c[j]
    BY <1>1, <1>2, <1>4
  <2> QED BY <2>1 DEF KeyLess, Keys
<1>5. CASE i = k
  <2>1. Less(a[i], c[i]) /\ \A j \in 1..(i - 1) : a[j] = c[j]
    BY <1>1, <1>2, <1>3, <1>5, LessTransitive
  <2> QED BY <2>1 DEF KeyLess, Keys
<1>6. CASE k < i
  <2>1. Less(a[k], c[k]) /\ \A j \in 1..(k - 1) : a[j] = c[j]
    BY <1>1, <1>2, <1>6
  <2> QED BY <2>1 DEF KeyLess, Keys
<1> QED BY <1>4, <1>5, <1>6

LEMMA KeyTotal ==
  ASSUME NEW n \in Nat, NEW a \in Keys(n), NEW b \in Keys(n), a # b
  PROVE  KeyLess(a, b) \/ KeyLess(b, a)
<1> DEFINE D == {m \in 1..n : a[m] # b[m]}
<1>1. D # {} /\ D \in SUBSET Nat
  BY DEF Keys
<1>2. PICK m \in D : \A l \in D : m <= l
  BY <1>1, LeastNatural
<1>3. m \in 1..n /\ a[m] # b[m] /\ \A j \in 1..(m - 1) : a[j] = b[j]
  BY <1>2
<1>4. Less(a[m], b[m]) \/ Less(b[m], a[m])
  BY <1>3, LessTotal DEF Keys
<1> QED BY <1>3, <1>4 DEF KeyLess, Keys

(* A finite set of keys has a greatest one: max() of a list of candidates. *)
LEMMA GreatestKey ==
  ASSUME NEW n \in Nat, NEW S, IsFiniteSet(S), S # {}, NEW key \in [S -> Keys(n)]
  PROVE  \E c \in S : \A d \in S : ~KeyLess(key[c], key[d])
<1> DEFINE R == {pair \in S \X S : KeyLess(key[pair[1]], key[pair[2]])}
<1>1. \A x, y \in S : <<x, y>> \in R <=> KeyLess(key[x], key[y])
  OBVIOUS
<1>2. StrictOrder(R, S)
  <2> HIDE DEF R
  <2> QED BY <1>1, KeyIrreflexive, KeyTransitive DEF StrictOrder
<1> HIDE DEF R
<1>3. PICK c \in S : \A d \in S : <<c, d>> \notin R
  BY <1>2, MaximalMember
<1> QED BY <1>1, <1>3

-----------------------------------------------------------------------------
(* Candidates.                                                             *)

Stages == {"alpha", "beta", "pre", "rc", "plain", "r"}

IsVersion(v) == v.core \in Numbers /\ v.stage \in Stages /\ v.serial \in Int

IsCandidate(c) ==
  /\ c.path \in Int /\ c.digits \in Numbers /\ c.kernel \in Numbers
  /\ c.project # None => IsVersion(c.project)

LEMMA PadType ==
  ASSUME NEW s \in Numbers, NEW n \in Nat
  PROVE  Pad(s, n) \in Numbers /\ Len(Pad(s, n)) = n
         /\ \A i \in 1..n : Pad(s, n)[i] = IF i \in 1..Len(s) THEN s[i] ELSE 0
<1>1. DOMAIN s = 1..Len(s) /\ \A i \in 1..Len(s) : s[i] \in Int
  BY DEF Numbers
<1>2. Pad(s, n) \in [1..n -> Int]
  BY <1>1 DEF Pad
<1> QED BY <1>1, <1>2 DEF Pad, Numbers

(* The key of a version has eight numbers, its stage and its serial.       *)
LEMMA ProjectKeyType ==
  ASSUME NEW v, v # None => IsVersion(v)
  PROVE  ProjectVersionKey(v) \in Numbers /\ Len(ProjectVersionKey(v)) = 10
<1>1. <<>> \in Numbers
  BY DEF Numbers
<1>2. CASE v = None \/ v.core = <<>>
  BY <1>1, <1>2, PadType DEF ProjectVersionKey
<1>3. CASE v # None /\ v.core # <<>>
  <2> DEFINE end == <<StageRank[v.stage], v.serial>>
  <2>1. end \in Seq(Int) /\ Len(end) = 2
    BY <1>3 DEF IsVersion, Stages, StageRank
  <2>2. Pad(v.core, 8) \in Seq(Int) /\ Len(Pad(v.core, 8)) = 8
    BY <1>3, PadType DEF IsVersion, Numbers
  <2>3. ProjectVersionKey(v) = Pad(v.core, 8) \o end
    BY <1>3 DEF ProjectVersionKey
  <2> DEFINE whole == Pad(v.core, 8) \o end
  <2> HIDE DEF end
  <2>4. whole \in Seq(Int) /\ Len(whole) = Len(Pad(v.core, 8)) + Len(end)
    BY <2>1, <2>2, ConcatProperties, Zenon
  <2> HIDE DEF whole
  <2>5. Len(whole) = 8 + 2
    BY <2>1, <2>2, <2>4, Zenon
  <2>6. ProjectVersionKey(v) = whole
    BY <2>3 DEF whole
  <2>7. 8 + 2 = 10
    OBVIOUS
  <2> QED BY <2>4, <2>5, <2>6, <2>7, Zenon DEF Numbers
<1> QED BY <1>2, <1>3

LEMMA LatestKeyType ==
  ASSUME NEW c, IsCandidate(c)
  PROVE  LatestKey(c) \in Keys(3)
<1> DEFINE a == IF c.project # None THEN ProjectVersionKey(c.project) ELSE c.digits
           b == IF c.kernel # <<>> THEN c.kernel ELSE <<0>>
           d == <<c.path>>
<1>1. a \in Numbers /\ b \in Numbers /\ d \in Numbers
  BY ProjectKeyType DEF IsCandidate, Numbers
<1>2. LatestKey(c) = <<a, b, d>>
  BY DEF LatestKey
<1> HIDE DEF a, b, d
<1> QED BY <1>1, <1>2 DEF Keys

(* A number put before three others.                                       *)
LEMMA Prepended ==
  ASSUME NEW N, NEW x \in N, NEW a \in N, NEW b \in N, NEW d \in N
  PROVE  <<x>> \o <<a, b, d>> = <<x, a, b, d>>
<1> DEFINE front == <<x>>
           rest == <<a, b, d>>
           whole == <<x, a, b, d>>
<1>1. front \in Seq(N) /\ Len(front) = 1 /\ front[1] = x
  OBVIOUS
<1>2. rest \in Seq(N) /\ Len(rest) = 3 /\ rest[1] = a /\ rest[2] = b /\ rest[3] = d
  OBVIOUS
<1>3. /\ whole \in Seq(N) /\ Len(whole) = 4
      /\ whole[1] = x /\ whole[2] = a /\ whole[3] = b /\ whole[4] = d
  OBVIOUS
<1> HIDE DEF front, rest, whole
<1>4. /\ front \o rest \in Seq(N) /\ Len(front \o rest) = Len(front) + Len(rest)
      /\ \A i \in 1..(Len(front) + Len(rest)) :
           (front \o rest)[i] = IF i <= Len(front) THEN front[i] ELSE rest[i - Len(front)]
  BY <1>1, <1>2, ConcatProperties, Zenon
<1> DEFINE all == front \o rest
<1>5. /\ all \in Seq(N) /\ Len(all) = Len(front) + Len(rest)
      /\ \A i \in 1..(Len(front) + Len(rest)) :
           all[i] = IF i <= Len(front) THEN front[i] ELSE rest[i - Len(front)]
  BY <1>4
<1> HIDE DEF all
<1>6. Len(all) = 4 /\ \A i \in 1..4 : all[i] = IF i <= 1 THEN front[i] ELSE rest[i - 1]
  BY <1>1, <1>2, <1>5
<1>7. all[1] = x /\ all[2] = a /\ all[3] = b /\ all[4] = d
  <2>1. all[1] = front[1] /\ all[2] = rest[2 - 1] /\ all[3] = rest[3 - 1] /\ all[4] = rest[4 - 1]
    BY <1>6
  <2> QED BY <1>1, <1>2, <2>1
<1>8. \A i \in 1..4 : all[i] = whole[i]
  BY <1>3, <1>7
<1>9. all = whole
  BY <1>3, <1>5, <1>6, <1>8, SeqEqual
<1> QED BY <1>9 DEF all, front, rest, whole

LEMMA CompatibleKeyType ==
  ASSUME NEW c, IsCandidate(c), NEW target
  PROVE  /\ CompatibleKey(c, target) \in Keys(4)
         /\ CompatibleKey(c, target)[1] = <<Compatibility(c.kernel, target)>>
         /\ \A i \in 1..3 : CompatibleKey(c, target)[i + 1] = LatestKey(c)[i]
<1> DEFINE a == IF c.project # None THEN ProjectVersionKey(c.project) ELSE c.digits
           b == IF c.kernel # <<>> THEN c.kernel ELSE <<0>>
           d == <<c.path>>
           x == <<Compatibility(c.kernel, target)>>
<1>1. Compatibility(c.kernel, target) \in Int
  BY DEF Compatibility
<1>2. a \in Numbers /\ b \in Numbers /\ d \in Numbers /\ x \in Numbers
  BY <1>1, ProjectKeyType DEF IsCandidate, Numbers
<1>3. LatestKey(c) = <<a, b, d>> /\ CompatibleKey(c, target) = <<x>> \o LatestKey(c)
  BY DEF LatestKey, CompatibleKey
<1> HIDE DEF a, b, d, x
<1>4. CompatibleKey(c, target) = <<x, a, b, d>>
  BY <1>2, <1>3, Prepended
<1>5. \A i \in 1..3 : <<x, a, b, d>>[i + 1] = <<a, b, d>>[i]
  OBVIOUS
<1>6. <<x, a, b, d>> \in Keys(4) /\ <<x, a, b, d>>[1] = x
  BY <1>2 DEF Keys
<1> QED BY <1>3, <1>4, <1>5, <1>6 DEF x

(* max() of candidates is one of them, and none is above it.               *)
LEMMA LatestGreatest ==
  ASSUME NEW S, IsFiniteSet(S), S # {}, \A c \in S : IsCandidate(c)
  PROVE  /\ Latest(S) \in S
         /\ \A d \in S : ~KeyLess(LatestKey(Latest(S)), LatestKey(d))
<1> DEFINE key == [c \in S |-> LatestKey(c)]
<1>1. key \in [S -> Keys(3)]
  BY LatestKeyType
<1>2. PICK c \in S : \A d \in S : ~KeyLess(key[c], key[d])
  <2> HIDE DEF key
  <2> QED BY <1>1, GreatestKey
<1>3. \A d \in S : ~KeyLess(LatestKey(c), LatestKey(d))
  BY <1>2
<1> QED BY <1>3 DEF Latest, Largest

LEMMA MostCompatibleGreatest ==
  ASSUME NEW S, IsFiniteSet(S), S # {}, \A c \in S : IsCandidate(c), NEW target
  PROVE  /\ MostCompatible(S, target) \in S
         /\ \A d \in S : ~KeyLess(CompatibleKey(MostCompatible(S, target), target),
                                  CompatibleKey(d, target))
<1> DEFINE key == [c \in S |-> CompatibleKey(c, target)]
<1>1. key \in [S -> Keys(4)]
  BY CompatibleKeyType
<1>2. PICK c \in S : \A d \in S : ~KeyLess(key[c], key[d])
  <2> HIDE DEF key
  <2> QED BY <1>1, GreatestKey
<1>3. \A d \in S : ~KeyLess(CompatibleKey(c, target), CompatibleKey(d, target))
  BY <1>2
<1> QED BY <1>3 DEF MostCompatible, Largest

(* Whatever files a component's patterns find, as long as they find any,   *)
(* latest_project_candidates() keeps some: there is a release than which   *)
(* no other is newer.                                                      *)
THEOREM NewestReleaseExists ==
  ASSUME NEW S, IsFiniteSet(S), S # {}, \A c \in S : IsCandidate(c)
  PROVE  /\ LatestProjectCandidates(S) \in SUBSET S
         /\ LatestProjectCandidates(S) # {}
<1> DEFINE V == {c \in S : c.project # None}
           R == {pair \in V \X V : Less(ProjectVersionKey(pair[1].project),
                                        ProjectVersionKey(pair[2].project))}
<1>1. \A c \in V : ProjectVersionKey(c.project) \in Numbers
  BY ProjectKeyType DEF IsCandidate
<1>2. \A x, y \in V : <<x, y>> \in R <=> Less(ProjectVersionKey(x.project),
                                              ProjectVersionKey(y.project))
  OBVIOUS
<1>3. V # {} => \E c \in V : \A d \in V : ~Less(ProjectVersionKey(c.project),
                                                ProjectVersionKey(d.project))
  <2>1. IsFiniteSet(V)
    BY FS_Subset
  <2> HIDE DEF V, R
  <2>2. StrictOrder(R, V)
    BY <1>1, <1>2, LessIrreflexive, LessTransitive DEF StrictOrder
  <2> QED BY <1>2, <2>1, <2>2, MaximalMember
<1> QED BY <1>3 DEF LatestProjectCandidates

(* What latest_project_candidates() keeps are variants of one release.     *)
LEMMA NewestReleaseOne ==
  ASSUME NEW S, \A c \in S : IsCandidate(c),
         NEW c \in LatestProjectCandidates(S), NEW d \in LatestProjectCandidates(S)
  PROVE  /\ c.project = None <=> d.project = None
         /\ ProjectVersionKey(c.project) = ProjectVersionKey(d.project)
<1>1. c \in S /\ d \in S /\ (c.project = None <=> d.project = None)
  BY DEF LatestProjectCandidates
<1>2. CASE c.project = None
  BY <1>1, <1>2
<1>3. CASE c.project # None
  <2>1. /\ ~Less(ProjectVersionKey(c.project), ProjectVersionKey(d.project))
        /\ ~Less(ProjectVersionKey(d.project), ProjectVersionKey(c.project))
    BY <1>1, <1>3 DEF LatestProjectCandidates
  <2>2. ProjectVersionKey(c.project) \in Numbers /\ ProjectVersionKey(d.project) \in Numbers
    BY <1>1, <1>3, ProjectKeyType DEF IsCandidate
  <2> QED BY <1>1, <2>1, <2>2, LessTotal
<1> QED BY <1>2, <1>3

LEMMA KernelsPadded ==
  ASSUME NEW k \in Numbers
  PROVE  Pad(k, 3)[1] \in Int /\ Pad(k, 3)[2] \in Int /\ Pad(k, 3)[3] \in Int
<1>1. Pad(k, 3) \in Numbers /\ Len(Pad(k, 3)) = 3
  BY PadType
<1> QED BY <1>1 DEF Numbers

LEMMA DistanceTypes ==
  ASSUME NEW k \in Numbers, NEW t \in Numbers
  PROVE  ComponentDistance(k, t) \in Nat /\ OrdinalDistance(k, t) \in Nat
BY KernelsPadded DEF ComponentDistance, OrdinalDistance, KernelOrdinal, Abs

(* Of finitely many, some are the nearest.                                 *)
LEMMA LeastDistance ==
  ASSUME NEW S, IsFiniteSet(S), S # {}, NEW distance \in [S -> Nat],
         NEW near \in SUBSET S, \A c \in S : c \in near <=> \A d \in S : distance[c] <= distance[d]
  PROVE  IsFiniteSet(near) /\ near # {}
<1> DEFINE T == {n \in Nat : \E c \in S : n = distance[c]}
<1>1. T \in SUBSET Nat /\ T # {}
  OBVIOUS
<1>2. PICK n \in T : \A m \in T : n <= m
  <2> HIDE DEF T
  <2> QED BY <1>1, LeastNatural
<1>3. \E c \in S : \A d \in S : distance[c] <= distance[d]
  BY <1>2
<1> QED BY <1>3, FS_Subset

LEMMA NearestExist ==
  ASSUME NEW S, IsFiniteSet(S), S # {}, \A c \in S : c.kernel \in Numbers, NEW target \in Numbers,
         NEW near \in SUBSET S,
         \/ \A c \in S : c \in near <=> \A d \in S : ComponentDistance(c.kernel, target)
                                                       <= ComponentDistance(d.kernel, target)
         \/ \A c \in S : c \in near <=> \A d \in S : OrdinalDistance(c.kernel, target)
                                                       <= OrdinalDistance(d.kernel, target)
  PROVE  IsFiniteSet(near) /\ near # {}
<1> DEFINE f == [c \in S |-> ComponentDistance(c.kernel, target)]
           g == [c \in S |-> OrdinalDistance(c.kernel, target)]
<1>1. f \in [S -> Nat] /\ g \in [S -> Nat]
  BY DistanceTypes
<1>2. \/ \A c \in S : c \in near <=> \A d \in S : f[c] <= f[d]
      \/ \A c \in S : c \in near <=> \A d \in S : g[c] <= g[d]
  OBVIOUS
<1> HIDE DEF f, g
<1>3. CASE \A c \in S : c \in near <=> \A d \in S : f[c] <= f[d]
  BY <1>1, <1>3, LeastDistance
<1>4. CASE \A c \in S : c \in near <=> \A d \in S : g[c] <= g[d]
  BY <1>1, <1>4, LeastDistance
<1> QED BY <1>2, <1>3, <1>4

(* As soon as one variant names a kernel, there is a nearest one to port   *)
(* from, by the distance of either resolver, and it names a kernel.        *)
THEOREM NearestMember ==
  ASSUME NEW S, IsFiniteSet(S), \A c \in S : IsCandidate(c), \E c \in S : c.kernel # <<>>,
         NEW target \in Numbers
  PROVE  /\ Nearest(S, target, OrdinalDistance) \in S
         /\ Nearest(S, target, ComponentDistance) \in S
         /\ Nearest(S, target, OrdinalDistance).kernel # <<>>
         /\ Nearest(S, target, ComponentDistance).kernel # <<>>
<1> DEFINE known == {c \in S : c.kernel # <<>>}
           near1 == {c \in known : \A d \in known :
                       ComponentDistance(c.kernel, target) <= ComponentDistance(d.kernel, target)}
           near2 == {c \in known : \A d \in known :
                       OrdinalDistance(c.kernel, target) <= OrdinalDistance(d.kernel, target)}
<1>1. /\ Nearest(S, target, ComponentDistance) = Latest(near1)
      /\ Nearest(S, target, OrdinalDistance) = Latest(near2)
  BY DEF Nearest
<1>2. IsFiniteSet(known) /\ known # {} /\ known \subseteq S
  BY FS_Subset
<1>3. \A c \in known : IsCandidate(c) /\ c.kernel \in Numbers /\ c.kernel # <<>>
  BY DEF IsCandidate
<1> HIDE DEF known
<1>4. /\ near1 \in SUBSET known /\ near2 \in SUBSET known
      /\ \A c \in known : c \in near1 <=> \A d \in known : ComponentDistance(c.kernel, target)
                                                             <= ComponentDistance(d.kernel, target)
      /\ \A c \in known : c \in near2 <=> \A d \in known : OrdinalDistance(c.kernel, target)
                                                             <= OrdinalDistance(d.kernel, target)
  OBVIOUS
<1> HIDE DEF near1, near2
<1>5. IsFiniteSet(near1) /\ near1 # {}
  BY <1>2, <1>3, <1>4, NearestExist
<1>6. IsFiniteSet(near2) /\ near2 # {}
  BY <1>2, <1>3, <1>4, NearestExist
<1>7. Latest(near1) \in near1
  BY <1>3, <1>5, <1>4, LatestGreatest
<1>8. Latest(near2) \in near2
  BY <1>3, <1>6, <1>4, LatestGreatest
<1> QED BY <1>1, <1>2, <1>3, <1>7, <1>8, <1>4

-----------------------------------------------------------------------------
(* The choice of the entry point for a series and that of the audit for    *)
(* the exact kernel.                                                       *)

DistinctPaths(S) == \A c, d \in S : c.path = d.path => c = d

\* Nothing above it: it is the one max() returns.
LEMMA LatestUnique ==
  ASSUME NEW S, \A c \in S : IsCandidate(c), DistinctPaths(S), NEW c \in S,
         \A d \in S : ~KeyLess(LatestKey(c), LatestKey(d))
  PROVE  Latest(S) = c
<1> DEFINE m == Latest(S)
<1>1. m \in S /\ \A d \in S : ~KeyLess(LatestKey(m), LatestKey(d))
  BY DEF Latest, Largest
<1> HIDE DEF m
<1>2. LatestKey(m) = LatestKey(c)
  BY <1>1, 3 \in Nat, LatestKeyType, KeyTotal
<1>3. m.path = c.path
  BY <1>2 DEF LatestKey
<1>4. m = c
  BY <1>1, <1>3 DEF DistinctPaths
<1> QED BY <1>4 DEF m

\* Among candidates for one kernel the compatibility decides nothing.
LEMMA MostCompatibleOfOne ==
  ASSUME NEW S, IsFiniteSet(S), S # {}, \A c \in S : IsCandidate(c), DistinctPaths(S),
         \A c, d \in S : c.kernel = d.kernel, NEW target
  PROVE  MostCompatible(S, target) = Latest(S)
<1> DEFINE m == MostCompatible(S, target)
<1>1. m \in S /\ \A d \in S : ~KeyLess(CompatibleKey(m, target), CompatibleKey(d, target))
  BY MostCompatibleGreatest
<1> HIDE DEF m
<1>2. ASSUME NEW d \in S, KeyLess(LatestKey(m), LatestKey(d)) PROVE FALSE
  <2> DEFINE a == LatestKey(m)  b == LatestKey(d)
             x == CompatibleKey(m, target)  y == CompatibleKey(d, target)
  <2>1. /\ a \in Keys(3) /\ b \in Keys(3) /\ x \in Keys(4) /\ y \in Keys(4)
        /\ x[1] = y[1]
        /\ \A i \in 1..3 : x[i + 1] = a[i] /\ y[i + 1] = b[i]
    <3>1. m.kernel = d.kernel
      BY <1>1
    <3> QED BY <1>1, <3>1, LatestKeyType, CompatibleKeyType
  <2>2. KeyLess(a, b) /\ ~KeyLess(x, y)
    BY <1>1, <1>2
  <2> HIDE DEF a, b, x, y
  <2>3. PICK i \in 1..3 : (\A j \in 1..(i - 1) : a[j] = b[j]) /\ Less(a[i], b[i])
    BY <2>1, <2>2 DEF KeyLess, Keys
  <2>4. \A j \in 1..i : x[j] = y[j]
    <3> SUFFICES ASSUME NEW j \in 1..i PROVE x[j] = y[j]
      OBVIOUS
    <3>1. CASE j = 1
      BY <2>1, <3>1
    <3>2. CASE j # 1
      <4>1. j - 1 \in 1..(i - 1) /\ j - 1 \in 1..3 /\ (j - 1) + 1 = j
        BY <3>2
      <4> QED BY <2>1, <2>3, <4>1
    <3> QED BY <3>1, <3>2
  <2>5. i + 1 \in DOMAIN y /\ (i + 1) - 1 = i /\ Less(x[i + 1], y[i + 1])
    BY <2>1, <2>3 DEF Keys
  <2> QED BY <2>2, <2>4, <2>5 DEF KeyLess
<1>3. Latest(S) = m
  BY <1>1, <1>2, LatestUnique
<1> QED BY <1>3 DEF m

IsKernel(k) == k \in Seq(Nat) /\ Len(k) \in {2, 3}

LEMMA SeriesOf ==
  ASSUME NEW k, IsKernel(k)
  PROVE  /\ Series(k) \in Seq(Nat) /\ Len(Series(k)) = 2
         /\ Series(k)[1] = k[1] /\ Series(k)[2] = k[2]
         /\ IsKernel(Series(k)) /\ Series(Series(k)) = Series(k)
         /\ Len(k) = 2 => Series(k) = k
<1>1. \A s \in Seq(Nat) : Len(s) \in {2, 3} =>
        /\ SubSeq(s, 1, 2) \in Seq(Nat) /\ Len(SubSeq(s, 1, 2)) = 2
        /\ SubSeq(s, 1, 2)[1] = s[1] /\ SubSeq(s, 1, 2)[2] = s[2]
        /\ Len(s) = 2 => SubSeq(s, 1, 2) = s
  OBVIOUS
<1> QED BY <1>1 DEF Series, IsKernel

LEMMA SameNatives ==
  ASSUME NEW K, IsKernel(K),
         NEW S, \A c \in S : c.kernel = <<>> \/ (IsKernel(c.kernel) /\ Len(c.kernel) = 2)
  PROVE  /\ NativeSeries(S, Series(K)) = NativeSeries(S, K)
         /\ \A c \in NativeSeries(S, K) : c.kernel = Series(K)
<1>1. K # <<>> /\ Series(K) # <<>> /\ Series(Series(K)) = Series(K)
  <2>1. Len(K) \in {2, 3} /\ Len(Series(K)) = 2 /\ Len(<<>>) \notin {2, 3} /\ Len(<<>>) # 2
    BY SeriesOf DEF IsKernel
  <2> QED BY <2>1, SeriesOf, Zenon
<1>2. \A c \in S : c.kernel # <<>> => Series(c.kernel) = c.kernel
  BY SeriesOf
<1>3. ASSUME NEW c \in S
      PROVE  /\ Compatibility(c.kernel, Series(K)) >= 2 <=> c.kernel = Series(K)
             /\ Compatibility(c.kernel, K) >= 2 <=> c.kernel = Series(K)
  <2>1. 3 >= 2 /\ 2 >= 2 /\ ~(0 >= 2)
    OBVIOUS
  <2>2. CASE c.kernel = <<>>
    BY <1>1, <2>1, <2>2 DEF Compatibility
  <2>3. CASE c.kernel # <<>>
    BY <1>1, <1>2, <2>1, <2>3 DEF Compatibility
  <2> QED BY <2>2, <2>3
<1> QED BY <1>3 DEF NativeSeries

PatchLevel(k) == IF Len(k) = 3 THEN k[3] ELSE 0

LEMMA KernelParts ==
  ASSUME NEW k, IsKernel(k)
  PROVE  k[1] \in Nat /\ k[2] \in Nat /\ PatchLevel(k) \in Nat
BY DEF IsKernel, PatchLevel

LEMMA OrdinalOf ==
  ASSUME NEW k, IsKernel(k)
  PROVE  KernelOrdinal(k) = k[1] * 1000000 + k[2] * 1000 + PatchLevel(k)
<1>1. /\ k \in Numbers /\ DOMAIN k = 1..Len(k) /\ Len(k) \in {2, 3}
      /\ \A i \in 1..Len(k) : k[i] \in Nat
  BY DEF IsKernel, Numbers
<1>2. \A i \in 1..3 : Pad(k, 3)[i] = IF i \in 1..Len(k) THEN k[i] ELSE 0
  BY <1>1, 3 \in Nat, PadType
<1>3. Pad(k, 3)[1] = k[1] /\ Pad(k, 3)[2] = k[2] /\ Pad(k, 3)[3] = PatchLevel(k)
  BY <1>1, <1>2 DEF PatchLevel
<1> QED BY <1>1, <1>3 DEF KernelOrdinal, PatchLevel

\* Along a line with points 1000 apart, less than 500 to the right of one of
\* them changes nothing but which of two equally near ones is nearer.
\* How far a point is from the one C to the right of the origin.
Off(x, C) == Abs(1000 * x - C)

LEMMA Refined ==
  \A C \in 0..499 : \A x, y \in Int :
    Off(x, C) <= Off(y, C) => Off(x, 0) <= Off(y, 0)
BY DEF Abs, Off

LEMMA Mirrored ==
  \A C \in 0..499 : \A x, y, z \in Int :
    Off(x, 0) = Off(y, 0) /\ y <= x /\ Off(y, C) <= Off(z, C)
      => Off(x, C) <= Off(z, C)
BY DEF Abs, Off

\* How far a kernel is to the right of the series of another one, in series.
Beyond(k, K) == (k[1] - K[1]) * 1000 + (k[2] - K[2])

LEMMA OrdinalsBeyond ==
  ASSUME NEW K, IsKernel(K), NEW k, IsKernel(k), Len(k) = 2
  PROVE  /\ Beyond(k, K) \in Int /\ PatchLevel(K) \in Nat
         /\ OrdinalDistance(k, Series(K)) = Off(Beyond(k, K), 0)
         /\ OrdinalDistance(k, K) = Off(Beyond(k, K), PatchLevel(K))
<1> DEFINE T == Series(K)
<1>1. /\ K[1] \in Nat /\ K[2] \in Nat /\ PatchLevel(K) \in Nat
      /\ KernelOrdinal(K) = K[1] * 1000000 + K[2] * 1000 + PatchLevel(K)
  BY KernelParts, OrdinalOf, SMT
<1>2. /\ k[1] \in Nat /\ k[2] \in Nat /\ PatchLevel(k) = 0
      /\ KernelOrdinal(k) = k[1] * 1000000 + k[2] * 1000 + PatchLevel(k)
  <2>1. PatchLevel(k) = 0
    BY DEF PatchLevel
  <2> QED BY <2>1, KernelParts, OrdinalOf, SMT
<1>3. /\ T[1] = K[1] /\ T[2] = K[2] /\ PatchLevel(T) = 0
      /\ KernelOrdinal(T) = T[1] * 1000000 + T[2] * 1000 + PatchLevel(T)
  <2>1. IsKernel(T) /\ Len(T) = 2 /\ T[1] = K[1] /\ T[2] = K[2]
    BY SeriesOf
  <2> HIDE DEF T
  <2>2. PatchLevel(T) = 0
    BY <2>1 DEF PatchLevel
  <2> QED BY <2>1, <2>2, OrdinalOf, SMT
<1> HIDE DEF T
<1>4. /\ Beyond(k, K) \in Int
      /\ KernelOrdinal(k) - KernelOrdinal(T) = 1000 * Beyond(k, K)
      /\ KernelOrdinal(k) - KernelOrdinal(K) = 1000 * Beyond(k, K) - PatchLevel(K)
  BY <1>1, <1>2, <1>3, SMT DEF Beyond
<1>5. /\ OrdinalDistance(k, T) = Off(Beyond(k, K), 0)
      /\ OrdinalDistance(k, K) = Off(Beyond(k, K), PatchLevel(K))
  BY <1>4 DEF OrdinalDistance, Off
<1> QED BY <1>1, <1>4, <1>5 DEF T

\* What is further to the right is a higher kernel while minor numbers have
\* three digits.
LEMMA HigherSeries ==
  ASSUME NEW k, IsKernel(k), Len(k) = 2, NEW l, IsKernel(l), Len(l) = 2,
         k[2] < 1000, l[2] < 1000,
         NEW K, IsKernel(K), Beyond(k, K) < Beyond(l, K)
  PROVE  Less(k, l)
<1>1. /\ k[1] \in Nat /\ k[2] \in Nat /\ l[1] \in Nat /\ l[2] \in Nat /\ DOMAIN l = 1..2
      /\ K[1] \in Nat /\ K[2] \in Nat
  BY KernelParts DEF IsKernel
<1>3. k[1] < l[1] \/ (k[1] = l[1] /\ k[2] < l[2])
  BY <1>1, SMT DEF Beyond
<1>4. CASE k[1] < l[1]
  <2>1. 1 \in 1..2 /\ 1 <= Len(k) + 1 /\ \A j \in 1..(1 - 1) : k[j] = l[j]
    OBVIOUS
  <2> QED BY <1>1, <1>4, <2>1 DEF Less
<1>5. CASE k[1] = l[1] /\ k[2] < l[2]
  <2>1. 2 \in 1..2 /\ 2 <= Len(k) + 1 /\ \A j \in 1..(2 - 1) : k[j] = l[j]
    BY <1>5
  <2> QED BY <1>1, <1>5, <2>1 DEF Less
<1> QED BY <1>3, <1>4, <1>5

\* Variants that name a kernel name its series, with a minor number of at most
\* three digits, and one for a higher series comes after one for a lower.
SeriesVariants(S) ==
  \A c \in S : \/ c.kernel = <<>>
               \/ IsKernel(c.kernel) /\ Len(c.kernel) = 2 /\ c.kernel[2] < 1000

KeysFollowKernels(S) ==
  \A c, d \in S : c.kernel # <<>> /\ d.kernel # <<>> /\ Less(c.kernel, d.kernel)
                    => KeyLess(LatestKey(c), LatestKey(d))

(* The nearest variant to a series is the nearest one to a kernel of it:   *)
(* for variants that name a series, a kernel whose patch level is below    *)
(* 500, and minor numbers below 1000, as the distance puts the three       *)
(* numbers side by side with three digits each.                            *)
THEOREM SameNearest ==
  ASSUME NEW K, IsKernel(K), PatchLevel(K) \in 0..499,
         NEW S, IsFiniteSet(S), \A c \in S : IsCandidate(c), DistinctPaths(S),
         SeriesVariants(S), KeysFollowKernels(S), \E c \in S : c.kernel # <<>>
  PROVE  Nearest(S, Series(K), OrdinalDistance) = Nearest(S, K, OrdinalDistance)
<1> DEFINE known == {c \in S : c.kernel # <<>>}
           T == Series(K)
           nearT == {c \in known : \A d \in known :
                       OrdinalDistance(c.kernel, T) <= OrdinalDistance(d.kernel, T)}
           nearK == {c \in known : \A d \in known :
                       OrdinalDistance(c.kernel, K) <= OrdinalDistance(d.kernel, K)}
           m == Latest(nearT)
           x == [c \in known |-> Beyond(c.kernel, K)]
           C == PatchLevel(K)
<1>1. /\ Nearest(S, T, OrdinalDistance) = Latest(nearT)
      /\ Nearest(S, K, OrdinalDistance) = Latest(nearK)
  BY DEF Nearest
<1>2. IsFiniteSet(known) /\ known # {} /\ known \subseteq S
  BY FS_Subset
<1>3. C \in 0..499
  OBVIOUS
<1>4. IsKernel(Series(K)) /\ Series(K) \in Numbers /\ K \in Numbers
  BY SeriesOf DEF IsKernel, Numbers
<1>13. \A c \in known : c \in S /\ c.kernel # <<>> /\ IsCandidate(c) /\ c.kernel \in Numbers
  BY DEF IsCandidate
<1>5. \A c \in known :
        /\ x[c] \in Int
        /\ OrdinalDistance(c.kernel, T) = Off(x[c], 0)
        /\ OrdinalDistance(c.kernel, K) = Off(x[c], C)
  <2> SUFFICES ASSUME NEW c \in known
               PROVE  /\ x[c] \in Int
                      /\ OrdinalDistance(c.kernel, T) = Off(x[c], 0)
                      /\ OrdinalDistance(c.kernel, K) = Off(x[c], C)
    OBVIOUS
  <2>1. IsKernel(c.kernel) /\ Len(c.kernel) = 2
    BY DEF SeriesVariants
  <2>2. /\ x[c] = Beyond(c.kernel, K) /\ x[c] \in Int
        /\ OrdinalDistance(c.kernel, T) = Off(x[c], 0)
        /\ OrdinalDistance(c.kernel, K) = Off(x[c], C)
    BY <2>1, OrdinalsBeyond
  <2> QED BY <2>2
<1>6. \A c, d \in known : x[c] < x[d] => Less(c.kernel, d.kernel)
  <2> SUFFICES ASSUME NEW c \in known, NEW d \in known, x[c] < x[d]
               PROVE  Less(c.kernel, d.kernel)
    OBVIOUS
  <2>1. /\ IsKernel(c.kernel) /\ Len(c.kernel) = 2 /\ c.kernel[2] < 1000
        /\ IsKernel(d.kernel) /\ Len(d.kernel) = 2 /\ d.kernel[2] < 1000
    BY DEF SeriesVariants
  <2>2. Beyond(c.kernel, K) < Beyond(d.kernel, K)
    OBVIOUS
  <2> QED BY <2>1, <2>2, HigherSeries
<1>7. /\ IsFiniteSet(nearT) /\ nearT # {} /\ nearT \subseteq known
      /\ IsFiniteSet(nearK) /\ nearK # {} /\ nearK \subseteq known
  <2>1. \A c \in known : c.kernel \in Numbers
    BY <1>13
  <2> HIDE DEF known, T
  <2>2. /\ nearT \in SUBSET known /\ nearK \in SUBSET known
        /\ \A c \in known : c \in nearT <=> \A d \in known :
             OrdinalDistance(c.kernel, T) <= OrdinalDistance(d.kernel, T)
        /\ \A c \in known : c \in nearK <=> \A d \in known :
             OrdinalDistance(c.kernel, K) <= OrdinalDistance(d.kernel, K)
    OBVIOUS
  <2>3. T \in Numbers
    BY <1>4 DEF T
  <2> HIDE DEF nearT, nearK
  <2>4. IsFiniteSet(nearT) /\ nearT # {}
    BY <1>2, <2>1, <2>2, <2>3, NearestExist
  <2>5. IsFiniteSet(nearK) /\ nearK # {}
    BY <1>2, <1>4, <2>1, <2>2, NearestExist
  <2> QED BY <2>2, <2>4, <2>5
<1> HIDE DEF known, x, C, T
<1>8. \A c \in known : /\ c \in nearT <=> \A d \in known : Off(x[c], 0) <= Off(x[d], 0)
                       /\ c \in nearK <=> \A d \in known : Off(x[c], C) <= Off(x[d], C)
  BY <1>5
<1> HIDE DEF nearT, nearK
<1>9. m \in nearT /\ \A d \in nearT : ~KeyLess(LatestKey(m), LatestKey(d))
  <2>1. \A c \in nearT : IsCandidate(c)
    BY <1>7, <1>13
  <2> QED BY <1>7, <2>1, LatestGreatest
<1> HIDE DEF m
<1>10. nearK \subseteq nearT
  <2> SUFFICES ASSUME NEW c \in nearK, NEW d \in known
               PROVE  Off(x[c], 0) <= Off(x[d], 0)
    BY <1>7, <1>8
  <2>1. Off(x[c], C) <= Off(x[d], C) /\ c \in known
    BY <1>7, <1>8
  <2>2. x[c] \in Int /\ x[d] \in Int
    BY <1>5, <2>1
  <2> QED BY <1>3, <2>1, <2>2, Refined, Zenon
<1>11. m \in nearK
  <2>1. PICK c \in nearK : TRUE
    BY <1>7
  <2>2. c \in known /\ m \in known /\ c \in nearT
    BY <1>7, <1>9, <1>10
  <2>3. Off(x[c], 0) = Off(x[m], 0)
    <3>1. Off(x[c], 0) <= Off(x[m], 0) /\ Off(x[m], 0) <= Off(x[c], 0)
      BY <1>8, <1>9, <2>2
    <3> QED BY <1>5, <2>2, <3>1 DEF Abs, Off
  <2>4. ~(x[m] < x[c])
    <3>1. ~KeyLess(LatestKey(m), LatestKey(c))
      BY <1>9, <2>2
    <3>2. c \in S /\ m \in S /\ c.kernel # <<>> /\ m.kernel # <<>>
      BY <2>2 DEF known
    <3> QED BY <1>6, <2>2, <3>1, <3>2 DEF KeysFollowKernels
  <2>5. \A d \in known : Off(x[m], C) <= Off(x[d], C)
    <3> SUFFICES ASSUME NEW d \in known PROVE Off(x[m], C) <= Off(x[d], C)
      OBVIOUS
    <3>1. Off(x[c], C) <= Off(x[d], C)
      BY <1>8, <2>1, <2>2
    <3>2. x[c] \in Int /\ x[m] \in Int /\ x[d] \in Int
      BY <1>5, <2>2
    <3>3. x[c] <= x[m]
      BY <2>4, <3>2
    <3>4. Off(x[m], 0) = Off(x[c], 0)
      BY <2>3
    <3> QED BY <1>3, <3>1, <3>2, <3>3, <3>4, Mirrored, Zenon
  <2> QED BY <1>8, <2>2, <2>5
<1>12. Latest(nearK) = m
  <2>1. \A c \in nearK : IsCandidate(c) /\ c \in S
    BY <1>7, <1>13
  <2>2. DistinctPaths(nearK)
    BY <2>1 DEF DistinctPaths
  <2>3. \A d \in nearK : ~KeyLess(LatestKey(m), LatestKey(d))
    BY <1>9, <1>10
  <2> QED BY <1>11, <2>1, <2>2, <2>3, LatestUnique
<1> QED BY <1>1, <1>12 DEF m, T
===============================================================================
