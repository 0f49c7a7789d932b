--------------------------- MODULE StackTreeProofs ---------------------------
(***************************************************************************)
(* Flooding in a stack, for any number of datapaths, any links between     *)
(* them, redundant ones included, and any numbering of the ports: that all *)
(* who have a path to the root are reached (AllReached), and by a          *)
(* broadcast no more than once (NoDuplicate).                              *)
(*                                                                         *)
(* Three parts: the shortest paths of the graph; which links a settled     *)
(* stack floods on, where the point is that both ends of a link, each by   *)
(* itself, come to the same; and the way of a frame along them.            *)
(***************************************************************************)
EXTENDS StackTree, FiniteSetTheorems, WellFoundedInduction, TLAPS

\* A set of natural numbers has a least element, and Min is it.
LEMMA Least ==
  ASSUME NEW S \in SUBSET Nat, S # {}
  PROVE  \E x \in S : \A y \in S : x <= y
<1> DEFINE R == OpToRel(<, Nat)
<1>1. \A m, n \in Nat : m < n => <<m, n>> \in R
  BY DEF OpToRel
<1>2. IsWellFoundedOn(R, Nat)
  BY NatLessThanWellFounded
<1> HIDE DEF R
<1>3. PICK x \in S : \A y \in S : ~(<<y, x>> \in R)
  BY <1>2, WFMin, Zenon
<1>4. ASSUME NEW y \in S PROVE x <= y
  <2>1. x \in Nat /\ y \in Nat
    OBVIOUS
  <2>2. ~(y < x)
    BY <1>1, <1>3, <2>1
  <2> QED
    BY <2>1, <2>2
<1> QED
  BY <1>4

\* So Min is the least of a set of lengths.
LEMMA MinLeast ==
  ASSUME NEW S \in SUBSET Nat, S # {}
  PROVE  Min(S) \in S /\ \A y \in S : Min(S) =< y
<1>1. \E x \in S : \A y \in S : x =< y
  BY Least
<1> QED
  BY <1>1 DEF Min
-----------------------------------------------------------------------------
\* Datapaths are numbers, and links join two different ones.
LEMMA Parts ==
  /\ NDP \in Nat /\ NDP >= 1 /\ Root \in DP /\ DP \subseteq Nat
  /\ \A g \in SUBSET Link : \A d, e : Adjacent(g, d, e) =>
       Adjacent(g, e, d) /\ d # e /\ d \in DP /\ e \in DP
<1>1. NDP \in Nat /\ Root \in DP /\ DP \subseteq Nat
  BY TreeAssumption DEF DP
<1>2. NDP >= 1
  BY <1>1 DEF DP
<1>3. ASSUME NEW g \in SUBSET Link, NEW d, NEW e, Adjacent(g, d, e)
      PROVE  Adjacent(g, e, d) /\ d # e /\ d \in DP /\ e \in DP
  <2>1. PICK l \in g : {d, e} = {Ends[l].a, Ends[l].z}
    BY <1>3 DEF Adjacent
  <2>2. Ends[l].a \in DP /\ Ends[l].z \in DP /\ Ends[l].a # Ends[l].z
    BY TreeAssumption
  <2>3. {e, d} = {Ends[l].a, Ends[l].z}
    BY <2>1
  <2>4. Adjacent(g, e, d)
    BY <2>3 DEF Adjacent
  <2> QED
    BY <2>1, <2>2, <2>4
<1> QED
  BY <1>1, <1>2, <1>3

\* A datapath has a path of length PathLen and no shorter one, or none.
LEMMA Lengths ==
  ASSUME NEW g \in SUBSET Link, NEW d \in DP
  PROVE  \/ /\ PathLen(g, d) = 0
            /\ \A k \in 0..(NDP - 1) : ~Walk(g, d, k)
         \/ /\ PathLen(g, d) \in 1..NDP
            /\ Walk(g, d, PathLen(g, d) - 1)
            /\ \A k \in 0..(NDP - 1) : Walk(g, d, k) => PathLen(g, d) - 1 =< k
<1> DEFINE hops == {k \in 0..(NDP - 1) : Walk(g, d, k)}
<1>1. PathLen(g, d) = IF hops = {} THEN 0 ELSE 1 + Min(hops)
  BY DEF PathLen, PathLens
<1>2. CASE hops = {}
  BY <1>1, <1>2
<1>3. CASE hops # {}
  <2>1. hops \in SUBSET Nat /\ NDP \in Nat
    BY Parts
  <2>2. Min(hops) \in hops /\ \A y \in hops : Min(hops) =< y
    BY <1>3, <2>1, MinLeast
  <2>3. PathLen(g, d) = 1 + Min(hops)
    BY <1>1, <1>3
  <2>4. Min(hops) \in 0..(NDP - 1) /\ Walk(g, d, Min(hops))
    BY <2>2
  <2>5. PathLen(g, d) \in 1..NDP /\ PathLen(g, d) - 1 = Min(hops)
    BY <2>1, <2>3, <2>4
  <2> QED
    BY <2>2, <2>4, <2>5
<1> QED
  BY <1>2, <1>3

LEMMA LengthType ==
  ASSUME NEW g \in SUBSET Link, NEW d \in DP
  PROVE  PathLen(g, d) \in 0..NDP /\ PathLen(g, d) \in Nat
BY Lengths, Parts

\* Only the root itself is one datapath away.
LEMMA RootLength ==
  ASSUME NEW g \in SUBSET Link, NEW d \in DP
  PROVE  PathLen(g, d) = 1 <=> d = Root
<1>1. ASSUME PathLen(g, d) = 1 PROVE d = Root
  <2>1. Walk(g, d, 0)
    BY <1>1, Lengths
  <2> QED
    BY <2>1 DEF Walk
<1>2. ASSUME d = Root PROVE PathLen(g, d) = 1
  <2> DEFINE f == [i \in 0..0 |-> Root]
  <2>1. f \in [0..0 -> DP] /\ f[0] = d /\ f[0] = Root
    BY <1>2, Parts
  <2>2. 1..0 = {}
    OBVIOUS
  <2> HIDE DEF f
  <2>3. \A i \in 1..0 : Adjacent(g, f[i - 1], f[i])
    BY <2>2
  <2>4. Walk(g, d, 0)
    BY <2>1, <2>3 DEF Walk
  <2>5. 0 \in 0..(NDP - 1)
    BY Parts
  <2>6. PathLen(g, d) \in 1..NDP /\ PathLen(g, d) - 1 =< 0
    BY <2>4, <2>5, Lengths
  <2> QED
    BY <2>6, Parts
<1> QED
  BY <1>1, <1>2

\* The rest of a walk is a walk of the neighbour it goes to first.
LEMMA Shorter ==
  ASSUME NEW g \in SUBSET Link, NEW d \in DP, NEW k \in Nat, k >= 1, Walk(g, d, k)
  PROVE  \E e \in DP : Adjacent(g, d, e) /\ Walk(g, e, k - 1)
<1>1. PICK f \in [0..k -> DP] :
        f[0] = d /\ f[k] = Root /\ \A i \in 1..k : Adjacent(g, f[i - 1], f[i])
  BY DEF Walk
<1> DEFINE h == [i \in 0..(k - 1) |-> f[i + 1]]
<1>2. h \in [0..(k - 1) -> DP]
  <2>1. \A i \in 0..(k - 1) : i + 1 \in 0..k
    OBVIOUS
  <2> QED
    BY <2>1
<1>3. h[0] = f[1] /\ h[k - 1] = Root
  BY <1>1
<1>4. ASSUME NEW i \in 1..(k - 1) PROVE Adjacent(g, h[i - 1], h[i])
  <2>1. i + 1 \in 1..k /\ (i + 1) - 1 = i /\ (i - 1) + 1 = i
    OBVIOUS
  <2>2. h[i - 1] = f[i] /\ h[i] = f[i + 1]
    BY <2>1
  <2>3. Adjacent(g, f[(i + 1) - 1], f[i + 1])
    BY <1>1, <2>1
  <2> QED
    BY <2>1, <2>2, <2>3
<1> HIDE DEF h
<1>5. Walk(g, f[1], k - 1)
  BY <1>2, <1>3, <1>4 DEF Walk
<1>6. Adjacent(g, d, f[1]) /\ f[1] \in DP
  <2>1. 1 \in 1..k /\ 1 - 1 = 0 /\ 1 \in 0..k
    OBVIOUS
  <2>2. Adjacent(g, f[1 - 1], f[1])
    BY <1>1, <2>1
  <2> QED
    BY <1>1, <2>1, <2>2
<1> QED
  BY <1>5, <1>6

\* A walk of a neighbour can be prolonged; it may pass a datapath twice.
LEMMA Longer ==
  ASSUME NEW g \in SUBSET Link, NEW d \in DP, NEW e \in DP, Adjacent(g, d, e),
         NEW k \in Nat, Walk(g, e, k)
  PROVE  Walk(g, d, k + 1)
<1>1. PICK f \in [0..k -> DP] :
        f[0] = e /\ f[k] = Root /\ \A i \in 1..k : Adjacent(g, f[i - 1], f[i])
  BY DEF Walk
<1> DEFINE h == [i \in 0..(k + 1) |-> IF i = 0 THEN d ELSE f[i - 1]]
<1>2. h \in [0..(k + 1) -> DP]
  <2>1. \A i \in 0..(k + 1) : i # 0 => i - 1 \in 0..k
    OBVIOUS
  <2> QED
    BY <2>1
<1>3. h[0] = d /\ h[k + 1] = Root
  BY <1>1
<1>4. ASSUME NEW i \in 1..(k + 1) PROVE Adjacent(g, h[i - 1], h[i])
  <2>1. CASE i = 1
    BY <1>1, <2>1
  <2>2. CASE i # 1
    <3>1. i - 1 \in 1..k /\ i - 1 # 0 /\ i # 0 /\ i \in 0..(k + 1) /\ i - 1 \in 0..(k + 1)
      BY <2>2
    <3>2. h[i - 1] = f[(i - 1) - 1] /\ h[i] = f[i - 1]
      BY <3>1
    <3> QED
      BY <1>1, <3>1, <3>2
  <2> QED
    BY <2>1, <2>2
<1> HIDE DEF h
<1> QED
  BY <1>2, <1>3, <1>4 DEF Walk

\* The next hop is a neighbour that is nearer to the root by one.
LEMMA NextHops ==
  ASSUME NEW g \in SUBSET Link, NEW d \in DP, PathLen(g, d) # 0, d # Root
  PROVE  /\ PathLen(g, d) >= 2
         /\ NextHop(g, d) \in DP /\ Adjacent(g, d, NextHop(g, d))
         /\ PathLen(g, NextHop(g, d)) = PathLen(g, d) - 1
<1> DEFINE n == PathLen(g, d)
           next == {e \in DP : Adjacent(g, d, e) /\ PathLen(g, e) = PathLen(g, d) - 1}
<1>1. n \in 2..NDP /\ NDP \in Nat
  BY Lengths, RootLength, Parts
<1>2. Walk(g, d, n - 1) /\ \A k \in 0..(NDP - 1) : Walk(g, d, k) => n - 1 =< k
  BY Lengths
<1>3. PICK e \in DP : Adjacent(g, d, e) /\ Walk(g, e, n - 2)
  <2>1. n - 1 \in Nat /\ n - 1 >= 1 /\ (n - 1) - 1 = n - 2
    BY <1>1
  <2> QED
    BY <1>2, <2>1, Shorter
<1>4. PathLen(g, e) = n - 1
  <2>1. n - 2 \in 0..(NDP - 1)
    BY <1>1
  <2>2. /\ PathLen(g, e) \in 1..NDP /\ Walk(g, e, PathLen(g, e) - 1)
        /\ PathLen(g, e) - 1 =< n - 2
    BY <1>3, <2>1, Lengths
  <2>3. PathLen(g, e) - 1 \in Nat /\ PathLen(g, e) \in 0..(NDP - 1)
    BY <1>1, <2>2
  <2>4. Walk(g, d, (PathLen(g, e) - 1) + 1)
    BY <1>3, <2>2, <2>3, Longer
  <2>5. n - 1 =< PathLen(g, e)
    BY <1>2, <2>3, <2>4
  <2> QED
    BY <1>1, <2>2, <2>5
<1>5. next \in SUBSET Nat /\ next # {}
  BY <1>3, <1>4, Parts
<1>6. Min(next) \in next
  BY <1>5, MinLeast
<1>7. NextHop(g, d) = Min(next)
  BY DEF NextHop
<1> QED
  BY <1>1, <1>6, <1>7

\* Every distance up to that of a datapath is the distance of some datapath.
LEMMA AllLengths ==
  ASSUME NEW g \in SUBSET Link, NEW d \in DP, NEW m \in 1..PathLen(g, d)
  PROVE  \E e \in DP : PathLen(g, e) = m
<1> DEFINE n == PathLen(g, d)
           gaps == {j \in Nat : j < n /\ \A e \in DP : PathLen(g, e) # n - j}
<1>1. n \in Nat /\ n >= 1 /\ \A e \in DP : PathLen(g, e) \in Nat
  BY LengthType
<1>2. ASSUME gaps # {} PROVE FALSE
  <2>1. PICK j \in gaps : \A i \in gaps : j =< i
    BY <1>2, Least
  <2>2. j # 0
    BY <1>1
  <2>3. j - 1 \in Nat /\ j - 1 < n /\ j - 1 \notin gaps
    BY <1>1, <2>1, <2>2
  <2>4. PICK e \in DP : PathLen(g, e) = n - (j - 1)
    BY <2>3
  <2>5. PathLen(g, e) >= 2
    BY <1>1, <2>1, <2>4
  <2>6. e # Root /\ PathLen(g, e) # 0
    BY <2>5, RootLength
  <2>7. NextHop(g, e) \in DP /\ PathLen(g, NextHop(g, e)) = n - j
    BY <1>1, <2>1, <2>4, <2>6, NextHops
  <2> QED
    BY <2>1, <2>7
<1>3. n - m \in Nat /\ n - m < n /\ n - (n - m) = m
  BY <1>1
<1> QED
  BY <1>2, <1>3

\* A neighbour of a datapath that has a path has one that is one hop longer at
\* most: if all hops are used up, the path passes every datapath.
LEMMA Neighbours ==
  ASSUME NEW g \in SUBSET Link, NEW d \in DP, NEW e \in DP, Adjacent(g, d, e),
         PathLen(g, e) # 0
  PROVE  PathLen(g, d) # 0 /\ PathLen(g, d) =< PathLen(g, e) + 1
<1> DEFINE n == PathLen(g, e)
<1>1. n \in 1..NDP /\ NDP \in Nat /\ Walk(g, e, n - 1)
  BY Lengths, Parts
<1>2. CASE n < NDP
  <2>1. Walk(g, d, (n - 1) + 1) /\ (n - 1) + 1 = n /\ n \in 0..(NDP - 1)
    BY <1>1, <1>2, Longer
  <2> QED
    BY <1>1, <2>1, Lengths
<1>3. CASE n = NDP
  <2>1. ASSUME PathLen(g, d) = 0 PROVE FALSE
    <3> DEFINE f == [m \in 0..NDP |-> CHOOSE c \in DP : PathLen(g, c) = m]
    <3>1. \A m \in 0..NDP : \E c \in DP : PathLen(g, c) = m
      <4>1. \A m \in 0..NDP : m = 0 \/ m \in 1..n
        BY <1>1, <1>3
      <4> QED
        BY <2>1, <4>1, AllLengths
    <3>2. \A m \in 0..NDP : f[m] \in DP /\ PathLen(g, f[m]) = m
      BY <3>1
    <3>3. f \in [0..NDP -> DP]
      BY <3>2
    <3> HIDE DEF f
    <3>4. /\ IsFiniteSet(0..NDP) /\ Cardinality(0..NDP) = NDP + 1
          /\ IsFiniteSet(1..NDP) /\ Cardinality(1..NDP) = NDP
      BY <1>1, FS_Interval
    <3>5. IsFiniteSet(DP) /\ Cardinality(DP) < Cardinality(0..NDP)
      BY <1>1, <3>4 DEF DP
    <3>6. \E x, y \in 0..NDP : x # y /\ f[x] = f[y]
      BY <3>3, <3>4, <3>5, FS_PigeonHole
    <3> QED
      BY <3>2, <3>6
  <2>2. PathLen(g, d) \in 0..NDP
    BY LengthType
  <2> QED
    BY <1>1, <1>3, <2>1, <2>2
<1> QED
  BY <1>1, <1>2, <1>3
-----------------------------------------------------------------------------
\* f follows the next hops of d, k of them.
Follows(g, d, k, f) ==
  /\ f \in [0..k -> DP] /\ f[0] = d
  /\ \A i \in 1..k : f[i] = NextHop(g, f[i - 1])

\* PathNodes by the walks along next hops.
LEMMA OnPath ==
  ASSUME NEW g \in SUBSET Link, NEW d \in DP
  PROVE  PathNodes[g][d] = {e \in DP : \E k \in 0..(PathLen(g, d) - 1) : \E f :
                              Follows(g, d, k, f) /\ f[k] = e}
<1> DEFINE N == {e \in DP : \E k \in 0..(PathLen(g, d) - 1) : \E f \in [0..k -> DP] :
         f[0] = d /\ f[k] = e /\ \A i \in 1..k : f[i] = NextHop(g, f[i - 1])}
<1>1. PathNodes[g][d] = N
  BY DEF PathNodes
<1>2. ASSUME NEW e \in DP
      PROVE  e \in N <=> \E k \in 0..(PathLen(g, d) - 1) : \E f :
                              Follows(g, d, k, f) /\ f[k] = e
  BY DEF Follows
<1> QED
  BY <1>1, <1>2

\* Each hop is one closer to the root.
LEMMA FollowLengths ==
  ASSUME NEW g \in SUBSET Link, NEW d \in DP, NEW k \in 0..(PathLen(g, d) - 1),
         NEW f, Follows(g, d, k, f), NEW i \in 0..k
  PROVE  PathLen(g, f[i]) = PathLen(g, d) - i
<1> DEFINE wrong == {j \in 0..k : PathLen(g, f[j]) # PathLen(g, d) - j}
<1>1. PathLen(g, d) \in Nat /\ k \in Nat
  BY LengthType
<1>2. ASSUME wrong # {} PROVE FALSE
  <2>1. PICK j \in wrong : \A m \in wrong : j =< m
    <3>1. wrong \in SUBSET Nat
      BY <1>1
    <3> HIDE DEF wrong
    <3> QED
      BY <1>2, <3>1, Least
  <2>2. j # 0
    BY <1>1, <2>1 DEF Follows
  <2>3. j \in 1..k /\ j - 1 \in 0..k /\ j - 1 \notin wrong
    BY <1>1, <2>1, <2>2
  <2>4. PathLen(g, f[j - 1]) = PathLen(g, d) - (j - 1) /\ f[j - 1] \in DP
    BY <2>3 DEF Follows
  <2>5. PathLen(g, f[j - 1]) >= 2
    BY <1>1, <2>3, <2>4
  <2>6. f[j - 1] # Root /\ PathLen(g, f[j - 1]) # 0
    BY <2>4, <2>5, RootLength
  <2>7. f[j] = NextHop(g, f[j - 1])
    BY <2>3 DEF Follows
  <2>8. PathLen(g, f[j]) = PathLen(g, d) - j
    BY <1>1, <2>3, <2>4, <2>6, <2>7, NextHops
  <2> QED
    BY <2>1, <2>8
<1> QED
  BY <1>2

\* There is one way to follow them.
LEMMA FollowSame ==
  ASSUME NEW g \in SUBSET Link, NEW d \in DP, NEW k \in Nat,
         NEW f, Follows(g, d, k, f), NEW h, Follows(g, d, k, h)
  PROVE  f[k] = h[k]
<1> DEFINE wrong == {j \in 0..k : f[j] # h[j]}
<1>1. ASSUME wrong # {} PROVE FALSE
  <2>1. PICK j \in wrong : \A m \in wrong : j =< m
    <3>1. wrong \in SUBSET Nat
      OBVIOUS
    <3> HIDE DEF wrong
    <3> QED
      BY <1>1, <3>1, Least
  <2>2. j # 0
    BY <2>1 DEF Follows
  <2>3. j \in 1..k /\ j - 1 \in 0..k /\ j - 1 \notin wrong
    BY <2>1, <2>2
  <2> QED
    BY <2>1, <2>3 DEF Follows
<1> QED
  BY <1>1

\* The path of a datapath is closed under next hops, and on it one datapath is
\* at every distance.
LEMMA PathFacts ==
  ASSUME NEW g \in SUBSET Link, NEW d \in DP, PathLen(g, d) # 0
  PROVE  /\ d \in PathNodes[g][d]
         /\ \A e \in PathNodes[g][d] :
              /\ e \in DP /\ PathLen(g, e) \in 1..PathLen(g, d)
              /\ e # Root => NextHop(g, e) \in PathNodes[g][d]
              /\ e # d => \E c \in PathNodes[g][d] : c # Root /\ NextHop(g, c) = e
         /\ \A e, c \in PathNodes[g][d] : PathLen(g, e) = PathLen(g, c) => e = c
<1> DEFINE n == PathLen(g, d)
           N == PathNodes[g][d]
<1>1. n \in Nat /\ n >= 1
  BY LengthType
<1>2. ASSUME NEW k \in 0..(n - 1), NEW f, Follows(g, d, k, f)
      PROVE  f[k] \in N /\ f[k] \in DP
  <2>1. f[k] \in DP
    BY <1>1, <1>2 DEF Follows
  <2> QED
    BY <1>2, <2>1, OnPath
<1>3. ASSUME NEW e \in N
      PROVE  e \in DP /\ \E k \in 0..(n - 1) : \E f : Follows(g, d, k, f) /\ f[k] = e
  BY OnPath
<1>4. d \in N
  <2> DEFINE f == [i \in 0..0 |-> d]
  <2>1. Follows(g, d, 0, f) /\ f[0] = d /\ 0 \in 0..(n - 1)
    BY <1>1 DEF Follows
  <2> QED
    BY <1>2, <2>1
<1>5. ASSUME NEW e \in N PROVE PathLen(g, e) \in 1..n
  <2>a. PICK k \in 0..(n - 1) : \E f : Follows(g, d, k, f) /\ f[k] = e
    BY <1>3
  <2>1. PICK f : Follows(g, d, k, f) /\ f[k] = e
    BY <2>a
  <2>2. PathLen(g, e) = n - k
    BY <1>1, <2>1, FollowLengths
  <2> QED
    BY <1>1, <2>2
<1>6. ASSUME NEW e \in N, e # Root PROVE NextHop(g, e) \in N
  <2>a. PICK k \in 0..(n - 1) : \E f : Follows(g, d, k, f) /\ f[k] = e
    BY <1>3
  <2>1. PICK f : Follows(g, d, k, f) /\ f[k] = e
    BY <2>a
  <2>2. PathLen(g, e) = n - k /\ e \in DP /\ PathLen(g, e) # 0
    <3>1. k \in 0..k /\ n - k # 0
      BY <1>1
    <3>2. PathLen(g, f[k]) = n - k
      BY <2>1, <3>1, FollowLengths
    <3> QED
      BY <1>3, <2>1, <3>1, <3>2
  <2>3. PathLen(g, e) >= 2 /\ NextHop(g, e) \in DP
    BY <1>6, <2>2, NextHops
  <2>4. k + 1 \in 0..(n - 1)
    BY <1>1, <2>2, <2>3
  <2> DEFINE h == [i \in 0..(k + 1) |-> IF i = k + 1 THEN NextHop(g, e) ELSE f[i]]
  <2>5. h \in [0..(k + 1) -> DP]
    <3>1. \A i \in 0..(k + 1) : i # k + 1 => i \in 0..k
      OBVIOUS
    <3> QED
      BY <2>1, <2>3, <3>1 DEF Follows
  <2>6. h[0] = d /\ h[k + 1] = NextHop(g, e)
    BY <2>1 DEF Follows
  <2>7. ASSUME NEW i \in 1..(k + 1) PROVE h[i] = NextHop(g, h[i - 1])
    <3>1. CASE i = k + 1
      BY <2>1, <3>1
    <3>2. CASE i # k + 1
      <4>1. i \in 1..k /\ i - 1 # k + 1 /\ i \in 0..(k + 1) /\ i - 1 \in 0..(k + 1)
        BY <3>2
      <4>2. h[i] = f[i] /\ h[i - 1] = f[i - 1]
        BY <3>2, <4>1
      <4> QED
        BY <2>1, <4>1, <4>2 DEF Follows
    <3> QED
      BY <3>1, <3>2
  <2> HIDE DEF h
  <2>8. Follows(g, d, k + 1, h)
    BY <2>5, <2>6, <2>7 DEF Follows
  <2> QED
    BY <1>2, <2>4, <2>6, <2>8
<1>7. ASSUME NEW e \in N, NEW c \in N, PathLen(g, e) = PathLen(g, c) PROVE e = c
  <2>a. PICK k \in 0..(n - 1) : \E f : Follows(g, d, k, f) /\ f[k] = e
    BY <1>3
  <2>1. PICK f : Follows(g, d, k, f) /\ f[k] = e
    BY <2>a
  <2>b. PICK j \in 0..(n - 1) : \E h : Follows(g, d, j, h) /\ h[j] = c
    BY <1>3
  <2>2. PICK h : Follows(g, d, j, h) /\ h[j] = c
    BY <2>b
  <2>3. PathLen(g, e) = n - k /\ PathLen(g, c) = n - j
    <3>1. k \in 0..k /\ j \in 0..j
      BY <1>1
    <3> QED
      BY <2>1, <2>2, <3>1, FollowLengths
  <2>4. k = j /\ k \in Nat
    <3>1. n - k = n - j
      BY <1>7, <2>3
    <3> QED
      BY <1>1, <3>1
  <2> QED
    BY <2>1, <2>2, <2>4, FollowSame
<1>8. ASSUME NEW e \in N, e # d
      PROVE  \E c \in N : c # Root /\ NextHop(g, c) = e
  <2>a. PICK k \in 0..(n - 1) : \E f : Follows(g, d, k, f) /\ f[k] = e
    BY <1>3
  <2>1. PICK f : Follows(g, d, k, f) /\ f[k] = e
    BY <2>a
  <2>2. k # 0
    BY <1>8, <2>1 DEF Follows
  <2>3. k - 1 \in 0..(n - 1) /\ k \in 1..k /\ k - 1 \in 0..k
    BY <1>1, <2>2
  <2> DEFINE h == [i \in 0..(k - 1) |-> f[i]]
  <2>4. Follows(g, d, k - 1, h) /\ h[k - 1] = f[k - 1]
    <3>1. \A i \in 0..(k - 1) : i \in 0..k
      OBVIOUS
    <3>2. \A i \in 1..(k - 1) : i \in 1..k /\ i \in 0..(k - 1) /\ i - 1 \in 0..(k - 1)
      OBVIOUS
    <3>3. h \in [0..(k - 1) -> DP]
      BY <2>1, <3>1 DEF Follows
    <3>4. 0 \in 0..(k - 1) /\ k - 1 \in 0..(k - 1)
      BY <2>3
    <3>5. h[0] = d /\ h[k - 1] = f[k - 1]
      BY <2>1, <3>4 DEF Follows
    <3>6. \A i \in 1..(k - 1) : h[i] = NextHop(g, h[i - 1])
      BY <2>1, <3>2 DEF Follows
    <3> QED
      BY <3>3, <3>5, <3>6 DEF Follows
  <2>5. f[k - 1] \in N /\ f[k - 1] \in DP
    BY <1>2, <2>3, <2>4
  <2>6. PathLen(g, f[k - 1]) = n - (k - 1)
    BY <1>1, <2>1, <2>3, FollowLengths
  <2>7. PathLen(g, f[k - 1]) # 1
    BY <1>1, <2>2, <2>3, <2>6
  <2>8. f[k - 1] # Root
    BY <2>5, <2>7, RootLength
  <2>9. NextHop(g, f[k - 1]) = e
    BY <2>1, <2>3 DEF Follows
  <2> QED
    BY <2>5, <2>8, <2>9
<1> QED
  BY <1>3, <1>4, <1>5, <1>6, <1>7, <1>8

\* The path ends at the root.
LEMMA RootOnPath ==
  ASSUME NEW g \in SUBSET Link, NEW d \in DP, PathLen(g, d) # 0
  PROVE  Root \in PathNodes[g][d]
<1> DEFINE N == PathNodes[g][d]
           lens == {PathLen(g, e) : e \in N}
<1>1. N # {} /\ \A e \in N : e \in DP /\ PathLen(g, e) \in Nat /\ PathLen(g, e) # 0
  BY PathFacts, LengthType
<1>2. PICK n \in lens : \A m \in lens : n =< m
  <2>1. lens \in SUBSET Nat /\ lens # {}
    BY <1>1
  <2> HIDE DEF lens
  <2> QED
    BY <2>1, Least
<1>3. PICK e \in N : PathLen(g, e) = n
  BY <1>2
<1>4. ASSUME e # Root PROVE FALSE
  <2>1. NextHop(g, e) \in N /\ PathLen(g, NextHop(g, e)) = n - 1
    BY <1>1, <1>3, <1>4, PathFacts, NextHops
  <2> QED
    BY <1>1, <1>2, <1>3, <2>1
<1> QED
  BY <1>3, <1>4

\* is_in_path tells a datapath that it is the next hop of its neighbour.
LEMMA InPathIsNextHop ==
  ASSUME NEW g \in SUBSET Link, NEW d \in DP, NEW x \in DP, Adjacent(g, d, x),
         PathLen(g, x) # 0
  PROVE  InPath(g, d, x) <=> x # Root /\ NextHop(g, x) = d
<1>1. InPath(g, d, x) <=> d \in PathNodes[g][x]
  BY DEF InPath
<1>2. ASSUME x # Root, NextHop(g, x) = d PROVE d \in PathNodes[g][x]
  BY <1>2, PathFacts
<1>3. ASSUME d \in PathNodes[g][x] PROVE x # Root /\ NextHop(g, x) = d
  <2>1. PathLen(g, d) \in 1..PathLen(g, x) /\ PathLen(g, x) \in Nat
    BY <1>3, PathFacts, LengthType
  <2>2. d # x
    BY Parts
  <2>3. PathLen(g, d) # PathLen(g, x)
    BY <1>3, <2>2, PathFacts
  <2>4. Adjacent(g, x, d) /\ PathLen(g, d) # 0
    BY <2>1, Parts
  <2>5. PathLen(g, x) =< PathLen(g, d) + 1
    BY <2>4, Neighbours
  <2>6. PathLen(g, x) = PathLen(g, d) + 1 /\ PathLen(g, x) # 1
    BY <2>1, <2>3, <2>5
  <2>7. x # Root
    BY <2>6, RootLength
  <2>8. NextHop(g, x) \in PathNodes[g][x] /\ PathLen(g, NextHop(g, x)) = PathLen(g, d)
    BY <2>1, <2>6, <2>7, PathFacts, NextHops
  <2> QED
    BY <1>3, <2>7, <2>8, PathFacts
<1> QED
  BY <1>1, <1>2, <1>3
-----------------------------------------------------------------------------
(***************************************************************************)
(* The ports of a settled stack.                                           *)
(***************************************************************************)
\* A link is in the graphs if both its ends are up, and only if one is.
GraphInv ==
  /\ links \in Confs /\ graph \subseteq links /\ up \subseteq links \X {"a", "z"}
  /\ \A p \in up : Peer(p) \in up => p[1] \in graph
  /\ \A l \in graph : \E p \in up : p[1] = l

\* Datapath d has a path to the root, and its next hop on it.
Linked(d) == PathLen(graph, d) # 0
Hop(d) == NextHop(graph, d)

\* Port q is one to the next hop of its datapath, or to a datapath whose next
\* hop this is: what comes in on it descends from the root, or climbs.
Descends(q) == DpOf(q) # Root /\ PeerDp(q) = Hop(DpOf(q))
Climbs(q) == PeerDp(q) # Root /\ DpOf(q) = Hop(PeerDp(q))

\* The link that is used for broadcasts, of those to the same next hop.
Main(q) ==
  \/ Descends(q) /\ q = tree[DpOf(q)].port
  \/ Climbs(q) /\ Peer(q) = tree[PeerDp(q)].port

\* The two ends of a link.
LEMMA PortEnds ==
  ASSUME NEW p \in Port
  PROVE  /\ Peer(p) \in Port /\ Peer(Peer(p)) = p /\ Peer(p) # p /\ Peer(p)[1] = p[1]
         /\ DpOf(p) \in DP /\ PeerDp(p) \in DP /\ DpOf(p) # PeerDp(p)
         /\ DpOf(Peer(p)) = PeerDp(p) /\ PeerDp(Peer(p)) = DpOf(p)
         /\ {DpOf(p), PeerDp(p)} = {Ends[p[1]].a, Ends[p[1]].z}
         /\ p # None
<1>1. PICK l \in Link, s \in {"a", "z"} : p = <<l, s>>
  BY DEF Port
<1>2. Ends[l].a \in DP /\ Ends[l].z \in DP /\ Ends[l].a # Ends[l].z
  BY TreeAssumption
<1>3. CASE s = "a"
  BY <1>1, <1>2, <1>3 DEF Port, Peer, DpOf, PeerDp, None
<1>4. CASE s = "z"
  BY <1>1, <1>2, <1>4 DEF Port, Peer, DpOf, PeerDp, None
<1> QED
  BY <1>1, <1>3, <1>4

\* The links of ports that are up are in the graph, and join datapaths that
\* differ by one in distance at most.
LEMMA UpPorts ==
  ASSUME GraphInv, Settled, NEW p \in up
  PROVE  /\ p \in Port /\ Peer(p) \in up
         /\ Adjacent(graph, DpOf(p), PeerDp(p))
         /\ Linked(DpOf(p)) <=> Linked(PeerDp(p))
         /\ Linked(DpOf(p)) => PathLen(graph, DpOf(p)) =< PathLen(graph, PeerDp(p)) + 1
         /\ DpOf(p) \in DP /\ PeerDp(p) \in DP
         /\ graph \in SUBSET Link
<1>1. p \in Port /\ graph \in SUBSET Link
  BY TreeAssumption DEF GraphInv, Port
<1>2. Peer(p) \in up /\ p[1] \in graph
  BY DEF GraphInv, Settled
<1>3. Adjacent(graph, DpOf(p), PeerDp(p))
  BY <1>1, <1>2, PortEnds DEF Adjacent
<1>4. Adjacent(graph, PeerDp(p), DpOf(p))
  BY <1>1, <1>3, Parts
<1>5. DpOf(p) \in DP /\ PeerDp(p) \in DP
  BY <1>1, PortEnds
<1> QED
  BY <1>1, <1>2, <1>3, <1>4, <1>5, Neighbours DEF Linked

\* Neighbours in the graph have ports to each other that are up.
LEMMA LinkPorts ==
  ASSUME GraphInv, Settled, NEW d, NEW e, Adjacent(graph, d, e)
  PROVE  \E p \in up : DpOf(p) = d /\ PeerDp(p) = e
<1>1. PICK l \in graph : {d, e} = {Ends[l].a, Ends[l].z}
  BY DEF Adjacent
<1>2. PICK p \in up : p[1] = l
  BY DEF GraphInv
<1>3. /\ p \in Port /\ Peer(p) \in up /\ {DpOf(p), PeerDp(p)} = {d, e}
      /\ DpOf(Peer(p)) = PeerDp(p) /\ PeerDp(Peer(p)) = DpOf(p)
      /\ DpOf(p) # PeerDp(p)
  BY <1>1, <1>2, UpPorts, PortEnds
<1>4. (DpOf(p) = d /\ PeerDp(p) = e) \/ (DpOf(p) = e /\ PeerDp(p) = d)
  BY <1>3
<1> QED
  BY <1>3, <1>4

\* The next hop of a datapath, and how the two kinds of ports correspond.
LEMMA Hops ==
  ASSUME GraphInv, NEW d \in DP, Linked(d), d # Root
  PROVE  /\ Hop(d) \in DP /\ Linked(Hop(d)) /\ Adjacent(graph, d, Hop(d))
         /\ PathLen(graph, d) >= 2 /\ PathLen(graph, d) \in Nat
         /\ PathLen(graph, Hop(d)) = PathLen(graph, d) - 1
<1>1. graph \in SUBSET Link
  BY TreeAssumption DEF GraphInv
<1> QED
  BY <1>1, NextHops, LengthType DEF Hop, Linked

\* Seen from its other end, what descends climbs, on the same main link.
LEMMA Turned ==
  ASSUME NEW q \in Port
  PROVE  /\ Descends(Peer(q)) <=> Climbs(q)
         /\ Climbs(Peer(q)) <=> Descends(q)
         /\ Main(Peer(q)) <=> Main(q)
<1>1. Peer(Peer(q)) = q /\ DpOf(Peer(q)) = PeerDp(q) /\ PeerDp(Peer(q)) = DpOf(q)
  BY PortEnds
<1> QED
  BY <1>1 DEF Descends, Climbs, Main

\* No port has both its ends' next hops on it.
LEMMA OneWay ==
  ASSUME GraphInv, Settled, NEW q \in up, Linked(DpOf(q)), Descends(q)
  PROVE  ~Climbs(q)
<1>1. Linked(PeerDp(q)) /\ DpOf(q) \in DP /\ PeerDp(q) \in DP
  BY UpPorts
<1>2. PathLen(graph, PeerDp(q)) = PathLen(graph, DpOf(q)) - 1 /\ PathLen(graph, DpOf(q)) \in Nat
  BY <1>1, Hops DEF Descends
<1>3. ASSUME Climbs(q) PROVE PathLen(graph, DpOf(q)) = PathLen(graph, PeerDp(q)) - 1
  BY <1>1, <1>3, Hops DEF Climbs
<1> QED
  BY <1>2, <1>3

\* The first port of a set of ports.
LEMMA FirstPort ==
  ASSUME NEW S \in SUBSET Port, S # {}
  PROVE  First(S) \in S /\ \A q \in S : Num[First(S)] =< Num[q]
<1> DEFINE nums == {Num[p] : p \in S}
<1>1. nums \in SUBSET Nat /\ nums # {}
  BY TreeAssumption
<1>2. PICK n \in nums : \A m \in nums : n =< m
  <2> HIDE DEF nums
  <2> QED
    BY <1>1, Least
<1>3. PICK p \in S : Num[p] = n
  BY <1>2
<1>4. \A q \in S : Num[p] =< Num[q]
  BY <1>2, <1>3
<1> QED
  BY <1>4 DEF First

\* What a datapath has computed, in a settled stack.
UpAt(d) == PortsOf(d, links) \cap up
\* The ports towards the root of reset_peer_distances, and the chosen ones.
Nearest(d) ==
  IF d = Root THEN {}
  ELSE {p \in UpAt(d) : \A q \in UpAt(d) :
          PathLen(graph, PeerDp(p)) =< PathLen(graph, PeerDp(q))}
Chosen(d) ==
  {p \in Nearest(d) : PeerDp(p) = IF PathLen(graph, d) > 1 THEN NextHop(graph, d)
                                  ELSE PeerDp(First(Nearest(d)))}

\* The ports of a datapath that are up.
LEMMA UpAtIs ==
  ASSUME GraphInv, NEW d
  PROVE  UpAt(d) = {p \in up : DpOf(p) = d}
BY DEF GraphInv, UpAt, PortsOf

\* What a settled datapath has computed from the graph all agree on.
LEMMA TreeAt ==
  ASSUME GraphInv, Settled, NEW d \in DP
  PROVE  /\ tree[d].towards = Nearest(d) /\ tree[d].chosen = Chosen(d)
         /\ tree[d].port = IF Chosen(d) = {} THEN None ELSE First(Chosen(d))
         /\ tree[d].away = UpAt(d) \ Nearest(d)
         /\ tree[d].inactive = InactivePorts(d, UpAt(d) \ Nearest(d), graph)
         /\ tree[d].pruned = PrunedPorts(UpAt(d) \ Nearest(d), up)
<1>1. tree[d] = reset_peer_distances(d, up, graph, [e \in DP |-> graph])
  BY DEF Settled
<1>2. \A p \in UpAt(d) : PeerDp(p) \in DP
  BY UpPorts DEF UpAt
<1>3. TowardsPorts(d, up, [e \in DP |-> graph]) = Nearest(d)
  BY <1>2 DEF TowardsPorts, Nearest, UpAt
<1> DEFINE chosen == Chosen(d)
           away == UpAt(d) \ Nearest(d)
           off == InactivePorts(d, away, graph)
           cut == PrunedPorts(away, up)
<1>4. tree[d] = [towards |-> Nearest(d), chosen |-> chosen,
                 port |-> IF chosen = {} THEN None ELSE First(chosen),
                 away |-> away, inactive |-> off, pruned |-> cut]
  BY <1>1, <1>3, Zenon DEF reset_peer_distances, Chosen, UpAt
<1> HIDE DEF chosen, away, off, cut
<1>5. /\ tree[d].towards = Nearest(d) /\ tree[d].chosen = chosen
      /\ tree[d].port = IF chosen = {} THEN None ELSE First(chosen)
      /\ tree[d].away = away /\ tree[d].inactive = off /\ tree[d].pruned = cut
  BY <1>4
<1> QED
  BY <1>5 DEF chosen, away, off, cut

\* The ports of a datapath that has a path to the root.
LEMMA RootTree ==
  ASSUME GraphInv, Settled
  PROVE  /\ tree[Root].towards = {} /\ tree[Root].chosen = {}
         /\ tree[Root].away = {p \in up : DpOf(p) = Root}
BY Parts, TreeAt, UpAtIs DEF Nearest, Chosen

\* A datapath below the root chooses all its ports to its next hop.
LEMMA InnerTree ==
  ASSUME GraphInv, Settled, NEW d \in DP, Linked(d), d # Root
  PROVE  /\ tree[d].towards = {p \in up : DpOf(p) = d /\ PathLen(graph, PeerDp(p)) = PathLen(graph, d) - 1}
         /\ tree[d].chosen = {p \in up : DpOf(p) = d /\ PeerDp(p) = Hop(d)}
         /\ tree[d].chosen # {} /\ tree[d].port = First(tree[d].chosen)
<1> DEFINE n == PathLen(graph, d)
<1>1. /\ Hop(d) \in DP /\ Adjacent(graph, d, Hop(d)) /\ n \in Nat /\ n >= 2
      /\ PathLen(graph, Hop(d)) = n - 1
  BY Hops
<1>2. PICK h \in up : DpOf(h) = d /\ PeerDp(h) = Hop(d)
  BY <1>1, LinkPorts
<1>3. ASSUME NEW p \in up, DpOf(p) = d
      PROVE  PathLen(graph, PeerDp(p)) \in Nat /\ PathLen(graph, PeerDp(p)) >= n - 1
  <2>1. PathLen(graph, d) =< PathLen(graph, PeerDp(p)) + 1 /\ PeerDp(p) \in DP
        /\ graph \in SUBSET Link
    BY <1>3, UpPorts
  <2> QED
    BY <1>1, <2>1, LengthType
<1>4. Nearest(d) = {p \in up : DpOf(p) = d /\ PathLen(graph, PeerDp(p)) = n - 1}
  <2>1. ASSUME NEW p \in up, DpOf(p) = d
        PROVE  (\A q \in UpAt(d) : PathLen(graph, PeerDp(p)) =< PathLen(graph, PeerDp(q)))
                 <=> PathLen(graph, PeerDp(p)) = n - 1
    <3>1. h \in UpAt(d) /\ PathLen(graph, PeerDp(h)) = n - 1
      BY <1>1, <1>2, UpAtIs
    <3>2. \A q \in UpAt(d) : PathLen(graph, PeerDp(q)) \in Nat /\ PathLen(graph, PeerDp(q)) >= n - 1
      BY <1>3, UpAtIs
    <3>3. p \in UpAt(d)
      BY <2>1, UpAtIs
    <3> QED
      BY <1>1, <3>1, <3>2, <3>3
  <2> QED
    BY <2>1, UpAtIs DEF Nearest
<1>5. Chosen(d) = {p \in up : DpOf(p) = d /\ PeerDp(p) = Hop(d)}
  <2>1. Chosen(d) = {p \in Nearest(d) : PeerDp(p) = Hop(d)}
    BY <1>1 DEF Chosen, Hop
  <2> QED
    BY <1>1, <1>4, <2>1
<1> QED
  BY <1>2, <1>4, <1>5, TreeAt

\* chosen_towards_ports and the away ports that are in use are the ports to the
\* next hop, and to those whose next hop the datapath is.
LEMMA TreePorts ==
  ASSUME GraphInv, Settled, NEW p \in up, Linked(DpOf(p))
  PROVE  LET d == DpOf(p) IN
         /\ p \in tree[d].chosen <=> Descends(p)
         /\ p \in tree[d].away \ tree[d].inactive <=> Climbs(p)
         /\ Descends(p) => p \in tree[d].towards /\ p \notin tree[d].away
         /\ Climbs(p) => p \in tree[d].away /\ p \notin tree[d].towards
<1> DEFINE d == DpOf(p)
           x == PeerDp(p)
<1>1. /\ d \in DP /\ x \in DP /\ Linked(d) /\ Linked(x) /\ Adjacent(graph, d, x)
      /\ graph \in SUBSET Link
  BY UpPorts
<1>2. tree[d].away = {q \in up : DpOf(q) = d} \ tree[d].towards
  BY <1>1, TreeAt, UpAtIs
<1>3. tree[d].inactive = {q \in tree[d].away : ~InPath(graph, d, PeerDp(q))}
  BY <1>1, TreeAt DEF InactivePorts
<1>4. InPath(graph, d, x) <=> Climbs(p)
  BY <1>1, InPathIsNextHop DEF Climbs, Hop, Linked
<1>5. p \in tree[d].chosen <=> Descends(p)
  <2>1. CASE d = Root
    BY <2>1, RootTree DEF Descends
  <2>2. CASE d # Root
    BY <1>1, <2>2, InnerTree DEF Descends
  <2> QED
    BY <2>1, <2>2
<1>6. ASSUME Descends(p) PROVE p \in tree[d].towards
  <2>1. d # Root /\ x = Hop(d)
    BY <1>6 DEF Descends
  <2>2. PathLen(graph, x) = PathLen(graph, d) - 1
    BY <1>1, <2>1, Hops
  <2> QED
    BY <1>1, <2>1, <2>2, InnerTree
<1>7. ASSUME Climbs(p) PROVE p \notin tree[d].towards
  <2>1. x # Root /\ d = Hop(x)
    BY <1>7 DEF Climbs
  <2>2. PathLen(graph, d) = PathLen(graph, x) - 1 /\ PathLen(graph, x) \in Nat
    BY <1>1, <2>1, Hops
  <2>3. PathLen(graph, x) # PathLen(graph, d) - 1
    BY <2>2
  <2>4. CASE d = Root
    BY <2>4, RootTree
  <2>5. CASE d # Root
    BY <1>1, <2>3, <2>5, InnerTree
  <2> QED
    BY <2>4, <2>5
<1> QED
  BY <1>2, <1>3, <1>4, <1>5, <1>6, <1>7

\* A datapath chooses among its own ports.
LEMMA TreeSets ==
  ASSUME GraphInv, Settled, NEW d \in DP
  PROVE  /\ tree[d].towards \subseteq {q \in up : DpOf(q) = d}
         /\ tree[d].chosen \subseteq {q \in up : DpOf(q) = d}
         /\ tree[d].away \subseteq {q \in up : DpOf(q) = d}
<1>1. Nearest(d) \subseteq UpAt(d) /\ Chosen(d) \subseteq Nearest(d)
  BY DEF Nearest, Chosen
<1> QED
  BY <1>1, TreeAt, UpAtIs

\* Between a datapath and its next hop there is one main link.
LEMMA MainPort ==
  ASSUME GraphInv, Settled, NEW d \in DP, Linked(d), d # Root
  PROVE  /\ tree[d].port \in up /\ DpOf(tree[d].port) = d /\ PeerDp(tree[d].port) = Hop(d)
         /\ Descends(tree[d].port) /\ Main(tree[d].port)
         /\ \A q \in up : /\ DpOf(q) = d /\ PeerDp(q) = Hop(d)
                          => Num[tree[d].port] =< Num[q]
<1>1. /\ tree[d].chosen = {p \in up : DpOf(p) = d /\ PeerDp(p) = Hop(d)}
      /\ tree[d].chosen # {} /\ tree[d].port = First(tree[d].chosen)
  BY InnerTree
<1>2. tree[d].chosen \in SUBSET Port
  BY <1>1, UpPorts
<1>3. tree[d].port \in tree[d].chosen /\ \A q \in tree[d].chosen : Num[tree[d].port] =< Num[q]
  BY <1>1, <1>2, FirstPort
<1> QED
  BY <1>1, <1>3 DEF Main, Descends

LEMMA OneMain ==
  ASSUME GraphInv, Settled, NEW p \in up, NEW q \in up, Linked(DpOf(p)),
         DpOf(p) = DpOf(q), PeerDp(p) = PeerDp(q), Main(p), Main(q)
  PROVE  p = q
<1>1. p \in Port /\ q \in Port /\ Peer(Peer(p)) = p /\ Peer(Peer(q)) = q
  BY UpPorts, PortEnds
<1>2. CASE Descends(p)
  <2>1. ~Climbs(p) /\ Descends(q) /\ ~Climbs(q)
    BY <1>2, OneWay DEF Descends, Climbs
  <2> QED
    BY <2>1 DEF Main
<1>3. CASE Climbs(p)
  <2>1. ~Descends(p) /\ ~Descends(q) /\ Climbs(q)
    BY <1>3, OneWay DEF Descends, Climbs
  <2>2. Peer(p) = Peer(q)
    BY <2>1 DEF Main
  <2> QED
    BY <1>1, <2>2
<1> QED
  BY <1>2, <1>3 DEF Main

\* A port of the tree is pruned exactly if it is not at the main link: both
\* ends of the link work that out for themselves.
LEMMA PrunedIs ==
  ASSUME GraphInv, Settled, NEW p \in up, Linked(DpOf(p)), Descends(p) \/ Climbs(p)
  PROVE  Pruned(DpOf(p), p) <=> ~Main(p)
<1> DEFINE d == DpOf(p)
           x == PeerDp(p)
<1>1. d \in DP /\ x \in DP /\ Linked(d) /\ Linked(x) /\ p \in Port
  BY UpPorts
<1>2. CASE Descends(p)
  <2>1. p \in tree[d].towards /\ ~Climbs(p)
    BY <1>2, TreePorts, OneWay
  <2> QED
    BY <1>2, <2>1 DEF Pruned, Main
<1>3. CASE Climbs(p)
  <2> DEFINE m == tree[x].port
  <2>1. x # Root /\ d = Hop(x)
    BY <1>3 DEF Climbs
  <2>2. /\ m \in up /\ DpOf(m) = x /\ PeerDp(m) = d /\ m \in Port
        /\ \A q \in up : DpOf(q) = x /\ PeerDp(q) = d => Num[m] =< Num[q]
    BY <1>1, <2>1, MainPort, UpPorts
  <2>3. p \in tree[d].away /\ p \notin tree[d].towards /\ ~Descends(p)
    BY <1>3, TreePorts, OneWay
  <2>4. tree[d].pruned = PrunedPorts(tree[d].away, up)
    BY <1>1, TreeAt
  <2>5. /\ Peer(p) \in up /\ Peer(p) \in Port /\ DpOf(Peer(p)) = x /\ PeerDp(Peer(p)) = d
    BY UpPorts, PortEnds
  <2>6. Pruned(d, p) <=> \E q \in tree[d].away : PeerDp(q) = x /\ Peer(q) \in up
                                                 /\ Num[Peer(q)] < Num[Peer(p)]
    BY <2>3, <2>4, <2>5 DEF Pruned, PrunedPorts
  <2>7. ASSUME NEW q \in tree[d].away, PeerDp(q) = x, Num[Peer(q)] < Num[Peer(p)]
        PROVE  Peer(p) # m
    <3>1. q \in up /\ DpOf(q) = d
      BY <1>1, TreeSets
    <3>2. Peer(q) \in up /\ Peer(q) \in Port /\ DpOf(Peer(q)) = x /\ PeerDp(Peer(q)) = d
      BY <2>7, <3>1, UpPorts, PortEnds
    <3>3. Num[m] =< Num[Peer(q)] /\ Num[m] \in Nat /\ Num[Peer(q)] \in Nat /\ Num[Peer(p)] \in Nat
      BY <2>2, <2>5, <3>2, TreeAssumption
    <3> QED
      BY <2>7, <3>3
  <2>8. ASSUME Peer(p) # m
        PROVE  \E q \in tree[d].away : PeerDp(q) = x /\ Peer(q) \in up
                                                 /\ Num[Peer(q)] < Num[Peer(p)]
    <3>1. Num[m] \in Nat /\ Num[Peer(p)] \in Nat /\ Num[m] =< Num[Peer(p)]
      BY <2>2, <2>5, TreeAssumption
    <3>2. Num[m] # Num[Peer(p)]
      BY <2>2, <2>5, <2>8, TreeAssumption
    <3>3. /\ Peer(m) \in up /\ Peer(Peer(m)) = m /\ DpOf(Peer(m)) = d
          /\ PeerDp(Peer(m)) = x
      BY <2>2, UpPorts, PortEnds
    <3>4. Climbs(Peer(m))
      BY <2>1, <3>3 DEF Climbs
    <3>5. Peer(m) \in tree[d].away
      BY <1>1, <3>3, <3>4, TreePorts
    <3> QED
      BY <2>2, <3>1, <3>2, <3>3, <3>5
  <2>9. Main(p) <=> Peer(p) = m
    BY <1>3, <2>3 DEF Main
  <2> QED
    BY <2>6, <2>7, <2>8, <2>9
<1> QED
  BY <1>2, <1>3

\* Where a frame that comes in on p, or from a host, goes.
LEMMA FloodsTo ==
  ASSUME GraphInv, Settled, NEW d \in DP, Linked(d), NEW p,
         p = None \/ (p \in up /\ DpOf(p) = d /\ (Descends(p) \/ Climbs(p))),
         NEW r
  PROVE  r \in FloodPorts(d, p) <=>
           /\ r \in up /\ DpOf(r) = d
           /\ IF ~Reflection
              THEN \/ Descends(r) /\ r # p
                   \/ Climbs(r) /\ (p # None => PeerDp(r) # PeerDp(p))
              ELSE IF d = Root
              THEN r = p \/ (Climbs(r) /\ (p # None => PeerDp(r) # PeerDp(p)))
              ELSE IF p # None /\ Descends(p) THEN Climbs(r) ELSE Descends(r)
<1>1. /\ tree[d].towards \subseteq {q \in up : DpOf(q) = d}
      /\ tree[d].chosen \subseteq {q \in up : DpOf(q) = d}
      /\ tree[d].away \subseteq {q \in up : DpOf(q) = d}
  BY TreeSets
<1>2. None \notin up
  BY UpPorts, PortEnds
<1>3. r \in TowardsOut(d, p) <=> r \in up /\ DpOf(r) = d /\ Descends(r) /\ r # p
  BY <1>1, TreePorts DEF TowardsOut
<1>4. r \in AwayOut(d, p) <=> /\ r \in up /\ DpOf(r) = d /\ Climbs(r)
                              /\ p # None => PeerDp(r) # PeerDp(p)
  BY <1>1, TreePorts DEF AwayOut
<1>5. p # None => (Descends(p) <=> p \in tree[d].towards)
  BY TreePorts
<1>6. p = None => p \notin tree[d].towards /\ p \notin tree[d].away
  BY <1>1, <1>2
<1>7. CASE ~Reflection
  BY <1>3, <1>4, <1>7, Zenon DEF FloodPorts
<1>8. CASE Reflection /\ d = Root
  <2>1. p # None => p \in tree[d].away
    BY <1>8, RootTree
  <2> QED
    BY <1>2, <1>4, <1>6, <1>8, <2>1 DEF FloodPorts
<1>9. CASE Reflection /\ d # Root
  <2>1. CASE p # None /\ Descends(p)
    <3>1. ASSUME r \in up, DpOf(r) = d, Climbs(r) PROVE PeerDp(r) # PeerDp(p)
      <4>1. ASSUME PeerDp(r) = PeerDp(p) PROVE Descends(r)
        BY <2>1, <3>1, <4>1 DEF Descends
      <4> QED
        BY <3>1, <4>1, OneWay
    <3> QED
      BY <1>4, <1>5, <1>9, <2>1, <3>1 DEF FloodPorts
  <2>2. CASE ~(p # None /\ Descends(p))
    <3>1. p \notin tree[d].towards
      BY <1>5, <1>6, <2>2
    <3>2. Descends(r) /\ r \in up => r # p
      BY <1>2, <2>2
    <3> QED
      BY <1>3, <1>9, <2>2, <3>1, <3>2 DEF FloodPorts
  <2> QED
    BY <2>1, <2>2
<1> QED
  BY <1>7, <1>8, <1>9

\* Where a flood reaches the hosts: everywhere without reflection, at the root
\* and below it with reflection.
LEMMA LocalIf ==
  ASSUME GraphInv, Settled, NEW d \in DP, Linked(d), NEW p,
         p = None \/ (p \in up /\ DpOf(p) = d /\ (Descends(p) \/ Climbs(p)))
  PROVE  FloodsLocally(d, p) <=> ~Reflection \/ d = Root \/ (p # None /\ Descends(p))
<1>1. p # None => (Descends(p) <=> p \in tree[d].towards)
  BY TreePorts
<1>2. p = None => p \notin tree[d].towards
  BY TreeSets, UpPorts, PortEnds
<1> QED
  BY <1>1, <1>2 DEF FloodsLocally
-----------------------------------------------------------------------------
(***************************************************************************)
(* The way of a frame from a host on s: without reflection it spreads from *)
(* s along the tree, with reflection from the root.                        *)
(***************************************************************************)
\* The path of s to the root, and where its frames begin to spread.
Trunk(s) == PathNodes[graph][s]
Origin(s) == IF Reflection THEN Root ELSE s

\* The datapath from which the frame comes to z, and how far z is.
Before(s, z) ==
  IF ~Reflection /\ z \in Trunk(s) \ {s}
  THEN CHOOSE c \in Trunk(s) : c # Root /\ Hop(c) = z
  ELSE Hop(z)
Depth(s, z) ==
  IF Reflection THEN PathLen(graph, z)
  ELSE IF z \in Trunk(s) THEN PathLen(graph, s) - PathLen(graph, z)
  ELSE PathLen(graph, s) + PathLen(graph, z)

\* Port q leads to where the frame comes from.
Carries(s, q) == DpOf(q) # Origin(s) /\ PeerDp(q) = Before(s, DpOf(q))

\* The path of s, from PathFacts.
LEMMA TrunkFacts ==
  ASSUME GraphInv, NEW s \in DP, Linked(s)
  PROVE  /\ s \in Trunk(s) /\ Root \in Trunk(s)
         /\ \A e \in Trunk(s) :
              /\ e \in DP /\ Linked(e) /\ PathLen(graph, e) \in Nat
              /\ PathLen(graph, e) =< PathLen(graph, s) /\ PathLen(graph, s) \in Nat
              /\ e # Root => Hop(e) \in Trunk(s)
              /\ e # s => \E c \in Trunk(s) : c # Root /\ Hop(c) = e
         /\ \A e, c \in Trunk(s) : PathLen(graph, e) = PathLen(graph, c) => e = c
<1>1. graph \in SUBSET Link
  BY TreeAssumption DEF GraphInv
<1>2. PathLen(graph, s) # 0 /\ PathLen(graph, s) \in Nat
  BY <1>1, LengthType DEF Linked
<1> QED
  BY <1>1, <1>2, PathFacts, RootOnPath DEF Trunk, Hop, Linked

\* The frame comes from a neighbour on the tree that is nearer to where it
\* begins, so it comes from there in the end.
LEMMA BeforeFacts ==
  ASSUME GraphInv, NEW s \in DP, Linked(s), NEW z \in DP, Linked(z), z # Origin(s)
  PROVE  /\ Before(s, z) \in DP /\ Linked(Before(s, z))
         /\ \/ z # Root /\ Before(s, z) = Hop(z)
            \/ Before(s, z) # Root /\ Hop(Before(s, z)) = z
         /\ Depth(s, z) \in Nat /\ Depth(s, Before(s, z)) \in Nat
         /\ Depth(s, Before(s, z)) < Depth(s, z)
<1>1. PathLen(graph, z) \in Nat /\ PathLen(graph, z) # 0 /\ PathLen(graph, s) \in Nat
  <2>1. graph \in SUBSET Link
    BY TreeAssumption DEF GraphInv
  <2> QED
    BY <2>1, LengthType DEF Linked
<1>2. z # Root => /\ Hop(z) \in DP /\ Linked(Hop(z))
                  /\ PathLen(graph, Hop(z)) = PathLen(graph, z) - 1
                  /\ PathLen(graph, z) >= 2
  BY Hops
<1>3. CASE Reflection
  BY <1>1, <1>2, <1>3 DEF Origin, Before, Depth
<1>4. CASE ~Reflection /\ z \in Trunk(s)
  <2> DEFINE b == Before(s, z)
  <2>1. z # s
    BY <1>4 DEF Origin
  <2>2. b = CHOOSE c \in Trunk(s) : c # Root /\ Hop(c) = z
    BY <1>4, <2>1 DEF Before
  <2>3. \E c \in Trunk(s) : c # Root /\ Hop(c) = z
    BY <1>4, <2>1, TrunkFacts
  <2>4. b \in Trunk(s) /\ b # Root /\ Hop(b) = z
    BY <2>2, <2>3, Zenon
  <2> HIDE DEF b
  <2>5. b \in DP /\ Linked(b) /\ PathLen(graph, b) \in Nat /\ PathLen(graph, b) =< PathLen(graph, s)
    BY <2>4, TrunkFacts
  <2>6. PathLen(graph, z) = PathLen(graph, b) - 1
    BY <2>4, <2>5, Hops
  <2>7. Depth(s, b) = PathLen(graph, s) - PathLen(graph, b)
        /\ Depth(s, z) = PathLen(graph, s) - PathLen(graph, z)
    BY <1>4, <2>4 DEF Depth
  <2>8. Depth(s, z) \in Nat /\ Depth(s, b) \in Nat /\ Depth(s, b) < Depth(s, z)
    BY <1>1, <2>5, <2>6, <2>7
  <2> QED
    BY <2>4, <2>5, <2>8 DEF b
<1>5. CASE ~Reflection /\ z \notin Trunk(s)
  <2>1. z # Root
    BY <1>5, TrunkFacts
  <2>2. Before(s, z) = Hop(z)
    BY <1>5 DEF Before
  <2>3. Depth(s, z) = PathLen(graph, s) + PathLen(graph, z)
    BY <1>5 DEF Depth
  <2>4. CASE Hop(z) \in Trunk(s)
    <3>1. Depth(s, Hop(z)) = PathLen(graph, s) - PathLen(graph, Hop(z))
      BY <1>5, <2>4 DEF Depth
    <3>2. PathLen(graph, Hop(z)) =< PathLen(graph, s) /\ PathLen(graph, Hop(z)) \in Nat
      BY <2>4, TrunkFacts
    <3> QED
      BY <1>1, <1>2, <2>1, <2>2, <2>3, <3>1, <3>2
  <2>5. CASE Hop(z) \notin Trunk(s)
    <3>1. Depth(s, Hop(z)) = PathLen(graph, s) + PathLen(graph, Hop(z))
      BY <1>5, <2>5 DEF Depth
    <3> QED
      BY <1>1, <1>2, <2>1, <2>2, <2>3, <3>1
  <2> QED
    BY <2>4, <2>5
<1> QED
  BY <1>3, <1>4, <1>5

\* Of a datapath and its next hop, the frame comes to one from the other.
LEMMA TreeEdge ==
  ASSUME GraphInv, NEW s \in DP, Linked(s), NEW d \in DP, Linked(d), d # Root
  PROVE  \/ d # Origin(s) /\ Before(s, d) = Hop(d)
         \/ Hop(d) # Origin(s) /\ Before(s, Hop(d)) = d
<1>1. CASE Reflection
  BY <1>1 DEF Origin, Before
<1>2. CASE ~Reflection /\ d \notin Trunk(s)
  <2>1. d # s
    BY <1>2, TrunkFacts
  <2> QED
    BY <1>2, <2>1 DEF Origin, Before
<1>3. CASE ~Reflection /\ d \in Trunk(s)
  <2> DEFINE x == Hop(d)
  <2>1. x \in Trunk(s)
    BY <1>3, TrunkFacts
  <2>2. /\ PathLen(graph, d) \in Nat /\ PathLen(graph, x) = PathLen(graph, d) - 1
        /\ PathLen(graph, d) =< PathLen(graph, s) /\ PathLen(graph, s) \in Nat
    BY <1>3, Hops, TrunkFacts
  <2>3. x # s
    BY <2>2
  <2>4. ASSUME NEW c \in Trunk(s), c # Root, Hop(c) = x PROVE c = d
    <3>1. c \in DP /\ Linked(c) /\ PathLen(graph, c) \in Nat
      BY TrunkFacts
    <3>2. PathLen(graph, x) = PathLen(graph, c) - 1
      BY <2>4, <3>1, Hops
    <3>3. PathLen(graph, c) = PathLen(graph, d)
      BY <2>2, <3>1, <3>2
    <3> QED
      BY <1>3, <3>3, TrunkFacts
  <2>5. Before(s, x) = CHOOSE c \in Trunk(s) : c # Root /\ Hop(c) = x
    BY <1>3, <2>1, <2>3 DEF Before
  <2>6. (CHOOSE c \in Trunk(s) : c # Root /\ Hop(c) = x) = d
    <3>1. d \in Trunk(s) /\ d # Root /\ Hop(d) = x
      BY <1>3
    <3> HIDE DEF x
    <3> QED
      BY <2>4, <3>1
  <2> QED
    BY <1>3, <2>3, <2>5, <2>6 DEF Origin
<1> QED
  BY <1>1, <1>2, <1>3

\* It comes over a link from one side.
LEMMA OneSide ==
  ASSUME GraphInv, Settled, NEW s \in DP, Linked(s),
         NEW q \in up, Linked(DpOf(q)), Descends(q) \/ Climbs(q)
  PROVE  Carries(s, q) <=> ~Carries(s, Peer(q))
<1> DEFINE d == DpOf(q)
           x == PeerDp(q)
<1>1. d \in DP /\ x \in DP /\ Linked(d) /\ Linked(x)
      /\ DpOf(Peer(q)) = x /\ PeerDp(Peer(q)) = d
  BY UpPorts, PortEnds
<1>2. Carries(s, q) \/ Carries(s, Peer(q))
  BY <1>1, TreeEdge DEF Carries, Descends, Climbs
<1>3. ASSUME Carries(s, q), Carries(s, Peer(q)) PROVE FALSE
  <2>1. /\ Depth(s, x) < Depth(s, d) /\ Depth(s, d) < Depth(s, x)
        /\ Depth(s, x) \in Nat /\ Depth(s, d) \in Nat
    BY <1>1, <1>3, BeforeFacts DEF Carries
  <2> QED
    BY <2>1
<1> QED
  BY <1>2, <1>3

\* With reflection it comes down from the root.
LEMMA ReflectedDown ==
  ASSUME GraphInv, Settled, Reflection, NEW s, NEW q \in up
  PROVE  Carries(s, q) <=> Descends(q)
BY DEF Carries, Descends, Origin, Before

\* The main link on which the frame comes to z.
LEMMA MainTo ==
  ASSUME GraphInv, Settled, NEW s \in DP, Linked(s), NEW z \in DP, Linked(z),
         z # Origin(s)
  PROVE  \E q \in up : /\ DpOf(q) = z /\ PeerDp(q) = Before(s, z) /\ Main(q)
                       /\ Carries(s, q) /\ (Descends(q) \/ Climbs(q))
<1> DEFINE b == Before(s, z)
<1>1. /\ b \in DP /\ Linked(b)
      /\ (z # Root /\ b = Hop(z)) \/ (b # Root /\ Hop(b) = z)
  BY BeforeFacts
<1>2. CASE z # Root /\ b = Hop(z)
  BY <1>2, MainPort DEF Carries
<1>3. CASE b # Root /\ Hop(b) = z
  <2> DEFINE m == tree[b].port
  <2>1. m \in up /\ DpOf(m) = b /\ PeerDp(m) = z /\ Descends(m) /\ Main(m)
    BY <1>1, <1>3, MainPort
  <2>2. /\ Peer(m) \in up /\ DpOf(Peer(m)) = z /\ PeerDp(Peer(m)) = b
        /\ Main(Peer(m)) /\ Climbs(Peer(m))
    BY <2>1, UpPorts, PortEnds, Turned
  <2> QED
    BY <2>2 DEF Carries
<1> QED
  BY <1>1, <1>2, <1>3
-----------------------------------------------------------------------------
(***************************************************************************)
(* The copies fl and the floods lo of a frame of kind k from a host on s.  *)
(***************************************************************************)
\* Port q drops frames of kind k: broadcasts, on links that are not main.
Blocked(k, q) == k = "bcast" /\ ~Main(q)

\* Copies are on the links of the tree.
OnTree(fl) ==
  \A q \in Port : fl[q] > 0 =>
    q \in up /\ Linked(DpOf(q)) /\ (Descends(q) \/ Climbs(q))

\* The frame was where it comes from.
FromBefore(s, lo) ==
  \A z \in DP : lo[z] >= 1 => Linked(z) /\ (z # Origin(s) => lo[Before(s, z)] >= 1)
Behind(s, fl, lo) ==
  \A q \in Port : fl[q] > 0 /\ Carries(s, q) => lo[PeerDp(q)] >= 1

\* Where it was, it was passed on, and no such copy is lost on its way.
PassedOn(s, k, fl, lo) ==
  \A z \in DP : Linked(z) /\ z # Origin(s) /\ lo[Before(s, z)] >= 1 =>
    \/ lo[z] >= 1
    \/ \E q \in Port : fl[q] > 0 /\ DpOf(q) = z /\ Carries(s, q) /\ ~Blocked(k, q)

\* Without reflection it is flooded wherever it comes; with reflection it is
\* on its way to the root until it was there.
Spreading(s, fl, lo) ==
  ~Reflection => lo[s] >= 1 /\ \A q \in Port : fl[q] > 0 => lo[PeerDp(q)] >= 1
Climbing(k, fl, lo) ==
  Reflection => \/ lo[Root] >= 1
                \/ \E q \in Port : fl[q] > 0 /\ Climbs(q) /\ ~Blocked(k, q)

\* On the main links a broadcast comes to each datapath once, from one side.
Once(s, fl, lo) ==
  /\ \A z \in DP : lo[z] =< 1
  /\ \A q \in Port : fl[q] > 0 /\ Carries(s, q) /\ Main(q)
                     => fl[q] = 1 /\ lo[DpOf(q)] = 0
Outward(s, fl) ==
  ~Reflection => \A q \in Port : fl[q] > 0 /\ Main(q) => Carries(s, q)
ClimbsOnce(fl, lo) ==
  Reflection => \A q \in Port : fl[q] > 0 /\ Climbs(q) /\ Main(q) =>
    /\ fl[q] = 1 /\ lo[Root] = 0
    /\ \A r \in Port : fl[r] > 0 /\ Climbs(r) /\ Main(r) => r = q

\* What holds of a frame on its way, and once it was sent.
Way(s, k, fl, lo) ==
  /\ OnTree(fl) /\ FromBefore(s, lo) /\ Behind(s, fl, lo) /\ PassedOn(s, k, fl, lo)
  /\ k = "bcast" => Once(s, fl, lo) /\ Outward(s, fl) /\ ClimbsOnce(fl, lo)
Started(s, k, fl, lo) == Spreading(s, fl, lo) /\ Climbing(k, fl, lo)
Idle(fl, lo) == (\A q \in Port : fl[q] = 0) /\ (\A z \in DP : lo[z] = 0)

\* Datapath d floods the frame that comes in on p, or that a host there sends.
Sent(d, p, q) == Peer(q) \in FloodPorts(d, p)
FloodStep(s, k, d, p, fl, lo, fl2, lo2) ==
  /\ fl \in [Port -> Nat] /\ lo \in [DP -> 0..2]
  /\ Way(s, k, fl, lo)
  /\ \/ p = None /\ d = s /\ Idle(fl, lo)
     \/ p \in Port /\ DpOf(p) = d /\ fl[p] > 0 /\ ~Blocked(k, p) /\ Started(s, k, fl, lo)
  /\ fl2 = [q \in Port |-> fl[q] - (IF q = p THEN 1 ELSE 0)
                                 + (IF Sent(d, p, q) THEN 1 ELSE 0)]
  /\ lo2 = [lo EXCEPT ![d] = IF FloodsLocally(d, p) /\ @ < 2 THEN @ + 1 ELSE @]

\* Where a flood goes, by the main links and next hops.
LEMMA SentIs ==
  ASSUME GraphInv, Settled, NEW d \in DP, Linked(d), NEW p,
         p = None \/ (p \in up /\ DpOf(p) = d /\ (Descends(p) \/ Climbs(p))),
         NEW q \in Port
  PROVE  /\ Sent(d, p, q) <=>
              /\ q \in up /\ PeerDp(q) = d
              /\ IF ~Reflection
                 THEN \/ Climbs(q) /\ Peer(q) # p
                      \/ Descends(q) /\ (p # None => DpOf(q) # PeerDp(p))
                 ELSE IF d = Root
                 THEN Peer(q) = p \/ (Descends(q) /\ (p # None => DpOf(q) # PeerDp(p)))
                 ELSE IF p # None /\ Descends(p) THEN Descends(q) ELSE Climbs(q)
         /\ Sent(d, p, q) => q \in up /\ Linked(DpOf(q)) /\ (Descends(q) \/ Climbs(q))
<1> DEFINE r == Peer(q)
<1>1. /\ r \in Port /\ Peer(r) = q /\ DpOf(r) = PeerDp(q) /\ PeerDp(r) = DpOf(q)
      /\ Descends(r) <=> Climbs(q)
      /\ Climbs(r) <=> Descends(q)
  BY PortEnds, Turned
<1>2. r \in up <=> q \in up
  BY <1>1, UpPorts
<1> HIDE DEF r
<1>3. r \in FloodPorts(d, p) <=>
           /\ r \in up /\ DpOf(r) = d
           /\ IF ~Reflection
              THEN \/ Descends(r) /\ r # p
                   \/ Climbs(r) /\ (p # None => PeerDp(r) # PeerDp(p))
              ELSE IF d = Root
              THEN r = p \/ (Climbs(r) /\ (p # None => PeerDp(r) # PeerDp(p)))
              ELSE IF p # None /\ Descends(p) THEN Climbs(r) ELSE Descends(r)
  BY FloodsTo
<1>4. Sent(d, p, q) <=> r \in FloodPorts(d, p)
  BY DEF Sent, r
<1>5. Sent(d, p, q) =>
           /\ r \in up /\ DpOf(r) = d
           /\ Descends(r) \/ Climbs(r)
  <2>1. r \in up => r # None
    BY UpPorts, PortEnds
  <2> QED
    BY <1>3, <1>4, <2>1
<1>6. Sent(d, p, q) => q \in up /\ Linked(DpOf(q)) /\ (Descends(q) \/ Climbs(q))
  BY <1>1, <1>2, <1>5, UpPorts
<1> QED
  BY <1>1, <1>2, <1>3, <1>4, <1>6 DEF r

\* What a flood changes.
LEMMA FloodFacts ==
  ASSUME GraphInv, Settled, NEW s \in DP, Linked(s), NEW k, NEW d, NEW p,
         NEW fl, NEW lo, NEW fl2, NEW lo2, FloodStep(s, k, d, p, fl, lo, fl2, lo2)
  PROVE  /\ d \in DP /\ Linked(d)
         /\ p = None \/ (p \in up /\ DpOf(p) = d /\ (Descends(p) \/ Climbs(p)))
         /\ p # None => p \in Port /\ fl[p] > 0 /\ ~Blocked(k, p) /\ Started(s, k, fl, lo)
         /\ p = None => d = s /\ Idle(fl, lo)
         /\ fl2 \in [Port -> Nat]
         /\ \A q \in Port :
              /\ Sent(d, p, q) => q # p /\ PeerDp(q) = d /\ DpOf(q) # d /\ fl2[q] = fl[q] + 1
              /\ ~Sent(d, p, q) /\ q # p => fl2[q] = fl[q]
              /\ q = p => fl2[q] = fl[q] - 1
              /\ fl[q] \in Nat /\ fl2[q] \in Nat
         /\ lo2 \in [DP -> 0..2]
         /\ \A z \in DP : /\ z # d => lo2[z] = lo[z]
                          /\ lo2[z] >= lo[z] /\ lo[z] \in 0..2 /\ lo2[z] \in 0..2
         /\ FloodsLocally(d, p) => lo2[d] >= 1 /\ (lo[d] = 0 => lo2[d] = 1)
         /\ ~FloodsLocally(d, p) => lo2[d] = lo[d]
<1>1. p = None \/ (p \in Port /\ fl[p] > 0 /\ DpOf(p) = d)
  BY DEF FloodStep
<1>2. OnTree(fl)
  BY DEF FloodStep, Way
<1>3. p = None \/ (p \in up /\ Linked(DpOf(p)) /\ DpOf(p) = d /\ (Descends(p) \/ Climbs(p)))
  BY <1>1, <1>2 DEF OnTree
<1>4. p # None => p \in Port /\ fl[p] > 0 /\ ~Blocked(k, p) /\ Started(s, k, fl, lo)
  BY DEF FloodStep
<1>5. p = None => d = s /\ Idle(fl, lo)
  BY PortEnds DEF FloodStep
<1>6. d \in DP /\ Linked(d)
  BY <1>3, <1>5, UpPorts
<1>7. ASSUME NEW q \in Port
      PROVE  /\ Sent(d, p, q) => q # p /\ PeerDp(q) = d /\ DpOf(q) # d
  BY <1>3, <1>6, SentIs, PortEnds
<1>8. /\ fl \in [Port -> Nat] /\ lo \in [DP -> 0..2]
      /\ fl2 = [q \in Port |-> fl[q] - (IF q = p THEN 1 ELSE 0)
                                 + (IF Sent(d, p, q) THEN 1 ELSE 0)]
      /\ lo2 = [lo EXCEPT ![d] = IF FloodsLocally(d, p) /\ @ < 2 THEN @ + 1 ELSE @]
  BY DEF FloodStep
<1>9. ASSUME NEW q \in Port
      PROVE  /\ Sent(d, p, q) => fl2[q] = fl[q] + 1
             /\ ~Sent(d, p, q) /\ q # p => fl2[q] = fl[q]
             /\ q = p => fl2[q] = fl[q] - 1
             /\ fl[q] \in Nat /\ fl2[q] \in Nat
  <2>1. fl[q] \in Nat /\ fl2[q] = fl[q] - (IF q = p THEN 1 ELSE 0)
                                 + (IF Sent(d, p, q) THEN 1 ELSE 0)
    BY <1>8
  <2>2. q = p => ~Sent(d, p, q) /\ fl[q] > 0
    BY <1>4, <1>7, PortEnds
  <2> QED
    BY <1>7, <2>1, <2>2
<1>10. fl2 \in [Port -> Nat]
  BY <1>8, <1>9
<1>11. /\ lo2 \in [DP -> 0..2]
       /\ \A z \in DP : /\ z # d => lo2[z] = lo[z]
                        /\ lo2[z] >= lo[z] /\ lo[z] \in 0..2 /\ lo2[z] \in 0..2
       /\ FloodsLocally(d, p) => lo2[d] >= 1 /\ (lo[d] = 0 => lo2[d] = 1)
       /\ ~FloodsLocally(d, p) => lo2[d] = lo[d]
  <2>1. CASE FloodsLocally(d, p)
    <3>1. lo2 = [lo EXCEPT ![d] = IF @ < 2 THEN @ + 1 ELSE @]
      BY <1>8, <2>1
    <3> QED
      BY <1>6, <1>8, <2>1, <3>1
  <2>2. CASE ~FloodsLocally(d, p)
    <3>1. lo2 = [lo EXCEPT ![d] = @]
      BY <1>8, <2>2
    <3> QED
      BY <1>6, <1>8, <2>2, <3>1
  <2> QED
    BY <2>1, <2>2
<1> QED
  BY <1>3, <1>4, <1>5, <1>6, <1>7, <1>9, <1>10, <1>11

\* A flood keeps each part of Way: copies stay on the tree,
LEMMA FloodOnTree ==
  ASSUME GraphInv, Settled, NEW s \in DP, Linked(s), NEW k, NEW d, NEW p,
         NEW fl, NEW lo, NEW fl2, NEW lo2, FloodStep(s, k, d, p, fl, lo, fl2, lo2)
  PROVE  OnTree(fl2)
<1> SUFFICES ASSUME NEW q \in Port, fl2[q] > 0
             PROVE  q \in up /\ Linked(DpOf(q)) /\ (Descends(q) \/ Climbs(q))
  BY DEF OnTree
<1>1. CASE Sent(d, p, q)
  BY <1>1, FloodFacts, SentIs
<1>2. CASE ~Sent(d, p, q)
  <2>1. fl[q] > 0
    BY <1>2, FloodFacts
  <2> QED
    BY <2>1 DEF FloodStep, Way, OnTree
<1> QED
  BY <1>1, <1>2

\* A frame is flooded to the hosts where it comes from, where it comes on its
\* way, or where it has been flooded.
LEMMA Arrival ==
  ASSUME GraphInv, Settled, NEW s \in DP, Linked(s), NEW k, NEW d, NEW p,
         NEW fl, NEW lo, NEW fl2, NEW lo2, FloodStep(s, k, d, p, fl, lo, fl2, lo2),
         FloodsLocally(d, p)
  PROVE  \/ p = None /\ d = Origin(s)
         \/ p # None /\ Carries(s, p) /\ lo[PeerDp(p)] >= 1
         \/ p # None /\ lo[d] >= 1
         \/ p # None /\ Reflection /\ d = Root /\ d = Origin(s)
<1>1. /\ d \in DP /\ Linked(d)
      /\ p = None \/ (p \in up /\ DpOf(p) = d /\ (Descends(p) \/ Climbs(p)))
      /\ p # None => p \in Port /\ fl[p] > 0 /\ Started(s, k, fl, lo)
      /\ p = None => d = s
  BY FloodFacts
<1>2. FloodsLocally(d, p) <=> ~Reflection \/ d = Root \/ (p # None /\ Descends(p))
  BY <1>1, LocalIf
<1>3. CASE p = None
  BY <1>1, <1>2, <1>3 DEF Origin
<1>4. CASE p # None /\ Reflection
  <2>1. d = Root \/ Descends(p)
    BY <1>2, <1>4
  <2>2. Descends(p) => Carries(s, p)
    BY <1>1, <1>4, ReflectedDown
  <2>3. Behind(s, fl, lo)
    BY DEF FloodStep, Way
  <2> QED
    BY <1>1, <1>4, <2>1, <2>2, <2>3 DEF Origin, Behind
<1>5. CASE p # None /\ ~Reflection
  <2>1. lo[PeerDp(p)] >= 1 /\ PeerDp(p) \in DP /\ DpOf(Peer(p)) = PeerDp(p) /\ PeerDp(Peer(p)) = d
    BY <1>1, <1>5, UpPorts, PortEnds DEF Started, Spreading
  <2>2. FromBefore(s, lo)
    BY DEF FloodStep, Way
  <2>3. CASE Carries(s, p)
    BY <1>5, <2>1, <2>3
  <2>4. CASE Carries(s, Peer(p))
    BY <1>5, <2>1, <2>2, <2>4 DEF Carries, FromBefore
  <2>5. Carries(s, p) \/ Carries(s, Peer(p))
    BY <1>1, <1>5, OneSide
  <2> QED
    BY <2>3, <2>4, <2>5
<1> QED
  BY <1>3, <1>4, <1>5

\* they come to a datapath after they came to the one before it,
LEMMA FloodFromBefore ==
  ASSUME GraphInv, Settled, NEW s \in DP, Linked(s), NEW k, NEW d, NEW p,
         NEW fl, NEW lo, NEW fl2, NEW lo2, FloodStep(s, k, d, p, fl, lo, fl2, lo2)
  PROVE  FromBefore(s, lo2)
<1> SUFFICES ASSUME NEW z \in DP, lo2[z] >= 1
             PROVE  Linked(z) /\ (z # Origin(s) => lo2[Before(s, z)] >= 1)
  BY DEF FromBefore
<1>1. FromBefore(s, lo)
  BY DEF FloodStep, Way
<1>2. /\ d \in DP /\ Linked(d)
      /\ p = None \/ (p \in up /\ DpOf(p) = d /\ (Descends(p) \/ Climbs(p)))
      /\ \A c \in DP : /\ c # d => lo2[c] = lo[c]
                       /\ lo2[c] >= lo[c] /\ lo[c] \in 0..2 /\ lo2[c] \in 0..2
      /\ ~FloodsLocally(d, p) => lo2[d] = lo[d]
  BY FloodFacts
<1>3. ASSUME lo[z] >= 1 PROVE Linked(z) /\ (z # Origin(s) => lo2[Before(s, z)] >= 1)
  <2>1. Linked(z) /\ (z # Origin(s) => lo[Before(s, z)] >= 1)
    BY <1>1, <1>3 DEF FromBefore
  <2>2. z # Origin(s) => Before(s, z) \in DP
    BY <2>1, BeforeFacts
  <2> QED
    BY <1>2, <2>1, <2>2
<1>4. ASSUME ~(lo[z] >= 1) PROVE Linked(z) /\ (z # Origin(s) => lo2[Before(s, z)] >= 1)
  <2>1. z = d /\ FloodsLocally(d, p)
    BY <1>2, <1>4
  <2>2. d = Origin(s) \/ (p # None /\ Carries(s, p) /\ lo[PeerDp(p)] >= 1)
    BY <1>4, <2>1, Arrival
  <2>3. p # None => PeerDp(p) \in DP
    BY <1>2, UpPorts
  <2> QED
    BY <1>2, <2>1, <2>2, <2>3 DEF Carries
<1> QED
  BY <1>3, <1>4

\* What is sent on its way is sent where the hosts get it.
LEMMA SentOnward ==
  ASSUME GraphInv, Settled, NEW s \in DP, Linked(s), NEW k, NEW d, NEW p,
         NEW fl, NEW lo, NEW fl2, NEW lo2, FloodStep(s, k, d, p, fl, lo, fl2, lo2),
         NEW q \in Port, Sent(d, p, q), Carries(s, q)
  PROVE  FloodsLocally(d, p)
<1>1. /\ d \in DP /\ Linked(d)
      /\ p = None \/ (p \in up /\ DpOf(p) = d /\ (Descends(p) \/ Climbs(p)))
  BY FloodFacts
<1>2. FloodsLocally(d, p) <=> ~Reflection \/ d = Root \/ (p # None /\ Descends(p))
  BY <1>1, LocalIf
<1>3. ASSUME Reflection, d # Root, ~(p # None /\ Descends(p)) PROVE FALSE
  <2>1. q \in up /\ Linked(DpOf(q)) /\ Climbs(q)
    BY <1>1, <1>3, SentIs
  <2>2. Descends(q)
    BY <1>3, <2>1, ReflectedDown
  <2> QED
    BY <2>1, <2>2, OneWay
<1> QED
  BY <1>2, <1>3

\* a copy is on its way from where the frame was,
LEMMA FloodBehind ==
  ASSUME GraphInv, Settled, NEW s \in DP, Linked(s), NEW k, NEW d, NEW p,
         NEW fl, NEW lo, NEW fl2, NEW lo2, FloodStep(s, k, d, p, fl, lo, fl2, lo2)
  PROVE  Behind(s, fl2, lo2)
<1> SUFFICES ASSUME NEW q \in Port, fl2[q] > 0, Carries(s, q)
             PROVE  lo2[PeerDp(q)] >= 1
  BY DEF Behind
<1>1. /\ Sent(d, p, q) => PeerDp(q) = d
      /\ ~Sent(d, p, q) => fl[q] > 0
      /\ \A c \in DP : lo2[c] >= lo[c] /\ lo[c] \in 0..2 /\ lo2[c] \in 0..2
      /\ FloodsLocally(d, p) => lo2[d] >= 1
  BY FloodFacts
<1>2. CASE Sent(d, p, q)
  BY <1>1, <1>2, SentOnward
<1>3. CASE ~Sent(d, p, q)
  <2>1. lo[PeerDp(q)] >= 1 /\ PeerDp(q) \in DP
    BY <1>1, <1>3, PortEnds DEF FloodStep, Way, Behind
  <2> QED
    BY <1>1, <2>1
<1> QED
  BY <1>2, <1>3

\* Ports with the same ends lead the same way.
LEMMA SameEnds ==
  ASSUME NEW s, NEW p, NEW q, DpOf(p) = DpOf(q), PeerDp(p) = PeerDp(q)
  PROVE  /\ Carries(s, p) <=> Carries(s, q)
         /\ Descends(p) <=> Descends(q)
         /\ Climbs(p) <=> Climbs(q)
BY DEF Carries, Descends, Climbs

\* What is flooded at d is sent to those to which the frame comes from d.
LEMMA SentTo ==
  ASSUME GraphInv, Settled, NEW s \in DP, Linked(s), NEW k, NEW d, NEW p,
         NEW fl, NEW lo, NEW fl2, NEW lo2, FloodStep(s, k, d, p, fl, lo, fl2, lo2),
         FloodsLocally(d, p), lo[d] = 0, NEW z \in DP, Linked(z),
         z # Origin(s), Before(s, z) = d
  PROVE  \E q \in Port : Sent(d, p, q) /\ DpOf(q) = z /\ Carries(s, q) /\ ~Blocked(k, q)
<1>1. /\ d \in DP /\ Linked(d)
      /\ p = None \/ (p \in up /\ DpOf(p) = d /\ (Descends(p) \/ Climbs(p)))
      /\ p # None => p \in Port /\ ~Blocked(k, p)
  BY FloodFacts
<1>2. FloodsLocally(d, p) <=> ~Reflection \/ d = Root \/ (p # None /\ Descends(p))
  BY <1>1, LocalIf
<1>3. PICK q \in up : /\ DpOf(q) = z /\ PeerDp(q) = d /\ Main(q)
                      /\ Carries(s, q) /\ (Descends(q) \/ Climbs(q))
  BY MainTo
<1>4. q \in Port /\ DpOf(Peer(q)) = d /\ PeerDp(Peer(q)) = z /\ ~Blocked(k, q) /\ Linked(DpOf(q))
  BY <1>3, UpPorts, PortEnds DEF Blocked
<1>5. Peer(q) # None /\ (p # None => DpOf(Peer(p)) = PeerDp(p) /\ PeerDp(Peer(p)) = d)
  BY <1>1, <1>4, PortEnds
<1>6. p # None /\ PeerDp(p) = z => ~Carries(s, p)
  <2>1. ASSUME p # None, PeerDp(p) = z PROVE Carries(s, Peer(p))
    BY <1>3, <1>5, <2>1, SameEnds
  <2> QED
    BY <1>1, <2>1, OneSide
<1>7. CASE ~Reflection
  <2>1. p # None => Carries(s, p)
    BY <1>1, <1>7, Arrival
  <2>2. p # None => DpOf(q) # PeerDp(p) /\ Peer(q) # p
    BY <1>3, <1>4, <1>6, <2>1
  <2>3. Sent(d, p, q)
    BY <1>1, <1>3, <1>4, <1>5, <1>7, <2>2, SentIs
  <2> QED
    BY <1>3, <1>4, <2>3
<1>8. CASE Reflection /\ d # Root
  <2>1. p # None /\ Descends(p)
    BY <1>2, <1>8
  <2>2. Descends(q)
    BY <1>3, <1>8, ReflectedDown
  <2>3. Sent(d, p, q)
    BY <1>1, <1>3, <1>4, <1>8, <2>1, <2>2, SentIs
  <2> QED
    BY <1>3, <1>4, <2>3
<1>9. CASE Reflection /\ d = Root
  <2>1. Descends(q)
    BY <1>3, <1>9, ReflectedDown
  <2>2. CASE p # None /\ PeerDp(p) = z
    <3> DEFINE w == Peer(p)
    <3>1. /\ w \in up /\ w \in Port /\ Peer(w) = p /\ DpOf(w) = z /\ PeerDp(w) = d
          /\ Main(w) <=> Main(p)
      BY <1>1, <1>5, <2>2, UpPorts, PortEnds, Turned
    <3>2. Sent(d, p, w)
      BY <1>1, <1>9, <3>1, SentIs
    <3>3. Carries(s, w) /\ ~Blocked(k, w)
      BY <1>1, <1>3, <2>2, <3>1, SameEnds DEF Blocked
    <3> QED
      BY <3>1, <3>2, <3>3
  <2>3. CASE ~(p # None /\ PeerDp(p) = z)
    <3>1. Sent(d, p, q)
      BY <1>1, <1>3, <1>4, <1>9, <2>1, <2>3, SentIs
    <3> QED
      BY <1>3, <1>4, <3>1
  <2> QED
    BY <2>2, <2>3
<1> QED
  BY <1>7, <1>8, <1>9

\* no datapath that the frame came to leaves out the next one,
LEMMA FloodPassedOn ==
  ASSUME GraphInv, Settled, NEW s \in DP, Linked(s), NEW k, NEW d, NEW p,
         NEW fl, NEW lo, NEW fl2, NEW lo2, FloodStep(s, k, d, p, fl, lo, fl2, lo2)
  PROVE  PassedOn(s, k, fl2, lo2)
<1> SUFFICES ASSUME NEW z \in DP, Linked(z), z # Origin(s), lo2[Before(s, z)] >= 1,
                    ~(lo2[z] >= 1)
             PROVE  \E q \in Port : /\ fl2[q] > 0 /\ DpOf(q) = z
                                    /\ Carries(s, q) /\ ~Blocked(k, q)
  BY DEF PassedOn
<1> DEFINE b == Before(s, z)
<1>1. b \in DP
  BY BeforeFacts
<1>2. /\ d \in DP /\ Linked(d)
      /\ p = None \/ (p \in up /\ DpOf(p) = d /\ (Descends(p) \/ Climbs(p)))
      /\ \A q \in Port : /\ Sent(d, p, q) => fl2[q] = fl[q] + 1
                         /\ ~Sent(d, p, q) /\ q # p => fl2[q] = fl[q]
                         /\ fl[q] \in Nat /\ fl2[q] \in Nat
      /\ \A c \in DP : /\ c # d => lo2[c] = lo[c]
                       /\ lo2[c] >= lo[c] /\ lo[c] \in 0..2 /\ lo2[c] \in 0..2
      /\ FloodsLocally(d, p) => lo2[d] >= 1
      /\ ~FloodsLocally(d, p) => lo2[d] = lo[d]
  BY FloodFacts
<1>3. ~(lo[z] >= 1)
  BY <1>2
<1>4. CASE lo[b] >= 1
  <2>1. PICK q \in Port : fl[q] > 0 /\ DpOf(q) = z /\ Carries(s, q) /\ ~Blocked(k, q)
    BY <1>3, <1>4 DEF FloodStep, Way, PassedOn
  <2>2. ASSUME q = p PROVE FALSE
    <3>1. p # None /\ z = d
      BY <1>2, <2>1, <2>2, PortEnds
    <3>2. FloodsLocally(d, p) <=> ~Reflection \/ d = Root \/ (p # None /\ Descends(p))
      BY <1>2, LocalIf
    <3>3. Reflection => Descends(p)
      BY <1>2, <2>1, <2>2, <3>1, ReflectedDown
    <3> QED
      BY <1>2, <3>1, <3>2, <3>3
  <2>3. fl2[q] > 0
    BY <1>2, <2>1, <2>2
  <2> QED
    BY <2>1, <2>3
<1>5. CASE ~(lo[b] >= 1)
  <2>1. b = d /\ FloodsLocally(d, p) /\ lo[d] = 0
    BY <1>1, <1>2, <1>5
  <2>2. PICK q \in Port : Sent(d, p, q) /\ DpOf(q) = z /\ Carries(s, q) /\ ~Blocked(k, q)
    BY <2>1, SentTo
  <2>3. fl2[q] > 0
    BY <1>2, <2>2
  <2> QED
    BY <2>2, <2>3
<1> QED
  BY <1>4, <1>5

\* without reflection it is flooded wherever it comes,
LEMMA FloodSpreading ==
  ASSUME GraphInv, Settled, NEW s \in DP, Linked(s), NEW k, NEW d, NEW p,
         NEW fl, NEW lo, NEW fl2, NEW lo2, FloodStep(s, k, d, p, fl, lo, fl2, lo2)
  PROVE  Spreading(s, fl2, lo2)
<1> SUFFICES ASSUME ~Reflection
             PROVE  lo2[s] >= 1 /\ \A q \in Port : fl2[q] > 0 => lo2[PeerDp(q)] >= 1
  BY DEF Spreading
<1>1. /\ d \in DP /\ Linked(d)
      /\ p = None \/ (p \in up /\ DpOf(p) = d /\ (Descends(p) \/ Climbs(p)))
      /\ p # None => Started(s, k, fl, lo)
      /\ p = None => d = s /\ Idle(fl, lo)
      /\ \A q \in Port : /\ Sent(d, p, q) => PeerDp(q) = d
                         /\ ~Sent(d, p, q) => fl2[q] =< fl[q]
                         /\ fl[q] \in Nat /\ fl2[q] \in Nat
      /\ \A c \in DP : /\ c # d => lo2[c] = lo[c]
                       /\ lo2[c] >= lo[c] /\ lo[c] \in 0..2 /\ lo2[c] \in 0..2
      /\ FloodsLocally(d, p) => lo2[d] >= 1
  BY FloodFacts
<1>2. lo2[d] >= 1
  BY <1>1, LocalIf
<1>3. lo2[s] >= 1
  BY <1>1, <1>2 DEF Started, Spreading
<1>4. ASSUME NEW q \in Port, fl2[q] > 0, ~Sent(d, p, q) PROVE lo2[PeerDp(q)] >= 1
  <2>1. fl[q] > 0 /\ p # None
    BY <1>1, <1>4 DEF Idle
  <2>2. lo[PeerDp(q)] >= 1 /\ PeerDp(q) \in DP
    BY <1>1, <2>1, PortEnds DEF Started, Spreading
  <2> QED
    BY <1>1, <2>2
<1> QED
  BY <1>1, <1>2, <1>3, <1>4

\* with reflection it does not get lost on its way to the root,
LEMMA FloodClimbing ==
  ASSUME GraphInv, Settled, NEW s \in DP, Linked(s), NEW k, NEW d, NEW p,
         NEW fl, NEW lo, NEW fl2, NEW lo2, FloodStep(s, k, d, p, fl, lo, fl2, lo2)
  PROVE  Climbing(k, fl2, lo2)
<1> SUFFICES ASSUME Reflection
             PROVE  \/ lo2[Root] >= 1
                    \/ \E q \in Port : fl2[q] > 0 /\ Climbs(q) /\ ~Blocked(k, q)
  BY DEF Climbing
<1>1. /\ d \in DP /\ Linked(d)
      /\ p = None \/ (p \in up /\ DpOf(p) = d /\ (Descends(p) \/ Climbs(p)))
      /\ p # None => Started(s, k, fl, lo)
      /\ \A q \in Port : /\ Sent(d, p, q) => fl2[q] = fl[q] + 1
                         /\ ~Sent(d, p, q) /\ q # p => fl2[q] = fl[q]
                         /\ fl[q] \in Nat /\ fl2[q] \in Nat
      /\ \A c \in DP : lo2[c] >= lo[c] /\ lo[c] \in 0..2 /\ lo2[c] \in 0..2
      /\ FloodsLocally(d, p) => lo2[d] >= 1
  BY FloodFacts
<1>2. CASE d = Root
  BY <1>1, <1>2, LocalIf
<1>3. CASE d # Root /\ p # None /\ Descends(p)
  <2>1. CASE lo[Root] >= 1
    BY <1>1, <2>1, Parts
  <2>2. CASE ~(lo[Root] >= 1)
    <3>1. PICK q \in Port : fl[q] > 0 /\ Climbs(q) /\ ~Blocked(k, q)
      BY <1>1, <1>3, <2>2 DEF Started, Climbing
    <3>2. q # p
      BY <1>1, <1>3, <3>1, OneWay
    <3>3. fl2[q] > 0
      BY <1>1, <3>1, <3>2
    <3> QED
      BY <3>1, <3>3
  <2> QED
    BY <2>1, <2>2
<1>4. CASE d # Root /\ ~(p # None /\ Descends(p))
  <2> DEFINE m == tree[d].port
             q == Peer(m)
  <2>1. m \in up /\ DpOf(m) = d /\ Descends(m) /\ Main(m)
    BY <1>1, <1>4, MainPort
  <2>2. q \in up /\ q \in Port /\ PeerDp(q) = d /\ Climbs(q) /\ Main(q)
    BY <2>1, UpPorts, PortEnds, Turned
  <2> HIDE DEF q
  <2>3. Sent(d, p, q)
    BY <1>1, <1>4, <2>2, SentIs
  <2>4. fl2[q] > 0
    BY <1>1, <2>2, <2>3
  <2> QED
    BY <2>2, <2>4 DEF Blocked
<1> QED
  BY <1>2, <1>3, <1>4

\* A broadcast that is flooded to the hosts was not flooded there before.
LEMMA FirstFlood ==
  ASSUME GraphInv, Settled, NEW s \in DP, Linked(s), NEW k, NEW d, NEW p,
         NEW fl, NEW lo, NEW fl2, NEW lo2, FloodStep(s, k, d, p, fl, lo, fl2, lo2),
         k = "bcast", FloodsLocally(d, p)
  PROVE  lo[d] = 0
<1>1. /\ d \in DP /\ Linked(d)
      /\ p = None \/ (p \in up /\ DpOf(p) = d /\ (Descends(p) \/ Climbs(p)))
      /\ p # None => p \in Port /\ fl[p] > 0 /\ Main(p)
      /\ p = None => Idle(fl, lo)
  BY FloodFacts DEF Blocked
<1>2. FloodsLocally(d, p) <=> ~Reflection \/ d = Root \/ (p # None /\ Descends(p))
  BY <1>1, LocalIf
<1>3. Once(s, fl, lo) /\ Outward(s, fl) /\ ClimbsOnce(fl, lo)
  BY DEF FloodStep, Way
<1>4. CASE p = None
  BY <1>1, <1>4 DEF Idle
<1>5. CASE p # None /\ Carries(s, p)
  BY <1>1, <1>3, <1>5 DEF Once
<1>6. CASE p # None /\ ~Reflection
  BY <1>1, <1>3, <1>5, <1>6 DEF Outward
<1>7. CASE p # None /\ Reflection /\ Descends(p)
  BY <1>1, <1>5, <1>7, ReflectedDown
<1>8. CASE p # None /\ Reflection /\ ~Descends(p)
  BY <1>1, <1>2, <1>3, <1>8 DEF ClimbsOnce
<1> QED
  BY <1>4, <1>6, <1>7, <1>8

\* a broadcast without reflection never turns back on a main link,
LEMMA FloodOutward ==
  ASSUME GraphInv, Settled, NEW s \in DP, Linked(s), NEW k, NEW d, NEW p,
         NEW fl, NEW lo, NEW fl2, NEW lo2, FloodStep(s, k, d, p, fl, lo, fl2, lo2),
         k = "bcast"
  PROVE  Outward(s, fl2)
<1> SUFFICES ASSUME ~Reflection, NEW q \in Port, fl2[q] > 0, Main(q), ~Carries(s, q)
             PROVE  FALSE
  BY DEF Outward
<1>1. /\ d \in DP /\ Linked(d)
      /\ p = None \/ (p \in up /\ DpOf(p) = d /\ (Descends(p) \/ Climbs(p)))
      /\ p # None => p \in Port /\ fl[p] > 0 /\ Main(p)
      /\ p = None => d = s
      /\ ~Sent(d, p, q) => fl[q] > 0
  BY FloodFacts DEF Blocked
<1>2. Outward(s, fl)
  BY DEF FloodStep, Way
<1>3. Sent(d, p, q)
  BY <1>1, <1>2 DEF Outward
<1>4. q \in up /\ PeerDp(q) = d /\ Linked(DpOf(q)) /\ (Descends(q) \/ Climbs(q))
  BY <1>1, <1>3, SentIs
<1>5. Carries(s, Peer(q))
  BY <1>4, OneSide
<1>6. /\ Peer(q) \in up /\ DpOf(Peer(q)) = d /\ PeerDp(Peer(q)) = DpOf(q) /\ Main(Peer(q))
  BY <1>4, UpPorts, PortEnds, Turned
<1>7. d # Origin(s) /\ Before(s, d) = DpOf(q)
  BY <1>5, <1>6 DEF Carries
<1>8. p # None
  BY <1>1, <1>7 DEF Origin
<1>9. Carries(s, p)
  BY <1>1, <1>2, <1>8 DEF Outward
<1>10. PeerDp(p) = DpOf(q) /\ DpOf(p) = d
  BY <1>1, <1>7, <1>8, <1>9 DEF Carries
<1>11. p = Peer(q)
  BY <1>1, <1>6, <1>8, <1>10, OneMain
<1> QED
  BY <1>1, <1>3, <1>4, <1>8, <1>10, <1>11, SentIs, OneWay

\* it comes to a datapath over one main link and once,
LEMMA FloodOnce ==
  ASSUME GraphInv, Settled, NEW s \in DP, Linked(s), NEW k, NEW d, NEW p,
         NEW fl, NEW lo, NEW fl2, NEW lo2, FloodStep(s, k, d, p, fl, lo, fl2, lo2),
         k = "bcast"
  PROVE  Once(s, fl2, lo2)
<1>1. /\ d \in DP /\ Linked(d)
      /\ p = None \/ (p \in up /\ DpOf(p) = d /\ (Descends(p) \/ Climbs(p)))
      /\ p # None => p \in Port /\ fl[p] > 0 /\ Main(p)
      /\ p = None => Idle(fl, lo)
      /\ \A q \in Port :
           /\ Sent(d, p, q) => q # p /\ PeerDp(q) = d /\ DpOf(q) # d /\ fl2[q] = fl[q] + 1
           /\ ~Sent(d, p, q) /\ q # p => fl2[q] = fl[q]
           /\ q = p => fl2[q] = fl[q] - 1
           /\ fl[q] \in Nat /\ fl2[q] \in Nat
      /\ \A z \in DP : /\ z # d => lo2[z] = lo[z]
                       /\ lo2[z] >= lo[z] /\ lo[z] \in 0..2 /\ lo2[z] \in 0..2
      /\ FloodsLocally(d, p) /\ lo[d] = 0 => lo2[d] = 1
      /\ ~FloodsLocally(d, p) => lo2[d] = lo[d]
  BY FloodFacts DEF Blocked
<1>2. /\ Once(s, fl, lo) /\ Outward(s, fl) /\ FromBefore(s, lo) /\ Behind(s, fl, lo)
      /\ OnTree(fl)
  BY DEF FloodStep, Way
<1>3. ASSUME NEW z \in DP PROVE lo2[z] =< 1
  BY <1>1, <1>2, FirstFlood DEF Once
<1>4. ASSUME NEW q \in Port, fl2[q] > 0, Carries(s, q), Main(q)
      PROVE  fl2[q] = 1 /\ lo2[DpOf(q)] = 0
  <2>1. DpOf(q) \in DP
    BY PortEnds
  <2>2. CASE Sent(d, p, q)
    <3>1. FloodsLocally(d, p) /\ lo[d] = 0
      BY <1>4, <2>2, SentOnward, FirstFlood
    <3>2. fl[q] = 0
      BY <1>1, <1>2, <1>4, <2>2, <3>1 DEF Behind
    <3>3. lo[DpOf(q)] = 0
      <4>1. DpOf(q) # Origin(s) /\ Before(s, DpOf(q)) = d
        BY <1>1, <1>4, <2>2 DEF Carries
      <4> QED
        BY <1>1, <1>2, <2>1, <3>1, <4>1 DEF FromBefore
    <3> QED
      BY <1>1, <2>1, <2>2, <3>2, <3>3
  <2>3. CASE q = p
    <3>1. fl[q] = 1
      BY <1>1, <1>2, <1>4, <2>3 DEF Once
    <3> QED
      BY <1>1, <1>4, <2>3, <3>1
  <2>4. CASE ~Sent(d, p, q) /\ q # p
    <3>1. fl[q] = fl2[q]
      BY <1>1, <2>4
    <3>2. fl[q] = 1 /\ lo[DpOf(q)] = 0
      BY <1>2, <1>4, <3>1 DEF Once
    <3>3. q \in up /\ Linked(DpOf(q))
      BY <1>2, <1>4, <3>1 DEF OnTree
    <3>4. ASSUME DpOf(q) = d, FloodsLocally(d, p) PROVE FALSE
      <4>1. p # None
        BY <1>1, <1>4, <3>1 DEF Idle
      <4>2. Carries(s, p)
        <5>1. CASE ~Reflection
          BY <1>1, <1>2, <4>1, <5>1 DEF Outward
        <5>2. CASE Reflection
          <6>1. d # Root
            BY <1>4, <3>4, <5>2 DEF Carries, Origin
          <6>2. Descends(p)
            BY <1>1, <3>4, <4>1, <5>2, <6>1, LocalIf
          <6> QED
            BY <1>1, <4>1, <5>2, <6>2, ReflectedDown
        <5> QED
          BY <5>1, <5>2
      <4>3. PeerDp(p) = PeerDp(q) /\ DpOf(p) = DpOf(q)
        BY <1>1, <1>4, <3>4, <4>1, <4>2 DEF Carries
      <4>4. p = q
        BY <1>1, <1>4, <3>3, <4>1, <4>3, OneMain
      <4> QED
        BY <2>4, <4>4
    <3>5. lo2[DpOf(q)] = lo[DpOf(q)]
      BY <1>1, <2>1, <3>4
    <3> QED
      BY <3>1, <3>2, <3>5
  <2> QED
    BY <2>2, <2>3, <2>4
<1> QED
  BY <1>3, <1>4 DEF Once

\* and with reflection one copy climbs, which ends at the root.
LEMMA FloodClimbsOnce ==
  ASSUME GraphInv, Settled, NEW s \in DP, Linked(s), NEW k, NEW d, NEW p,
         NEW fl, NEW lo, NEW fl2, NEW lo2, FloodStep(s, k, d, p, fl, lo, fl2, lo2),
         k = "bcast"
  PROVE  ClimbsOnce(fl2, lo2)
<1> SUFFICES ASSUME Reflection, NEW q \in Port, fl2[q] > 0, Climbs(q), Main(q)
             PROVE  /\ fl2[q] = 1 /\ lo2[Root] = 0
                    /\ \A r \in Port : fl2[r] > 0 /\ Climbs(r) /\ Main(r) => r = q
  BY DEF ClimbsOnce
<1>1. /\ d \in DP /\ Linked(d)
      /\ p = None \/ (p \in up /\ DpOf(p) = d /\ (Descends(p) \/ Climbs(p)))
      /\ p # None => p \in Port /\ fl[p] > 0 /\ Main(p)
      /\ p = None => Idle(fl, lo)
      /\ \A r \in Port :
           /\ Sent(d, p, r) => r # p /\ PeerDp(r) = d /\ DpOf(r) # d /\ fl2[r] = fl[r] + 1
           /\ ~Sent(d, p, r) /\ r # p => fl2[r] = fl[r]
           /\ r = p => fl2[r] = fl[r] - 1
           /\ fl[r] \in Nat /\ fl2[r] \in Nat
      /\ \A z \in DP : /\ z # d => lo2[z] = lo[z]
                       /\ lo2[z] >= lo[z] /\ lo[z] \in 0..2 /\ lo2[z] \in 0..2
  BY FloodFacts DEF Blocked
<1>2. ClimbsOnce(fl, lo) /\ OnTree(fl)
  BY DEF FloodStep, Way
\* Copies that climb are sent only by datapaths other than the root, and only
\* for a frame from a host or one that climbs itself.
<1>3. ASSUME NEW r \in Port, Sent(d, p, r), Climbs(r)
      PROVE  d # Root /\ ~(p # None /\ Descends(p)) /\ r \in up /\ DpOf(r) = Hop(d)
  <2>1. r \in up /\ PeerDp(r) = d /\ Linked(DpOf(r))
    BY <1>1, <1>3, SentIs
  <2>2. d # Root /\ DpOf(r) = Hop(d)
    BY <1>3, <2>1 DEF Climbs
  <2>3. ~Descends(r)
    BY <1>3, <2>1, OneWay
  <2> QED
    BY <1>1, <1>3, <2>1, <2>2, <2>3, SentIs
<1>4. ASSUME NEW r \in Port, Sent(d, p, r), Climbs(r), Main(r),
             NEW o \in Port, Sent(d, p, o), Climbs(o), Main(o)
      PROVE  r = o
  <2>1. r \in up /\ o \in up /\ DpOf(r) = DpOf(o)
    BY <1>3, <1>4
  <2>2. PeerDp(r) = PeerDp(o) /\ Linked(DpOf(r))
    BY <1>1, <1>4, SentIs
  <2> QED
    BY <1>4, <2>1, <2>2, OneMain
<1>5. CASE Sent(d, p, q)
  <2>1. d # Root /\ ~(p # None /\ Descends(p))
    BY <1>3, <1>5
  <2>2. CASE p = None
    <3>1. \A r \in Port : fl[r] = 0
      BY <1>1, <2>2 DEF Idle
    <3>2. lo2[Root] = 0
      BY <1>1, <2>1, <2>2, Parts DEF Idle
    <3>3. fl2[q] = 1
      BY <1>1, <1>5, <3>1
    <3>4. ASSUME NEW r \in Port, fl2[r] > 0, Climbs(r), Main(r) PROVE r = q
      <4>1. r # p
        BY <2>2, PortEnds
      <4>2. Sent(d, p, r)
        BY <1>1, <3>1, <3>4, <4>1
      <4> QED
        BY <1>4, <1>5, <3>4, <4>2
    <3> QED
      BY <3>2, <3>3, <3>4
  <2>3. CASE p # None
    <3>1. Climbs(p) /\ Main(p) /\ fl[p] > 0 /\ p \in Port
      BY <1>1, <2>1, <2>3
    <3>2. /\ fl[p] = 1 /\ lo[Root] = 0
          /\ \A r \in Port : fl[r] > 0 /\ Climbs(r) /\ Main(r) => r = p
      BY <1>2, <3>1 DEF ClimbsOnce
    <3>3. fl2[q] = 1 /\ lo2[Root] = 0
      BY <1>1, <1>5, <2>1, <3>2, Parts
    <3>4. ASSUME NEW r \in Port, fl2[r] > 0, Climbs(r), Main(r) PROVE r = q
      <4>1. Sent(d, p, r)
        BY <1>1, <3>1, <3>2, <3>4
      <4> QED
        BY <1>4, <1>5, <3>4, <4>1
    <3> QED
      BY <3>3, <3>4
  <2> QED
    BY <2>2, <2>3
<1>6. CASE ~Sent(d, p, q)
  <2>1. fl[q] > 0
    BY <1>1, <1>6
  <2>2. /\ fl[q] = 1 /\ lo[Root] = 0
        /\ \A r \in Port : fl[r] > 0 /\ Climbs(r) /\ Main(r) => r = q
    BY <1>2, <2>1 DEF ClimbsOnce
  <2>3. q # p
    BY <1>1, <2>2
  <2>4. p # None /\ ~Climbs(p)
    BY <1>1, <2>1, <2>2, <2>3 DEF Idle
  <2>5. Descends(p) /\ d # Root
    BY <1>1, <2>4 DEF Descends
  <2>6. \A r \in Port : Climbs(r) => ~Sent(d, p, r)
    BY <1>3, <2>4, <2>5
  <2>7. fl2[q] = 1 /\ lo2[Root] = 0
    BY <1>1, <1>6, <2>2, <2>3, <2>5, Parts
  <2>8. ASSUME NEW r \in Port, fl2[r] > 0, Climbs(r), Main(r) PROVE r = q
    <3>1. fl[r] > 0
      BY <1>1, <2>6, <2>8
    <3> QED
      BY <2>2, <2>8, <3>1
  <2> QED
    BY <2>7, <2>8
<1> QED
  BY <1>5, <1>6

\* So a flood keeps the frame on its way.
LEMMA FloodKeepsWay ==
  ASSUME GraphInv, Settled, NEW s \in DP, Linked(s), NEW k, NEW d, NEW p,
         NEW fl, NEW lo, NEW fl2, NEW lo2, FloodStep(s, k, d, p, fl, lo, fl2, lo2)
  PROVE  Way(s, k, fl2, lo2) /\ Started(s, k, fl2, lo2)
BY FloodOnTree, FloodFromBefore, FloodBehind, FloodPassedOn, FloodSpreading,
   FloodClimbing, FloodOnce, FloodOutward, FloodClimbsOnce DEF Way, Started

\* A copy that is dropped is not on a main link.
LEMMA DropKeepsWay ==
  ASSUME GraphInv, Settled, NEW s \in DP, Linked(s), NEW k,
         NEW fl \in [Port -> Nat], NEW lo, NEW p \in Port, fl[p] > 0, Blocked(k, p),
         Way(s, k, fl, lo), Started(s, k, fl, lo),
         NEW fl2, fl2 = [fl EXCEPT ![p] = @ - 1]
  PROVE  Way(s, k, fl2, lo) /\ Started(s, k, fl2, lo)
<1>1. \A q \in Port : /\ q # p => fl2[q] = fl[q]
                      /\ fl2[q] > 0 => fl[q] > 0
                      /\ Main(q) \/ ~Blocked(k, q) => fl2[q] = fl[q]
  BY DEF Blocked
<1>2. OnTree(fl2) /\ FromBefore(s, lo) /\ Behind(s, fl2, lo)
  BY <1>1 DEF Way, OnTree, Behind
<1>3. PassedOn(s, k, fl2, lo)
  <2> SUFFICES ASSUME NEW z \in DP, Linked(z), z # Origin(s), lo[Before(s, z)] >= 1,
                      ~(lo[z] >= 1)
               PROVE  \E q \in Port : /\ fl2[q] > 0 /\ DpOf(q) = z
                                      /\ Carries(s, q) /\ ~Blocked(k, q)
    BY DEF PassedOn
  <2>1. PICK q \in Port : fl[q] > 0 /\ DpOf(q) = z /\ Carries(s, q) /\ ~Blocked(k, q)
    BY DEF Way, PassedOn
  <2> QED
    BY <1>1, <2>1
<1>4. k = "bcast" => Once(s, fl2, lo) /\ Outward(s, fl2) /\ ClimbsOnce(fl2, lo)
  <2>1. k = "bcast" => Once(s, fl2, lo) /\ Outward(s, fl2)
    BY <1>1 DEF Way, Once, Outward
  <2>2. k = "bcast" => ClimbsOnce(fl2, lo)
    BY <1>1 DEF Way, ClimbsOnce
  <2> QED
    BY <2>1, <2>2
<1>5. Spreading(s, fl2, lo)
  BY <1>1 DEF Started, Spreading
<1>6. Climbing(k, fl2, lo)
  <2> SUFFICES ASSUME Reflection, ~(lo[Root] >= 1)
               PROVE  \E q \in Port : fl2[q] > 0 /\ Climbs(q) /\ ~Blocked(k, q)
    BY DEF Climbing
  <2>1. PICK q \in Port : fl[q] > 0 /\ Climbs(q) /\ ~Blocked(k, q)
    BY DEF Started, Climbing
  <2> QED
    BY <1>1, <2>1
<1> QED
  BY <1>2, <1>3, <1>4, <1>5, <1>6 DEF Way, Started
-----------------------------------------------------------------------------
(***************************************************************************)
(* The invariant.                                                          *)
(***************************************************************************)
\* The invariant: a frame is on its way if its datapath is connected.
FlowInv ==
  /\ flow = NoFlow => Idle(flying, local)
  /\ flow # NoFlow => Settled
  /\ Connected => /\ Way(flow.src, flow.kind, flying, local)
                  /\ Started(flow.src, flow.kind, flying, local)

StackInv == TypeOK /\ GraphInv /\ FlowInv

\* What only depends on the stack stays as long as the stack does.
LEMMA SameTree ==
  ASSUME UNCHANGED <<links, up, graph, tree>>
  PROVE  /\ Reflection' <=> Reflection
         /\ \A d : Linked(d)' <=> Linked(d)
         /\ \A q : /\ Descends(q)' <=> Descends(q)
                   /\ Climbs(q)' <=> Climbs(q)
                   /\ Main(q)' <=> Main(q)
         /\ \A s : Origin(s)' = Origin(s)
         /\ \A s, z : Before(s, z)' = Before(s, z)
         /\ \A s, q : Carries(s, q)' <=> Carries(s, q)
         /\ \A k, q : Blocked(k, q)' <=> Blocked(k, q)
         /\ GraphInv' <=> GraphInv
         /\ Settled' <=> Settled
<1>1. Reflection' <=> Reflection
  BY DEF Reflection
<1>2. \A d : Linked(d)' <=> Linked(d)
  BY DEF Linked
<1>3. \A d : Hop(d)' = Hop(d)
  BY DEF Hop
<1>4. \A q : Descends(q)' <=> Descends(q)
  BY <1>3 DEF Descends
<1>5. \A q : Climbs(q)' <=> Climbs(q)
  BY <1>3 DEF Climbs
<1>6. \A q : Main(q)' <=> Main(q)
  BY <1>4, <1>5 DEF Main
<1>7. \A s : Origin(s)' = Origin(s)
  BY <1>1 DEF Origin
<1>8. \A s, z : Before(s, z)' = Before(s, z)
  BY DEF Before, Trunk, Hop, Reflection
<1>9. \A s, q : Carries(s, q)' <=> Carries(s, q)
  BY <1>7, <1>8 DEF Carries
<1>10. \A k, q : Blocked(k, q)' <=> Blocked(k, q)
  BY <1>6 DEF Blocked
<1>11. GraphInv' <=> GraphInv
  BY DEF GraphInv
<1>12. Settled' <=> Settled
  BY DEF Settled, reset_peer_distances, TowardsPorts
<1> QED
  BY <1>1, <1>2, <1>4, <1>5, <1>6, <1>7, <1>8, <1>9, <1>10, <1>11, <1>12

\* So does the way of a frame on it.
LEMMA SameWay ==
  ASSUME UNCHANGED <<links, up, graph, tree>>, Connected',
         NEW s, NEW k, s = flow'.src, k = flow'.kind,
         Way(s, k, flying', local'), Started(s, k, flying', local')
  PROVE  /\ Way(flow.src, flow.kind, flying, local)'
         /\ Started(flow.src, flow.kind, flying, local)'
<1>1. OnTree(flying)'
  BY SameTree DEF Way, OnTree
<1>2. FromBefore(flow.src, local)'
  BY SameTree DEF Way, FromBefore
<1>3. Behind(flow.src, flying, local)'
  BY SameTree DEF Way, Behind
<1>4. PassedOn(flow.src, flow.kind, flying, local)'
  BY SameTree DEF Way, PassedOn
<1>5. k = "bcast" => Once(flow.src, flying, local)'
  BY SameTree DEF Way, Once
<1>6. k = "bcast" => Outward(flow.src, flying)'
  BY SameTree DEF Way, Outward
<1>7. k = "bcast" => ClimbsOnce(flying, local)'
  BY SameTree DEF Way, ClimbsOnce
<1>8. Spreading(flow.src, flying, local)'
  BY SameTree DEF Started, Spreading
<1>9. Climbing(flow.kind, flying, local)'
  BY SameTree DEF Started, Climbing
<1> QED
  BY <1>1, <1>2, <1>3, <1>4, <1>5, <1>6, <1>7, <1>8, <1>9 DEF Way, Started

\* A datapath computes sets of ports.
LEMMA TreeType ==
  ASSUME links \in Confs, NEW d, NEW u, NEW g, NEW peers
  PROVE  reset_peer_distances(d, u, g, peers) \in Tree
<1> DEFINE towards == TowardsPorts(d, u, peers)
           away == (PortsOf(d, links) \cap u) \ towards
           first == IF PathLen(g, d) > 1 THEN NextHop(g, d) ELSE PeerDp(First(towards))
           chosen == {p \in towards : PeerDp(p) = first}
           port == IF chosen = {} THEN None ELSE First(chosen)
<1>1. PortsOf(d, links) \in SUBSET Port
  BY TreeAssumption DEF PortsOf, Port
<1>2. towards \in SUBSET Port
  BY <1>1 DEF TowardsPorts
<1>3. away \in SUBSET Port /\ chosen \in SUBSET Port
  BY <1>1, <1>2
<1>4. port \in Port \cup {None}
  <2> HIDE DEF chosen
  <2> QED
    BY <1>3, FirstPort
<1>5. InactivePorts(d, away, g) \in SUBSET Port /\ PrunedPorts(away, u) \in SUBSET Port
  BY <1>3 DEF InactivePorts, PrunedPorts
<1>6. reset_peer_distances(d, u, g, peers) =
        [towards |-> towards, chosen |-> chosen, port |-> port, away |-> away,
         inactive |-> InactivePorts(d, away, g), pruned |-> PrunedPorts(away, u)]
  BY DEF reset_peer_distances
<1> HIDE DEF towards, away, chosen, port
<1> QED
  BY <1>2, <1>3, <1>4, <1>5, <1>6 DEF Tree

\* No frame is no flow.
LEMMA NoFlowIsNone ==
  /\ NoFlow \notin [src : DP, kind : {"bcast", "ucast"}]
  /\ 0 \notin DP
BY DEF NoFlow, DP

\* The invariant holds at the start, and every step keeps it.
LEMMA InitStack == Init => StackInv
<1> SUFFICES ASSUME Init PROVE StackInv
  OBVIOUS
<1>1. [towards |-> {}, chosen |-> {}, port |-> None, away |-> {}, inactive |-> {}, pruned |-> {}]
        \in Tree
  BY DEF Tree
<1>2. TypeOK
  BY <1>1 DEF Init, TypeOK
<1>3. GraphInv
  BY DEF Init, GraphInv
<1>4. FlowInv
  BY DEF Init, FlowInv, Idle, Connected
<1> QED
  BY <1>2, <1>3, <1>4 DEF StackInv

\* A port that changes state when no frame is on its way.
LEMMA PortChangeStack ==
  ASSUME StackInv, NEW p \in Port, NEW state \in {"up", "init", "down"},
         NEW rank, PortChange(p, state, rank)
  PROVE  StackInv'
<1> USE DEF PortChange
<1>1. p \in links \X {"a", "z"} /\ p[1] \in links
  BY DEF Port
<1>2. TypeOK'
  <2>1. links' \in Confs
    BY DEF StackInv, TypeOK
  <2>2. tree' \in [DP -> Tree]
    <3>1. links \in Confs
      BY DEF StackInv, TypeOK
    <3>2. \A d \in DP : reset_peer_distances(d, up', graph',
                [e \in DP |-> IF rank[e] =< rank[d] THEN graph' ELSE graph]) \in Tree
      BY <3>1, TreeType
    <3> QED
      BY <3>2
  <2>3. up' \subseteq links' \X {"a", "z"} /\ graph' \subseteq links'
    BY <1>1 DEF StackInv, TypeOK
  <2> QED
    BY <2>1, <2>2, <2>3 DEF StackInv, TypeOK
<1>3. GraphInv'
  <2>1. links' \in Confs /\ graph' \subseteq links' /\ up' \subseteq links' \X {"a", "z"}
    BY <1>2 DEF TypeOK
  <2>2. Peer(p)[1] = p[1] /\ Peer(p) # p
    BY PortEnds
  <2>3. ASSUME NEW q \in up', Peer(q) \in up' PROVE q[1] \in graph'
    <3>1. q \in Port /\ Peer(Peer(q)) = q /\ Peer(q)[1] = q[1]
      <4>1. q \in Port
        BY <2>1, TreeAssumption DEF Port
      <4> QED
        BY <4>1, PortEnds
    <3>2. CASE state = "up"
      BY <2>3, <3>1, <3>2 DEF StackInv, GraphInv
    <3>3. CASE state # "up"
      <4>1. q \in up /\ Peer(q) \in up /\ q # p /\ Peer(q) # p
        BY <2>3, <3>3
      <4>2. q[1] # p[1]
        <5>1. q[1] = p[1] => q = p \/ q = Peer(p)
          BY <3>1 DEF Port, Peer
        <5> QED
          BY <3>1, <4>1, <5>1, PortEnds
      <4> QED
        BY <3>3, <4>1, <4>2 DEF StackInv, GraphInv
    <3> QED
      BY <3>2, <3>3
  <2>4. ASSUME NEW l \in graph' PROVE \E q \in up' : q[1] = l
    <3>1. CASE state = "up"
      BY <2>4, <3>1 DEF StackInv, GraphInv
    <3>2. CASE state = "init" /\ Peer(p) \in up /\ l = p[1]
      BY <2>2, <3>2
    <3>3. CASE state # "up" /\ l # p[1]
      <4>1. l \in graph
        BY <2>4, <3>3
      <4>2. PICK q \in up : q[1] = l
        BY <4>1 DEF StackInv, GraphInv
      <4> QED
        BY <3>3, <4>2
    <3> QED
      BY <2>4, <3>1, <3>2, <3>3
  <2> QED
    BY <2>1, <2>3, <2>4 DEF GraphInv
<1>4. FlowInv'
  BY DEF StackInv, FlowInv, Idle, Connected
<1> QED
  BY <1>2, <1>3, <1>4 DEF StackInv

\* A frame from a host.
LEMMA SendStack ==
  ASSUME StackInv, Settled, NEW d \in DP, NEW kind \in {"bcast", "ucast"}, Send(d, kind)
  PROVE  StackInv'
<1>1. /\ flow = NoFlow /\ flow' = [src |-> d, kind |-> kind] /\ Flood(d, None)
      /\ UNCHANGED <<links, up, graph, tree>>
  BY DEF Send
<1>2. Idle(flying, local) /\ GraphInv /\ flying \in [Port -> Nat] /\ local \in [DP -> 0..2]
  BY <1>1 DEF StackInv, FlowInv, TypeOK
<1>3. None \notin Port
  BY PortEnds
<1>4. flying' = [q \in Port |-> flying[q] - (IF q = None THEN 1 ELSE 0)
                                 + (IF Sent(d, None, q) THEN 1 ELSE 0)]
      /\ local' = [local EXCEPT ![d] = IF FloodsLocally(d, None) /\ @ < 2 THEN @ + 1 ELSE @]
  BY <1>1 DEF Flood, Sent
<1>5. TypeOK'
  <2>1. flying' \in [Port -> Nat]
    BY <1>2, <1>3, <1>4
  <2>2. local' \in [DP -> 0..2]
    <3>1. local[d] \in 0..2
      BY <1>2
    <3>2. (IF FloodsLocally(d, None) /\ local[d] < 2 THEN local[d] + 1 ELSE local[d]) \in 0..2
      BY <3>1
    <3> QED
      BY <1>2, <1>4, <3>2
  <2>3. flow' \in [src : DP, kind : {"bcast", "ucast"}]
    BY <1>1
  <2> QED
    BY <1>1, <2>1, <2>2, <2>3 DEF StackInv, TypeOK
<1>6. GraphInv' /\ Settled'
  BY <1>1, <1>2, SameTree
<1>7. flow' # NoFlow /\ flow'.src = d /\ flow'.kind = kind
  BY <1>1, NoFlowIsNone
<1>8. ASSUME Connected'
      PROVE  /\ Way(flow.src, flow.kind, flying, local)'
             /\ Started(flow.src, flow.kind, flying, local)'
  <2>1. Linked(d)
    BY <1>1, <1>7, <1>8 DEF Connected, Linked
  <2>2. Way(d, kind, flying, local)
    <3>1. \A q \in Port : flying[q] = 0
      BY <1>2 DEF Idle
    <3>2. \A z \in DP : local[z] = 0
      BY <1>2 DEF Idle
    <3>3. OnTree(flying) /\ Behind(d, flying, local) /\ FromBefore(d, local)
      BY <3>1, <3>2 DEF OnTree, Behind, FromBefore
    <3>4. PassedOn(d, kind, flying, local)
      BY <1>2, <3>2, BeforeFacts, <2>1 DEF PassedOn
    <3>5. Once(d, flying, local) /\ Outward(d, flying) /\ ClimbsOnce(flying, local)
      BY <3>1, <3>2 DEF Once, Outward, ClimbsOnce
    <3> QED
      BY <3>3, <3>4, <3>5 DEF Way
  <2>3. FloodStep(d, kind, d, None, flying, local, flying', local')
    BY <1>2, <1>4, <2>2 DEF FloodStep
  <2>4. Way(d, kind, flying', local') /\ Started(d, kind, flying', local')
    BY <1>2, <2>1, <2>3, FloodKeepsWay
  <2> QED
    BY <1>1, <1>7, <1>8, <2>4, SameWay
<1> QED
  BY <1>5, <1>6, <1>7, <1>8 DEF StackInv, FlowInv

\* A copy that is on its way comes in.
LEMMA ReceiveStack ==
  ASSUME StackInv, NEW p \in Port, Receive(p)
  PROVE  StackInv'
<1>1. /\ flying[p] > 0 /\ UNCHANGED <<links, up, graph, tree, flow>>
      /\ IF Filtered(p) THEN flying' = [flying EXCEPT ![p] = @ - 1] /\ UNCHANGED local
                        ELSE Flood(DpOf(p), p)
  BY DEF Receive
<1>2. GraphInv /\ flying \in [Port -> Nat] /\ local \in [DP -> 0..2]
  BY DEF StackInv, TypeOK
<1>3. flow # NoFlow /\ Settled
  BY <1>1, <1>2 DEF StackInv, FlowInv, Idle
<1> DEFINE d == DpOf(p)
<1>4. d \in DP /\ p # None
  BY PortEnds
<1>5. ASSUME ~Filtered(p)
      PROVE  /\ flying' = [q \in Port |-> flying[q] - (IF q = p THEN 1 ELSE 0)
                                 + (IF Sent(d, p, q) THEN 1 ELSE 0)]
             /\ local' = [local EXCEPT ![d] = IF FloodsLocally(d, p) /\ @ < 2 THEN @ + 1 ELSE @]
  BY <1>1, <1>5 DEF Flood, Sent
<1>6. flying' \in [Port -> Nat] /\ local' \in [DP -> 0..2]
  <2>1. CASE Filtered(p)
    BY <1>1, <1>2, <2>1
  <2>2. CASE ~Filtered(p)
    <3>1. \A q \in Port : flying[q] - (IF q = p THEN 1 ELSE 0)
                            + (IF Sent(d, p, q) THEN 1 ELSE 0) \in Nat
      BY <1>1, <1>2
    <3>2. local[d] \in 0..2
      BY <1>2, <1>4
    <3>3. (IF FloodsLocally(d, p) /\ local[d] < 2 THEN local[d] + 1 ELSE local[d]) \in 0..2
      BY <3>2
    <3>4. flying' \in [Port -> Nat]
      BY <1>5, <2>2, <3>1
    <3> QED
      BY <1>2, <1>5, <2>2, <3>3, <3>4
  <2> QED
    BY <2>1, <2>2
<1>7. TypeOK'
  BY <1>1, <1>6 DEF StackInv, TypeOK
<1>8. GraphInv' /\ Settled'
  BY <1>1, <1>2, <1>3, SameTree
<1>9. ASSUME Connected'
      PROVE  /\ Way(flow.src, flow.kind, flying, local)'
             /\ Started(flow.src, flow.kind, flying, local)'
  <2> DEFINE s == flow.src
             k == flow.kind
  <2>1. Connected
    BY <1>1, <1>9 DEF Connected
  <2>2. s \in DP /\ Linked(s) /\ Way(s, k, flying, local) /\ Started(s, k, flying, local)
    BY <1>3, <2>1 DEF StackInv, TypeOK, FlowInv, Connected, Linked
  <2>3. p \in up /\ Linked(d) /\ (Descends(p) \/ Climbs(p))
    BY <1>1, <2>2 DEF Way, OnTree
  <2>4. Filtered(p) <=> Blocked(k, p)
    BY <1>2, <1>3, <2>3, PrunedIs DEF Filtered, Blocked
  <2>5. CASE Filtered(p)
    <3>1. Way(s, k, flying', local) /\ Started(s, k, flying', local)
      BY <1>1, <1>2, <1>3, <2>2, <2>4, <2>5, DropKeepsWay
    <3>2. local' = local
      BY <1>1, <2>5
    <3> QED
      BY <1>1, <1>9, <3>1, <3>2, SameWay
  <2>6. CASE ~Filtered(p)
    <3>1. FloodStep(s, k, d, p, flying, local, flying', local')
      BY <1>1, <1>2, <1>5, <2>2, <2>4, <2>6 DEF FloodStep
    <3>2. Way(s, k, flying', local') /\ Started(s, k, flying', local')
      BY <1>2, <1>3, <2>2, <3>1, FloodKeepsWay
    <3> QED
      BY <1>1, <1>9, <3>2, SameWay
  <2> QED
    BY <2>5, <2>6
<1> QED
  BY <1>1, <1>3, <1>7, <1>8, <1>9 DEF StackInv, FlowInv

\* A frame that has come to an end.
LEMMA DoneStack ==
  ASSUME StackInv, Done
  PROVE  StackInv'
<1>1. TypeOK'
  BY DEF Done, StackInv, TypeOK
<1>2. GraphInv'
  BY DEF Done, StackInv, GraphInv
<1>3. FlowInv'
  BY DEF Done, Still, FlowInv, Idle, Connected
<1> QED
  BY <1>1, <1>2, <1>3 DEF StackInv

LEMMA NextStack == StackInv /\ [Next]_vars => StackInv'
<1> SUFFICES ASSUME StackInv, [Next]_vars PROVE StackInv'
  OBVIOUS
<1>1. CASE \E p \in Port, state \in {"up", "init", "down"}, rank \in Order :
             PortChange(p, state, rank)
  BY <1>1, PortChangeStack
<1>2. CASE \E d \in DP, kind \in {"bcast", "ucast"} : Settled /\ Send(d, kind)
  BY <1>2, SendStack
<1>3. CASE \E p \in Port : Receive(p)
  BY <1>3, ReceiveStack
<1>4. CASE Done
  BY <1>4, DoneStack
<1>5. CASE UNCHANGED vars
  <2>1. UNCHANGED <<links, up, graph, tree>> /\ UNCHANGED <<flow, flying, local>>
    BY <1>5 DEF vars
  <2>2. TypeOK'
    BY <2>1 DEF StackInv, TypeOK
  <2>3. GraphInv' /\ (Settled' <=> Settled)
    BY <2>1, SameTree DEF StackInv
  <2>4. Connected' =>
           /\ Way(flow.src, flow.kind, flying, local)'
           /\ Started(flow.src, flow.kind, flying, local)'
    <3>1. Connected' => Connected
      BY <2>1 DEF Connected
    <3> QED
      BY <2>1, <3>1, SameWay DEF StackInv, FlowInv
  <2>5. FlowInv'
    BY <2>1, <2>3, <2>4 DEF StackInv, FlowInv, Idle
  <2> QED
    BY <2>2, <2>3, <2>5 DEF StackInv
<1> QED
  BY <1>1, <1>2, <1>3, <1>4, <1>5 DEF Next

\* In a state of the invariant all that have a path are reached in the end: of
\* those that are not, one that is nearest has been passed the frame.
LEMMA ReachesAll == StackInv => AllReached
<1> SUFFICES ASSUME StackInv, Connected, Still, NEW e \in DP, PathLen(graph, e) # 0
             PROVE  local[e] >= 1
  BY DEF AllReached
<1> DEFINE s == flow.src
           k == flow.kind
<1>1. /\ s \in DP /\ Linked(s) /\ Way(s, k, flying, local) /\ Started(s, k, flying, local)
      /\ GraphInv /\ Settled /\ local \in [DP -> 0..2]
  BY DEF StackInv, TypeOK, FlowInv, Connected, Linked
<1> HIDE DEF s, k
<1>2. \A q \in Port : ~(flying[q] > 0)
  BY DEF Still
<1>3. Origin(s) \in DP /\ local[Origin(s)] >= 1
  BY <1>1, <1>2, Parts DEF Started, Spreading, Climbing, Origin
<1> DEFINE missed == {z \in DP : Linked(z) /\ ~(local[z] >= 1)}
           far == {Depth(s, z) : z \in missed}
<1>4. ASSUME NEW z \in missed
      PROVE  /\ z # Origin(s) /\ Before(s, z) \in missed /\ Depth(s, z) \in Nat
             /\ Depth(s, Before(s, z)) \in Nat /\ Depth(s, Before(s, z)) < Depth(s, z)
  <2>1. z # Origin(s)
    BY <1>3
  <2>2. /\ Before(s, z) \in DP /\ Linked(Before(s, z)) /\ Depth(s, z) \in Nat
        /\ Depth(s, Before(s, z)) \in Nat /\ Depth(s, Before(s, z)) < Depth(s, z)
    BY <1>1, <2>1, BeforeFacts
  <2>3. ~(local[Before(s, z)] >= 1)
    BY <1>1, <1>2, <2>1 DEF Way, PassedOn
  <2> QED
    BY <2>1, <2>2, <2>3
<1>5. ASSUME missed # {} PROVE FALSE
  <2>1. far \in SUBSET Nat /\ far # {}
    BY <1>4, <1>5
  <2>2. PICK n \in far : \A m \in far : n =< m
    <3> HIDE DEF far
    <3> QED
      BY <2>1, Least
  <2>3. PICK z \in missed : Depth(s, z) = n
    BY <2>2
  <2>4. Depth(s, Before(s, z)) \in far
    BY <1>4
  <2> QED
    BY <1>4, <2>2, <2>3, <2>4
<1> QED
  BY <1>5 DEF Linked

\* Nor does a broadcast come twice.
LEMMA DuplicatesNone == StackInv => NoDuplicate
BY DEF StackInv, FlowInv, Way, Once, NoDuplicate, Connected

\* Every variable keeps its type: the ports a datapath computes from the graph
\* in reset_peer_distances (valve_stack.py) are ports of its own stack links.
THEOREM TypeCorrect == Spec => []TypeOK
<1>1. StackInv => TypeOK
  BY DEF StackInv
<1> QED
  BY <1>1, InitStack, NextStack, PTL DEF Spec

\* The hosts of a datapath get a broadcast at most once, whatever redundant
\* links the stack has, in whatever order ports come up and go: the two ends of
\* every link make out alike, each from its graph (reset_peer_distances), which
\* link to use, and _flood_actions sends on that in both directions.
THEOREM NeverTwice == Spec => []NoDuplicate
BY InitStack, NextStack, DuplicatesNone, PTL DEF Spec

\* A frame flooded from a datapath with a path to the root reaches the hosts of
\* every other that has one: pruning and reflection (_flood_actions,
\* _mod_flood_actions_to_root) never cut the tree of shortest paths.
THEOREM EveryoneReached == Spec => []AllReached
BY InitStack, NextStack, ReachesAll, PTL DEF Spec
=============================================================================
