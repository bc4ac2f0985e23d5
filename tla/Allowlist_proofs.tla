-------------------------- MODULE Allowlist_proofs --------------------------
(***************************************************************************)
(* _merge and _disjoint are right for every finite set of networks and     *)
(* port ranges: nft gets elements that do not overlap, and they accept     *)
(* what the entries say.                                                   *)
(*                                                                         *)
(* Both functions are loops over a sorted list, here folds.  What a fold   *)
(* makes of every prefix is proved by the least prefix for which it would  *)
(* fail.                                                                   *)
(***************************************************************************)
EXTENDS Allowlist, FiniteSetTheorems, WellFoundedInduction, TLAPS

-----------------------------------------------------------------------------
(* Least and greatest numbers.                                             *)

LEMMA LeastNumber == ASSUME NEW S \in SUBSET Nat, S # {} PROVE \E x \in S : \A y \in S : x <= y
<1>1. PICK x \in S : \A y \in S : ~(<<y, x>> \in OpToRel(<, Nat))
  BY NatLessThanWellFounded, WFMin
<1>2. \A y \in S : ~(y < x)
  BY <1>1 DEF OpToRel
<1> QED
  BY <1>2

LEMMA MaxIs ==
    ASSUME NEW n \in Nat, NEW t \in SUBSET (1..n), t # {}
    PROVE  Max(t) \in t /\ \A y \in t : y <= Max(t)
<1> DEFINE S == {n - x : x \in t}
<1>1. S \in SUBSET Nat /\ S # {}
  <2>1. PICK x : x \in t
    OBVIOUS
  <2>2. n - x \in S
    BY <2>1
  <2> QED
    BY <2>2
<1>2. PICK d \in S : \A y \in S : d <= y
  BY <1>1, LeastNumber
<1>3. PICK x \in t : d = n - x
  OBVIOUS
<1>4. \A y \in t : x >= y
  <2> TAKE y \in t
  <2>1. d <= n - y
    BY <1>2
  <2> QED
    BY <1>3, <2>1
<1>5. \E z \in t : \A y \in t : z >= y
  BY <1>4
<1>6. Max(t) \in t /\ \A y \in t : Max(t) >= y
  BY <1>5 DEF Max
<1> QED
  BY <1>6

\* The greatest of the first k numbers is the last of them.
LEMMA MaxOfPrefix ==
    ASSUME NEW k \in Nat \ {0}
    PROVE  Max(1..k) = k /\ (1..k) \ {k} = 1..(k - 1) /\ 1..k # {}
<1>1. k \in 1..k
  OBVIOUS
<1>2. Max(1..k) \in 1..k /\ k <= Max(1..k)
  BY <1>1, MaxIs
<1> QED
  BY <1>1, <1>2

-----------------------------------------------------------------------------
(* A fold satisfies its equation: the function on the subsets of 1..n that *)
(* the definition of FoldLeft chooses exists.                              *)

TableFor(F, b, n, V, g) ==
    /\ g \in [SUBSET (1..n) -> V]
    /\ \A t \in SUBSET (1..n) : g[t] = IF t = {} THEN b ELSE F[<<g[t \ {Max(t)}], Max(t)>>]

LEMMA TableGrows ==
    ASSUME NEW V, NEW b \in V, NEW n \in Nat, NEW F \in [V \X Nat -> V],
           NEW g, TableFor(F, b, n, V, g)
    PROVE  \E h : TableFor(F, b, n + 1, V, h)
<1> DEFINE h == [t \in SUBSET (1..(n + 1)) |->
                   IF n + 1 \in t THEN F[<<g[t \ {n + 1}], n + 1>>] ELSE g[t]]
<1>1. ASSUME NEW t \in SUBSET (1..(n + 1)) PROVE t \ {n + 1} \in SUBSET (1..n)
  OBVIOUS
<1>2. ASSUME NEW t \in SUBSET (1..(n + 1)), n + 1 \notin t PROVE t \in SUBSET (1..n)
  BY <1>2
<1>3. ASSUME NEW t \in SUBSET (1..(n + 1)) PROVE h[t] \in V
  <2>1. n + 1 \in Nat
    OBVIOUS
  <2>2. CASE n + 1 \in t
    BY <1>1, <2>1, <2>2 DEF TableFor
  <2>3. CASE n + 1 \notin t
    BY <1>2, <2>3 DEF TableFor
  <2> QED
    BY <2>2, <2>3
<1>4. h \in [SUBSET (1..(n + 1)) -> V]
  BY <1>3
<1>5. ASSUME NEW t \in SUBSET (1..(n + 1))
      PROVE  h[t] = IF t = {} THEN b ELSE F[<<h[t \ {Max(t)}], Max(t)>>]
  <2>1. CASE n + 1 \in t
    <3>1. Max(t) = n + 1
      <4>1. n + 1 \in Nat /\ t # {}
        BY <2>1
      <4>2. Max(t) \in t /\ n + 1 <= Max(t)
        BY <2>1, <4>1, MaxIs
      <4>3. Max(t) \in 1..(n + 1)
        BY <4>2
      <4> QED
        BY <4>2, <4>3
    <3>2. h[t \ {n + 1}] = g[t \ {n + 1}] /\ h[t] = F[<<g[t \ {n + 1}], n + 1>>]
      BY <1>1, <2>1
    <3> QED
      BY <2>1, <3>1, <3>2
  <2>2. CASE n + 1 \notin t
    <3>1. t \in SUBSET (1..n) /\ h[t] = g[t]
      BY <1>2, <2>2
    <3>2. CASE t # {}
      <4>1. h[t \ {Max(t)}] = g[t \ {Max(t)}]
        BY <2>2, <3>1
      <4> QED
        BY <3>1, <3>2, <4>1 DEF TableFor
    <3>3. CASE t = {}
      BY <3>1, <3>3 DEF TableFor
    <3> QED
      BY <3>2, <3>3
  <2> QED
    BY <2>1, <2>2
<1> HIDE DEF h
<1> QED
  BY <1>4, <1>5 DEF TableFor

LEMMA TableExists ==
    ASSUME NEW V, NEW b \in V, NEW n \in Nat, NEW F \in [V \X Nat -> V]
    PROVE  \E g : TableFor(F, b, n, V, g)
<1> DEFINE S == {k \in Nat : k <= n /\ ~\E g : TableFor(F, b, k, V, g)}
<1>0. SUFFICES ASSUME S # {} PROVE FALSE
  OBVIOUS
<1>1. PICK k \in S : \A j \in S : k <= j
  BY <1>0, LeastNumber
<1>2. CASE k = 0
  <2> DEFINE h == [t \in SUBSET (1..0) |-> b]
  <2>1. 1..0 = {} /\ \A t \in SUBSET (1..0) : t = {}
    <3>1. 1..0 = {}
      OBVIOUS
    <3> QED
      BY <3>1
  <2>2. TableFor(F, b, 0, V, h)
    BY <2>1 DEF TableFor
  <2> QED
    BY <1>2, <2>2
<1>3. CASE k # 0
  <2>1. k - 1 \in Nat /\ k - 1 <= n /\ k - 1 \notin S
    BY <1>1, <1>3
  <2>2. PICK g : TableFor(F, b, k - 1, V, g)
    BY <2>1
  <2>3. \E h : TableFor(F, b, k - 1 + 1, V, h)
    BY <2>1, <2>2, TableGrows
  <2> QED
    BY <2>3
<1> QED
  BY <1>2, <1>3

-----------------------------------------------------------------------------
(* What holds of no prefix and carries over from each to the next one holds of *)
(* every prefix.                                                               *)

LEMMA EveryPrefix ==
    ASSUME NEW n \in Nat, NEW S, 0 \in S, \A k \in 1..n : k - 1 \in S => k \in S
    PROVE  0..n \subseteq S
<1> DEFINE Bad == {k \in Nat : k <= n /\ k \notin S}
<1>0. SUFFICES ASSUME Bad # {} PROVE FALSE
  OBVIOUS
<1>1. PICK k \in Bad : \A j \in Bad : k <= j
  BY <1>0, LeastNumber
<1>2. k \in 1..n
  OBVIOUS
<1>3. k - 1 \in Nat /\ k - 1 \notin Bad
  BY <1>1, <1>2
<1> QED
  BY <1>2, <1>3

\* A range of addresses or ports, from its first to its last.
Spans == {s \in Int \X Int : s[1] <= s[2]}
Pieces == [span : Int \X Int, ports : Seq(Spans)]

\* What ranges in order have between them.
LEMMA StepsOver ==
    ASSUME NEW a \in Int, NEW b \in Int, NEW c \in Int, NEW d \in Int, b <= c
    PROVE  (a < b /\ c < d => a < d) /\ (a + 1 < b /\ c + 1 < d => a + 1 < d)
OBVIOUS

LEMMA NotPast ==
    ASSUME NEW x \in Int, NEW low \in Int, NEW high \in Int, low <= x, x <= high
    PROVE  ~(high < low) /\ ~(high + 1 < low)
OBVIOUS

LEMMA SpanEnds == \A s \in Spans : s[1] \in Int /\ s[2] \in Int /\ s[1] <= s[2]
BY DEF Spans

LEMMA JoinedType == ASSUME NEW m \in Seq(Spans), NEW r \in Spans PROVE Joined(m, r) \in Seq(Spans)
<1>1. CASE Len(m) > 0 /\ r[1] <= m[Len(m)][2] + 1
  <2> DEFINE n == Len(m)
             q == <<m[n][1], IF r[2] > m[n][2] THEN r[2] ELSE m[n][2]>>
  <2>1. n \in 1..n /\ m[n] \in Spans
    BY <1>1
  <2>2. q \in Spans
    BY <2>1 DEF Spans
  <2>3. Joined(m, r) = [m EXCEPT ![n] = q]
    BY <1>1 DEF Joined
  <2> HIDE DEF q
  <2> QED
    BY <2>1, <2>2, <2>3
<1>2. CASE ~(Len(m) > 0 /\ r[1] <= m[Len(m)][2] + 1)
  BY <1>2 DEF Joined
<1> QED
  BY <1>1, <1>2

LEMMA AddPieceType == ASSUME NEW m \in Seq(Pieces), NEW p \in Pieces
                      PROVE  AddPiece(m, p) \in Seq(Pieces)
<1> DEFINE n == Len(m)
<1>1. CASE p.ports # <<>> /\ n > 0 /\ m[n].span[2] + 1 = p.span[1] /\ m[n].ports = p.ports
  <2> DEFINE q == [m[n] EXCEPT !.span = <<m[n].span[1], p.span[2]>>]
  <2>1. n \in 1..n /\ m[n] \in Pieces
    BY <1>1
  <2>2. q \in Pieces
    BY <1>1, <2>1 DEF Pieces
  <2>3. AddPiece(m, p) = [m EXCEPT ![n] = q]
    BY <1>1, <2>1 DEF AddPiece
  <2> HIDE DEF q
  <2> QED
    BY <2>1, <2>2, <2>3
<1>2. CASE ~(p.ports # <<>> /\ n > 0 /\ m[n].span[2] + 1 = p.span[1] /\ m[n].ports = p.ports)
  BY <1>2 DEF AddPiece
<1> QED
  BY <1>1, <1>2

\* g[k] is what the loop of _merge has after k ranges.
LEMMA MergeLoop ==
    ASSUME NEW s \in Seq(Spans)
    PROVE  \E g \in [0..Len(s) -> Seq(Spans)] :
             /\ g[0] = <<>>
             /\ \A k \in 1..Len(s) : g[k] = Joined(g[k - 1], s[k])
             /\ FoldLeft(Joined, <<>>, s) = g[Len(s)]
<1> DEFINE n == Len(s)
           V == Seq(Spans)
           F == [x \in V \X Nat |-> IF x[2] \in 1..n THEN Joined(x[1], s[x[2]]) ELSE <<>>]
           Eq(h) == h = [t \in SUBSET (1..n) |->
                           IF t = {} THEN <<>> ELSE Joined(h[t \ {Max(t)}], s[Max(t)])]
           iter == CHOOSE h : Eq(h)
           g == [k \in 0..n |-> iter[1..k]]
<1>1. n \in Nat /\ DOMAIN s = 1..n /\ \A i \in 1..n : s[i] \in Spans
  OBVIOUS
<1>2. FoldLeft(Joined, <<>>, s) = iter[1..n]
  BY <1>1 DEF FoldLeft, MapThenFoldSet
<1>3. F \in [V \X Nat -> V]
  BY <1>1, JoinedType
<1>4. PICK h : TableFor(F, <<>>, n, V, h)
  <2> HIDE DEF n, F
  <2>1. <<>> \in V
    OBVIOUS
  <2> QED
    BY <1>1, <1>3, <2>1, TableExists
<1>5. Eq(h)
  <2>1. ASSUME NEW t \in SUBSET (1..n), t # {}
        PROVE  h[t] = Joined(h[t \ {Max(t)}], s[Max(t)])
    <3>1. Max(t) \in 1..n
      BY <1>1, <2>1, MaxIs
    <3>2. h[t \ {Max(t)}] \in V /\ h[t] = F[<<h[t \ {Max(t)}], Max(t)>>]
      BY <1>4, <2>1 DEF TableFor
    <3> QED
      BY <3>1, <3>2
  <2>2. h[{}] = <<>>
    BY <1>4 DEF TableFor
  <2>3. h = [t \in SUBSET (1..n) |-> h[t]]
    BY <1>4 DEF TableFor
  <2> QED
    BY <2>1, <2>2, <2>3
<1>6. Eq(iter)
  <2> HIDE DEF Eq
  <2> QED
    BY <1>5
<1> HIDE DEF iter, F
<1>7. iter[1..0] = <<>>
  <2>1. 1..0 = {} /\ {} \in SUBSET (1..n)
    OBVIOUS
  <2> QED
    BY <1>6, <2>1
<1>8. ASSUME NEW k \in 1..n PROVE iter[1..k] = Joined(iter[1..(k - 1)], s[k])
  <2>1. 1..k \in SUBSET (1..n) /\ k \in Nat \ {0}
    BY <1>1
  <2>2. iter[1..k] = Joined(iter[(1..k) \ {Max(1..k)}], s[Max(1..k)])
    BY <1>6, <2>1, MaxOfPrefix
  <2> QED
    BY <2>1, <2>2, MaxOfPrefix
<1>9. \A k \in 0..n : g[k] = iter[1..k]
  OBVIOUS
<1>10. g[0] = <<>> /\ (\A k \in 1..n : g[k] = Joined(g[k - 1], s[k])) /\ g = [k \in 0..n |-> g[k]]
  <2>1. g = [k \in 0..n |-> g[k]]
    OBVIOUS
  <2> HIDE DEF g
  <2>2. \A k \in 1..n : k \in 0..n /\ k - 1 \in 0..n
    BY <1>1
  <2>3. 0 \in 0..n
    BY <1>1
  <2> QED
    BY <1>7, <1>8, <1>9, <2>1, <2>2, <2>3, Zenon
<1>11. FoldLeft(Joined, <<>>, s) = g[n]
  BY <1>1, <1>2, <1>9
<1> HIDE DEF g
<1>12. \A k \in 0..n : g[k] \in Seq(Spans)
  <2> DEFINE S == {k \in 0..n : g[k] \in Seq(Spans)}
  <2>1. 0 \in S
    BY <1>1, <1>10
  <2>2. ASSUME NEW k \in 1..n, k - 1 \in S PROVE k \in S
    <3>1. g[k] \in Seq(Spans)
      BY <1>1, <1>10, <2>2, JoinedType
    <3> QED
      BY <1>1, <3>1
  <2>3. 0..n \subseteq S
    <3> HIDE DEF S, n
    <3> QED
      BY <1>1, <2>1, <2>2, EveryPrefix
  <2> QED
    BY <2>3
<1> QED
  BY <1>10, <1>11, <1>12

\* g[k] is what the loop of _disjoint has after k stretches of addresses.
LEMMA PieceLoop ==
    ASSUME NEW s \in Seq(Pieces)
    PROVE  \E g \in [0..Len(s) -> Seq(Pieces)] :
             /\ g[0] = <<>>
             /\ \A k \in 1..Len(s) : g[k] = AddPiece(g[k - 1], s[k])
             /\ FoldLeft(AddPiece, <<>>, s) = g[Len(s)]
<1> DEFINE n == Len(s)
           V == Seq(Pieces)
           F == [x \in V \X Nat |-> IF x[2] \in 1..n THEN AddPiece(x[1], s[x[2]]) ELSE <<>>]
           Eq(h) == h = [t \in SUBSET (1..n) |->
                           IF t = {} THEN <<>> ELSE AddPiece(h[t \ {Max(t)}], s[Max(t)])]
           iter == CHOOSE h : Eq(h)
           g == [k \in 0..n |-> iter[1..k]]
<1>1. n \in Nat /\ DOMAIN s = 1..n /\ \A i \in 1..n : s[i] \in Pieces
  OBVIOUS
<1>2. FoldLeft(AddPiece, <<>>, s) = iter[1..n]
  BY <1>1 DEF FoldLeft, MapThenFoldSet
<1>3. F \in [V \X Nat -> V]
  BY <1>1, AddPieceType
<1>4. PICK h : TableFor(F, <<>>, n, V, h)
  <2> HIDE DEF n, F
  <2>1. <<>> \in V
    OBVIOUS
  <2> QED
    BY <1>1, <1>3, <2>1, TableExists
<1>5. Eq(h)
  <2>1. ASSUME NEW t \in SUBSET (1..n), t # {}
        PROVE  h[t] = AddPiece(h[t \ {Max(t)}], s[Max(t)])
    <3>1. Max(t) \in 1..n
      BY <1>1, <2>1, MaxIs
    <3>2. h[t \ {Max(t)}] \in V /\ h[t] = F[<<h[t \ {Max(t)}], Max(t)>>]
      BY <1>4, <2>1 DEF TableFor
    <3> QED
      BY <3>1, <3>2
  <2>2. h[{}] = <<>>
    BY <1>4 DEF TableFor
  <2>3. h = [t \in SUBSET (1..n) |-> h[t]]
    BY <1>4 DEF TableFor
  <2> QED
    BY <2>1, <2>2, <2>3
<1>6. Eq(iter)
  <2> HIDE DEF Eq
  <2> QED
    BY <1>5
<1> HIDE DEF iter, F
<1>7. iter[1..0] = <<>>
  <2>1. 1..0 = {} /\ {} \in SUBSET (1..n)
    OBVIOUS
  <2> QED
    BY <1>6, <2>1
<1>8. ASSUME NEW k \in 1..n PROVE iter[1..k] = AddPiece(iter[1..(k - 1)], s[k])
  <2>1. 1..k \in SUBSET (1..n) /\ k \in Nat \ {0}
    BY <1>1
  <2>2. iter[1..k] = AddPiece(iter[(1..k) \ {Max(1..k)}], s[Max(1..k)])
    BY <1>6, <2>1, MaxOfPrefix
  <2> QED
    BY <2>1, <2>2, MaxOfPrefix
<1>9. \A k \in 0..n : g[k] = iter[1..k]
  OBVIOUS
<1>10. g[0] = <<>> /\ (\A k \in 1..n : g[k] = AddPiece(g[k - 1], s[k])) /\ g = [k \in 0..n |-> g[k]]
  <2>1. g = [k \in 0..n |-> g[k]]
    OBVIOUS
  <2> HIDE DEF g
  <2>2. \A k \in 1..n : k \in 0..n /\ k - 1 \in 0..n
    BY <1>1
  <2>3. 0 \in 0..n
    BY <1>1
  <2> QED
    BY <1>7, <1>8, <1>9, <2>1, <2>2, <2>3, Zenon
<1>11. FoldLeft(AddPiece, <<>>, s) = g[n]
  BY <1>1, <1>2, <1>9
<1> HIDE DEF g
<1>12. \A k \in 0..n : g[k] \in Seq(Pieces)
  <2> DEFINE S == {k \in 0..n : g[k] \in Seq(Pieces)}
  <2>1. 0 \in S
    BY <1>1, <1>10
  <2>2. ASSUME NEW k \in 1..n, k - 1 \in S PROVE k \in S
    <3>1. g[k] \in Seq(Pieces)
      BY <1>1, <1>10, <2>2, AddPieceType
    <3> QED
      BY <1>1, <3>1
  <2>3. 0..n \subseteq S
    <3> HIDE DEF S, n
    <3> QED
      BY <1>1, <2>1, <2>2, EveryPrefix
  <2> QED
    BY <2>3
<1> QED
  BY <1>10, <1>11, <1>12

-----------------------------------------------------------------------------
(* sorted(S): every pair of S, each once, in increasing order.             *)

Pairs == Int \X Int

LEMMA BelowOrders ==
    /\ \A p, q \in Pairs : p = q \/ Below(p, q) \/ Below(q, p)
    /\ \A p, q \in Pairs : Below(p, q) => ~Below(q, p) /\ p # q
    /\ \A p, q, r \in Pairs : Below(p, q) /\ Below(q, r) => Below(p, r)
BY DEF Pairs, Below

LEMMA SmallerRank ==
    ASSUME NEW S, IsFiniteSet(S), NEW T \in SUBSET S, NEW x \in S, x \notin T
    PROVE  /\ IsFiniteSet(T) /\ IsFiniteSet(S)
           /\ Cardinality(T) \in Nat /\ Cardinality(S) \in Nat
           /\ Cardinality(T) < Cardinality(S)
BY FS_Subset, FS_CardinalityType

LEMMA InOrderSorts ==
    ASSUME NEW S \in SUBSET Pairs, IsFiniteSet(S)
    PROVE  /\ InOrder(S) \in Seq(S) /\ Len(InOrder(S)) = Cardinality(S)
           /\ \A p \in S : \E i \in 1..Cardinality(S) : InOrder(S)[i] = p
           /\ \A i, j \in 1..Cardinality(S) : i < j => Below(InOrder(S)[i], InOrder(S)[j])
<1> DEFINE n == Cardinality(S)
           Under(p) == {q \in S : Below(q, p)}
           rank == [p \in S |-> Cardinality(Under(p))]
           s == InOrder(S)
<1>1. n \in Nat /\ IsFiniteSet(0..(n - 1)) /\ Cardinality(0..(n - 1)) = n
  <2>1. n \in Nat
    BY FS_CardinalityType
  <2> HIDE DEF n
  <2> QED
    BY <2>1, FS_Interval
<1>2. ASSUME NEW p \in S PROVE rank[p] \in 0..(n - 1)
  <2>1. Under(p) \in SUBSET S /\ p \notin Under(p)
    BY BelowOrders
  <2> HIDE DEF Under
  <2>2. Cardinality(Under(p)) \in Nat /\ Cardinality(Under(p)) < n
    BY <2>1, SmallerRank
  <2> QED
    BY <1>1, <2>2
<1>3. ASSUME NEW p \in S, NEW q \in S, Below(p, q) PROVE rank[p] < rank[q]
  <2>1. Under(q) \in SUBSET S
    OBVIOUS
  <2>2. IsFiniteSet(Under(q))
    BY <2>1, FS_Subset
  <2>3. Under(p) \in SUBSET Under(q) /\ p \in Under(q) /\ p \notin Under(p)
    BY <1>3, BelowOrders
  <2> HIDE DEF Under
  <2>4. Cardinality(Under(p)) < Cardinality(Under(q))
    BY <2>2, <2>3, SmallerRank
  <2> QED
    BY <2>4
<1> HIDE DEF rank
<1>4. \A p, q \in S : rank[p] = rank[q] => p = q
  <2> SUFFICES ASSUME NEW p \in S, NEW q \in S, p # q PROVE rank[p] # rank[q]
    OBVIOUS
  <2>1. Below(p, q) \/ Below(q, p)
    BY BelowOrders
  <2>2. rank[p] \in Int /\ rank[q] \in Int
    BY <1>2
  <2> QED
    BY <1>3, <2>1, <2>2
<1>5. rank \in Injection(S, 0..(n - 1))
  <2>1. rank \in [S -> 0..(n - 1)]
    BY <1>2 DEF rank
  <2> QED
    BY <1>4, <2>1 DEF Injection, IsInjective
<1>6. rank \in Surjection(S, 0..(n - 1))
  <2> HIDE DEF n
  <2>1. Cardinality(S) = Cardinality(0..(n - 1))
    BY <1>1 DEF n
  <2> QED
    BY <1>1, <1>5, <2>1, FS_Injection
<1>7. \A i \in 1..n : s[i] \in S /\ rank[s[i]] = i - 1
  <2> TAKE i \in 1..n
  <2>1. i - 1 \in 0..(n - 1)
    BY <1>1
  <2>2. PICK p \in S : rank[p] = i - 1
    BY <1>6, <2>1 DEF Surjection
  <2>3. s[i] = CHOOSE r \in S : rank[r] = i - 1
    <3>1. s[i] = CHOOSE r \in S : Cardinality({q \in S : Below(q, r)}) = i - 1
      BY DEF InOrder
    <3>2. \A r \in S : rank[r] = Cardinality({q \in S : Below(q, r)})
      BY DEF rank
    <3> QED
      BY <3>1, <3>2
  <2> QED
    BY <2>2, <2>3
<1>8. s \in Seq(S) /\ Len(s) = n
  <2> DEFINE At(i) == CHOOSE p \in S : Cardinality({q \in S : Below(q, p)}) = i - 1
  <2>0. s = [i \in 1..n |-> At(i)]
    BY DEF InOrder
  <2> HIDE DEF s, At
  <2>1. s = [i \in 1..n |-> s[i]]
    BY <2>0
  <2> QED
    BY <1>1, <1>7, <2>1
<1> HIDE DEF s
<1>9. \A p \in S : \E i \in 1..n : s[i] = p
  <2> TAKE p \in S
  <2>1. rank[p] + 1 \in 1..n
    BY <1>1, <1>2
  <2>2. rank[s[rank[p] + 1]] = rank[p] /\ s[rank[p] + 1] \in S
    BY <1>2, <1>7, <2>1
  <2> QED
    BY <1>4, <2>1, <2>2
<1>10. \A i, j \in 1..n : i < j => Below(s[i], s[j])
  <2> SUFFICES ASSUME NEW i \in 1..n, NEW j \in 1..n, i < j PROVE Below(s[i], s[j])
    OBVIOUS
  <2>1. s[i] \in S /\ s[j] \in S /\ rank[s[i]] = i - 1 /\ rank[s[j]] = j - 1
    BY <1>7
  <2>2. s[i] # s[j] /\ ~Below(s[j], s[i])
    BY <1>1, <1>3, <2>1
  <2> QED
    BY <2>1, <2>2, BelowOrders
<1> QED
  BY <1>8, <1>9, <1>10 DEF s

-----------------------------------------------------------------------------
(* _merge: the ranges it returns neither overlap nor touch, and hold what  *)
(* the given ones hold.  The loop keeps that for the ranges it has seen;   *)
(* the sorting is what makes the last one start no later than the next.    *)

Covered(m, a) == \E i \in 1..Len(m) : Has(m[i], a)

Gapped(m) == \A i, j \in 1..Len(m) : i < j => m[i][2] + 1 < m[j][1]

LEMMA JoinedKeeps ==
    ASSUME NEW m \in Seq(Spans), Gapped(m), NEW r \in Spans,
           Len(m) > 0 => m[Len(m)][1] <= r[1]
    PROVE  LET q == Joined(m, r) IN
           /\ Gapped(q) /\ Len(q) > 0 /\ q[Len(q)][1] <= r[1]
           /\ \A a \in Int : Covered(q, a) <=> Covered(m, a) \/ Has(r, a)
<1> DEFINE q == Joined(m, r)
           n == Len(m)
<1>0. n \in Nat /\ \A i \in 1..n : m[i] \in Spans
  OBVIOUS
<1>1. CASE n > 0 /\ r[1] <= m[n][2] + 1
  <2> DEFINE w == <<m[n][1], IF r[2] > m[n][2] THEN r[2] ELSE m[n][2]>>
  <2>1. q = [m EXCEPT ![n] = w] /\ n \in 1..n
    BY <1>0, <1>1 DEF Joined
  <2>2. /\ w \in Spans /\ w[1] = m[n][1] /\ w[1] <= r[1] /\ w[2] >= m[n][2] /\ m[n] \in Spans
        /\ \A a \in Int : Has(w, a) <=> Has(m[n], a) \/ Has(r, a)
    <3>1. m[n] \in Spans
      BY <1>0, <2>1
    <3>2. /\ m[n][1] \in Int /\ m[n][2] \in Int /\ m[n][1] <= m[n][2]
          /\ r[1] \in Int /\ r[2] \in Int /\ r[1] <= r[2]
      BY <3>1 DEF Spans
    <3> QED
      BY <1>1, <3>1, <3>2 DEF Spans, Has
  <2> HIDE DEF w
  <2>3. Len(q) = n /\ q[n] = w /\ \A i \in 1..n : i # n => q[i] = m[i]
    BY <2>1
  <2> HIDE DEF q
  <2>4. Gapped(q)
    <3> SUFFICES ASSUME NEW i \in 1..n, NEW j \in 1..n, i < j PROVE q[i][2] + 1 < q[j][1]
      BY <2>3 DEF Gapped
    <3>1. i # n /\ m[i][2] + 1 < m[j][1]
      BY <1>0 DEF Gapped
    <3> QED
      BY <2>2, <2>3, <3>1
  <2>5. \A a \in Int : Covered(q, a) <=> Covered(m, a) \/ Has(r, a)
    <3> TAKE a \in Int
    <3>1. Covered(q, a) <=> Has(w, a) \/ \E i \in 1..n : i # n /\ Has(m[i], a)
      BY <2>1, <2>3 DEF Covered
    <3>2. Covered(m, a) <=> Has(m[n], a) \/ \E i \in 1..n : i # n /\ Has(m[i], a)
      BY <2>1 DEF Covered
    <3> QED
      BY <2>2, <3>1, <3>2
  <2> QED
    BY <1>1, <2>2, <2>3, <2>4, <2>5 DEF q
<1>2. CASE ~(n > 0 /\ r[1] <= m[n][2] + 1)
  <2>1. q = Append(m, r)
    BY <1>2 DEF Joined
  <2>2. Len(q) = n + 1 /\ q[n + 1] = r /\ \A i \in 1..n : q[i] = m[i]
    BY <2>1
  <2> HIDE DEF q
  <2>3. Gapped(q)
    <3> SUFFICES ASSUME NEW i \in 1..(n + 1), NEW j \in 1..(n + 1), i < j
                 PROVE  q[i][2] + 1 < q[j][1]
      BY <2>2 DEF Gapped
    <3>1. CASE j = n + 1
      <4>1. i \in 1..n /\ n \in 1..n /\ n > 0
        BY <1>0, <3>1
      <4>2. m[n] \in Spans /\ m[i] \in Spans
        BY <1>0, <4>1
      <4>3. i # n => m[i][2] + 1 < m[n][1]
        BY <4>1 DEF Gapped
      <4>4. m[n][2] + 1 < r[1]
        <5>1. ~(r[1] <= m[n][2] + 1)
          BY <1>2, <4>1
        <5>2. m[n][2] \in Int /\ r[1] \in Int
          BY <4>2, SpanEnds
        <5> QED
          BY <5>1, <5>2
      <4>5. m[i][2] + 1 < r[1]
        <5>1. /\ m[n][1] \in Int /\ m[n][2] \in Int /\ m[n][1] <= m[n][2]
              /\ m[i][2] \in Int /\ r[1] \in Int
          BY <4>2, SpanEnds
        <5>2. CASE i = n
          BY <4>4, <5>2
        <5>3. CASE i # n
          BY <4>3, <4>4, <5>1, <5>3, StepsOver
        <5> QED
          BY <5>2, <5>3
      <4> QED
        BY <2>2, <3>1, <4>1, <4>5
    <3>2. CASE j # n + 1
      <4>1. i \in 1..n /\ j \in 1..n
        BY <1>0, <3>2
      <4> QED
        BY <2>2, <4>1 DEF Gapped
    <3> QED
      BY <3>1, <3>2
  <2>4. \A a \in Int : Covered(q, a) <=> Covered(m, a) \/ Has(r, a)
    <3> TAKE a \in Int
    <3>1. \A i \in 1..(n + 1) : i = n + 1 \/ i \in 1..n
      BY <1>0
    <3>2. n + 1 \in 1..(n + 1) /\ \A i \in 1..n : i \in 1..(n + 1)
      BY <1>0
    <3> QED
      BY <2>2, <3>1, <3>2 DEF Covered
  <2> QED
    BY <1>0, <2>2, <2>3, <2>4 DEF q, Spans
<1> QED
  BY <1>1, <1>2

\* _merge (worker/egress.py) loses no address and adds none, however the ranges of any
\* finite set overlap, touch or hold each other; what it returns does not overlap.
THEOREM MergeExact ==
    ASSUME NEW R \in SUBSET Spans, IsFiniteSet(R)
    PROVE  /\ Merge(R) \in Seq(Spans) /\ Gapped(Merge(R))
           /\ \A a \in Int : Covered(Merge(R), a) <=> \E r \in R : Has(r, a)
<1> DEFINE s == InOrder(R)
           n == Len(s)
<1>1. /\ s \in Seq(Spans) /\ n \in Nat /\ \A i \in 1..n : s[i] \in R /\ s[i] \in Spans
      /\ \A p \in R : \E i \in 1..n : s[i] = p
      /\ \A i, j \in 1..n : i < j => Below(s[i], s[j])
  <2>1. R \in SUBSET Pairs
    BY DEF Spans, Pairs
  <2>2. s \in Seq(R)
    BY <2>1, InOrderSorts
  <2> QED
    BY <2>1, <2>2, InOrderSorts
<1> HIDE DEF s
<1>2. PICK g \in [0..n -> Seq(Spans)] :
        /\ g[0] = <<>> /\ \A k \in 1..n : g[k] = Joined(g[k - 1], s[k])
        /\ FoldLeft(Joined, <<>>, s) = g[n]
  BY <1>1, MergeLoop
<1>3. Merge(R) = g[n]
  BY <1>2 DEF Merge, s
<1> DEFINE Good(k) ==
             /\ Gapped(g[k])
             /\ k > 0 => Len(g[k]) > 0 /\ g[k][Len(g[k])][1] <= s[k][1]
             /\ \A a \in Int : Covered(g[k], a) <=> \E i \in 1..k : Has(s[i], a)
           S == {k \in 0..n : Good(k)}
<1>4. 0 \in S
  <2>1. Good(0)
    BY <1>2 DEF Gapped, Covered
  <2> QED
    BY <1>1, <2>1
<1>5. ASSUME NEW k \in 1..n, k - 1 \in S PROVE k \in S
  <2> DEFINE m == g[k - 1]
  <2>1. m \in Seq(Spans) /\ Gapped(m) /\ s[k] \in Spans /\ g[k] = Joined(m, s[k]) /\ k - 1 \in 0..n
    BY <1>1, <1>2, <1>5
  <2>2. Len(m) > 0 => m[Len(m)][1] <= s[k][1]
    <3>1. CASE k = 1
      BY <1>2, <3>1
    <3>2. CASE k # 1
      <4>1. k - 1 \in 1..n /\ k - 1 < k
        BY <1>1, <3>2
      <4>2. Below(s[k - 1], s[k]) /\ s[k - 1] \in Spans
        BY <1>1, <4>1
      <4>3. m[Len(m)][1] <= s[k - 1][1] /\ Len(m) > 0
        BY <1>5, <4>1
      <4>4. m[Len(m)] \in Spans
        BY <2>1, <4>3
      <4> QED
        <5>1. /\ m[Len(m)][1] \in Int /\ s[k - 1][1] \in Int /\ s[k][1] \in Int
              /\ s[k - 1][1] <= s[k][1]
          BY <2>1, <4>2, <4>4, SpanEnds DEF Below
        <5> QED
          BY <4>3, <5>1
    <3> QED
      BY <3>1, <3>2
  <2>3. \A a \in Int : Covered(m, a) <=> \E i \in 1..(k - 1) : Has(s[i], a)
    BY <1>5
  <2> HIDE DEF m
  <2>4. /\ Gapped(g[k]) /\ Len(g[k]) > 0 /\ g[k][Len(g[k])][1] <= s[k][1]
        /\ \A a \in Int : Covered(g[k], a) <=> Covered(m, a) \/ Has(s[k], a)
    BY <2>1, <2>2, JoinedKeeps
  <2>5. ASSUME NEW a \in Int PROVE Covered(g[k], a) <=> \E i \in 1..k : Has(s[i], a)
    <3>1. /\ k \in 1..k /\ \A i \in 1..k : i = k \/ i \in 1..(k - 1)
          /\ \A i \in 1..(k - 1) : i \in 1..k
      OBVIOUS
    <3> QED
      BY <2>3, <2>4, <3>1
  <2>6. Good(k)
    BY <2>4, <2>5
  <2> HIDE DEF Good
  <2> QED
    BY <1>1, <2>6
<1>6. n \in S
  <2> HIDE DEF S, n
  <2>1. 0..n \subseteq S
    BY <1>1, <1>4, <1>5, EveryPrefix
  <2> QED
    BY <1>1, <2>1
<1>7. Good(n)
  <2> HIDE DEF Good
  <2> QED
    BY <1>6
<1>8. \A a \in Int : (\E i \in 1..n : Has(s[i], a)) <=> \E r \in R : Has(r, a)
  BY <1>1
<1> QED
  BY <1>1, <1>2, <1>3, <1>7, <1>8

-----------------------------------------------------------------------------
(* _disjoint cuts the addresses at every end of an entry: between two cuts *)
(* every entry holds all addresses or none.                                *)

Entries == Spans \X Spans

LEMMA CutsAreEnds ==
    ASSUME NEW E \in SUBSET Entries, IsFiniteSet(E)
    PROVE  LET c == Cuts(E) IN
           /\ c \in Seq(Pairs)
           /\ \A i, j \in 1..Len(c) : i < j => c[i][1] < c[j][1]
           /\ \A e \in E : /\ \E i \in 1..Len(c) : c[i][1] = e[1][1]
                           /\ \E j \in 1..Len(c) : c[j][1] = e[1][2] + 1
<1> DEFINE A == {e[1][1] : e \in E}
           B == {e[1][2] + 1 : e \in E}
           C == {<<c, 0>> : c \in A \union B}
           c == Cuts(E)
<1>1. A \in SUBSET Int /\ B \in SUBSET Int /\ C \in SUBSET Pairs
  BY DEF Entries, Spans, Pairs
<1>2. IsFiniteSet(A)
  <2> DEFINE f == [e \in E |-> e[1][1]]
  <2>1. f \in Surjection(E, A)
    BY DEF Surjection
  <2> HIDE DEF A, f
  <2> QED
    BY <2>1, FS_Surjection
<1>3. IsFiniteSet(B)
  <2> DEFINE f == [e \in E |-> e[1][2] + 1]
  <2>1. f \in Surjection(E, B)
    BY DEF Surjection
  <2> HIDE DEF B, f
  <2> QED
    BY <2>1, FS_Surjection
<1>4. IsFiniteSet(C)
  <2> HIDE DEF A, B
  <2> DEFINE f == [x \in A \union B |-> <<x, 0>>]
  <2>1. f \in Surjection(A \union B, C)
    BY DEF Surjection
  <2>2. IsFiniteSet(A \union B)
    BY <1>2, <1>3, FS_Union
  <2> HIDE DEF C, f
  <2> QED
    BY <2>1, <2>2, FS_Surjection
<1>5. c = InOrder(C)
  BY DEF Cuts
<1>6. \A p \in C : p[2] = 0 /\ p \in Pairs
  BY <1>1
<1>7. \A e \in E : <<e[1][1], 0>> \in C /\ <<e[1][2] + 1, 0>> \in C
  OBVIOUS
<1> HIDE DEF C, c
<1>8. /\ c \in Seq(C) /\ Len(c) = Cardinality(C)
      /\ \A p \in C : \E i \in 1..Len(c) : c[i] = p
      /\ \A i, j \in 1..Len(c) : i < j => Below(c[i], c[j])
  BY <1>1, <1>4, <1>5, InOrderSorts
<1>9. ASSUME NEW i \in 1..Len(c), NEW j \in 1..Len(c), i < j PROVE c[i][1] < c[j][1]
  <2>1. c[i] \in C /\ c[j] \in C /\ Below(c[i], c[j])
    BY <1>8, <1>9
  <2> QED
    BY <1>6, <2>1 DEF Below, Pairs
<1>10. ASSUME NEW e \in E
       PROVE  /\ \E i \in 1..Len(c) : c[i][1] = e[1][1]
              /\ \E j \in 1..Len(c) : c[j][1] = e[1][2] + 1
  <2>1. PICK i \in 1..Len(c) : c[i] = <<e[1][1], 0>>
    BY <1>7, <1>8
  <2>2. PICK j \in 1..Len(c) : c[j] = <<e[1][2] + 1, 0>>
    BY <1>7, <1>8
  <2> QED
    BY <2>1, <2>2
<1>11. c \in Seq(Pairs)
  BY <1>1, <1>8
<1> QED
  BY <1>9, <1>10, <1>11 DEF c

\* Every address of an entry lies between two neighbouring cuts.
LEMMA BetweenCuts ==
    ASSUME NEW E \in SUBSET Entries, IsFiniteSet(E), NEW e \in E, NEW a \in Int, Has(e[1], a)
    PROVE  \E i \in 1..(Len(Cuts(E)) - 1) : Cuts(E)[i][1] <= a /\ a < Cuts(E)[i + 1][1]
<1> DEFINE c == Cuts(E)
<1>1. /\ c \in Seq(Pairs)
      /\ \A i, j \in 1..Len(c) : i < j => c[i][1] < c[j][1]
      /\ \E i \in 1..Len(c) : c[i][1] = e[1][1]
      /\ \E j \in 1..Len(c) : c[j][1] = e[1][2] + 1
  BY CutsAreEnds
<1> HIDE DEF c
<1>2. PICK u \in 1..Len(c) : c[u][1] = e[1][1]
  BY <1>1
<1>3. PICK v \in 1..Len(c) : c[v][1] = e[1][2] + 1
  BY <1>1
<1>4. e[1][1] <= a /\ a < e[1][2] + 1 /\ e[1][1] \in Int /\ e[1][2] \in Int
  BY DEF Has, Entries, Spans
<1>5. Len(c) \in Nat /\ \A i \in 1..Len(c) : c[i][1] \in Int
  <2>1. Len(c) \in Nat /\ \A i \in 1..Len(c) : c[i] \in Pairs
    BY <1>1
  <2> QED
    BY <2>1 DEF Pairs
<1> DEFINE S == {j \in 1..Len(c) : a < c[j][1]}
<1>6. S \in SUBSET Nat /\ v \in S
  BY <1>3, <1>4
<1>7. PICK j \in S : \A y \in S : j <= y
  BY <1>6, LeastNumber
<1>8. u < j
  <2>1. j \in 1..Len(c) /\ a < c[j][1]
    BY <1>7
  <2>2. c[u][1] \in Int /\ c[j][1] \in Int /\ c[u][1] < c[j][1]
    BY <1>2, <1>4, <1>5, <2>1
  <2>3. j < u => c[j][1] < c[u][1]
    BY <1>1, <2>1
  <2>4. ~(j < u) /\ j # u
    BY <2>2, <2>3
  <2> QED
    BY <2>1, <2>4
<1>9. j - 1 \in 1..(Len(c) - 1) /\ j - 1 \in 1..Len(c) /\ j - 1 \notin S
  BY <1>5, <1>7, <1>8
<1>10. c[j - 1][1] <= a /\ a < c[(j - 1) + 1][1]
  BY <1>5, <1>7, <1>9
<1> QED
  BY <1>9, <1>10 DEF c

\* What lies between two cuts has the ports of every entry over each of its addresses.
LEMMA PieceExact ==
    ASSUME NEW E \in SUBSET Entries, IsFiniteSet(E), NEW i \in 1..(Len(Cuts(E)) - 1)
    PROVE  LET p == PieceAt(E, Cuts(E), i) IN
           /\ p \in Pieces /\ p.span \in Spans /\ Gapped(p.ports)
           /\ p.span = <<Cuts(E)[i][1], Cuts(E)[i + 1][1] - 1>>
           /\ \A a, x \in Int : Has(p.span, a) =>
                (Covered(p.ports, x) <=> \E e \in E : Has(e[1], a) /\ Has(e[2], x))
<1> DEFINE c == Cuts(E)
           span == <<c[i][1], c[i + 1][1] - 1>>
           F == {f \in E : Inside(span, <<f[1]>>)}
           R == {e[2] : e \in F}
           p == PieceAt(E, c, i)
<1>1. /\ c \in Seq(Pairs)
      /\ \A k, j \in 1..Len(c) : k < j => c[k][1] < c[j][1]
      /\ \A e \in E : /\ \E k \in 1..Len(c) : c[k][1] = e[1][1]
                      /\ \E j \in 1..Len(c) : c[j][1] = e[1][2] + 1
  BY CutsAreEnds
<1>2. p = [span |-> span, ports |-> Merge(R)]
  BY DEF PieceAt
<1> HIDE DEF c, p
<1>3. /\ Len(c) \in Nat /\ i \in 1..Len(c) /\ i + 1 \in 1..Len(c)
      /\ \A k \in 1..Len(c) : c[k][1] \in Int
  <2>1. Len(c) \in Nat /\ \A k \in 1..Len(c) : c[k] \in Pairs
    BY <1>1
  <2>2. i \in 1..(Len(c) - 1)
    BY DEF c
  <2>3. \A k \in 1..Len(c) : c[k][1] \in Int
    BY <2>1 DEF Pairs
  <2> QED
    BY <2>1, <2>2, <2>3
<1>4. span \in Spans /\ span[1] = c[i][1] /\ span[2] = c[i + 1][1] - 1
  BY <1>1, <1>3 DEF Spans
<1>5. ASSUME NEW e \in E PROVE Inside(span, <<e[1]>>) <=> e[1][1] <= span[1] /\ span[2] <= e[1][2]
  <2>1. ToSet(<<e[1]>>) = {e[1]}
    BY DEF ToSet
  <2> QED
    BY <2>1 DEF Inside
<1>6. ASSUME NEW e \in E, NEW a \in Int, Has(span, a) PROVE Inside(span, <<e[1]>>) <=> Has(e[1], a)
  <2> HIDE DEF span
  <2>1. e[1][1] \in Int /\ e[1][2] \in Int
    BY DEF Entries, Spans
  <2>2. Inside(span, <<e[1]>>) => Has(e[1], a)
    BY <1>4, <1>5, <1>6, <2>1 DEF Has, Spans
  <2>3. ASSUME Has(e[1], a) PROVE Inside(span, <<e[1]>>)
    <3>1. PICK u \in 1..Len(c) : c[u][1] = e[1][1]
      BY <1>1
    <3>2. PICK v \in 1..Len(c) : c[v][1] = e[1][2] + 1
      BY <1>1
    <3>a. /\ c[i][1] \in Int /\ c[i + 1][1] \in Int /\ c[u][1] \in Int /\ c[v][1] \in Int
      BY <1>3
    <3>b. span[1] <= a /\ a <= span[2] /\ e[1][1] <= a /\ a <= e[1][2]
      BY <1>6, <2>3 DEF Has
    <3>3. c[i][1] <= a /\ a < c[i + 1][1] /\ c[u][1] <= a /\ a < c[v][1]
      <4>1. c[i][1] <= a /\ a <= c[i + 1][1] - 1
        BY <1>4, <3>b
      <4>2. c[u][1] <= a /\ a + 1 <= c[v][1]
        BY <2>1, <3>1, <3>2, <3>b
      <4>3. a < c[i + 1][1]
        BY <3>a, <4>1
      <4>4. a < c[v][1]
        BY <3>a, <4>2
      <4> QED
        BY <4>1, <4>2, <4>3, <4>4
    <3>4. u <= i /\ i + 1 <= v
      <4>1. i + 1 <= u => i + 1 = u \/ c[i + 1][1] < c[u][1]
        BY <1>1, <1>3
      <4>2. v <= i => v = i \/ c[v][1] < c[i][1]
        BY <1>1, <1>3
      <4>3. ~(i + 1 <= u)
        BY <3>a, <3>3, <4>1
      <4>4. ~(v <= i)
        BY <3>a, <3>3, <4>2
      <4> QED
        BY <1>3, <4>3, <4>4
    <3>5. c[u][1] <= c[i][1]
      <4>1. u < i => c[u][1] < c[i][1]
        BY <1>1, <1>3
      <4> QED
        BY <3>a, <3>4, <4>1
    <3>6. c[i + 1][1] <= c[v][1]
      <4>1. i + 1 < v => c[i + 1][1] < c[v][1]
        BY <1>1, <1>3
      <4>2. i + 1 = v \/ i + 1 < v
        BY <1>3, <3>4
      <4>3. CASE i + 1 = v
        BY <3>a, <4>3
      <4>4. CASE i + 1 < v
        BY <3>a, <4>1, <4>4
      <4> QED
        BY <4>2, <4>3, <4>4
    <3>7. e[1][1] <= span[1]
      BY <1>4, <3>1, <3>5
    <3>8. span[2] <= e[1][2]
      <4>1. span[2] = c[i + 1][1] - 1 /\ c[i + 1][1] <= e[1][2] + 1
        BY <1>4, <3>2, <3>6
      <4>2. \A x, y \in Int : x <= y + 1 => x - 1 <= y
        OBVIOUS
      <4> QED
        BY <2>1, <3>a, <4>1, <4>2
    <3> QED
      BY <1>5, <3>7, <3>8
  <2> QED
    BY <2>2, <2>3
<1>7. R \in SUBSET Spans /\ IsFiniteSet(R)
  <2>1. R \in SUBSET Spans
    BY DEF Entries
  <2>2. IsFiniteSet(F)
    BY FS_Subset
  <2> DEFINE h == [e \in F |-> e[2]]
  <2>3. h \in Surjection(F, R)
    <3> HIDE DEF F
    <3> QED
      BY DEF Surjection
  <2> HIDE DEF R, F, h
  <2> QED
    BY <2>1, <2>2, <2>3, FS_Surjection
<1>8. /\ Merge(R) \in Seq(Spans) /\ Gapped(Merge(R))
      /\ \A x \in Int : Covered(Merge(R), x) <=> \E r \in R : Has(r, x)
  <2> HIDE DEF R
  <2> QED
    BY <1>7, MergeExact
<1>9. ASSUME NEW a \in Int, NEW x \in Int, Has(span, a)
      PROVE  (\E r \in R : Has(r, x)) <=> \E e \in E : Has(e[1], a) /\ Has(e[2], x)
  <2>1. \A e \in E : e \in F <=> Has(e[1], a)
    <3> HIDE DEF span
    <3> QED
      BY <1>6, <1>9
  <2> HIDE DEF F
  <2>2. F \subseteq E
    BY DEF F
  <2> QED
    BY <2>1, <2>2
<1> HIDE DEF span, R
<1>10. p.span = span /\ p.ports = Merge(R)
  BY <1>2
<1>11. p \in Pieces
  BY <1>2, <1>4, <1>8 DEF Pieces, Spans
<1>12. span = <<Cuts(E)[i][1], Cuts(E)[i + 1][1] - 1>>
  BY DEF span, c
<1>13. p = PieceAt(E, Cuts(E), i)
  BY DEF p, c
<1> QED
  BY <1>4, <1>8, <1>9, <1>10, <1>11, <1>12, <1>13

-----------------------------------------------------------------------------
(* The loop of _disjoint keeps the pieces apart and in order, whether it   *)
(* drops a piece without ports, joins it to its neighbour or appends it.   *)

Laid(m) ==
    /\ \A i \in 1..Len(m) : m[i].span \in Spans /\ Gapped(m[i].ports)
    /\ \A i, j \in 1..Len(m) : i < j => m[i].span[2] < m[j].span[1]

Opens(p, a, x) == Has(p.span, a) /\ Covered(p.ports, x)

Opened(m, a, x) == \E i \in 1..Len(m) : Opens(m[i], a, x)

LEMMA AddPieceKeeps ==
    ASSUME NEW m \in Seq(Pieces), Laid(m),
           NEW p \in Pieces, p.span \in Spans, Gapped(p.ports),
           Len(m) > 0 => m[Len(m)].span[2] < p.span[1]
    PROVE  LET q == AddPiece(m, p) IN
           /\ Laid(q)
           /\ Len(q) > 0 => q[Len(q)].span[2] <= p.span[2]
           /\ \A a, x \in Int : Opened(q, a, x) <=> Opened(m, a, x) \/ Opens(p, a, x)
<1> DEFINE q == AddPiece(m, p)
           n == Len(m)
<1>0. /\ n \in Nat /\ \A i \in 1..n : m[i] \in Pieces /\ m[i].span \in Spans
      /\ p.span[1] \in Int /\ p.span[2] \in Int /\ p.span[1] <= p.span[2]
  BY DEF Laid, Spans
<1>1. CASE p.ports = <<>>
  <2>1. q = m
    BY <1>1 DEF AddPiece
  <2>2. n > 0 => m[n].span[2] <= p.span[2]
    BY <1>0 DEF Spans
  <2>3. \A a, x \in Int : ~Opens(p, a, x)
    <3>1. Len(p.ports) = 0
      BY <1>1
    <3> QED
      BY <3>1 DEF Opens, Covered
  <2> QED
    BY <2>1, <2>2, <2>3
<1>2. CASE /\ p.ports # <<>> /\ n > 0 /\ m[n].span[2] + 1 = p.span[1]
           /\ m[n].ports = p.ports
  <2> DEFINE w == [m[n] EXCEPT !.span = <<m[n].span[1], p.span[2]>>]
  <2>1. q = [m EXCEPT ![n] = w] /\ n \in 1..n /\ m[n] \in Pieces /\ m[n].span \in Spans
    <3>1. n \in 1..n
      BY <1>0, <1>2
    <3> QED
      BY <1>0, <1>2, <3>1 DEF AddPiece
  <2>2. w.span = <<m[n].span[1], p.span[2]>> /\ w.ports = p.ports
    BY <1>2, <2>1 DEF Pieces
  <2> HIDE DEF w
  <2>3. w.span \in Spans /\ w.span[1] = m[n].span[1] /\ w.span[2] = p.span[2]
    BY <1>0, <1>2, <2>1, <2>2 DEF Spans
  <2>4. \A a, x \in Int : Opens(w, a, x) <=> Opens(m[n], a, x) \/ Opens(p, a, x)
    <3> SUFFICES ASSUME NEW a \in Int PROVE Has(w.span, a) <=> Has(m[n].span, a) \/ Has(p.span, a)
      BY <1>2, <2>2 DEF Opens
    <3> QED
      BY <1>0, <1>2, <2>1, <2>3 DEF Has, Spans
  <2>5. Len(q) = n /\ q[n] = w /\ \A i \in 1..n : i # n => q[i] = m[i]
    BY <2>1
  <2> HIDE DEF q
  <2>6. Laid(q)
    <3>1. ASSUME NEW i \in 1..n PROVE q[i].span \in Spans /\ Gapped(q[i].ports)
      <4>1. CASE i = n
        BY <2>2, <2>3, <2>5, <4>1
      <4>2. CASE i # n
        BY <2>5, <4>2 DEF Laid
      <4> QED
        BY <4>1, <4>2
    <3>2. ASSUME NEW i \in 1..n, NEW j \in 1..n, i < j PROVE q[i].span[2] < q[j].span[1]
      <4>1. i # n /\ m[i].span[2] < m[j].span[1]
        BY <1>0, <3>2 DEF Laid
      <4> QED
        BY <2>3, <2>5, <4>1
    <3> QED
      BY <2>5, <3>1, <3>2 DEF Laid
  <2>7. ASSUME NEW a \in Int, NEW x \in Int
        PROVE  Opened(q, a, x) <=> Opened(m, a, x) \/ Opens(p, a, x)
    <3>1. Opened(q, a, x) <=> Opens(w, a, x) \/ \E i \in 1..n : i # n /\ Opens(m[i], a, x)
      BY <2>1, <2>5 DEF Opened
    <3>2. Opened(m, a, x) <=> Opens(m[n], a, x) \/ \E i \in 1..n : i # n /\ Opens(m[i], a, x)
      BY <2>1 DEF Opened
    <3> QED
      BY <2>4, <3>1, <3>2
  <2>8. q[Len(q)].span[2] <= p.span[2]
    BY <1>0, <2>3, <2>5
  <2> QED
    BY <2>6, <2>7, <2>8 DEF q
<1>3. CASE p.ports # <<>> /\ ~(n > 0 /\ m[n].span[2] + 1 = p.span[1] /\ m[n].ports = p.ports)
  <2>1. q = Append(m, p)
    BY <1>3 DEF AddPiece
  <2>2. Len(q) = n + 1 /\ q[n + 1] = p /\ \A i \in 1..n : q[i] = m[i]
    BY <2>1
  <2> HIDE DEF q
  <2>3. \A i \in 1..(n + 1) : i = n + 1 \/ i \in 1..n
    BY <1>0
  <2>4. n + 1 \in 1..(n + 1) /\ \A i \in 1..n : i \in 1..(n + 1)
    BY <1>0
  <2>5. Laid(q)
    <3>1. ASSUME NEW i \in 1..(n + 1) PROVE q[i].span \in Spans /\ Gapped(q[i].ports)
      BY <2>2, <2>3 DEF Laid
    <3>2. ASSUME NEW i \in 1..(n + 1), NEW j \in 1..(n + 1), i < j
          PROVE  q[i].span[2] < q[j].span[1]
      <4>1. CASE j = n + 1
        <5>1. i \in 1..n /\ n \in 1..n /\ n > 0
          BY <1>0, <3>2, <4>1
        <5>2. m[i].span \in Spans /\ m[n].span \in Spans /\ m[n].span[2] < p.span[1]
          BY <1>0, <5>1
        <5>3. i # n => m[i].span[2] < m[n].span[1]
          BY <5>1 DEF Laid
        <5> QED
          <6>1. /\ m[i].span[2] \in Int /\ m[n].span[1] \in Int /\ m[n].span[2] \in Int
                /\ m[n].span[1] <= m[n].span[2]
            BY <5>2, SpanEnds
          <6>2. m[i].span[2] < p.span[1]
            <7>1. CASE i = n
              BY <5>2, <7>1
            <7>2. CASE i # n
              BY <1>0, <5>2, <5>3, <6>1, <7>2, StepsOver
            <7> QED
              BY <7>1, <7>2
          <6> QED
            BY <2>2, <4>1, <5>1, <6>2
      <4>2. CASE j # n + 1
        <5>1. i \in 1..n /\ j \in 1..n
          BY <1>0, <3>2, <4>2
        <5> QED
          BY <2>2, <3>2, <5>1 DEF Laid
      <4> QED
        BY <4>1, <4>2
    <3> QED
      BY <2>2, <3>1, <3>2 DEF Laid
  <2>6. ASSUME NEW a \in Int, NEW x \in Int
        PROVE  Opened(q, a, x) <=> Opened(m, a, x) \/ Opens(p, a, x)
    BY <2>2, <2>3, <2>4 DEF Opened
  <2>7. q[Len(q)].span[2] <= p.span[2]
    BY <1>0, <2>2
  <2> QED
    BY <2>5, <2>6, <2>7 DEF q
<1> QED
  BY <1>1, <1>2, <1>3

\* What the loop over all stretches gives: pieces apart from each other, open where
\* the entries are.
LEMMA PiecesExact ==
    ASSUME NEW E \in SUBSET Entries, IsFiniteSet(E)
    PROVE  LET m == FoldLeft(AddPiece, <<>>,
                      [i \in 1..(Len(Cuts(E)) - 1) |-> PieceAt(E, Cuts(E), i)]) IN
           /\ m \in Seq(Pieces) /\ Laid(m)
           /\ \A a, x \in Int : Opened(m, a, x) <=> \E e \in E : Has(e[1], a) /\ Has(e[2], x)
<1> DEFINE c == Cuts(E)
           s == [i \in 1..(Len(c) - 1) |-> PieceAt(E, c, i)]
           n == Len(s)
<1>1. /\ c \in Seq(Pairs) /\ Len(c) \in Nat
      /\ \A i, j \in 1..Len(c) : i < j => c[i][1] < c[j][1]
  BY CutsAreEnds
<1>2. \A i \in 1..(Len(c) - 1) :
        /\ s[i] \in Pieces /\ s[i].span \in Spans /\ Gapped(s[i].ports)
        /\ s[i].span[1] = c[i][1] /\ s[i].span[2] = c[i + 1][1] - 1
        /\ \A a, x \in Int : Has(s[i].span, a) =>
             (Covered(s[i].ports, x) <=> \E e \in E : Has(e[1], a) /\ Has(e[2], x))
  <2> TAKE i \in 1..(Len(c) - 1)
  <2>1. s[i] = PieceAt(E, c, i)
    OBVIOUS
  <2> HIDE DEF s
  <2>2. /\ s[i] \in Pieces /\ s[i].span \in Spans /\ Gapped(s[i].ports)
        /\ s[i].span = <<c[i][1], c[i + 1][1] - 1>>
        /\ \A a, x \in Int : Has(s[i].span, a) =>
             (Covered(s[i].ports, x) <=> \E e \in E : Has(e[1], a) /\ Has(e[2], x))
    BY <2>1, PieceExact
  <2>3. s[i].span[1] = c[i][1] /\ s[i].span[2] = c[i + 1][1] - 1
    BY <2>2
  <2> QED
    BY <2>2, <2>3
<1>3. s \in Seq(Pieces) /\ n \in Nat /\ 1..n = 1..(Len(c) - 1) /\ (n > 0 => n = Len(c) - 1)
  <2>1. s = [i \in 1..(Len(c) - 1) |-> s[i]]
    OBVIOUS
  <2>2. CASE Len(c) = 0
    <3>1. 1..(Len(c) - 1) = 1..0
      BY <2>2
    <3> HIDE DEF s, c
    <3>2. s = [i \in 1..0 |-> s[i]]
      BY <2>1, <3>1
    <3>3. s \in Seq(Pieces) /\ n = 0
      BY <3>2
    <3> QED
      BY <3>1, <3>3
  <2>3. CASE Len(c) # 0
    <3>1. Len(c) - 1 \in Nat
      BY <1>1, <2>3
    <3> HIDE DEF s
    <3> QED
      BY <1>2, <2>1, <3>1
  <2> QED
    BY <2>2, <2>3
<1> HIDE DEF s, c
<1>4. PICK g \in [0..n -> Seq(Pieces)] :
        /\ g[0] = <<>> /\ \A k \in 1..n : g[k] = AddPiece(g[k - 1], s[k])
        /\ FoldLeft(AddPiece, <<>>, s) = g[n]
  BY <1>3, PieceLoop
<1> DEFINE Good(k) ==
             /\ Laid(g[k])
             /\ k > 0 /\ Len(g[k]) > 0 => g[k][Len(g[k])].span[2] <= s[k].span[2]
             /\ \A a, x \in Int : Opened(g[k], a, x) <=> \E i \in 1..k : Opens(s[i], a, x)
           S == {k \in 0..n : Good(k)}
<1>5. 0 \in S
  <2>1. Good(0)
    BY <1>4 DEF Laid, Opened
  <2> HIDE DEF Good
  <2> QED
    BY <1>3, <2>1
<1>6. ASSUME NEW k \in 1..n, k - 1 \in S PROVE k \in S
  <2> DEFINE m == g[k - 1]
  <2>1. k - 1 \in 0..n /\ Good(k - 1)
    <3> HIDE DEF Good
    <3> QED
      BY <1>6
  <2>2. /\ m \in Seq(Pieces) /\ Laid(m) /\ g[k] = AddPiece(m, s[k])
        /\ s[k] \in Pieces /\ s[k].span \in Spans /\ Gapped(s[k].ports)
    BY <1>2, <1>3, <1>4, <2>1
  <2>3. Len(m) > 0 => m[Len(m)].span[2] < s[k].span[1]
    <3>1. CASE k = 1
      BY <1>4, <3>1
    <3>2. CASE k # 1
      <4> SUFFICES ASSUME Len(m) > 0 PROVE m[Len(m)].span[2] < s[k].span[1]
        OBVIOUS
      <4>1. k - 1 \in 1..n /\ k - 1 > 0
        BY <1>3, <3>2
      <4>2. m[Len(m)].span[2] <= s[k - 1].span[2]
        BY <2>1, <4>1
      <4>3. s[k - 1].span[2] = c[k][1] - 1 /\ s[k].span[1] = c[k][1] /\ s[k].span \in Spans
        BY <1>2, <1>3, <4>1
      <4>4. m[Len(m)].span \in Spans
        BY <2>2 DEF Laid
      <4> QED
        <5>1. m[Len(m)].span[2] \in Int /\ s[k].span[1] \in Int
          BY <4>3, <4>4, SpanEnds
        <5> QED
          BY <4>2, <4>3, <5>1
    <3> QED
      BY <3>1, <3>2
  <2>4. \A a, x \in Int : Opened(m, a, x) <=> \E i \in 1..(k - 1) : Opens(s[i], a, x)
    BY <2>1
  <2> HIDE DEF m
  <2>5. /\ Laid(g[k])
        /\ Len(g[k]) > 0 => g[k][Len(g[k])].span[2] <= s[k].span[2]
        /\ \A a, x \in Int : Opened(g[k], a, x) <=> Opened(m, a, x) \/ Opens(s[k], a, x)
    BY <2>2, <2>3, AddPieceKeeps
  <2>6. ASSUME NEW a \in Int, NEW x \in Int
        PROVE  Opened(g[k], a, x) <=> \E i \in 1..k : Opens(s[i], a, x)
    <3>1. /\ k \in 1..k /\ \A i \in 1..k : i = k \/ i \in 1..(k - 1)
          /\ \A i \in 1..(k - 1) : i \in 1..k
      OBVIOUS
    <3> QED
      BY <2>4, <2>5, <3>1
  <2>7. Good(k)
    BY <2>5, <2>6
  <2> HIDE DEF Good
  <2> QED
    BY <1>3, <2>7
<1>7. Good(n)
  <2> HIDE DEF S, n, Good
  <2>1. 0..n \subseteq S
    BY <1>3, <1>5, <1>6, EveryPrefix
  <2> QED
    BY <1>3, <2>1 DEF S
<1>8. ASSUME NEW a \in Int, NEW x \in Int
      PROVE  (\E i \in 1..n : Opens(s[i], a, x)) <=> \E e \in E : Has(e[1], a) /\ Has(e[2], x)
  <2>1. ASSUME NEW i \in 1..n, Opens(s[i], a, x) PROVE \E e \in E : Has(e[1], a) /\ Has(e[2], x)
    BY <1>2, <1>3, <2>1 DEF Opens
  <2>2. ASSUME NEW e \in E, Has(e[1], a), Has(e[2], x) PROVE \E i \in 1..n : Opens(s[i], a, x)
    <3>1. PICK i \in 1..(Len(c) - 1) : c[i][1] <= a /\ a < c[i + 1][1]
      BY <2>2, BetweenCuts DEF c
    <3>2. c[i + 1][1] \in Int
      <4>1. i + 1 \in 1..Len(c)
        BY <1>1
      <4>2. c[i + 1] \in Pairs
        BY <1>1, <4>1
      <4> QED
        BY <4>2 DEF Pairs
    <3>3. Has(s[i].span, a)
      <4>1. s[i].span[1] = c[i][1] /\ s[i].span[2] = c[i + 1][1] - 1
        BY <1>2
      <4>2. a <= c[i + 1][1] - 1
        BY <3>1, <3>2
      <4> QED
        BY <3>1, <4>1, <4>2 DEF Has
    <3> QED
      BY <1>2, <1>3, <2>2, <3>3 DEF Opens
  <2> QED
    BY <2>1, <2>2
<1> DEFINE m == FoldLeft(AddPiece, <<>>,
                  [i \in 1..(Len(Cuts(E)) - 1) |-> PieceAt(E, Cuts(E), i)])
<1>9. m = g[n]
  BY <1>4 DEF s, c
<1> HIDE DEF n, m
<1>10. m \in Seq(Pieces) /\ Laid(m)
  BY <1>3, <1>4, <1>7, <1>9
<1>11. \A a, x \in Int : Opened(m, a, x) <=> \E e \in E : Has(e[1], a) /\ Has(e[2], x)
  BY <1>7, <1>8, <1>9
<1> QED
  BY <1>10, <1>11 DEF m

-----------------------------------------------------------------------------
(* The elements: apart from each other, and with the hosts' networks open  *)
(* for exactly what the hosts and entries say.                             *)

\* _disjoint (worker/egress.py) gives nft no two elements that overlap, and none too many
\* or too few: with the hosts' networks they accept exactly what the entries say, for
\* every finite set of networks and of networks with ports.
THEOREM DisjointExact ==
    ASSUME NEW hosts \in SUBSET Spans, IsFiniteSet(hosts),
           NEW entries \in SUBSET Entries, IsFiniteSet(entries)
    PROVE  LET D == Disjoint(hosts, entries)
               Host(a) == \E h \in hosts : Has(h, a) IN
           /\ \A d, e \in D : \A a, x \in Int :
                Has(d[1], a) /\ Has(d[2], x) /\ Has(e[1], a) /\ Has(e[2], x) => d = e
           /\ \A a, x \in Int :
                Host(a) \/ (\E e \in D : Has(e[1], a) /\ Has(e[2], x))
                  <=> Host(a) \/ \E e \in entries : Has(e[1], a) /\ Has(e[2], x)
<1> DEFINE spans == Merge(hosts)
           left == {e \in entries : ~Inside(e[1], spans)}
           m == FoldLeft(AddPiece, <<>>,
                  [i \in 1..(Len(Cuts(left)) - 1) |-> PieceAt(left, Cuts(left), i)])
           D == Disjoint(hosts, entries)
           Host(a) == \E h \in hosts : Has(h, a)
<1>1. spans \in Seq(Spans) /\ \A a \in Int : Covered(spans, a) <=> Host(a)
  BY MergeExact
<1>2. left \in SUBSET Entries /\ IsFiniteSet(left)
  BY FS_Subset
<1>3. D = UNION {{<<p.span, r>> : r \in ToSet(p.ports)} : p \in ToSet(m)}
  BY DEF Disjoint
<1>4. ASSUME NEW e \in entries, e \notin left, NEW a \in Int, Has(e[1], a) PROVE Host(a)
  <2>1. PICK s \in ToSet(spans) : s[1] <= e[1][1] /\ e[1][2] <= s[2]
    BY <1>4 DEF Inside
  <2> HIDE DEF spans
  <2>2. PICK i \in 1..Len(spans) : s = spans[i]
    BY <1>1, <2>1 DEF ToSet
  <2>3. s[1] \in Int /\ s[2] \in Int /\ e[1][1] \in Int /\ e[1][2] \in Int
    <3>1. s \in Spans
      BY <1>1, <2>2
    <3> QED
      BY <3>1 DEF Spans, Entries
  <2>4. Has(s, a)
    BY <1>4, <2>1, <2>3 DEF Has
  <2> QED
    BY <1>1, <2>2, <2>4 DEF Covered
<1>5. left \subseteq entries
  OBVIOUS
<1> HIDE DEF spans, left, D, Host
<1>6. /\ m \in Seq(Pieces) /\ Laid(m)
      /\ \A a, x \in Int : Opened(m, a, x) <=> \E e \in left : Has(e[1], a) /\ Has(e[2], x)
  BY <1>2, PiecesExact
<1> HIDE DEF m
<1>7. \A i \in 1..Len(m) : m[i] \in Pieces /\ m[i].span \in Spans /\ m[i].ports \in Seq(Spans)
  <2>1. \A i \in 1..Len(m) : m[i] \in Pieces
    BY <1>6
  <2>2. \A i \in 1..Len(m) : m[i].ports \in Seq(Spans)
    BY <2>1 DEF Pieces
  <2> QED
    BY <1>6, <2>1, <2>2 DEF Laid
<1>8. \A e : e \in D <=> \E i \in 1..Len(m) : \E l \in 1..Len(m[i].ports) :
                            e = <<m[i].span, m[i].ports[l]>>
  <2>1. ToSet(m) = {m[i] : i \in 1..Len(m)}
    BY <1>6 DEF ToSet
  <2>2. \A i \in 1..Len(m) : ToSet(m[i].ports) = {m[i].ports[l] : l \in 1..Len(m[i].ports)}
    BY <1>7 DEF ToSet
  <2> TAKE e
  <2>3. e \in D <=> \E p \in ToSet(m) : \E r \in ToSet(p.ports) : e = <<p.span, r>>
    BY <1>3
  <2>4. (\E p \in ToSet(m) : \E r \in ToSet(p.ports) : e = <<p.span, r>>)
           <=> \E i \in 1..Len(m) : \E r \in ToSet(m[i].ports) : e = <<m[i].span, r>>
    BY <2>1
  <2>5. ASSUME NEW i \in 1..Len(m)
        PROVE  (\E r \in ToSet(m[i].ports) : e = <<m[i].span, r>>)
                 <=> \E l \in 1..Len(m[i].ports) : e = <<m[i].span, m[i].ports[l]>>
    <3> DEFINE q == m[i].ports
    <3>1. ToSet(q) = {q[l] : l \in 1..Len(q)}
      BY <2>2
    <3> HIDE DEF q
    <3>2. (\E r \in ToSet(q) : e = <<m[i].span, r>>) <=> \E l \in 1..Len(q) : e = <<m[i].span, q[l]>>
      BY <3>1
    <3> QED
      BY <3>2 DEF q
  <2>6. e \in D <=> \E i \in 1..Len(m) : \E r \in ToSet(m[i].ports) : e = <<m[i].span, r>>
    BY <2>3, <2>4, Zenon
  <2> DEFINE InPorts(i) == \E r \in ToSet(m[i].ports) : e = <<m[i].span, r>>
             AtPort(i) == \E l \in 1..Len(m[i].ports) : e = <<m[i].span, m[i].ports[l]>>
  <2>7. \A i \in 1..Len(m) : InPorts(i) <=> AtPort(i)
    BY <2>5
  <2>8. e \in D <=> \E i \in 1..Len(m) : InPorts(i)
    BY <2>6
  <2> HIDE DEF InPorts, AtPort
  <2>9. e \in D <=> \E i \in 1..Len(m) : AtPort(i)
    BY <2>7, <2>8
  <2> QED
    BY <2>9 DEF AtPort
<1>9. ASSUME NEW d \in D, NEW e \in D, NEW a \in Int, NEW x \in Int,
             Has(d[1], a), Has(d[2], x), Has(e[1], a), Has(e[2], x)
      PROVE  d = e
  <2>a. PICK i \in 1..Len(m) : \E l \in 1..Len(m[i].ports) : d = <<m[i].span, m[i].ports[l]>>
    BY <1>8
  <2>1. PICK l \in 1..Len(m[i].ports) : d = <<m[i].span, m[i].ports[l]>>
    BY <2>a
  <2>b. PICK j \in 1..Len(m) : \E k \in 1..Len(m[j].ports) : e = <<m[j].span, m[j].ports[k]>>
    BY <1>8
  <2>2. PICK k \in 1..Len(m[j].ports) : e = <<m[j].span, m[j].ports[k]>>
    BY <2>b
  <2>3. i = j
    <3>1. Has(m[i].span, a) /\ Has(m[j].span, a) /\ m[i].span \in Spans /\ m[j].span \in Spans
      BY <1>7, <1>9, <2>1, <2>2
    <3>2. ~(i < j) /\ ~(j < i)
      <4>1. /\ m[i].span[1] <= a /\ a <= m[i].span[2]
            /\ m[j].span[1] <= a /\ a <= m[j].span[2]
        BY <3>1 DEF Has
      <4>2. /\ m[i].span[1] \in Int /\ m[i].span[2] \in Int
            /\ m[j].span[1] \in Int /\ m[j].span[2] \in Int
        BY <3>1, SpanEnds
      <4>3. /\ i < j => m[i].span[2] < m[j].span[1]
            /\ j < i => m[j].span[2] < m[i].span[1]
        BY <1>6 DEF Laid
      <4>4. /\ ~(m[i].span[2] < m[j].span[1])
            /\ ~(m[j].span[2] < m[i].span[1])
        BY <4>1, <4>2, NotPast
      <4> QED
        BY <4>3, <4>4
    <3> QED
      BY <3>2
  <2>4. l = k
    <3> DEFINE q == m[i].ports
    <3>1. q \in Seq(Spans) /\ Gapped(q)
      BY <1>6, <1>7 DEF Laid
    <3>2. l \in 1..Len(q) /\ k \in 1..Len(q) /\ Has(q[l], x) /\ Has(q[k], x)
      BY <1>9, <2>1, <2>2, <2>3
    <3> HIDE DEF q
    <3>3. q[l] \in Spans /\ q[k] \in Spans
      BY <3>1, <3>2
    <3>4. (l < k => q[l][2] + 1 < q[k][1]) /\ (k < l => q[k][2] + 1 < q[l][1])
      BY <3>1, <3>2 DEF Gapped
    <3>5. ~(l < k) /\ ~(k < l)
      <4>1. q[l][1] <= x /\ x <= q[l][2] /\ q[k][1] <= x /\ x <= q[k][2]
        BY <3>2 DEF Has
      <4>2. q[l][1] \in Int /\ q[l][2] \in Int /\ q[k][1] \in Int /\ q[k][2] \in Int
        BY <3>3, SpanEnds
      <4>3. ~(q[l][2] + 1 < q[k][1]) /\ ~(q[k][2] + 1 < q[l][1])
        BY <4>1, <4>2, NotPast
      <4> QED
        BY <3>4, <4>3
    <3> QED
      BY <3>2, <3>5
  <2> QED
    BY <2>1, <2>2, <2>3, <2>4
<1>10. ASSUME NEW a \in Int, NEW x \in Int
       PROVE  (\E e \in D : Has(e[1], a) /\ Has(e[2], x)) <=> Opened(m, a, x)
  <2>1. ASSUME NEW i \in 1..Len(m), NEW l \in 1..Len(m[i].ports),
               Has(m[i].span, a), Has(m[i].ports[l], x)
        PROVE  \E e \in D : Has(e[1], a) /\ Has(e[2], x)
    <3> DEFINE e == <<m[i].span, m[i].ports[l]>>
    <3>1. e \in D /\ e[1] = m[i].span /\ e[2] = m[i].ports[l]
      BY <1>8
    <3> QED
      BY <2>1, <3>1
  <2>2. ASSUME NEW e \in D, Has(e[1], a), Has(e[2], x) PROVE Opened(m, a, x)
    <3>a. PICK i \in 1..Len(m) : \E l \in 1..Len(m[i].ports) : e = <<m[i].span, m[i].ports[l]>>
      BY <1>8
    <3>1. PICK l \in 1..Len(m[i].ports) : e = <<m[i].span, m[i].ports[l]>>
      BY <3>a
    <3>2. Has(m[i].span, a) /\ Has(m[i].ports[l], x)
      BY <2>2, <3>1
    <3> QED
      BY <3>1, <3>2 DEF Opened, Opens, Covered
  <2> QED
    BY <2>1, <2>2 DEF Opened, Opens, Covered
<1>11. ASSUME NEW a \in Int, NEW x \in Int
       PROVE  Host(a) \/ (\E e \in D : Has(e[1], a) /\ Has(e[2], x))
                <=> Host(a) \/ \E e \in entries : Has(e[1], a) /\ Has(e[2], x)
  <2>1. (\E e \in D : Has(e[1], a) /\ Has(e[2], x)) <=> \E e \in left : Has(e[1], a) /\ Has(e[2], x)
    BY <1>6, <1>10
  <2>2. ASSUME NEW e \in entries, Has(e[1], a), Has(e[2], x)
        PROVE  Host(a) \/ \E f \in left : Has(f[1], a) /\ Has(f[2], x)
    BY <1>4, <2>2
  <2> DEFINE Kept == \E f \in left : Has(f[1], a) /\ Has(f[2], x)
             Said == \E e \in entries : Has(e[1], a) /\ Has(e[2], x)
  <2>3. Kept => Said
    BY <1>5
  <2>4. Said => Host(a) \/ Kept
    BY <2>2
  <2> HIDE DEF Kept, Said
  <2>5. Host(a) \/ Kept <=> Host(a) \/ Said
    BY <2>3, <2>4
  <2> QED
    BY <2>1, <2>5 DEF Kept, Said
<1>12. /\ \A d, e \in D : \A a, x \in Int :
            Has(d[1], a) /\ Has(d[2], x) /\ Has(e[1], a) /\ Has(e[2], x) => d = e
       /\ \A a, x \in Int :
            Host(a) \/ (\E e \in D : Has(e[1], a) /\ Has(e[2], x))
              <=> Host(a) \/ \E e \in entries : Has(e[1], a) /\ Has(e[2], x)
  BY <1>9, <1>11
<1> QED
  BY <1>12 DEF D, Host

-----------------------------------------------------------------------------
(* The plan of a restricted run.                                           *)

\* A plan comes from two hosts' variables that gave no reason to refuse the run.
PlanFrom(one, two) ==
    LET spec == JobEgress(<<one, two>>)
        allowed == ResolveAllowlist(spec, plan.lookup, plan.extra) IN
    /\ ~spec.refused /\ Problems(spec, plan.lookup) = {}
    /\ plan.vars = {one, two} /\ plan.hosts = allowed.hosts /\ plan.ports = allowed.ports

PlanOk == plan.at = "planned" =>
    /\ plan.lookup \in Lookups /\ plan.extra \in Extras
    /\ \E one, two \in HostVars : PlanFrom(one, two)

LEMMA PlanStart == PlanInit => PlanOk
BY DEF PlanInit, PlanOk

LEMMA PlanKeeps == PlanOk /\ [PlanNext]_plan => PlanOk'
<1> SUFFICES ASSUME PlanOk, [PlanNext]_plan PROVE PlanOk'
  OBVIOUS
<1>1. CASE plan' = plan
  BY <1>1 DEF PlanOk, PlanFrom
<1>2. CASE PlanEntries
  BY <1>2 DEF PlanEntries, PlanOk
<1>3. CASE PlanRun
  <2>1. PICK one, two \in HostVars, lookup \in Lookups, extra \in Extras :
          LET spec == JobEgress(<<one, two>>) IN
          plan' = IF spec.refused \/ Problems(spec, lookup) # {}
                  THEN [at |-> "refused"]
                  ELSE LET allowed == ResolveAllowlist(spec, lookup, extra) IN
                       [at |-> "planned", vars |-> {one, two}, lookup |-> lookup, extra |-> extra,
                        hosts |-> allowed.hosts, ports |-> allowed.ports,
                        elements |-> Disjoint(allowed.hosts, allowed.ports)]
    BY <1>3 DEF PlanRun
  <2>2. PICK spec : spec = JobEgress(<<one, two>>)
    OBVIOUS
  <2>3. PICK allowed : allowed = ResolveAllowlist(spec, lookup, extra)
    OBVIOUS
  <2>4. CASE spec.refused \/ Problems(spec, lookup) # {}
    BY <2>1, <2>2, <2>4 DEF PlanOk
  <2>5. CASE ~(spec.refused \/ Problems(spec, lookup) # {})
    <3>1. plan' = [at |-> "planned", vars |-> {one, two}, lookup |-> lookup, extra |-> extra,
                   hosts |-> allowed.hosts, ports |-> allowed.ports,
                   elements |-> Disjoint(allowed.hosts, allowed.ports)]
      BY <2>1, <2>2, <2>3, <2>5
    <3>2. /\ plan'.lookup = lookup /\ plan'.extra = extra /\ plan'.vars = {one, two}
          /\ plan'.hosts = allowed.hosts /\ plan'.ports = allowed.ports
      BY <3>1
    <3>3. PlanFrom(one, two)'
      BY <2>2, <2>3, <2>5, <3>2 DEF PlanFrom
    <3> QED
      BY <3>2, <3>3 DEF PlanOk
  <2> QED
    BY <2>4, <2>5
<1> QED
  BY <1>1, <1>2, <1>3 DEF PlanNext

\* What a host's variables come to.
LEMMA TargetIs ==
    ASSUME NEW v \in HostVars, Target(v).status # "unknown"
    PROVE  /\ v.connection = "local" => Target(v).status = "local"
           /\ v.connection # "local" =>
                /\ v.address \in Names
                /\ Target(v).address = v.address
                /\ Target(v).status = IF v.args = "none" THEN "ok" ELSE "indirect"
                /\ Target(v).jumps = IF v.args = "jump" THEN {JumpName} ELSE {}
BY DEF Target, HostVars

\* If the elements are exact, the plan is what the run needs.
LEMMA PlanReaches == ASSUME PlanOk, ElementsExact PROVE RunReachesItsHosts
<1> SUFFICES ASSUME plan.at = "planned" PROVE RunReachesItsHosts
  BY DEF RunReachesItsHosts
<1> DEFINE look == plan.lookup
<1>1. PICK one, two \in HostVars : PlanFrom(one, two)
  BY DEF PlanOk
<1>2. look \in Lookups /\ plan.extra \in Extras /\ plan.vars = {one, two}
  BY <1>1 DEF PlanOk, PlanFrom
<1> DEFINE targets == {Target(one), Target(two)}
           placed == {t \in targets : t.status \in {"ok", "indirect"}}
           spec == JobEgress(<<one, two>>)
<1>3. /\ \A t \in targets : t.status # "unknown"
      /\ spec = [refused |-> FALSE,
                 hosts |-> {[name |-> t.address, required |-> t.status = "ok"] : t \in placed},
                 jumps |-> UNION {t.jumps : t \in placed}]
  <2> DEFINE pair == <<one, two>>
  <2>1. {Target(pair[i]) : i \in DOMAIN pair} = targets
    <3>1. DOMAIN pair = {1, 2} /\ pair[1] = one /\ pair[2] = two
      OBVIOUS
    <3> HIDE DEF pair
    <3> QED
      BY <3>1
  <2>2. ~spec.refused
    BY <1>1 DEF PlanFrom
  <2> QED
    BY <2>1, <2>2 DEF JobEgress
<1>4. /\ spec.hosts = {[name |-> t.address, required |-> t.status = "ok"] : t \in placed}
      /\ spec.jumps = UNION {t.jumps : t \in placed}
  BY <1>3
<1> HIDE DEF spec
<1>5. /\ Problems(spec, look) = {}
      /\ plan.hosts = ResolveAllowlist(spec, look, plan.extra).hosts
      /\ plan.ports = ResolveAllowlist(spec, look, plan.extra).ports
  BY <1>1 DEF PlanFrom, spec
<1>6. \A v \in plan.vars : v \in HostVars /\ Target(v) \in targets /\ Target(v).status # "unknown"
  BY <1>2, <1>3
<1>7. \A t \in placed : \E v \in plan.vars : t = Target(v)
  BY <1>2
<1> HIDE DEF targets
<1>8. \A v \in plan.vars : v.connection # "local" => Target(v) \in placed
  BY <1>6, TargetIs
<1>9. \A t \in placed : \E v \in plan.vars : t = Target(v) /\ v.connection # "local"
  <2> TAKE t \in placed
  <2>1. PICK v \in plan.vars : t = Target(v)
    BY <1>7
  <2>2. v.connection # "local"
    BY <1>6, <2>1, TargetIs
  <2> QED
    BY <2>1, <2>2
<1> HIDE DEF placed
<1>10. \A v \in plan.vars : v.connection # "local" =>
         \E h \in spec.hosts : h.name = v.address /\ (v.args = "none" => h.required)
  <2> SUFFICES ASSUME NEW v \in plan.vars, v.connection # "local"
               PROVE  \E h \in spec.hosts : h.name = v.address /\ (v.args = "none" => h.required)
    OBVIOUS
  <2>1. Target(v) \in placed /\ Target(v).address = v.address
        /\ Target(v).status = IF v.args = "none" THEN "ok" ELSE "indirect"
    BY <1>6, <1>8, TargetIs
  <2>2. [name |-> Target(v).address, required |-> Target(v).status = "ok"] \in spec.hosts
    BY <1>4, <2>1
  <2> QED
    BY <2>1, <2>2
<1>11. \A h \in spec.hosts : \E v \in plan.vars : v.connection # "local" /\ h.name = v.address
  <2> TAKE h \in spec.hosts
  <2>1. PICK t \in placed : h = [name |-> t.address, required |-> t.status = "ok"]
    BY <1>4
  <2>2. PICK v \in plan.vars : t = Target(v) /\ v.connection # "local"
    BY <1>9
  <2> QED
    BY <1>6, <2>1, <2>2, TargetIs
<1>12. \A v \in plan.vars : v.connection # "local" /\ v.args = "jump" => JumpName \in spec.jumps
  <2> SUFFICES ASSUME NEW v \in plan.vars, v.connection # "local", v.args = "jump"
               PROVE  JumpName \in spec.jumps
    OBVIOUS
  <2>1. Target(v) \in placed /\ Target(v).jumps = {JumpName}
    BY <1>6, <1>8, TargetIs
  <2> QED
    BY <1>4, <2>1
<1>13. \A j \in spec.jumps : j = JumpName /\ \E v \in plan.vars : v.args = "jump"
  <2> TAKE j \in spec.jumps
  <2>1. PICK t \in placed : j \in t.jumps
    BY <1>4
  <2>2. PICK v \in plan.vars : t = Target(v) /\ v.connection # "local"
    BY <1>9
  <2>3. j \in IF v.args = "jump" THEN {JumpName} ELSE {}
    BY <1>6, <2>1, <2>2, TargetIs
  <2> QED
    BY <2>3
<1>14. \A h \in spec.hosts : \A a \in look[h.name] : <<a, a>> \in plan.hosts
  BY <1>5 DEF ResolveAllowlist
<1>15. \A j \in spec.jumps : \A a \in look[j] : <<<<a, a>>, <<1, 1>>>> \in plan.ports
  BY <1>5 DEF ResolveAllowlist
<1>16. \A s \in plan.hosts : \/ \E h \in spec.hosts : \E a \in look[h.name] : s = <<a, a>>
                             \/ \E e \in plan.extra : e[2] = <<0, 0>> /\ s = e[1]
  BY <1>5 DEF ResolveAllowlist
<1>17. \A e \in plan.ports : \/ \E j \in spec.jumps : \E a \in look[j] : e = <<<<a, a>>, <<1, 1>>>>
                             \/ e \in plan.extra
  BY <1>5 DEF ResolveAllowlist
<1>18. /\ \A h \in spec.hosts : h.required => look[h.name] # {}
       /\ \A j \in spec.jumps : look[j] # {}
  BY <1>5 DEF Problems
<1>19. \A n \in Names \union {JumpName} : look[n] \subseteq Addresses
  BY <1>2, AllowlistAssumption DEF Lookups, Addresses
<1>20. 1 \in Ports /\ Addresses \subseteq Int /\ Ports \subseteq Int
  BY AllowlistAssumption DEF Ports, Addresses
<1>21. \A a \in Addresses, p \in Ports :
         AcceptsEntry(a, p) <=> \/ \E s \in plan.hosts : Has(s, a)
                                \/ \E e \in plan.ports : Has(e[1], a) /\ Has(e[2], p)
  BY DEF ElementsExact
<1>22. ASSUME NEW v \in plan.vars, v.connection # "local"
       PROVE  /\ v.args = "none" => /\ look[v.address] # {}
                                    /\ \A a \in look[v.address], p \in Ports : AcceptsEntry(a, p)
              /\ v.args = "jump" => \E a \in look[JumpName] : AcceptsEntry(a, 1)
  <2>1. v.address \in Names
    BY <1>6, <1>22, TargetIs
  <2>2. v.args = "none" => look[v.address] # {}
    BY <1>10, <1>18, <1>22
  <2>3. ASSUME NEW a \in look[v.address], NEW p \in Ports PROVE AcceptsEntry(a, p)
    <3>1. <<a, a>> \in plan.hosts
      BY <1>10, <1>14, <1>22
    <3>2. a \in Addresses /\ a \in Int
      BY <1>19, <1>20, <2>1
    <3>3. Has(<<a, a>>, a)
      BY <3>2 DEF Has
    <3> QED
      BY <1>21, <3>1, <3>2, <3>3
  <2>4. ASSUME v.args = "jump" PROVE \E a \in look[JumpName] : AcceptsEntry(a, 1)
    <3>1. JumpName \in spec.jumps /\ look[JumpName] # {}
      BY <1>12, <1>18, <1>22, <2>4
    <3>2. PICK a \in look[JumpName] : TRUE
      BY <3>1
    <3>3. a \in Addresses /\ a \in Int
      BY <1>19, <1>20, <3>2
    <3>4. <<<<a, a>>, <<1, 1>>>> \in plan.ports
      BY <1>15, <3>1, <3>2
    <3>5. Has(<<a, a>>, a) /\ Has(<<1, 1>>, 1)
      BY <3>3 DEF Has
    <3>6. AcceptsEntry(a, 1)
      BY <1>20, <1>21, <3>3, <3>4, <3>5
    <3> QED
      BY <3>2, <3>6
  <2> QED
    BY <2>2, <2>3, <2>4
<1>23. ASSUME NEW a \in Addresses, NEW p \in Ports, AcceptsEntry(a, p)
       PROVE  \/ \E v \in plan.vars : v.connection # "local" /\ a \in look[v.address]
              \/ p = 1 /\ a \in look[JumpName] /\ \E v \in plan.vars : v.args = "jump"
              \/ \E e \in plan.extra : Has(e[1], a) /\ (e[2] = <<0, 0>> \/ Has(e[2], p))
  <2>1. a \in Int /\ p \in Int
    BY <1>20
  <2>2. ASSUME NEW b, b \in Int, Has(<<b, b>>, a) PROVE a = b
    BY <2>1, <2>2 DEF Has
  <2>3. CASE \E s \in plan.hosts : Has(s, a)
    <3>1. PICK s \in plan.hosts : Has(s, a)
      BY <2>3
    <3>2. CASE \E h \in spec.hosts : \E b \in look[h.name] : s = <<b, b>>
      <4>1. PICK h \in spec.hosts : \E b \in look[h.name] : s = <<b, b>>
        BY <3>2
      <4>2. PICK b \in look[h.name] : s = <<b, b>>
        BY <4>1
      <4>3. PICK v \in plan.vars : v.connection # "local" /\ h.name = v.address
        BY <1>11
      <4>4. v.address \in Names
        BY <1>6, <4>3, TargetIs
      <4>5. b \in Int
        BY <1>19, <1>20, <4>2, <4>3, <4>4
      <4> QED
        BY <2>2, <3>1, <4>2, <4>3, <4>5
    <3>3. CASE \E e \in plan.extra : e[2] = <<0, 0>> /\ s = e[1]
      BY <3>1, <3>3
    <3> QED
      BY <1>16, <3>2, <3>3
  <2>4. CASE \E e \in plan.ports : Has(e[1], a) /\ Has(e[2], p)
    <3>1. PICK e \in plan.ports : Has(e[1], a) /\ Has(e[2], p)
      BY <2>4
    <3>2. CASE \E j \in spec.jumps : \E b \in look[j] : e = <<<<b, b>>, <<1, 1>>>>
      <4>1. PICK j \in spec.jumps : \E b \in look[j] : e = <<<<b, b>>, <<1, 1>>>>
        BY <3>2
      <4>2. PICK b \in look[j] : e = <<<<b, b>>, <<1, 1>>>>
        BY <4>1
      <4>3. j = JumpName /\ \E v \in plan.vars : v.args = "jump"
        BY <1>13
      <4>4. b \in Int
        BY <1>19, <1>20, <4>2, <4>3
      <4>5. Has(<<b, b>>, a) /\ Has(<<1, 1>>, p)
        BY <3>1, <4>2
      <4>6. p = 1
        BY <2>1, <4>5 DEF Has
      <4> QED
        BY <2>2, <4>2, <4>3, <4>4, <4>5, <4>6
    <3>3. CASE e \in plan.extra
      BY <3>1, <3>3
    <3> QED
      BY <1>17, <3>2, <3>3
  <2> QED
    BY <1>21, <1>23, <2>3, <2>4
<1> QED
  BY <1>22, <1>23 DEF RunReachesItsHosts

\* What is planned is a finite set of networks and a finite set of networks with ports,
\* and the elements are what _disjoint makes of them.
PlanGiven == plan.at \in {"planned", "entries"} =>
    /\ plan.hosts \in SUBSET Spans /\ IsFiniteSet(plan.hosts)
    /\ plan.ports \in SUBSET Entries /\ IsFiniteSet(plan.ports)
    /\ plan.elements = Disjoint(plan.hosts, plan.ports)

LEMMA FiniteGrid ==
    ASSUME NEW n \in Nat, NEW k \in Nat
    PROVE  /\ IsFiniteSet((0..n) \X (0..n))
           /\ IsFiniteSet(((0..n) \X (0..n)) \X ((0..k) \X (0..k)))
<1>1. IsFiniteSet(0..n) /\ IsFiniteSet(0..k)
  BY FS_Interval
<1>2. IsFiniteSet((0..n) \X (0..n)) /\ IsFiniteSet((0..k) \X (0..k))
  BY <1>1, FS_Product
<1> QED
  BY <1>2, FS_Product

\* A run that is not refused names hosts of the inventory and the jump host.
LEMMA EgressNames ==
    ASSUME NEW one \in HostVars, NEW two \in HostVars,
           NEW spec, spec = JobEgress(<<one, two>>), ~spec.refused
    PROVE  (\A h \in spec.hosts : h.name \in Names) /\ spec.jumps \subseteq {JumpName}
<1> DEFINE targets == {Target(one), Target(two)}
           placed == {t \in targets : t.status \in {"ok", "indirect"}}
<1>1. /\ \A t \in targets : t.status # "unknown"
      /\ spec = [refused |-> FALSE,
                 hosts |-> {[name |-> t.address, required |-> t.status = "ok"] : t \in placed},
                 jumps |-> UNION {t.jumps : t \in placed}]
  <2> DEFINE pair == <<one, two>>
  <2>1. {Target(pair[i]) : i \in DOMAIN pair} = targets
    <3>1. DOMAIN pair = {1, 2} /\ pair[1] = one /\ pair[2] = two
      OBVIOUS
    <3> HIDE DEF pair
    <3> QED
      BY <3>1
  <2> QED
    BY <2>1 DEF JobEgress
<1>2. \A t \in placed : t.address \in Names /\ t.jumps \subseteq {JumpName}
  <2>1. ASSUME NEW v \in HostVars, Target(v) \in placed
        PROVE  Target(v).address \in Names /\ Target(v).jumps \subseteq {JumpName}
    <3>1. Target(v).status \in {"ok", "indirect"}
      BY <2>1
    <3>2. v.connection # "local" /\ Target(v).status # "unknown"
      BY <3>1, TargetIs
    <3> QED
      BY <3>2, TargetIs
  <2> QED
    BY <2>1
<1> HIDE DEF placed
<1>3. /\ spec.hosts = {[name |-> t.address, required |-> t.status = "ok"] : t \in placed}
      /\ spec.jumps = UNION {t.jumps : t \in placed}
  BY <1>1
<1> QED
  BY <1>2, <1>3

LEMMA AllowedIsGiven ==
    ASSUME NEW one \in HostVars, NEW two \in HostVars, NEW lookup \in Lookups, NEW extra \in Extras,
           NEW spec, spec = JobEgress(<<one, two>>), ~spec.refused
    PROVE  LET allowed == ResolveAllowlist(spec, lookup, extra) IN
           /\ allowed.hosts \in SUBSET Spans /\ IsFiniteSet(allowed.hosts)
           /\ allowed.ports \in SUBSET Entries /\ IsFiniteSet(allowed.ports)
<1> DEFINE allowed == ResolveAllowlist(spec, lookup, extra)
           H == (0..3) \X (0..3)
           P == H \X ((0..LastPort) \X (0..LastPort))
<1>1. LastPort \in Nat /\ 2 <= LastPort
  BY AllowlistAssumption
<1>2. \A n \in Names \union {JumpName} : lookup[n] \subseteq 0..2
  <2> TAKE n \in Names \union {JumpName}
  <2>1. lookup[n] \in {{}, {0}, {1, 2}}
    BY DEF Lookups
  <2> QED
    BY <2>1
<1>3. \A h \in spec.hosts : h.name \in Names
  BY EgressNames
<1>4. spec.jumps \subseteq {JumpName}
  BY EgressNames
<1>5. \A e \in extra : \/ e[1] = <<2, 3>> /\ e[2] = <<0, 0>>
                       \/ e = <<<<0, 1>>, <<2, LastPort>>>> /\ e[2] # <<0, 0>>
  BY <1>1 DEF Extras
<1>6. \A s \in allowed.hosts : (\E a \in 0..2 : s = <<a, a>>) \/ s = <<2, 3>>
  <2> SUFFICES ASSUME NEW s \in allowed.hosts PROVE (\E a \in 0..2 : s = <<a, a>>) \/ s = <<2, 3>>
    OBVIOUS
  <2>1. \/ \E a \in UNION {lookup[h.name] : h \in spec.hosts} : s = <<a, a>>
        \/ \E e \in extra : e[2] = <<0, 0>> /\ s = e[1]
    BY DEF ResolveAllowlist
  <2>2. UNION {lookup[h.name] : h \in spec.hosts} \subseteq 0..2
    BY <1>2, <1>3
  <2> QED
    BY <1>5, <2>1, <2>2
<1>7. \A e \in allowed.ports : \/ \E a \in 0..2 : e = <<<<a, a>>, <<1, 1>>>>
                               \/ e = <<<<0, 1>>, <<2, LastPort>>>>
  <2> SUFFICES ASSUME NEW e \in allowed.ports
               PROVE  (\E a \in 0..2 : e = <<<<a, a>>, <<1, 1>>>>) \/ e = <<<<0, 1>>, <<2, LastPort>>>>
    OBVIOUS
  <2>1. \/ \E a \in UNION {lookup[j] : j \in spec.jumps} : e = <<<<a, a>>, <<1, 1>>>>
        \/ e \in extra /\ e[2] # <<0, 0>>
    BY DEF ResolveAllowlist
  <2>2. UNION {lookup[j] : j \in spec.jumps} \subseteq 0..2
    BY <1>2, <1>4
  <2> QED
    BY <1>5, <2>1, <2>2
<1> HIDE DEF allowed
<1>8. allowed.hosts \in SUBSET Spans /\ allowed.hosts \in SUBSET H
  BY <1>6 DEF Spans
<1>9. allowed.ports \in SUBSET Entries /\ allowed.ports \in SUBSET P
  <2> SUFFICES ASSUME NEW e \in allowed.ports PROVE e \in Entries /\ e \in P
    OBVIOUS
  <2>1. CASE \E a \in 0..2 : e = <<<<a, a>>, <<1, 1>>>>
    <3>1. PICK a \in 0..2 : e = <<<<a, a>>, <<1, 1>>>>
      BY <2>1
    <3>2. <<a, a>> \in Spans /\ <<a, a>> \in H
      BY DEF Spans
    <3>3. <<1, 1>> \in Spans /\ <<1, 1>> \in (0..LastPort) \X (0..LastPort)
      BY <1>1 DEF Spans
    <3> QED
      BY <3>1, <3>2, <3>3 DEF Entries
  <2>2. CASE e = <<<<0, 1>>, <<2, LastPort>>>>
    <3>1. <<0, 1>> \in Spans /\ <<0, 1>> \in H
      BY DEF Spans
    <3>2. <<2, LastPort>> \in Spans /\ <<2, LastPort>> \in (0..LastPort) \X (0..LastPort)
      BY <1>1 DEF Spans
    <3> QED
      BY <2>2, <3>1, <3>2 DEF Entries
  <2> QED
    BY <1>7, <2>1, <2>2
<1>10. IsFiniteSet(H) /\ IsFiniteSet(P)
  BY <1>1, FiniteGrid
<1> HIDE DEF H, P
<1>11. IsFiniteSet(allowed.hosts) /\ IsFiniteSet(allowed.ports)
  BY <1>8, <1>9, <1>10, FS_Subset
<1> QED
  BY <1>8, <1>9, <1>11 DEF allowed

LEMMA GivenStart == PlanInit => PlanGiven
BY DEF PlanInit, PlanGiven

LEMMA GivenKeeps == PlanGiven /\ [PlanNext]_plan => PlanGiven'
<1> SUFFICES ASSUME PlanGiven, [PlanNext]_plan PROVE PlanGiven'
  OBVIOUS
<1>1. CASE plan' = plan
  BY <1>1 DEF PlanGiven
<1>2. CASE PlanEntries
  <2>1. PICK host \in {{}} \union {{n} : n \in Networks},
             given \in [1..MaxEntries -> Networks \X PortRanges] :
          plan' = [at |-> "entries", hosts |-> host, ports |-> Range(given),
                   elements |-> Disjoint(host, Range(given))]
    BY <1>2 DEF PlanEntries
  <2>2. /\ plan'.hosts = host /\ plan'.ports = Range(given)
        /\ plan'.elements = Disjoint(host, Range(given))
    BY <2>1
  <2>3. Networks \in SUBSET Spans
    <3> SUFFICES ASSUME NEW s \in Networks PROVE s \in Spans
      OBVIOUS
    <3>1. s \in Int \X Int /\ s[2] - s[1] + 1 \in {1, 2, 4}
      BY AllowlistAssumption DEF Networks, Addresses
    <3> QED
      BY <3>1 DEF Spans
  <2>4. PortRanges \in SUBSET Spans
    BY AllowlistAssumption DEF PortRanges, Ports, Spans
  <2>5. host \in SUBSET Spans /\ IsFiniteSet(host)
    <3>1. host = {} \/ \E s \in Networks : host = {s}
      OBVIOUS
    <3>2. CASE host = {}
      BY <3>2, FS_EmptySet
    <3>3. CASE \E s \in Networks : host = {s}
      <4>1. PICK s \in Networks : host = {s}
        BY <3>3
      <4>2. IsFiniteSet({s})
        BY FS_Singleton
      <4> QED
        BY <2>3, <4>1, <4>2
    <3> QED
      BY <3>1, <3>2, <3>3
  <2>6. Range(given) \in SUBSET Entries
    <3>1. \A i \in 1..MaxEntries : given[i] \in Networks \X PortRanges
      OBVIOUS
    <3>2. Networks \X PortRanges \subseteq Entries
      BY <2>3, <2>4 DEF Entries
    <3> QED
      BY <3>1, <3>2 DEF Range
  <2>7. IsFiniteSet(Range(given))
    <3>1. given \in Surjection(1..MaxEntries, Range(given))
      BY DEF Surjection, Range
    <3>2. IsFiniteSet(1..MaxEntries)
      BY AllowlistAssumption, FS_Interval
    <3> QED
      BY <3>1, <3>2, FS_Surjection
  <2> QED
    BY <2>2, <2>5, <2>6, <2>7 DEF PlanGiven
<1>3. CASE PlanRun
  <2>1. PICK one, two \in HostVars, lookup \in Lookups, extra \in Extras :
          LET spec == JobEgress(<<one, two>>) IN
          plan' = IF spec.refused \/ Problems(spec, lookup) # {}
                  THEN [at |-> "refused"]
                  ELSE LET allowed == ResolveAllowlist(spec, lookup, extra) IN
                       [at |-> "planned", vars |-> {one, two}, lookup |-> lookup, extra |-> extra,
                        hosts |-> allowed.hosts, ports |-> allowed.ports,
                        elements |-> Disjoint(allowed.hosts, allowed.ports)]
    BY <1>3 DEF PlanRun
  <2>2. PICK spec : spec = JobEgress(<<one, two>>)
    OBVIOUS
  <2>3. PICK allowed : allowed = ResolveAllowlist(spec, lookup, extra)
    OBVIOUS
  <2>4. CASE spec.refused \/ Problems(spec, lookup) # {}
    BY <2>1, <2>2, <2>4 DEF PlanGiven
  <2>5. CASE ~(spec.refused \/ Problems(spec, lookup) # {})
    <3>1. plan' = [at |-> "planned", vars |-> {one, two}, lookup |-> lookup, extra |-> extra,
                   hosts |-> allowed.hosts, ports |-> allowed.ports,
                   elements |-> Disjoint(allowed.hosts, allowed.ports)]
      BY <2>1, <2>2, <2>3, <2>5
    <3>2. /\ plan'.hosts = allowed.hosts /\ plan'.ports = allowed.ports
          /\ plan'.elements = Disjoint(allowed.hosts, allowed.ports)
      BY <3>1
    <3>3. /\ allowed.hosts \in SUBSET Spans /\ IsFiniteSet(allowed.hosts)
          /\ allowed.ports \in SUBSET Entries /\ IsFiniteSet(allowed.ports)
      BY <2>2, <2>3, <2>5, AllowedIsGiven
    <3> QED
      BY <3>2, <3>3 DEF PlanGiven
  <2> QED
    BY <2>4, <2>5
<1> QED
  BY <1>1, <1>2, <1>3 DEF PlanNext

LEMMA PlanIsExact == ASSUME PlanGiven PROVE ElementsExact
<1> SUFFICES ASSUME plan.at \in {"planned", "entries"} PROVE ElementsExact
  BY DEF ElementsExact
<1> DEFINE hosts == plan.hosts
           entries == plan.ports
           D == Disjoint(hosts, entries)
<1>1. /\ hosts \in SUBSET Spans /\ IsFiniteSet(hosts)
      /\ entries \in SUBSET Entries /\ IsFiniteSet(entries) /\ plan.elements = D
  BY DEF PlanGiven
<1>2. Addresses \subseteq Int /\ Ports \subseteq Int
  BY AllowlistAssumption DEF Addresses, Ports
<1>3. \A d, e \in D : \A a, x \in Int :
        Has(d[1], a) /\ Has(d[2], x) /\ Has(e[1], a) /\ Has(e[2], x) => d = e
  BY <1>1, DisjointExact
<1>4. \A a, x \in Int :
        (\E h \in hosts : Has(h, a)) \/ (\E e \in D : Has(e[1], a) /\ Has(e[2], x))
          <=> (\E h \in hosts : Has(h, a)) \/ \E e \in entries : Has(e[1], a) /\ Has(e[2], x)
  BY <1>1, DisjointExact
<1> HIDE DEF D
<1> QED
  BY <1>1, <1>2, <1>3, <1>4 DEF ElementsExact, AcceptsEntry

\* A plan is worked out from two hosts' variables, or given, and turned into elements.
PlanInv == PlanOk /\ PlanGiven

LEMMA PlanIsSound == ASSUME PlanInv PROVE AllowlistExact
BY PlanIsExact, PlanReaches DEF PlanInv, AllowlistExact
=============================================================================
