---------------------------- MODULE Sums_proofs ----------------------------
(***************************************************************************)
(* Sums over finite sets.  The balances that the modules compare are sums  *)
(* SumFunctionOnSet(f, S) of the community module Functions, which folds   *)
(* over S in an order that CHOOSE picks; the order does not matter.        *)
(***************************************************************************)
EXTENDS Functions, Sequences, FiniteSetTheorems, WellFoundedInduction, TLAPS

\* Among some subsets of a finite set there is one that contains no other.
LEMMA MinimalSubset ==
  ASSUME NEW S, IsFiniteSet(S), NEW X, X \subseteq SUBSET S, X # {}
  PROVE  \E T \in X : \A U \in X : U \subseteq T => U = T
<1>1. X \subseteq FiniteSubsetsOf(S)
  BY FS_Subset DEF FiniteSubsetsOf
<1>2. PICK T \in X : \A U \in X : ~(<<U, T>> \in StrictSubsetOrdering(S))
  BY <1>1, FS_StrictSubsetOrderingWellFounded, WFMin
<1> QED
  BY <1>2 DEF StrictSubsetOrdering

Pick(s) == CHOOSE x \in s : TRUE

\* it is the running sum of f over the subsets of S.
Summing(it, f, S) ==
  it = [s \in SUBSET S |-> IF s = {} THEN 0 ELSE f[Pick(s)] + it[s \ {Pick(s)}]]

LEMMA SumDef ==
  ASSUME NEW f, NEW S
  PROVE  SumFunctionOnSet(f, S) = (CHOOSE it : Summing(it, f, S))[S]
BY DEF SumFunctionOnSet, FoldFunctionOnSet, MapThenFoldSet, Summing, Pick

LEMMA PickIn ==
  ASSUME NEW s, s # {}
  PROVE  Pick(s) \in s
BY DEF Pick

LEMMA SummingAt ==
  ASSUME NEW f, NEW S, NEW it, Summing(it, f, S), NEW s \in SUBSET S
  PROVE  it[s] = IF s = {} THEN 0 ELSE f[Pick(s)] + it[s \ {Pick(s)}]
BY Zenon DEF Summing

LEMMA SummingAgree ==
  ASSUME NEW f, NEW S, NEW T, NEW a, NEW b, Summing(a, f, S), Summing(b, f, T),
         NEW s, IsFiniteSet(s), s \subseteq S, s \subseteq T
  PROVE  a[s] = b[s]
<1> DEFINE X == {u \in SUBSET s : a[u] # b[u]}
<1> SUFFICES ASSUME X # {} PROVE FALSE
  OBVIOUS
<1>1. PICK u \in X : \A v \in X : v \subseteq u => v = u
  <2>1. X \subseteq SUBSET s
    OBVIOUS
  <2> HIDE DEF X
  <2> QED
    BY <2>1, MinimalSubset
<1>2. u \in SUBSET S /\ u \in SUBSET T /\ u \subseteq s
  BY <1>1
<1>3. u # {}
  <2>1. a[{}] = 0 /\ b[{}] = 0
    BY SummingAt
  <2> QED
    BY <1>1, <2>1
<1> DEFINE v == u \ {Pick(u)}
<1>4. v \subseteq u /\ v # u /\ v \in SUBSET s
  BY <1>2, <1>3, PickIn
<1>5. a[v] = b[v]
  BY <1>1, <1>4
<1>6. a[u] = f[Pick(u)] + a[v] /\ b[u] = f[Pick(u)] + b[v]
  BY <1>2, <1>3, SummingAt
<1> QED
  BY <1>1, <1>5, <1>6

LEMMA SummingExists ==
  ASSUME NEW f, NEW S, IsFiniteSet(S)
  PROVE  \E it : Summing(it, f, S)
<1> DEFINE X == {u \in SUBSET S : ~ \E it : Summing(it, f, u)}
<1> SUFFICES ASSUME X # {} PROVE FALSE
  OBVIOUS
<1>1. PICK u \in X : \A v \in X : v \subseteq u => v = u
  <2>1. X \subseteq SUBSET S
    OBVIOUS
  <2> HIDE DEF X
  <2> QED
    BY <2>1, MinimalSubset
<1>2. u \in SUBSET S /\ ~ \E it : Summing(it, f, u)
  BY <1>1
<1>3. \A v : v \subseteq u /\ v # u => v \in SUBSET S /\ \E it : Summing(it, f, v)
  BY <1>1, <1>2
<1> HIDE DEF X
<1> DEFINE G(v) == CHOOSE it : Summing(it, f, v)
           Upto(v) == G(v)[v]
           Full(v) == IF v = {} THEN 0 ELSE f[Pick(v)] + Upto(v \ {Pick(v)})
           h == [v \in SUBSET u |-> Full(v)]
<1>4. ASSUME NEW v \in SUBSET u, v # u PROVE Full(v) = Upto(v)
  <2>1. Summing(G(v), f, v)
    BY <1>3, <1>4
  <2> HIDE DEF G
  <2>2. CASE v = {}
    BY <2>1, <2>2, SummingAt
  <2>3. CASE v # {}
    <3> DEFINE x == v \ {Pick(v)}
    <3>1. x \subseteq v /\ x \subseteq u /\ x # u
      BY <2>3, PickIn
    <3>2. Summing(G(x), f, x)
      BY <1>3, <3>1 DEF G
    <3>3. IsFiniteSet(x)
      BY <1>2, <3>1, FS_Subset
    <3>4. G(v)[x] = G(x)[x]
      BY <2>1, <3>1, <3>2, <3>3, SummingAgree
    <3>5. G(v)[v] = f[Pick(v)] + G(v)[x]
      BY <2>1, <2>3, SummingAt
    <3> QED
      BY <2>3, <3>4, <3>5
  <2> QED
    BY <2>2, <2>3
<1> HIDE DEF G, Upto
<1>5. ASSUME NEW v \in SUBSET u, v # {} PROVE h[v \ {Pick(v)}] = Upto(v \ {Pick(v)})
  <2>1. v \ {Pick(v)} \in SUBSET u /\ v \ {Pick(v)} # u
    BY <1>5, PickIn
  <2> QED
    BY <1>4, <2>1
<1>6. \A v \in SUBSET u : Full(v) = IF v = {} THEN 0 ELSE f[Pick(v)] + h[v \ {Pick(v)}]
  BY <1>5
<1>7. h = [v \in SUBSET u |-> IF v = {} THEN 0 ELSE f[Pick(v)] + h[v \ {Pick(v)}]]
  BY <1>6
<1>8. Summing(h, f, u)
  BY <1>7 DEF Summing
<1> QED
  BY <1>2, <1>8

LEMMA SumSumming ==
  ASSUME NEW f, NEW S, IsFiniteSet(S), NEW T, NEW it, Summing(it, f, T), S \subseteq T
  PROVE  SumFunctionOnSet(f, S) = it[S]
<1> DEFINE g == CHOOSE a : Summing(a, f, S)
<1>1. Summing(g, f, S)
  BY SummingExists
<1> HIDE DEF g
<1>2. g[S] = it[S]
  BY <1>1, SummingAgree
<1> QED
  BY <1>2, SumDef DEF g

-----------------------------------------------------------------------------
\* The sum over no elements.
LEMMA SumEmpty ==
  ASSUME NEW f
  PROVE  SumFunctionOnSet(f, {}) = 0
<1>1. PICK it : Summing(it, f, {})
  BY SummingExists, FS_EmptySet
<1> QED
  BY <1>1, FS_EmptySet, SumSumming, SummingAt

LEMMA SumPick ==
  ASSUME NEW f, NEW S, IsFiniteSet(S), S # {}
  PROVE  SumFunctionOnSet(f, S) = f[Pick(S)] + SumFunctionOnSet(f, S \ {Pick(S)})
<1>1. PICK it : Summing(it, f, S)
  BY SummingExists
<1>2. IsFiniteSet(S \ {Pick(S)})
  BY FS_RemoveElement
<1>3. /\ SumFunctionOnSet(f, S) = it[S]
      /\ SumFunctionOnSet(f, S \ {Pick(S)}) = it[S \ {Pick(S)}]
  BY <1>1, <1>2, SumSumming
<1>4. it[S] = f[Pick(S)] + it[S \ {Pick(S)}]
  <2>1. S \in SUBSET S
    OBVIOUS
  <2>2. it[S] = IF S = {} THEN 0 ELSE f[Pick(S)] + it[S \ {Pick(S)}]
    BY <1>1, <2>1, Zenon DEF Summing
  <2> QED
    BY <2>2, Zenon
<1> QED
  BY <1>3, <1>4, Zenon

\* A sum of integers, or of natural numbers, is one.
LEMMA SumInt ==
  ASSUME NEW D, NEW f \in [D -> Int], NEW S \in SUBSET D, IsFiniteSet(S)
  PROVE  SumFunctionOnSet(f, S) \in Int
<1> DEFINE X == {u \in SUBSET S : SumFunctionOnSet(f, u) \notin Int}
<1> SUFFICES ASSUME X # {} PROVE FALSE
  OBVIOUS
<1>1. PICK u \in X : \A v \in X : v \subseteq u => v = u
  <2>1. X \subseteq SUBSET S
    OBVIOUS
  <2> HIDE DEF X
  <2> QED
    BY <2>1, MinimalSubset
<1>2. u \in SUBSET S /\ IsFiniteSet(u) /\ SumFunctionOnSet(f, u) \notin Int
  BY <1>1, FS_Subset
<1>3. u # {}
  BY <1>2, SumEmpty
<1>4. Pick(u) \in u /\ f[Pick(u)] \in Int
  BY <1>2, <1>3, PickIn
<1>5. SumFunctionOnSet(f, u \ {Pick(u)}) \in Int
  BY <1>1, <1>2, <1>4
<1> QED
  BY <1>2, <1>3, <1>4, <1>5, SumPick

LEMMA SumNat ==
  ASSUME NEW D, NEW f \in [D -> Nat], NEW S \in SUBSET D, IsFiniteSet(S)
  PROVE  SumFunctionOnSet(f, S) \in Nat
<1> DEFINE X == {u \in SUBSET S : SumFunctionOnSet(f, u) \notin Nat}
<1> SUFFICES ASSUME X # {} PROVE FALSE
  OBVIOUS
<1>1. PICK u \in X : \A v \in X : v \subseteq u => v = u
  <2>1. X \subseteq SUBSET S
    OBVIOUS
  <2> HIDE DEF X
  <2> QED
    BY <2>1, MinimalSubset
<1>2. u \in SUBSET S /\ IsFiniteSet(u) /\ SumFunctionOnSet(f, u) \notin Nat
  BY <1>1, FS_Subset
<1>3. u # {}
  BY <1>2, SumEmpty
<1>4. Pick(u) \in u /\ f[Pick(u)] \in Nat
  BY <1>2, <1>3, PickIn
<1>5. SumFunctionOnSet(f, u \ {Pick(u)}) \in Nat
  BY <1>1, <1>2, <1>4
<1> QED
  BY <1>2, <1>3, <1>4, <1>5, SumPick

LEMMA Exchange ==
  ASSUME NEW p \in Int, NEW q \in Int, NEW k \in Int,
         NEW withoutP, NEW withoutQ, withoutQ = p + k, withoutP = q + k
  PROVE  q + withoutQ = p + withoutP
OBVIOUS

\* Whatever order CHOOSE picks, any element can be taken out first.
LEMMA SumRemove ==
  ASSUME NEW D, NEW f \in [D -> Int], NEW S \in SUBSET D, IsFiniteSet(S), NEW x \in S
  PROVE  SumFunctionOnSet(f, S) = f[x] + SumFunctionOnSet(f, S \ {x})
<1> DEFINE Bad(u) == \E y \in u : SumFunctionOnSet(f, u) # f[y] + SumFunctionOnSet(f, u \ {y})
           X == {u \in SUBSET S : Bad(u)}
<1> SUFFICES ASSUME X # {} PROVE FALSE
  OBVIOUS
<1>1. PICK u \in X : \A v \in X : v \subseteq u => v = u
  <2>1. X \subseteq SUBSET S
    OBVIOUS
  <2> HIDE DEF X
  <2> QED
    BY <2>1, MinimalSubset
<1>2. u \in SUBSET S /\ IsFiniteSet(u) /\ Bad(u)
  BY <1>1, FS_Subset
<1>3. PICK y \in u : SumFunctionOnSet(f, u) # f[y] + SumFunctionOnSet(f, u \ {y})
  BY <1>2
<1> DEFINE z == Pick(u)
<1>4. z \in u /\ SumFunctionOnSet(f, u) = f[z] + SumFunctionOnSet(f, u \ {z})
  BY <1>2, <1>3, PickIn, SumPick
<1> HIDE DEF z
<1>5. y # z
  BY <1>3, <1>4
<1>6. \A v : v \subseteq u /\ v # u => ~Bad(v)
  BY <1>1, <1>2
<1>7. ~Bad(u \ {y}) /\ ~Bad(u \ {z})
  BY <1>3, <1>4, <1>6
<1>8. /\ SumFunctionOnSet(f, u \ {z}) = f[y] + SumFunctionOnSet(f, (u \ {z}) \ {y})
      /\ SumFunctionOnSet(f, u \ {y}) = f[z] + SumFunctionOnSet(f, (u \ {y}) \ {z})
  BY <1>3, <1>4, <1>5, <1>7
<1> HIDE DEF X, Bad
<1>9. (u \ {z}) \ {y} = (u \ {y}) \ {z}
  OBVIOUS
<1>10. SumFunctionOnSet(f, (u \ {y}) \ {z}) \in Int
  <2>1. (u \ {y}) \ {z} \in SUBSET D /\ IsFiniteSet((u \ {y}) \ {z})
    BY <1>2, FS_RemoveElement
  <2> QED
    BY <2>1, SumInt
<1>11. f[y] \in Int /\ f[z] \in Int
  BY <1>2, <1>3, <1>4
<1>12. f[z] + SumFunctionOnSet(f, u \ {z}) = f[y] + SumFunctionOnSet(f, u \ {y})
  <2> DEFINE k == SumFunctionOnSet(f, (u \ {y}) \ {z})
             withoutY == SumFunctionOnSet(f, u \ {y})
             withoutZ == SumFunctionOnSet(f, u \ {z})
  <2>1. k \in Int /\ withoutZ = f[y] + k /\ withoutY = f[z] + k
    BY <1>8, <1>9, <1>10
  <2> HIDE DEF k, withoutY, withoutZ
  <2>2. f[z] + withoutZ = f[y] + withoutY
    BY <2>1, <1>11, Exchange
  <2> QED
    BY <2>2 DEF withoutY, withoutZ
<1> QED
  BY <1>3, <1>4, <1>12

\* One element more.
LEMMA SumAdd ==
  ASSUME NEW D, NEW f \in [D -> Int], NEW S \in SUBSET D, IsFiniteSet(S),
         NEW x \in D, x \notin S
  PROVE  SumFunctionOnSet(f, S \union {x}) = f[x] + SumFunctionOnSet(f, S)
<1>1. IsFiniteSet(S \union {x}) /\ S \union {x} \in SUBSET D /\ (S \union {x}) \ {x} = S
  BY FS_AddElement
<1> QED
  BY <1>1, SumRemove

\* Only the values on the set matter.
LEMMA SumSame ==
  ASSUME NEW f, NEW g, NEW S, IsFiniteSet(S), \A x \in S : f[x] = g[x]
  PROVE  SumFunctionOnSet(f, S) = SumFunctionOnSet(g, S)
<1> DEFINE X == {u \in SUBSET S : SumFunctionOnSet(f, u) # SumFunctionOnSet(g, u)}
<1> SUFFICES ASSUME X # {} PROVE FALSE
  OBVIOUS
<1>1. PICK u \in X : \A v \in X : v \subseteq u => v = u
  <2>1. X \subseteq SUBSET S
    OBVIOUS
  <2> HIDE DEF X
  <2> QED
    BY <2>1, MinimalSubset
<1>2. u \in SUBSET S /\ IsFiniteSet(u) /\ SumFunctionOnSet(f, u) # SumFunctionOnSet(g, u)
  BY <1>1, FS_Subset
<1>3. u # {}
  BY <1>2, SumEmpty
<1>4. Pick(u) \in u /\ f[Pick(u)] = g[Pick(u)]
  BY <1>2, <1>3, PickIn
<1>5. SumFunctionOnSet(f, u \ {Pick(u)}) = SumFunctionOnSet(g, u \ {Pick(u)})
  BY <1>1, <1>2, <1>4
<1> QED
  BY <1>2, <1>3, <1>4, <1>5, SumPick

\* A value that grows makes the sum grow by as much.
LEMMA SumChange ==
  ASSUME NEW D, NEW f \in [D -> Int], NEW g \in [D -> Int],
         NEW S \in SUBSET D, IsFiniteSet(S), NEW x \in S,
         \A y \in S \ {x} : g[y] = f[y]
  PROVE  SumFunctionOnSet(g, S) = SumFunctionOnSet(f, S) + g[x] - f[x]
<1>1. IsFiniteSet(S \ {x}) /\ S \ {x} \in SUBSET D
  BY FS_RemoveElement
<1>2. SumFunctionOnSet(g, S \ {x}) = SumFunctionOnSet(f, S \ {x})
  BY <1>1, SumSame
<1>3. /\ SumFunctionOnSet(f, S) = f[x] + SumFunctionOnSet(f, S \ {x})
      /\ SumFunctionOnSet(g, S) = g[x] + SumFunctionOnSet(g, S \ {x})
  BY SumRemove
<1>4. SumFunctionOnSet(f, S \ {x}) \in Int /\ f[x] \in Int /\ g[x] \in Int
  BY <1>1, SumInt
<1> QED
  BY <1>2, <1>3, <1>4

\* A set and what is left of a larger one sum up to it.
LEMMA SumSplit ==
  ASSUME NEW D, NEW f \in [D -> Int], NEW S \in SUBSET D, IsFiniteSet(S),
         NEW T \in SUBSET S
  PROVE  SumFunctionOnSet(f, S) = SumFunctionOnSet(f, T) + SumFunctionOnSet(f, S \ T)
<1> DEFINE Whole(u) == SumFunctionOnSet(f, u \union (S \ T))
                       = SumFunctionOnSet(f, u) + SumFunctionOnSet(f, S \ T)
           X == {u \in SUBSET T : ~Whole(u)}
<1>0. IsFiniteSet(T) /\ IsFiniteSet(S \ T)
  BY FS_Subset
<1>1. CASE X = {}
  <2>1. Whole(T) /\ T \union (S \ T) = S
    BY <1>1
  <2> QED
    BY <2>1
<1>2. CASE X # {}
  <2>1. PICK u \in X : \A v \in X : v \subseteq u => v = u
    <3>1. X \subseteq SUBSET T
      OBVIOUS
    <3> HIDE DEF X
    <3> QED
      BY <1>0, <1>2, <3>1, MinimalSubset
  <2>2. u \in SUBSET T /\ IsFiniteSet(u) /\ ~Whole(u)
    BY <1>0, <2>1, FS_Subset
  <2>3. SumFunctionOnSet(f, S \ T) \in Int
    BY <1>0, SumInt
  <2>4. u # {}
    <3>1. Whole({})
      <4>1. SumFunctionOnSet(f, {}) = 0 /\ {} \union (S \ T) = S \ T
        BY SumEmpty
      <4> QED
        BY <2>3, <4>1
    <3> QED
      BY <2>2, <3>1
  <2>5. PICK x \in u : TRUE
    BY <2>4
  <2> DEFINE v == u \ {x}
  <2>6. Whole(v) /\ IsFiniteSet(v) /\ v \in SUBSET D
    <3>1. v \in SUBSET T /\ v \subseteq u /\ v # u /\ v \in SUBSET D
      BY <2>2, <2>5
    <3>2. IsFiniteSet(v)
      BY <2>2, FS_RemoveElement
    <3> HIDE DEF v, Whole
    <3> QED
      BY <2>1, <3>1, <3>2
  <2>7. SumFunctionOnSet(f, u) = f[x] + SumFunctionOnSet(f, v)
    BY <2>2, <2>5, SumRemove
  <2>8. SumFunctionOnSet(f, u \union (S \ T)) = f[x] + SumFunctionOnSet(f, v \union (S \ T))
    <3>1. u \union (S \ T) \in SUBSET D /\ x \in u \union (S \ T)
          /\ (u \union (S \ T)) \ {x} = v \union (S \ T)
      BY <2>2, <2>5
    <3>2. IsFiniteSet(u \union (S \ T))
      BY <2>2, FS_Subset
    <3> QED
      BY <3>1, <3>2, SumRemove
  <2>9. SumFunctionOnSet(f, v) \in Int /\ f[x] \in Int
    BY <2>2, <2>5, <2>6, SumInt
  <2> HIDE DEF v, X
  <2> QED
    BY <2>2, <2>3, <2>6, <2>7, <2>8, <2>9
<1> QED
  BY <1>1, <1>2

\* A part of natural numbers sums up to no more than all of them.
LEMMA SumPart ==
  ASSUME NEW D, NEW f \in [D -> Nat], NEW S \in SUBSET D, IsFiniteSet(S),
         NEW T \in SUBSET S
  PROVE  SumFunctionOnSet(f, T) <= SumFunctionOnSet(f, S)
<1>1. IsFiniteSet(T) /\ IsFiniteSet(S \ T) /\ f \in [D -> Int]
  BY FS_Subset
<1>2. SumFunctionOnSet(f, T) \in Nat /\ SumFunctionOnSet(f, S \ T) \in Nat
  BY <1>1, SumNat
<1>3. SumFunctionOnSet(f, S) = SumFunctionOnSet(f, T) + SumFunctionOnSet(f, S \ T)
  BY <1>1, SumSplit
<1> QED
  BY <1>2, <1>3
LEMMA SumZero ==
  ASSUME NEW f, NEW S, IsFiniteSet(S), \A x \in S : f[x] = 0
  PROVE  SumFunctionOnSet(f, S) = 0
<1> DEFINE X == {u \in SUBSET S : SumFunctionOnSet(f, u) # 0}
<1> SUFFICES ASSUME X # {} PROVE FALSE
  OBVIOUS
<1>1. PICK u \in X : \A v \in X : v \subseteq u => v = u
  <2>1. X \subseteq SUBSET S
    OBVIOUS
  <2> HIDE DEF X
  <2> QED
    BY <2>1, MinimalSubset
<1>2. u \in SUBSET S /\ IsFiniteSet(u) /\ SumFunctionOnSet(f, u) # 0
  BY <1>1, FS_Subset
<1>3. u # {}
  BY <1>2, SumEmpty
<1>4. Pick(u) \in u
  BY <1>3, PickIn
<1>5. SumFunctionOnSet(f, u \ {Pick(u)}) = 0
  BY <1>1, <1>2, <1>4
<1>6. SumFunctionOnSet(f, u) = f[Pick(u)] + SumFunctionOnSet(f, u \ {Pick(u)})
  BY <1>2, <1>3, SumPick
<1> QED
  BY <1>2, <1>4, <1>5, <1>6

\* Where at most one index counts.
LEMMA SumSingle ==
  ASSUME NEW D, NEW f \in [D -> Nat], NEW S \in SUBSET D, IsFiniteSet(S), NEW x \in S,
         \A y \in S \ {x} : f[y] = 0
  PROVE  SumFunctionOnSet(f, S) = f[x]
<1> DEFINE g == [f EXCEPT ![x] = 0]
<1>1. /\ g \in [D -> Nat] /\ \A y \in S \ {x} : f[y] = g[y]
      /\ \A y \in S : g[y] = 0 /\ g[x] = 0
  OBVIOUS
<1>2. SumFunctionOnSet(g, S) = 0
  BY <1>1, SumZero
<1>3. f \in [D -> Int] /\ g \in [D -> Int] /\ \A y \in S \ {x} : f[y] = g[y]
  BY <1>1
<1> HIDE DEF g
<1>4. SumFunctionOnSet(f, S) = SumFunctionOnSet(g, S) + f[x] - g[x]
  BY <1>3, SumChange
<1> QED
  BY <1>1, <1>2, <1>4

-----------------------------------------------------------------------------
(* The sum of the first n elements of a sequence. *)

Prefix(d, n) == SumFunctionOnSet(d, 1 .. n)

LEMMA PrefixNone ==
  ASSUME NEW d
  PROVE  Prefix(d, 0) = 0
<1>1. 1 .. 0 = {}
  OBVIOUS
<1> QED
  BY <1>1, SumEmpty DEF Prefix

LEMMA PrefixNat ==
  ASSUME NEW d \in Seq(Nat), NEW n \in Nat, n <= Len(d)
  PROVE  Prefix(d, n) \in Nat
<1>1. d \in [1 .. Len(d) -> Nat] /\ Len(d) \in Nat /\ 1 \in Int /\ n \in Int
  OBVIOUS
<1>2. 1 .. n \in SUBSET (1 .. Len(d)) /\ IsFiniteSet(1 .. n)
  BY <1>1, FS_Interval
<1> QED
  BY <1>1, <1>2, SumNat DEF Prefix

LEMMA PrefixNext ==
  ASSUME NEW d \in Seq(Nat), NEW n \in Nat, n < Len(d)
  PROVE  Prefix(d, n + 1) = Prefix(d, n) + d[n + 1] /\ d[n + 1] \in Nat
<1> DEFINE D == 1 .. Len(d)
           S == 1 .. n
           x == n + 1
<1>1. d \in [D -> Nat] /\ d \in [D -> Int] /\ Len(d) \in Nat /\ 1 \in Int /\ n \in Int
  OBVIOUS
<1>2. S \in SUBSET D /\ x \in D /\ x \notin S /\ 1 .. n + 1 = S \union {x}
  BY <1>1
<1>3. IsFiniteSet(S)
  BY <1>1, FS_Interval
<1> HIDE DEF D, S, x
<1>4. SumFunctionOnSet(d, S \union {x}) = d[x] + SumFunctionOnSet(d, S)
  <2>1. d \in [D -> Int] /\ S \in SUBSET D /\ x \in D /\ x \notin S
    BY <1>1, <1>2
  <2> QED
    BY <1>3, <2>1, SumAdd
<1>5. d[x] \in Nat /\ SumFunctionOnSet(d, S) \in Nat
  <2>1. d[x] \in Nat
    BY <1>1, <1>2
  <2> QED
    BY <1>1, <1>2, <1>3, <2>1, SumNat, Zenon
<1>6. d[x] + SumFunctionOnSet(d, S) = SumFunctionOnSet(d, S) + d[x]
  BY <1>5
<1>7. SumFunctionOnSet(d, 1 .. n + 1) = SumFunctionOnSet(d, S) + d[x]
  BY <1>2, <1>4, <1>6, Zenon
<1> QED
  BY <1>5, <1>7 DEF Prefix, S, x

\* The i-th element, counted from 1.
LEMMA PrefixAt ==
  ASSUME NEW d \in Seq(Nat), NEW i \in Nat, i > 0, i <= Len(d)
  PROVE  /\ Len(d) \in Nat /\ i + 1 \in 1 .. Len(d) + 1 /\ i + 1 - 1 = i
         /\ d[i] \in Nat /\ Prefix(d, i - 1) \in Nat
         /\ Prefix(d, i) = Prefix(d, i - 1) + d[i]
<1> DEFINE n == i - 1
<1>1. Len(d) \in Nat
  OBVIOUS
<1>2. /\ n \in Nat /\ n < Len(d) /\ n <= Len(d) /\ n + 1 = i
      /\ i + 1 \in 1 .. Len(d) + 1 /\ i + 1 - 1 = i
  BY <1>1
<1> HIDE DEF n
<1>3. Prefix(d, n) \in Nat /\ Prefix(d, n + 1) = Prefix(d, n) + d[n + 1] /\ d[n + 1] \in Nat
  BY <1>2, PrefixNat, PrefixNext
<1>4. Prefix(d, n) \in Nat /\ Prefix(d, i) = Prefix(d, n) + d[i] /\ d[i] \in Nat
  BY <1>2, <1>3, Zenon
<1> QED
  BY <1>1, <1>2, <1>4 DEF n

LEMMA SequenceSum ==
  ASSUME NEW d \in Seq(Nat)
  PROVE  SumFunctionOnSet(d, DOMAIN d) = Prefix(d, Len(d))
BY DEF Prefix
=============================================================================
