---------------------------- MODULE VotingProofs ----------------------------
(***************************************************************************)
(* Proofs about Voting, for any voters, connections, tokens and bounds;    *)
(* and before them, about the sums and the percentages of Tally.           *)
(***************************************************************************)
EXTENDS Voting, FiniteSetTheorems, TLAPS

(* Sums over finite sets.                                                  *)

(* Induction over the subsets of a finite set, as a statement about a set  *)
(* G: the library's induction theorems take a predicate.                   *)
LEMMA SubsetInduction ==
  ASSUME NEW S, IsFiniteSet(S), NEW G,
         \A T \in SUBSET S : (\A U \in SUBSET T : U # T => U \in G) => T \in G
  PROVE  S \in G
<1> SUFFICES ASSUME S \notin G PROVE FALSE
  OBVIOUS
<1> DEFINE Bad == (SUBSET S) \ G
<1>1. Bad \subseteq FiniteSubsetsOf(S) /\ Bad # {}
  BY FS_FiniteSubsetsOfFinite
<1>2. PICK T \in Bad : \A U \in Bad : <<U, T>> \notin StrictSubsetOrdering(S)
  <2> HIDE DEF Bad
  <2> QED
    BY <1>1, FS_StrictSubsetOrderingWellFounded, WFMin
<1>3. ASSUME NEW U \in SUBSET T, U # T
      PROVE  U \in G
  <2>1. U \in SUBSET S /\ T \in SUBSET S
    BY <1>3
  <2>2. <<U, T>> \in StrictSubsetOrdering(S)
    BY <1>3, <2>1 DEF StrictSubsetOrdering
  <2> QED
    BY <1>2, <2>1, <2>2
<1> QED
  BY <1>2, <1>3

Pick(s) == CHOOSE x \in s : TRUE

(* What the definition of a sum says of the function it recurs with.       *)
Iterates(g, f, S) ==
  g = [s \in SUBSET S |-> IF s = {} THEN 0 ELSE f[Pick(s)] + g[s \ {Pick(s)}]]

LEMMA SumIterates ==
  ASSUME NEW f, NEW S
  PROVE  SumFunctionOnSet(f, S) = (CHOOSE g : Iterates(g, f, S))[S]
BY DEF SumFunctionOnSet, FoldFunctionOnSet, MapThenFoldSet, Iterates, Pick

LEMMA IteratesUnique ==
  ASSUME NEW f, NEW S, NEW T, NEW g, NEW h, Iterates(g, f, S), Iterates(h, f, T),
         NEW W, W \subseteq S, W \subseteq T, IsFiniteSet(W)
  PROVE  g[W] = h[W]
<1> DEFINE G == {U \in SUBSET W : g[U] = h[U]}
<1>1. ASSUME NEW U \in SUBSET W, \A V \in SUBSET U : V # U => V \in G
      PROVE  U \in G
  <2>1. /\ g[U] = IF U = {} THEN 0 ELSE f[Pick(U)] + g[U \ {Pick(U)}]
        /\ h[U] = IF U = {} THEN 0 ELSE f[Pick(U)] + h[U \ {Pick(U)}]
    BY DEF Iterates
  <2>2. CASE U # {}
    <3>1. Pick(U) \in U
      BY <2>2 DEF Pick
    <3>2. U \ {Pick(U)} \in G
      BY <1>1, <3>1
    <3> QED
      BY <2>1, <2>2, <3>2
  <2> QED
    BY <2>1, <2>2
<1> HIDE DEF G
<1>2. W \in G
  BY <1>1, SubsetInduction
<1> QED
  BY <1>2 DEF G

LEMMA IteratesExists ==
  ASSUME NEW f, NEW S, IsFiniteSet(S)
  PROVE  \E g : Iterates(g, f, S)
<1> DEFINE G == {T \in SUBSET S : \E g : Iterates(g, f, T)}
<1>1. ASSUME NEW T \in SUBSET S, \A U \in SUBSET T : U # T => U \in G
      PROVE  T \in G
  <2> DEFINE It(r) == CHOOSE g : Iterates(g, f, r)
             h == [s \in SUBSET T |-> IF s = {} THEN 0 ELSE f[Pick(s)] + It(s \ {Pick(s)})[s \ {Pick(s)}]]
  <2>1. ASSUME NEW s \in SUBSET T, s # {}
        PROVE  It(s \ {Pick(s)})[s \ {Pick(s)}] = h[s \ {Pick(s)}]
    <3> DEFINE r == s \ {Pick(s)}
    <3>1. r \in SUBSET T /\ r # T
      BY <2>1 DEF Pick
    <3>2. Iterates(It(r), f, r)
      BY <1>1, <3>1
    <3>3. It(r)[r] = IF r = {} THEN 0 ELSE f[Pick(r)] + It(r)[r \ {Pick(r)}]
      <4> HIDE DEF It, r
      <4> QED
        BY <3>2 DEF Iterates
    <3>4. CASE r # {}
      <4> DEFINE q == r \ {Pick(r)}
      <4>1. q \in SUBSET T /\ q # T /\ IsFiniteSet(q)
        BY <3>1, FS_Subset
      <4>2. Iterates(It(q), f, q)
        BY <1>1, <4>1
      <4>3. It(r)[q] = It(q)[q]
        <5>1. q \subseteq r
          OBVIOUS
        <5> HIDE DEF It, q, r
        <5> QED
          BY <3>2, <4>1, <4>2, <5>1, IteratesUnique
      <4> QED
        BY <3>1, <3>3, <3>4, <4>3
    <3> QED
      BY <3>1, <3>3, <3>4
  <2>2. h = [s \in SUBSET T |-> IF s = {} THEN 0 ELSE f[Pick(s)] + h[s \ {Pick(s)}]]
    <3> DEFINE a(s) == It(s \ {Pick(s)})[s \ {Pick(s)}]
    <3>1. h = [s \in SUBSET T |-> IF s = {} THEN 0 ELSE f[Pick(s)] + a(s)]
      OBVIOUS
    <3>2. \A s \in SUBSET T : s # {} => a(s) = h[s \ {Pick(s)}]
      BY <2>1
    <3> HIDE DEF h, a
    <3> QED
      BY <3>1, <3>2
  <2> HIDE DEF h
  <2>3. Iterates(h, f, T)
    BY <2>2 DEF Iterates
  <2> QED
    BY <2>3
<1> HIDE DEF G
<1>2. S \in G
  BY <1>1, SubsetInduction
<1> QED
  BY <1>2 DEF G


(* The sum over a set, by the element that the definition takes first,     *)
LEMMA SumPick ==
  ASSUME NEW f, NEW S, IsFiniteSet(S)
  PROVE  SumFunctionOnSet(f, S) =
           IF S = {} THEN 0 ELSE f[Pick(S)] + SumFunctionOnSet(f, S \ {Pick(S)})
<1> DEFINE It(T) == CHOOSE g : Iterates(g, f, T)
           R == S \ {Pick(S)}
<1>1. IsFiniteSet(R)
  BY FS_RemoveElement
<1>2. Iterates(It(S), f, S) /\ Iterates(It(R), f, R)
  BY <1>1, IteratesExists
<1>3. SumFunctionOnSet(f, S) = It(S)[S] /\ SumFunctionOnSet(f, R) = It(R)[R]
  BY SumIterates
<1>4. R \subseteq S
  OBVIOUS
<1> HIDE DEF It
<1>5. It(S)[S] = IF S = {} THEN 0 ELSE f[Pick(S)] + It(S)[R]
  BY <1>2 DEF Iterates
<1> HIDE DEF R
<1>6. It(S)[R] = It(R)[R]
  BY <1>1, <1>2, <1>4, IteratesUnique
<1> QED
  BY <1>3, <1>5, <1>6 DEF R

(* is a number when the values are.                                        *)
LEMMA SumInt ==
  ASSUME NEW f, NEW S, IsFiniteSet(S), \A x \in S : f[x] \in Int
  PROVE  SumFunctionOnSet(f, S) \in Int
<1> DEFINE G == {T \in SUBSET S : SumFunctionOnSet(f, T) \in Int}
<1>1. ASSUME NEW T \in SUBSET S, \A U \in SUBSET T : U # T => U \in G
      PROVE  T \in G
  <2>1. SumFunctionOnSet(f, T) =
          IF T = {} THEN 0 ELSE f[Pick(T)] + SumFunctionOnSet(f, T \ {Pick(T)})
    BY FS_Subset, SumPick
  <2>2. CASE T # {}
    <3>1. Pick(T) \in T
      BY <2>2 DEF Pick
    <3>2. T \ {Pick(T)} \in G
      BY <1>1, <3>1
    <3> QED
      BY <2>1, <2>2, <3>1, <3>2
  <2> QED
    BY <2>1, <2>2
<1> HIDE DEF G
<1>2. S \in G
  BY <1>1, SubsetInduction
<1> QED
  BY <1>2 DEF G

(* Any element may be taken first.                                         *)
LEMMA SumTakeOut ==
  ASSUME NEW f, NEW S, IsFiniteSet(S), \A x \in S : f[x] \in Int, NEW x \in S
  PROVE  SumFunctionOnSet(f, S) = f[x] + SumFunctionOnSet(f, S \ {x})
<1> DEFINE s(T) == SumFunctionOnSet(f, T)
           G == {T \in SUBSET S : \A y \in T : s(T) = f[y] + s(T \ {y})}
<1>0. \A T \in SUBSET S : s(T) \in Int /\ IsFiniteSet(T)
  BY SumInt, FS_Subset
<1>1. ASSUME NEW T \in SUBSET S, \A U \in SUBSET T : U # T => U \in G
      PROVE  T \in G
  <2> SUFFICES ASSUME NEW y \in T PROVE s(T) = f[y] + s(T \ {y})
    OBVIOUS
  <2> DEFINE p == Pick(T)
  <2>1. p \in T /\ T # {}
    BY DEF Pick
  <2>2. s(T) = f[p] + s(T \ {p})
    BY <1>0, <2>1, SumPick
  <2>3. CASE y # p
    <3>1. T \ {p} \in G /\ T \ {y} \in G
      BY <1>1, <2>1
    <3>2. s(T \ {p}) = f[y] + s((T \ {p}) \ {y})
      BY <2>3, <3>1
    <3>3. s(T \ {y}) = f[p] + s((T \ {y}) \ {p})
      BY <2>1, <2>3, <3>1
    <3>4. (T \ {y}) \ {p} = (T \ {p}) \ {y}
      OBVIOUS
    <3>5. f[p] \in Int /\ f[y] \in Int /\ s((T \ {p}) \ {y}) \in Int
      BY <1>0, <2>1
    <3> HIDE DEF s, p
    <3>6. s(T) = f[p] + (f[y] + s((T \ {p}) \ {y})) /\ s(T \ {y}) = f[p] + s((T \ {p}) \ {y})
      BY <2>2, <3>2, <3>3, <3>4
    <3> QED
      BY <3>5, <3>6
  <2> QED
    BY <2>2, <2>3
<1> HIDE DEF G
<1>2. S \in G
  BY <1>1, SubsetInduction
<1> QED
  BY <1>2 DEF G

LEMMA SumEmpty == ASSUME NEW f PROVE SumFunctionOnSet(f, {}) = 0
BY SumPick, FS_EmptySet

(* A fact about sums that holds of none and holds of one element more      *)
(* whenever it holds of the others.                                        *)
LEMMA ElementInduction ==
  ASSUME NEW S, IsFiniteSet(S), NEW G, {} \in G,
         \A T \in SUBSET S : \A x \in T : T \ {x} \in G => T \in G
  PROVE  S \in G
<1>1. ASSUME NEW T \in SUBSET S, \A U \in SUBSET T : U # T => U \in G
      PROVE  T \in G
  <2>1. CASE T # {}
    <3>1. PICK x \in T : TRUE
      BY <2>1
    <3>2. T \ {x} \in SUBSET T /\ T \ {x} # T
      BY <3>1
    <3> QED
      BY <1>1, <3>2
  <2> QED
    BY <2>1
<1> QED
  BY <1>1, SubsetInduction

LEMMA SumSame ==
  ASSUME NEW f, NEW g, NEW S, IsFiniteSet(S), \A x \in S : f[x] \in Int /\ g[x] = f[x]
  PROVE  SumFunctionOnSet(g, S) = SumFunctionOnSet(f, S)
<1> DEFINE G == {T \in SUBSET S : SumFunctionOnSet(g, T) = SumFunctionOnSet(f, T)}
<1>1. {} \in G
  BY SumEmpty
<1>2. ASSUME NEW T \in SUBSET S, NEW x \in T, T \ {x} \in G
      PROVE  T \in G
  <2>1. IsFiniteSet(T)
    BY FS_Subset
  <2>2. SumFunctionOnSet(f, T) = f[x] + SumFunctionOnSet(f, T \ {x})
    BY <2>1, SumTakeOut
  <2>3. SumFunctionOnSet(g, T) = g[x] + SumFunctionOnSet(g, T \ {x})
    BY <2>1, SumTakeOut
  <2> QED
    BY <1>2, <2>2, <2>3
<1> HIDE DEF G
<1>3. S \in G
  BY <1>1, <1>2, ElementInduction
<1> QED
  BY <1>3 DEF G

(* One more at one place is one more in the sum.                           *)
LEMMA SumOneMore ==
  ASSUME NEW f, NEW g, NEW S, IsFiniteSet(S), \A x \in S : f[x] \in Int,
         NEW i \in S, g[i] = f[i] + 1, \A x \in S \ {i} : g[x] = f[x]
  PROVE  SumFunctionOnSet(g, S) = SumFunctionOnSet(f, S) + 1
<1>1. IsFiniteSet(S \ {i}) /\ \A x \in S : g[x] \in Int
  BY FS_RemoveElement
<1>2. SumFunctionOnSet(f, S) = f[i] + SumFunctionOnSet(f, S \ {i})
  BY SumTakeOut
<1>3. SumFunctionOnSet(g, S) = g[i] + SumFunctionOnSet(g, S \ {i})
  BY <1>1, SumTakeOut
<1>4. SumFunctionOnSet(g, S \ {i}) = SumFunctionOnSet(f, S \ {i})
        /\ SumFunctionOnSet(f, S \ {i}) \in Int
  BY <1>1, SumSame, SumInt
<1> QED
  BY <1>2, <1>3, <1>4

(* A part of a sum of natural numbers is no greater than the whole.        *)
LEMMA SumPart ==
  ASSUME NEW f, NEW S, IsFiniteSet(S), \A x \in S : f[x] \in Nat, NEW P \in SUBSET S
  PROVE  /\ SumFunctionOnSet(f, S) \in Nat /\ SumFunctionOnSet(f, P) \in Nat
         /\ SumFunctionOnSet(f, P) <= SumFunctionOnSet(f, S)
<1> DEFINE s(T) == SumFunctionOnSet(f, T)
           G == {T \in SUBSET S : s(T \cap P) \in Nat /\ s(T \cap P) <= s(T)}
<1>0. \A T \in SUBSET S : IsFiniteSet(T) /\ s(T) \in Int
  BY FS_Subset, SumInt
<1>1. {} \in G
  BY SumEmpty
<1>2. ASSUME NEW T \in SUBSET S, NEW x \in T, T \ {x} \in G
      PROVE  T \in G
  <2>1. s(T) = f[x] + s(T \ {x})
    BY <1>0, SumTakeOut
  <2>2. CASE x \in P
    <3>1. (T \cap P) \ {x} = (T \ {x}) \cap P
      OBVIOUS
    <3>2. s(T \cap P) = f[x] + s((T \cap P) \ {x})
      BY <1>0, <2>2, SumTakeOut
    <3>3. s(T \ {x}) \in Int /\ s((T \ {x}) \cap P) \in Nat /\ s((T \ {x}) \cap P) <= s(T \ {x})
      BY <1>0, <1>2
    <3> HIDE DEF s
    <3>4. s(T \cap P) = f[x] + s((T \ {x}) \cap P)
      BY <3>1, <3>2
    <3> QED
      BY <2>1, <3>3, <3>4
  <2>3. CASE x \notin P
    <3>1. T \cap P = (T \ {x}) \cap P
      BY <2>3
    <3>2. s(T \ {x}) \in Int /\ s((T \ {x}) \cap P) \in Nat /\ s((T \ {x}) \cap P) <= s(T \ {x})
      BY <1>0, <1>2
    <3> HIDE DEF s
    <3> QED
      BY <2>1, <3>1, <3>2
  <2> QED
    BY <2>2, <2>3
<1> HIDE DEF G
<1>3. S \in G
  BY <1>1, <1>2, ElementInduction
<1>4. S \cap P = P
  OBVIOUS
<1> QED
  BY <1>0, <1>3, <1>4 DEF G
-----------------------------------------------------------------------------
(* The arithmetic of tally.                                                *)

(* The quotient that a percentage is rounded from.                         *)
Down(part, whole) == (1000 * part) \div whole

LEMMA DownBounds ==
  ASSUME NEW part \in Nat, NEW whole \in Nat \ {0}
  PROVE  /\ Down(part, whole) \in Nat
         /\ Down(part, whole) * whole \in Nat
         /\ Down(part, whole) * whole <= 1000 * part
         /\ 1000 * part < Down(part, whole) * whole + whole
<1>1. ASSUME NEW a \in Nat
      PROVE  a \div whole \in Nat /\ whole * (a \div whole) <= a /\ a < whole * (a \div whole) + whole
  OBVIOUS
<1>2. ASSUME NEW d \in Nat
      PROVE  d * whole \in Nat /\ d * whole = whole * d
  OBVIOUS
<1>3. 1000 * part \in Nat
  OBVIOUS
<1> QED
  BY <1>1, <1>2, <1>3 DEF Down

LEMMA PercentNearest ==
  ASSUME NEW part \in Nat, NEW whole \in Nat \ {0}
  PROVE  Percent(part, whole) \in Nat /\ Nearest(Percent(part, whole), part, whole)
<1> DEFINE d == Down(part, whole)
           q == d * whole
<1>1. d \in Nat /\ q \in Nat /\ q <= 1000 * part /\ 1000 * part < q + whole
  BY DownBounds
<1>2. (d + 1) * whole = q + whole
  BY <1>1
<1>3. Nearest(d, part, whole) \/ Nearest(d + 1, part, whole)
  <2> HIDE DEF q, d
  <2>1. 2 * q - 2000 * part <= whole
    BY <1>1
  <2>2. CASE 2000 * part - 2 * q <= whole
    BY <2>1, <2>2 DEF Nearest, q
  <2>3. CASE ~(2000 * part - 2 * q <= whole)
    <3>1. 2 * (q + whole) - 2000 * part <= whole /\ 2000 * part - 2 * (q + whole) <= whole
      BY <1>1, <2>3
    <3> QED
      BY <1>2, <3>1 DEF Nearest
  <2> QED
    BY <2>2, <2>3
<1>4. Percent(part, whole) = CHOOSE p \in {d, d + 1} : Nearest(p, part, whole)
  BY DEF Percent, Down
<1> HIDE DEF d
<1>5. Percent(part, whole) \in {d, d + 1} /\ Nearest(Percent(part, whole), part, whole)
  BY <1>3, <1>4, Zenon
<1> QED
  BY <1>1, <1>5

LEMMA PercentOfNone == ASSUME NEW part PROVE Percent(part, 0) = 0
BY DEF Percent

(* More votes never have a smaller percentage.                             *)
LEMMA PercentOrder ==
  ASSUME NEW a \in Nat, NEW b \in Nat, a <= b, NEW whole \in Nat
  PROVE  Percent(a, whole) <= Percent(b, whole)
<1>1. CASE whole = 0 \/ a = b
  <2>1. whole = 0 => Percent(a, whole) = 0 /\ Percent(b, whole) = 0
    BY PercentOfNone
  <2>2. whole # 0 => Percent(a, whole) \in Nat
    BY PercentNearest
  <2> QED
    BY <1>1, <2>1, <2>2
<1>2. CASE whole # 0 /\ a < b
  <2> DEFINE p == Percent(a, whole)
             r == Percent(b, whole)
  <2>1. p \in Nat /\ r \in Nat
    BY <1>2, PercentNearest
  <2>2. Nearest(p, a, whole) /\ Nearest(r, b, whole)
    BY <1>2, PercentNearest
  <2> HIDE DEF p, r
  <2>3. ASSUME r < p PROVE FALSE
    <3>1. PICK k \in Nat : p = r + 1 + k
      <4>1. p - r - 1 \in Nat /\ p = r + 1 + (p - r - 1)
        BY <2>1, <2>3
      <4> QED
        BY <4>1
    <3>2. p * whole = r * whole + whole + k * whole /\ k * whole \in Nat /\ r * whole \in Nat
      BY <1>2, <2>1, <3>1
    <3>3. 2 * (p * whole) - 2000 * a <= whole /\ 2000 * b - 2 * (r * whole) <= whole
      BY <2>2 DEF Nearest
    <3> QED
      BY <1>2, <3>2, <3>3
  <2> QED
    BY <2>1, <2>3 DEF p, r
<1> QED
  BY <1>1, <1>2

(* The distance of the sum is at most the sum of the distances.            *)
LEMMA SumDistance ==
  ASSUME NEW p, NEW f, NEW whole \in Nat, NEW S, IsFiniteSet(S),
         \A x \in S : p[x] \in Int /\ f[x] \in Int /\ Nearest(p[x], f[x], whole)
  PROVE  LET e == SumFunctionOnSet(p, S) * whole
             s == SumFunctionOnSet(f, S)
             n == Cardinality(S)
         IN  2 * e - 2000 * s <= n * whole /\ 2000 * s - 2 * e <= n * whole
<1> DEFINE e(T) == SumFunctionOnSet(p, T) * whole
           s(T) == SumFunctionOnSet(f, T)
           n(T) == Cardinality(T)
           G == {T \in SUBSET S : 2 * e(T) - 2000 * s(T) <= n(T) * whole /\ 2000 * s(T) - 2 * e(T) <= n(T) * whole}
<1>0. \A T \in SUBSET S : IsFiniteSet(T) /\ SumFunctionOnSet(p, T) \in Int /\ s(T) \in Int /\ n(T) \in Nat
  BY FS_Subset, SumInt, FS_CardinalityType
<1>1. {} \in G
  BY SumEmpty, FS_EmptySet
<1>2. ASSUME NEW T \in SUBSET S, NEW x \in T, T \ {x} \in G
      PROVE  T \in G
  <2> DEFINE U == T \ {x}
             a == SumFunctionOnSet(p, U)
  <2>1. s(T) = f[x] + s(U) /\ SumFunctionOnSet(p, T) = p[x] + a
    BY <1>0, SumTakeOut
  <2>2. n(T) = n(U) + 1
    BY <1>0, FS_RemoveElement
  <2>3. a \in Int /\ s(U) \in Int /\ n(U) \in Nat /\ p[x] \in Int /\ f[x] \in Int /\ Nearest(p[x], f[x], whole)
    BY <1>0
  <2>4. e(T) = p[x] * whole + e(U) /\ n(T) * whole = n(U) * whole + whole
    <3>1. ASSUME NEW i \in Int, NEW j \in Int PROVE (i + j) * whole = i * whole + j * whole
      OBVIOUS
    <3>2. (p[x] + a) * whole = p[x] * whole + a * whole
      BY <2>3, <3>1
    <3>3. (n(U) + 1) * whole = n(U) * whole + whole
      BY <2>3, <3>1
    <3> QED
      BY <2>1, <2>2, <3>2, <3>3
  <2>5. p[x] * whole \in Int /\ e(U) \in Int /\ n(U) * whole \in Int
    BY <2>3
  <2>6. 2 * e(U) - 2000 * s(U) <= n(U) * whole /\ 2000 * s(U) - 2 * e(U) <= n(U) * whole
    BY <1>2
  <2>7. 2 * (p[x] * whole) - 2000 * f[x] <= whole /\ 2000 * f[x] - 2 * (p[x] * whole) <= whole
    BY <2>3 DEF Nearest
  <2>8. 2 * e(T) - 2000 * s(T) <= n(T) * whole /\ 2000 * s(T) - 2 * e(T) <= n(T) * whole
    <3> DEFINE nw(X) == n(X) * whole
               px == p[x] * whole
    <3>1. nw(T) = nw(U) + whole /\ e(T) = px + e(U) /\ px \in Int /\ e(U) \in Int /\ nw(U) \in Int
      BY <2>4, <2>5
    <3>2. 2 * e(U) - 2000 * s(U) <= nw(U) /\ 2000 * s(U) - 2 * e(U) <= nw(U)
      BY <2>6
    <3>3. 2 * px - 2000 * f[x] <= whole /\ 2000 * f[x] - 2 * px <= whole
      BY <2>7
    <3> HIDE DEF e, s, n, nw, px, U
    <3>4. 2 * e(T) - 2000 * s(T) <= nw(T) /\ 2000 * s(T) - 2 * e(T) <= nw(T)
      BY <2>1, <2>3, <3>1, <3>2, <3>3
    <3> QED
      BY <3>4 DEF nw
  <2> QED
    BY <2>8
<1> HIDE DEF G
<1>3. S \in G
  BY <1>1, <1>2, ElementInduction
<1> QED
  BY <1>3 DEF G

(* So the results of any ballots are in order and add up.                 *)
LEMMA AnyTallyAddsUp ==
  ASSUME NEW box \in [CandidateIds -> Nat]
  PROVE  AddsUp(box)
<1> DEFINE pct == PercentOf(box)
           total == TotalVotes(box)
           sum == SumFunction(pct)
           listed == ListedVotes(box)
           n == Cardinality(Candidates)
<1>1. IsFiniteSet(Candidates) /\ Candidates \subseteq CandidateIds /\ n \in Nat
  BY CandidatesAssumption, FS_Subset, FS_CardinalityType
<1>2. total = SumFunctionOnSet(box, CandidateIds) /\ listed = SumFunctionOnSet(box, Candidates)
        /\ sum = SumFunctionOnSet(pct, Candidates)
  BY DEF TotalVotes, ListedVotes, SumFunction, PercentOf
<1>3. total \in Nat /\ listed \in Nat /\ listed <= total
  BY CandidatesAssumption, <1>1, <1>2, SumPart
<1>4. ASSUME NEW c \in Candidates
      PROVE  box[c] \in Nat /\ pct[c] = Percent(box[c], total)
  BY <1>1 DEF PercentOf
<1>5. ASSUME NEW c \in Candidates, NEW d \in Candidates, box[c] <= box[d]
      PROVE  pct[c] <= pct[d]
  <2> HIDE DEF pct, total
  <2> QED
    BY <1>3, <1>4, <1>5, PercentOrder
<1>6. 2 * Distance(sum * total, 1000 * listed) <= n * total
  <2>1. CASE total = 0
    <3>1. \A c \in Candidates : pct[c] \in Int
      <4> HIDE DEF pct, total
      <4> QED
        BY <1>4, <2>1, PercentOfNone
    <3>2. sum \in Int
      BY <1>1, <1>2, <3>1, SumInt
    <3>3. listed = 0 /\ sum * total = 0 /\ n * total = 0
      <4> HIDE DEF sum, total, listed, n
      <4> QED
        BY <1>1, <1>3, <2>1, <3>2
    <3> HIDE DEF sum, total, listed, n
    <3> QED
      BY <3>3 DEF Distance
  <2>2. CASE total # 0
    <3>1. ASSUME NEW c \in Candidates
          PROVE  pct[c] \in Int /\ box[c] \in Int /\ Nearest(pct[c], box[c], total)
      <4> HIDE DEF pct, total
      <4> QED
        BY <1>3, <1>4, <2>2, PercentNearest
    <3>2. sum \in Int
      BY <1>1, <1>2, <3>1, SumInt
    <3>3. 2 * (sum * total) - 2000 * listed <= n * total /\ 2000 * listed - 2 * (sum * total) <= n * total
      <4> HIDE DEF pct, total, sum, listed, n
      <4> QED
        BY <1>1, <1>2, <1>3, <3>1, SumDistance DEF n
    <3>4. sum * total \in Int /\ n * total \in Int
      <4> HIDE DEF sum, total, n
      <4> QED
        BY <1>1, <1>3, <3>2
    <3> DEFINE st == sum * total
               nt == n * total
    <3>5. st \in Int /\ nt \in Int /\ 2 * st - 2000 * listed <= nt /\ 2000 * listed - 2 * st <= nt
      BY <3>3, <3>4
    <3> HIDE DEF sum, total, listed, n, st, nt
    <3>6. 2 * Distance(st, 1000 * listed) <= nt
      BY <1>3, <3>5 DEF Distance
    <3> QED
      BY <3>6 DEF st, nt
  <2> QED
    BY <2>1, <2>2
<1> QED
  BY <1>5, <1>6 DEF AddsUp
-----------------------------------------------------------------------------
(* Requests.  The invariant at the start;                                  *)
LEMMA TotalIsNumber ==
  ASSUME NEW box \in [CandidateIds -> Nat]
  PROVE  TotalVotes(box) \in Nat
BY CandidatesAssumption, SumPart DEF TotalVotes, SumFunction

LEMMA InitTyped == ASSUME Init PROVE TypeOK
<1>1. votes \in [CandidateIds -> Nat] /\ status \in {"not_started", "open", "closed"}
  BY VotingAssumption DEF Init
<1>2. issued \in 0..MaxLogins /\ requests \in 0..MaxRequests /\ crashes \in 0..MaxCrashes
  BY VotingAssumption DEF Init
<1> QED
  BY <1>1, <1>2 DEF Init, TypeOK

LEMMA InitIInv == ASSUME Init PROVE IInv
<1>1. TypeOK
  BY InitTyped
<1>2. RequestsHaveSenders /\ TokensAreOwn /\ ContextsAreOwn /\ OneReceipt
  BY DEF Init, RequestsHaveSenders, Busy, TokensAreOwn, ContextsAreOwn, OneReceipt, OnItsWay
<1>3. BallotsAreMarked /\ ClosingsAreClean
  BY DEF Init, BallotsAreMarked, ClosingsAreClean, Opening
<1>4. IsFiniteSet(hasVoted) /\ TurnoutAgrees
  <2>1. hasVoted = {} /\ votes = old /\ crashes = 0
    BY DEF Init
  <2>2. TotalVotes(old) \in Nat
    BY <1>1, TotalIsNumber DEF TypeOK
  <2> QED
    BY <2>1, <2>2, FS_EmptySet DEF TurnoutAgrees, VotedCount
<1>5. EachBallotCounted
  <2>1. votes = old /\ \A i \in CandidateIds : {v \in Voters : ballotOf[v] = i} = {}
    BY VotingAssumption DEF Init
  <2>2. \A i \in CandidateIds : old[i] \in Nat
    BY <1>1 DEF TypeOK
  <2> QED
    BY <2>1, <2>2, FS_EmptySet DEF EachBallotCounted
<1> QED
  BY <1>1, <1>2, <1>3, <1>4, <1>5 DEF IInv

(* The types.                                                              *)
LEMMA ClientTyped ==
  ASSUME IInv, NEW u \in Users, NEW c \in Conns, Client(u, c)
  PROVE  TypeOK'
<1>1. CASE LogIn(u)
  BY <1>1, VotingAssumption
  DEF IInv, TypeOK, LogIn, NewToken, Tokens, store, conn, closing, counters
<1>2. CASE LogOut(u)
  BY <1>2 DEF IInv, TypeOK, LogOut, Dropped, store, conn, closing, counters
<1>3. CASE GiveUp(u, c)
  BY <1>3 DEF IInv, TypeOK, GiveUp, store, sessions, client, closing, counters
<1>4. ASSUME NEW type \in Types, NEW i \in Choices \cup {NoOne}, Send(u, c, type, i)
      PROVE  TypeOK'
  <2>1. [user |-> u, type |-> type, token |-> saved[u], choice |-> i] \in Request
    BY <1>4 DEF Send, IInv, TypeOK, Request
  <2>2. requests' \in 0..MaxRequests
    BY <1>4, VotingAssumption DEF Send, IInv, TypeOK
  <2>3. clean' \subseteq Conns /\ final' \in BOOLEAN
    BY <1>4 DEF Send, IInv, TypeOK
  <2> QED
    BY <1>4, <2>1, <2>2, <2>3 DEF Send, IInv, TypeOK, store, sessions, client
<1> QED
  BY <1>1, <1>2, <1>3, <1>4 DEF Client, Types

LEMMA ThreadTyped ==
  ASSUME IInv, NEW c \in Conns, Thread(c)
  PROVE  TypeOK'
<1>1. CASE Authorise(c)
  <2>1. session' \in [Tokens -> Users \cup {NoOne}]
    BY <1>1 DEF Authorise, Dropped, IInv, TypeOK
  <2>2. ctx' \in [Conns -> Users \cup {NoOne}]
    <3>1. Busy(c) => req[c] \in Request
      BY DEF IInv, RequestsHaveSenders
    <3>2. session[req[c].token] \in Users \cup {NoOne}
      BY <1>1, <3>1 DEF Authorise, Busy, Request, IInv, TypeOK
    <3> QED
      BY <1>1, <3>2 DEF Authorise, Context, IInv, TypeOK
  <2>3. answer' \in [Conns -> Codes \cup {"none"}] /\ at' \in [Conns -> {"free", "read", "request", "run", "reply"}]
    BY <1>1 DEF Authorise, Answer, Codes, IInv, TypeOK
  <2> QED
    BY <1>1, <2>1, <2>2, <2>3 DEF Authorise, IInv, TypeOK, store, client, closing, counters
<1>2. CASE CastVote(c)
  <2> DEFINE v == Who(c)
             i == req[c].choice
  <2>1. Refusal(v, i) \in Codes
    BY DEF Refusal, Codes
  <2>2. answer' \in [Conns -> Codes \cup {"none"}] /\ at' \in [Conns -> {"free", "read", "request", "run", "reply"}]
    BY <1>2, <2>1 DEF CastVote, Answer, IInv, TypeOK
  <2>3. Refusal(v, i) = "ok" => v \in Voters /\ i \in Candidates /\ i \in CandidateIds
    BY CandidatesAssumption DEF Refusal
  <2>4. votes' \in [CandidateIds -> Nat] /\ hasVoted' \subseteq Voters
        /\ ballotOf' \in [Voters -> Candidates \cup {NoOne}]
    BY <1>2, <2>3 DEF CastVote, IInv, TypeOK
  <2> QED
    BY <1>2, <2>2, <2>4 DEF CastVote, IInv, TypeOK, sessions, client, closing, counters
<1>3. CASE ChangeStatus(c)
  BY <1>3 DEF ChangeStatus, Answer, Codes, IInv, TypeOK, sessions, client, closing, counters
<1>4. ASSUME NEW place \in {"read", "free"}, Leave(c, place)
      PROVE  /\ at' \in [Conns -> {"free", "read", "request", "run", "reply"}]
             /\ req' \in [Conns -> Request \cup {NoRequest}]
             /\ ctx' \in [Conns -> Users \cup {NoOne}]
             /\ answer' \in [Conns -> Codes \cup {"none"}]
             /\ clean' \subseteq Conns
  BY <1>4 DEF Leave, IInv, TypeOK
<1>5. CASE Deliver(c)
  <2>1. req[c] \in Request /\ owner[c] = req[c].user
    BY <1>5 DEF Deliver, Busy, IInv, RequestsHaveSenders
  <2>2. Tells(c, "CAST_VOTE", "ok") \/ Tells(c, "CAST_VOTE", "ALREADY_VOTED") => owner[c] \in Voters
    BY <1>5, <2>1 DEF Deliver, Tells, IInv, ContextsAreOwn, RoleFits, RoleOf, RoleFor, ForAdmins, Request, Users
  <2>3. receipts' \subseteq Voters /\ informed' \subseteq Voters
    BY <1>5, <2>2 DEF Deliver, IInv, TypeOK
  <2>4. final' \in BOOLEAN
    BY <1>5 DEF Deliver
  <2> QED
    BY <1>4, <1>5, <2>3, <2>4 DEF Deliver, IInv, TypeOK, store, sessions, counters
<1>6. CASE SendFails(c)
  BY <1>4, <1>6 DEF SendFails, IInv, TypeOK, store, sessions, client, counters
<1> QED
  BY <1>1, <1>2, <1>3, <1>5, <1>6 DEF Thread

LEMMA RestartTyped == ASSUME IInv, Restart PROVE TypeOK'
<1>1. hasVoted' \subseteq Voters
  <2>1. ASSUME NEW c \in Conns, Refusal(Who(c), req[c].choice) = "ok"
        PROVE  Who(c) \in Voters
    BY <2>1 DEF Refusal
  <2> QED
    BY <2>1 DEF Restart, KeptMarks, IInv, TypeOK
<1>2. crashes' \in 0..MaxCrashes
  BY VotingAssumption DEF Restart, IInv, TypeOK
<1> QED
  BY <1>1, <1>2 DEF Restart, IInv, TypeOK, client, Codes

(* The other parts of the invariant.                                       *)
LEMMA TokensStayOwn ==
  ASSUME IInv, Next
  PROVE  RequestsHaveSenders' /\ TokensAreOwn'
<1> USE DEF IInv, RequestsHaveSenders, TokensAreOwn, Busy, Holds
<1>1. ASSUME NEW u \in Users, LogIn(u)
      PROVE  RequestsHaveSenders' /\ TokensAreOwn'
  <2>1. issued' = issued + 1 /\ issued \in Nat /\ saved' = [saved EXCEPT ![u] = issued + 1]
        /\ session' = [session EXCEPT ![issued + 1] = u] /\ issued + 1 \in Tokens
    BY <1>1, VotingAssumption DEF LogIn, NewToken, TypeOK, Tokens
  <2>2. \A w \in Users : \A t : Holds(w, t) => Holds(w, t)'
    BY <2>1 DEF TypeOK, Tokens
  <2>3. Holds(u, saved[u])'
    BY <2>1 DEF TypeOK
  <2>4. \A w \in Users : saved'[w] # NoOne => Holds(w, saved[w])'
    BY <2>1, <2>2, <2>3 DEF TypeOK
  <2> QED
    BY <1>1, <2>2, <2>3, <2>1 DEF LogIn, TypeOK, conn, Request
<1>2. ASSUME NEW u \in Users, LogOut(u)
      PROVE  RequestsHaveSenders' /\ TokensAreOwn'
  BY <1>2 DEF LogOut, Dropped, TypeOK, conn
<1>3. ASSUME NEW u \in Users, NEW c \in Conns, NEW type \in Types, NEW i \in Choices \cup {NoOne},
             Send(u, c, type, i)
      PROVE  RequestsHaveSenders' /\ TokensAreOwn'
  <2>1. [user |-> u, type |-> type, token |-> saved[u], choice |-> i] \in Request
    BY <1>3 DEF Send, TypeOK, Request
  <2> QED
    BY <1>3, <2>1 DEF Send, TypeOK, sessions, client
<1>4. ASSUME NEW u \in Users, NEW c \in Conns, GiveUp(u, c)
      PROVE  RequestsHaveSenders' /\ TokensAreOwn'
  BY <1>4 DEF GiveUp, TypeOK, sessions, client
<1>5. ASSUME NEW c \in Conns, Authorise(c)
      PROVE  RequestsHaveSenders' /\ TokensAreOwn'
  <2>1. \A t : session'[t] \in {session[t], NoOne} \/ t \notin Tokens
    BY <1>5 DEF Authorise, Dropped, TypeOK
  <2>2. \A w \in Users : \A t : Holds(w, t) => Holds(w, t)'
    <3>1. 1..issued \subseteq Tokens /\ issued' = issued
      BY <1>5, VotingAssumption DEF Authorise, TypeOK, Tokens
    <3> QED
      BY <2>1, <3>1
  <2>3. at[c] = "request" /\ at' \in {[at EXCEPT ![c] = "reply"], [at EXCEPT ![c] = "run"]}
    BY <1>5 DEF Authorise, Answer
  <2>4. \A d \in Conns : Busy(d)' => Busy(d)
    BY <2>3 DEF TypeOK
  <2>5. \A d \in Conns : at'[d] = "request" => at[d] = "request"
    BY <2>3 DEF TypeOK
  <2>6. RequestsHaveSenders'
    BY <1>5, <2>4 DEF Authorise
  <2>7. \A d \in Conns : at[d] = "request" => req[d].user \in Users
    BY DEF Request
  <2> QED
    BY <1>5, <2>2, <2>5, <2>6, <2>7 DEF Authorise, client
<1>6. ASSUME NEW c \in Conns, CastVote(c) \/ ChangeStatus(c)
      PROVE  RequestsHaveSenders' /\ TokensAreOwn'
  BY <1>6 DEF CastVote, ChangeStatus, Running, Answer, TypeOK, sessions, client
<1>7. ASSUME NEW c \in Conns, Deliver(c) \/ SendFails(c)
      PROVE  RequestsHaveSenders' /\ TokensAreOwn'
  BY <1>7 DEF Deliver, SendFails, Leave, TypeOK, sessions, client
<1>8. CASE Restart
  BY <1>8 DEF Restart, TypeOK, client
<1> QED
  BY <1>1, <1>2, <1>3, <1>4, <1>5, <1>6, <1>7, <1>8 DEF Next, Thread, Client, Types

LEMMA ContextsStayOwn ==
  ASSUME IInv, Next
  PROVE  ContextsAreOwn'
<1> USE DEF IInv, ContextsAreOwn
<1>1. ASSUME NEW c \in Conns, NEW u \in Users, Client(u, c)
      PROVE  ContextsAreOwn'
  <2>1. \A d \in Conns : at'[d] \in {"run", "reply"} =>
          at'[d] = at[d] /\ ctx'[d] = ctx[d] /\ req'[d] = req[d] /\ answer'[d] = answer[d]
    BY <1>1 DEF Client, LogIn, LogOut, Send, GiveUp, conn, TypeOK
  <2> QED
    BY <2>1 DEF RoleFits
<1>2. ASSUME NEW c \in Conns, Authorise(c)
      PROVE  ContextsAreOwn'
  <2>1. req[c].user \in Users /\ session[req[c].token] \in {req[c].user, NoOne}
    BY <1>2 DEF Authorise, TokensAreOwn, Holds, RequestsHaveSenders, Busy, Request
  <2>2. at'[c] = "run" => ctx'[c] = req[c].user /\ RoleFits(c)
    BY <1>2, <2>1 DEF Authorise, Answer, Context, RoleFits, TypeOK
  <2>3. at'[c] = "reply" => answer'[c] \notin {"ok", "ALREADY_VOTED"}
    BY <1>2 DEF Authorise, Answer, TypeOK
  <2>4. req' = req /\ \A d \in Conns \ {c} : at'[d] = at[d] /\ ctx'[d] = ctx[d] /\ answer'[d] = answer[d]
    BY <1>2 DEF Authorise, Answer, Context, TypeOK
  <2> QED
    BY <2>2, <2>3, <2>4 DEF RoleFits
<1>3. ASSUME NEW c \in Conns, CastVote(c) \/ ChangeStatus(c)
      PROVE  ContextsAreOwn'
  <2>1. at[c] = "run" /\ at'[c] = "reply" /\ req' = req /\ ctx' = ctx
        /\ \A d \in Conns \ {c} : at'[d] = at[d] /\ answer'[d] = answer[d]
    BY <1>3 DEF CastVote, ChangeStatus, Running, Answer, TypeOK
  <2> QED
    BY <2>1 DEF RoleFits
<1>4. ASSUME NEW c \in Conns, Deliver(c) \/ SendFails(c)
      PROVE  ContextsAreOwn'
  <2>1. at'[c] \in {"read", "free"}
        /\ \A d \in Conns \ {c} :
             at'[d] = at[d] /\ answer'[d] = answer[d] /\ req'[d] = req[d] /\ ctx'[d] = ctx[d]
    BY <1>4 DEF Deliver, SendFails, Leave, TypeOK
  <2> QED
    BY <2>1 DEF RoleFits
<1>5. CASE Restart
  BY <1>5 DEF Restart
<1> QED
  BY <1>1, <1>2, <1>3, <1>4, <1>5 DEF Next, Thread

LEMMA BallotsStayMarked ==
  ASSUME IInv, Next
  PROVE  BallotsAreMarked' /\ OneReceipt'
<1> USE DEF IInv, BallotsAreMarked, OneReceipt, OnItsWay, Tells
<1>1. ASSUME NEW c \in Conns, NEW u \in Users, Client(u, c)
      PROVE  BallotsAreMarked' /\ OneReceipt'
  <2>1. \A d \in Conns : at'[d] = "reply" => at[d] = "reply" /\ req'[d] = req[d] /\ answer'[d] = answer[d]
    BY <1>1 DEF Client, LogIn, LogOut, Send, GiveUp, conn, TypeOK
  <2>2. UNCHANGED <<hasVoted, ballotOf, receipts, informed, crashes>>
    BY <1>1 DEF Client, LogIn, LogOut, Send, GiveUp, store, client, counters
  <2> QED
    BY <2>1, <2>2
<1>2. ASSUME NEW c \in Conns, Authorise(c)
      PROVE  BallotsAreMarked' /\ OneReceipt'
  <2>1. req' = req /\ (\A d \in Conns \ {c} : at'[d] = at[d] /\ answer'[d] = answer[d])
        /\ (at'[c] = "reply" => answer'[c] \notin {"ok", "ALREADY_VOTED"})
    BY <1>2 DEF Authorise, Answer, TypeOK
  <2>2. UNCHANGED <<hasVoted, ballotOf, receipts, informed, crashes>>
    BY <1>2 DEF Authorise, store, client, counters
  <2> QED
    BY <2>1, <2>2
<1>3. ASSUME NEW c \in Conns, CastVote(c)
      PROVE  BallotsAreMarked' /\ OneReceipt'
  <2> DEFINE v == req[c].user
             i == req[c].choice
  <2>1. Who(c) = v
    BY <1>3 DEF CastVote, Running, ContextsAreOwn, Who, Context
  <2>2. at[c] = "run" /\ at'[c] = "reply" /\ answer'[c] = Refusal(v, i) /\ req' = req
        /\ \A d \in Conns \ {c} : at'[d] = at[d] /\ answer'[d] = answer[d]
    BY <1>3, <2>1 DEF CastVote, Running, Answer, TypeOK
  <2>3. UNCHANGED <<receipts, informed, crashes>>
    BY <1>3 DEF CastVote, client, counters
  <2>4. CASE Refusal(v, i) = "ok"
    <3>1. v \in Voters \ hasVoted /\ i # NoOne
      BY <2>4, VotingAssumption, CandidatesAssumption DEF Refusal
    <3>2. hasVoted' = hasVoted \cup {v} /\ ballotOf' = [ballotOf EXCEPT ![v] = i]
      BY <1>3, <2>1, <2>4 DEF CastVote
    <3>3. ballotOf'[v] = i /\ \A w \in Voters \ {v} : ballotOf'[w] = ballotOf[w]
      BY <3>1, <3>2 DEF TypeOK
    <3>4. \A w \in receipts : w # v
      BY <3>1 DEF TypeOK
    <3>5. \A d \in Conns : ~OnItsWay(d, v)
      BY <3>1
    <3>6. \A d \in Conns \ {c} : at[d] = "reply" /\ Tells(d, "CAST_VOTE", "ok") => req[d].user \in Voters
      BY DEF ContextsAreOwn, RoleFits, RoleOf, RoleFor, ForAdmins, RequestsHaveSenders, Busy, Request, Users
    <3>7. BallotsAreMarked'
      BY <2>2, <2>3, <2>4, <3>1, <3>2, <3>3, <3>4, <3>6 DEF TypeOK
    <3>8. OneReceipt'
      BY <2>2, <2>3, <3>4, <3>5
    <3> QED
      BY <3>7, <3>8
  <2>5. CASE Refusal(v, i) # "ok"
    <3>1. UNCHANGED <<hasVoted, ballotOf>>
      BY <1>3, <2>1, <2>5 DEF CastVote
    <3>2. Refusal(v, i) = "ALREADY_VOTED" => v \in hasVoted
      BY DEF Refusal
    <3> QED
      BY <2>2, <2>3, <2>5, <3>1, <3>2
  <2> QED
    BY <2>4, <2>5
<1>4. ASSUME NEW c \in Conns, ChangeStatus(c)
      PROVE  BallotsAreMarked' /\ OneReceipt'
  <2>1. req[c].type # "CAST_VOTE" /\ req' = req
        /\ \A d \in Conns \ {c} : at'[d] = at[d] /\ answer'[d] = answer[d]
    BY <1>4 DEF ChangeStatus, Running, Answer, TypeOK
  <2>2. UNCHANGED <<hasVoted, ballotOf, receipts, informed, crashes>>
    BY <1>4 DEF ChangeStatus, client, counters
  <2> QED
    BY <2>1, <2>2
<1>5. ASSUME NEW c \in Conns, Deliver(c)
      PROVE  BallotsAreMarked' /\ OneReceipt'
  <2>1. at[c] = "reply" /\ owner[c] = req[c].user /\ at'[c] = "read"
        /\ \A d \in Conns \ {c} : at'[d] = at[d] /\ answer'[d] = answer[d] /\ req'[d] = req[d]
    BY <1>5 DEF Deliver, Leave, RequestsHaveSenders, Busy, TypeOK
  <2>2. UNCHANGED <<hasVoted, ballotOf, crashes>>
    BY <1>5 DEF Deliver, store, counters
  <2>3. receipts' = receipts \/ (Tells(c, "CAST_VOTE", "ok") /\ receipts' = receipts \cup {req[c].user})
    BY <1>5, <2>1 DEF Deliver
  <2>4. informed' = informed \/ (Tells(c, "CAST_VOTE", "ALREADY_VOTED") /\ informed' = informed \cup {req[c].user})
    BY <1>5, <2>1 DEF Deliver
  <2>5. BallotsAreMarked'
    BY <2>1, <2>2, <2>3, <2>4
  <2>6. OneReceipt'
    BY <2>1, <2>3
  <2> QED
    BY <2>5, <2>6
<1>6. ASSUME NEW c \in Conns, SendFails(c)
      PROVE  BallotsAreMarked' /\ OneReceipt'
  <2>1. at'[c] = "free"
        /\ \A d \in Conns \ {c} : at'[d] = at[d] /\ answer'[d] = answer[d] /\ req'[d] = req[d]
    BY <1>6 DEF SendFails, Leave, TypeOK
  <2>2. UNCHANGED <<hasVoted, ballotOf, receipts, informed, crashes>>
    BY <1>6 DEF SendFails, store, client, counters
  <2> QED
    BY <2>1, <2>2
<1>7. CASE Restart
  <2>1. hasVoted \subseteq hasVoted' /\ UNCHANGED <<ballotOf, receipts, informed>>
    BY <1>7 DEF Restart, KeptMarks, client
  <2>2. crashes' # 0
    BY <1>7, VotingAssumption DEF Restart, TypeOK
  <2>3. \A d \in Conns : at'[d] = "free"
    BY <1>7 DEF Restart
  <2> QED
    BY <2>1, <2>2, <2>3
<1> QED
  BY <1>1, <1>2, <1>3, <1>4, <1>5, <1>6, <1>7 DEF Next, Thread

LEMMA ClosingsStayClean ==
  ASSUME IInv, Next
  PROVE  ClosingsAreClean'
<1> USE DEF IInv, ClosingsAreClean, Tells
<1>1. ASSUME NEW u \in Users, LogIn(u) \/ LogOut(u)
      PROVE  ClosingsAreClean'
  BY <1>1 DEF LogIn, LogOut, conn, closing, store, Opening
<1>2. ASSUME NEW u \in Users, NEW c \in Conns, GiveUp(u, c)
      PROVE  ClosingsAreClean'
  <2>1. \A d \in Conns : at'[d] = at[d] \/ (at[d] = "read" /\ at'[d] = "free")
    BY <1>2 DEF GiveUp, TypeOK
  <2> QED
    BY <1>2, <2>1 DEF GiveUp, closing, store, Opening
<1>3. ASSUME NEW u \in Users, NEW c \in Conns, NEW type \in Types, NEW i \in Choices \cup {NoOne},
             Send(u, c, type, i)
      PROVE  ClosingsAreClean'
  <2>1. at'[c] = "request" /\ req'[c].type = type
        /\ \A d \in Conns \ {c} : at'[d] = at[d] /\ req'[d] = req[d] /\ answer'[d] = answer[d]
    BY <1>3 DEF Send, TypeOK
  <2>2. status' = status
    BY <1>3 DEF Send, store
  <2>3. CASE type = "OPEN_ELECTION"
    BY <1>3, <2>3 DEF Send
  <2>4. CASE type # "OPEN_ELECTION"
    <3>1. \A d \in Conns : Opening(d)' => Opening(d)
      BY <2>1, <2>4 DEF Opening
    <3>2. (final' => final) /\ clean' \subseteq clean \cup {c}
          /\ (clean' = clean \/ \A d \in Conns : ~Opening(d))
      BY <1>3, <2>4 DEF Send
    <3>3. final' \/ clean' # {} => \A d \in Conns : ~Opening(d)
      BY <3>2
    <3>4. \A d \in clean' : at'[d] = "reply" => d \in clean /\ req'[d] = req[d] /\ answer'[d] = answer[d] /\ at[d] = "reply"
      BY <2>1, <3>2 DEF TypeOK
    <3> QED
      BY <2>2, <3>1, <3>2, <3>3, <3>4
  <2> QED
    BY <2>3, <2>4
<1>4. ASSUME NEW c \in Conns, Authorise(c) \/ CastVote(c)
      PROVE  ClosingsAreClean'
  <2>1. req' = req /\ at'[c] \in {"run", "reply"}
        /\ \A d \in Conns \ {c} : at'[d] = at[d] /\ answer'[d] = answer[d]
    BY <1>4 DEF Authorise, CastVote, Answer, TypeOK
  <2>2. UNCHANGED <<status, clean, final>>
    BY <1>4 DEF Authorise, CastVote, store, closing
  <2>3. at[c] \in {"request", "run"}
    BY <1>4 DEF Authorise, CastVote, Running
  <2>4. ~(at'[c] = "reply" /\ req[c].type = "CLOSE_ELECTION" /\ answer'[c] = "ok")
    BY <1>4 DEF Authorise, CastVote, Running, Answer, TypeOK
  <2>5. \A d \in Conns : Opening(d)' => Opening(d)
    BY <2>1, <2>3 DEF Opening
  <2>6. \A d \in clean' : at'[d] = "reply" /\ Tells(d, "CLOSE_ELECTION", "ok")' =>
          d \in clean /\ at[d] = "reply" /\ Tells(d, "CLOSE_ELECTION", "ok")
    BY <2>1, <2>2, <2>4 DEF TypeOK
  <2> QED
    BY <2>2, <2>5, <2>6
<1>5. ASSUME NEW c \in Conns, ChangeStatus(c)
      PROVE  ClosingsAreClean'
  <2>1. req' = req /\ at[c] = "run" /\ at'[c] = "reply"
        /\ \A d \in Conns \ {c} : at'[d] = at[d] /\ answer'[d] = answer[d]
    BY <1>5 DEF ChangeStatus, Running, Answer, TypeOK
  <2>2. UNCHANGED <<clean, final>>
    BY <1>5 DEF ChangeStatus, closing
  <2>3. \/ req[c].type = "OPEN_ELECTION"
        \/ req[c].type = "CLOSE_ELECTION" /\ status' = "closed"
    BY <1>5 DEF ChangeStatus, Running
  <2> QED
    BY <2>1, <2>2, <2>3 DEF Opening
<1>6. ASSUME NEW c \in Conns, Deliver(c) \/ SendFails(c)
      PROVE  ClosingsAreClean'
  <2>1. at[c] = "reply" /\ at'[c] \in {"read", "free"} /\ clean' = clean \ {c}
        /\ \A d \in Conns \ {c} : at'[d] = at[d] /\ answer'[d] = answer[d] /\ req'[d] = req[d]
    BY <1>6 DEF Deliver, SendFails, Leave, TypeOK
  <2>2. status' = status
    BY <1>6 DEF Deliver, SendFails, store
  <2>3. final' => final \/ (c \in clean /\ Tells(c, "CLOSE_ELECTION", "ok"))
    BY <1>6 DEF Deliver, SendFails
  <2>4. \A d \in Conns : Opening(d)' => Opening(d)
    BY <2>1 DEF Opening
  <2>5. \A d \in clean' : at'[d] = "reply" /\ Tells(d, "CLOSE_ELECTION", "ok")' =>
          d \in clean /\ at[d] = "reply" /\ Tells(d, "CLOSE_ELECTION", "ok")
    BY <2>1 DEF TypeOK
  <2> QED
    BY <2>1, <2>2, <2>3, <2>4, <2>5
<1>7. CASE Restart
  BY <1>7 DEF Restart, Opening
<1> QED
  BY <1>1, <1>2, <1>3, <1>4, <1>5, <1>6, <1>7 DEF Next, Thread, Client, Types

(* A vote adds one mark, one ballot and one to its candidate's count; a    *)
(* crash adds a mark at the most.                                          *)
LEMMA CountsStay ==
  ASSUME IInv, Next
  PROVE  IsFiniteSet(hasVoted') /\ TurnoutAgrees' /\ EachBallotCounted'
<1> USE DEF IInv
<1> DEFINE For(i) == {v \in Voters : ballotOf[v] = i}
<1>0. /\ VotedCount \in Nat /\ crashes \in Nat
      /\ TotalVotes(votes) \in Nat /\ TotalVotes(old) \in Nat
  BY FS_CardinalityType, TotalIsNumber, VotingAssumption DEF TypeOK, VotedCount
<1>1. ASSUME NEW c \in Conns, NEW w, NEW i,
             CastVote(c), w = Who(c), i = req[c].choice, Refusal(w, i) = "ok"
      PROVE  IsFiniteSet(hasVoted') /\ TurnoutAgrees' /\ EachBallotCounted'
  <2>1. w \in Voters \ hasVoted /\ i \in CandidateIds
    BY <1>1, CandidatesAssumption DEF Refusal
  <2>2. /\ votes' = [votes EXCEPT ![i] = @ + 1] /\ hasVoted' = hasVoted \cup {w}
        /\ ballotOf' = [ballotOf EXCEPT ![w] = i] /\ UNCHANGED <<old, crashes>>
    BY <1>1 DEF CastVote, counters
  <2>3. IsFiniteSet(hasVoted') /\ VotedCount' = VotedCount + 1
    BY <2>1, <2>2, FS_AddElement DEF VotedCount
  <2>4. votes' \in [CandidateIds -> Nat] /\ votes'[i] = votes[i] + 1
        /\ \A j \in CandidateIds \ {i} : votes'[j] = votes[j]
    BY <2>1, <2>2 DEF TypeOK
  <2>5. TotalVotes(votes') = TotalVotes(votes) + 1
    <3>1. DOMAIN votes = CandidateIds /\ DOMAIN votes' = CandidateIds /\ \A j \in CandidateIds : votes[j] \in Int
      BY <2>4 DEF TypeOK
    <3>2. SumFunctionOnSet(votes', CandidateIds) = SumFunctionOnSet(votes, CandidateIds) + 1
      BY <2>1, <2>4, <3>1, CandidatesAssumption, SumOneMore
    <3> QED
      BY <3>1, <3>2 DEF TotalVotes, SumFunction
  <2>6. TurnoutAgrees'
    BY <1>0, <2>2, <2>3, <2>5 DEF TurnoutAgrees
  <2>7. ballotOf[w] = NoOne /\ i # NoOne
    BY <2>1, VotingAssumption DEF BallotsAreMarked
  <2>8. For(i)' = For(i) \cup {w} /\ w \notin For(i)
    <3>1. ballotOf'[w] = i /\ ballotOf[w] # i
      BY <2>1, <2>2, <2>7 DEF TypeOK
    <3>2. \A v \in Voters \ {w} : ballotOf'[v] = ballotOf[v]
      BY <2>2 DEF TypeOK
    <3> QED
      BY <2>1, <3>1, <3>2
  <2>9. IsFiniteSet(For(i)) /\ Cardinality(For(i)) \in Nat
    <3>1. For(i) \subseteq hasVoted
      BY <2>7 DEF BallotsAreMarked
    <3> QED
      BY <3>1, FS_Subset, FS_CardinalityType
  <2>10. Cardinality(For(i)') = Cardinality(For(i)) + 1
    BY <2>8, <2>9, FS_AddElement
  <2>11. \A j \in CandidateIds \ {i} : For(j)' = For(j)
    <3> SUFFICES ASSUME NEW j \in CandidateIds \ {i} PROVE For(j)' = For(j)
      OBVIOUS
    <3>1. ballotOf[w] # j /\ ballotOf'[w] # j
      BY <2>1, <2>2, <2>7, VotingAssumption DEF TypeOK
    <3>2. \A v \in Voters \ {w} : ballotOf'[v] = ballotOf[v]
      BY <2>2 DEF TypeOK
    <3> QED
      BY <3>1, <3>2
  <2>12. \A j \in CandidateIds : votes[j] = old[j] + Cardinality(For(j)) /\ old[j] \in Nat
    BY DEF EachBallotCounted, TypeOK
  <2>13. ASSUME NEW j \in CandidateIds
         PROVE  votes'[j] = old'[j] + Cardinality(For(j)')
    <3> HIDE DEF For
    <3>1. CASE j = i
      BY <2>1, <2>2, <2>4, <2>9, <2>10, <2>12, <3>1
    <3>2. CASE j # i
      BY <2>2, <2>4, <2>11, <2>12, <3>2
    <3> QED
      BY <3>1, <3>2
  <2>14. EachBallotCounted'
    BY <2>13 DEF EachBallotCounted
  <2> QED
    BY <2>3, <2>6, <2>14
<1>2. CASE Restart
  <2>1. UNCHANGED <<votes, old, ballotOf>> /\ crashes' = crashes + 1
    BY <1>2 DEF Restart
  <2>2. PICK w : hasVoted' = hasVoted \/ hasVoted' = hasVoted \cup {w}
    BY <1>2 DEF Restart, KeptMarks
  <2>3. IsFiniteSet(hasVoted') /\ VotedCount' \in {VotedCount, VotedCount + 1}
    BY <2>2, FS_AddElement DEF VotedCount
  <2>4. TurnoutAgrees'
    BY <1>0, <2>1, <2>3 DEF TurnoutAgrees
  <2> QED
    BY <2>1, <2>3, <2>4 DEF EachBallotCounted
<1>3. CASE UNCHANGED <<hasVoted, votes, old, ballotOf, crashes>>
  BY <1>3 DEF TurnoutAgrees, VotedCount, EachBallotCounted
<1>4. ASSUME NEW c \in Conns, CastVote(c), Refusal(Who(c), req[c].choice) # "ok"
      PROVE  UNCHANGED <<hasVoted, votes, old, ballotOf, crashes>>
  BY <1>4 DEF CastVote, counters
<1>5. ASSUME NEW c \in Conns, NEW u \in Users, Client(u, c)
      PROVE  UNCHANGED <<hasVoted, votes, old, ballotOf, crashes>>
  BY <1>5 DEF Client, LogIn, LogOut, Send, GiveUp, store, counters
<1>6. ASSUME NEW c \in Conns, Authorise(c) \/ ChangeStatus(c) \/ Deliver(c) \/ SendFails(c)
      PROVE  UNCHANGED <<hasVoted, votes, old, ballotOf, crashes>>
  BY <1>6 DEF Authorise, ChangeStatus, Deliver, SendFails, store, counters
<1> QED
  BY <1>1, <1>2, <1>3, <1>4, <1>5, <1>6 DEF Next, Thread

LEMMA Inductive ==
  ASSUME IInv, [Next]_vars
  PROVE  IInv'
<1>1. CASE Next
  <2>1. TypeOK'
    BY <1>1, ClientTyped, ThreadTyped, RestartTyped DEF Next
  <2> QED
    BY <1>1, <2>1, TokensStayOwn, ContextsStayOwn, BallotsStayMarked, ClosingsStayClean, CountsStay DEF IInv
<1>2. CASE UNCHANGED vars
  BY <1>2
  DEF vars, store, sessions, conn, client, closing, counters, IInv, TypeOK, RequestsHaveSenders, Busy,
      TokensAreOwn, Holds, ContextsAreOwn, RoleFits, BallotsAreMarked, ClosingsAreClean, Opening,
      OneReceipt, OnItsWay, Tells, TurnoutAgrees, VotedCount, EachBallotCounted
<1> QED
  BY <1>1, <1>2

(* In every reachable state the inductive invariant holds.                 *)
THEOREM Invariance == Spec => []IInv
  BY InitIInv, Inductive, PTL DEF Spec

(* No voter is ever given two receipts, however often she asks.            *)
THEOREM ReceiptsAreSingle == Spec => []OneReceipt
  BY Invariance, PTL DEF IInv

(* What a voter has been told of her ballot is so, crashes set apart.      *)
THEOREM VotersAreToldTheTruth == Spec => []TellsTrue
<1>1. IInv => TellsTrue
  BY DEF IInv, BallotsAreMarked, TellsTrue
<1> QED
  BY <1>1, Invariance, PTL

(* The two figures that administrators are given, the voters marked and    *)
(* the ballots counted, differ by no more than a mark for each crash.      *)
THEOREM FiguresAgree == Spec => []TurnoutAgrees
  BY Invariance, PTL DEF IInv

(* Nobody's ballot is counted twice, for the wrong candidate, or not at    *)
(* all, and the ballots from before the start stay.                        *)
THEOREM BallotsCountOnce == Spec => []EachBallotCounted
  BY Invariance, PTL DEF IInv

(* The percentages published of any reachable box are in the order of its  *)
(* ballots and add up as far as rounding them one by one allows.           *)
THEOREM PercentagesAddUp == Spec => []ResultsAddUp
<1>1. IInv => ResultsAddUp
  BY AnyTallyAddsUp DEF IInv, TypeOK, ResultsAddUp
<1> QED
  BY <1>1, Invariance, PTL

(* A ballot is cast only for its own voter's request, and only an          *)
(* administrator's request changes the status (handlers/__init__.py,       *)
(* connection.py:105).                                                     *)
THEOREM HandlersActForSenders == Spec => ActsInOwnName
<1>1. ASSUME IInv, [Next]_vars
      PROVE  [/\ \A v \in Voters : ballotOf'[v] # ballotOf[v] =>
                   \E c \in Conns : /\ Running(c, "CAST_VOTE")
                                   /\ req[c].user = v /\ req[c].choice = ballotOf'[v]
              /\ status' # status => \E c \in Conns : req[c].user \in Admins /\ at[c] = "run"]_vars
  <2>1. ASSUME NEW c \in Conns, NEW v \in Voters, CastVote(c), ballotOf'[v] # ballotOf[v]
        PROVE  Running(c, "CAST_VOTE") /\ req[c].user = v /\ req[c].choice = ballotOf'[v]
    <3>1. Running(c, "CAST_VOTE") /\ Who(c) = req[c].user
      BY <1>1, <2>1 DEF CastVote, Running, IInv, ContextsAreOwn, Who, Context
    <3>2. ballotOf' = [ballotOf EXCEPT ![req[c].user] = req[c].choice]
      BY <2>1, <3>1 DEF CastVote
    <3> QED
      BY <1>1, <2>1, <3>1, <3>2 DEF IInv, TypeOK
  <2>2. ASSUME NEW c \in Conns, ChangeStatus(c)
        PROVE  req[c].user \in Admins /\ at[c] = "run"
    BY <1>1, <2>2
    DEF ChangeStatus, Running, IInv, ContextsAreOwn, RoleFits, RoleOf, RoleFor, ForAdmins
  <2>3. (\E c \in Conns : CastVote(c)) \/ ballotOf' = ballotOf \/ UNCHANGED vars
    BY <1>1 DEF Next, Thread, Client, LogIn, LogOut, Send, GiveUp, Authorise, ChangeStatus,
                Deliver, SendFails, Restart, store, vars
  <2>4. (\E c \in Conns : ChangeStatus(c)) \/ status' = status \/ UNCHANGED vars
    BY <1>1 DEF Next, Thread, Client, LogIn, LogOut, Send, GiveUp, Authorise, CastVote,
                Deliver, SendFails, Restart, store, vars
  <2> QED
    BY <2>1, <2>2, <2>3, <2>4
<1> QED
  BY <1>1, Invariance, PTL DEF Spec, ActsInOwnName

(* After a confirmed closing that no opening overlaps, the ballots stay.   *)
THEOREM ResultsAreFinal == Spec => ClosedIsFinal
<1>1. ASSUME IInv, [Next]_vars
      PROVE  [final => votes' = votes]_vars
  <2>1. ASSUME NEW c \in Conns, CastVote(c), final
        PROVE  votes' = votes
    <3>1. Refusal(Who(c), req[c].choice) # "ok"
      BY <1>1, <2>1 DEF IInv, ClosingsAreClean, Refusal, VotingOpen
    <3> QED
      BY <2>1, <3>1 DEF CastVote
  <2>2. (\E c \in Conns : CastVote(c)) \/ votes' = votes \/ UNCHANGED vars
    BY <1>1 DEF Next, Thread, Client, LogIn, LogOut, Send, GiveUp, Authorise, ChangeStatus,
                Deliver, SendFails, Restart, store, vars
  <2> QED
    BY <2>1, <2>2
<1> QED
  BY <1>1, Invariance, PTL DEF Spec, ClosedIsFinal
-----------------------------------------------------------------------------
(* The requests use the store in its single steps.                         *)

(* The checks of a vote are those of the atomic store. *)
LEMMA AcceptsAlike ==
  ASSUME NEW v, NEW i
  PROVE  (Refusal(v, i) = "ok") <=> Store!Accepts(v, i)
BY DEF Refusal, VotingOpen, Store!Accepts

(* Who voted for whom. *)
Pairs == {<<v, ballotOf[v]>> : v \in {w \in Voters : ballotOf[w] # NoOne}}

LEMMA StoreInit == Init => Store!Init
<1> SUFFICES ASSUME Init PROVE Store!Init
  OBVIOUS
<1>1. {w \in Voters : ballotOf[w] # NoOne} = {}
  BY DEF Init
<1> QED
  BY <1>1 DEF Init, Store!Init

(* A vote that is accepted is recorded, one that is refused changes        *)
(* nothing in the store.                                                   *)
LEMMA VoteIsRecorded ==
  ASSUME IInv, NEW c \in Conns, CastVote(c)
  PROVE  Store!Next \/ UNCHANGED Store!vars
<1> DEFINE v == Who(c)
           i == req[c].choice
<1>1. CASE Refusal(v, i) = "ok"
  <2>1. Store!Accepts(v, i) /\ v \in Voters \ hasVoted /\ i \in Candidates
    BY <1>1, AcceptsAlike DEF Store!Accepts
  <2>2. /\ hasVoted' = hasVoted \cup {v} /\ ballotOf' = [ballotOf EXCEPT ![v] = i]
        /\ UNCHANGED <<status, crashes>>
    BY <1>1 DEF CastVote, counters
  <2>3. i # NoOne
    <3>1. NoOne \notin CandidateIds
      BY VotingAssumption
    <3>2. NoOne \notin Candidates
      BY <3>1, CandidatesAssumption
    <3> QED
      BY <2>1, <3>2
  <2>4. ballotOf[v] = NoOne
    BY <2>1 DEF IInv, BallotsAreMarked
  <2> HIDE DEF v, i
  <2>5. ballotOf'[v] = i /\ \A w \in Voters \ {v} : ballotOf'[w] = ballotOf[w]
    BY <2>1, <2>2 DEF IInv, TypeOK
  <2>6. {w \in Voters : ballotOf'[w] # NoOne} = {w \in Voters : ballotOf[w] # NoOne} \cup {v}
    BY <2>1, <2>3, <2>5
  <2>7. \A w \in {u \in Voters : ballotOf[u] # NoOne} : ballotOf'[w] = ballotOf[w]
    BY <2>4, <2>5
  <2>8. Pairs' = Pairs \cup {<<v, i>>}
    BY <2>5, <2>6, <2>7 DEF Pairs
  <2>9. Store!RecordVote(v, i)
    BY <2>1, <2>2, <2>8 DEF Store!RecordVote, Pairs
  <2>10. Store!Next
    BY <2>1, <2>9 DEF Store!Next, Store!RecordVote
  <2> QED
    BY <2>10
<1>2. CASE Refusal(v, i) # "ok"
  BY <1>2 DEF CastVote, counters, Store!vars
<1> QED
  BY <1>1, <1>2

(* A restart is a crash of the store, which may cut off a vote in progress. *)
LEMMA RestartIsCrash ==
  ASSUME Restart
  PROVE  Store!Next
<1>1. crashes' = crashes + 1 /\ UNCHANGED <<status, ballotOf>>
  BY DEF Restart
<1>2. ASSUME NEW c \in Conns, Refusal(Who(c), req[c].choice) = "ok",
             hasVoted' = hasVoted \cup {Who(c)}
      PROVE  \E v \in Voters, i \in Candidates : Store!Accepts(v, i) /\ hasVoted' = hasVoted \cup {v}
  <2>1. Store!Accepts(Who(c), req[c].choice)
    BY <1>2, AcceptsAlike
  <2> QED
    BY <1>2, <2>1 DEF Store!Accepts
<1>3. \/ UNCHANGED hasVoted
      \/ \E v \in Voters, i \in Candidates : Store!Accepts(v, i) /\ hasVoted' = hasVoted \cup {v}
  BY <1>2 DEF Restart, KeptMarks
<1> QED
  BY <1>1, <1>3 DEF Store!Next, Store!Crash

LEMMA StoreStep ==
  ASSUME IInv, [Next]_vars
  PROVE  [Store!Next]_(Store!vars)
<1>1. ASSUME NEW c \in Conns, ChangeStatus(c)
      PROVE  Store!Next
  <2>1. status' \in {"open", "closed"} /\ UNCHANGED <<hasVoted, ballotOf, crashes>>
    BY <1>1 DEF ChangeStatus, counters
  <2> QED
    BY <2>1 DEF Store!Next, Store!SetElectionStatus
<1>2. \/ \E c \in Conns : CastVote(c) \/ ChangeStatus(c)
      \/ Restart
      \/ UNCHANGED <<status, hasVoted, ballotOf, crashes>>
  BY DEF Next, Thread, Client, LogIn, LogOut, Send, GiveUp, Authorise, Deliver, SendFails, store,
         counters, vars
<1>3. CASE UNCHANGED <<status, hasVoted, ballotOf, crashes>>
  BY <1>3 DEF Store!vars
<1> QED
  BY <1>1, <1>2, <1>3, VoteIsRecorded, RestartIsCrash

(* Whatever clients, connections and sessions do, and across restarts, the *)
(* requests change the store in the steps that DataStore implements.       *)
THEOREM RequestsUseAtomicStore == Spec => StoreSpec
  BY StoreInit, StoreStep, Invariance, PTL DEF Spec, StoreSpec, Store!Spec
=============================================================================
