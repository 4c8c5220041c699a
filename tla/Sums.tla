-------------------------------- MODULE Sums --------------------------------
(***************************************************************************)
(* What SumFunctionOnSet of the module Functions computes over a finite    *)
(* set: the sum whatever the order in which its recursion takes the        *)
(* elements up.  The recursion is unfolded by hand, with minimal           *)
(* counterexamples in place of an induction scheme.                        *)
(***************************************************************************)
EXTENDS FiniteSetTheorems, TLAPS

\* The element the recursion takes first.
Chosen(s) == CHOOSE x \in s : TRUE

\* g is what the recursion means on the subsets of S.
Unfolds(g, f, S) ==
  g = [s \in SUBSET S |-> IF s = {} THEN 0 ELSE f[Chosen(s)] + g[s \ {Chosen(s)}]]

\* Among some subsets of a finite set one contains no other.
LEMMA MinimalSubset ==
  ASSUME NEW S, IsFiniteSet(S), NEW T, T \subseteq SUBSET S, T # {}
  PROVE  \E m \in T : \A t \in T : t \subseteq m => t = m
<1>1. IsWellFoundedOn(StrictSubsetOrdering(S), SUBSET S)
  BY FS_StrictSubsetOrderingWellFounded, FS_FiniteSubsetsOfFinite
<1>2. PICK m \in T : \A t \in T : ~ (<<t, m>> \in StrictSubsetOrdering(S))
  BY <1>1, WFMin
<1>3. \A t \in T : t \subseteq m => t = m
  BY <1>2 DEF StrictSubsetOrdering
<1> QED
  BY <1>3

\* Two readings of the recursion agree wherever both are defined.
LEMMA UnfoldingsAgree ==
  ASSUME NEW f, NEW S, IsFiniteSet(S), NEW A \in SUBSET S, NEW B \in SUBSET S, NEW g, NEW h,
         Unfolds(g, f, A), Unfolds(h, f, B)
  PROVE  \A s \in SUBSET (A \cap B) : g[s] = h[s]
<1> DEFINE Differ == {s \in SUBSET (A \cap B) : g[s] # h[s]}
<1> SUFFICES ASSUME Differ # {} PROVE FALSE
  OBVIOUS
<1>1. PICK m \in Differ : \A t \in Differ : t \subseteq m => t = m
  <2>1. Differ \subseteq SUBSET S
    OBVIOUS
  <2> HIDE DEF Differ
  <2> QED
    BY <2>1, MinimalSubset
<1>2. m # {}
  BY DEF Unfolds
<1>3. Chosen(m) \in m
  BY <1>2 DEF Chosen
<1>4. g[m \ {Chosen(m)}] = h[m \ {Chosen(m)}]
  BY <1>1, <1>3
<1>5. /\ g[m] = f[Chosen(m)] + g[m \ {Chosen(m)}]
      /\ h[m] = f[Chosen(m)] + h[m \ {Chosen(m)}]
  BY <1>2 DEF Unfolds
<1> QED
  BY <1>4, <1>5

\* The recursion has a reading on every finite set.
LEMMA UnfoldingExists ==
  ASSUME NEW f, NEW S, IsFiniteSet(S)
  PROVE  \E g : Unfolds(g, f, S)
<1> DEFINE Lack == {T \in SUBSET S : ~ \E g : Unfolds(g, f, T)}
<1> SUFFICES ASSUME Lack # {} PROVE FALSE
  OBVIOUS
<1>1. PICK m \in Lack : \A t \in Lack : t \subseteq m => t = m
  <2>1. Lack \subseteq SUBSET S
    OBVIOUS
  <2> HIDE DEF Lack
  <2> QED
    BY <2>1, MinimalSubset
<1>2. \A x \in m : \E g : Unfolds(g, f, m \ {x})
  BY <1>1
<1> DEFINE G(x) == CHOOSE g : Unfolds(g, f, m \ {x})
           h == [s \in SUBSET m |-> IF s = {} THEN 0
                                    ELSE f[Chosen(s)] + G(Chosen(s))[s \ {Chosen(s)}]]
<1>3. \A x \in m : Unfolds(G(x), f, m \ {x})
  BY <1>2
<1> HIDE DEF G
<1>4. ASSUME NEW s \in SUBSET m, s # {}
      PROVE  h[s \ {Chosen(s)}] = G(Chosen(s))[s \ {Chosen(s)}]
  <2> DEFINE x == Chosen(s)
             r == s \ {x}
  <2>1. x \in s
    BY <1>4 DEF Chosen
  <2>2. Unfolds(G(x), f, m \ {x})
    BY <1>3, <2>1
  <2>3. r \in SUBSET (m \ {x})
    OBVIOUS
  <2>4. CASE r = {}
    <3>1. G(x)[r] = 0
      BY <2>2, <2>3, <2>4 DEF Unfolds
    <3>2. h[r] = 0
      BY <2>3, <2>4
    <3> QED
      BY <3>1, <3>2
  <2>5. CASE r # {}
    <3> DEFINE y == Chosen(r)
    <3>1. y \in r
      BY <2>5 DEF Chosen
    <3>2. G(x)[r] = f[y] + G(x)[r \ {y}]
      BY <2>2, <2>3, <2>5 DEF Unfolds
    <3>3. h[r] = f[y] + G(y)[r \ {y}]
      BY <2>3, <2>5
    <3>4. Unfolds(G(y), f, m \ {y})
      BY <1>3, <3>1
    <3>5. G(x)[r \ {y}] = G(y)[r \ {y}]
      <4> DEFINE A == m \ {x}
                 B == m \ {y}
                 gx == G(x)
                 gy == G(y)
      <4>1. A \in SUBSET S /\ B \in SUBSET S /\ r \ {y} \in SUBSET (A \cap B)
        OBVIOUS
      <4>2. Unfolds(gx, f, A) /\ Unfolds(gy, f, B)
        BY <2>2, <3>4
      <4> HIDE DEF A, B, gx, gy, h, Lack, x, r, y
      <4>3. \A t \in SUBSET (A \cap B) : gx[t] = gy[t]
        BY <4>1, <4>2, UnfoldingsAgree
      <4>4. gx[r \ {y}] = gy[r \ {y}]
        BY <4>1, <4>3
      <4> QED
        BY <4>4 DEF gx, gy
    <3> QED
      BY <3>2, <3>3, <3>5
  <2> QED
    BY <2>4, <2>5
<1>5. Unfolds(h, f, m)
  <2>1. \A s \in SUBSET m : h[s] = IF s = {} THEN 0 ELSE f[Chosen(s)] + h[s \ {Chosen(s)}]
    BY <1>4
  <2> QED
    BY <2>1 DEF Unfolds
<1> QED
  BY <1>1, <1>5

-----------------------------------------------------------------------------

\* The sum obeys its recursion.
LEMMA SumUnfolds ==
  ASSUME NEW f, NEW S, IsFiniteSet(S)
  PROVE  SumFunctionOnSet(f, S) =
           IF S = {} THEN 0 ELSE f[Chosen(S)] + SumFunctionOnSet(f, S \ {Chosen(S)})
<1>1. ASSUME NEW T \in SUBSET S
      PROVE  \E g : Unfolds(g, f, T) /\ SumFunctionOnSet(f, T) = g[T]
  <2>1. SumFunctionOnSet(f, T) = (CHOOSE g : Unfolds(g, f, T))[T]
    BY DEF SumFunctionOnSet, FoldFunctionOnSet, MapThenFoldSet, Unfolds, Chosen
  <2>2. \E g : Unfolds(g, f, T)
    BY FS_Subset, UnfoldingExists
  <2> QED
    BY <2>1, <2>2
<1>2. PICK g : Unfolds(g, f, S) /\ SumFunctionOnSet(f, S) = g[S]
  BY <1>1
<1>3. CASE S = {}
  BY <1>2, <1>3 DEF Unfolds
<1>4. CASE S # {}
  <2> DEFINE R == S \ {Chosen(S)}
  <2>1. R \in SUBSET S
    OBVIOUS
  <2>2. g[S] = f[Chosen(S)] + g[R]
    BY <1>2, <1>4 DEF Unfolds
  <2> HIDE DEF R
  <2>3. PICK h : Unfolds(h, f, R) /\ SumFunctionOnSet(f, R) = h[R]
    BY <1>1, <2>1
  <2>4. g[R] = h[R]
    BY <1>2, <2>1, <2>3, UnfoldingsAgree
  <2> QED
    BY <1>2, <1>4, <2>2, <2>3, <2>4 DEF R
<1> QED
  BY <1>3, <1>4

\* A sum of integers is an integer.
LEMMA SumType ==
  ASSUME NEW f, NEW S, IsFiniteSet(S), \A x \in S : f[x] \in Int
  PROVE  SumFunctionOnSet(f, S) \in Int
<1> DEFINE Odd == {T \in SUBSET S : SumFunctionOnSet(f, T) \notin Int}
<1> SUFFICES ASSUME Odd # {} PROVE FALSE
  OBVIOUS
<1>1. PICK m \in Odd : \A t \in Odd : t \subseteq m => t = m
  <2>1. Odd \subseteq SUBSET S
    OBVIOUS
  <2> HIDE DEF Odd
  <2> QED
    BY <2>1, MinimalSubset
<1>2. m \in SUBSET S /\ SumFunctionOnSet(f, m) \notin Int
  OBVIOUS
<1>3. IsFiniteSet(m)
  BY <1>2, FS_Subset
<1>4. /\ m = {} => SumFunctionOnSet(f, m) = 0
      /\ m # {} => SumFunctionOnSet(f, m) = f[Chosen(m)] + SumFunctionOnSet(f, m \ {Chosen(m)})
  BY <1>3, SumUnfolds
<1>5. m # {} => Chosen(m) \in m
  BY DEF Chosen
<1>6. m # {} => SumFunctionOnSet(f, m \ {Chosen(m)}) \in Int
  BY <1>1, <1>5
<1> QED
  BY <1>2, <1>4, <1>5, <1>6

\* Any element may be taken out of a sum first.
LEMMA SumWithout ==
  ASSUME NEW f, NEW S, IsFiniteSet(S), \A x \in S : f[x] \in Int, NEW x \in S
  PROVE  SumFunctionOnSet(f, S) = f[x] + SumFunctionOnSet(f, S \ {x})
<1> DEFINE Sum(T) == SumFunctionOnSet(f, T)
           Odd == {T \in SUBSET S : \E y \in T : Sum(T) # f[y] + Sum(T \ {y})}
<1> SUFFICES ASSUME Odd # {} PROVE FALSE
  OBVIOUS
<1>1. PICK m \in Odd : \A t \in Odd : t \subseteq m => t = m
  <2>1. Odd \subseteq SUBSET S
    OBVIOUS
  <2> HIDE DEF Odd
  <2> QED
    BY <2>1, MinimalSubset
<1>2. PICK y \in m : Sum(m) # f[y] + Sum(m \ {y})
  OBVIOUS
<1> DEFINE z == Chosen(m)
<1>3. z \in m
  BY DEF Chosen
<1>4. m \in SUBSET S
  OBVIOUS
<1>5. \A t \in SUBSET m : t # m => \A v \in t : Sum(t) = f[v] + Sum(t \ {v})
  BY <1>1, <1>4
<1> HIDE DEF Odd
<1>6. \A t \in SUBSET m : Sum(t) \in Int
  BY <1>4, FS_Subset, SumType
<1>7. Sum(m) = f[z] + Sum(m \ {z})
  BY <1>3, <1>4, FS_Subset, SumUnfolds
<1>8. y # z
  BY <1>2, <1>7
<1>9. Sum(m \ {z}) = f[y] + Sum((m \ {z}) \ {y})
  BY <1>3, <1>5, <1>8
<1>10. Sum(m \ {y}) = f[z] + Sum((m \ {y}) \ {z})
  BY <1>3, <1>5, <1>8
<1>11. (m \ {z}) \ {y} = (m \ {y}) \ {z}
  OBVIOUS
<1> DEFINE rest == Sum((m \ {y}) \ {z})
<1>12. Sum(m \ {z}) = f[y] + rest /\ Sum(m \ {y}) = f[z] + rest
  BY <1>9, <1>10, <1>11
<1>13. rest \in Int /\ f[y] \in Int /\ f[z] \in Int
  BY <1>3, <1>4, <1>6
<1> HIDE DEF rest, Sum, z
<1> QED
  BY <1>2, <1>7, <1>12, <1>13

\* A sum reads its function on the index set only.
LEMMA SumSame ==
  ASSUME NEW f, NEW g, NEW S, IsFiniteSet(S), \A x \in S : f[x] = g[x]
  PROVE  SumFunctionOnSet(f, S) = SumFunctionOnSet(g, S)
<1> DEFINE Odd == {T \in SUBSET S : SumFunctionOnSet(f, T) # SumFunctionOnSet(g, T)}
<1> SUFFICES ASSUME Odd # {} PROVE FALSE
  OBVIOUS
<1>1. PICK m \in Odd : \A t \in Odd : t \subseteq m => t = m
  <2>1. Odd \subseteq SUBSET S
    OBVIOUS
  <2> HIDE DEF Odd
  <2> QED
    BY <2>1, MinimalSubset
<1>2. m \in SUBSET S /\ SumFunctionOnSet(f, m) # SumFunctionOnSet(g, m)
  OBVIOUS
<1>3. IsFiniteSet(m)
  BY <1>2, FS_Subset
<1>4. m # {}
  BY <1>2, <1>3, SumUnfolds
<1>5. Chosen(m) \in m
  BY <1>4 DEF Chosen
<1>6. SumFunctionOnSet(f, m \ {Chosen(m)}) = SumFunctionOnSet(g, m \ {Chosen(m)})
  BY <1>1, <1>5
<1>7. /\ SumFunctionOnSet(f, m) = f[Chosen(m)] + SumFunctionOnSet(f, m \ {Chosen(m)})
      /\ SumFunctionOnSet(g, m) = g[Chosen(m)] + SumFunctionOnSet(g, m \ {Chosen(m)})
  BY <1>3, <1>4, SumUnfolds
<1> QED
  BY <1>2, <1>5, <1>6, <1>7

\* Adding an element to the index set adds its value.
LEMMA SumWith ==
  ASSUME NEW f, NEW g, NEW S, IsFiniteSet(S), NEW x, x \notin S,
         \A y \in S : f[y] = g[y], \A y \in S \cup {x} : g[y] \in Int
  PROVE  SumFunctionOnSet(g, S \cup {x}) = SumFunctionOnSet(f, S) + g[x]
<1>1. IsFiniteSet(S \cup {x}) /\ (S \cup {x}) \ {x} = S
  BY FS_AddElement
<1> DEFINE more == S \cup {x}
<1>2. SumFunctionOnSet(g, more) = g[x] + SumFunctionOnSet(g, S)
  <2>1. x \in more /\ IsFiniteSet(more) /\ more \ {x} = S /\ \A y \in more : g[y] \in Int
    BY <1>1
  <2> HIDE DEF more
  <2>2. SumFunctionOnSet(g, more) = g[x] + SumFunctionOnSet(g, more \ {x})
    BY <2>1, SumWithout
  <2> QED
    BY <2>1, <2>2
<1>3. SumFunctionOnSet(g, S) = SumFunctionOnSet(f, S)
  BY SumSame
<1>4. SumFunctionOnSet(g, S) \in Int /\ g[x] \in Int
  BY SumType
<1> HIDE DEF more
<1>5. SumFunctionOnSet(g, more) = SumFunctionOnSet(f, S) + g[x]
  BY <1>2, <1>3, <1>4
<1> QED
  BY <1>5 DEF more

\* Changing one value changes the sum by the difference.
LEMMA SumChanged ==
  ASSUME NEW f, NEW g, NEW S, IsFiniteSet(S), NEW x \in S,
         \A y \in S \ {x} : f[y] = g[y],
         \A y \in S : f[y] \in Int /\ g[y] \in Int
  PROVE  SumFunctionOnSet(g, S) = SumFunctionOnSet(f, S) + g[x] - f[x]
<1>1. /\ SumFunctionOnSet(f, S) = f[x] + SumFunctionOnSet(f, S \ {x})
      /\ SumFunctionOnSet(g, S) = g[x] + SumFunctionOnSet(g, S \ {x})
  BY SumWithout
<1>2. IsFiniteSet(S \ {x})
  BY FS_RemoveElement
<1>3. SumFunctionOnSet(f, S \ {x}) = SumFunctionOnSet(g, S \ {x})
  BY <1>2, SumSame
<1>4. SumFunctionOnSet(f, S \ {x}) \in Int
  BY <1>2, SumType
<1> QED
  BY <1>1, <1>3, <1>4
=============================================================================
