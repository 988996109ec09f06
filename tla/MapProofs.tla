------------------------------ MODULE MapProofs ------------------------------
(***************************************************************************)
(* Proofs about the two maps of the fleet, MapLayout: whatever the fleet,  *)
(* the filter and the width, tiles, groups, lanes and bands do not touch,  *)
(* every instance has its tile, and ribbons end within what they lead to.  *)
(*                                                                         *)
(* The layouts are folds: over the groups of a lane, the lanes of a        *)
(* machine, the machines, the ribbons at an edge.  So the proofs are by    *)
(* induction, and about sums: first these in general, then the picture     *)
(* from its tiles outwards, then what is drawn to the right of it.         *)
(***************************************************************************)
EXTENDS MapLayout, FiniteSetTheorems, SequenceTheorems, WellFoundedInduction, TLAPS

-----------------------------------------------------------------------------
(* The fleet that is drawn.                                                *)

\* Every variable of the maps keeps to its type.
THEOREM MapTypeCorrect == MapSpec => []MapTypeOK
<1>1. MapInit => MapTypeOK
  <2> SUFFICES ASSUME MapInit PROVE MapTypeOK
      OBVIOUS
  <2>1. ASSUME NEW S, S = {} PROVE Cardinality(S) = 0
        BY <2>1, FS_EmptySet
  <2>2. Cardinality({p \in Hosts2 \X DOMAIN Kinds : count[p[1]][p[2]] > 0}) = 0
    <3>1. {p \in Hosts2 \X DOMAIN Kinds : count[p[1]][p[2]] > 0} = {}
          BY DEF MapInit
    <3> QED BY <2>1, <3>1
  <2>3. Cardinality({h \in Hosts2 : refused[h] > 0}) = 0
    <3>1. {h \in Hosts2 : refused[h] > 0} = {}
          BY DEF MapInit
    <3> QED BY <2>1, <3>1
  <2>4. /\ count \in [Hosts2 -> [DOMAIN Kinds -> GroupSizes \cup {0}]]
        /\ refused \in [Hosts2 -> Refusals \cup {0}] /\ chosen \subseteq Hosts2
        BY DEF MapInit
  <2> QED BY <2>2, <2>3, <2>4, MaxPartsAssumption DEF MapTypeOK, Parts
<1>2. MapTypeOK /\ [MapNext]_mapVars => MapTypeOK'
  <2> SUFFICES ASSUME MapTypeOK, [MapNext]_mapVars PROVE MapTypeOK'
      OBVIOUS
  <2>1. ASSUME NEW h \in Hosts2, NEW k \in DOMAIN Kinds, NEW n \in GroupSizes \cup {0}, Refetch(h, k, n)
        PROVE  MapTypeOK'
        BY <2>1 DEF MapTypeOK, Refetch
  <2>2. ASSUME NEW h \in Hosts2, NEW n \in Refusals \cup {0}, RefetchDenials(h, n) PROVE MapTypeOK'
        BY <2>2 DEF MapTypeOK, RefetchDenials
  <2>3. ASSUME NEW some \in SUBSET Hosts2, Choose(some) PROVE MapTypeOK'
        BY <2>3 DEF MapTypeOK, Choose
  <2>4. CASE UNCHANGED mapVars
        BY <2>4 DEF MapTypeOK, mapVars
  <2> QED BY <2>1, <2>2, <2>3, <2>4 DEF MapNext
<1> QED BY <1>1, <1>2, PTL DEF MapSpec

-----------------------------------------------------------------------------
(* Induction.                                                              *)

\* Induction over the natural numbers, for sets.
LEMMA Ind ==
  ASSUME NEW S, 0 \in S, \A n \in Nat : n \in S => n + 1 \in S
  PROVE  Nat \subseteq S
<1> DEFINE R == OpToRel(<, Nat)
<1> DEFINE T == Nat \ S
<1>1. IsWellFoundedOn(R, Nat)
  BY NatLessThanWellFounded, Zenon
<1>2. ASSUME T # {} PROVE FALSE
  <2>1. T \subseteq Nat
    OBVIOUS
  <2> HIDE DEF R, T
  <2>2. PICK x \in T : \A y \in T : ~ (<<y, x>> \in R)
    BY <1>1, <1>2, <2>1, WFMin
  <2>3. x \in Nat /\ x # 0
    BY <2>2 DEF T
  <2>4. x - 1 \in Nat /\ x - 1 < x
    BY <2>3
  <2>5. <<x - 1, x>> \in R
    BY <2>3, <2>4 DEF R, OpToRel
  <2>6. x - 1 \in S
    BY <2>2, <2>5, <2>4 DEF T
  <2>7. x \in S
    BY <2>6, <2>4, <2>3
  <2> QED
    BY <2>7, <2>2 DEF T
<1> QED
  BY <1>2

\* Induction over the subsets of a finite set.
LEMMA FinInd ==
  ASSUME NEW S, IsFiniteSet(S), NEW P, {} \in P,
         \A T \in SUBSET S : T \in P => \A x \in S \ T : T \cup {x} \in P
  PROVE  SUBSET S \subseteq P
<1> DEFINE K == {n \in Nat : \A T \in SUBSET S : Cardinality(T) = n => T \in P}
<1>1. \A T \in SUBSET S : IsFiniteSet(T) /\ Cardinality(T) \in Nat
  BY FS_Subset, FS_CardinalityType
<1>2. 0 \in K
  BY <1>1, FS_EmptySet
<1>3. ASSUME NEW n \in Nat, n \in K PROVE n + 1 \in K
  <2> SUFFICES ASSUME NEW T \in SUBSET S, Cardinality(T) = n + 1 PROVE T \in P
    OBVIOUS
  <2>1. T # {}
    BY <1>1, FS_EmptySet
  <2>2. PICK x \in T : TRUE
    BY <2>1
  <2>3. Cardinality(T \ {x}) = n
    <3>1. IsFiniteSet(T) /\ x \in T
      BY <1>1, <2>2
    <3>2. Cardinality(T \ {x}) = Cardinality(T) - 1
      BY <3>1, FS_RemoveElement
    <3> QED
      BY <3>2
  <2>4. T \ {x} \in P
    BY <2>3, <1>3
  <2>5. T = (T \ {x}) \cup {x} /\ x \in S \ (T \ {x}) /\ T \ {x} \in SUBSET S
    BY <2>2
  <2> HIDE DEF K
  <2> QED
    BY <2>4, <2>5
<1>4. Nat \subseteq K
  <2> HIDE DEF K
  <2> QED
    BY <1>2, <1>3, Ind
<1> QED
  BY <1>1, <1>4

-----------------------------------------------------------------------------
\* The element that the recursion behind a sum takes first.
AnyOf(T) == CHOOSE x \in T : TRUE
\* The recursion behind the sum of a function, up to sets of a size.
Adds(g, f, D) == g = [T \in D |-> IF T = {} THEN 0 ELSE f[AnyOf(T)] + g[T \ {AnyOf(T)}]]

LEMMA Picked == ASSUME NEW T, T # {} PROVE AnyOf(T) \in T
  BY DEF AnyOf

\* There is such a recursion for every finite set.
LEMMA AddsExists ==
  ASSUME NEW f, NEW S, IsFiniteSet(S)
  PROVE  \E g : Adds(g, f, SUBSET S)
<1> DEFINE D(n) == {T \in SUBSET S : Cardinality(T) <= n}
<1> DEFINE K == {n \in Nat : \E g : Adds(g, f, D(n))}
<1>1. \A T \in SUBSET S : IsFiniteSet(T) /\ Cardinality(T) \in Nat
  BY FS_Subset, FS_CardinalityType
<1>2. 0 \in K
  <2>1. ASSUME NEW T \in D(0) PROVE T = {}
    BY <1>1, FS_EmptySet
  <2> DEFINE g == [T \in D(0) |-> 0]
  <2>2. g = [T \in D(0) |-> IF T = {} THEN 0 ELSE f[AnyOf(T)] + g[T \ {AnyOf(T)}]]
    BY <2>1
  <2> QED
    BY <2>2 DEF Adds
<1>3. ASSUME NEW n \in Nat, n \in K PROVE n + 1 \in K
  <2>1. PICK g : Adds(g, f, D(n))
    BY <1>3
  <2> DEFINE h == [T \in D(n + 1) |-> IF T = {} THEN 0 ELSE f[AnyOf(T)] + g[T \ {AnyOf(T)}]]
  <2>2. ASSUME NEW T \in D(n) PROVE T \in D(n + 1) /\ h[T] = g[T]
    <3>1. T \in D(n + 1)
      BY <1>1
    <3> HIDE DEF D
    <3>2. g[T] = IF T = {} THEN 0 ELSE f[AnyOf(T)] + g[T \ {AnyOf(T)}]
      BY <2>1 DEF Adds
    <3> QED
      BY <3>1, <3>2
  <2>3. ASSUME NEW T \in D(n + 1), T # {} PROVE h[T \ {AnyOf(T)}] = g[T \ {AnyOf(T)}]
    <3>1. AnyOf(T) \in T
      BY <2>3, Picked
    <3>2. T \ {AnyOf(T)} \in D(n)
      BY <1>1, <3>1, FS_RemoveElement
    <3> HIDE DEF D, h
    <3> QED
      BY <2>2, <3>2
  <2>4. Adds(h, f, D(n + 1))
    <3>1. ASSUME NEW T \in D(n + 1)
          PROVE  (IF T = {} THEN 0 ELSE f[AnyOf(T)] + g[T \ {AnyOf(T)}])
                   = (IF T = {} THEN 0 ELSE f[AnyOf(T)] + h[T \ {AnyOf(T)}])
      <4> HIDE DEF h, D
      <4> QED BY <2>3
    <3>2. h = [T \in D(n + 1) |-> IF T = {} THEN 0 ELSE f[AnyOf(T)] + h[T \ {AnyOf(T)}]]
      <4> HIDE DEF D
      <4> QED BY <3>1, Zenon
    <3> HIDE DEF h, D
    <3> QED BY <3>2 DEF Adds
  <2> HIDE DEF h, D
  <2> QED
    BY <2>4
<1>4. Cardinality(S) \in K
  <2> HIDE DEF K
  <2> QED
    BY <1>1, <1>2, <1>3, Ind
<1>5. D(Cardinality(S)) = SUBSET S
  BY <1>1, FS_Subset
<1> QED
  BY <1>4, <1>5

\* It does not matter which element of a set is taken first.
Additive(g, f, S) ==
  \A T \in SUBSET S : g[T] \in Nat /\ \A x \in T : g[T] = f[x] + g[T \ {x}]

\* It does not matter which element is taken first.
LEMMA AddsSplit ==
  ASSUME NEW S, IsFiniteSet(S), NEW f \in [S -> Nat], NEW g, Adds(g, f, SUBSET S)
  PROVE  Additive(g, f, S)
<1> DEFINE Q(T) == g[T] \in Nat /\ \A x \in T : g[T] = f[x] + g[T \ {x}]
<1> DEFINE K == {n \in Nat : \A T \in SUBSET S : Cardinality(T) <= n => Q(T)}
<1>1. \A T \in SUBSET S : IsFiniteSet(T) /\ Cardinality(T) \in Nat
  BY FS_Subset, FS_CardinalityType
<1>2. \A T \in SUBSET S : g[T] = IF T = {} THEN 0 ELSE f[AnyOf(T)] + g[T \ {AnyOf(T)}]
  BY DEF Adds
<1>3. 0 \in K
  <2> SUFFICES ASSUME NEW T \in SUBSET S, Cardinality(T) <= 0 PROVE Q(T)
    OBVIOUS
  <2>1. T = {}
    BY <1>1, FS_EmptySet
  <2>2. g[T] = 0
    BY <1>2, <2>1
  <2> QED
    BY <2>1, <2>2
<1>4. ASSUME NEW n \in Nat, n \in K PROVE n + 1 \in K
  <2> SUFFICES ASSUME NEW T \in SUBSET S, Cardinality(T) <= n + 1 PROVE Q(T)
    OBVIOUS
  <2>1. CASE T = {}
    <3>1. g[T] = 0
      BY <1>2, <2>1
    <3> QED
      BY <2>1, <3>1
  <2>2. CASE T # {}
    <3>1. ASSUME NEW x \in T, NEW U \in SUBSET (T \ {x}) PROVE Q(U)
      <4>1. Cardinality(T \ {x}) = Cardinality(T) - 1 /\ IsFiniteSet(T \ {x})
        BY <1>1, FS_RemoveElement
      <4>2. Cardinality(U) <= Cardinality(T \ {x}) /\ U \in SUBSET S
        BY <4>1, FS_Subset
      <4>3. Cardinality(U) <= n
        BY <4>1, <4>2, <1>1
      <4> QED
        BY <4>2, <4>3, <1>4
    <3> DEFINE c == AnyOf(T)
    <3>2. c \in T
      BY <2>2, Picked
    <3>3. g[T] = f[c] + g[T \ {c}]
      BY <1>2, <2>2
    <3> HIDE DEF c
    <3>4. g[T] \in Nat
      BY <3>1, <3>2, <3>3
    <3>5. ASSUME NEW x \in T, x # c PROVE g[T] = f[x] + g[T \ {x}]
      <4> DEFINE R == (T \ {x}) \ {c}
      <4>1. x \in T \ {c} /\ c \in T \ {x} /\ R = (T \ {c}) \ {x}
        BY <3>5, <3>2
      <4>2. g[T \ {x}] = f[c] + g[R]
        BY <3>1, <4>1
      <4>3. g[T \ {c}] = f[x] + g[R]
        <5>1. g[T \ {c}] = f[x] + g[(T \ {c}) \ {x}]
          BY <3>1, <3>2, <4>1
        <5> QED
          BY <5>1, <4>1
      <4>4. g[R] \in Nat
        BY <3>1
      <4>5. f[x] \in Nat /\ f[c] \in Nat
        BY <3>2
      <4> HIDE DEF R
      <4> QED
        BY <3>3, <4>2, <4>3, <4>4, <4>5
    <3> QED
      BY <3>3, <3>4, <3>5
  <2> QED
    BY <2>1, <2>2
<1>5. Nat \subseteq K
  <2> HIDE DEF K
  <2> QED
    BY <1>3, <1>4, Ind
<1>6. ASSUME NEW T \in SUBSET S PROVE Q(T)
  <2>1. Cardinality(T) \in Nat
    BY <1>1
  <2> HIDE DEF K
  <2>2. Cardinality(T) \in K
    BY <2>1, <1>5
  <2>3. Cardinality(T) <= Cardinality(T)
    BY <2>1
  <2> USE DEF K
  <2> HIDE DEF Q
  <2> QED
    BY <2>2, <2>3
<1> QED
  BY <1>6 DEF Additive

-----------------------------------------------------------------------------
(* Sums of the values of a function at the elements of a set.              *)

\* What f adds up to on T.
SumOn(f, T) == Seqs!SumFunctionOnSet(f, T)

\* A sum is what the recursion gives.
LEMMA SumIs ==
  ASSUME NEW f, NEW T, IsFiniteSet(T)
  PROVE  \E g : Adds(g, f, SUBSET T) /\ SumOn(f, T) = g[T]
<1> DEFINE F == CHOOSE g : g = [U \in SUBSET T |->
                   IF U = {} THEN 0 ELSE f[CHOOSE x \in U : TRUE] + g[U \ {CHOOSE x \in U : TRUE}]]
<1>1. F = [U \in SUBSET T |-> IF U = {} THEN 0 ELSE f[CHOOSE x \in U : TRUE] + F[U \ {CHOOSE x \in U : TRUE}]]
  <2>1. PICK g : Adds(g, f, SUBSET T)
    BY AddsExists
  <2> QED
    BY <2>1 DEF Adds, AnyOf
<1>2. SumOn(f, T) = F[T]
  BY DEF SumOn, Seqs!SumFunctionOnSet, Seqs!FoldFunctionOnSet, Seqs!MapThenFoldSet
<1>3. Adds(F, f, SUBSET T)
  BY <1>1 DEF Adds, AnyOf
<1> QED
  BY <1>2, <1>3

\* The sum of all values of a function.
LEMMA SumIsFunction == ASSUME NEW f PROVE Seqs!SumFunction(f) = SumOn(f, DOMAIN f)
  BY DEF SumOn, Seqs!SumFunction

\* Functions with natural numbers as values at the elements of a finite set.
Sums(f, T) == IsFiniteSet(T) /\ \A x \in T : f[x] \in Nat

\* A part of a set is as good.
LEMMA SumsPart == ASSUME NEW f, NEW T, Sums(f, T), NEW U, U \subseteq T PROVE Sums(f, U)
  BY FS_Subset DEF Sums

\* Values elsewhere do not matter.
LEMMA AddsRestrict ==
  ASSUME NEW f, NEW T, NEW g, Adds(g, f, SUBSET T)
  PROVE  Adds(g, [x \in T |-> f[x]], SUBSET T)
<1>1. ASSUME NEW U \in SUBSET T, U # {} PROVE AnyOf(U) \in T
  BY <1>1, Picked
<1>2. ASSUME NEW U \in SUBSET T
      PROVE  (IF U = {} THEN 0 ELSE f[AnyOf(U)] + g[U \ {AnyOf(U)}])
               = (IF U = {} THEN 0 ELSE [x \in T |-> f[x]][AnyOf(U)] + g[U \ {AnyOf(U)}])
  BY <1>1
<1>3. g = [U \in SUBSET T |-> IF U = {} THEN 0 ELSE f[AnyOf(U)] + g[U \ {AnyOf(U)}]]
  BY DEF Adds
<1>4. g = [U \in SUBSET T |-> IF U = {} THEN 0 ELSE [x \in T |-> f[x]][AnyOf(U)] + g[U \ {AnyOf(U)}]]
  BY <1>2, <1>3, Zenon
<1> QED
  BY <1>4 DEF Adds

\* So the recursion takes away any element.
LEMMA SumsAdditive ==
  ASSUME NEW f, NEW T, Sums(f, T), NEW g, Adds(g, f, SUBSET T)
  PROVE  Additive(g, f, T)
<1> DEFINE e == [x \in T |-> f[x]]
<1>1. e \in [T -> Nat] /\ IsFiniteSet(T)
  BY DEF Sums
<1>2. Adds(g, e, SUBSET T)
  BY AddsRestrict
<1>3. Additive(g, e, T)
  <2> HIDE DEF e
  <2> QED
    BY <1>1, <1>2, AddsSplit
<1>4. \A x \in T : e[x] = f[x]
  OBVIOUS
<1> HIDE DEF e
<1> QED
  BY <1>3, <1>4 DEF Additive

\* A sum of naturals is a natural, that of nothing zero.
LEMMA SumNat == ASSUME NEW f, NEW T, Sums(f, T) PROVE SumOn(f, T) \in Nat
<1>1. PICK g : Adds(g, f, SUBSET T) /\ SumOn(f, T) = g[T]
  BY SumIs DEF Sums
<1>2. Additive(g, f, T)
  BY <1>1, SumsAdditive
<1> QED
  BY <1>1, <1>2 DEF Additive

LEMMA SumEmpty == ASSUME NEW f PROVE SumOn(f, {}) = 0
<1>1. IsFiniteSet({})
  BY FS_EmptySet
<1>2. PICK g : Adds(g, f, SUBSET {}) /\ SumOn(f, {}) = g[{}]
  BY <1>1, SumIs
<1> QED
  BY <1>2 DEF Adds

\* Functions that agree on a set have the same sum there.
LEMMA AddsSame ==
  ASSUME NEW T, IsFiniteSet(T), NEW f, NEW e, NEW g, NEW h, NEW R, T \subseteq R,
         Additive(g, f, R), Additive(h, e, T), g[{}] = h[{}], \A x \in T : e[x] = f[x]
  PROVE  g[T] = h[T]
<1> DEFINE P == {U \in SUBSET T : g[U] = h[U]}
<1>1. {} \in P
  OBVIOUS
<1>2. ASSUME NEW U \in SUBSET T, U \in P, NEW x \in T \ U PROVE U \cup {x} \in P
  <2>1. g[U \cup {x}] = f[x] + g[(U \cup {x}) \ {x}]
    BY DEF Additive
  <2>2. h[U \cup {x}] = e[x] + h[(U \cup {x}) \ {x}]
    BY DEF Additive
  <2>3. (U \cup {x}) \ {x} = U
    OBVIOUS
  <2> QED
    BY <1>2, <2>1, <2>2, <2>3
<1>4. T \in P
  <2> HIDE DEF P
  <2> QED
    BY <1>1, <1>2, FinInd
<1> QED
  BY <1>4

\* Functions that agree on a set have the same sum there.
LEMMA SumSame ==
  ASSUME NEW T, NEW f, NEW e, Sums(f, T), \A x \in T : e[x] = f[x]
  PROVE  SumOn(e, T) = SumOn(f, T)
<1>1. Sums(e, T)
  BY DEF Sums
<1>2. PICK g : Adds(g, f, SUBSET T) /\ SumOn(f, T) = g[T]
  BY SumIs DEF Sums
<1>3. PICK h : Adds(h, e, SUBSET T) /\ SumOn(e, T) = h[T]
  BY SumIs DEF Sums
<1>4. Additive(g, f, T)
  BY <1>2, SumsAdditive
<1>5. Additive(h, e, T)
  BY <1>1, <1>3, SumsAdditive
<1>6. g[{}] = h[{}]
  BY <1>2, <1>3 DEF Adds
<1>7. IsFiniteSet(T) /\ T \subseteq T
  BY DEF Sums
<1>8. g[T] = h[T]
  BY <1>4, <1>5, <1>6, <1>7, AddsSame
<1> QED
  BY <1>2, <1>3, <1>8

\* An element taken away from a sum.
LEMMA SumSplit ==
  ASSUME NEW f, NEW T, Sums(f, T), NEW x \in T
  PROVE  SumOn(f, T) = f[x] + SumOn(f, T \ {x})
<1> DEFINE R == T \ {x}
<1>1. Sums(f, R) /\ IsFiniteSet(R) /\ IsFiniteSet(T) /\ R \subseteq T
  BY SumsPart DEF Sums
<1> HIDE DEF R
<1>2. PICK g : Adds(g, f, SUBSET T) /\ SumOn(f, T) = g[T]
  BY <1>1, SumIs
<1>3. PICK h : Adds(h, f, SUBSET R) /\ SumOn(f, R) = h[R]
  BY <1>1, SumIs
<1>4. Additive(g, f, T)
  BY <1>2, SumsAdditive
<1>5. Additive(h, f, R)
  BY <1>1, <1>3, SumsAdditive
<1>6. g[{}] = h[{}]
  BY <1>2, <1>3 DEF Adds
<1>7. g[R] = h[R]
  BY <1>1, <1>4, <1>5, <1>6, AddsSame
<1>8. g[T] = f[x] + g[R]
  BY <1>4 DEF Additive, R
<1> QED
  BY <1>2, <1>3, <1>7, <1>8 DEF R

\* The same, for an element that comes to a set.
LEMMA SumAdd ==
  ASSUME NEW f, NEW T, NEW x, x \notin T, Sums(f, T \cup {x})
  PROVE  SumOn(f, T \cup {x}) = f[x] + SumOn(f, T)
<1> DEFINE U == T \cup {x}
<1>1. U \ {x} = T /\ x \in U /\ Sums(f, U)
  OBVIOUS
<1> HIDE DEF U
<1>2. SumOn(f, U) = f[x] + SumOn(f, U \ {x})
  BY <1>1, SumSplit
<1> QED
  BY <1>1, <1>2 DEF U

\* The same within a set.
LEMMA SumWith ==
  ASSUME NEW f, NEW S, Sums(f, S), NEW T \in SUBSET S, NEW x \in S \ T
  PROVE  SumOn(f, T \cup {x}) = f[x] + SumOn(f, T)
<1> DEFINE U == T \cup {x}
<1>1. U \subseteq S
  OBVIOUS
<1> HIDE DEF U
<1>2. Sums(f, U)
  BY <1>1, SumsPart
<1> QED
  BY <1>2, SumAdd DEF U

\* A sum over two parts.
LEMMA SumParts ==
  ASSUME NEW f, NEW S, Sums(f, S), NEW A, A \subseteq S
  PROVE  SumOn(f, S) = SumOn(f, A) + SumOn(f, S \ A)
<1> DEFINE P == {T \in SUBSET S : SumOn(f, S) = SumOn(f, T) + SumOn(f, S \ T)}
<1>1. ASSUME NEW T \in SUBSET S PROVE SumOn(f, T) \in Nat
  BY SumsPart, SumNat
<1>3. {} \in P
  <2>1. S \ {} = S /\ SumOn(f, {}) = 0
    BY SumEmpty
  <2> QED
    BY <1>1, <2>1
<1>4. ASSUME NEW T \in SUBSET S, T \in P, NEW x \in S \ T PROVE T \cup {x} \in P
  <2>1. SumOn(f, T \cup {x}) = f[x] + SumOn(f, T)
    BY SumWith
  <2>2. SumOn(f, S \ T) = f[x] + SumOn(f, (S \ T) \ {x})
    <3> DEFINE U == S \ T
    <3>1. Sums(f, U) /\ x \in U
      BY SumsPart
    <3> HIDE DEF U
    <3>2. SumOn(f, U) = f[x] + SumOn(f, U \ {x})
      BY <3>1, SumSplit
    <3> QED
      BY <3>2 DEF U
  <2>3. (S \ T) \ {x} = S \ (T \cup {x})
    OBVIOUS
  <2>4. SumOn(f, T) \in Nat /\ SumOn(f, S \ (T \cup {x})) \in Nat /\ f[x] \in Nat
    BY <1>1 DEF Sums
  <2>5. SumOn(f, S \ T) = f[x] + SumOn(f, S \ (T \cup {x}))
    BY <2>2, <2>3
  <2>6. SumOn(f, S) = SumOn(f, T \cup {x}) + SumOn(f, S \ (T \cup {x}))
    BY <1>4, <2>1, <2>4, <2>5
  <2> QED
    BY <2>6
<1>5. A \in P
  <2>1. IsFiniteSet(S)
    BY DEF Sums
  <2> HIDE DEF P
  <2> QED
    BY <1>3, <1>4, <2>1, FinInd
<1> QED
  BY <1>5

\* Smaller values, smaller sum.
LEMMA SumLeq ==
  ASSUME NEW f, NEW g, NEW S, Sums(f, S), Sums(g, S), \A x \in S : f[x] <= g[x]
  PROVE  SumOn(f, S) <= SumOn(g, S)
<1> DEFINE P == {T \in SUBSET S : SumOn(f, T) <= SumOn(g, T)}
<1>1. {} \in P
  <2>1. SumOn(f, {}) = 0 /\ SumOn(g, {}) = 0
    BY SumEmpty
  <2> QED
    BY <2>1
<1>2. ASSUME NEW T \in SUBSET S, T \in P, NEW x \in S \ T PROVE T \cup {x} \in P
  <2>1. SumOn(f, T) \in Nat /\ SumOn(g, T) \in Nat /\ f[x] \in Nat /\ g[x] \in Nat
    BY SumsPart, SumNat DEF Sums
  <2>2. SumOn(f, T \cup {x}) = f[x] + SumOn(f, T)
    BY SumWith
  <2>3. SumOn(g, T \cup {x}) = g[x] + SumOn(g, T)
    BY SumWith
  <2> QED
    BY <1>2, <2>1, <2>2, <2>3
<1>3. S \in P
  <2>1. IsFiniteSet(S)
    BY DEF Sums
  <2> HIDE DEF P
  <2> QED
    BY <1>1, <1>2, <2>1, FinInd
<1> QED
  BY <1>3

\* A part has no larger sum.
LEMMA SumLess ==
  ASSUME NEW f, NEW S, Sums(f, S), NEW A, A \subseteq S
  PROVE  SumOn(f, A) <= SumOn(f, S)
<1>1. SumOn(f, A) \in Nat /\ SumOn(f, S \ A) \in Nat
  BY SumsPart, SumNat
<1>2. SumOn(f, S) = SumOn(f, A) + SumOn(f, S \ A)
  BY SumParts
<1> QED
  BY <1>1, <1>2

\* A sum of values that are at least, or at most, c.
LEMMA SumBound ==
  ASSUME NEW f, NEW S, Sums(f, S), NEW c \in Nat
  PROVE  /\ (\A x \in S : f[x] <= c) => SumOn(f, S) <= c * Cardinality(S)
         /\ (\A x \in S : f[x] >= c) => SumOn(f, S) >= c * Cardinality(S)
<1> DEFINE P == {T \in SUBSET S : /\ (\A x \in S : f[x] <= c) => SumOn(f, T) <= c * Cardinality(T)
                                  /\ (\A x \in S : f[x] >= c) => SumOn(f, T) >= c * Cardinality(T)}
<1>1. {} \in P
  BY SumEmpty, FS_EmptySet
<1>2. ASSUME NEW T \in SUBSET S, T \in P, NEW x \in S \ T PROVE T \cup {x} \in P
  <2>1. SumOn(f, T) \in Nat /\ f[x] \in Nat
    BY SumsPart, SumNat DEF Sums
  <2>2. SumOn(f, T \cup {x}) = f[x] + SumOn(f, T)
    BY SumWith
  <2>3. IsFiniteSet(T)
    BY FS_Subset DEF Sums
  <2>4. Cardinality(T \cup {x}) = Cardinality(T) + 1 /\ Cardinality(T) \in Nat
    BY <2>3, FS_AddElement, FS_CardinalityType
  <2>5. c * Cardinality(T \cup {x}) = c * Cardinality(T) + c /\ c * Cardinality(T) \in Nat
    BY <2>4
  <2> QED
    BY <1>2, <2>1, <2>2, <2>5
<1>3. S \in P
  <2>1. IsFiniteSet(S)
    BY DEF Sums
  <2> HIDE DEF P
  <2> QED
    BY <1>1, <1>2, <2>1, FinInd
<1> QED
  BY <1>3

\* The values of h are the sums of f on the parts A of S, which do not meet.
Fibres(A, h, f, Q, S) ==
  /\ \A q \in Q : A[q] \subseteq S /\ h[q] = SumOn(f, A[q])
  /\ \A p, q \in Q : p # q => A[p] \cap A[q] = {}

\* A sum over parts is the sum of the parts' sums.
LEMMA SumFibres ==
  ASSUME NEW f, NEW S, Sums(f, S), NEW Q, IsFiniteSet(Q), NEW A, NEW h, Fibres(A, h, f, Q, S)
  PROVE  Sums(h, Q) /\ SumOn(h, Q) = SumOn(f, UNION {A[q] : q \in Q})
<1> DEFINE All0(T) == UNION {A[q] : q \in T}
<1> DEFINE P == {T \in SUBSET Q : SumOn(h, T) = SumOn(f, All0(T))}
<1>1. Sums(h, Q)
  BY SumsPart, SumNat DEF Sums, Fibres
<1>2. {} \in P
  <2>1. All0({}) = {}
    OBVIOUS
  <2> QED
    BY <2>1, SumEmpty
<1>3. ASSUME NEW T \in SUBSET Q, T \in P, NEW x \in Q \ T PROVE T \cup {x} \in P
  <2> DEFINE B == All0(T \cup {x})
  <2>1. B \subseteq S /\ A[x] \subseteq B /\ B \ A[x] = All0(T) /\ h[x] = SumOn(f, A[x])
    BY DEF Fibres
  <2>2. SumOn(f, B) = SumOn(f, A[x]) + SumOn(f, B \ A[x])
    <3> HIDE DEF B
    <3>1. Sums(f, B)
      BY <2>1, SumsPart
    <3> QED
      BY <2>1, <3>1, SumParts
  <2>3. SumOn(h, T \cup {x}) = h[x] + SumOn(h, T)
    <3>1. Sums(h, T \cup {x})
      BY <1>1, SumsPart
    <3> QED
      BY <3>1, SumAdd
  <2> QED
    BY <1>3, <2>1, <2>2, <2>3
<1>4. Q \in P
  <2> HIDE DEF P
  <2> QED
    BY <1>2, <1>3, FinInd
<1> QED
  BY <1>1, <1>4

-----------------------------------------------------------------------------
(* Groups: tiles in rows.                                                  *)

\* Division with remainder, and rounded up.
LEMMA DivMod ==
  ASSUME NEW a \in Nat, NEW b \in Nat \ {0}
  PROVE  /\ a \div b \in Nat /\ a % b \in Nat /\ a % b < b
         /\ a = (a \div b) * b + (a % b)
OBVIOUS

LEMMA DivLess ==
  ASSUME NEW a \in Nat, NEW b \in Nat \ {0}, NEW r \in Nat, a < r * b
  PROVE  a \div b < r
<1> DEFINE q == a \div b
<1>1. q \in Nat /\ q * b <= a
  BY DivMod, SMT
<1> HIDE DEF q
<1>2. SUFFICES ASSUME q >= r PROVE FALSE
  BY <1>1 DEF q
<1>3. PICK d \in Nat : q = r + d
  BY <1>1, <1>2
<1>4. q * b = r * b + d * b /\ d * b \in Nat /\ r * b \in Nat /\ q * b \in Nat
  BY <1>1, <1>3
<1> QED
  BY <1>1, <1>4

LEMMA CeilTimes ==
  ASSUME NEW a \in Nat, NEW b \in Nat \ {0}
  PROVE  /\ (a + b - 1) \div b \in Nat
         /\ a <= ((a + b - 1) \div b) * b
<1> DEFINE q == (a + b - 1) \div b  r == (a + b - 1) % b
<1>1. a + b - 1 \in Nat
  OBVIOUS
<1>2. q \in Nat /\ r \in Nat /\ r < b /\ a + b - 1 = q * b + r
  BY <1>1, DivMod
<1> HIDE DEF q, r
<1>3. q * b \in Nat
  BY <1>2
<1>4. a <= q * b
  BY <1>2, <1>3
<1> QED
  BY <1>2, <1>4 DEF q

-----------------------------------------------------------------------------
\* Groups, blocks, and a block that is as it should be.
Group == [text : Nat, n : Nat]
BlockSet == [x : Nat, y : Nat, w : Nat, h : Nat, n : Nat, cols : Nat]
GoodBlock(b, width) == b \in BlockSet /\ b.n > 0 /\ b.h >= 2900 /\ TilesFit(b, width)

\* Columns and rows of a group of n.
LEMMA Grid ==
  ASSUME NEW g \in Group, g.n > 0, NEW width \in Nat, width >= TILE
  PROVE  LET c == Cols(g, width)  r == (g.n + c - 1) \div c IN
         /\ c \in Nat \ {0} /\ r \in Nat \ {0} /\ g.n <= r * c
         /\ c * PITCH <= width + GAP
<1> DEFINE c == Cols(g, width)  r == (g.n + c - 1) \div c  q == (width + GAP) \div PITCH
<1>1. q \in Nat /\ q * PITCH <= width + GAP /\ q >= 1
  BY DEF GAP, PITCH, TILE
<1>2. g.n \in Nat \ {0}
  BY DEF Group
<1>3. c = Smaller(g.n, Larger(1, q))
  BY DEF Cols
<1> HIDE DEF q
<1>4. c \in Nat \ {0} /\ c <= q
  BY <1>1, <1>2, <1>3 DEF Smaller, Larger
<1> HIDE DEF c
<1>5. c * PITCH <= width + GAP
  BY <1>1, <1>4 DEF GAP, PITCH, TILE
<1>6. r \in Nat /\ g.n <= r * c
  BY <1>2, <1>4, CeilTimes
<1> HIDE DEF r
<1>7. r # 0
  BY <1>2, <1>4, <1>6
<1> QED
  BY <1>4, <1>5, <1>6, <1>7 DEF c, r

\* The tiles of a grid of cols columns, numbered row by row, are as many.
LEMMA TilesCounted ==
  ASSUME NEW b \in BlockSet, b.cols > 0
  PROVE  Cardinality(Tiles(b)) = b.n
<1> DEFINE D == 0..(b.n - 1)
           f == [i \in D |-> <<b.x + (i % b.cols) * PITCH, b.y + LABEL_H + (i \div b.cols) * PITCH>>]
<1>1. b.n \in Nat /\ b.cols \in Nat \ {0} /\ b.x \in Nat /\ b.y \in Nat
  BY DEF BlockSet
<1>2. f \in [D -> Tiles(b)] /\ \A t \in Tiles(b) : \E i \in D : f[i] = t
  BY DEF Tiles
<1>3. ASSUME NEW i \in D, NEW j \in D, f[i] = f[j] PROVE i = j
  <2> DEFINE mi == i % b.cols  mj == j % b.cols  di == i \div b.cols  dj == j \div b.cols
  <2>1. /\ mi \in Nat /\ di \in Nat /\ i = di * b.cols + mi
        /\ mj \in Nat /\ dj \in Nat /\ j = dj * b.cols + mj
    <3>1. i \in Nat /\ j \in Nat
      BY <1>1
    <3> QED
      BY <1>1, <3>1, DivMod
  <2>2. b.x + mi * PITCH = b.x + mj * PITCH /\ b.y + LABEL_H + di * PITCH = b.y + LABEL_H + dj * PITCH
    BY <1>3
  <2> HIDE DEF mi, mj, di, dj
  <2>3. mi = mj /\ di = dj
    BY <1>1, <2>1, <2>2 DEF PITCH, TILE, GAP, LABEL_H
  <2> QED
    BY <2>1, <2>3
<1>4. IsFiniteSet(D) /\ Cardinality(D) = b.n
  <2>1. b.n - 1 \in Int /\ 0 \in Int
    BY <1>1
  <2>2. IsFiniteSet(D) /\ Cardinality(D) = IF 0 > b.n - 1 THEN 0 ELSE (b.n - 1) - 0 + 1
    BY <2>1, FS_Interval
  <2> QED
    BY <1>1, <2>2
<1>5. ExistsBijection(D, Tiles(b))
  <2> HIDE DEF f, D
  <2>1. f \in Bijection(D, Tiles(b))
    BY <1>2, <1>3 DEF Bijection, Injection, Surjection, IsInjective
  <2> QED
    BY <2>1 DEF ExistsBijection
<1> HIDE DEF D, f
<1> QED
  BY <1>4, <1>5, FS_Bijection

\* A group that starts a row, or still has room in it, gets a good block.
LEMMA BlockGood ==
  ASSUME NEW g \in Group, g.n > 0, NEW width \in Nat, width >= TILE, NEW x \in Nat, NEW y \in Nat,
         x = 0 \/ x + Block(g, x, y, width).w <= width
  PROVE  LET b == Block(g, x, y, width) IN
         GoodBlock(b, width) /\ b.x = x /\ b.y = y /\ b.n = g.n
<1> DEFINE c == Cols(g, width)  r == (g.n + c - 1) \div c  b == Block(g, x, y, width)
<1>1. c \in Nat \ {0} /\ r \in Nat \ {0} /\ g.n <= r * c /\ c * PITCH <= width + GAP
  BY Grid
<1>2. b = [x |-> x, y |-> y, w |-> Larger(c * PITCH - GAP, g.text * CHAR),
           h |-> LABEL_H + r * PITCH - GAP, n |-> g.n, cols |-> c]
  BY DEF Block
<1> HIDE DEF b, c, r
<1>3. g.n \in Nat /\ g.text \in Nat
  BY DEF Group
<1>4. b.w \in Nat /\ b.w >= c * PITCH - GAP /\ b.h \in Nat /\ b.h >= 2900
  BY <1>1, <1>2, <1>3 DEF Larger, PITCH, TILE, GAP, CHAR, LABEL_H
<1>5. b \in BlockSet
  BY <1>1, <1>2, <1>3, <1>4 DEF BlockSet
<1>6. Cardinality(Tiles(b)) = b.n
  BY <1>1, <1>2, <1>5, TilesCounted
<1>7. x + c * PITCH - GAP <= Smaller(b.x + b.w, width)
  <2>1. x = 0 \/ x + b.w <= width
    BY DEF b
  <2> QED
    BY <1>1, <1>2, <1>4, <2>1 DEF Smaller, PITCH, TILE, GAP
<1>8. ASSUME NEW t \in Tiles(b) PROVE t[1] + TILE <= Smaller(b.x + b.w, width) /\ t[2] + TILE <= b.y + b.h
  <2>1. PICK i \in 0..(g.n - 1) : t = <<x + (i % c) * PITCH, y + LABEL_H + (i \div c) * PITCH>>
    BY <1>2 DEF Tiles
  <2> DEFINE m == i % c  d == i \div c
  <2>2. i \in Nat /\ i < r * c
    BY <1>1, <1>3, <2>1
  <2>3. m \in Nat /\ m < c /\ d \in Nat
    BY <1>1, <2>2, DivMod
  <2>4. d < r
    BY <1>1, <2>2, DivLess
  <2> HIDE DEF m, d
  <2>5. t = <<x + m * PITCH, y + LABEL_H + d * PITCH>>
    BY <2>1 DEF m, d
  <2>6. x + m * PITCH + TILE <= x + c * PITCH - GAP
    BY <1>1, <2>3 DEF PITCH, TILE, GAP
  <2>7. Smaller(b.x + b.w, width) \in Int
    BY <1>2, <1>4 DEF Smaller
  <2>8. x + m * PITCH + TILE <= Smaller(b.x + b.w, width)
    BY <1>1, <1>7, <2>3, <2>6, <2>7 DEF PITCH, TILE, GAP
  <2>9. y + LABEL_H + d * PITCH + TILE <= b.y + b.h
    BY <1>1, <1>2, <2>3, <2>4 DEF PITCH, TILE, GAP, LABEL_H
  <2> QED
    BY <2>5, <2>8, <2>9
<1> QED
  BY <1>2, <1>3, <1>4, <1>5, <1>6, <1>8 DEF GoodBlock, TilesFit, b

-----------------------------------------------------------------------------
(* Lanes: groups in rows.                                                  *)

\* A part of a lane: its blocks are apart, and what comes to the right of at.x, at
\* or below at.y, or below the row, touches none of them.
GoodAt(at, width) ==
  /\ at.x \in Nat /\ at.y \in Nat /\ at.rowH \in Nat /\ at.blocks \in Seq(BlockSet)
  /\ \A i \in DOMAIN at.blocks :
       /\ GoodBlock(at.blocks[i], width)
       /\ at.blocks[i].y + at.blocks[i].h <= at.y + at.rowH
       /\ at.blocks[i].x + at.blocks[i].w <= at.x \/ at.blocks[i].y + at.blocks[i].h <= at.y
  /\ \A i, j \in DOMAIN at.blocks : i # j => Apart(at.blocks[i], at.blocks[j])
  /\ at.blocks = << >> \/ at.y + at.rowH >= 2900

\* A group put into a lane leaves it good, and adds a block with its tiles or, empty, none.
LEMMA PutGood ==
  ASSUME NEW at, NEW width \in Nat, width >= TILE, GoodAt(at, width), NEW g \in Group
  PROVE  /\ GoodAt(Put(at, g, width), width)
         /\ g.n = 0 => Put(at, g, width).blocks = at.blocks
         /\ g.n > 0 => \E b \in BlockSet : b.n = g.n /\ Put(at, g, width).blocks = Append(at.blocks, b)
<1> DEFINE p == Put(at, g, width)
<1>1. CASE g.n = 0
  BY <1>1 DEF Put
<1>2. CASE g.n # 0
  <2>1. g.n \in Nat /\ g.n > 0
    BY <1>2 DEF Group
  <2> DEFINE wraps == at.x > 0 /\ at.x + Block(g, 0, 0, width).w > width
  <2>2. Block(g, at.x, at.y, width).w = Block(g, 0, 0, width).w
    BY DEF Block
  <2> DEFINE nx == IF wraps THEN 0 ELSE at.x
             ny == IF wraps THEN at.y + at.rowH + GROUP_GAP ELSE at.y
             nh == IF wraps THEN 0 ELSE at.rowH
             b == Block(g, nx, ny, width)
  <2>3. p = [x |-> b.x + b.w + GROUP_GAP, y |-> b.y,
             blocks |-> Append(at.blocks, b), rowH |-> Larger(nh, b.h)]
    BY <1>2 DEF Put
  <2>4. at.x \in Nat /\ at.y \in Nat /\ at.rowH \in Nat /\ at.blocks \in Seq(BlockSet)
    BY DEF GoodAt
  <2>5. nx \in Nat /\ ny \in Nat /\ nh \in Nat /\ ny >= at.y
    BY <2>4 DEF GROUP_GAP
  <2>6. nx = 0 \/ nx + Block(g, nx, ny, width).w <= width
    <3>1. Block(g, 0, 0, width).w \in Nat
      <4>1. 0 \in Nat /\ 0 = 0
        OBVIOUS
      <4>2. Block(g, 0, 0, width) \in BlockSet
        BY <2>1, <4>1, BlockGood DEF GoodBlock
      <4> QED
        BY <4>2 DEF BlockSet
    <3> QED
      BY <2>2, <2>4, <3>1
  <2>7. GoodBlock(b, width) /\ b.x = nx /\ b.y = ny /\ b.n = g.n
    BY <2>1, <2>5, <2>6, BlockGood
  <2>8. b \in BlockSet /\ b.w \in Nat /\ b.h \in Nat /\ b.h >= 2900
    BY <2>7 DEF GoodBlock, BlockSet
  <2>9. /\ wraps => nx = 0 /\ ny = at.y + at.rowH + GROUP_GAP /\ nh = 0
        /\ ~wraps => nx = at.x /\ ny = at.y /\ nh = at.rowH
    OBVIOUS
  <2> DEFINE B == at.blocks  C == Append(B, b)  rh == Larger(nh, b.h)
  <2> HIDE DEF wraps, nx, ny, nh, b
  <2>10. /\ C \in Seq(BlockSet) /\ DOMAIN C = 1..(Len(B) + 1) /\ Len(B) \in Nat /\ DOMAIN B = 1..Len(B)
         /\ C[Len(B) + 1] = b /\ \A i \in DOMAIN B : C[i] = B[i]
    BY <2>4, <2>8
  <2>11. rh \in Nat /\ rh >= nh /\ rh >= b.h
    BY <2>5, <2>8 DEF Larger
  <2>12. p.x = nx + b.w + GROUP_GAP /\ p.y = ny /\ p.blocks = C /\ p.rowH = rh
    BY <2>3, <2>7
  <2> HIDE DEF p, C, rh, B
  <2>13. ASSUME NEW i \in DOMAIN B
         PROVE  /\ GoodBlock(B[i], width)
                /\ B[i].y + B[i].h <= at.y + at.rowH
                /\ B[i].x + B[i].w <= at.x \/ B[i].y + B[i].h <= at.y
                /\ B[i].x \in Nat /\ B[i].y \in Nat /\ B[i].w \in Nat /\ B[i].h \in Nat
    <3>1. GoodBlock(B[i], width)
      BY DEF GoodAt, B
    <3>2. B[i] \in BlockSet
      BY <3>1 DEF GoodBlock
    <3>3. /\ B[i].y + B[i].h <= at.y + at.rowH
          /\ B[i].x + B[i].w <= at.x \/ B[i].y + B[i].h <= at.y
      BY DEF GoodAt, B
    <3>4. B[i].x \in Nat /\ B[i].y \in Nat /\ B[i].w \in Nat /\ B[i].h \in Nat
      BY <3>2 DEF BlockSet
    <3> QED
      BY <3>1, <3>3, <3>4
  <2>14. ASSUME NEW i \in DOMAIN B
         PROVE  /\ B[i].y + B[i].h <= ny + rh
                /\ B[i].x + B[i].w <= nx + b.w + GROUP_GAP \/ B[i].y + B[i].h <= ny
                /\ Apart(B[i], b) /\ Apart(b, B[i])
    <3>1. CASE wraps
      <4>1. B[i].y + B[i].h <= at.y + at.rowH /\ B[i].y \in Nat /\ B[i].h \in Nat
        BY <2>13
      <4>2. B[i].y + B[i].h <= ny
        BY <3>1, <4>1, <2>4, <2>9 DEF GROUP_GAP
      <4>3. B[i].y + B[i].h <= ny + rh
        BY <4>1, <4>2, <2>5, <2>11
      <4> QED
        BY <4>2, <4>3, <2>7 DEF Apart
    <3>2. CASE ~wraps
      <4>1. /\ B[i].y + B[i].h <= at.y + at.rowH
            /\ B[i].x + B[i].w <= at.x \/ B[i].y + B[i].h <= at.y
            /\ B[i].x \in Nat /\ B[i].y \in Nat /\ B[i].w \in Nat /\ B[i].h \in Nat
        BY <2>13
      <4>2. nx = at.x /\ ny = at.y /\ nh = at.rowH
        BY <3>2, <2>9
      <4>3. B[i].y + B[i].h <= ny + rh
        BY <4>1, <4>2, <2>4, <2>11
      <4>4. B[i].x + B[i].w <= nx + b.w + GROUP_GAP \/ B[i].y + B[i].h <= ny
        <5>1. nx + b.w + GROUP_GAP >= at.x /\ nx + b.w + GROUP_GAP \in Int
          BY <4>2, <2>4, <2>8 DEF GROUP_GAP
        <5> DEFINE e == nx + b.w + GROUP_GAP
        <5>2. e >= at.x /\ e \in Int
          BY <5>1
        <5> HIDE DEF e
        <5>3. B[i].x + B[i].w <= e \/ B[i].y + B[i].h <= ny
          BY <5>2, <4>1, <4>2, <2>4
        <5> QED
          BY <5>3 DEF e
      <4>5. Apart(B[i], b) /\ Apart(b, B[i])
        BY <4>1, <4>2, <2>7 DEF Apart
      <4> QED
        BY <4>3, <4>4, <4>5
    <3> QED
      BY <3>1, <3>2
  <2>15. /\ b.y + b.h <= ny + rh
         /\ b.x + b.w <= nx + b.w + GROUP_GAP
    BY <2>5, <2>7, <2>8, <2>11 DEF GROUP_GAP
  <2>16. \A i, j \in DOMAIN B : i # j => Apart(B[i], B[j])
    BY DEF GoodAt, B
  <2>17. ASSUME NEW i \in DOMAIN C PROVE i = Len(B) + 1 \/ i \in DOMAIN B
    BY <2>10
  <2>18. ASSUME NEW i \in DOMAIN C
         PROVE  /\ GoodBlock(C[i], width)
                /\ C[i].y + C[i].h <= ny + rh
                /\ C[i].x + C[i].w <= nx + b.w + GROUP_GAP \/ C[i].y + C[i].h <= ny
    BY <2>7, <2>10, <2>13, <2>14, <2>15, <2>17
  <2>19. ASSUME NEW i \in DOMAIN C, NEW j \in DOMAIN C, i # j PROVE Apart(C[i], C[j])
    BY <2>10, <2>14, <2>16, <2>17, <2>19
  <2>20. nx + b.w + GROUP_GAP \in Nat /\ ny + rh >= 2900
    BY <2>5, <2>8, <2>11 DEF GROUP_GAP
  <2>21. GoodAt(p, width)
    BY <2>5, <2>10, <2>11, <2>12, <2>18, <2>19, <2>20 DEF GoodAt
  <2>22. p.blocks = Append(at.blocks, b)
    BY <2>12 DEF C, B
  <2> QED
    BY <1>2, <2>7, <2>8, <2>21, <2>22 DEF p
<1> QED
  BY <1>1, <1>2 DEF Group

\* How many instances there are in a sequence of groups, or blocks, or lanes.
SizesOf(seq) == [i \in DOMAIN seq |-> seq[i].n]
CountOf(seq) == SumOn(SizesOf(seq), DOMAIN seq)

\* The total that the properties speak of.
LEMMA CountIs == ASSUME NEW seq PROVE Total(seq, LAMBDA b : b.n) = CountOf(seq)
<1>1. Total(seq, LAMBDA b : b.n) = Seqs!SumFunction(SizesOf(seq))
  BY DEF Total, Sum, SizesOf
<1>2. DOMAIN SizesOf(seq) = DOMAIN seq
  BY DEF SizesOf
<1> HIDE DEF SizesOf
<1> QED
  BY <1>1, <1>2, SumIsFunction DEF CountOf

\* Sums over an interval, one more element at a time.
LEMMA SumNext ==
  ASSUME NEW n \in Nat, NEW f, NEW g, Sums(g, 1..(n + 1)), \A i \in 1..n : f[i] = g[i]
  PROVE  SumOn(g, 1..(n + 1)) = g[n + 1] + SumOn(f, 1..n)
<1> DEFINE T == 1..n
<1>1. 1..(n + 1) = T \cup {n + 1} /\ n + 1 \notin T
  OBVIOUS
<1>2. \A i \in T : f[i] = g[i]
  OBVIOUS
<1> HIDE DEF T
<1>3. Sums(g, T \cup {n + 1}) /\ Sums(g, T)
  BY <1>1, SumsPart
<1>4. SumOn(g, T \cup {n + 1}) = g[n + 1] + SumOn(g, T)
  BY <1>1, <1>3, SumAdd
<1>5. SumOn(f, T) = SumOn(g, T)
  BY <1>2, <1>3, SumSame
<1> QED
  BY <1>1, <1>4, <1>5 DEF T

\* There are finitely many numbers up to a bound.
LEMMA Finite == ASSUME NEW n \in Nat PROVE IsFiniteSet(1..n) /\ Cardinality(1..n) = n
  BY FS_Interval

\* A block more is its tiles more.
LEMMA CountAppend ==
  ASSUME NEW s, NEW S, s \in Seq(S), \A e \in S : e.n \in Nat, NEW b \in S
  PROVE  CountOf(Append(s, b)) = b.n + CountOf(s)
<1> DEFINE m == Len(s)  c == Append(s, b)
<1>1. /\ m \in Nat /\ DOMAIN s = 1..m /\ DOMAIN c = 1..(m + 1)
      /\ \A i \in 1..m : c[i] = s[i] /\ s[i] \in S
      /\ c[m + 1] = b
  OBVIOUS
<1> HIDE DEF m, c
<1> DEFINE f == SizesOf(s)  g == SizesOf(c)
<1>2. \A i \in 1..m : f[i] = g[i] /\ g[i] \in Nat
  BY <1>1 DEF SizesOf
<1>3. g[m + 1] = b.n
  BY <1>1 DEF SizesOf
<1> HIDE DEF f, g
<1>4. \A i \in 1..(m + 1) : g[i] \in Nat
  BY <1>1, <1>2, <1>3
<1>5. Sums(g, 1..(m + 1))
  <2>1. m + 1 \in Nat
    BY <1>1
  <2> QED
    BY <1>4, <2>1, Finite DEF Sums
<1>6. SumOn(g, 1..(m + 1)) = g[m + 1] + SumOn(f, 1..m)
  BY <1>1, <1>2, <1>5, SumNext
<1> QED
  BY <1>1, <1>3, <1>6 DEF CountOf, f, g, c

-----------------------------------------------------------------------------
\* A sequence of groups, and one step of laying them out.
Groups(groups) ==
  Len(groups) \in Nat /\ DOMAIN groups = 1..Len(groups) /\ \A k \in 1..Len(groups) : groups[k] \in Group

LaneStep(f, groups, width, k) ==
  IF k = 0 THEN [x |-> 0, y |-> 0, blocks |-> << >>, rowH |-> 0]
  ELSE Put(f[k - 1], groups[k], width)

\* The recursion of layoutLane is well-defined.
LEMMA LaneIs ==
  ASSUME NEW groups, Len(groups) \in Nat, NEW width
  PROVE  \E f : /\ f = [k \in 0..Len(groups) |-> LaneStep(f, groups, width, k)]
                /\ LayoutLane(groups, width) = f[Len(groups)]
<1> DEFINE N == Len(groups)
           S == {m \in Nat : \E f : f = [k \in 0..m |-> LaneStep(f, groups, width, k)]}
<1>1. 0 \in S
  <2> DEFINE f == [k \in 0..0 |-> [x |-> 0, y |-> 0, blocks |-> << >>, rowH |-> 0]]
  <2>1. f = [k \in 0..0 |-> LaneStep(f, groups, width, k)]
    BY DEF LaneStep
  <2> QED
    BY <2>1
<1>2. ASSUME NEW m \in Nat, m \in S PROVE m + 1 \in S
  <2>1. PICK f : f = [k \in 0..m |-> LaneStep(f, groups, width, k)]
    BY <1>2
  <2> DEFINE g == [k \in 0..m + 1 |-> LaneStep(f, groups, width, k)]
  <2>2. ASSUME NEW k \in 0..m + 1 PROVE LaneStep(f, groups, width, k) = LaneStep(g, groups, width, k)
    <3>1. CASE k = 0
      BY <3>1 DEF LaneStep
    <3>2. CASE k # 0
      <4>1. k - 1 \in 0..m /\ k - 1 \in 0..m + 1
        BY <3>2
      <4>2. f[k - 1] = LaneStep(f, groups, width, k - 1)
        BY <4>1, <2>1
      <4>3. g[k - 1] = LaneStep(f, groups, width, k - 1)
        BY <4>1
      <4> HIDE DEF g
      <4> QED
        BY <4>2, <4>3 DEF LaneStep
    <3> QED
      BY <3>1, <3>2
  <2>3. g = [k \in 0..m + 1 |-> LaneStep(g, groups, width, k)]
    BY <2>2, Zenon
  <2> HIDE DEF g
  <2> QED
    BY <2>3
<1>3. N \in S
  <2> HIDE DEF S
  <2> QED
    BY <1>1, <1>2, Ind
<1>4. \E f : f = [k \in 0..N |-> LaneStep(f, groups, width, k)]
  BY <1>3
<1> DEFINE F == CHOOSE f : f = [k \in 0..N |-> LaneStep(f, groups, width, k)]
<1>5. F = [k \in 0..N |-> LaneStep(F, groups, width, k)]
  BY <1>4
<1>6. LayoutLane(groups, width) = F[N]
  BY DEF LayoutLane, LaneStep
<1> QED
  BY <1>5, <1>6

\* A lane has its blocks apart, and in them every instance of its groups.
LEMMA LaneHolds ==
  ASSUME NEW groups, Groups(groups), NEW width \in Nat, width >= TILE
  PROVE  LET laid == LayoutLane(groups, width) IN
         GoodAt(laid, width) /\ CountOf(laid.blocks) = CountOf(groups)
<1> DEFINE N == Len(groups)
<1>1. N \in Nat /\ DOMAIN groups = 1..N /\ \A k \in 1..N : groups[k] \in Group
  BY DEF Groups
<1>2. PICK f : f = [k \in 0..N |-> LaneStep(f, groups, width, k)] /\ LayoutLane(groups, width) = f[N]
  BY <1>1, LaneIs
<1> HIDE DEF N
<1> DEFINE K == {k \in Nat :
                  k <= N => GoodAt(f[k], width) /\ CountOf(f[k].blocks) = SumOn(SizesOf(groups), 1..k)}
<1>3. 0 \in K
  <2>1. f[0] = [x |-> 0, y |-> 0, blocks |-> << >>, rowH |-> 0]
    BY <1>1, <1>2 DEF LaneStep
  <2>2. GoodAt(f[0], width)
    BY <2>1 DEF GoodAt
  <2>3. DOMAIN << >> = {} /\ 1..0 = {}
    OBVIOUS
  <2>4. CountOf(f[0].blocks) = SumOn(SizesOf(groups), 1..0)
    BY <2>1, <2>3, SumEmpty DEF CountOf
  <2> QED
    BY <2>2, <2>4
<1>4. ASSUME NEW k \in Nat, k \in K PROVE k + 1 \in K
  <2> SUFFICES ASSUME k + 1 <= N
               PROVE  GoodAt(f[k + 1], width) /\ CountOf(f[k + 1].blocks) = SumOn(SizesOf(groups), 1..(k + 1))
    OBVIOUS
  <2>1. GoodAt(f[k], width) /\ CountOf(f[k].blocks) = SumOn(SizesOf(groups), 1..k)
    BY <1>1, <1>4
  <2> DEFINE g == groups[k + 1]
  <2>2. g \in Group /\ f[k + 1] = Put(f[k], g, width)
    BY <1>1, <1>2 DEF LaneStep
  <2> HIDE DEF g
  <2>3. /\ GoodAt(f[k + 1], width)
        /\ g.n = 0 => f[k + 1].blocks = f[k].blocks
        /\ g.n > 0 => \E b \in BlockSet : b.n = g.n /\ f[k + 1].blocks = Append(f[k].blocks, b)
    <3> DEFINE at == f[k]
    <3>1. GoodAt(at, width)
      BY <2>1
    <3> HIDE DEF at
    <3>2. /\ GoodAt(Put(at, g, width), width)
          /\ g.n = 0 => Put(at, g, width).blocks = at.blocks
          /\ g.n > 0 => \E b \in BlockSet : b.n = g.n /\ Put(at, g, width).blocks = Append(at.blocks, b)
      BY <2>2, <3>1, PutGood
    <3> QED
      BY <2>2, <3>2 DEF at
  <2>4. f[k].blocks \in Seq(BlockSet) /\ \A b \in BlockSet : b.n \in Nat
    BY <2>1 DEF GoodAt, BlockSet
  <2>5. CountOf(f[k + 1].blocks) = g.n + CountOf(f[k].blocks)
    <3>1. CASE g.n = 0
      <4>1. CountOf(f[k].blocks) \in Nat
        <5> DEFINE s == f[k].blocks
        <5>1. Len(s) \in Nat /\ DOMAIN s = 1..Len(s) /\ \A i \in DOMAIN s : s[i].n \in Nat
          BY <2>4
        <5>2. Sums(SizesOf(s), DOMAIN s)
          BY <5>1, Finite DEF Sums, SizesOf
        <5> QED
          BY <5>2, SumNat DEF CountOf
      <4> QED
        BY <3>1, <2>3, <4>1
    <3>2. CASE g.n > 0
      <4>1. PICK b \in BlockSet : b.n = g.n /\ f[k + 1].blocks = Append(f[k].blocks, b)
        BY <3>2, <2>3
      <4>2. CountOf(Append(f[k].blocks, b)) = b.n + CountOf(f[k].blocks)
        BY <2>4, CountAppend
      <4> QED
        BY <4>1, <4>2
    <3> QED
      BY <2>2, <3>1, <3>2 DEF Group
  <2>6. SumOn(SizesOf(groups), 1..(k + 1)) = g.n + SumOn(SizesOf(groups), 1..k)
    <3> DEFINE e == SizesOf(groups)
    <3>1. \A i \in 1..N : e[i] = groups[i].n /\ groups[i].n \in Nat
      BY <1>1 DEF SizesOf, Group
    <3>2. \A i \in 1..(k + 1) : e[i] \in Nat
      BY <1>1, <3>1
    <3>3. e[k + 1] = g.n
      BY <1>1, <3>1 DEF g
    <3> HIDE DEF e
    <3>4. Sums(e, 1..(k + 1))
      <4>1. k + 1 \in Nat
        OBVIOUS
      <4> QED
        BY <3>2, <4>1, Finite DEF Sums
    <3>5. SumOn(e, 1..(k + 1)) = e[k + 1] + SumOn(e, 1..k)
      BY <3>4, SumNext
    <3> QED
      BY <3>3, <3>5 DEF e
  <2> QED
    BY <2>1, <2>3, <2>5, <2>6
<1>5. N \in K
  <2> HIDE DEF K
  <2> QED
    BY <1>1, <1>3, <1>4, Ind
<1> QED
  BY <1>1, <1>2, <1>5 DEF CountOf

-----------------------------------------------------------------------------
(* Machines: lanes one below the other.                                    *)

\* The lanes of both maps.
LaneIds == Seqs!ToSet(LANES) \cup Seqs!ToSet(POLICY_LANES)
LaneSet == [host : Hosts2, id : LaneIds, y : Nat, h : Nat, blocks : Seq(BlockSet), count : Nat, anchorY : Nat]

\* A lane shows the instances of its groups, one at least.
GoodLane(l, groupsOf, width) ==
  /\ l.h >= 7100 /\ l.count > 0
  /\ l.id \in DOMAIN groupsOf[l.host] /\ l.count = CountOf(groupsOf[l.host][l.id])
  /\ LaneFits(l, width) /\ l.count = CountOf(l.blocks)

\* Lanes one below the other, and what comes at at.y comes below them.
GoodLanes(at, groupsOf, width) ==
  /\ at.y \in Nat /\ at.lanes \in Seq(LaneSet)
  /\ \A i \in DOMAIN at.lanes :
       GoodLane(at.lanes[i], groupsOf, width) /\ at.lanes[i].y + at.lanes[i].h < at.y
  /\ \A i, j \in DOMAIN at.lanes : i < j => at.lanes[i].y + at.lanes[i].h < at.lanes[j].y

\* What is counted in blocks, or in groups, is a natural.
LEMMA CountNat == ASSUME NEW s, NEW S, s \in Seq(S), \A e \in S : e.n \in Nat
                  PROVE Sums(SizesOf(s), DOMAIN s) /\ CountOf(s) \in Nat
<1>1. Len(s) \in Nat /\ DOMAIN s = 1..Len(s) /\ \A i \in DOMAIN s : s[i].n \in Nat
  OBVIOUS
<1>2. Sums(SizesOf(s), DOMAIN s)
  BY <1>1, Finite DEF Sums, SizesOf
<1> QED
  BY <1>2, SumNat DEF CountOf

LEMMA GroupsCount ==
  ASSUME NEW groups, Groups(groups)
  PROVE  Sums(SizesOf(groups), DOMAIN groups) /\ CountOf(groups) \in Nat
<1>1. Len(groups) \in Nat /\ DOMAIN groups = 1..Len(groups) /\ \A i \in DOMAIN groups : groups[i].n \in Nat
  BY DEF Groups, Group
<1>2. Sums(SizesOf(groups), DOMAIN groups)
  BY <1>1, Finite DEF Sums, SizesOf
<1> QED
  BY <1>2, SumNat DEF CountOf

\* There are blocks exactly where there are instances.
LEMMA BlocksCount ==
  ASSUME NEW s \in Seq(BlockSet), \A i \in DOMAIN s : s[i].n > 0
  PROVE  CountOf(s) = 0 <=> s = << >>
<1>1. \A b \in BlockSet : b.n \in Nat
  BY DEF BlockSet
<1>2. Sums(SizesOf(s), DOMAIN s) /\ CountOf(s) \in Nat
  BY <1>1, CountNat
<1>3. CASE s = << >>
  <2>1. DOMAIN s = {}
    BY <1>3
  <2> QED
    BY <1>3, <2>1, SumEmpty DEF CountOf
<1>4. CASE s # << >>
  <2>1. 1 \in DOMAIN s
    BY <1>4
  <2> DEFINE e == SizesOf(s)
  <2>2. e[1] = s[1].n /\ s[1].n \in Nat /\ s[1].n > 0
    BY <1>1, <2>1 DEF SizesOf
  <2> HIDE DEF e
  <2>3. Sums(e, DOMAIN s)
    BY <1>2 DEF e
  <2>4. SumOn(e, DOMAIN s) = e[1] + SumOn(e, DOMAIN s \ {1})
    BY <2>1, <2>3, SumSplit
  <2>5. SumOn(e, DOMAIN s \ {1}) \in Nat
    BY <2>3, SumsPart, SumNat
  <2>6. CountOf(s) > 0
    BY <2>2, <2>4, <2>5 DEF CountOf, e
  <2> QED
    BY <1>4, <2>6, <1>2
<1> QED
  BY <1>3, <1>4

\* A lane of n instances has been added, unless there are none.
Added(at, p, h, id, n) ==
  IF n = 0 THEN p = at
  ELSE /\ p.y >= at.y + 7900
       /\ \E l \in LaneSet : l.host = h /\ l.id = id /\ l.y = at.y /\ l.count = n
                           /\ p.lanes = Append(at.lanes, l)

\* A lane more leaves the lanes good, and counts as many as its groups have.
LEMMA AddLaneGood ==
  ASSUME NEW at, NEW groupsOf, NEW width \in Nat, width >= TILE, GoodLanes(at, groupsOf, width),
         NEW h \in Hosts2, NEW id \in LaneIds, id \in DOMAIN groupsOf[h], Groups(groupsOf[h][id])
  PROVE  /\ GoodLanes(AddLane(at, h, id, groupsOf[h][id], LayoutLane(groupsOf[h][id], width)), groupsOf, width)
         /\ Added(at, AddLane(at, h, id, groupsOf[h][id], LayoutLane(groupsOf[h][id], width)), h, id,
                  CountOf(groupsOf[h][id]))
<1> DEFINE groups == groupsOf[h][id]  n == CountOf(groups)  laid == LayoutLane(groups, width)  B == laid.blocks
           p == AddLane(at, h, id, groups, laid)
<1>1. GoodAt(laid, width) /\ CountOf(B) = n
  BY LaneHolds
<1>2. n \in Nat
  BY GroupsCount
<1>3. Total(groups, LAMBDA g : g.n) = n
  BY CountIs
<1>4. B = << >> <=> n = 0
  <2>1. B \in Seq(BlockSet) /\ \A i \in DOMAIN B : B[i].n > 0
    BY <1>1 DEF GoodAt, GoodBlock
  <2> HIDE DEF B
  <2> QED
    BY <1>1, <2>1, BlocksCount
<1>5. CASE n = 0
  <2>1. p = at
    BY <1>4, <1>5 DEF AddLane
  <2> QED
    BY <1>5, <2>1 DEF Added
<1>6. CASE n # 0
  <2> DEFINE height == LANE_HEAD + laid.y + laid.rowH + LANE_PAD
             l == [host |-> h, id |-> id, y |-> at.y, h |-> height, blocks |-> B,
                   count |-> n, anchorY |-> at.y + height \div 2]
  <2>1. p.y = at.y + height + 800 /\ p.lanes = Append(at.lanes, l)
    BY <1>3, <1>4, <1>6 DEF AddLane
  <2>2. laid.y \in Nat /\ laid.rowH \in Nat /\ laid.y + laid.rowH >= 2900 /\ B \in Seq(BlockSet)
    BY <1>1, <1>4, <1>6 DEF GoodAt
  <2>3. height \in Nat /\ height >= 7100 /\ height = LANE_HEAD + laid.y + laid.rowH + LANE_PAD
    <3>1. laid.y \in Nat /\ laid.rowH \in Nat /\ laid.y + laid.rowH >= 2900
      BY <2>2
    <3> QED
      BY <3>1 DEF LANE_HEAD, LANE_PAD
  <2>4. at.y \in Nat /\ at.lanes \in Seq(LaneSet)
    BY DEF GoodLanes
  <2>5. \A i \in DOMAIN B : TilesFit(B[i], width) /\ LANE_HEAD + B[i].y + B[i].h <= height
    <3> SUFFICES ASSUME NEW i \in DOMAIN B
                 PROVE  TilesFit(B[i], width) /\ LANE_HEAD + B[i].y + B[i].h <= height
      OBVIOUS
    <3>1. GoodBlock(B[i], width) /\ B[i].y + B[i].h <= laid.y + laid.rowH
      BY <1>1 DEF GoodAt
    <3> HIDE DEF B, laid, height
    <3>2. TilesFit(B[i], width) /\ B[i].y \in Nat /\ B[i].h \in Nat
      BY <3>1 DEF GoodBlock, BlockSet
    <3>3. LANE_HEAD + B[i].y + B[i].h <= height
      <4>1. laid.y \in Nat /\ laid.rowH \in Nat /\ B[i].y + B[i].h <= laid.y + laid.rowH
        BY <2>2, <3>1
      <4>2. height = LANE_HEAD + laid.y + laid.rowH + LANE_PAD /\ height \in Nat
        BY <2>3
      <4> QED
        BY <3>2, <4>1, <4>2 DEF LANE_HEAD, LANE_PAD
    <3> QED
      BY <3>2, <3>3
  <2>6. \A i, j \in DOMAIN B : i # j => Apart(B[i], B[j])
    BY <1>1 DEF GoodAt
  <2>61. n > 0 /\ n = CountOf(groupsOf[h][id]) /\ n = CountOf(B)
    <3>1. n = CountOf(groupsOf[h][id])
      OBVIOUS
    <3> HIDE DEF n
    <3> QED
      BY <1>1, <1>2, <1>6, <3>1
  <2> HIDE DEF height, B, laid, n, p, groups
  <2>7. l \in LaneSet
    <3>1. at.y + height \div 2 \in Nat
      BY <2>3, <2>4
    <3> QED
      BY <1>2, <2>2, <2>3, <2>4, <3>1 DEF LaneSet
  <2>8. GoodLane(l, groupsOf, width)
    <3>1. LaneFits(l, width)
      BY <2>5, <2>6 DEF LaneFits
    <3>2. /\ l.h = height /\ l.count = n /\ l.host = h /\ l.id = id /\ l.blocks = B
      OBVIOUS
    <3> HIDE DEF l
    <3>3. l.h >= 7100 /\ l.count > 0
      BY <2>3, <2>61, <3>2
    <3>4. /\ l.id \in DOMAIN groupsOf[l.host] /\ l.count = CountOf(groupsOf[l.host][l.id])
          /\ l.count = CountOf(l.blocks)
      BY <2>61, <3>2
    <3> QED
      BY <3>1, <3>3, <3>4 DEF GoodLane
  <2>9. l.host = h /\ l.id = id /\ l.y = at.y /\ l.h = height /\ l.count = n
    OBVIOUS
  <2> HIDE DEF l
  <2> DEFINE L == at.lanes  C == p.lanes
  <2>10. /\ C \in Seq(LaneSet) /\ DOMAIN C = 1..(Len(L) + 1) /\ Len(L) \in Nat /\ DOMAIN L = 1..Len(L)
         /\ C[Len(L) + 1] = l /\ \A i \in DOMAIN L : C[i] = L[i]
    BY <2>1, <2>4, <2>7
  <2>11. \A i \in DOMAIN L : /\ GoodLane(L[i], groupsOf, width) /\ L[i].y + L[i].h < at.y
                            /\ L[i].y \in Nat /\ L[i].h \in Nat
    <3>1. \A i \in DOMAIN L : L[i] \in LaneSet
      BY <2>4
    <3> QED
      BY <3>1 DEF GoodLanes, LaneSet
  <2>12. \A i, j \in DOMAIN L : i < j => L[i].y + L[i].h < L[j].y
    BY DEF GoodLanes
  <2> HIDE DEF L, C
  <2>13. p.y \in Nat /\ p.y >= at.y + 7900 /\ p.y > at.y + height
    BY <2>1, <2>3, <2>4
  <2>14. ASSUME NEW i \in DOMAIN C PROVE GoodLane(C[i], groupsOf, width) /\ C[i].y + C[i].h < p.y
    <3>1. CASE i \in DOMAIN L
      <4>1. L[i].y + L[i].h < p.y
        BY <2>4, <2>3, <2>11, <2>13, <3>1
      <4> QED
        BY <3>1, <4>1, <2>10, <2>11
    <3>2. CASE i = Len(L) + 1
      BY <3>2, <2>8, <2>9, <2>10, <2>13
    <3> QED
      BY <3>1, <3>2, <2>10
  <2>15. ASSUME NEW i \in DOMAIN C, NEW j \in DOMAIN C, i < j PROVE C[i].y + C[i].h < C[j].y
    <3>1. i \in DOMAIN L
      BY <2>10, <2>15
    <3>2. CASE j \in DOMAIN L
      BY <2>10, <2>12, <2>15, <3>1, <3>2
    <3>3. CASE j = Len(L) + 1
      BY <2>9, <2>10, <2>11, <3>1, <3>3
    <3> QED
      BY <3>2, <3>3, <2>10
  <2>16. GoodLanes(p, groupsOf, width)
    BY <2>10, <2>13, <2>14, <2>15 DEF GoodLanes, C
  <2>17. n > 0
    BY <1>2, <1>6
  <2>18. Added(at, p, h, id, n)
    BY <2>1, <2>7, <2>9, <2>13, <2>17 DEF Added
  <2> QED
    BY <2>16, <2>18 DEF p, n, groups, laid
<1> QED
  BY <1>5, <1>6

\* One step of laying out the lanes of a machine.
HostStep(f, at, h, ids, groupsOf, width, k) ==
  IF k = 0 THEN [y |-> at.y, lanes |-> at.lanes]
  ELSE AddLane(f[k - 1], h, ids[k], groupsOf[h][ids[k]], LayoutLane(groupsOf[h][ids[k]], width))

\* So is the recursion over the lanes of a machine.
LEMMA HostIs ==
  ASSUME NEW at, NEW h, NEW ids, Len(ids) \in Nat, NEW groupsOf, NEW width
  PROVE  \E f : /\ f = [k \in 0..Len(ids) |-> HostStep(f, at, h, ids, groupsOf, width, k)]
                /\ HostLanes(at, h, ids, groupsOf, width) = f[Len(ids)]
<1> DEFINE N == Len(ids)
           Step(f, k) == HostStep(f, at, h, ids, groupsOf, width, k)
           S == {m \in Nat : \E f : f = [k \in 0..m |-> Step(f, k)]}
<1>1. 0 \in S
  <2> DEFINE f == [k \in 0..0 |-> [y |-> at.y, lanes |-> at.lanes]]
  <2>1. f = [k \in 0..0 |-> Step(f, k)]
    BY DEF HostStep
  <2> QED
    BY <2>1
<1>2. ASSUME NEW m \in Nat, m \in S PROVE m + 1 \in S
  <2>1. PICK f : f = [k \in 0..m |-> Step(f, k)]
    BY <1>2
  <2> DEFINE g == [k \in 0..m + 1 |-> Step(f, k)]
  <2>2. ASSUME NEW k \in 0..m + 1 PROVE Step(f, k) = Step(g, k)
    <3>1. CASE k = 0
      BY <3>1 DEF HostStep
    <3>2. CASE k # 0
      <4>1. k - 1 \in 0..m /\ k - 1 \in 0..m + 1
        BY <3>2
      <4>2. f[k - 1] = Step(f, k - 1)
        BY <4>1, <2>1
      <4>3. g[k - 1] = Step(f, k - 1)
        BY <4>1
      <4> HIDE DEF g
      <4> QED
        BY <4>2, <4>3 DEF HostStep
    <3> QED
      BY <3>1, <3>2
  <2>3. g = [k \in 0..m + 1 |-> Step(g, k)]
    BY <2>2, Zenon
  <2> HIDE DEF g
  <2> QED
    BY <2>3
<1>3. N \in S
  <2> HIDE DEF S
  <2> QED
    BY <1>1, <1>2, Ind
<1>4. \E f : f = [k \in 0..N |-> Step(f, k)]
  BY <1>3
<1> DEFINE F == CHOOSE f : f = [k \in 0..N |-> Step(f, k)]
<1>5. F = [k \in 0..N |-> Step(F, k)]
  BY <1>4
<1>6. HostLanes(at, h, ids, groupsOf, width) = F[N]
  BY DEF HostLanes, HostStep
<1> QED
  BY <1>5, <1>6

\* How many instances there are in a sequence of lanes.
CountsOf(lanes) == [i \in DOMAIN lanes |-> lanes[i].count]
InLanes(lanes) == SumOn(CountsOf(lanes), DOMAIN lanes)

\* The total that the properties speak of.
LEMMA InLanesIs == ASSUME NEW lanes PROVE Total(lanes, LAMBDA l : l.count) = InLanes(lanes)
<1>1. Total(lanes, LAMBDA l : l.count) = Seqs!SumFunction(CountsOf(lanes))
  BY DEF Total, Sum, CountsOf
<1>2. DOMAIN CountsOf(lanes) = DOMAIN lanes
  BY DEF CountsOf
<1> HIDE DEF CountsOf
<1> QED
  BY <1>1, <1>2, SumIsFunction DEF InLanes

\* What is counted in lanes is a natural.
LEMMA LanesSums ==
  ASSUME NEW lanes \in Seq(LaneSet)
  PROVE  Sums(CountsOf(lanes), DOMAIN lanes) /\ InLanes(lanes) \in Nat
<1>1. Len(lanes) \in Nat /\ DOMAIN lanes = 1..Len(lanes) /\ \A i \in DOMAIN lanes : lanes[i] \in LaneSet
  OBVIOUS
<1>2. \A i \in DOMAIN lanes : lanes[i].count \in Nat
  BY <1>1 DEF LaneSet
<1>3. Sums(CountsOf(lanes), DOMAIN lanes)
  BY <1>1, <1>2, Finite DEF Sums, CountsOf
<1> QED
  BY <1>3, SumNat DEF InLanes

\* A lane more is its instances more.
LEMMA LanesAppend ==
  ASSUME NEW s \in Seq(LaneSet), NEW l \in LaneSet
  PROVE  InLanes(Append(s, l)) = l.count + InLanes(s)
<1> DEFINE m == Len(s)  c == Append(s, l)
<1>1. /\ m \in Nat /\ DOMAIN s = 1..m /\ DOMAIN c = 1..(m + 1) /\ c \in Seq(LaneSet)
      /\ \A i \in 1..m : c[i] = s[i]
      /\ c[m + 1] = l
  OBVIOUS
<1> HIDE DEF m, c
<1> DEFINE f == CountsOf(s)  g == CountsOf(c)
<1>2. \A i \in 1..m : f[i] = g[i]
  BY <1>1 DEF CountsOf
<1>3. g[m + 1] = l.count
  BY <1>1 DEF CountsOf
<1> HIDE DEF f, g
<1>5. Sums(g, 1..(m + 1))
  BY <1>1, LanesSums DEF g
<1>6. SumOn(g, 1..(m + 1)) = g[m + 1] + SumOn(f, 1..m)
  BY <1>1, <1>2, <1>5, SumNext
<1> QED
  BY <1>1, <1>3, <1>6 DEF InLanes, f, g, c

\* The least room that n lanes take.
Room(n) == 7900 * n

\* What lanes of a machine came to those there were.
AddedFrom(at, p, h, a, m) ==
  /\ m >= a
  /\ \A i \in 1..a : p.lanes[i] = at.lanes[i]
  /\ \A i \in (a + 1)..m : p.lanes[i].host = h /\ p.lanes[i].y >= at.y
  /\ p.y >= at.y + Room(m - a)
\* What the lanes of a machine add to the picture.
LanesAdded(at, p, h) == AddedFrom(at, p, h, Len(at.lanes), Len(p.lanes))

\* How many instances the lanes of a machine show.
PerLane(h, ids, groupsOf) == [k \in DOMAIN ids |-> CountOf(groupsOf[h][ids[k]])]

\* Every lane of every machine has its groups.
AllGroups(ids, groupsOf) ==
  /\ Len(ids) \in Nat /\ DOMAIN ids = 1..Len(ids)
  /\ \A k \in 1..Len(ids) : ids[k] \in LaneIds
  /\ \A h \in Hosts2 : \A k \in 1..Len(ids) : ids[k] \in DOMAIN groupsOf[h] /\ Groups(groupsOf[h][ids[k]])

\* These are naturals.
LEMMA PerLaneSums ==
  ASSUME NEW ids, NEW groupsOf, AllGroups(ids, groupsOf), NEW h \in Hosts2
  PROVE  Sums(PerLane(h, ids, groupsOf), 1..Len(ids))
<1>1. \A k \in 1..Len(ids) : PerLane(h, ids, groupsOf)[k] = CountOf(groupsOf[h][ids[k]])
  BY DEF AllGroups, PerLane
<1>2. \A k \in 1..Len(ids) : CountOf(groupsOf[h][ids[k]]) \in Nat
  BY GroupsCount DEF AllGroups
<1>3. IsFiniteSet(1..Len(ids))
  BY Finite DEF AllGroups
<1> QED
  BY <1>1, <1>2, <1>3 DEF Sums

\* The lanes of a machine, laid out, are good, and count all of the machine's instances.
LEMMA HostGood ==
  ASSUME NEW at, NEW groupsOf, NEW ids, NEW width \in Nat, width >= TILE, GoodLanes(at, groupsOf, width),
         AllGroups(ids, groupsOf), NEW h \in Hosts2
  PROVE  LET p == HostLanes(at, h, ids, groupsOf, width) IN
         /\ GoodLanes(p, groupsOf, width) /\ LanesAdded(at, p, h)
         /\ InLanes(p.lanes) = InLanes(at.lanes) + SumOn(PerLane(h, ids, groupsOf), 1..Len(ids))
<1> DEFINE N == Len(ids)  E == PerLane(h, ids, groupsOf)  base == InLanes(at.lanes)
           Good(p, k) == /\ GoodLanes(p, groupsOf, width) /\ LanesAdded(at, p, h)
                         /\ InLanes(p.lanes) = base + SumOn(E, 1..k)
<1>1. N \in Nat
  BY DEF AllGroups
<1>2. PICK f : /\ f = [k \in 0..N |-> HostStep(f, at, h, ids, groupsOf, width, k)]
               /\ HostLanes(at, h, ids, groupsOf, width) = f[N]
  BY <1>1, HostIs
<1>3. Sums(E, 1..N)
  BY PerLaneSums
<1>4. base \in Nat /\ at.y \in Nat /\ at.lanes \in Seq(LaneSet)
  BY LanesSums DEF GoodLanes
<1>5. \A k \in 1..N : E[k] = CountOf(groupsOf[h][ids[k]]) /\ E[k] \in Nat
  BY <1>3 DEF AllGroups, PerLane, Sums
<1> HIDE DEF N, E, base
<1>6. Good(f[0], 0)
  <2> DEFINE p == f[0]
  <2>1. p.y = at.y /\ p.lanes = at.lanes
    BY <1>1, <1>2 DEF HostStep
  <2> HIDE DEF p
  <2>2. GoodLanes(p, groupsOf, width)
    BY <2>1 DEF GoodLanes
  <2>3. LanesAdded(at, p, h)
    <3>1. Room(Len(at.lanes) - Len(at.lanes)) = 0
      BY <1>4 DEF Room
    <3> QED
      BY <2>1, <1>4, <3>1 DEF LanesAdded, AddedFrom
  <2>4. SumOn(E, 1..0) = 0
    <3>1. 1..0 = {}
      OBVIOUS
    <3> QED
      BY <3>1, SumEmpty
  <2>5. InLanes(p.lanes) = base + 0
    BY <2>1, <1>4 DEF base
  <2> QED
    BY <2>2, <2>3, <2>4, <2>5 DEF p
<1>7. ASSUME NEW k \in Nat, k + 1 <= N, Good(f[k], k) PROVE Good(f[k + 1], k + 1)
  <2> DEFINE p == f[k]  q == f[k + 1]  id == ids[k + 1]
  <2>1. q = AddLane(p, h, id, groupsOf[h][id], LayoutLane(groupsOf[h][id], width))
    BY <1>1, <1>2, <1>7 DEF HostStep
  <2>2. id \in LaneIds /\ id \in DOMAIN groupsOf[h] /\ Groups(groupsOf[h][id])
    BY <1>1, <1>7 DEF AllGroups, N
  <2>3. E[k + 1] = CountOf(groupsOf[h][id]) /\ E[k + 1] \in Nat
    BY <1>1, <1>5, <1>7
  <2>4. GoodLanes(p, groupsOf, width) /\ LanesAdded(at, p, h) /\ InLanes(p.lanes) = base + SumOn(E, 1..k)
    BY <1>7
  <2> HIDE DEF p, q, id
  <2>5. /\ GoodLanes(q, groupsOf, width)
        /\ E[k + 1] = 0 => q = p
        /\ E[k + 1] > 0 => /\ q.y >= p.y + 7900
                           /\ \E l \in LaneSet : /\ l.host = h /\ l.id = id /\ l.y = p.y /\ l.count = E[k + 1]
                                                 /\ q.lanes = Append(p.lanes, l)
    <3>1. GoodLanes(q, groupsOf, width) /\ Added(p, q, h, id, E[k + 1])
      BY <2>1, <2>2, <2>3, <2>4, AddLaneGood
    <3> QED
      BY <3>1, <2>3 DEF Added
  <2>6. Sums(E, 1..(k + 1))
    <3>1. 1..(k + 1) \subseteq 1..N
      BY <1>1, <1>7
    <3> QED
      BY <3>1, <1>3, SumsPart
  <2>7. SumOn(E, 1..(k + 1)) = E[k + 1] + SumOn(E, 1..k) /\ SumOn(E, 1..k) \in Nat
    <3>1. 1..k \subseteq 1..(k + 1)
      OBVIOUS
    <3>2. Sums(E, 1..k)
      BY <3>1, <2>6, SumsPart
    <3> QED
      BY <2>6, <3>2, SumNext, SumNat
  <2>8. CASE E[k + 1] = 0
    <3>1. SumOn(E, 1..(k + 1)) = SumOn(E, 1..k)
      BY <2>7, <2>8
    <3> QED
      BY <2>4, <2>5, <2>8, <3>1 DEF p, q
  <2>9. CASE E[k + 1] # 0
    <3>1. E[k + 1] > 0
      BY <2>3, <2>9
    <3>2. PICK l \in LaneSet : /\ l.host = h /\ l.id = id /\ l.y = p.y /\ l.count = E[k + 1]
                               /\ q.lanes = Append(p.lanes, l)
      BY <2>5, <3>1
    <3>3. p.lanes \in Seq(LaneSet) /\ p.y \in Nat /\ q.y \in Nat
      BY <2>4, <2>5 DEF GoodLanes
    <3>4. InLanes(q.lanes) = l.count + InLanes(p.lanes)
      BY <3>2, <3>3, LanesAppend
    <3>5. InLanes(q.lanes) = base + SumOn(E, 1..(k + 1))
      BY <1>4, <2>3, <2>4, <2>7, <3>2, <3>4
    <3>6. LanesAdded(at, q, h)
      <4> DEFINE a == Len(at.lanes)  m == Len(p.lanes)
      <4>1. a \in Nat /\ m \in Nat /\ Len(q.lanes) = m + 1 /\ q.lanes[m + 1] = l
            /\ \A i \in 1..m : q.lanes[i] = p.lanes[i]
        BY <1>4, <3>2, <3>3
      <4>2. /\ m >= a
            /\ \A i \in 1..a : p.lanes[i] = at.lanes[i]
            /\ \A i \in (a + 1)..m : p.lanes[i].host = h /\ p.lanes[i].y >= at.y
            /\ p.y >= at.y + Room(m - a)
        BY <2>4 DEF LanesAdded, AddedFrom
      <4> HIDE DEF a, m
      <4>3. \A i \in 1..a : q.lanes[i] = at.lanes[i]
        BY <4>1, <4>2
      <4>4. p.y >= at.y
        BY <1>4, <3>3, <4>1, <4>2 DEF Room
      <4>5. ASSUME NEW i \in (a + 1)..(m + 1) PROVE q.lanes[i].host = h /\ q.lanes[i].y >= at.y
        <5>1. CASE i = m + 1
          BY <4>1, <4>4, <3>2, <5>1
        <5>2. CASE i # m + 1
          <6>1. i \in (a + 1)..m /\ i \in 1..m
            BY <4>1, <5>2
          <6> QED
            BY <4>1, <4>2, <6>1
        <5> QED
          BY <5>1, <5>2
      <4>6. q.y >= at.y + Room((m + 1) - a)
        <5>1. q.y >= p.y + 7900 /\ p.y >= at.y + Room(m - a)
          BY <2>5, <3>1, <4>2
        <5>2. Room((m + 1) - a) = Room(m - a) + 7900 /\ Room(m - a) \in Int
          BY <4>1 DEF Room
        <5> QED
          BY <1>4, <3>3, <5>1, <5>2
      <4>7. m + 1 >= a /\ Len(q.lanes) = m + 1
        BY <4>1, <4>2
      <4>8. AddedFrom(at, q, h, a, m + 1)
        <5>1. \A i \in (a + 1)..(m + 1) : q.lanes[i].host = h /\ q.lanes[i].y >= at.y
          BY <4>5
        <5>2. m + 1 >= a
          BY <4>7
        <5> QED
          BY <4>3, <4>6, <5>1, <5>2 DEF AddedFrom
      <4> QED
        BY <4>7, <4>8 DEF LanesAdded, a
    <3> QED
      BY <2>5, <3>5, <3>6 DEF q
  <2> QED
    BY <2>8, <2>9
<1> DEFINE K == {k \in Nat : k <= N => Good(f[k], k)}
<1>8. N \in K
  <2>1. 0 \in K
    BY <1>6
  <2>2. ASSUME NEW k \in Nat, k \in K PROVE k + 1 \in K
    <3> HIDE DEF Good
    <3>1. k + 1 <= N => Good(f[k], k)
      BY <1>1, <2>2
    <3> QED
      BY <1>7, <3>1 DEF Good
  <2> HIDE DEF K
  <2> QED
    BY <1>1, <2>1, <2>2, Ind
<1>9. Good(f[N], N)
  BY <1>1, <1>8
<1> QED
  BY <1>2, <1>9 DEF N, E, base

-----------------------------------------------------------------------------
(* Bands: machines one below the other.                                    *)

\* Bands, the lanes of a machine, and how many instances it has.
BandSet == [id : Hosts2, y : Nat, h : Nat]
LanesOf(lanes, h) == {i \in DOMAIN lanes : lanes[i].host = h}
PerHost(ids, groupsOf) == [h \in Hosts2 |-> SumOn(PerLane(h, ids, groupsOf), 1..Len(ids))]

\* The bands of different machines are one below the other.
BandsApart(H, y, done) ==
  /\ H \in Seq(BandSet)
  /\ \A b \in DOMAIN H : H[b].id \in done /\ H[b].h >= 15000 /\ H[b].y + H[b].h + HOST_GAP <= y
  /\ \A b, c \in DOMAIN H : b < c => H[b].y + H[b].h < H[c].y /\ H[b].id # H[c].id

\* A lane within its machine's band.
InBand(l, b) == b.id = l.host /\ b.y <= l.y /\ l.y + l.h <= b.y + b.h

\* A lane is in the band of its machine, which has room for them.
BandsHold(H, lanes) ==
  /\ \A i \in DOMAIN lanes : \E b \in DOMAIN H : InBand(lanes[i], H[b])
  /\ \A b \in DOMAIN H : H[b].h >= Room(Cardinality(LanesOf(lanes, H[b].id)))

\* The bands of the machines in done, laid out.
GoodBands(at, done, ids, groupsOf, width) ==
  /\ GoodLanes(at, groupsOf, width)
  /\ BandsApart(at.hosts, at.y, done) /\ BandsHold(at.hosts, at.lanes)
  /\ at.y >= 1800 + Room(Len(at.lanes))
  /\ InLanes(at.lanes) = SumOn(PerHost(ids, groupsOf), done)

\* These are naturals.
LEMMA PerHostSums ==
  ASSUME NEW ids, NEW groupsOf, AllGroups(ids, groupsOf)
  PROVE  Sums(PerHost(ids, groupsOf), Hosts2)
<1>1. \A h \in Hosts2 : SumOn(PerLane(h, ids, groupsOf), 1..Len(ids)) \in Nat
  BY PerLaneSums, SumNat
<1>2. IsFiniteSet(Hosts2)
  <2>1. IsFiniteSet({}) /\ Hosts2 = ({} \cup {"local"}) \cup {"ws"}
    BY FS_EmptySet DEF Hosts2
  <2>2. IsFiniteSet({} \cup {"local"})
    BY <2>1, FS_AddElement
  <2> QED
    BY <2>1, <2>2, FS_AddElement
<1> QED
  BY <1>1, <1>2 DEF Sums, PerHost

\* A band more, for a machine that has none.
LEMMA AddBandGood ==
  ASSUME NEW at, NEW done, done \subseteq Hosts2, NEW groupsOf, NEW ids, NEW width \in Nat, width >= TILE,
         GoodBands(at, done, ids, groupsOf, width), AllGroups(ids, groupsOf), NEW h \in Hosts2 \ done
  PROVE  GoodBands(AddBand(at, h, HostLanes(at, h, ids, groupsOf, width)), done \cup {h}, ids, groupsOf, width)
<1> DEFINE laid == HostLanes(at, h, ids, groupsOf, width)  bandH == Larger(15000, laid.y - at.y)
           new == [id |-> h, y |-> at.y, h |-> bandH]
           q == AddBand(at, h, laid)
           a == Len(at.lanes)  m == Len(laid.lanes)  L == laid.lanes  H == at.hosts  C == Append(H, new)
<1>1. q = [y |-> at.y + bandH + HOST_GAP, lanes |-> laid.lanes, hosts |-> C]
  BY DEF AddBand
<1>2. GoodLanes(at, groupsOf, width)
  BY DEF GoodBands
<1>3. /\ GoodLanes(laid, groupsOf, width) /\ LanesAdded(at, laid, h)
      /\ InLanes(L) = InLanes(at.lanes) + SumOn(PerLane(h, ids, groupsOf), 1..Len(ids))
  BY <1>2, HostGood
<1>4. q.y = at.y + bandH + HOST_GAP /\ q.lanes = L /\ q.hosts = C
  BY <1>1
<1> HIDE DEF q, laid
<1>5. /\ at.y \in Nat /\ at.lanes \in Seq(LaneSet) /\ laid.y \in Nat /\ L \in Seq(LaneSet)
      /\ a \in Nat /\ m \in Nat /\ DOMAIN at.lanes = 1..a /\ DOMAIN L = 1..m
  BY <1>2, <1>3 DEF GoodLanes
<1>6. AddedFrom(at, laid, h, a, m)
  BY <1>3 DEF LanesAdded
<1>7. m >= a /\ (\A i \in 1..a : L[i] = at.lanes[i]) /\ laid.y >= at.y + Room(m - a)
  BY <1>6 DEF AddedFrom
<1>8. \A i \in (a + 1)..m : L[i].host = h /\ L[i].y >= at.y
  BY <1>6 DEF AddedFrom
<1> HIDE DEF a, m, L
<1>9. bandH \in Nat /\ bandH >= 15000 /\ bandH >= Room(m - a) /\ laid.y <= at.y + bandH
  BY <1>5, <1>7 DEF Larger, Room
<1> HIDE DEF bandH
<1>10. H \in Seq(BandSet) /\ new \in BandSet
  BY <1>5, <1>9 DEF GoodBands, BandsApart, BandSet
<1>11. new.id = h /\ new.y = at.y /\ new.h = bandH
  OBVIOUS
<1> HIDE DEF new
<1>12. /\ C \in Seq(BandSet) /\ DOMAIN C = 1..(Len(H) + 1) /\ Len(H) \in Nat /\ DOMAIN H = 1..Len(H)
       /\ C[Len(H) + 1] = new /\ \A b \in DOMAIN H : C[b] = H[b]
  BY <1>10
<1>13. /\ \A b \in DOMAIN H : H[b].id \in done /\ H[b].h >= 15000 /\ H[b].y + H[b].h + HOST_GAP <= at.y
       /\ \A b, c \in DOMAIN H : b < c => H[b].y + H[b].h < H[c].y /\ H[b].id # H[c].id
  BY DEF GoodBands, BandsApart
<1>14. \A b \in DOMAIN H : H[b].y \in Nat /\ H[b].h \in Nat
  <2>1. \A b \in DOMAIN H : H[b] \in BandSet
    BY <1>10
  <2> QED
    BY <2>1 DEF BandSet
<1>15. /\ \A i \in 1..a : \E b \in DOMAIN H : InBand(L[i], H[b])
       /\ \A b \in DOMAIN H : H[b].h >= Room(Cardinality(LanesOf(at.lanes, H[b].id)))
  <2>1. BandsHold(at.hosts, at.lanes)
    BY DEF GoodBands
  <2>2. /\ \A i \in DOMAIN at.lanes : \E b \in DOMAIN H : InBand(at.lanes[i], H[b])
        /\ \A b \in DOMAIN H : H[b].h >= Room(Cardinality(LanesOf(at.lanes, H[b].id)))
    BY <2>1 DEF BandsHold
  <2>3. \A i \in 1..a : i \in DOMAIN at.lanes /\ L[i] = at.lanes[i]
    BY <1>5, <1>7
  <2> HIDE DEF H
  <2> QED
    BY <2>2, <2>3
<1> HIDE DEF C, H
<1>16. HOST_GAP = 2600 /\ q.y \in Nat /\ q.y = at.y + bandH + HOST_GAP /\ q.y >= at.y + Room(m - a) /\ q.y > laid.y
  BY <1>4, <1>5, <1>9, <1>7 DEF HOST_GAP, Room
<1>17. GoodLanes(q, groupsOf, width)
  <2>1. \A i \in DOMAIN L : GoodLane(L[i], groupsOf, width) /\ L[i].y + L[i].h < laid.y
    BY <1>3 DEF GoodLanes, L
  <2>2. \A i, j \in DOMAIN L : i < j => L[i].y + L[i].h < L[j].y
    BY <1>3 DEF GoodLanes, L
  <2>3. \A i \in DOMAIN L : L[i].y \in Nat /\ L[i].h \in Nat
    <3>1. \A i \in DOMAIN L : L[i] \in LaneSet
      BY <1>5
    <3> HIDE DEF GoodLane
    <3> QED
      BY <3>1 DEF LaneSet
  <2>4. \A i \in DOMAIN L : L[i].y + L[i].h < q.y
    BY <1>5, <1>16, <2>1, <2>3
  <2> QED
    BY <1>4, <1>5, <1>16, <2>1, <2>2, <2>4 DEF GoodLanes
<1>18. BandsApart(C, q.y, done \cup {h})
  <2>1. ASSUME NEW b \in DOMAIN C
        PROVE  C[b].id \in done \cup {h} /\ C[b].h >= 15000 /\ C[b].y + C[b].h + HOST_GAP <= q.y
    <3>1. CASE b \in DOMAIN H
      <4>1. H[b].y + H[b].h + HOST_GAP <= at.y /\ H[b].y \in Nat /\ H[b].h \in Nat
        BY <1>13, <1>14, <3>1
      <4>2. H[b].y + H[b].h + HOST_GAP <= q.y
        <5>1. q.y \in Nat /\ q.y >= at.y + bandH /\ bandH \in Nat /\ at.y \in Nat /\ HOST_GAP = 2600
          BY <1>5, <1>9, <1>16
        <5> QED
          BY <4>1, <5>1
      <4> QED
        BY <1>12, <1>13, <3>1, <4>2
    <3>2. CASE b = Len(H) + 1
      BY <1>9, <1>11, <1>12, <1>16, <3>2
    <3> QED
      BY <1>12, <3>1, <3>2
  <2>2. ASSUME NEW b \in DOMAIN C, NEW c \in DOMAIN C, b < c
        PROVE  C[b].y + C[b].h < C[c].y /\ C[b].id # C[c].id
    <3>1. b \in DOMAIN H
      BY <1>12, <2>2
    <3>2. CASE c \in DOMAIN H
      BY <1>12, <1>13, <2>2, <3>1, <3>2
    <3>3. CASE c = Len(H) + 1
      <4>1. C[b] = H[b] /\ C[c].y = at.y /\ C[c].id = h
        BY <1>11, <1>12, <3>1, <3>3
      <4>2. H[b].y + H[b].h + HOST_GAP <= at.y /\ H[b].id \in done /\ H[b].y \in Nat /\ H[b].h \in Nat
        BY <1>13, <1>14, <3>1
      <4>3. HOST_GAP = 2600 /\ at.y \in Nat
        BY <1>5, <1>16
      <4> QED
        BY <4>1, <4>2, <4>3
    <3> QED
      BY <1>12, <3>2, <3>3
  <2> QED
    BY <1>12, <2>1, <2>2 DEF BandsApart
<1>19. BandsHold(C, L)
  <2>1. \A i \in 1..a : L[i].host \in done
    BY <1>13, <1>15 DEF InBand
  <2>2. ASSUME NEW i \in DOMAIN L PROVE \E b \in DOMAIN C : InBand(L[i], C[b])
    <3>1. CASE i \in 1..a
      <4>1. PICK b \in DOMAIN H : InBand(L[i], H[b])
        BY <1>15, <3>1
      <4> QED
        BY <1>12, <4>1
    <3>2. CASE i \in (a + 1)..m
      <4>1. L[i].y + L[i].h < laid.y /\ L[i].y \in Nat /\ L[i].h \in Nat
        <5>1. L[i] \in LaneSet
          BY <1>5
        <5> QED
          BY <1>3, <5>1 DEF GoodLanes, L, LaneSet
      <4>2. L[i].y + L[i].h <= at.y + bandH
        BY <1>5, <1>9, <4>1
      <4>3. InBand(L[i], new)
        BY <1>8, <1>11, <3>2, <4>2 DEF InBand
      <4>4. Len(H) + 1 \in DOMAIN C
        BY <1>12
      <4> QED
        BY <1>12, <4>3, <4>4
    <3> QED
      BY <1>5, <3>1, <3>2
  <2>3. ASSUME NEW b \in DOMAIN C PROVE C[b].h >= Room(Cardinality(LanesOf(L, C[b].id)))
    <3>1. CASE b \in DOMAIN H
      <4>1. H[b].id # h
        BY <1>13, <3>1
      <4>2. LanesOf(L, H[b].id) = LanesOf(at.lanes, H[b].id)
        <5>1. \A i \in DOMAIN L : i \in 1..a \/ i \in (a + 1)..m
          BY <1>5
        <5>2. 1..a \subseteq 1..m
          BY <1>5, <1>7
        <5> QED
          BY <1>5, <1>7, <1>8, <4>1, <5>1, <5>2 DEF LanesOf
      <4> QED
        BY <1>12, <1>15, <3>1, <4>2
    <3>2. CASE b = Len(H) + 1
      <4>1. LanesOf(L, h) = (a + 1)..m
        <5>1. \A i \in DOMAIN L : i \in 1..a \/ i \in (a + 1)..m
          BY <1>5
        <5>2. (a + 1)..m \subseteq DOMAIN L
          BY <1>5
        <5> QED
          BY <1>8, <2>1, <5>1, <5>2 DEF LanesOf
      <4>2. Cardinality((a + 1)..m) = m - a
        <5>1. a + 1 \in Int /\ m \in Int
          BY <1>5
        <5>2. Cardinality((a + 1)..m) = IF a + 1 > m THEN 0 ELSE m - (a + 1) + 1
          BY <5>1, FS_Interval
        <5> QED
          BY <1>5, <1>7, <5>2
      <4> QED
        BY <1>9, <1>11, <1>12, <3>2, <4>1, <4>2
    <3> QED
      BY <1>12, <3>1, <3>2
  <2> QED
    BY <2>2, <2>3 DEF BandsHold
<1>20. q.y >= 1800 + Room(m)
  <2>1. at.y >= 1800 + Room(a)
    BY DEF GoodBands, a
  <2> QED
    BY <1>5, <1>7, <1>16, <2>1 DEF Room
<1>21. InLanes(L) = SumOn(PerHost(ids, groupsOf), done \cup {h})
  <2> DEFINE P == PerHost(ids, groupsOf)
  <2>1. P[h] = SumOn(PerLane(h, ids, groupsOf), 1..Len(ids))
    BY DEF PerHost
  <2>2. Sums(P, Hosts2) /\ done \cup {h} \subseteq Hosts2
    BY PerHostSums
  <2>3. InLanes(at.lanes) = SumOn(P, done)
    BY DEF GoodBands
  <2> HIDE DEF P
  <2>4. Sums(P, done \cup {h}) /\ Sums(P, done)
    BY <2>2, SumsPart
  <2>5. SumOn(P, done \cup {h}) = P[h] + SumOn(P, done)
    BY <2>4, SumAdd
  <2>6. P[h] \in Nat /\ SumOn(P, done) \in Nat
    BY <2>2, <2>4, SumNat DEF Sums
  <2> QED
    BY <1>3, <2>1, <2>3, <2>5, <2>6 DEF P
<1> QED
  BY <1>4, <1>17, <1>18, <1>19, <1>20, <1>21 DEF GoodBands, q, m, L, laid

\* One step of laying out the bands.
BandsStep(f, machines, ids, groupsOf, width, k) ==
  IF k = 0 THEN [y |-> 1800, lanes |-> << >>, hosts |-> << >>]
  ELSE IF Machines[k] \notin machines THEN f[k - 1]
  ELSE AddBand(f[k - 1], Machines[k], HostLanes(f[k - 1], Machines[k], ids, groupsOf, width))

\* So is the recursion over the machines.
LEMMA BandsIs ==
  ASSUME NEW machines, NEW ids, NEW groupsOf, NEW width
  PROVE  \E f : /\ f = [k \in 0..2 |-> BandsStep(f, machines, ids, groupsOf, width, k)]
                /\ Bands(machines, ids, groupsOf, width) = f[2]
<1> DEFINE Step(f, k) == BandsStep(f, machines, ids, groupsOf, width, k)
           S == {m \in Nat : \E f : f = [k \in 0..m |-> Step(f, k)]}
<1>1. 0 \in S
  <2> DEFINE f == [k \in 0..0 |-> [y |-> 1800, lanes |-> << >>, hosts |-> << >>]]
  <2>1. f = [k \in 0..0 |-> Step(f, k)]
    BY DEF BandsStep
  <2> QED
    BY <2>1
<1>2. ASSUME NEW m \in Nat, m \in S PROVE m + 1 \in S
  <2>1. PICK f : f = [k \in 0..m |-> Step(f, k)]
    BY <1>2
  <2> DEFINE g == [k \in 0..m + 1 |-> Step(f, k)]
  <2>2. ASSUME NEW k \in 0..m + 1 PROVE Step(f, k) = Step(g, k)
    <3>1. CASE k = 0
      BY <3>1 DEF BandsStep
    <3>2. CASE k # 0
      <4>1. k - 1 \in 0..m /\ k - 1 \in 0..m + 1
        BY <3>2
      <4>2. f[k - 1] = Step(f, k - 1)
        BY <4>1, <2>1
      <4>3. g[k - 1] = Step(f, k - 1)
        BY <4>1
      <4> HIDE DEF g
      <4> QED
        BY <4>2, <4>3 DEF BandsStep
    <3> QED
      BY <3>1, <3>2
  <2>3. g = [k \in 0..m + 1 |-> Step(g, k)]
    BY <2>2, Zenon
  <2> HIDE DEF g
  <2> QED
    BY <2>3
<1>3. 2 \in S
  <2> HIDE DEF S
  <2> QED
    BY <1>1, <1>2, Ind
<1>4. \E f : f = [k \in 0..2 |-> Step(f, k)]
  BY <1>3
<1>5. Len(Machines) = 2
  BY DEF Machines
<1> DEFINE F == CHOOSE f : f = [k \in 0..2 |-> Step(f, k)]
<1>6. F = [k \in 0..2 |-> Step(F, k)]
  BY <1>4
<1>7. Bands(machines, ids, groupsOf, width) = F[2]
  BY <1>5 DEF Bands, BandsStep
<1> QED
  BY <1>6, <1>7

\* The bands of the machines that are machines, and the lanes in them, are apart,
\* and show what there is on those machines.
LEMMA BandsGood ==
  ASSUME NEW machines \in SUBSET Hosts2, NEW ids, NEW groupsOf, AllGroups(ids, groupsOf),
         NEW width \in Nat, width >= TILE
  PROVE  GoodBands(Bands(machines, ids, groupsOf, width), machines, ids, groupsOf, width)
<1>1. PICK f : /\ f = [k \in 0..2 |-> BandsStep(f, machines, ids, groupsOf, width, k)]
               /\ Bands(machines, ids, groupsOf, width) = f[2]
  BY BandsIs
<1> DEFINE Good(at, done) == GoodBands(at, done, ids, groupsOf, width)
<1>2. Good(f[0], {})
  <2> DEFINE p == f[0]
  <2>1. p = [y |-> 1800, lanes |-> << >>, hosts |-> << >>]
    BY <1>1 DEF BandsStep
  <2>2. p.y = 1800 /\ p.lanes = << >> /\ p.hosts = << >>
    BY <2>1
  <2> HIDE DEF p
  <2>3. << >> \in Seq(LaneSet) /\ << >> \in Seq(BandSet) /\ DOMAIN << >> = {} /\ Len(<< >>) = 0
    OBVIOUS
  <2>4. GoodLanes(p, groupsOf, width)
    BY <2>2, <2>3 DEF GoodLanes
  <2>5. BandsApart(p.hosts, p.y, {}) /\ BandsHold(p.hosts, p.lanes)
    BY <2>2, <2>3 DEF BandsApart, BandsHold
  <2>6. p.y >= 1800 + Room(Len(p.lanes))
    BY <2>2, <2>3 DEF Room
  <2>7. InLanes(p.lanes) = SumOn(PerHost(ids, groupsOf), {})
    BY <2>2, <2>3, SumEmpty DEF InLanes
  <2> QED
    BY <2>4, <2>5, <2>6, <2>7 DEF GoodBands, p
<1>3. ASSUME NEW k \in 1..2, NEW done \in SUBSET Hosts2, Machines[k] \in Hosts2 \ done, Good(f[k - 1], done)
      PROVE  Good(f[k], IF Machines[k] \in machines THEN done \cup {Machines[k]} ELSE done)
  <2> DEFINE p == f[k - 1]  q == f[k]  h == Machines[k]
  <2>1. q = IF h \in machines THEN AddBand(p, h, HostLanes(p, h, ids, groupsOf, width)) ELSE p
    BY <1>1 DEF BandsStep
  <2>2. h \in Hosts2 \ done /\ Good(p, done)
    BY <1>3
  <2> HIDE DEF p, q, h
  <2>3. Good(q, IF h \in machines THEN done \cup {h} ELSE done)
    <3>1. GoodBands(AddBand(p, h, HostLanes(p, h, ids, groupsOf, width)), done \cup {h}, ids, groupsOf, width)
      BY <2>2, AddBandGood
    <3> QED
      BY <2>1, <2>2, <3>1
  <2> QED
    BY <2>3 DEF p, q, h
<1> HIDE DEF Good
<1>4. Machines[1] = "local" /\ Machines[2] = "ws" /\ Hosts2 = {"local", "ws"}
  BY DEF Machines, Hosts2
<1> DEFINE one == IF "local" \in machines THEN {"local"} ELSE {}
<1>5. Good(f[1], one)
  BY <1>2, <1>3, <1>4
<1>6. Good(f[2], IF "ws" \in machines THEN one \cup {"ws"} ELSE one)
  BY <1>3, <1>4, <1>5
<1>7. (IF "ws" \in machines THEN one \cup {"ws"} ELSE one) = machines
  BY <1>4
<1> QED
  BY <1>1, <1>6, <1>7 DEF Good

\* So tiles are apart, and every instance has one.
LEMMA BandsShow ==
  ASSUME NEW laid, NEW machines, NEW ids, NEW groupsOf, NEW width,
         GoodBands(laid, machines, ids, groupsOf, width)
  PROVE  TilesApart(laid, width) /\ Counted(laid.lanes, SumOn(PerHost(ids, groupsOf), machines))
<1> DEFINE L == laid.lanes  H == laid.hosts
<1>1. GoodLanes(laid, groupsOf, width) /\ BandsApart(H, laid.y, machines) /\ BandsHold(H, L)
  BY DEF GoodBands
<1>2. \A i \in DOMAIN L : GoodLane(L[i], groupsOf, width)
  BY <1>1 DEF GoodLanes
<1>3. \A i, j \in DOMAIN L : i < j => L[i].y + L[i].h < L[j].y
  BY <1>1 DEF GoodLanes
<1>4. \A i, j \in DOMAIN H : i < j => H[i].y + H[i].h < H[j].y
  BY <1>1 DEF BandsApart
<1>5. \A i \in DOMAIN L : \E b \in DOMAIN H : InBand(L[i], H[b])
  BY <1>1 DEF BandsHold
<1>6. TilesApart(laid, width)
  <2>1. \A i \in DOMAIN L : LaneFits(L[i], width)
    BY <1>2 DEF GoodLane
  <2> QED
    BY <1>3, <1>4, <1>5, <2>1 DEF TilesApart, InBand
<1>7. \A i \in DOMAIN L : L[i].count = Total(L[i].blocks, LAMBDA b : b.n)
  BY <1>2, CountIs DEF GoodLane
<1>8. Total(L, LAMBDA l : l.count) = SumOn(PerHost(ids, groupsOf), machines)
  BY InLanesIs DEF GoodBands
<1> QED
  BY <1>6, <1>7, <1>8 DEF Counted

-----------------------------------------------------------------------------
(* The instances of the fleet in the groups of the two maps.               *)

\* What is assumed of the constants (SizesAssumption).
Sizes == Width \in Int /\ GroupSizes \subseteq Nat /\ Refusals \subseteq Nat

KindIds == DOMAIN Kinds

\* The kinds there are.
LEMMA KindsAre ==
  /\ KindIds = 1..5
  /\ \A k \in KindIds : /\ Kinds[k][1] \in {"claude-max", "ghcopilot", "github-copilot", "local-llm"}
                   /\ Kinds[k][2] \in {"default", "gpt-6.1-sol", "qwen3-30b-a3b", "sonnet-5.5"}
                   /\ Kinds[k][3] \in {"unrestricted", "claude-full-dev", "claude-only"}
<1>1. KindIds = 1..5
  BY DEF KindIds, Kinds
<1>2. \A k \in 1..5 : k = 1 \/ k = 2 \/ k = 3 \/ k = 4 \/ k = 5
  OBVIOUS
<1>3. /\ Kinds[1] = <<"claude-max", "default", "unrestricted">>
      /\ Kinds[2] = <<"ghcopilot", "gpt-6.1-sol", "claude-full-dev">>
      /\ Kinds[3] = <<"ghcopilot", "sonnet-5.5", "unrestricted">>
      /\ Kinds[4] = <<"github-copilot", "gpt-6.1-sol", "claude-full-dev">>
      /\ Kinds[5] = <<"local-llm", "qwen3-30b-a3b", "claude-only">>
  BY DEF Kinds
<1> QED
  BY <1>1, <1>2, <1>3

\* How many instances there are is a sum over the kinds.
LEMMA HostCounts ==
  ASSUME Sizes, MapTypeOK, NEW h \in Hosts2
  PROVE  Sums(count[h], KindIds) /\ count[h] \in [KindIds -> Nat]
<1>1. count[h] \in [KindIds -> Nat]
  <2>1. count[h] \in [KindIds -> GroupSizes \cup {0}]
    BY DEF MapTypeOK, KindIds
  <2>2. GroupSizes \cup {0} \subseteq Nat
    BY DEF Sizes
  <2> QED
    BY <2>1, <2>2
<1>2. IsFiniteSet(KindIds)
  BY KindsAre, Finite
<1> QED
  BY <1>1, <1>2 DEF Sums

\* So is how many there are of some kinds.
LEMMA HowManyIs ==
  ASSUME Sizes, MapTypeOK, NEW h \in Hosts2, NEW S, S \subseteq KindIds
  PROVE  HowMany(h, S) = SumOn(count[h], S) /\ HowMany(h, S) \in Nat
<1> DEFINE c == count[h]  f == [k \in S |-> c[k]]
<1>1. Sums(c, S)
  BY HostCounts, SumsPart
<1>2. HowMany(h, S) = Seqs!SumFunction(f)
  BY DEF HowMany, Sum
<1>3. DOMAIN f = S /\ \A k \in S : f[k] = c[k]
  OBVIOUS
<1> HIDE DEF f, c
<1>4. SumOn(f, S) = SumOn(c, S)
  BY <1>1, <1>3, SumSame
<1>5. Seqs!SumFunction(f) = SumOn(f, S)
  BY <1>3, SumIsFunction
<1>6. SumOn(c, S) \in Nat
  BY <1>1, SumNat
<1> QED
  BY <1>2, <1>4, <1>5, <1>6 DEF c

\* Groups show the kinds they are made of, if each kind of S is in one of them.
LEMMA GroupsShow ==
  ASSUME NEW c, Sums(c, KindIds), NEW S, S \subseteq KindIds, NEW groups, Groups(groups), NEW A,
         \A m \in 1..Len(groups) : A[m] \subseteq S /\ groups[m].n = SumOn(c, A[m]),
         \A p, q \in 1..Len(groups) : p # q => A[p] \cap A[q] = {},
         S = UNION {A[m] : m \in 1..Len(groups)}
  PROVE  CountOf(groups) = SumOn(c, S)
<1> DEFINE Q == 1..Len(groups)  n == SizesOf(groups)
<1>1. IsFiniteSet(Q) /\ DOMAIN groups = Q
  BY Finite DEF Groups
<1>2. \A m \in Q : n[m] = SumOn(c, A[m])
  BY <1>1 DEF SizesOf
<1>3. \A m \in Q : A[m] \subseteq KindIds
  OBVIOUS
<1> HIDE DEF Q, n
<1>4. \A p, q \in Q : p # q => A[p] \cap A[q] = {}
  BY DEF Q
<1>5. SumOn(n, Q) = SumOn(c, UNION {A[m] : m \in Q})
  <2>1. Fibres(A, n, c, Q, KindIds)
    BY <1>2, <1>3, <1>4 DEF Fibres
  <2> QED
    BY <1>1, <2>1, SumFibres
<1> QED
  BY <1>1, <1>5 DEF CountOf, Q, n

\* And so do the lanes of a machine.
LEMMA LanesShow ==
  ASSUME NEW h \in Hosts2, NEW c, Sums(c, KindIds), NEW ids, NEW groupsOf, AllGroups(ids, groupsOf), NEW A,
         Fibres(A, PerLane(h, ids, groupsOf), c, 1..Len(ids), KindIds),
         KindIds = UNION {A[m] : m \in 1..Len(ids)}
  PROVE  PerHost(ids, groupsOf)[h] = SumOn(c, KindIds)
<1> DEFINE Q == 1..Len(ids)  e == PerLane(h, ids, groupsOf)
<1>1. IsFiniteSet(Q)
  BY Finite DEF AllGroups
<1>2. PerHost(ids, groupsOf)[h] = SumOn(e, Q)
  BY DEF PerHost
<1>3. KindIds = UNION {A[m] : m \in Q} /\ Fibres(A, e, c, Q, KindIds)
  OBVIOUS
<1> HIDE DEF Q, e
<1>4. SumOn(e, Q) = SumOn(c, UNION {A[m] : m \in Q})
  BY <1>1, <1>3, SumFibres
<1> QED
  BY <1>2, <1>3, <1>4

\* The groups and lanes of the fleet map.
LEMMA FleetLane ==
  ASSUME Sizes, MapTypeOK, NEW h \in Hosts2, NEW lane \in Seqs!ToSet(LANES)
  PROVE  /\ Groups(FleetGroups[h][lane])
         /\ CountOf(FleetGroups[h][lane]) = SumOn(count[h], {k \in KindIds : Kinds[k][1] = lane})
<1> DEFINE groups == FleetGroups[h][lane]  S == {k \in KindIds : Kinds[k][1] = lane}
           A == [m \in 1..4 |-> {k \in KindIds : Kinds[k][1] = lane /\ Kinds[k][2] = ModelOrder[m][1]}]
<1>1. /\ DOMAIN ModelOrder = 1..4 /\ Len(ModelOrder) = 4
      /\ \A m \in 1..4 : ModelOrder[m][2] \in Nat
      /\ ModelOrder[1][1] = "default" /\ ModelOrder[2][1] = "gpt-6.1-sol"
      /\ ModelOrder[3][1] = "qwen3-30b-a3b" /\ ModelOrder[4][1] = "sonnet-5.5"
  BY DEF ModelOrder
<1>2. groups = [m \in 1..4 |-> [text |-> ModelOrder[m][2], n |-> HowMany(h, A[m])]]
  BY <1>1 DEF FleetGroups, KindIds
<1>3. \A m \in 1..4 : A[m] \subseteq S /\ A[m] \subseteq KindIds
  OBVIOUS
<1>4. \A p, q \in 1..4 : p # q => A[p] \cap A[q] = {}
  <2>1. \A p, q \in 1..4 : p # q => ModelOrder[p][1] # ModelOrder[q][1]
    BY <1>1
  <2> QED
    BY <2>1
<1>5. S = UNION {A[m] : m \in 1..4}
  <2>1. ASSUME NEW k \in S PROVE \E m \in 1..4 : k \in A[m]
    <3>1. \E m \in 1..4 : Kinds[k][2] = ModelOrder[m][1]
      <4>1. Kinds[k][2] \in {"default", "gpt-6.1-sol", "qwen3-30b-a3b", "sonnet-5.5"}
        BY KindsAre
      <4> QED
        BY <1>1, <4>1
    <3> QED
      BY <3>1
  <2> QED
    BY <1>3, <2>1
<1> HIDE DEF A, groups
<1>6. \A m \in 1..4 : HowMany(h, A[m]) = SumOn(count[h], A[m]) /\ HowMany(h, A[m]) \in Nat
  BY <1>3, HowManyIs
<1>7. Len(groups) = 4 /\ DOMAIN groups = 1..4
  <2>1. DOMAIN groups = 1..4
    BY <1>2
  <2>2. groups \in [1..4 -> Group]
    BY <1>1, <1>2, <1>6 DEF Group
  <2>3. groups \in Seq(Group)
    <3>1. [1..4 -> Group] \in {[1..n -> Group] : n \in Nat}
      OBVIOUS
    <3> QED
      BY <2>2, <3>1, SeqDef
  <2> QED
    BY <2>1, <2>3
<1>8. \A m \in 1..4 : groups[m] \in Group /\ groups[m].n = SumOn(count[h], A[m])
  BY <1>1, <1>2, <1>6 DEF Group
<1>9. Groups(groups)
  BY <1>7, <1>8 DEF Groups
<1>10. Sums(count[h], KindIds) /\ S \subseteq KindIds
  BY HostCounts
<1> HIDE DEF S
<1>11. CountOf(groups) = SumOn(count[h], S)
  <2> DEFINE Q == 1..Len(groups)
  <2>1. /\ \A m \in Q : A[m] \subseteq S /\ groups[m].n = SumOn(count[h], A[m])
        /\ \A p, q \in Q : p # q => A[p] \cap A[q] = {}
        /\ S = UNION {A[m] : m \in Q}
    BY <1>3, <1>4, <1>5, <1>7, <1>8
  <2> QED
    BY <2>1, <1>9, <1>10, GroupsShow
<1> QED
  BY <1>9, <1>11 DEF groups, S

\* The instances of some machines are those in their lanes.
LEMMA AllIs ==
  ASSUME Sizes, MapTypeOK, NEW ids, NEW groupsOf, AllGroups(ids, groupsOf),
         \A h \in Hosts2 : PerHost(ids, groupsOf)[h] = SumOn(count[h], KindIds), NEW S, S \subseteq Hosts2
  PROVE  Sum(S, All) = SumOn(PerHost(ids, groupsOf), S)
<1> DEFINE f == [h \in S |-> All(h)]  e == PerHost(ids, groupsOf)
<1>1. Sum(S, All) = Seqs!SumFunction(f)
  BY DEF Sum
<1>2. \A h \in S : f[h] = e[h]
  <2>1. \A h \in Hosts2 : All(h) = SumOn(count[h], KindIds)
    BY HowManyIs DEF All, KindIds
  <2> QED
    BY <2>1
<1>3. DOMAIN f = S
  OBVIOUS
<1>4. Sums(e, S)
  BY PerHostSums, SumsPart
<1> HIDE DEF f, e
<1>5. SumOn(f, S) = SumOn(e, S)
  BY <1>2, <1>4, SumSame
<1>6. Seqs!SumFunction(f) = SumOn(f, S)
  BY <1>3, SumIsFunction
<1> QED
  BY <1>1, <1>5, <1>6 DEF e

\* The lanes of the fleet map.
LEMMA LanesAre ==
  /\ DOMAIN LANES = 1..7 /\ Len(LANES) = 7
  /\ LANES[1] = "claude-max" /\ LANES[2] = "anthropic-api" /\ LANES[3] = "ghcopilot"
  /\ LANES[4] = "github-copilot" /\ LANES[5] = "local-llm" /\ LANES[6] = "foundry"
  /\ LANES[7] = "foundry-latest"
  BY DEF LANES

\* The groups of the fleet map have every instance of a machine once.
LEMMA FleetAll ==
  ASSUME Sizes, MapTypeOK
  PROVE  /\ AllGroups(LANES, FleetGroups)
         /\ \A h \in Hosts2 : PerHost(LANES, FleetGroups)[h] = SumOn(count[h], KindIds)
<1>1. \A k \in 1..7 : LANES[k] \in LaneIds /\ LANES[k] \in Seqs!ToSet(LANES)
  <2>1. \A k \in 1..7 : LANES[k] \in Seqs!ToSet(LANES)
    BY LanesAre DEF Seqs!ToSet
  <2> QED
    BY <2>1 DEF LaneIds
<1>2. \A h \in Hosts2 : DOMAIN FleetGroups[h] = Seqs!ToSet(LANES)
  BY DEF FleetGroups
<1>3. AllGroups(LANES, FleetGroups)
  <2>1. \A h \in Hosts2 : \A k \in 1..7 : Groups(FleetGroups[h][LANES[k]])
    BY <1>1, FleetLane
  <2>2. \A h \in Hosts2 : \A k \in 1..7 : LANES[k] \in DOMAIN FleetGroups[h]
    BY <1>1, <1>2
  <2>3. 7 \in Nat
    OBVIOUS
  <2> QED
    BY <1>1, <2>1, <2>2, <2>3, LanesAre DEF AllGroups
<1>4. ASSUME NEW h \in Hosts2 PROVE PerHost(LANES, FleetGroups)[h] = SumOn(count[h], KindIds)
  <2> DEFINE A == [m \in 1..7 |-> {k \in KindIds : Kinds[k][1] = LANES[m]}]
  <2>1. \A m \in 1..7 : CountOf(FleetGroups[h][LANES[m]]) = SumOn(count[h], A[m])
    BY <1>1, FleetLane
  <2>2. \A m \in 1..7 : A[m] \subseteq KindIds
    OBVIOUS
  <2>3. \A p, q \in 1..7 : p # q => A[p] \cap A[q] = {}
    <3>1. \A p, q \in 1..7 : p # q => LANES[p] # LANES[q]
      BY LanesAre
    <3> QED
      BY <3>1
  <2>4. KindIds = UNION {A[m] : m \in 1..7}
    <3>1. ASSUME NEW k \in KindIds PROVE \E m \in 1..7 : Kinds[k][1] = LANES[m]
      <4>1. Kinds[k][1] \in {"claude-max", "ghcopilot", "github-copilot", "local-llm"}
        BY KindsAre
      <4> QED
        BY <4>1, LanesAre
    <3>2. \A k \in KindIds : \E m \in 1..7 : k \in A[m]
      BY <3>1
    <3> QED
      BY <2>2, <3>2
  <2>5. Sums(count[h], KindIds)
    BY HostCounts
  <2> DEFINE Q == 1..Len(LANES)  e == PerLane(h, LANES, FleetGroups)
  <2>6. Q = 1..7 /\ DOMAIN LANES = Q
    BY LanesAre
  <2> HIDE DEF A
  <2>7. \A m \in Q : A[m] \subseteq KindIds /\ e[m] = SumOn(count[h], A[m])
    BY <2>1, <2>2, <2>6 DEF PerLane
  <2>8. KindIds = UNION {A[m] : m \in Q} /\ \A p, q \in Q : p # q => A[p] \cap A[q] = {}
    BY <2>3, <2>4, <2>6
  <2> HIDE DEF Q, e
  <2>9. Fibres(A, e, count[h], Q, KindIds)
    BY <2>7, <2>8 DEF Fibres
  <2> QED
    BY <1>3, <2>5, <2>8, <2>9, LanesShow DEF Q, e
<1> QED
  BY <1>3, <1>4

\* The groups and lanes of the network map.
LEMMA NetworkLane ==
  ASSUME Sizes, MapTypeOK, NEW h \in Hosts2, NEW policy \in Seqs!ToSet(POLICY_LANES)
  PROVE  /\ Groups(NetworkGroups[h][policy])
         /\ CountOf(NetworkGroups[h][policy]) = SumOn(count[h], {k \in KindIds : Kinds[k][3] = policy})
<1> DEFINE groups == NetworkGroups[h][policy]  S == {k \in KindIds : Kinds[k][3] = policy}
           A == [m \in 1..4 |-> {k \in KindIds : Kinds[k][3] = policy /\ Kinds[k][1] = BackendLabels[m][1]}]
<1>1. /\ DOMAIN BackendLabels = 1..4 /\ Len(BackendLabels) = 4
      /\ \A m \in 1..4 : BackendLabels[m][2] \in Nat
      /\ BackendLabels[1][1] = "claude-max" /\ BackendLabels[2][1] = "ghcopilot"
      /\ BackendLabels[3][1] = "github-copilot" /\ BackendLabels[4][1] = "local-llm"
  BY DEF BackendLabels
<1>2. groups = [m \in 1..4 |-> [text |-> BackendLabels[m][2], n |-> HowMany(h, A[m])]]
  BY <1>1 DEF NetworkGroups, KindIds
<1>3. \A m \in 1..4 : A[m] \subseteq S /\ A[m] \subseteq KindIds
  OBVIOUS
<1>4. \A p, q \in 1..4 : p # q => A[p] \cap A[q] = {}
  <2>1. \A p, q \in 1..4 : p # q => BackendLabels[p][1] # BackendLabels[q][1]
    BY <1>1
  <2> QED
    BY <2>1
<1>5. S = UNION {A[m] : m \in 1..4}
  <2>1. ASSUME NEW k \in S PROVE \E m \in 1..4 : k \in A[m]
    <3>1. \E m \in 1..4 : Kinds[k][1] = BackendLabels[m][1]
      <4>1. Kinds[k][1] \in {"claude-max", "ghcopilot", "github-copilot", "local-llm"}
        BY KindsAre
      <4> QED
        BY <1>1, <4>1
    <3> QED
      BY <3>1
  <2> QED
    BY <1>3, <2>1
<1> HIDE DEF A, groups
<1>6. \A m \in 1..4 : HowMany(h, A[m]) = SumOn(count[h], A[m]) /\ HowMany(h, A[m]) \in Nat
  BY <1>3, HowManyIs
<1>7. Len(groups) = 4 /\ DOMAIN groups = 1..4
  <2>1. DOMAIN groups = 1..4
    BY <1>2
  <2>2. groups \in [1..4 -> Group]
    BY <1>1, <1>2, <1>6 DEF Group
  <2>3. groups \in Seq(Group)
    <3>1. [1..4 -> Group] \in {[1..n -> Group] : n \in Nat}
      OBVIOUS
    <3> QED
      BY <2>2, <3>1, SeqDef
  <2> QED
    BY <2>1, <2>3
<1>8. \A m \in 1..4 : groups[m] \in Group /\ groups[m].n = SumOn(count[h], A[m])
  BY <1>1, <1>2, <1>6 DEF Group
<1>9. Groups(groups)
  BY <1>7, <1>8 DEF Groups
<1>10. Sums(count[h], KindIds) /\ S \subseteq KindIds
  BY HostCounts
<1> HIDE DEF S
<1>11. CountOf(groups) = SumOn(count[h], S)
  <2> DEFINE Q == 1..Len(groups)
  <2>1. /\ \A m \in Q : A[m] \subseteq S /\ groups[m].n = SumOn(count[h], A[m])
        /\ \A p, q \in Q : p # q => A[p] \cap A[q] = {}
        /\ S = UNION {A[m] : m \in Q}
    BY <1>3, <1>4, <1>5, <1>7, <1>8
  <2> QED
    BY <2>1, <1>9, <1>10, GroupsShow
<1> QED
  BY <1>9, <1>11 DEF groups, S

\* The lanes of the network map.
LEMMA PoliciesAre ==
  /\ DOMAIN POLICY_LANES = 1..4 /\ Len(POLICY_LANES) = 4
  /\ POLICY_LANES[1] = "unrestricted" /\ POLICY_LANES[2] = "claude-full-dev"
  /\ POLICY_LANES[3] = "claude-github" /\ POLICY_LANES[4] = "claude-only"
  BY DEF POLICY_LANES

\* The groups of the network map have every instance of a machine once.
LEMMA NetworkAll ==
  ASSUME Sizes, MapTypeOK
  PROVE  /\ AllGroups(POLICY_LANES, NetworkGroups)
         /\ \A h \in Hosts2 : PerHost(POLICY_LANES, NetworkGroups)[h] = SumOn(count[h], KindIds)
<1>1. \A k \in 1..4 : POLICY_LANES[k] \in LaneIds /\ POLICY_LANES[k] \in Seqs!ToSet(POLICY_LANES)
  <2>1. \A k \in 1..4 : POLICY_LANES[k] \in Seqs!ToSet(POLICY_LANES)
    BY PoliciesAre DEF Seqs!ToSet
  <2> QED
    BY <2>1 DEF LaneIds
<1>2. \A h \in Hosts2 : DOMAIN NetworkGroups[h] = Seqs!ToSet(POLICY_LANES)
  BY DEF NetworkGroups
<1>3. AllGroups(POLICY_LANES, NetworkGroups)
  <2>1. \A h \in Hosts2 : \A k \in 1..4 : Groups(NetworkGroups[h][POLICY_LANES[k]])
    BY <1>1, NetworkLane
  <2>2. \A h \in Hosts2 : \A k \in 1..4 : POLICY_LANES[k] \in DOMAIN NetworkGroups[h]
    BY <1>1, <1>2
  <2>3. 4 \in Nat
    OBVIOUS
  <2> QED
    BY <1>1, <2>1, <2>2, <2>3, PoliciesAre DEF AllGroups
<1>4. ASSUME NEW h \in Hosts2 PROVE PerHost(POLICY_LANES, NetworkGroups)[h] = SumOn(count[h], KindIds)
  <2> DEFINE A == [m \in 1..4 |-> {k \in KindIds : Kinds[k][3] = POLICY_LANES[m]}]
  <2>1. \A m \in 1..4 : CountOf(NetworkGroups[h][POLICY_LANES[m]]) = SumOn(count[h], A[m])
    BY <1>1, NetworkLane
  <2>2. \A m \in 1..4 : A[m] \subseteq KindIds
    OBVIOUS
  <2>3. \A p, q \in 1..4 : p # q => A[p] \cap A[q] = {}
    <3>1. \A p, q \in 1..4 : p # q => POLICY_LANES[p] # POLICY_LANES[q]
      BY PoliciesAre
    <3> QED
      BY <3>1
  <2>4. KindIds = UNION {A[m] : m \in 1..4}
    <3>1. ASSUME NEW k \in KindIds PROVE \E m \in 1..4 : Kinds[k][3] = POLICY_LANES[m]
      <4>1. Kinds[k][3] \in {"unrestricted", "claude-full-dev", "claude-only"}
        BY KindsAre
      <4> QED
        BY <4>1, PoliciesAre
    <3>2. \A k \in KindIds : \E m \in 1..4 : k \in A[m]
      BY <3>1
    <3> QED
      BY <2>2, <3>2
  <2>5. Sums(count[h], KindIds)
    BY HostCounts
  <2> DEFINE Q == 1..Len(POLICY_LANES)  e == PerLane(h, POLICY_LANES, NetworkGroups)
  <2>6. Q = 1..4 /\ DOMAIN POLICY_LANES = Q
    BY PoliciesAre
  <2> HIDE DEF A
  <2>7. \A m \in Q : A[m] \subseteq KindIds /\ e[m] = SumOn(count[h], A[m])
    BY <2>1, <2>2, <2>6 DEF PerLane
  <2>8. KindIds = UNION {A[m] : m \in Q} /\ \A p, q \in Q : p # q => A[p] \cap A[q] = {}
    BY <2>3, <2>4, <2>6
  <2> HIDE DEF Q, e
  <2>9. Fibres(A, e, count[h], Q, KindIds)
    BY <2>7, <2>8 DEF Fibres
  <2> QED
    BY <1>3, <2>5, <2>8, <2>9, LanesShow DEF Q, e
<1> QED
  BY <1>3, <1>4

-----------------------------------------------------------------------------
(* Ribbons.                                                                *)

\* Ribbons are numbers, with a thickness and where they come from.
IsRibbons(r) ==
  IsFiniteSet(DOMAIN r) /\ DOMAIN r \subseteq Int /\ \A i \in DOMAIN r : r[i].t \in Nat /\ r[i].y \in Int
ThicknessOf(r) == [i \in DOMAIN r |-> r[i].t]

\* How thick ribbons are together is a sum.
LEMMA InTIs ==
  ASSUME NEW r
  PROVE  /\ InT(r) = SumOn(ThicknessOf(r), DOMAIN r)
         /\ IsRibbons(r) => Sums(ThicknessOf(r), DOMAIN r) /\ InT(r) \in Nat
<1>1. InT(r) = Seqs!SumFunction(ThicknessOf(r))
  BY DEF InT, Total, Sum, ThicknessOf
<1>2. DOMAIN ThicknessOf(r) = DOMAIN r
  BY DEF ThicknessOf
<1>3. IsRibbons(r) => Sums(ThicknessOf(r), DOMAIN r)
  BY DEF IsRibbons, Sums, ThicknessOf
<1>4. Seqs!SumFunction(ThicknessOf(r)) = SumOn(ThicknessOf(r), DOMAIN r)
  <2> HIDE DEF ThicknessOf
  <2> QED
    BY <1>2, SumIsFunction
<1>5. IsRibbons(r) => InT(r) \in Nat
  BY <1>1, <1>3, <1>4, SumNat
<1> QED
  BY <1>1, <1>3, <1>4, <1>5

\* A stack of ribbons ends within a box that is as high, from its middle.
LEMMA StackMeets ==
  ASSUME NEW r, IsRibbons(r), NEW edge, edge.y \in Int, edge.h \in Int,
         NEW t \in Nat, InT(r) <= t, t <= edge.h
  PROVE  Meet(r, Stacked(r, Middle(edge, t)), edge)
<1> DEFINE D == DOMAIN r  off == Middle(edge, t)  ends == Stacked(r, off)  T == ThicknessOf(r)
<1>1. Sums(T, D) /\ InT(r) = SumOn(T, D) /\ InT(r) \in Nat
  BY InTIs
<1>2. off = edge.y + (edge.h - t) \div 2
  BY DEF Middle
<1>3. off \in Int /\ edge.y <= off /\ off + t <= edge.y + edge.h
  <2>1. edge.h - t \in Nat
    OBVIOUS
  <2>2. /\ (edge.h - t) \div 2 \in Nat
        /\ 2 * ((edge.h - t) \div 2) <= edge.h - t
    BY <2>1
  <2> HIDE DEF off
  <2> QED
    BY <1>2, <2>1, <2>2
<1>4. ASSUME NEW k \in D
      PROVE  /\ edge.y <= ends[k] - r[k].t \div 2
             /\ ends[k] + r[k].t \div 2 <= edge.y + edge.h
  <2> DEFINE B == {j \in D : Before(r, j, k)}
             e == [j \in B |-> r[j].t]
  <2>1. ends[k] = off + Sum(B, LAMBDA j : r[j].t) + r[k].t \div 2
    BY DEF Stacked
  <2>2. k \notin B /\ B \cup {k} \subseteq D
    BY DEF Before, IsRibbons
  <2>3. Sum(B, LAMBDA j : r[j].t) = SumOn(T, B)
    <3>1. Sum(B, LAMBDA j : r[j].t) = Seqs!SumFunction(e)
      BY DEF Sum
    <3>2. DOMAIN e = B /\ \A j \in B : e[j] = T[j]
      BY DEF ThicknessOf
    <3>3. Sums(T, B)
      BY <1>1, <2>2, SumsPart
    <3> HIDE DEF e, B, T
    <3>4. SumOn(e, B) = SumOn(T, B)
      BY <3>2, <3>3, SumSame
    <3>5. Seqs!SumFunction(e) = SumOn(e, B)
      BY <3>2, SumIsFunction
    <3> QED
      BY <3>1, <3>4, <3>5
  <2>4. T[k] = r[k].t /\ T[k] \in Nat
    BY DEF IsRibbons, ThicknessOf
  <2> HIDE DEF B, T, off, ends, D
  <2>5. SumOn(T, B \cup {k}) <= SumOn(T, D) /\ Sums(T, B \cup {k})
    BY <1>1, <2>2, SumLess, SumsPart
  <2>6. SumOn(T, B \cup {k}) = T[k] + SumOn(T, B)
    BY <2>2, <2>5, SumAdd
  <2>7. SumOn(T, B) \in Nat
    <3>1. Sums(T, B)
      BY <2>5, SumsPart
    <3> QED
      BY <3>1, SumNat
  <2>8. SumOn(T, B) + T[k] <= t
    BY <1>1, <2>4, <2>5, <2>6, <2>7
  <2>9. ends[k] = off + SumOn(T, B) + T[k] \div 2
    BY <2>1, <2>3, <2>4
  <2>10. T[k] \div 2 \in Nat /\ 2 * (T[k] \div 2) <= T[k]
    BY <2>4
  <2> QED
    BY <1>3, <2>4, <2>7, <2>8, <2>9, <2>10
<1> QED
  BY <1>4 DEF Meet

\* Ribbons are from 3 to 46 pixels thick.
LEMMA ThickIs == ASSUME NEW n \in Nat PROVE Thick(n) \in Nat /\ 300 <= Thick(n) /\ Thick(n) <= 4600
<1>1. Smaller(4600, 300 + n * 115) \in Nat /\ Smaller(4600, 300 + n * 115) <= 4600
  BY DEF Smaller
<1> QED
  BY <1>1 DEF Thick, Larger

\* So are those of lanes.
LEMMA ThickAll ==
  ASSUME NEW L, NEW S, \A i \in S : L[i].count \in Nat
  PROVE  \A i \in S : Thick(L[i].count) \in Nat /\ Thick(L[i].count) <= 4600
BY ThickIs

\* The lanes of a picture as ribbons.
LEMMA RibbonsAre ==
  ASSUME NEW L \in Seq(LaneSet), \A i \in DOMAIN L : L[i].count > 0, NEW S, S \subseteq DOMAIN L
  PROVE  /\ IsRibbons(Ribbons(L, S)) /\ DOMAIN Ribbons(L, S) = S
         /\ \A i \in S : Ribbons(L, S)[i] = [t |-> Thick(L[i].count), y |-> L[i].anchorY, n |-> L[i].count]
         /\ \A i \in S : Thick(L[i].count) \in Nat /\ Thick(L[i].count) <= 4600 /\ L[i].count \in Nat
         /\ IsFiniteSet(S) /\ Cardinality(S) \in Nat
         /\ InT(Ribbons(L, S)) \in Nat /\ InT(Ribbons(L, S)) <= 4600 * Cardinality(S)
<1>1. Len(L) \in Nat /\ DOMAIN L = 1..Len(L) /\ \A i \in DOMAIN L : L[i] \in LaneSet
  OBVIOUS
<1>2. \A i \in S : L[i].count \in Nat /\ L[i].anchorY \in Nat
  BY <1>1 DEF LaneSet
<1>3. \A i \in S : Thick(L[i].count) \in Nat /\ Thick(L[i].count) <= 4600
  BY <1>2, ThickAll
<1>4. IsFiniteSet(S) /\ Cardinality(S) \in Nat
  BY <1>1, Finite, FS_Subset, FS_CardinalityType
<1> DEFINE r == Ribbons(L, S)
<1>5. DOMAIN r = S /\ \A i \in S : r[i] = [t |-> Thick(L[i].count), y |-> L[i].anchorY, n |-> L[i].count]
  BY DEF Ribbons
<1> HIDE DEF r
<1>6. IsRibbons(r)
  <2>1. \A i \in S : r[i].t \in Nat /\ r[i].y \in Int
    <3>1. \A i \in S : r[i].t = Thick(L[i].count) /\ r[i].y = L[i].anchorY
      BY <1>5
    <3> QED
      BY <1>2, <1>3, <3>1
  <2>2. S \subseteq Int
    BY <1>1
  <2> QED
    BY <1>4, <1>5, <2>1, <2>2 DEF IsRibbons
<1>7. Sums(ThicknessOf(r), S) /\ InT(r) = SumOn(ThicknessOf(r), S) /\ InT(r) \in Nat
  BY <1>5, <1>6, InTIs
<1>8. \A i \in S : ThicknessOf(r)[i] <= 4600
  <2>1. \A i \in S : ThicknessOf(r)[i] = Thick(L[i].count)
    BY <1>5 DEF ThicknessOf
  <2> QED
    BY <1>3, <2>1
<1>9. SumOn(ThicknessOf(r), S) <= 4600 * Cardinality(S)
  BY <1>7, <1>8, SumBound
<1> QED
  BY <1>2, <1>3, <1>4, <1>5, <1>6, <1>7, <1>9 DEF r

\* Sums as the properties write them.
LEMMA SumAt == ASSUME NEW f, NEW S, Sums(f, S) PROVE Sum(S, LAMBDA i : f[i]) = SumOn(f, S)
<1> DEFINE e == [i \in S |-> f[i]]
<1>1. Sum(S, LAMBDA i : f[i]) = Seqs!SumFunction(e)
  BY DEF Sum
<1>2. DOMAIN e = S /\ \A i \in S : e[i] = f[i]
  OBVIOUS
<1> HIDE DEF e
<1>3. SumOn(e, S) = SumOn(f, S)
  BY <1>2, SumSame
<1>4. Seqs!SumFunction(e) = SumOn(e, S)
  BY <1>2, SumIsFunction
<1> QED
  BY <1>1, <1>3, <1>4

\* Adding c to each value.
LEMMA SumPlus ==
  ASSUME NEW f, NEW S, Sums(f, S), NEW c \in Nat
  PROVE  LET g == [x \in S |-> f[x] + c] IN
         Sums(g, S) /\ SumOn(g, S) = SumOn(f, S) + c * Cardinality(S)
<1> DEFINE g == [x \in S |-> f[x] + c]
           P == {T \in SUBSET S : SumOn(g, T) = SumOn(f, T) + c * Cardinality(T)}
<1>1. \A x \in S : g[x] = f[x] + c /\ g[x] \in Nat /\ f[x] \in Nat
  BY DEF Sums
<1>2. Sums(g, S)
  BY <1>1 DEF Sums
<1> HIDE DEF g
<1>3. {} \in P
  BY SumEmpty, FS_EmptySet
<1>4. ASSUME NEW T \in SUBSET S, T \in P, NEW x \in S \ T PROVE T \cup {x} \in P
  <2>1. SumOn(f, T) \in Nat /\ SumOn(g, T) \in Nat
    BY <1>2, SumsPart, SumNat
  <2>2. SumOn(f, T \cup {x}) = f[x] + SumOn(f, T)
    BY SumWith
  <2>3. SumOn(g, T \cup {x}) = g[x] + SumOn(g, T)
    BY <1>2, SumWith
  <2>4. Cardinality(T \cup {x}) = Cardinality(T) + 1 /\ Cardinality(T) \in Nat
    <3>1. IsFiniteSet(T)
      BY FS_Subset DEF Sums
    <3> QED
      BY <3>1, FS_AddElement, FS_CardinalityType
  <2>5. c * Cardinality(T \cup {x}) = c * Cardinality(T) + c /\ c * Cardinality(T) \in Nat
    BY <2>4
  <2> QED
    BY <1>1, <1>4, <2>1, <2>2, <2>3, <2>5
<1>5. S \in P
  <2>1. IsFiniteSet(S)
    BY DEF Sums
  <2> HIDE DEF P
  <2> QED
    BY <1>3, <1>4, <2>1, FinInd
<1> QED
  BY <1>2, <1>5 DEF g

-----------------------------------------------------------------------------
(* The lanes of a picture.                                                 *)

\* How thick the ribbons of lanes are.
Thicks(L) == [i \in DOMAIN L |-> Thick(L[i].count)]
AreLanes(L) == L \in Seq(LaneSet) /\ \A i \in DOMAIN L : L[i].count > 0

\* Both can be summed.
LEMMA LanesSum ==
  ASSUME NEW L, AreLanes(L)
  PROVE  /\ Sums(Thicks(L), DOMAIN L) /\ Sums(CountsOf(L), DOMAIN L)
         /\ DOMAIN L = 1..Len(L) /\ Len(L) \in Nat /\ Cardinality(DOMAIN L) = Len(L)
         /\ \A i \in DOMAIN L : 300 <= Thicks(L)[i] /\ Thicks(L)[i] <= 4600
<1>1. L \in Seq(LaneSet)
  BY DEF AreLanes
<1>2. Len(L) \in Nat /\ DOMAIN L = 1..Len(L) /\ \A i \in DOMAIN L : L[i] \in LaneSet
  BY <1>1
<1>3. \A i \in DOMAIN L : L[i].count \in Nat
  BY <1>2 DEF LaneSet
<1>4. \A i \in DOMAIN L : /\ Thick(L[i].count) \in Nat
                          /\ 300 <= Thick(L[i].count) /\ Thick(L[i].count) <= 4600
  BY <1>3, ThickIs
<1>5. IsFiniteSet(DOMAIN L)
  BY <1>2, Finite
<1>6. Cardinality(1..Len(L)) = Len(L)
  BY <1>2, Finite
<1>7. Sums(CountsOf(L), DOMAIN L)
  BY <1>1, LanesSums
<1>8. \A i \in DOMAIN L : Thicks(L)[i] = Thick(L[i].count)
  BY DEF Thicks
<1> QED
  BY <1>2, <1>4, <1>5, <1>6, <1>7, <1>8 DEF Sums

\* The sums of ribbons are sums over their lanes.
LEMMA RibbonsSum ==
  ASSUME NEW L, AreLanes(L), NEW S, S \subseteq DOMAIN L
  PROVE  /\ InT(Ribbons(L, S)) = SumOn(Thicks(L), S) /\ InN(Ribbons(L, S)) = SumOn(CountsOf(L), S)
         /\ InT(Ribbons(L, S)) \in Nat /\ InN(Ribbons(L, S)) \in Nat
<1> DEFINE r == Ribbons(L, S)
<1>1. DOMAIN r = S /\ \A i \in S : r[i].t = Thick(L[i].count) /\ r[i].n = L[i].count
  BY DEF Ribbons
<1> HIDE DEF r
<1>2. Sums(Thicks(L), S) /\ Sums(CountsOf(L), S)
  BY LanesSum, SumsPart
<1>3. \A i \in S : ThicknessOf(r)[i] = Thicks(L)[i] /\ SizesOf(r)[i] = CountsOf(L)[i]
  BY <1>1 DEF ThicknessOf, SizesOf, Thicks, CountsOf
<1>4. SumOn(ThicknessOf(r), S) = SumOn(Thicks(L), S) /\ SumOn(SizesOf(r), S) = SumOn(CountsOf(L), S)
  BY <1>2, <1>3, SumSame
<1>5. InT(r) = SumOn(ThicknessOf(r), S)
  BY <1>1, InTIs
<1>6. InN(r) = SumOn(SizesOf(r), S)
  BY <1>1, CountIs DEF InN, CountOf
<1>7. SumOn(Thicks(L), S) \in Nat /\ SumOn(CountsOf(L), S) \in Nat
  BY <1>2, SumNat
<1> QED
  BY <1>4, <1>5, <1>6, <1>7 DEF r

\* The middle of ribbons is a natural.
LEMMA CentreNat ==
  ASSUME NEW L, AreLanes(L), NEW S, S \subseteq DOMAIN L
  PROVE  Centre(Ribbons(L, S)) \in Nat
<1> DEFINE r == Ribbons(L, S)  f == [i \in S |-> r[i].y * r[i].t]  t == InT(r)
<1>1. DOMAIN r = S /\ IsFiniteSet(S) /\ \A i \in S : r[i].t \in Nat /\ r[i].y \in Nat
  <2>1. DOMAIN r = S /\ \A i \in S : r[i].t = Thick(L[i].count) /\ r[i].y = L[i].anchorY
    BY DEF Ribbons
  <2>2. \A i \in S : L[i] \in LaneSet
    BY DEF AreLanes
  <2>3. \A i \in S : L[i].count \in Nat /\ L[i].anchorY \in Nat
    BY <2>2 DEF LaneSet
  <2>4. \A i \in S : Thick(L[i].count) \in Nat
    BY <2>3, ThickAll
  <2>5. IsFiniteSet(S)
    BY LanesSum, FS_Subset DEF Sums
  <2> HIDE DEF r
  <2> QED
    BY <2>1, <2>3, <2>4, <2>5
<1> HIDE DEF r
<1>2. t \in Nat
  BY RibbonsSum DEF r
<1>3. \A i \in S : f[i] \in Nat
  BY <1>1
<1>4. Sums(f, S) /\ DOMAIN f = S
  BY <1>1, <1>3 DEF Sums
<1>5. Total(r, LAMBDA e : e.y * e.t) = Seqs!SumFunction(f)
  BY <1>1 DEF Total, Sum
<1> HIDE DEF f, t
<1>6. Seqs!SumFunction(f) \in Nat
  BY <1>4, SumIsFunction, SumNat
<1>7. Larger(1, t) \in Nat \ {0}
  BY <1>2 DEF Larger
<1>8. Seqs!SumFunction(f) \div Larger(1, t) \in Nat
  BY <1>6, <1>7, DivMod
<1> QED
  BY <1>5, <1>8 DEF Centre, r, t

\* Boxes that are piled up have their heights, and stay on a picture that is high
\* enough for them.
LEMMA PiledFits ==
  ASSUME NEW h, NEW D, D = DOMAIN h, D \subseteq Int, Sums(h, D), NEW gap \in Nat, NEW height \in Int
  PROVE  LET p == Piled(h, gap, height)
             total == SumOn(h, D) + gap * Larger(0, Cardinality(D) - 1)
         IN /\ DOMAIN p = D /\ \A i \in D : p[i].y \in Int /\ p[i].h = h[i] /\ h[i] \in Nat
            /\ total + 1600 <= height => \A i \in D : Within(p[i], height)
<1> DEFINE p == Piled(h, gap, height)
           room == gap * Larger(0, Cardinality(D) - 1)
           total == SumOn(h, D) + room
           top == Larger(1600, (height - total) \div 2)
           below(i) == {j \in D : j < i}
           sum(i) == Seqs!SumFunction([j \in below(i) |-> h[j] + gap])
<1>1. IsFiniteSet(D) /\ Cardinality(D) \in Nat /\ SumOn(h, D) \in Nat
  BY SumNat, FS_CardinalityType DEF Sums
<1>2. DOMAIN p = D /\ \A i \in D : p[i].y = top + sum(i) /\ p[i].h = h[i]
  <2>1. Seqs!SumFunction([i \in D |-> h[i]]) = SumOn(h, D)
    <3>1. Sum(D, LAMBDA i : h[i]) = SumOn(h, D)
      BY SumAt
    <3> QED
      BY <3>1 DEF Sum
  <2> DEFINE all == Seqs!SumFunction([i \in D |-> h[i]])
  <2>2. p = [i \in D |-> [y |-> Larger(1600, (height - (all + room)) \div 2) + sum(i), h |-> h[i]]]
    BY DEF Piled, Sum
  <2>3. Larger(1600, (height - (all + room)) \div 2) = top
    BY <2>1
  <2> HIDE DEF p, top, sum, all, room
  <2> QED
    BY <2>2, <2>3
<1>3. ASSUME NEW i \in D
      PROVE  sum(i) = SumOn(h, below(i)) + gap * Cardinality(below(i)) /\ SumOn(h, below(i)) \in Nat
             /\ Cardinality(below(i)) \in Nat /\ Cardinality(below(i)) <= Cardinality(D) - 1
             /\ SumOn(h, below(i)) + h[i] <= SumOn(h, D)
  <2> DEFINE B == below(i)  g == [x \in B |-> h[x] + gap]
  <2>1. B \subseteq D /\ i \notin B /\ B \cup {i} \subseteq D
    OBVIOUS
  <2>2. sum(i) = Seqs!SumFunction(g)
    OBVIOUS
  <2>3. DOMAIN g = B
    OBVIOUS
  <2> HIDE DEF B
  <2>4. Sums(h, B) /\ Sums(h, B \cup {i})
    BY <2>1, SumsPart
  <2>5. SumOn(g, B) = SumOn(h, B) + gap * Cardinality(B)
    BY <2>4, SumPlus
  <2> HIDE DEF g
  <2>6. Seqs!SumFunction(g) = SumOn(g, B)
    BY <2>3, SumIsFunction
  <2>7. SumOn(h, B \cup {i}) = h[i] + SumOn(h, B) /\ SumOn(h, B) \in Nat /\ h[i] \in Nat
    BY <2>1, <2>4, SumAdd, SumNat DEF Sums
  <2>8. SumOn(h, B \cup {i}) <= SumOn(h, D)
    BY <2>1, SumLess
  <2>9. Cardinality(B) \in Nat /\ Cardinality(B) <= Cardinality(D) - 1
    <3>1. D \ {i} \subseteq D /\ B \subseteq D \ {i}
      BY <2>1
    <3>2. Cardinality(D \ {i}) = Cardinality(D) - 1 /\ IsFiniteSet(D \ {i})
      BY <1>1, FS_RemoveElement
    <3>3. Cardinality(B) <= Cardinality(D \ {i}) /\ IsFiniteSet(B)
      BY <3>1, <3>2, FS_Subset
    <3> QED
      BY <3>2, <3>3, FS_CardinalityType
  <2>10. SumOn(h, B) + h[i] <= SumOn(h, D)
    BY <2>7, <2>8
  <2> QED
    BY <2>2, <2>5, <2>6, <2>7, <2>9, <2>10 DEF B
<1>4. \A i \in D : h[i] \in Nat
  BY DEF Sums
<1>5. Larger(0, Cardinality(D) - 1) \in Nat /\ Larger(0, Cardinality(D) - 1) >= Cardinality(D) - 1
  BY <1>1 DEF Larger
<1>6. room \in Nat
  BY <1>5
<1>7. ASSUME NEW i \in D
      PROVE sum(i) \in Nat /\ sum(i) + h[i] <= total
  <2> DEFINE c == Cardinality(below(i))  l == Larger(0, Cardinality(D) - 1)  s == SumOn(h, below(i))
  <2>1. c \in Nat /\ l \in Nat /\ c <= l
    <3>1. c \in Nat /\ c <= Cardinality(D) - 1
      BY <1>3
    <3>2. l \in Nat /\ l >= Cardinality(D) - 1
      BY <1>5
    <3> HIDE DEF c, l
    <3> QED
      BY <1>1, <3>1, <3>2
  <2>2. sum(i) = s + gap * c /\ s \in Nat /\ s + h[i] <= SumOn(h, D)
    BY <1>3
  <2> HIDE DEF c, l, s
  <2>3. gap * c \in Nat /\ gap * c <= gap * l
    BY <2>1
  <2>4. room = gap * l
    BY DEF l
  <2> HIDE DEF sum, room
  <2>5. h[i] \in Nat /\ SumOn(h, D) \in Nat
    BY <1>1, <1>4
  <2> QED
    BY <1>6, <2>2, <2>3, <2>4, <2>5
<1> HIDE DEF p, room, sum
<1>8. total \in Nat
  BY <1>1, <1>6
<1> HIDE DEF total
<1>9. top \in Nat /\ top >= 1600 /\ (total + 1600 <= height => top + total <= height)
  <2>1. (height - total) \div 2 \in Int
    BY <1>8
  <2>2. total + 1600 <= height =>
          (height - total) \div 2 \in Nat /\ 2 * ((height - total) \div 2) <= height - total
    BY <1>8
  <2> DEFINE d == (height - total) \div 2
  <2> HIDE DEF d
  <2>3. top = Larger(1600, d)
    BY DEF d
  <2>4. d \in Int /\ (total + 1600 <= height => d \in Nat /\ 2 * d <= height - total)
    BY <2>1, <2>2 DEF d
  <2> QED
    BY <1>8, <2>3, <2>4 DEF Larger
<1> HIDE DEF top
<1>10. DOMAIN p = D /\ \A i \in D : p[i].y = top + sum(i) /\ p[i].h = h[i]
  BY <1>2
<1>11. ASSUME total + 1600 <= height, NEW i \in D PROVE Within(p[i], height)
  BY <1>4, <1>7, <1>8, <1>9, <1>10, <1>11 DEF Within
<1>12. \A i \in D : p[i].y \in Int
  BY <1>7, <1>9, <1>10
<1> QED
  BY <1>4, <1>10, <1>11, <1>12 DEF p, total, room

-----------------------------------------------------------------------------
(* The fleet map.                                                          *)

\* The fields of the two maps.
FleetWidth == FieldWidth((W * 7) \div 10, 15000)
NetworkWidth == FieldWidth((W * 6) \div 10, 12000)

\* Each is wide enough for a tile, however narrow the drawing is.
LEMMA WidthsHold ==
  ASSUME Sizes
  PROVE  FleetWidth \in Nat /\ FleetWidth >= TILE /\ NetworkWidth \in Nat /\ NetworkWidth >= TILE
<1>1. W \in Int /\ W >= 110000
  BY DEF Sizes, W, Larger
<1>2. (W * 7) \div 10 \in Int /\ (W * 7) \div 10 >= 77000
  BY <1>1
<1>3. (W * 6) \div 10 \in Int /\ (W * 6) \div 10 >= 66000
  BY <1>1
<1> DEFINE a == (W * 7) \div 10  b == (W * 6) \div 10
<1> HIDE DEF a, b
<1>4. FleetWidth = a - 15000 - 26200 /\ NetworkWidth = b - 12000 - 26200
  BY DEF FleetWidth, NetworkWidth, FieldWidth, FieldX, a, b
<1>5. a \in Int /\ a >= 77000 /\ b \in Int /\ b >= 66000
  BY <1>2, <1>3 DEF a, b
<1> QED
  BY <1>4, <1>5 DEF TILE

\* The lanes that kinds of instances are in.
MapBackends == {"claude-max", "ghcopilot", "github-copilot", "local-llm"}
FleetLanes(L) == AreLanes(L) /\ \A i \in DOMAIN L : L[i].id \in MapBackends

\* Good bands have good lanes, none of them empty.
LEMMA LanesGood ==
  ASSUME NEW laid, NEW done, NEW ids, NEW groupsOf, NEW width, GoodBands(laid, done, ids, groupsOf, width)
  PROVE  /\ AreLanes(laid.lanes) /\ laid.y \in Nat
         /\ \A i \in DOMAIN laid.lanes :
              LET l == laid.lanes[i] IN
              l.host \in Hosts2 /\ l.id \in DOMAIN groupsOf[l.host] /\ CountOf(groupsOf[l.host][l.id]) > 0
<1>1. GoodLanes(laid, groupsOf, width)
  BY DEF GoodBands
<1>2. laid.lanes \in Seq(LaneSet) /\ laid.y \in Nat
      /\ \A i \in DOMAIN laid.lanes : GoodLane(laid.lanes[i], groupsOf, width)
  BY <1>1 DEF GoodLanes
<1>3. \A i \in DOMAIN laid.lanes : laid.lanes[i] \in LaneSet
  BY <1>2
<1>4. \A i \in DOMAIN laid.lanes : laid.lanes[i].host \in Hosts2
  BY <1>3 DEF LaneSet
<1> QED
  BY <1>2, <1>4 DEF GoodLane, AreLanes

\* A sum above zero is not that of nothing.
LEMMA SomeKind ==
  ASSUME NEW c, NEW S, SumOn(c, S) > 0
  PROVE  S # {}
  BY SumEmpty

\* The bands of the fleet map are right, and high enough for their lanes.
LEMMA FleetBandsHold ==
  ASSUME Sizes, MapTypeOK
  PROVE  LET boxed == {h \in Hosts2 : Passes(h)} IN
         /\ TilesApart(FleetBands, FleetWidth) /\ Counted(FleetBands.lanes, Sum(boxed, All))
         /\ FleetLanes(FleetBands.lanes) /\ InLanes(FleetBands.lanes) = Sum(boxed, All)
         /\ FleetBands.y \in Nat /\ FleetBands.y >= 1800 + Room(Len(FleetBands.lanes))
<1> DEFINE boxed == {h \in Hosts2 : Passes(h)}  laid == FleetBands
<1>1. boxed \in SUBSET Hosts2
  OBVIOUS
<1>2. laid = Bands(boxed, LANES, FleetGroups, FleetWidth)
  BY DEF FleetBands, FleetWidth
<1> HIDE DEF boxed, laid
<1>3. /\ AllGroups(LANES, FleetGroups)
      /\ \A h \in Hosts2 : PerHost(LANES, FleetGroups)[h] = SumOn(count[h], KindIds)
  BY FleetAll
<1>4. FleetWidth \in Nat /\ FleetWidth >= TILE
  BY WidthsHold
<1>5. GoodBands(laid, boxed, LANES, FleetGroups, FleetWidth)
  BY <1>1, <1>2, <1>3, <1>4, BandsGood
<1>6. Sum(boxed, All) = SumOn(PerHost(LANES, FleetGroups), boxed)
  BY <1>1, <1>3, AllIs
<1>7. TilesApart(laid, FleetWidth) /\ Counted(laid.lanes, Sum(boxed, All))
  BY <1>5, <1>6, BandsShow
<1>8. InLanes(laid.lanes) = Sum(boxed, All) /\ laid.y >= 1800 + Room(Len(laid.lanes))
  BY <1>5, <1>6 DEF GoodBands
<1>9. FleetLanes(laid.lanes) /\ laid.y \in Nat
  <2> DEFINE L == laid.lanes
  <2>1. /\ AreLanes(L) /\ laid.y \in Nat
        /\ \A i \in DOMAIN L : /\ L[i].host \in Hosts2 /\ L[i].id \in DOMAIN FleetGroups[L[i].host]
                               /\ CountOf(FleetGroups[L[i].host][L[i].id]) > 0
    BY <1>5, LanesGood
  <2> HIDE DEF L
  <2>2. ASSUME NEW i \in DOMAIN L PROVE L[i].id \in MapBackends
    <3> DEFINE h == L[i].host  id == L[i].id
    <3>1. h \in Hosts2 /\ id \in DOMAIN FleetGroups[h] /\ CountOf(FleetGroups[h][id]) > 0
      BY <2>1
    <3> HIDE DEF h, id
    <3>2. id \in Seqs!ToSet(LANES)
      BY <3>1 DEF FleetGroups
    <3>3. CountOf(FleetGroups[h][id]) = SumOn(count[h], {k \in KindIds : Kinds[k][1] = id})
      BY <3>1, <3>2, FleetLane
    <3>4. {k \in KindIds : Kinds[k][1] = id} # {}
      BY <3>1, <3>3, SomeKind
    <3>5. id \in MapBackends
      BY <3>4, KindsAre DEF MapBackends
    <3> QED
      BY <3>5 DEF id
  <2> QED
    BY <2>1, <2>2 DEF FleetLanes, L
<1> QED
  BY <1>7, <1>8, <1>9 DEF boxed, laid

\* Lanes end at three providers at most, each of them at one.
LEMMA LanesTo ==
  ASSUME NEW L, FleetLanes(L)
  PROVE  /\ DOMAIN PROVIDERS = 1..5 /\ Used(L) \subseteq {1, 3, 4} /\ Split(L) \subseteq Used(L)
         /\ IsFiniteSet(Used(L)) /\ Cardinality(Used(L)) \in 0..3
         /\ IsFiniteSet(Split(L)) /\ Cardinality(Split(L)) \in 0..3
         /\ \A p \in Used(L) : To(L, p) \subseteq DOMAIN L /\ To(L, p) # {}
         /\ \A p, q \in Used(L) : p # q => To(L, p) \cap To(L, q) = {}
         /\ DOMAIN L = UNION {To(L, p) : p \in Used(L)}
         /\ ViaRouter(L) \subseteq DOMAIN L
<1>1. /\ DOMAIN PROVIDERS = 1..5 /\ PROVIDERS[1] = "max" /\ PROVIDERS[2] = "anthropic"
      /\ PROVIDERS[3] = "github" /\ PROVIDERS[4] = "gpu" /\ PROVIDERS[5] = "azure"
  BY DEF PROVIDERS
<1>2. \A i \in DOMAIN L : ProviderOf(L[i].id) \in {"max", "github", "gpu"}
  <2>1. \A i \in DOMAIN L : L[i].id \in MapBackends
    BY DEF FleetLanes
  <2>2. \A id \in MapBackends : ProviderOf(id) \in {"max", "github", "gpu"}
    BY DEF MapBackends, ProviderOf
  <2> QED
    BY <2>1, <2>2
<1>3. \A p \in 1..5 : p # 2 /\ p # 5 => p \in {1, 3, 4}
  OBVIOUS
<1>4. Used(L) \subseteq {1, 3, 4}
  <2>1. \A p \in Used(L) : p \in 1..5 /\ PROVIDERS[p] \in {"max", "github", "gpu"}
    BY <1>1, <1>2 DEF Used, To
  <2> QED
    BY <1>1, <1>3, <2>1
<1>5. Split(L) \subseteq Used(L)
  BY DEF Split, Used
<1>6. IsFiniteSet({1, 3, 4}) /\ Cardinality({1, 3, 4}) <= 3
  <2>1. IsFiniteSet({1}) /\ Cardinality({1}) = 1
    BY FS_Singleton
  <2>2. IsFiniteSet({1} \cup {3}) /\ Cardinality({1} \cup {3}) = 2
    BY <2>1, FS_AddElement
  <2>3. IsFiniteSet(({1} \cup {3}) \cup {4}) /\ Cardinality(({1} \cup {3}) \cup {4}) = 3
    BY <2>2, FS_AddElement
  <2>4. ({1} \cup {3}) \cup {4} = {1, 3, 4}
    OBVIOUS
  <2> QED
    BY <2>3, <2>4
<1>7. \A S : S \subseteq {1, 3, 4} => IsFiniteSet(S) /\ Cardinality(S) \in 0..3
  <2> TAKE S
  <2> HAVE S \subseteq {1, 3, 4}
  <2>1. IsFiniteSet(S) /\ Cardinality(S) <= Cardinality({1, 3, 4})
    BY <1>6, FS_Subset
  <2>2. Cardinality(S) \in Nat /\ Cardinality({1, 3, 4}) \in Nat
    BY <1>6, <2>1, FS_CardinalityType
  <2> QED
    BY <1>6, <2>1, <2>2
<1>8. \A p, q \in Used(L) : p # q => PROVIDERS[p] # PROVIDERS[q]
  BY <1>1, <1>4
<1>9. \A p, q \in Used(L) : p # q => To(L, p) \cap To(L, q) = {}
  BY <1>8 DEF To
<1>10. \A p \in Used(L) : To(L, p) \subseteq DOMAIN L /\ To(L, p) # {}
  BY DEF To, Used
<1>11. ASSUME NEW i \in DOMAIN L PROVE \E p \in Used(L) : i \in To(L, p)
  <2>1. PICK p \in 1..5 : ProviderOf(L[i].id) = PROVIDERS[p]
    BY <1>1, <1>2
  <2>2. i \in To(L, p)
    BY <2>1 DEF To
  <2> QED
    BY <1>1, <2>2 DEF Used
<1>12. DOMAIN L = UNION {To(L, p) : p \in Used(L)}
  BY <1>10, <1>11
<1>13. ViaRouter(L) \subseteq DOMAIN L
  BY DEF ViaRouter
<1> QED
  BY <1>1, <1>4, <1>5, <1>7, <1>9, <1>10, <1>12, <1>13

\* The picture is high enough for n lanes.
High(height, n) == height \in Nat /\ height >= 52000 /\ height >= 2800 + Room(n)

\* A lane is thinner than 46 pixels.
LEMMA RibbonsLeq ==
  ASSUME NEW L, AreLanes(L), NEW S, S \subseteq DOMAIN L
  PROVE  SumOn(Thicks(L), S) \in Nat /\ SumOn(Thicks(L), S) <= 4600 * Len(L)
<1>1. Sums(Thicks(L), DOMAIN L) /\ Cardinality(DOMAIN L) = Len(L) /\ Len(L) \in Nat
  BY LanesSum
<1>2. \A i \in DOMAIN L : Thicks(L)[i] <= 4600
  BY LanesSum
<1>3. SumOn(Thicks(L), DOMAIN L) <= 4600 * Cardinality(DOMAIN L)
  BY <1>1, <1>2, SumBound
<1>4. SumOn(Thicks(L), S) <= SumOn(Thicks(L), DOMAIN L)
  BY <1>1, SumLess
<1>5. SumOn(Thicks(L), DOMAIN L) \in Nat /\ SumOn(Thicks(L), S) \in Nat
  BY <1>1, SumsPart, SumNat
<1> QED
  BY <1>1, <1>3, <1>4, <1>5

\* The router is on the canvas and as high as the ribbons that enter it.
LEMMA RouterFits ==
  ASSUME NEW L, FleetLanes(L), NEW height, High(height, Len(L))
  PROVE  LET router == Router(L, height)  t == InT(Ribbons(L, ViaRouter(L))) IN
         /\ router.y \in Int /\ router.h \in Int /\ Within(router, height)
         /\ t = SumOn(Thicks(L), ViaRouter(L)) /\ t \in Nat /\ t <= router.h
<1> DEFINE into == Ribbons(L, ViaRouter(L))
           t == InT(into)  s == Cardinality(Split(L))  n == Len(L)
           h == RouterH(t, s)
           centre == IF ViaRouter(L) = {} THEN height \div 2 ELSE Centre(into)
           router == Router(L, height)
<1>1. AreLanes(L) /\ ViaRouter(L) \subseteq DOMAIN L /\ s \in 0..3 /\ n \in Nat
  <2>1. AreLanes(L)
    BY DEF FleetLanes
  <2>2. n \in Nat
    BY <2>1, LanesSum
  <2>3. ViaRouter(L) \subseteq DOMAIN L /\ s \in 0..3
    BY LanesTo
  <2> QED
    BY <2>1, <2>2, <2>3
<1>2. t = SumOn(Thicks(L), ViaRouter(L)) /\ t \in Nat /\ t <= 4600 * n
  BY <1>1, RibbonsSum, RibbonsLeq
<1>3. Centre(into) \in Nat
  BY <1>1, CentreNat
<1>4. height \in Nat /\ height >= 52000 /\ height >= 2800 + Room(n)
  BY DEF High
<1>5. router = [y |-> Larger(1600, Smaller(height - h - 1600, centre - h \div 2)), h |-> h]
  BY DEF Router
<1>6. centre \in Int
  BY <1>3, <1>4
<1> HIDE DEF into, t, s, n, centre, router
<1>7. h \in Nat /\ t <= h /\ h + 1600 <= height
  <2>1. RouterH(t, s) = Larger(Larger(12000, t + 6000), 9600 + 2200 * s)
    BY DEF RouterH
  <2>2. 9600 + 2200 * s \in Nat /\ 9600 + 2200 * s <= 16200
    BY <1>1
  <2>3. t + 7600 <= height
    <3>1. Room(n) = 7900 * n
      BY DEF Room
    <3> QED
      BY <1>1, <1>2, <1>4, <3>1
  <2> DEFINE w == 9600 + 2200 * s
  <2> HIDE DEF w
  <2>4. h = Larger(Larger(12000, t + 6000), w) /\ w \in Nat /\ w <= 16200
    BY <2>1, <2>2 DEF w
  <2> QED
    BY <1>2, <1>4, <2>3, <2>4 DEF Larger
<1> HIDE DEF h
<1>8. centre - h \div 2 \in Int
  BY <1>6, <1>7
<1> DEFINE c == centre - h \div 2
<1> HIDE DEF c
<1>9. router.y = Larger(1600, Smaller(height - h - 1600, c)) /\ router.h = h /\ c \in Int
  BY <1>5, <1>8 DEF c
<1>10. router.y \in Int /\ 0 <= router.y /\ router.y + h <= height
  BY <1>4, <1>7, <1>9 DEF Larger, Smaller
<1> QED
  BY <1>2, <1>7, <1>9, <1>10 DEF Within, router, t, into

\* A provider gets its lanes, each directly or in the ribbon from the router.
LEMMA IntoIs ==
  ASSUME NEW L, FleetLanes(L), NEW p \in Used(L), NEW router, router.y \in Int, router.h \in Int
  PROVE  LET r == IntoProvider(L, p, router) IN
         /\ IsRibbons(r) /\ InT(r) = SumOn(Thicks(L), To(L, p)) /\ InN(r) = SumOn(CountsOf(L), To(L, p))
         /\ p \in Split(L) =>
              0 \in DOMAIN r /\ r[0].t = SumOn(Thicks(L), To(L, p) \cap ViaRouter(L)) /\ r[0].t \in Nat
<1> DEFINE A == To(L, p) \cap ViaRouter(L)  B == To(L, p) \ ViaRouter(L)  Z == {k \in {0} : p \in Split(L)}
           routed == Ribbons(L, A)  r == IntoProvider(L, p, router)
           t == InT(routed)  n == InN(routed)  y == router.y + router.h \div 2
<1>1. AreLanes(L) /\ To(L, p) \subseteq DOMAIN L /\ ViaRouter(L) \subseteq DOMAIN L
  BY LanesTo DEF FleetLanes
<1>2. A \subseteq DOMAIN L /\ B \subseteq DOMAIN L /\ A \cap B = {} /\ A \cup B = To(L, p)
  BY <1>1
<1>3. /\ t = SumOn(Thicks(L), A) /\ t \in Nat /\ n = SumOn(CountsOf(L), A) /\ n \in Nat
  BY <1>1, <1>2, RibbonsSum
<1>4. y \in Int
  OBVIOUS
<1>5. Sums(Thicks(L), DOMAIN L) /\ Sums(CountsOf(L), DOMAIN L) /\ DOMAIN L = 1..Len(L) /\ Len(L) \in Nat
  BY <1>1, LanesSum
<1>6. p \in Split(L) <=> A # {}
  BY DEF Split, Used
<1>7. r = [i \in B \cup Z |-> IF i = 0 THEN [t |-> t, y |-> y, n |-> n] ELSE Ribbons(L, {i})[i]]
  BY DEF IntoProvider
<1>8. \A i \in B : Ribbons(L, {i})[i] = [t |-> Thick(L[i].count), y |-> L[i].anchorY, n |-> L[i].count]
  BY DEF Ribbons
<1>9. 0 \notin B /\ 0 \notin DOMAIN L
  BY <1>2, <1>5
<1> HIDE DEF r, t, n, y, routed
<1>10. DOMAIN r = B \cup Z
  BY <1>7
<1>11. \A i \in B : /\ r[i].t = Thick(L[i].count) /\ r[i].y = L[i].anchorY /\ r[i].n = L[i].count
  <2>1. ASSUME NEW i \in B
        PROVE  r[i].t = Thick(L[i].count) /\ r[i].y = L[i].anchorY /\ r[i].n = L[i].count
    <3>1. i # 0 /\ i \in B \cup Z
      BY <1>9
    <3>2. r[i] = Ribbons(L, {i})[i]
      <4> HIDE DEF B, Z
      <4> QED
        BY <1>7, <3>1
    <3>3. r[i] = [t |-> Thick(L[i].count), y |-> L[i].anchorY, n |-> L[i].count]
      BY <1>8, <3>2
    <3> QED
      BY <3>3
  <2> HIDE DEF B
  <2> QED
    BY <2>1
<1>12. 0 \in Z => r[0].t = t /\ r[0].y = y /\ r[0].n = n
  BY <1>7
<1> HIDE DEF A, B
<1>13. Z = IF A = {} THEN {} ELSE {0}
  BY <1>6
<1> HIDE DEF Z
<1>14. \A i \in DOMAIN L : Thick(L[i].count) \in Nat /\ L[i].anchorY \in Nat /\ L[i].count \in Nat
  <2>1. \A i \in DOMAIN L : L[i] \in LaneSet
    BY <1>1 DEF AreLanes
  <2>2. \A i \in DOMAIN L : L[i].anchorY \in Nat /\ L[i].count \in Nat
    BY <2>1 DEF LaneSet
  <2> QED
    BY <2>2, ThickAll
<1>15. IsFiniteSet(B)
  BY <1>2, <1>5, FS_Subset DEF Sums
<1>16. IsFiniteSet(B \cup Z) /\ B \cup Z \subseteq Int
  <2>1. IsFiniteSet(B \cup {0})
    BY <1>15, FS_AddElement
  <2>2. B \subseteq Int
    BY <1>2, <1>5
  <2> QED
    BY <1>13, <1>15, <2>1, <2>2
<1>17. \A i \in B \cup Z : r[i].t \in Nat /\ r[i].y \in Int /\ r[i].n \in Nat
  <2>1. \A i \in B : r[i].t \in Nat /\ r[i].y \in Int /\ r[i].n \in Nat
    BY <1>2, <1>11, <1>14
  <2>2. \A i \in Z : r[i].t \in Nat /\ r[i].y \in Int /\ r[i].n \in Nat
    BY <1>3, <1>4, <1>12, <1>13
  <2> QED
    BY <2>1, <2>2
<1>18. IsRibbons(r)
  BY <1>10, <1>16, <1>17 DEF IsRibbons
<1>19. ASSUME NEW f, \A i \in DOMAIN r : f[i] \in Nat, NEW g, Sums(g, DOMAIN L), \A i \in B : f[i] = g[i],
              0 \in Z => f[0] = SumOn(g, A)
       PROVE  SumOn(f, DOMAIN r) = SumOn(g, To(L, p))
  <2>1. Sums(f, B \cup Z)
    BY <1>10, <1>16, <1>19 DEF Sums
  <2>2. Sums(g, A) /\ Sums(g, B) /\ Sums(g, A \cup B)
    BY <1>2, <1>19, SumsPart
  <2>3. SumOn(f, B) = SumOn(g, B)
    BY <1>19, <2>2, SumSame
  <2>4. SumOn(g, A \cup B) = SumOn(g, A) + SumOn(g, B)
    <3>1. (A \cup B) \ A = B /\ A \subseteq A \cup B
      BY <1>2
    <3> QED
      BY <2>2, <3>1, SumParts
  <2>5. SumOn(g, A) \in Nat /\ SumOn(g, B) \in Nat
    BY <2>2, SumNat
  <2>6. SumOn(f, B \cup Z) = SumOn(g, A \cup B)
    <3>1. CASE A = {}
      <4>1. B \cup Z = B /\ A \cup B = B
        BY <1>13, <3>1
      <4> QED
        BY <2>3, <4>1
    <3>2. CASE A # {}
      <4>1. Z = {0} /\ 0 \notin B /\ f[0] = SumOn(g, A)
        BY <1>2, <1>9, <1>13, <1>19, <3>2
      <4>2. SumOn(f, B \cup {0}) = f[0] + SumOn(f, B)
        BY <2>1, <4>1, SumAdd
      <4> QED
        BY <2>3, <2>4, <2>5, <4>1, <4>2
    <3> QED
      BY <3>1, <3>2
  <2> QED
    BY <1>2, <1>10, <2>6
<1>20. InT(r) = SumOn(Thicks(L), To(L, p))
  <2>1. \A i \in DOMAIN r : ThicknessOf(r)[i] = r[i].t
    BY DEF ThicknessOf
  <2>2. \A i \in DOMAIN r : ThicknessOf(r)[i] \in Nat
    BY <1>10, <1>17, <2>1
  <2>3. \A i \in B : ThicknessOf(r)[i] = Thicks(L)[i]
    BY <1>2, <1>10, <1>11, <2>1 DEF Thicks
  <2>4. 0 \in Z => ThicknessOf(r)[0] = SumOn(Thicks(L), A)
    BY <1>3, <1>10, <1>12, <2>1
  <2>5. SumOn(ThicknessOf(r), DOMAIN r) = SumOn(Thicks(L), To(L, p))
    BY <1>5, <1>19, <2>2, <2>3, <2>4
  <2> QED
    BY <2>5, InTIs
<1>21. InN(r) = SumOn(CountsOf(L), To(L, p))
  <2>1. \A i \in DOMAIN r : SizesOf(r)[i] = r[i].n
    BY DEF SizesOf
  <2>2. \A i \in DOMAIN r : SizesOf(r)[i] \in Nat
    BY <1>10, <1>17, <2>1
  <2>3. \A i \in B : SizesOf(r)[i] = CountsOf(L)[i]
    BY <1>2, <1>10, <1>11, <2>1 DEF CountsOf
  <2>4. 0 \in Z => SizesOf(r)[0] = SumOn(CountsOf(L), A)
    BY <1>3, <1>10, <1>12, <2>1
  <2>5. SumOn(SizesOf(r), DOMAIN r) = SumOn(CountsOf(L), To(L, p))
    BY <1>5, <1>19, <2>2, <2>3, <2>4
  <2> QED
    BY <2>5, CountIs DEF InN, CountOf
<1>22. p \in Split(L) => 0 \in DOMAIN r /\ r[0].t = SumOn(Thicks(L), A) /\ r[0].t \in Nat
  BY <1>3, <1>6, <1>10, <1>12, <1>13
<1> QED
  BY <1>18, <1>20, <1>21, <1>22 DEF r, A

\* And thicker than 3.
LEMMA SomeThick ==
  ASSUME NEW L, AreLanes(L), NEW S, S \subseteq DOMAIN L, S # {}
  PROVE  SumOn(Thicks(L), S) \in Nat /\ SumOn(Thicks(L), S) >= 300
<1> DEFINE f == Thicks(L)
<1>1. Sums(f, S) /\ \A i \in S : f[i] >= 300 /\ f[i] \in Nat
  BY LanesSum, SumsPart DEF Sums
<1>2. PICK i \in S : TRUE
  OBVIOUS
<1> HIDE DEF f
<1>3. SumOn(f, S) = f[i] + SumOn(f, S \ {i})
  BY <1>1, <1>2, SumSplit
<1>4. SumOn(f, S \ {i}) \in Nat
  BY <1>1, SumsPart, SumNat
<1> QED
  BY <1>1, <1>2, <1>3, <1>4 DEF f

\* Sums per provider, of all its lanes and of the routed ones.
ToSums(e, f, L) == \A p \in Used(L) : e[p] = SumOn(f, To(L, p))
RoutedSums(e, f, L) == \A p \in Split(L) : e[p] = SumOn(f, To(L, p) \cap ViaRouter(L))

\* The sums over providers are sums over the lanes.
LEMMA OverProviders ==
  ASSUME NEW L, FleetLanes(L), NEW f, Sums(f, DOMAIN L), NEW e, ToSums(e, f, L)
  PROVE  Sums(e, Used(L)) /\ SumOn(e, Used(L)) = SumOn(f, DOMAIN L)
<1> DEFINE U == Used(L)  A == [p \in U |-> To(L, p)]
<1>1. /\ IsFiniteSet(U) /\ DOMAIN L = UNION {To(L, p) : p \in U}
      /\ \A p \in U : To(L, p) \subseteq DOMAIN L
      /\ \A p, q \in U : p # q => To(L, p) \cap To(L, q) = {}
  BY LanesTo
<1>2. /\ \A p \in U : A[p] \subseteq DOMAIN L /\ e[p] = SumOn(f, A[p])
      /\ \A p, q \in U : p # q => A[p] \cap A[q] = {}
      /\ DOMAIN L = UNION {A[p] : p \in U}
  BY <1>1 DEF ToSums
<1> HIDE DEF U, A
<1>3. Sums(e, U) /\ SumOn(e, U) = SumOn(f, UNION {A[p] : p \in U})
  <2>1. IsFiniteSet(U)
    BY <1>1
  <2>2. Fibres(A, e, f, U, DOMAIN L)
    BY <1>2 DEF Fibres
  <2> QED
    BY <2>1, <2>2, SumFibres
<1> QED
  BY <1>2, <1>3 DEF U

\* How high the boxes of the providers are.
ProviderHeights(h, L) ==
  DOMAIN h = Used(L) /\ \A p \in Used(L) : h[p] = Larger(6400, SumOn(Thicks(L), To(L, p)) + 3400)

\* The heights of the providers fit on the picture, one below the other.
LEMMA ProvidersFit ==
  ASSUME NEW L, FleetLanes(L), NEW height, High(height, Len(L)), NEW h, ProviderHeights(h, L)
  PROVE  /\ Sums(h, Used(L)) /\ \A p \in Used(L) : SumOn(Thicks(L), To(L, p)) <= h[p]
         /\ SumOn(h, Used(L)) + 2200 * Larger(0, Cardinality(Used(L)) - 1) + 1600 <= height
<1> DEFINE U == Used(L)  f == Thicks(L)  e == [p \in U |-> SumOn(f, To(L, p))]
           n == Len(L)  u == Cardinality(U)
<1>1. AreLanes(L)
  BY DEF FleetLanes
<1>2. /\ IsFiniteSet(U) /\ u \in 0..3
      /\ \A p \in U : To(L, p) \subseteq DOMAIN L /\ To(L, p) # {}
      /\ \A p, q \in U : p # q => To(L, p) \cap To(L, q) = {}
      /\ DOMAIN L = UNION {To(L, p) : p \in U}
  <2>1. IsFiniteSet(U) /\ u \in 0..3
    BY LanesTo
  <2>2. \A p \in U : To(L, p) \subseteq DOMAIN L /\ To(L, p) # {}
    BY LanesTo
  <2>3. \A p, q \in U : p # q => To(L, p) \cap To(L, q) = {}
    BY LanesTo
  <2>4. DOMAIN L = UNION {To(L, p) : p \in U}
    BY LanesTo
  <2> QED
    BY <2>1, <2>2, <2>3, <2>4
<1>3. Sums(f, DOMAIN L) /\ n \in Nat
  BY <1>1, LanesSum
<1>4. SumOn(f, DOMAIN L) \in Nat /\ SumOn(f, DOMAIN L) <= 4600 * n
  BY <1>1, RibbonsLeq
<1>5. \A p \in U : e[p] \in Nat /\ e[p] >= 300
  BY <1>1, <1>2, SomeThick
<1>6. \A p \in U : h[p] = Larger(6400, e[p] + 3400)
  BY DEF ProviderHeights
<1>7. \A p \in U : h[p] \in Nat /\ e[p] <= h[p] /\ h[p] <= e[p] + 6100
  BY <1>5, <1>6 DEF Larger
<1>8. Sums(e, U) /\ SumOn(e, U) = SumOn(f, DOMAIN L)
  <2>1. ToSums(e, f, L)
    BY DEF ToSums
  <2> QED
    BY <1>3, <2>1, OverProviders
<1>9. Sums(h, U)
  BY <1>2, <1>7 DEF Sums
<1> DEFINE g == [p \in U |-> e[p] + 6100]
<1>10. Sums(g, U) /\ SumOn(g, U) = SumOn(e, U) + 6100 * u
  <2> HIDE DEF e, U
  <2> QED
    BY <1>8, SumPlus
<1>11. SumOn(h, U) <= SumOn(g, U)
  <2>1. \A p \in U : h[p] <= g[p]
    BY <1>7
  <2> HIDE DEF g
  <2> QED
    BY <1>9, <1>10, <2>1, SumLeq
<1>12. SumOn(h, U) \in Nat
  BY <1>9, SumNat
<1>13. 2200 * Larger(0, u - 1) \in Nat /\ 2200 * Larger(0, u - 1) <= 4400
  BY <1>2 DEF Larger
<1>14. height \in Nat /\ height >= 52000 /\ height >= 2800 + 7900 * n
  BY DEF High, Room
<1> DEFINE room == 2200 * Larger(0, u - 1)
<1> HIDE DEF room, g, e, f, n
<1>15. SumOn(h, U) <= 4600 * n + 18300
  <2>1. 6100 * u <= 18300
    BY <1>2
  <2> DEFINE six == 6100 * u
  <2>2. six \in Nat /\ six <= 18300
    BY <1>2
  <2>3. SumOn(g, U) = SumOn(e, U) + six
    BY <1>10
  <2> HIDE DEF six
  <2> QED
    BY <1>3, <1>4, <1>8, <1>11, <1>12, <2>2, <2>3
<1>16. SumOn(h, U) + room + 1600 <= height
  <2>1. room \in Nat /\ room <= 4400
    BY <1>13 DEF room
  <2> DEFINE s == SumOn(h, U)
  <2>2. s \in Nat /\ s <= 4600 * n + 18300
    BY <1>12, <1>15
  <2> HIDE DEF s
  <2>3. s + room + 1600 <= height
    BY <1>3, <1>14, <2>1, <2>2
  <2> QED
    BY <2>3 DEF s
<1>17. \A p \in U : SumOn(f, To(L, p)) <= h[p]
  BY <1>7 DEF e
<1> QED
  BY <1>9, <1>16, <1>17 DEF room, f

\* Ribbons end somewhere.
LEMMA StackInt ==
  ASSUME NEW r, IsRibbons(r), NEW off \in Int, NEW k \in DOMAIN r
  PROVE  Stacked(r, off)[k] \in Int
<1> DEFINE B == {j \in DOMAIN r : Before(r, j, k)}  e == [j \in B |-> r[j].t]
<1>1. Stacked(r, off)[k] = off + Seqs!SumFunction(e) + r[k].t \div 2
  BY DEF Stacked, Sum
<1>2. IsFiniteSet(B) /\ B \subseteq DOMAIN r
  BY FS_Subset DEF IsRibbons
<1>3. DOMAIN e = B /\ \A j \in B : e[j] = r[j].t
  OBVIOUS
<1>4. \A j \in DOMAIN r : r[j].t \in Nat
  BY DEF IsRibbons
<1> HIDE DEF B, e
<1>5. Sums(e, B)
  BY <1>2, <1>3, <1>4 DEF Sums
<1>6. Seqs!SumFunction(e) \in Nat
  BY <1>3, <1>5, SumIsFunction, SumNat
<1>7. r[k].t \div 2 \in Int
  BY <1>4
<1> QED
  BY <1>1, <1>6, <1>7

\* And the ribbons from the router together are as thick as those that enter it.
LEMMA OverSplit ==
  ASSUME NEW L, FleetLanes(L), NEW e, RoutedSums(e, Thicks(L), L)
  PROVE  Sums(e, Split(L)) /\ SumOn(e, Split(L)) <= SumOn(Thicks(L), ViaRouter(L))
<1> DEFINE U == Split(L)  A == [p \in U |-> To(L, p) \cap ViaRouter(L)]  f == Thicks(L)
           all == UNION {A[p] : p \in U}
           V == ViaRouter(L)
<1>1. /\ IsFiniteSet(U) /\ U \subseteq Used(L)
      /\ \A p \in Used(L) : To(L, p) \subseteq DOMAIN L
      /\ \A p, q \in Used(L) : p # q => To(L, p) \cap To(L, q) = {}
      /\ V \subseteq DOMAIN L
  BY LanesTo
<1>2. Sums(f, DOMAIN L)
  BY LanesSum DEF FleetLanes
<1>3. /\ \A p \in U : A[p] \subseteq DOMAIN L /\ e[p] = SumOn(f, A[p])
      /\ \A p, q \in U : p # q => A[p] \cap A[q] = {}
      /\ all \subseteq V
  BY <1>1 DEF RoutedSums
<1> HIDE DEF U, A, f, V
<1>4. Sums(e, U) /\ SumOn(e, U) = SumOn(f, all)
  <2>1. IsFiniteSet(U)
    BY <1>1
  <2>2. Fibres(A, e, f, U, DOMAIN L)
    BY <1>3 DEF Fibres
  <2>4. all = UNION {A[p] : p \in U}
    OBVIOUS
  <2> HIDE DEF all
  <2>5. Sums(e, U) /\ SumOn(e, U) = SumOn(f, UNION {A[p] : p \in U})
    BY <1>2, <2>1, <2>2, SumFibres
  <2> QED
    BY <2>4, <2>5
<1> HIDE DEF all
<1>5. SumOn(f, all) <= SumOn(f, V)
  <2>1. Sums(f, V)
    BY <1>1, <1>2, SumsPart
  <2> QED
    BY <1>3, <2>1, SumLess
<1> QED
  BY <1>4, <1>5 DEF U, f, V

\* The providers that have lanes.
LEMMA UsedInt ==
  ASSUME NEW L, FleetLanes(L)
  PROVE  Used(L) \subseteq Int /\ Split(L) \subseteq Used(L) /\ Split(L) \subseteq Int
         /\ IsFiniteSet(Split(L))
<1>1. Used(L) \subseteq {1, 3, 4} /\ Split(L) \subseteq Used(L)
  BY LanesTo
<1>2. IsFiniteSet(Split(L))
  BY LanesTo
<1> QED
  BY <1>1, <1>2

\* What is needed of the bands.
FleetLaid(laid) ==
  FleetLanes(laid.lanes) /\ laid.y \in Nat /\ laid.y >= 1800 + Room(Len(laid.lanes))

\* What the fleet map draws around lanes.
LEMMA FleetPicture ==
  ASSUME NEW laid, FleetLaid(laid)
  PROVE  LET m == LayoutFleetMap(laid) IN
         /\ m.laid = laid
         /\ Within(m.router, m.height) /\ \A p \in DOMAIN m.providers : Within(m.providers[p], m.height)
         /\ Meet(m.toRouter, m.routerEnds, m.router) /\ Meet(m.fromRouter, m.routerStarts, m.router)
         /\ \A p \in DOMAIN m.providers : Meet(m.into[p], m.ends[p], m.providers[p])
         /\ Total(m.into, InN) = InLanes(laid.lanes)
<1> DEFINE L == laid.lanes
           height == Larger(laid.y + 1000, 52000)
           router == Router(L, height)
           toRouter == Ribbons(L, ViaRouter(L))
           t == InT(toRouter)
           first == Middle(router, t)
           inT(p) == InT(Ribbons(L, To(L, p)))
           hh == [p \in Used(L) |-> Larger(6400, inT(p) + 3400)]
           providers == Piled(hh, 2200, height)
           into == [p \in Used(L) |-> IntoProvider(L, p, router)]
           ends == [p \in Used(L) |-> Stacked(into[p], Middle(providers[p], inT(p)))]
           fromRouter == [p \in Split(L) |-> [t |-> into[p][0].t, y |-> ends[p][0], n |-> into[p][0].n]]
           m == LayoutFleetMap(laid)
<1>1. m = [laid |-> laid, height |-> height, router |-> router, providers |-> providers,
           toRouter |-> toRouter, routerEnds |-> Stacked(toRouter, first),
           fromRouter |-> fromRouter, routerStarts |-> Stacked(fromRouter, first),
           into |-> into, ends |-> ends]
  BY DEF LayoutFleetMap
<1> HIDE DEF m
<1>2. /\ m.laid = laid /\ m.height = height /\ m.router = router /\ m.providers = providers
      /\ m.toRouter = toRouter /\ m.routerEnds = Stacked(toRouter, first)
      /\ m.fromRouter = fromRouter /\ m.routerStarts = Stacked(fromRouter, first)
      /\ m.into = into /\ m.ends = ends
  <2> HIDE DEF height, router, providers, toRouter, first, fromRouter, into, ends
  <2> QED
    BY <1>1
<1>3. High(height, Len(L))
  <2>1. AreLanes(L) /\ Len(L) \in Nat
    BY LanesSum DEF FleetLaid, FleetLanes
  <2>2. Room(Len(L)) \in Nat
    BY <2>1 DEF Room
  <2> DEFINE n == Room(Len(L))
  <2>3. n \in Nat /\ laid.y \in Nat /\ laid.y >= 1800 + n
    BY <2>2 DEF FleetLaid
  <2> HIDE DEF n
  <2>4. height \in Nat /\ height >= 52000 /\ height >= 2800 + n
    BY <2>3 DEF Larger
  <2> QED
    BY <2>4 DEF High, n
<1>4. FleetLanes(L) /\ AreLanes(L)
  BY DEF FleetLaid, FleetLanes
<1> HIDE DEF L
<1>5. \A p \in Used(L) : inT(p) = SumOn(Thicks(L), To(L, p)) /\ inT(p) \in Nat
  BY <1>4, LanesTo, RibbonsSum
<1> HIDE DEF inT
<1>6. ProviderHeights(hh, L)
  BY <1>5 DEF ProviderHeights
<1>7. DOMAIN hh = Used(L)
  OBVIOUS
<1> HIDE DEF hh, height
<1>8. /\ Sums(hh, Used(L)) /\ \A p \in Used(L) : SumOn(Thicks(L), To(L, p)) <= hh[p]
      /\ SumOn(hh, Used(L)) + 2200 * Larger(0, Cardinality(Used(L)) - 1) + 1600 <= height
  BY <1>3, <1>4, <1>6, ProvidersFit
<1>9. /\ DOMAIN providers = Used(L)
      /\ \A p \in Used(L) : /\ providers[p].y \in Int /\ providers[p].h = hh[p] /\ hh[p] \in Nat
                            /\ Within(providers[p], height)
  <2>1. Used(L) \subseteq Int
    BY <1>4, UsedInt
  <2>2. height \in Int
    BY <1>3 DEF High
  <2>3. 2200 \in Nat
    OBVIOUS
  <2> DEFINE D == Used(L)
  <2> HIDE DEF D
  <2>4. D = DOMAIN hh /\ D \subseteq Int /\ Sums(hh, D)
        /\ SumOn(hh, D) + 2200 * Larger(0, Cardinality(D) - 1) + 1600 <= height
    BY <1>7, <1>8, <2>1 DEF D
  <2>5. /\ DOMAIN providers = D
        /\ \A p \in D : providers[p].y \in Int /\ providers[p].h = hh[p] /\ hh[p] \in Nat
        /\ \A p \in D : Within(providers[p], height)
    BY <2>2, <2>3, <2>4, PiledFits
  <2> QED
    BY <2>5 DEF D
<1> HIDE DEF providers
<1>10. /\ router.y \in Int /\ router.h \in Int /\ Within(router, height)
       /\ t = SumOn(Thicks(L), ViaRouter(L)) /\ t \in Nat /\ t <= router.h
  BY <1>3, <1>4, RouterFits
<1>11. IsRibbons(toRouter)
  <2>1. ViaRouter(L) \subseteq DOMAIN L
    BY <1>4, LanesTo
  <2> QED
    BY <1>4, <2>1, RibbonsAre DEF AreLanes
<1> HIDE DEF router, t, toRouter
<1>12. Meet(toRouter, Stacked(toRouter, first), router)
  <2>1. InT(toRouter) <= t
    BY <1>10 DEF t
  <2> QED
    BY <1>10, <1>11, <2>1, StackMeets
<1>13. ASSUME NEW p \in Used(L)
       PROVE  /\ IsRibbons(into[p]) /\ InT(into[p]) = inT(p) /\ InN(into[p]) = SumOn(CountsOf(L), To(L, p))
              /\ p \in Split(L) => /\ 0 \in DOMAIN into[p] /\ into[p][0].t \in Nat
                                   /\ into[p][0].t = SumOn(Thicks(L), To(L, p) \cap ViaRouter(L))
  <2> DEFINE r == IntoProvider(L, p, router)
  <2>1. into[p] = r
    OBVIOUS
  <2> HIDE DEF into
  <2>2. /\ IsRibbons(r) /\ InT(r) = SumOn(Thicks(L), To(L, p)) /\ InN(r) = SumOn(CountsOf(L), To(L, p))
        /\ p \in Split(L) =>
             0 \in DOMAIN r /\ r[0].t = SumOn(Thicks(L), To(L, p) \cap ViaRouter(L)) /\ r[0].t \in Nat
    BY <1>4, <1>10, IntoIs
  <2> HIDE DEF r
  <2> QED
    BY <1>5, <2>1, <2>2
<1>14. DOMAIN into = Used(L)
  OBVIOUS
<1> HIDE DEF into
<1>15. ASSUME NEW p \in Used(L)
       PROVE  ends[p] = Stacked(into[p], Middle(providers[p], inT(p))) /\ Meet(into[p], ends[p], providers[p])
  <2> DEFINE r == into[p]  edge == providers[p]  s == inT(p)
  <2>1. ends[p] = Stacked(r, Middle(edge, s))
    OBVIOUS
  <2>2. IsRibbons(r) /\ InT(r) = s /\ s \in Nat
    BY <1>5, <1>13
  <2>3. edge.y \in Int /\ edge.h \in Int /\ s <= edge.h
    BY <1>5, <1>8, <1>9
  <2> HIDE DEF r, edge, s, ends
  <2>4. Meet(r, Stacked(r, Middle(edge, s)), edge)
    BY <2>2, <2>3, StackMeets
  <2> QED
    BY <2>1, <2>4 DEF r, edge, s
<1> HIDE DEF ends
<1>16. Split(L) \subseteq Used(L) /\ IsFiniteSet(Split(L)) /\ Split(L) \subseteq Int
  BY <1>4, UsedInt
<1>17. ASSUME NEW p \in Split(L) PROVE ends[p][0] \in Int
  <2> DEFINE r == into[p]  edge == providers[p]  s == inT(p)  off == Middle(edge, s)
  <2>1. p \in Used(L)
    BY <1>16
  <2>2. ends[p] = Stacked(r, off)
    BY <1>15, <2>1
  <2>3. IsRibbons(r) /\ 0 \in DOMAIN r
    BY <1>13, <2>1
  <2>4. edge.y \in Int /\ edge.h \in Int /\ s \in Int
    BY <1>5, <1>9, <2>1
  <2> HIDE DEF r, edge, s
  <2>5. off \in Int
    BY <2>4 DEF Middle
  <2> HIDE DEF off
  <2> QED
    BY <2>2, <2>3, <2>5, StackInt
<1>18. DOMAIN fromRouter = Split(L)
       /\ \A p \in Split(L) : fromRouter[p].t = into[p][0].t /\ fromRouter[p].y = ends[p][0]
  OBVIOUS
<1> HIDE DEF fromRouter
<1>19. IsRibbons(fromRouter)
  <2>1. \A p \in Split(L) : fromRouter[p].t \in Nat /\ fromRouter[p].y \in Int
    BY <1>13, <1>16, <1>17, <1>18
  <2> QED
    BY <1>16, <1>18, <2>1 DEF IsRibbons
<1>20. InT(fromRouter) <= t
  <2>1. \A p \in Split(L) : ThicknessOf(fromRouter)[p] = SumOn(Thicks(L), To(L, p) \cap ViaRouter(L))
    BY <1>13, <1>16, <1>18 DEF ThicknessOf
  <2>2. SumOn(ThicknessOf(fromRouter), Split(L)) <= SumOn(Thicks(L), ViaRouter(L))
    BY <1>4, <2>1, OverSplit DEF RoutedSums
  <2>3. InT(fromRouter) = SumOn(ThicknessOf(fromRouter), Split(L))
    BY <1>18, InTIs
  <2> QED
    BY <1>10, <2>2, <2>3
<1>21. Meet(fromRouter, Stacked(fromRouter, first), router)
  BY <1>10, <1>19, <1>20, StackMeets
<1>22. Total(into, InN) = InLanes(L)
  <2> DEFINE e == [p \in Used(L) |-> InN(into[p])]
  <2>1. Total(into, InN) = Seqs!SumFunction(e)
    BY <1>14 DEF Total, Sum
  <2>2. \A p \in Used(L) : e[p] = SumOn(CountsOf(L), To(L, p))
    BY <1>13
  <2>3. DOMAIN e = Used(L)
    OBVIOUS
  <2> HIDE DEF e
  <2>4. SumOn(e, Used(L)) = SumOn(CountsOf(L), DOMAIN L)
    <3>1. Sums(CountsOf(L), DOMAIN L)
      BY <1>4, LanesSum
    <3> QED
      BY <1>4, <2>2, <3>1, OverProviders DEF ToSums
  <2>5. Seqs!SumFunction(e) = SumOn(e, Used(L))
    BY <2>3, SumIsFunction
  <2> QED
    BY <2>1, <2>4, <2>5 DEF InLanes
<1> HIDE DEF first
<1> QED
  BY <1>2, <1>9, <1>10, <1>12, <1>15, <1>21, <1>22 DEF m, L

\* The fleet map is right.
LEMMA FleetMapRight ==
  ASSUME Sizes, MapTypeOK
  PROVE  FleetMapHolds(LayoutFleetMap(FleetBands))
<1> DEFINE boxed == {h \in Hosts2 : Passes(h)}  laid == FleetBands  m == LayoutFleetMap(laid)
           all == Sum(boxed, All)
<1>1. /\ TilesApart(laid, FleetWidth) /\ Counted(laid.lanes, all)
      /\ FleetLanes(laid.lanes) /\ InLanes(laid.lanes) = all
      /\ laid.y \in Nat /\ laid.y >= 1800 + Room(Len(laid.lanes))
  BY FleetBandsHold
<1> HIDE DEF laid
<1>2. FleetLaid(laid)
  BY <1>1 DEF FleetLaid
<1>3. /\ m.laid = laid
      /\ Within(m.router, m.height) /\ \A p \in DOMAIN m.providers : Within(m.providers[p], m.height)
      /\ Meet(m.toRouter, m.routerEnds, m.router) /\ Meet(m.fromRouter, m.routerStarts, m.router)
      /\ \A p \in DOMAIN m.providers : Meet(m.into[p], m.ends[p], m.providers[p])
      /\ Total(m.into, InN) = InLanes(laid.lanes)
  BY <1>2, FleetPicture
<1> HIDE DEF m
<1>4. FleetMapHolds(m)
  BY <1>1, <1>3 DEF FleetMapHolds, FleetWidth
<1> QED
  BY <1>4 DEF m, laid

-----------------------------------------------------------------------------
(* The network map.                                                        *)

\* What is needed of the bands.
MapPolicies == {"unrestricted", "claude-full-dev", "claude-github", "claude-only"}
NetLaid(laid) ==
  /\ AreLanes(laid.lanes) /\ \A i \in DOMAIN laid.lanes : laid.lanes[i].id \in MapPolicies
  /\ laid.y \in Nat /\ \E done : BandsApart(laid.hosts, laid.y, done)
  /\ BandsHold(laid.hosts, laid.lanes)

\* A machine that has no instances adds nothing.
LEMMA AllDrawn ==
  ASSUME NEW f, Sums(f, Hosts2), NEW S, S \subseteq Hosts2, \A h \in Hosts2 \ S : f[h] = 0
  PROVE  SumOn(f, S) = SumOn(f, Hosts2)
<1> DEFINE R == Hosts2 \ S
<1>1. SumOn(f, Hosts2) = SumOn(f, S) + SumOn(f, R)
  BY SumParts
<1>2. Sums(f, S) /\ Sums(f, R)
  BY SumsPart
<1>3. SumOn(f, R) <= 0 * Cardinality(R)
  <2>1. \A h \in R : f[h] <= 0
    OBVIOUS
  <2> HIDE DEF R
  <2> QED
    BY <1>2, <2>1, SumBound
<1>4. Cardinality(R) \in Nat
  BY <1>2, FS_CardinalityType DEF Sums
<1>5. SumOn(f, R) \in Nat /\ SumOn(f, S) \in Nat
  BY <1>2, SumNat
<1> HIDE DEF R
<1>6. 0 * Cardinality(R) = 0
  BY <1>4
<1> QED
  BY <1>1, <1>3, <1>5, <1>6

\* The bands of the network map are right.
LEMMA NetworkBandsHold ==
  ASSUME Sizes, MapTypeOK
  PROVE  /\ TilesApart(NetworkBands, NetworkWidth) /\ Counted(NetworkBands.lanes, Sum(Hosts2, All))
         /\ NetLaid(NetworkBands)
<1> DEFINE boxed == {h \in Hosts2 : All(h) > 0}  laid == NetworkBands
           e == PerHost(POLICY_LANES, NetworkGroups)
<1>1. boxed \in SUBSET Hosts2
  OBVIOUS
<1>2. laid = Bands(boxed, POLICY_LANES, NetworkGroups, NetworkWidth)
  BY DEF NetworkBands, NetworkWidth
<1>3. \A h \in Hosts2 \ boxed : ~ (All(h) > 0)
  OBVIOUS
<1> HIDE DEF boxed, laid
<1>4. AllGroups(POLICY_LANES, NetworkGroups) /\ \A h \in Hosts2 : e[h] = SumOn(count[h], KindIds)
  BY NetworkAll
<1>5. NetworkWidth \in Nat /\ NetworkWidth >= TILE
  BY WidthsHold
<1>6. GoodBands(laid, boxed, POLICY_LANES, NetworkGroups, NetworkWidth)
  BY <1>1, <1>2, <1>4, <1>5, BandsGood
<1>7. Sum(Hosts2, All) = SumOn(e, boxed)
  <2>1. Sum(Hosts2, All) = SumOn(e, Hosts2)
    BY <1>4, AllIs
  <2>2. Sums(e, Hosts2)
    BY <1>4, PerHostSums
  <2>3. \A h \in Hosts2 : All(h) = e[h] /\ All(h) \in Nat
    BY <1>4, HowManyIs DEF All, KindIds
  <2> HIDE DEF e
  <2>4. \A h \in Hosts2 \ boxed : e[h] = 0
    BY <1>3, <2>3
  <2> QED
    BY <1>1, <2>1, <2>2, <2>4, AllDrawn
<1>8. TilesApart(laid, NetworkWidth) /\ Counted(laid.lanes, Sum(Hosts2, All))
  BY <1>6, <1>7, BandsShow
<1>9. NetLaid(laid)
  <2> DEFINE L == laid.lanes
  <2>1. /\ AreLanes(L) /\ laid.y \in Nat
        /\ \A i \in DOMAIN L : L[i].host \in Hosts2 /\ L[i].id \in DOMAIN NetworkGroups[L[i].host]
    BY <1>6, LanesGood
  <2>2. BandsApart(laid.hosts, laid.y, boxed) /\ BandsHold(laid.hosts, L)
    BY <1>6 DEF GoodBands
  <2> HIDE DEF L
  <2>3. \A i \in DOMAIN L : L[i].id \in MapPolicies
    <3>1. \A h \in Hosts2 : DOMAIN NetworkGroups[h] = Seqs!ToSet(POLICY_LANES)
      BY DEF NetworkGroups
    <3>2. Seqs!ToSet(POLICY_LANES) \subseteq MapPolicies
      <4>1. \A k \in 1..4 : POLICY_LANES[k] \in MapPolicies
        BY PoliciesAre DEF MapPolicies
      <4> QED
        BY <4>1, PoliciesAre DEF Seqs!ToSet
    <3> QED
      BY <2>1, <3>1, <3>2
  <2> QED
    BY <2>1, <2>2, <2>3 DEF NetLaid, L
<1> QED
  BY <1>8, <1>9 DEF laid

\* Bands are at least 150 pixels high, one for each machine.
LEMMA BandsAre ==
  ASSUME NEW laid, NetLaid(laid)
  PROVE  /\ laid.hosts \in Seq(BandSet) /\ IsFiniteSet(DOMAIN laid.hosts) /\ DOMAIN laid.hosts \subseteq Int
         /\ \A b \in DOMAIN laid.hosts : /\ laid.hosts[b].y \in Nat /\ laid.hosts[b].h \in Nat
                                         /\ laid.hosts[b].h >= 15000
                                         /\ laid.hosts[b].y + laid.hosts[b].h + HOST_GAP <= laid.y
         /\ \A b, c \in DOMAIN laid.hosts : b # c => laid.hosts[b].id # laid.hosts[c].id
<1> DEFINE H == laid.hosts
<1>1. /\ H \in Seq(BandSet) /\ \A b \in DOMAIN H : H[b].h >= 15000 /\ H[b].y + H[b].h + HOST_GAP <= laid.y
      /\ \A b, c \in DOMAIN H : b < c => H[b].id # H[c].id
  BY DEF NetLaid, BandsApart
<1> HIDE DEF H
<1>2. Len(H) \in Nat /\ DOMAIN H = 1..Len(H) /\ \A b \in DOMAIN H : H[b] \in BandSet
  BY <1>1
<1>3. IsFiniteSet(DOMAIN H) /\ DOMAIN H \subseteq Int
  BY <1>2, Finite
<1>4. \A b \in DOMAIN H : H[b].y \in Nat /\ H[b].h \in Nat
  BY <1>2 DEF BandSet
<1>5. \A b, c \in DOMAIN H : b # c => H[b].id # H[c].id
  <2>1. \A b, c \in DOMAIN H : b < c \/ c < b \/ b = c
    BY <1>2
  <2> QED
    BY <1>1, <2>1
<1> QED
  BY <1>1, <1>3, <1>4, <1>5 DEF H

\* The most that g ribbons can be together, and how high a gate is for g lanes.
MostThick(g) == 4600 * g
GateHeight(g, t) == Larger(11000 + g * 2100, t + 7000)

\* How high a gate with g lanes may be: it ends before the next band.
LEMMA GateLess ==
  ASSUME NEW g \in Nat, NEW t \in Nat, t <= MostThick(g), NEW bandH \in Nat, bandH >= 15000, bandH >= Room(g)
  PROVE  GateHeight(g, t) \in Nat /\ t <= GateHeight(g, t) /\ GateHeight(g, t) < bandH + 2600
<1>1. Room(g) = 7900 * g
  BY DEF Room
<1>2. bandH >= 7900 * g
  BY <1>1
<1>3. 11000 + g * 2100 < bandH + 2600
  BY <1>2
<1>4. t + 7000 < bandH + 2600
  BY <1>2 DEF MostThick
<1> DEFINE a == 11000 + g * 2100
<1>5. a \in Nat /\ a < bandH + 2600
  BY <1>3
<1> HIDE DEF a
<1>6. Larger(a, t + 7000) \in Nat /\ t <= Larger(a, t + 7000) /\ Larger(a, t + 7000) < bandH + 2600
  BY <1>4, <1>5 DEF Larger
<1> QED
  BY <1>6 DEF a, GateHeight

\* A gate begins in its band and ends before the next one, and its lanes' ribbons
\* end in it.
LEMMA GateFits ==
  ASSUME NEW laid, NetLaid(laid), NEW b \in DOMAIN laid.hosts
  PROVE  LET gate == Gate(laid, b)  r == Ribbons(laid.lanes, Gated(laid, b))  band == laid.hosts[b] IN
         /\ gate.y \in Int /\ gate.h \in Int /\ band.y <= gate.y
         /\ gate.y + gate.h < band.y + band.h + HOST_GAP
         /\ Gated(laid, b) \subseteq DOMAIN laid.lanes
         /\ Meet(r, Stacked(r, Middle(gate, InT(r))), gate)
<1> DEFINE L == laid.lanes  band == laid.hosts[b]  G == Gated(laid, b)  into == Ribbons(L, G)
           g == Cardinality(G)  t == InT(into)  h == GateHeight(g, t)
           gate == Gate(laid, b)
<1>1. AreLanes(L) /\ band.y \in Nat /\ band.h \in Nat /\ band.h >= 15000
  BY BandsAre DEF NetLaid
<1>2. G \subseteq LanesOf(L, band.id) /\ LanesOf(L, band.id) \subseteq DOMAIN L
  BY DEF Gated, LanesOf
<1>3. band.h >= Room(Cardinality(LanesOf(L, band.id)))
  BY DEF NetLaid, BandsHold
<1>4. G \subseteq DOMAIN L
  BY <1>2
<1>5. IsRibbons(into) /\ t \in Nat /\ t <= MostThick(g) /\ g \in Nat
  BY <1>1, <1>4, RibbonsAre DEF AreLanes, MostThick
<1>6. band.h >= Room(g)
  <2> DEFINE S == LanesOf(L, band.id)
  <2>1. IsFiniteSet(S)
    BY <1>1, <1>2, LanesSum, FS_Subset DEF Sums
  <2>2. Cardinality(S) \in Nat /\ g <= Cardinality(S)
    BY <1>2, <2>1, FS_Subset, FS_CardinalityType
  <2>3. band.h >= Room(Cardinality(S))
    BY <1>3
  <2> HIDE DEF S, g, band
  <2> QED
    BY <1>1, <1>5, <2>2, <2>3 DEF Room
<1>7. Centre(into) \in Nat
  BY <1>1, <1>4, CentreNat
<1>8. gate = [y |-> GateY(band, h, Centre(into)), h |-> h]
  BY DEF Gate, GateHeight
<1> HIDE DEF gate, band, g, t, into, L
<1>9. h \in Nat /\ t <= h /\ h < band.h + 2600
  <2> DEFINE bh == band.h
  <2>1. bh \in Nat /\ bh >= 15000 /\ bh >= Room(g) /\ g \in Nat /\ t \in Nat /\ t <= MostThick(g)
    BY <1>1, <1>5, <1>6
  <2> HIDE DEF bh
  <2>2. h \in Nat /\ t <= h /\ h < bh + 2600
    BY <2>1, GateLess
  <2> HIDE DEF h
  <2> QED
    BY <2>2 DEF bh
<1> HIDE DEF h
<1>10. gate.y = Larger(band.y, Smaller(band.y + band.h - h, Centre(into) - h \div 2)) /\ gate.h = h
  BY <1>8 DEF GateY
<1> DEFINE c == Centre(into) - h \div 2
<1>11. c \in Int
  BY <1>7, <1>9
<1> HIDE DEF c
<1>12. gate.y = Larger(band.y, Smaller(band.y + band.h - h, c))
  BY <1>10 DEF c
<1>13. gate.y \in Int /\ band.y <= gate.y /\ gate.y + h < band.y + band.h + 2600
  BY <1>1, <1>9, <1>11, <1>12 DEF Larger, Smaller
<1>14. Meet(into, Stacked(into, Middle(gate, t)), gate)
  <2>1. gate.y \in Int /\ gate.h \in Int /\ t <= gate.h /\ InT(into) <= t
    BY <1>5, <1>9, <1>10, <1>13 DEF t
  <2> QED
    BY <1>5, <2>1, StackMeets
<1> QED
  BY <1>4, <1>9, <1>10, <1>13, <1>14 DEF HOST_GAP, gate, band, into, t, L

\* Ribbons from the gates that have something for a destination.
GatesInto(laid, n, t) ==
  [b \in {c \in WithGate(laid) : n[c] > 0} |->
     [t |-> t[b], y |-> Gate(laid, b).y + Gate(laid, b).h \div 2, n |-> n[b]]]

\* They are ribbons, for as many instances as n says.
LEMMA GatesRibbons ==
  ASSUME NEW laid, NetLaid(laid), NEW n, NEW t, \A b \in WithGate(laid) : n[b] \in Nat /\ t[b] \in Nat
  PROVE  LET r == GatesInto(laid, n, t)  B == {c \in WithGate(laid) : n[c] > 0} IN
         IsRibbons(r) /\ DOMAIN r = B /\ IsFiniteSet(B) /\ InN(r) = SumOn(n, B)
<1> DEFINE r == GatesInto(laid, n, t)  B == {c \in WithGate(laid) : n[c] > 0}
<1>1. DOMAIN r = B /\ \A b \in B : /\ r[b].t = t[b] /\ r[b].n = n[b]
                                   /\ r[b].y = Gate(laid, b).y + Gate(laid, b).h \div 2
  BY DEF GatesInto
<1>2. B \subseteq WithGate(laid) /\ WithGate(laid) \subseteq DOMAIN laid.hosts
  BY DEF WithGate
<1>3. IsFiniteSet(B) /\ B \subseteq Int
  BY <1>2, BandsAre, FS_Subset
<1>4. \A b \in B : Gate(laid, b).y \in Int /\ Gate(laid, b).h \in Int
  BY <1>2, GateFits
<1>5. \A b \in B : Gate(laid, b).y + Gate(laid, b).h \div 2 \in Int
  BY <1>4
<1>6. \A b \in B : n[b] \in Nat /\ t[b] \in Nat
  BY <1>2
<1> HIDE DEF r, B
<1>7. IsRibbons(r)
  BY <1>1, <1>3, <1>5, <1>6 DEF IsRibbons
<1>8. InN(r) = SumOn(n, B)
  <2>1. \A b \in B : SizesOf(r)[b] = n[b]
    BY <1>1 DEF SizesOf
  <2>2. Sums(n, B)
    BY <1>3, <1>6 DEF Sums
  <2>3. SumOn(SizesOf(r), B) = SumOn(n, B)
    BY <2>1, <2>2, SumSame
  <2> QED
    BY <1>1, <2>3, CountIs DEF InN, CountOf
<1> QED
  BY <1>1, <1>3, <1>7, <1>8 DEF r, B

\* The destinations.
LEMMA DestinationsAre ==
  /\ DOMAIN DESTINATIONS = 1..7
  /\ DESTINATIONS[1] = "anthropic" /\ DESTINATIONS[2] = "github" /\ DESTINATIONS[3] = "registries"
  /\ DESTINATIONS[4] = "onepassword" /\ DESTINATIONS[5] = "other" /\ DESTINATIONS[6] = "anywhere"
  /\ DESTINATIONS[7] = "blocked"
  BY DEF DESTINATIONS

\* So is the ribbon of refusals.
LEMMA RefusedNat == ASSUME NEW n PROVE RefusedThick(n) \in Nat
<1> DEFINE S == {k \in 1..7 : 2 ^ k <= n + 1}
<1>1. IsFiniteSet(1..7)
  BY Finite
<1>2. S \subseteq 1..7
  OBVIOUS
<1> HIDE DEF S
<1>3. Cardinality(S) \in Nat
  BY <1>1, <1>2, FS_Subset, FS_CardinalityType
<1> DEFINE c == Cardinality(S)
<1> HIDE DEF c
<1>4. RefusedThick(n) = Larger(300, 200 + 400 * c)
  BY DEF RefusedThick, S, c
<1>5. c \in Nat
  BY <1>3 DEF c
<1> QED
  BY <1>4, <1>5 DEF Larger

\* What is refused arrives as ribbons.
LEMMA IntoBlocked ==
  ASSUME Sizes, MapTypeOK, NEW laid, NetLaid(laid), NEW d, DESTINATIONS[d] = "blocked"
  PROVE  IsRibbons(IntoDestination(laid, d))
<1> DEFINE n == [b \in WithGate(laid) |-> refused[laid.hosts[b].id]]
           t == [b \in WithGate(laid) |-> RefusedThick(refused[laid.hosts[b].id])]
<1>1. IntoDestination(laid, d) = GatesInto(laid, n, t)
  BY DEF IntoDestination, GatesInto
<1>2. \A b \in WithGate(laid) : n[b] \in Nat /\ t[b] \in Nat
  <2>1. \A h \in Hosts2 : refused[h] \in Nat
    <3>1. refused \in [Hosts2 -> Refusals \cup {0}]
      BY DEF MapTypeOK
    <3>2. Refusals \cup {0} \subseteq Nat
      BY DEF Sizes
    <3> QED
      BY <3>1, <3>2
  <2>2. \A b \in WithGate(laid) : laid.hosts[b].id \in Hosts2
    <3>1. laid.hosts \in Seq(BandSet) /\ WithGate(laid) \subseteq DOMAIN laid.hosts
      BY BandsAre DEF WithGate
    <3>2. \A b \in WithGate(laid) : laid.hosts[b] \in BandSet
      BY <3>1
    <3> QED
      BY <3>2 DEF BandSet
  <2> QED
    BY <2>1, <2>2, RefusedNat
<1> HIDE DEF n, t
<1> QED
  BY <1>1, <1>2, GatesRibbons

\* What goes past the gates arrives at "anywhere", all of it.
LEMMA IntoAnywhere ==
  ASSUME NEW laid, NetLaid(laid), NEW d, DESTINATIONS[d] = "anywhere"
  PROVE  /\ IsRibbons(IntoDestination(laid, d))
         /\ InN(IntoDestination(laid, d)) = InN(Ribbons(laid.lanes, Reaching(laid.lanes, d)))
<1> DEFINE L == laid.lanes  S == {i \in DOMAIN L : L[i].id = "unrestricted"}
<1>1. IntoDestination(laid, d) = Ribbons(L, S)
  BY DEF IntoDestination
<1>2. S = Reaching(L, d)
  <2>1. \A i \in DOMAIN L : L[i].id \in MapPolicies
    BY DEF NetLaid
  <2>2. \A p \in MapPolicies : "anywhere" \in PolicyReach(p) <=> p = "unrestricted"
    BY DEF MapPolicies, PolicyReach
  <2> QED
    BY <2>1, <2>2 DEF Reaching
<1>3. IsRibbons(Ribbons(L, S))
  <2>1. AreLanes(L)
    BY DEF NetLaid
  <2>2. S \subseteq DOMAIN L
    OBVIOUS
  <2> HIDE DEF L, S
  <2> QED
    BY <2>1, <2>2, RibbonsAre DEF AreLanes
<1> QED
  BY <1>1, <1>2, <1>3

\* What the gates let through arrives at the destination, all of it.
LEMMA IntoListed ==
  ASSUME NEW laid, NetLaid(laid), NEW d, DESTINATIONS[d] # "blocked", DESTINATIONS[d] # "anywhere"
  PROVE  /\ IsRibbons(IntoDestination(laid, d))
         /\ InN(IntoDestination(laid, d)) = InN(Ribbons(laid.lanes, Reaching(laid.lanes, d)))
<1> DEFINE L == laid.lanes  H == laid.hosts  R == Reaching(L, d)  P == WithGate(laid)
           A == [b \in P |-> Gated(laid, b) \cap R]
           n == [b \in P |-> InN(Ribbons(L, A[b]))]
           t == [b \in P |-> Thick(n[b])]
           B == {c \in P : n[c] > 0}
<1>1. IntoDestination(laid, d) = GatesInto(laid, n, t)
  BY DEF IntoDestination, GatesInto
<1>2. AreLanes(L) /\ Sums(CountsOf(L), DOMAIN L)
  BY LanesSum DEF NetLaid
<1>3. P \subseteq DOMAIN H /\ R \subseteq DOMAIN L
  BY DEF WithGate, Reaching
<1>4. \A b \in P : A[b] \subseteq DOMAIN L /\ A[b] \subseteq R
  BY <1>3
<1>5. \A b \in P : n[b] = SumOn(CountsOf(L), A[b]) /\ n[b] \in Nat
  BY <1>2, <1>4, RibbonsSum
<1>6. \A b \in P : t[b] \in Nat
  BY <1>5, ThickIs
<1>7. \A b, c \in P : b # c => A[b] \cap A[c] = {}
  <2>1. \A b, c \in P : b # c => H[b].id # H[c].id
    BY <1>3, BandsAre
  <2>2. \A b \in P : \A i \in A[b] : L[i].host = H[b].id
    BY DEF Gated
  <2> HIDE DEF A, P
  <2> QED
    BY <2>1, <2>2
<1>8. ASSUME NEW i \in R PROVE \E b \in B : i \in A[b]
  <2>1. i \in DOMAIN L /\ DESTINATIONS[d] \in PolicyReach(L[i].id) /\ L[i].id \in MapPolicies
    BY DEF Reaching, NetLaid
  <2>2. L[i].id # "unrestricted"
    BY <2>1 DEF PolicyReach
  <2>3. PICK b \in DOMAIN H : InBand(L[i], H[b])
    BY <2>1 DEF NetLaid, BandsHold
  <2>4. i \in Gated(laid, b)
    BY <2>1, <2>2, <2>3 DEF Gated, InBand
  <2>5. b \in P /\ i \in A[b]
    BY <2>4 DEF WithGate
  <2>6. n[b] > 0
    <3>1. Sums(CountsOf(L), A[b]) /\ n[b] = SumOn(CountsOf(L), A[b])
      BY <1>2, <1>4, <1>5, <2>5, SumsPart
    <3>2. SumOn(CountsOf(L), A[b]) = CountsOf(L)[i] + SumOn(CountsOf(L), A[b] \ {i})
      BY <2>5, <3>1, SumSplit
    <3>3. SumOn(CountsOf(L), A[b] \ {i}) \in Nat
      BY <3>1, SumsPart, SumNat
    <3>4. CountsOf(L)[i] > 0 /\ CountsOf(L)[i] \in Nat
      BY <1>2, <2>1 DEF AreLanes, CountsOf, Sums
    <3> HIDE DEF n, A
    <3> QED
      BY <3>1, <3>2, <3>3, <3>4
  <2> QED
    BY <2>5, <2>6
<1>9. B \subseteq P
  OBVIOUS
<1>10. R = UNION {A[b] : b \in B}
  <2> HIDE DEF A, n, P, B
  <2> QED
    BY <1>4, <1>8, <1>9
<1> HIDE DEF A, n, t, R, L, H
<1>11. /\ IsRibbons(GatesInto(laid, n, t)) /\ IsFiniteSet(B) /\ InN(GatesInto(laid, n, t)) = SumOn(n, B)
  BY <1>5, <1>6, GatesRibbons
<1> HIDE DEF B, P
<1>12. SumOn(n, B) = SumOn(CountsOf(L), UNION {A[b] : b \in B})
  <2>1. \A b \in B : A[b] \subseteq DOMAIN L /\ n[b] = SumOn(CountsOf(L), A[b])
    BY <1>4, <1>5, <1>9
  <2>2. Fibres(A, n, CountsOf(L), B, DOMAIN L)
    BY <1>7, <1>9, <2>1 DEF Fibres
  <2>3. IsFiniteSet(B) /\ Sums(CountsOf(L), DOMAIN L)
    BY <1>2, <1>11
  <2> QED
    BY <2>2, <2>3, SumFibres
<1>13. InN(Ribbons(L, R)) = SumOn(CountsOf(L), R)
  BY <1>2, <1>3, RibbonsSum
<1> QED
  BY <1>1, <1>10, <1>11, <1>12, <1>13 DEF L, R

\* What leaves a gate are ribbons, if what arrives at the destinations are.
LEMMA OutflowIs ==
  ASSUME NEW into, NEW ends, NEW b, IsFiniteSet(DOMAIN into), DOMAIN into \subseteq Int,
         \A d \in DOMAIN into : IsRibbons(into[d]) /\ \A k \in DOMAIN into[d] : ends[d][k] \in Int
  PROVE  IsRibbons(Outflow(into, ends, b))
<1> DEFINE out == Outflow(into, ends, b)
           D == {e \in DOMAIN into : DESTINATIONS[e] # "anywhere" /\ b \in DOMAIN into[e]}
<1>1. out = [d \in D |-> [t |-> into[d][b].t, y |-> ends[d][b], n |-> into[d][b].n]]
  BY DEF Outflow
<1>2. DOMAIN out = D /\ \A d \in D : out[d].t = into[d][b].t /\ out[d].y = ends[d][b]
  <2> HIDE DEF D, out
  <2> QED
    BY <1>1
<1>3. IsFiniteSet(D) /\ D \subseteq Int
  BY FS_Subset
<1>4. \A d \in D : into[d][b].t \in Nat /\ ends[d][b] \in Int
  BY DEF IsRibbons
<1> HIDE DEF D, out
<1>5. IsRibbons(out)
  BY <1>2, <1>3, <1>4 DEF IsRibbons
<1> QED
  BY <1>5 DEF out

\* What the network map draws around lanes.
LEMMA NetworkPicture ==
  ASSUME Sizes, MapTypeOK, NEW laid, NetLaid(laid)
  PROVE  LET m == LayoutNetworkMap(laid)  H == laid.hosts IN
         /\ m.laid = laid
         /\ \A b \in DOMAIN m.gate :
              /\ H[b].y <= m.gate[b].y /\ m.gate[b].y + m.gate[b].h < H[b].y + H[b].h + HOST_GAP
              /\ Within(m.gate[b], m.height)
              /\ Meet(m.toGate[b], m.gateEnds[b], m.gate[b])
              /\ InT(m.out[b]) <= m.gate[b].h => Meet(m.out[b], m.starts[b], m.gate[b])
         /\ \A d \in DOMAIN m.dests :
              /\ RoomFor(m.dests, m.height) => Within(m.dests[d], m.height)
              /\ Meet(m.into[d], m.ends[d], m.dests[d])
              /\ DESTINATIONS[d] = "blocked" \/ InN(m.into[d]) = m.count[d]
<1> DEFINE L == laid.lanes  H == laid.hosts  P == WithGate(laid)  D == Drawn(L)
           height == Larger(laid.y + 1000, 56000)
           gate == [b \in P |-> Gate(laid, b)]
           toGate == [b \in P |-> Ribbons(L, Gated(laid, b))]
           gateEnds == [b \in P |-> Stacked(toGate[b], Middle(gate[b], InT(toGate[b])))]
           into == [d \in D |-> IntoDestination(laid, d)]
           hh == [d \in D |-> Larger(Larger(7800, InT(into[d]) + 3000),
                                   4400 + ListedIn(DESTINATIONS[d]) * 1400)]
           boxes == Piled(hh, DEST_GAP, height)
           ends == [d \in D |-> Stacked(into[d], Middle(boxes[d], InT(into[d])))]
           counts == [d \in D |-> InN(Ribbons(L, Reaching(L, d)))]
           out == [b \in P |-> Outflow(into, ends, b)]
           starts == [b \in P |-> Stacked(out[b], Middle(gate[b], InT(out[b])))]
           m == LayoutNetworkMap(laid)
<1>1. m = [laid |-> laid, height |-> height, gate |-> gate, dests |-> boxes,
           toGate |-> toGate, gateEnds |-> gateEnds, out |-> out, starts |-> starts,
           into |-> into, ends |-> ends, count |-> counts]
  BY DEF LayoutNetworkMap
<1> HIDE DEF m
<1>2. /\ m.laid = laid /\ m.gate = gate /\ m.dests = boxes /\ m.toGate = toGate /\ m.gateEnds = gateEnds
      /\ m.into = into /\ m.ends = ends /\ m.count = counts
      /\ m.out = out /\ m.starts = starts /\ m.height = height
  <2> HIDE DEF height, gate, toGate, gateEnds, into, boxes, ends, counts, out, starts
  <2> QED
    BY <1>1
<1>3. /\ P \subseteq DOMAIN H /\ D \subseteq 1..7
      /\ \A d \in D : DESTINATIONS[d] = "blocked" \/ Reaching(L, d) # {}
  BY DestinationsAre DEF WithGate, Drawn
<1>3a. height \in Int /\ laid.y < height
  BY DEF NetLaid, Larger
<1> HIDE DEF height, out, starts
<1>4. ASSUME NEW b \in P
      PROVE  /\ H[b].y <= gate[b].y /\ gate[b].y + gate[b].h < H[b].y + H[b].h + HOST_GAP
             /\ Within(gate[b], height) /\ gate[b].y \in Int /\ gate[b].h \in Int
             /\ Meet(toGate[b], gateEnds[b], gate[b])
  <2> DEFINE g == Gate(laid, b)  r == Ribbons(L, Gated(laid, b))
  <2>1. gate[b] = g /\ toGate[b] = r
    OBVIOUS
  <2>2. gateEnds[b] = Stacked(r, Middle(g, InT(r)))
    BY <2>1
  <2> HIDE DEF gate, toGate, gateEnds
  <2>3. /\ H[b].y <= g.y /\ g.y + g.h < H[b].y + H[b].h + HOST_GAP /\ Meet(r, Stacked(r, Middle(g, InT(r))), g)
        /\ g.y \in Int /\ g.h \in Int
    BY <1>3, GateFits
  <2>4. H[b].y \in Nat /\ H[b].h \in Nat /\ H[b].y + H[b].h + HOST_GAP <= laid.y
    BY <1>3, BandsAre
  <2> HIDE DEF g, r
  <2>5. Within(g, height)
    BY <1>3a, <2>3, <2>4 DEF Within, HOST_GAP, NetLaid
  <2> QED
    BY <2>1, <2>2, <2>3, <2>5
<1>5. ASSUME NEW d \in D
      PROVE  /\ IsRibbons(into[d]) /\ InT(into[d]) \in Nat
             /\ DESTINATIONS[d] = "blocked" \/ InN(into[d]) = counts[d]
  <2> DEFINE r == IntoDestination(laid, d)
  <2>1. into[d] = r /\ counts[d] = InN(Ribbons(L, Reaching(L, d)))
    OBVIOUS
  <2> HIDE DEF into, counts
  <2>2. /\ IsRibbons(r)
        /\ DESTINATIONS[d] = "blocked" \/ InN(r) = InN(Ribbons(L, Reaching(L, d)))
    <3>1. CASE DESTINATIONS[d] = "blocked"
      BY <3>1, IntoBlocked
    <3>2. CASE DESTINATIONS[d] = "anywhere"
      BY <3>2, IntoAnywhere
    <3>3. CASE DESTINATIONS[d] # "blocked" /\ DESTINATIONS[d] # "anywhere"
      BY <3>3, IntoListed
    <3> QED
      BY <3>1, <3>2, <3>3
  <2>3. InT(r) \in Nat
    BY <2>2, InTIs
  <2> HIDE DEF r
  <2> QED
    BY <2>1, <2>2, <2>3
<1>6. DOMAIN into = D
  OBVIOUS
<1> HIDE DEF into
<1>7. ASSUME NEW d \in D PROVE hh[d] \in Nat /\ InT(into[d]) <= hh[d]
  <2> DEFINE t == InT(into[d])  l == 4400 + ListedIn(DESTINATIONS[d]) * 1400
  <2>1. t \in Nat
    BY <1>5
  <2>2. l \in Nat
    BY DEF ListedIn
  <2>3. hh[d] = Larger(Larger(7800, t + 3000), l)
    OBVIOUS
  <2> HIDE DEF t, l, hh
  <2>4. hh[d] \in Nat /\ t <= hh[d]
    BY <2>1, <2>2, <2>3 DEF Larger
  <2> QED
    BY <2>4 DEF t
<1>8. DOMAIN hh = D
  OBVIOUS
<1> HIDE DEF hh
<1>9. Sums(hh, D) /\ D \subseteq Int
  <2>1. IsFiniteSet(1..7)
    BY Finite
  <2>2. IsFiniteSet(D)
    BY <1>3, <2>1, FS_Subset
  <2> QED
    BY <1>3, <1>7, <2>2 DEF Sums
<1> HIDE DEF D
<1>11. /\ DOMAIN boxes = D /\ \A d \in D : boxes[d].y \in Int /\ boxes[d].h = hh[d]
       /\ RoomFor(boxes, height) => \A d \in D : Within(boxes[d], height)
  <2> DEFINE total == SumOn(hh, D) + DEST_GAP * Larger(0, Cardinality(D) - 1)
  <2>1. D = DOMAIN hh /\ D \subseteq Int /\ Sums(hh, D) /\ DEST_GAP \in Nat
    BY <1>8, <1>9 DEF DEST_GAP
  <2>2. /\ DOMAIN boxes = D
        /\ \A d \in D : boxes[d].y \in Int /\ boxes[d].h = hh[d] /\ hh[d] \in Nat
        /\ total + 1600 <= height => \A d \in D : Within(boxes[d], height)
    BY <1>3a, <2>1, PiledFits
  <2> HIDE DEF boxes
  <2>3. Sum(DOMAIN boxes, LAMBDA d : boxes[d].h) = SumOn(hh, D)
    <3>1. Sum(DOMAIN boxes, LAMBDA d : boxes[d].h) = Seqs!SumFunction([d \in D |-> boxes[d].h])
      BY <2>2 DEF Sum
    <3>2. [d \in D |-> boxes[d].h] = [d \in D |-> hh[d]]
      BY <2>2
    <3>3. Sum(D, LAMBDA d : hh[d]) = Seqs!SumFunction([d \in D |-> hh[d]])
      BY DEF Sum
    <3>4. Sum(D, LAMBDA d : hh[d]) = SumOn(hh, D)
      BY <2>1, SumAt
    <3> QED
      BY <3>1, <3>2, <3>3, <3>4
  <2>4. RoomFor(boxes, height) => total + 1600 <= height
    BY <2>2, <2>3 DEF RoomFor
  <2> HIDE DEF total
  <2> QED
    BY <2>2, <2>4
<1>12. DOMAIN boxes = D
  BY <1>11
<1> HIDE DEF boxes
<1>13. ASSUME NEW d \in D PROVE Meet(into[d], ends[d], boxes[d])
  <2> DEFINE r == into[d]  edge == boxes[d]  t == InT(r)
  <2>1. ends[d] = Stacked(r, Middle(edge, t))
    OBVIOUS
  <2>2. IsRibbons(r) /\ t \in Nat /\ edge.y \in Int /\ edge.h \in Int /\ t <= edge.h /\ InT(r) <= t
    BY <1>5, <1>7, <1>11
  <2> HIDE DEF r, edge, t, ends
  <2>3. Meet(r, Stacked(r, Middle(edge, t)), edge)
    BY <2>2, StackMeets
  <2> QED
    BY <2>1, <2>3 DEF r, edge
<1>14. ASSUME NEW d \in D, NEW k \in DOMAIN into[d] PROVE ends[d][k] \in Int
  <2> DEFINE r == into[d]  edge == boxes[d]  t == InT(r)  off == Middle(edge, t)
  <2>1. ends[d][k] = Stacked(r, off)[k]
    OBVIOUS
  <2>2. IsRibbons(r) /\ t \in Nat /\ edge.y \in Int /\ edge.h \in Nat
    BY <1>5, <1>7, <1>11
  <2>3. off \in Int
    <3> HIDE DEF edge, t
    <3>1. (edge.h - t) \div 2 \in Int
      BY <2>2
    <3> QED
      BY <2>2, <3>1 DEF Middle
  <2> HIDE DEF r, edge, t, ends, off
  <2>4. k \in DOMAIN r
    BY DEF r
  <2> QED
    BY <2>1, <2>2, <2>3, <2>4, StackInt
<1>15. DOMAIN gate = P
  OBVIOUS
<1> HIDE DEF ends
<1>16. ASSUME NEW b \in P, InT(out[b]) <= gate[b].h PROVE Meet(out[b], starts[b], gate[b])
  <2> DEFINE r == Outflow(into, ends, b)  edge == gate[b]
  <2>1. out[b] = r /\ starts[b] = Stacked(r, Middle(edge, InT(r)))
    BY DEF out, starts
  <2>2. edge.y \in Int /\ edge.h \in Int
    BY <1>4
  <2>3. IsRibbons(r)
    <3>1. IsFiniteSet(DOMAIN into) /\ DOMAIN into \subseteq Int
      BY <1>6, <1>9 DEF Sums
    <3>2. \A d \in DOMAIN into : IsRibbons(into[d]) /\ \A k \in DOMAIN into[d] : ends[d][k] \in Int
      BY <1>5, <1>6, <1>14
    <3> QED
      BY <3>1, <3>2, OutflowIs
  <2>4. InT(r) \in Nat /\ InT(r) <= edge.h
    BY <1>16, <2>1, <2>3, InTIs
  <2> HIDE DEF r, edge
  <2>5. Meet(r, Stacked(r, Middle(edge, InT(r))), edge)
    BY <2>2, <2>3, <2>4, StackMeets
  <2> QED
    BY <2>1, <2>5 DEF edge
<1> HIDE DEF gate, toGate, gateEnds, counts, P
<1> QED
  BY <1>2, <1>4, <1>5, <1>11, <1>12, <1>13, <1>15, <1>16 DEF m, H

\* The network map is right.
LEMMA NetworkMapRight ==
  ASSUME Sizes, MapTypeOK
  PROVE  NetworkMapHolds(LayoutNetworkMap(NetworkBands))
<1> DEFINE laid == NetworkBands  m == LayoutNetworkMap(laid)  H == laid.hosts
<1>1. TilesApart(laid, NetworkWidth) /\ Counted(laid.lanes, Sum(Hosts2, All)) /\ NetLaid(laid)
  BY NetworkBandsHold
<1> HIDE DEF laid
<1>2. /\ m.laid = laid
      /\ \A b \in DOMAIN m.gate :
           /\ H[b].y <= m.gate[b].y /\ m.gate[b].y + m.gate[b].h < H[b].y + H[b].h + HOST_GAP
           /\ Within(m.gate[b], m.height)
           /\ Meet(m.toGate[b], m.gateEnds[b], m.gate[b])
           /\ InT(m.out[b]) <= m.gate[b].h => Meet(m.out[b], m.starts[b], m.gate[b])
      /\ \A d \in DOMAIN m.dests :
           /\ RoomFor(m.dests, m.height) => Within(m.dests[d], m.height)
           /\ Meet(m.into[d], m.ends[d], m.dests[d])
           /\ DESTINATIONS[d] = "blocked" \/ InN(m.into[d]) = m.count[d]
  BY <1>1, NetworkPicture
<1> HIDE DEF m
<1>3. NetworkMapHolds(m)
  BY <1>1, <1>2 DEF NetworkMapHolds, NetworkWidth
<1> QED
  BY <1>3 DEF m, laid

-----------------------------------------------------------------------------
(* Both.                                                                   *)

\* However many instances of whatever kinds there are on the machines, whatever
\* their proxies refused, whichever machine is chosen and however wide the drawing
\* is: no tile is lost or covered; the fleet map with its ribbons is on the canvas;
\* so are the lanes and gates of the network map, and its destinations where they
\* fit one below the other (else they may not be: RibbonsOnCanvas).
THEOREM MapsHoldCorrect == MapSpec => []MapsHold
<1>1. Sizes
  BY SizesAssumption DEF Sizes
<1>2. MapTypeOK => MapsHold
  BY <1>1, FleetMapRight, NetworkMapRight DEF MapsHold
<1> QED BY <1>2, MapTypeCorrect, PTL
=============================================================================
