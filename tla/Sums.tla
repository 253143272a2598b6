-------------------------------- MODULE Sums --------------------------------
(***************************************************************************)
(* What the proofs need to know about SumFunctionOnSet, the sum of a       *)
(* function's values over a finite set of its arguments: it does not       *)
(* depend on the order in which a fold takes the elements.                 *)
(*                                                                         *)
(* The fold is a recursive function.  That there is such a function, and   *)
(* what it computes, is shown by way of a smallest counterexample: strict  *)
(* inclusion of finite sets is well-founded.  The same argument gives the  *)
(* least element of a set of naturals.                                     *)
(***************************************************************************)
EXTENDS Integers, FiniteSets, Functions, FiniteSetTheorems, WellFoundedInduction, TLAPS

Pick(s) == CHOOSE x \in s : TRUE

\* One step of the fold, and what it means that h is the fold over all subsets of U.
Fold(f, s, h) == IF s = {} THEN 0 ELSE f[Pick(s)] + h[s \ {Pick(s)}]
Folds(f, U, h) == h = [s \in SUBSET U |-> Fold(f, s, h)]

LEMMA SumIsFold ==
    ASSUME NEW f, NEW S
    PROVE  SumFunctionOnSet(f, S) = (CHOOSE h : Folds(f, S, h))[S]
  BY DEF SumFunctionOnSet, FoldFunctionOnSet, MapThenFoldSet, Folds, Fold, Pick

LEMMA PickType == ASSUME NEW s, s # {} PROVE Pick(s) \in s
  BY DEF Pick

\* Every non-empty set of subsets of a finite set has a minimal element.
LEMMA MinimalSubset ==
    ASSUME NEW S, IsFiniteSet(S), NEW T, T \subseteq SUBSET S, T # {}
    PROVE  \E s \in T : \A t \in T : t \subseteq s => t = s
<1>1. IsWellFoundedOn(StrictSubsetOrdering(S), SUBSET S)
  BY FS_FiniteSubsetsOfFinite, FS_StrictSubsetOrderingWellFounded
<1>2. PICK s \in T : \A t \in T : ~(<<t, s>> \in StrictSubsetOrdering(S))
  BY <1>1, WFMin
<1>3. ASSUME NEW t \in T, t \subseteq s, t # s PROVE FALSE
  BY <1>2, <1>3 DEF StrictSubsetOrdering
<1> QED BY <1>2, <1>3

\* A set of naturals that is not empty has a least element: the shortest of the intervals
\* that end in it.
LEMMA LeastNatural ==
    ASSUME NEW S \in SUBSET Nat, S # {}
    PROVE  \E least \in S : \A m \in S : least <= m
<1>1. PICK n \in S : TRUE
  OBVIOUS
<1>2. n \in Nat
  OBVIOUS
<1> DEFINE Ends == {k \in S : k <= n}
           T == {0 .. k : k \in Ends}
<1>3. IsFiniteSet(0 .. n)
  BY <1>2, FS_Interval, SMT
<1>4. T \subseteq SUBSET (0 .. n)
  BY <1>2, SMT
<1>5. T # {}
  BY <1>1, <1>2, SMT
<1>6. PICK s \in T : \A t \in T : t \subseteq s => t = s
  <2> DEFINE I == 0 .. n
  <2>1. IsFiniteSet(I) /\ T \subseteq SUBSET I
    BY <1>3, <1>4
  <2> HIDE DEF I, T
  <2> QED BY <1>5, <2>1, MinimalSubset
<1>7. PICK least \in Ends : s = 0 .. least
  OBVIOUS
<1>8. ASSUME NEW m \in S, m < least PROVE FALSE
  <2>1. m \in Nat /\ least \in Nat /\ m \in Ends
    BY <1>2, <1>8, SMT
  <2>2. 0 .. m \in T
    BY <2>1
  <2>3. 0 .. m \subseteq 0 .. least
    BY <1>8, <2>1, SMT
  <2>4. 0 .. m = 0 .. least
    BY <1>6, <1>7, <2>2, <2>3
  <2> QED BY <1>8, <2>1, <2>4, SMT
<1>9. \A m \in S : least <= m
  BY <1>8, SMT
<1> QED BY <1>9

\* Two folds agree wherever both are defined.
LEMMA FoldsAgree ==
    ASSUME NEW S, IsFiniteSet(S), NEW f, NEW U \in SUBSET S, NEW V \in SUBSET S,
           NEW g, Folds(f, U, g), NEW h, Folds(f, V, h)
    PROVE  \A s \in SUBSET (U \cap V) : g[s] = h[s]
<1> DEFINE Bad == {s \in SUBSET (U \cap V) : g[s] # h[s]}
<1>1. SUFFICES ASSUME Bad # {} PROVE FALSE
  OBVIOUS
<1>2. PICK s \in Bad : \A t \in Bad : t \subseteq s => t = s
  <2>1. Bad \subseteq SUBSET S
    OBVIOUS
  <2> HIDE DEF Bad
  <2> QED BY <1>1, <2>1, MinimalSubset
<1>3. g[s] = Fold(f, s, g) /\ h[s] = Fold(f, s, h)
  BY DEF Folds
<1>4. CASE s = {}
  BY <1>3, <1>4 DEF Fold
<1>5. CASE s # {}
  <2>1. Pick(s) \in s
    BY <1>5, PickType
  <2>2. s \ {Pick(s)} \in SUBSET (U \cap V) /\ s \ {Pick(s)} # s
    BY <2>1
  <2>3. g[s \ {Pick(s)}] = h[s \ {Pick(s)}]
    BY <1>2, <2>2
  <2> QED BY <1>3, <1>5, <2>3 DEF Fold
<1> QED BY <1>4, <1>5

\* There is a fold over the subsets of any finite set.
LEMMA FoldsExist ==
    ASSUME NEW S, IsFiniteSet(S), NEW f
    PROVE  \A U \in SUBSET S : \E h : Folds(f, U, h)
<1> DEFINE Bad == {U \in SUBSET S : ~\E h : Folds(f, U, h)}
<1>1. SUFFICES ASSUME Bad # {} PROVE FALSE
  OBVIOUS
<1>2. PICK U \in Bad : \A t \in Bad : t \subseteq U => t = U
  <2>1. Bad \subseteq SUBSET S
    OBVIOUS
  <2> HIDE DEF Bad
  <2> QED BY <1>1, <2>1, MinimalSubset
<1> DEFINE H(t) == CHOOSE h : Folds(f, t, h)
           h == [s \in SUBSET U |-> IF s = {} THEN 0
                                    ELSE IF s = U THEN f[Pick(U)] + H(U \ {Pick(U)})[U \ {Pick(U)}]
                                    ELSE H(s)[s]]
<1>3. ASSUME NEW t \in SUBSET U, t # U PROVE Folds(f, t, H(t))
  <2>1. \E g : Folds(f, t, g)
    BY <1>2, <1>3
  <2> QED BY <2>1
<1>4. ASSUME NEW s \in SUBSET U PROVE h[s] = Fold(f, s, h)
  <2>1. CASE s = {}
    BY <2>1 DEF Fold
  <2>2. CASE s # {}
    <3> DEFINE r == s \ {Pick(s)}
    <3>1. r \in SUBSET U /\ r # U /\ r \in SUBSET s /\ r # s
      BY <2>2, PickType
    <3>2. h[r] = H(r)[r]
      <4>1. CASE r = {}
        <5>1. Folds(f, r, H(r))
          BY <1>3, <3>1
        <5>2. H(r)[r] = Fold(f, r, H(r))
          BY <5>1 DEF Folds
        <5> HIDE DEF H
        <5>3. H(r)[r] = 0
          BY <4>1, <5>2 DEF Fold
        <5> QED BY <3>1, <4>1, <5>3
      <4>2. CASE r # {}
        <5> HIDE DEF H, r
        <5> QED BY <3>1, <4>2
      <4> QED BY <4>1, <4>2
    <3>3. CASE s = U
      <4> HIDE DEF H
      <4>1. h[s] = f[Pick(s)] + H(r)[r]
        BY <2>2, <3>3
      <4> HIDE DEF h
      <4> QED BY <2>2, <3>2, <4>1 DEF Fold
    <3>4. CASE s # U
      <4>1. Folds(f, s, H(s)) /\ Folds(f, r, H(r))
        BY <1>3, <3>1, <3>4
      <4> HIDE DEF H
      <4>2. h[s] = H(s)[s]
        BY <2>2, <3>4
      <4>3. H(s)[s] = f[Pick(s)] + H(s)[r]
        BY <2>2, <4>1 DEF Folds, Fold
      <4>4. H(s)[r] = H(r)[r]
        <5> s \in SUBSET S /\ r \in SUBSET S /\ r \in SUBSET (s \cap r)
          BY <1>2, <3>1
        <5> HIDE DEF r
        <5> QED BY <4>1, FoldsAgree
      <4> HIDE DEF h
      <4> QED BY <2>2, <3>2, <4>2, <4>3, <4>4 DEF Fold
    <3> QED BY <3>3, <3>4
  <2> QED BY <2>1, <2>2
<1>5. Folds(f, U, h)
  <2>1. h = [s \in SUBSET U |-> h[s]]
    OBVIOUS
  <2> HIDE DEF h
  <2> QED BY <1>4, <2>1 DEF Folds
<1> HIDE DEF h
<1> QED BY <1>2, <1>5

-----------------------------------------------------------------------------
(* The sum over a set *)

LEMMA SumEmpty == ASSUME NEW f PROVE SumFunctionOnSet(f, {}) = 0
<1>1. IsFiniteSet({})
  BY FS_EmptySet
<1>2. \E h : Folds(f, {}, h)
  BY <1>1, FoldsExist
<1>3. Folds(f, {}, CHOOSE h : Folds(f, {}, h))
  BY <1>2
<1> QED BY <1>3, SumIsFold DEF Folds, Fold

\* The order of the fold: the picked element first.
LEMMA SumPick ==
    ASSUME NEW f, NEW S, IsFiniteSet(S), S # {}
    PROVE  SumFunctionOnSet(f, S) = f[Pick(S)] + SumFunctionOnSet(f, S \ {Pick(S)})
<1> DEFINE R == S \ {Pick(S)}
           H(t) == CHOOSE h : Folds(f, t, h)
<1>1. Pick(S) \in S
  BY PickType
<1>2. R \in SUBSET S /\ S \in SUBSET S /\ R \in SUBSET (S \cap R)
  OBVIOUS
<1>3. Folds(f, S, H(S)) /\ Folds(f, R, H(R))
  <2>1. \A U \in SUBSET S : \E h : Folds(f, U, h)
    BY FoldsExist
  <2> QED BY <1>2, <2>1
<1>4. SumFunctionOnSet(f, S) = H(S)[S] /\ SumFunctionOnSet(f, R) = H(R)[R]
  BY SumIsFold
<1> HIDE DEF H
<1>5. H(S)[S] = f[Pick(S)] + H(S)[R]
  BY <1>3 DEF Folds, Fold
<1> HIDE DEF R
<1>6. H(S)[R] = H(R)[R]
  BY <1>2, <1>3, FoldsAgree
<1> QED BY <1>4, <1>5, <1>6 DEF R

LEMMA SumType ==
    ASSUME NEW f, NEW S, IsFiniteSet(S), \A x \in S : f[x] \in Nat
    PROVE  SumFunctionOnSet(f, S) \in Nat
<1> DEFINE Bad == {s \in SUBSET S : SumFunctionOnSet(f, s) \notin Nat}
<1>1. SUFFICES ASSUME Bad # {} PROVE FALSE
  OBVIOUS
<1>2. PICK s \in Bad : \A t \in Bad : t \subseteq s => t = s
  <2>1. Bad \subseteq SUBSET S
    OBVIOUS
  <2> HIDE DEF Bad
  <2> QED BY <1>1, <2>1, MinimalSubset
<1>3. s # {}
  <2>1. 0 \in Nat
    BY SMT
  <2>2. CASE s = {}
    BY <1>2, <2>1, <2>2, SumEmpty
  <2> QED BY <2>2
<1>4. Pick(s) \in s /\ IsFiniteSet(s)
  BY <1>2, <1>3, PickType, FS_Subset
<1>5. SumFunctionOnSet(f, s) = f[Pick(s)] + SumFunctionOnSet(f, s \ {Pick(s)})
  BY <1>3, <1>4, SumPick
<1>6. SumFunctionOnSet(f, s \ {Pick(s)}) \in Nat
  BY <1>2, <1>4
<1>7. f[Pick(s)] \in Nat
  BY <1>2, <1>4
<1> QED BY <1>2, <1>5, <1>6, <1>7, SMT

\* Any element may be taken first.
LEMMA SumRemove ==
    ASSUME NEW f, NEW S, IsFiniteSet(S), \A x \in S : f[x] \in Nat, NEW a \in S
    PROVE  SumFunctionOnSet(f, S) = SumFunctionOnSet(f, S \ {a}) + f[a]
<1> DEFINE Bad == {s \in SUBSET S : \E x \in s : SumFunctionOnSet(f, s) # f[x] + SumFunctionOnSet(f, s \ {x})}
<1>1. ASSUME Bad # {} PROVE FALSE
  <2>1. PICK s \in Bad : \A t \in Bad : t \subseteq s => t = s
    <3>1. Bad \subseteq SUBSET S
      OBVIOUS
    <3> HIDE DEF Bad
    <3> QED BY <1>1, <3>1, MinimalSubset
  <2>2. PICK x \in s : SumFunctionOnSet(f, s) # f[x] + SumFunctionOnSet(f, s \ {x})
    BY <2>1
  <2> DEFINE p == Pick(s)
  <2>3. p \in s /\ IsFiniteSet(s) /\ s \subseteq S
    BY <2>1, <2>2, PickType, FS_Subset
  <2>4. SumFunctionOnSet(f, s) = f[p] + SumFunctionOnSet(f, s \ {p})
    BY <2>2, <2>3, SumPick
  <2> HIDE DEF p
  <2>5. x # p
    BY <2>2, <2>4
  <2>6. SumFunctionOnSet(f, s \ {p}) = f[x] + SumFunctionOnSet(f, (s \ {p}) \ {x})
    <3>1. s \ {p} \notin Bad
      BY <2>1, <2>3
    <3> QED BY <2>2, <2>3, <2>5, <3>1
  <2>7. SumFunctionOnSet(f, s \ {x}) = f[p] + SumFunctionOnSet(f, (s \ {x}) \ {p})
    <3>1. s \ {x} \notin Bad
      BY <2>1, <2>2
    <3> QED BY <2>2, <2>3, <2>5, <3>1
  <2> DEFINE r == (s \ {p}) \ {x}
  <2>8. r = (s \ {x}) \ {p} /\ r \subseteq S
    BY <2>3
  <2>9. SumFunctionOnSet(f, r) \in Nat
    <3> IsFiniteSet(r) /\ \A y \in r : f[y] \in Nat
      BY <2>8, FS_Subset
    <3> HIDE DEF r
    <3> QED BY SumType
  <2>10. f[p] \in Nat /\ f[x] \in Nat
    BY <2>3
  <2> QED BY <2>2, <2>4, <2>6, <2>7, <2>8, <2>9, <2>10, SMT
<1>2. SumFunctionOnSet(f, S) = f[a] + SumFunctionOnSet(f, S \ {a})
  BY <1>1
<1>3. SumFunctionOnSet(f, S \ {a}) \in Nat
  <2> IsFiniteSet(S \ {a}) /\ \A y \in S \ {a} : f[y] \in Nat
    BY FS_Subset
  <2> QED BY SumType
<1> QED BY <1>2, <1>3, SMT

LEMMA SumAdd ==
    ASSUME NEW f, NEW S, IsFiniteSet(S), \A x \in S : f[x] \in Nat, NEW a, a \notin S, f[a] \in Nat
    PROVE  SumFunctionOnSet(f, S \cup {a}) = SumFunctionOnSet(f, S) + f[a]
<1>1. IsFiniteSet(S \cup {a}) /\ (S \cup {a}) \ {a} = S
  BY FS_AddElement
<1>2. SumFunctionOnSet(f, S \cup {a}) = SumFunctionOnSet(f, (S \cup {a}) \ {a}) + f[a]
  BY <1>1, SumRemove
<1> QED BY <1>1, <1>2

\* Functions that agree on the set have the same sum.
LEMMA SumSame ==
    ASSUME NEW f, NEW g, NEW S, IsFiniteSet(S), \A x \in S : f[x] = g[x]
    PROVE  SumFunctionOnSet(f, S) = SumFunctionOnSet(g, S)
<1> DEFINE Bad == {s \in SUBSET S : SumFunctionOnSet(f, s) # SumFunctionOnSet(g, s)}
<1>1. SUFFICES ASSUME Bad # {} PROVE FALSE
  OBVIOUS
<1>2. PICK s \in Bad : \A t \in Bad : t \subseteq s => t = s
  <2>1. Bad \subseteq SUBSET S
    OBVIOUS
  <2> HIDE DEF Bad
  <2> QED BY <1>1, <2>1, MinimalSubset
<1>3. s # {}
  BY <1>2, SumEmpty
<1>4. Pick(s) \in s /\ IsFiniteSet(s)
  BY <1>2, <1>3, PickType, FS_Subset
<1>5. /\ SumFunctionOnSet(f, s) = f[Pick(s)] + SumFunctionOnSet(f, s \ {Pick(s)})
      /\ SumFunctionOnSet(g, s) = g[Pick(s)] + SumFunctionOnSet(g, s \ {Pick(s)})
  BY <1>3, <1>4, SumPick
<1>6. SumFunctionOnSet(f, s \ {Pick(s)}) = SumFunctionOnSet(g, s \ {Pick(s)})
  BY <1>2, <1>4
<1>7. f[Pick(s)] = g[Pick(s)]
  BY <1>2, <1>4
<1> QED BY <1>2, <1>5, <1>6, <1>7

\* A function that changes at one argument.
LEMMA SumUpdate ==
    ASSUME NEW f, NEW g, NEW S, IsFiniteSet(S), NEW a \in S,
           \A x \in S : f[x] \in Nat /\ g[x] \in Nat,
           \A x \in S \ {a} : f[x] = g[x]
    PROVE  SumFunctionOnSet(g, S) + f[a] = SumFunctionOnSet(f, S) + g[a]
<1>1. IsFiniteSet(S \ {a}) /\ \A x \in S \ {a} : f[x] \in Nat
  BY FS_Subset
<1>2. SumFunctionOnSet(f, S \ {a}) = SumFunctionOnSet(g, S \ {a})
  BY <1>1, SumSame
<1>3. /\ SumFunctionOnSet(f, S) = SumFunctionOnSet(f, S \ {a}) + f[a]
      /\ SumFunctionOnSet(g, S) = SumFunctionOnSet(g, S \ {a}) + g[a]
  BY SumRemove
<1>4. SumFunctionOnSet(f, S \ {a}) \in Nat
  BY <1>1, SumType
<1> QED BY <1>2, <1>3, <1>4, SMT

\* The sum over a union of disjoint sets.
LEMMA SumUnion ==
    ASSUME NEW f, NEW S, NEW T, IsFiniteSet(S), IsFiniteSet(T), S \cap T = {},
           \A x \in S \cup T : f[x] \in Nat
    PROVE  SumFunctionOnSet(f, S \cup T) = SumFunctionOnSet(f, S) + SumFunctionOnSet(f, T)
<1> DEFINE Bad == {s \in SUBSET T : SumFunctionOnSet(f, S \cup s) # SumFunctionOnSet(f, S) + SumFunctionOnSet(f, s)}
<1>1. SUFFICES ASSUME Bad # {} PROVE FALSE
  OBVIOUS
<1>2. PICK s \in Bad : \A t \in Bad : t \subseteq s => t = s
  <2>1. Bad \subseteq SUBSET T
    OBVIOUS
  <2> HIDE DEF Bad
  <2> QED BY <1>1, <2>1, MinimalSubset
<1>0. SumFunctionOnSet(f, S) \in Nat
  BY SumType
<1>3. s # {}
  <2>1. S \cup {} = S
    OBVIOUS
  <2>2. CASE s = {}
    BY <1>0, <1>2, <2>1, <2>2, SumEmpty, SMT
  <2> QED BY <2>2
<1>4. PICK a \in s : TRUE
  BY <1>3
<1> DEFINE r == s \ {a}
<1>5. /\ IsFiniteSet(s) /\ IsFiniteSet(r) /\ IsFiniteSet(S \cup r)
      /\ a \notin S \cup r /\ r \cup {a} = s /\ (S \cup r) \cup {a} = S \cup s
      /\ \A x \in S \cup r : f[x] \in Nat
      /\ f[a] \in Nat
  <2>1. s \subseteq T /\ r \subseteq T
    BY <1>2
  <2>2. IsFiniteSet(s) /\ IsFiniteSet(r)
    BY <2>1, FS_Subset
  <2>3. IsFiniteSet(S \cup r)
    BY <2>2, FS_Union
  <2> QED BY <1>4, <2>1, <2>2, <2>3
<1>6. SumFunctionOnSet(f, S \cup r) = SumFunctionOnSet(f, S) + SumFunctionOnSet(f, r)
  BY <1>2, <1>4, <1>5
<1> HIDE DEF r
<1>7. /\ SumFunctionOnSet(f, s) = SumFunctionOnSet(f, r) + f[a]
      /\ SumFunctionOnSet(f, S \cup s) = SumFunctionOnSet(f, S \cup r) + f[a]
  <2>1. SumFunctionOnSet(f, r \cup {a}) = SumFunctionOnSet(f, r) + f[a]
    BY <1>5, SumAdd
  <2>2. SumFunctionOnSet(f, (S \cup r) \cup {a}) = SumFunctionOnSet(f, S \cup r) + f[a]
    BY <1>5, SumAdd
  <2> QED BY <1>5, <2>1, <2>2
<1>8. SumFunctionOnSet(f, r) \in Nat
  BY <1>5, SumType
<1> QED BY <1>0, <1>2, <1>5, <1>6, <1>7, <1>8, SMT

\* The sum of the sums of two functions, argument by argument.
LEMMA SumPlus ==
    ASSUME NEW f, NEW g, NEW h, NEW S, IsFiniteSet(S),
           \A x \in S : f[x] \in Nat /\ g[x] \in Nat /\ h[x] = f[x] + g[x]
    PROVE  SumFunctionOnSet(h, S) = SumFunctionOnSet(f, S) + SumFunctionOnSet(g, S)
<1> DEFINE Bad == {s \in SUBSET S : SumFunctionOnSet(h, s) # SumFunctionOnSet(f, s) + SumFunctionOnSet(g, s)}
<1>1. SUFFICES ASSUME Bad # {} PROVE FALSE
  OBVIOUS
<1>2. PICK s \in Bad : \A t \in Bad : t \subseteq s => t = s
  <2>1. Bad \subseteq SUBSET S
    OBVIOUS
  <2> HIDE DEF Bad
  <2> QED BY <1>1, <2>1, MinimalSubset
<1>3. s # {}
  <2>1. 0 + 0 = 0
    BY SMT
  <2>2. CASE s = {}
    BY <1>2, <2>1, <2>2, SumEmpty
  <2> QED BY <2>2
<1> DEFINE p == Pick(s)
           r == s \ {p}
<1>4. p \in s /\ IsFiniteSet(s) /\ IsFiniteSet(r) /\ r \in SUBSET S /\ r # s /\ p \in S
  BY <1>2, <1>3, PickType, FS_Subset
<1>5. /\ SumFunctionOnSet(f, s) = f[p] + SumFunctionOnSet(f, r)
      /\ SumFunctionOnSet(g, s) = g[p] + SumFunctionOnSet(g, r)
      /\ SumFunctionOnSet(h, s) = h[p] + SumFunctionOnSet(h, r)
  BY <1>3, <1>4, SumPick
<1>6. SumFunctionOnSet(h, r) = SumFunctionOnSet(f, r) + SumFunctionOnSet(g, r)
  BY <1>2, <1>4
<1> HIDE DEF p, r
<1>7. SumFunctionOnSet(f, r) \in Nat /\ SumFunctionOnSet(g, r) \in Nat
  BY <1>4, SumType
<1>8. f[p] \in Nat /\ g[p] \in Nat /\ h[p] = f[p] + g[p]
  BY <1>4
<1> QED BY <1>2, <1>5, <1>6, <1>7, <1>8, SMT

LEMMA SumMonotone ==
    ASSUME NEW f, NEW g, NEW S, IsFiniteSet(S),
           \A x \in S : f[x] \in Nat /\ g[x] \in Nat /\ f[x] <= g[x]
    PROVE  SumFunctionOnSet(f, S) <= SumFunctionOnSet(g, S)
<1> DEFINE d == [x \in S |-> g[x] - f[x]]
<1>1. \A x \in S : f[x] \in Nat /\ d[x] \in Nat /\ g[x] = f[x] + d[x]
  BY SMT
<1> HIDE DEF d
<1>2. SumFunctionOnSet(g, S) = SumFunctionOnSet(f, S) + SumFunctionOnSet(d, S)
  BY <1>1, SumPlus
<1>3. SumFunctionOnSet(f, S) \in Nat /\ SumFunctionOnSet(d, S) \in Nat
  BY <1>1, SumType
<1> QED BY <1>2, <1>3, SMT

\* The sum of a constant.
LEMMA SumConstant ==
    ASSUME NEW f, NEW S, IsFiniteSet(S), NEW k \in Nat, \A x \in S : f[x] = k
    PROVE  SumFunctionOnSet(f, S) = Cardinality(S) * k
<1> DEFINE Bad == {s \in SUBSET S : SumFunctionOnSet(f, s) # Cardinality(s) * k}
<1>1. SUFFICES ASSUME Bad # {} PROVE FALSE
  OBVIOUS
<1>2. PICK s \in Bad : \A t \in Bad : t \subseteq s => t = s
  <2>1. Bad \subseteq SUBSET S
    OBVIOUS
  <2> HIDE DEF Bad
  <2> QED BY <1>1, <2>1, MinimalSubset
<1>3. s # {}
  <2>1. Cardinality({}) = 0 /\ 0 * k = 0
    BY FS_EmptySet, SMT
  <2> QED BY <1>2, <2>1, SumEmpty
<1> DEFINE p == Pick(s)
           r == s \ {p}
<1>4. p \in s /\ IsFiniteSet(s) /\ r \in SUBSET S /\ r # s /\ p \in S
  BY <1>2, <1>3, PickType, FS_Subset
<1>5. SumFunctionOnSet(f, s) = f[p] + SumFunctionOnSet(f, r)
  BY <1>3, <1>4, SumPick
<1>6. SumFunctionOnSet(f, r) = Cardinality(r) * k
  BY <1>2, <1>4
<1>7. Cardinality(r) = Cardinality(s) - 1 /\ Cardinality(s) \in Nat
  BY <1>4, FS_RemoveElement, FS_CardinalityType
<1>8. f[p] = k
  BY <1>4
<1> HIDE DEF p, r
<1>9. (Cardinality(s) - 1) * k + k = Cardinality(s) * k
  BY <1>7, SMT
<1>10. (Cardinality(s) - 1) * k \in Int
  BY <1>7, SMT
<1> QED BY <1>2, <1>5, <1>6, <1>7, <1>8, <1>9, <1>10, SMT

LEMMA SumZero ==
    ASSUME NEW f, NEW S, IsFiniteSet(S), \A x \in S : f[x] = 0
    PROVE  SumFunctionOnSet(f, S) = 0
<1>1. 0 \in Nat /\ \A n \in Nat : n * 0 = 0
  BY SMT
<1>2. SumFunctionOnSet(f, S) = Cardinality(S) * 0
  BY <1>1, SumConstant
<1> QED BY <1>1, <1>2, FS_CardinalityType

LEMMA SumIncrement ==
    ASSUME NEW f, NEW g, NEW S, IsFiniteSet(S), NEW a \in S, NEW k \in Nat,
           \A x \in S : f[x] \in Nat,
           \A x \in S \ {a} : g[x] = f[x],
           g[a] = f[a] + k
    PROVE  SumFunctionOnSet(g, S) = SumFunctionOnSet(f, S) + k
<1>1. /\ f[a] \in Nat
      /\ \A x \in S : f[x] \in Nat /\ g[x] \in Nat
      /\ \A x \in S \ {a} : f[x] = g[x]
  BY SMT
<1>2. SumFunctionOnSet(g, S) + f[a] = SumFunctionOnSet(f, S) + g[a]
  BY <1>1, SumUpdate
<1>3. SumFunctionOnSet(g, S) \in Nat /\ SumFunctionOnSet(f, S) \in Nat
  BY <1>1, SumType
<1> QED BY <1>1, <1>2, <1>3, SMT
=============================================================================
