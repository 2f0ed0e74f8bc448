-------------------------- MODULE SolvencyProofs --------------------------
(***************************************************************************)
(* The money of SharedDepositEscrow, for any wallets, proposals, amounts   *)
(* and number of agreements: the settlement pays out to the wei, and the   *)
(* contract holds what it owes, its totals are the sums of its records,    *)
(* and claims never take more than was deposited.                          *)
(*                                                                         *)
(* First come facts about SumFunctionOnSet and SumFunction of module       *)
(* Functions, the sums the books are stated with.  The library defines     *)
(* them by a fold, hence by a recursive function on the subsets of the     *)
(* index set; that this function exists, and that it does not depend on    *)
(* the order of the summands, is proved here once.  The induction theorems *)
(* of the library cannot be instantiated, so each induction is an argument *)
(* about a minimal counterexample (SubsetInduction).                       *)
(*                                                                         *)
(* Then comes the settlement: the arguments that the comments of           *)
(* _computeSettlement sketch ("bound proof", "capacity argument"), and     *)
(* that its loop computes the largest-remainder rule of MCSettlement.      *)
(*                                                                         *)
(* Then come the books.  The inductive invariant says of each agreement    *)
(* how its record, its tenants' records and its claims' records fit        *)
(* together (Sound), and that the ids not given out yet are blank.  A      *)
(* function changes one agreement, at most one tenant's and one claim's    *)
(* record of it, so most lemmas are about one record (or one row of a      *)
(* table) and its replacement.                                             *)
(***************************************************************************)
EXTENDS SharedDepositEscrow, MCSettlement, FiniteSetTheorems, TLAPS

-----------------------------------------------------------------------------
(* Sums over finite sets                                                   *)

(* A family of subsets of a finite set that contains a set as soon as it   *)
(* contains the smaller ones contains them all.                            *)
LEMMA SubsetInduction ==
  ASSUME NEW S, IsFiniteSet(S), NEW F,
         \A T \in SUBSET S : (\A U \in SUBSET T : U # T => U \in F) => T \in F
  PROVE  \A T \in SUBSET S : T \in F
<1>1. IsWellFoundedOn(StrictSubsetOrdering(S), SUBSET S)
  BY FS_StrictSubsetOrderingWellFounded, FS_FiniteSubsetsOfFinite
<1> DEFINE D == (SUBSET S) \ F
<1>2. SUFFICES ASSUME D # {} PROVE FALSE
  OBVIOUS
<1>3. D \subseteq SUBSET S
  OBVIOUS
<1>4. \E T \in D : \A U \in D : ~ (<<U, T>> \in StrictSubsetOrdering(S))
  <2> HIDE DEF D
  <2> QED BY <1>1, <1>2, <1>3, WFMin
<1>5. PICK T \in D : \A U \in D : ~ (<<U, T>> \in StrictSubsetOrdering(S))
  BY <1>4
<1>6. \A U \in SUBSET T : U # T => U \in F
  BY <1>5 DEF StrictSubsetOrdering
<1> QED BY <1>5, <1>6

-----------------------------------------------------------------------------
(* The recursion behind SumFunctionOnSet.                                  *)
Pick(s) == CHOOSE x \in s : TRUE

Sums(f, S, g) ==
  g = [s \in SUBSET S |-> IF s = {} THEN 0 ELSE f[Pick(s)] + g[s \ {Pick(s)}]]

(* The library's sum is the value of a function that satisfies it.         *)
LEMMA SumUnfold ==
  ASSUME NEW f, NEW S
  PROVE  SumFunctionOnSet(f, S) = (CHOOSE g : Sums(f, S, g))[S]
BY DEF SumFunctionOnSet, FoldFunctionOnSet, MapThenFoldSet, Sums, Pick

(* The element picked from a set is in the set.                            *)
LEMMA PickIn == ASSUME NEW s, s # {} PROVE Pick(s) \in s
BY DEF Pick

(* Two functions that satisfy the recursion agree where both are defined.  *)
LEMMA SumsUnique ==
  ASSUME NEW f, NEW S, IsFiniteSet(S), NEW T \in SUBSET S,
         NEW g, Sums(f, S, g), NEW h, Sums(f, T, h)
  PROVE  \A U \in SUBSET T : g[U] = h[U]
<1> DEFINE F == {U \in SUBSET T : g[U] = h[U]}
<1>1. IsFiniteSet(T)
  BY FS_Subset
<1>2. ASSUME NEW U \in SUBSET T, \A V \in SUBSET U : V # U => V \in F
      PROVE  U \in F
  <2>1. CASE U = {}
    BY <2>1 DEF Sums
  <2>2. CASE U # {}
    <3>1. Pick(U) \in U
      BY <2>2, PickIn
    <3>2. U \ {Pick(U)} \in F
      BY <1>2, <3>1
    <3>3. g[U] = f[Pick(U)] + g[U \ {Pick(U)}]
      BY <2>2 DEF Sums
    <3>4. h[U] = f[Pick(U)] + h[U \ {Pick(U)}]
      BY <2>2 DEF Sums
    <3> QED BY <3>2, <3>3, <3>4
  <2> QED BY <2>1, <2>2
<1> HIDE DEF F
<1>3. \A U \in SUBSET T : U \in F
  BY <1>1, <1>2, SubsetInduction
<1> QED BY <1>3 DEF F

(* Such a function exists for every finite set.                            *)
LEMMA SumsExists ==
  ASSUME NEW f, NEW S, IsFiniteSet(S)
  PROVE  \E g : Sums(f, S, g)
<1> DEFINE F == {T \in SUBSET S : \E g : Sums(f, T, g)}
           G(T) == CHOOSE g : Sums(f, T, g)
<1>1. ASSUME NEW T \in SUBSET S, \A U \in SUBSET T : U # T => U \in F
      PROVE  T \in F
  <2> DEFINE h == [s \in SUBSET T |->
                     IF s = T
                     THEN IF T = {} THEN 0
                          ELSE f[Pick(T)] + G(T \ {Pick(T)})[T \ {Pick(T)}]
                     ELSE G(s)[s]]
  <2>1. \A U \in SUBSET T : U # T => Sums(f, U, G(U))
    BY <1>1
  <2>2. ASSUME NEW s \in SUBSET T
        PROVE  h[s] = IF s = {} THEN 0 ELSE f[Pick(s)] + h[s \ {Pick(s)}]
    <3>1. CASE s = {}
      <4>1. CASE T = {}
        BY <3>1, <4>1
      <4>2. CASE T # {}
        <5>1. Sums(f, s, G(s))
          BY <2>1, <3>1, <4>2
        <5>2. h[s] = G(s)[s]
          BY <3>1, <4>2
        <5> HIDE DEF G, h
        <5> QED BY <3>1, <5>1, <5>2 DEF Sums
      <4> QED BY <4>1, <4>2
    <3>2. CASE s # {} /\ s = T
      <4>1. Pick(s) \in s
        BY <3>2, PickIn
      <4>2. h[s \ {Pick(s)}] = G(s \ {Pick(s)})[s \ {Pick(s)}]
        BY <3>2, <4>1
      <4>3. h[s] = f[Pick(s)] + G(s \ {Pick(s)})[s \ {Pick(s)}]
        BY <3>2
      <4> QED BY <3>2, <4>2, <4>3
    <3>3. CASE s # {} /\ s # T
      <4> DEFINE r == s \ {Pick(s)}
      <4>1. Pick(s) \in s
        BY <3>3, PickIn
      <4>2. r \in SUBSET s /\ r # T /\ r \in SUBSET T
        BY <3>3, <4>1
      <4>3. h[s] = G(s)[s] /\ h[r] = G(r)[r]
        BY <3>3, <4>2
      <4>4. Sums(f, s, G(s)) /\ Sums(f, r, G(r))
        BY <2>1, <3>3, <4>2
      <4>5. IsFiniteSet(s)
        BY FS_Subset
      <4> HIDE DEF G, h, r
      <4>6. ASSUME NEW gs, NEW gr, Sums(f, s, gs), Sums(f, r, gr)
            PROVE  gs[r] = gr[r]
        BY <4>2, <4>5, <4>6, SumsUnique
      <4>7. G(s)[r] = G(r)[r]
        BY <4>4, <4>6
      <4>8. G(s)[s] = f[Pick(s)] + G(s)[r]
        BY <3>3, <4>4 DEF Sums, r
      <4> QED BY <3>3, <4>3, <4>7, <4>8 DEF r
    <3> QED BY <3>1, <3>2, <3>3
  <2>3. h = [s \in SUBSET T |-> h[s]]
    OBVIOUS
  <2> HIDE DEF h
  <2>4. Sums(f, T, h)
    BY <2>2, <2>3 DEF Sums
  <2> QED BY <2>4
<1> HIDE DEF F
<1>2. \A T \in SUBSET S : T \in F
  BY <1>1, SubsetInduction
<1> QED BY <1>2 DEF F

-----------------------------------------------------------------------------
(* The equations a sum satisfies.                                          *)
LEMMA SumFunctionOnSetSums ==
  ASSUME NEW f, NEW S, IsFiniteSet(S)
  PROVE  \E g : Sums(f, S, g) /\ \A T \in SUBSET S : SumFunctionOnSet(f, T) = g[T]
<1>1. PICK g : Sums(f, S, g)
  BY SumsExists
<1>2. ASSUME NEW T \in SUBSET S
      PROVE  SumFunctionOnSet(f, T) = g[T]
  <2>1. IsFiniteSet(T)
    BY FS_Subset
  <2> DEFINE h == CHOOSE h : Sums(f, T, h)
  <2>2. Sums(f, T, h)
    BY <2>1, SumsExists
  <2>3. SumFunctionOnSet(f, T) = h[T]
    BY SumUnfold
  <2> HIDE DEF h
  <2>4. g[T] = h[T]
    BY <1>1, <2>2, SumsUnique
  <2> QED BY <2>3, <2>4
<1> QED BY <1>1, <1>2

(* The empty sum is zero.                                                  *)
LEMMA SumEmpty ==
  ASSUME NEW f PROVE SumFunctionOnSet(f, {}) = 0
<1>1. IsFiniteSet({})
  BY FS_EmptySet
<1>2. PICK g : Sums(f, {}, g) /\ \A T \in SUBSET {} : SumFunctionOnSet(f, T) = g[T]
  BY <1>1, SumFunctionOnSetSums
<1> QED BY <1>2 DEF Sums

(* A sum splits off the element that the library picks.                    *)
LEMMA SumPick ==
  ASSUME NEW f, NEW S, IsFiniteSet(S), S # {}
  PROVE  SumFunctionOnSet(f, S) = f[Pick(S)] + SumFunctionOnSet(f, S \ {Pick(S)})
<1>1. PICK g : Sums(f, S, g) /\ \A T \in SUBSET S : SumFunctionOnSet(f, T) = g[T]
  BY SumFunctionOnSetSums
<1>2. g[S] = f[Pick(S)] + g[S \ {Pick(S)}]
  BY <1>1 DEF Sums
<1> QED BY <1>1, <1>2

(* A sum of integers is an integer.                                        *)
LEMMA SumInt ==
  ASSUME NEW S, IsFiniteSet(S), NEW f, \A x \in S : f[x] \in Int
  PROVE  SumFunctionOnSet(f, S) \in Int
<1> DEFINE F == {T \in SUBSET S : SumFunctionOnSet(f, T) \in Int}
<1>1. ASSUME NEW T \in SUBSET S, \A U \in SUBSET T : U # T => U \in F
      PROVE  T \in F
  <2>1. CASE T = {}
    BY <2>1, SumEmpty
  <2>2. CASE T # {}
    <3>1. IsFiniteSet(T) /\ Pick(T) \in T
      BY <2>2, FS_Subset, PickIn
    <3>2. T \ {Pick(T)} \in F
      BY <1>1, <3>1
    <3>3. SumFunctionOnSet(f, T) = f[Pick(T)] + SumFunctionOnSet(f, T \ {Pick(T)})
      BY <2>2, <3>1, SumPick
    <3> QED BY <3>1, <3>2, <3>3
  <2> QED BY <2>1, <2>2
<1> HIDE DEF F
<1>2. \A T \in SUBSET S : T \in F
  BY <1>1, SubsetInduction
<1> QED BY <1>2 DEF F

(* A sum of naturals is a natural.                                         *)
LEMMA SumNat ==
  ASSUME NEW S, IsFiniteSet(S), NEW f, \A x \in S : f[x] \in Nat
  PROVE  SumFunctionOnSet(f, S) \in Nat
<1> DEFINE F == {T \in SUBSET S : SumFunctionOnSet(f, T) \in Nat}
<1>1. ASSUME NEW T \in SUBSET S, \A U \in SUBSET T : U # T => U \in F
      PROVE  T \in F
  <2>1. CASE T = {}
    BY <2>1, SumEmpty
  <2>2. CASE T # {}
    <3>1. IsFiniteSet(T) /\ Pick(T) \in T
      BY <2>2, FS_Subset, PickIn
    <3>2. T \ {Pick(T)} \in F
      BY <1>1, <3>1
    <3>3. SumFunctionOnSet(f, T) = f[Pick(T)] + SumFunctionOnSet(f, T \ {Pick(T)})
      BY <2>2, <3>1, SumPick
    <3> QED BY <3>1, <3>2, <3>3
  <2> QED BY <2>1, <2>2
<1> HIDE DEF F
<1>2. \A T \in SUBSET S : T \in F
  BY <1>1, SubsetInduction
<1> QED BY <1>2 DEF F

(* The order does not matter: any summand may be taken out first.          *)
LEMMA SumRemove ==
  ASSUME NEW S, IsFiniteSet(S), NEW f, \A x \in S : f[x] \in Int, NEW e \in S
  PROVE  SumFunctionOnSet(f, S) = f[e] + SumFunctionOnSet(f, S \ {e})
<1> DEFINE Sum(T) == SumFunctionOnSet(f, T)
           F == {T \in SUBSET S : \A x \in T : Sum(T) = f[x] + Sum(T \ {x})}
<1>0. \A T \in SUBSET S : IsFiniteSet(T) /\ Sum(T) \in Int
  BY FS_Subset, SumInt
<1>1. ASSUME NEW T \in SUBSET S, \A U \in SUBSET T : U # T => U \in F
      PROVE  T \in F
  <2>1. SUFFICES ASSUME NEW x \in T PROVE Sum(T) = f[x] + Sum(T \ {x})
    OBVIOUS
  <2> DEFINE p == Pick(T)
  <2>2. p \in T
    BY PickIn
  <2>3. Sum(T) = f[p] + Sum(T \ {p})
    BY <1>0, SumPick
  <2>4. CASE x = p
    BY <2>3, <2>4
  <2>5. CASE x # p
    <3>1. T \ {p} \in F /\ T \ {x} \in F
      BY <1>1, <2>2
    <3>2. Sum(T \ {p}) = f[x] + Sum((T \ {p}) \ {x})
      BY <2>5, <3>1
    <3>3. Sum(T \ {x}) = f[p] + Sum((T \ {x}) \ {p})
      BY <2>2, <2>5, <3>1
    <3>4. (T \ {p}) \ {x} = (T \ {x}) \ {p}
      OBVIOUS
    <3>5. f[x] \in Int /\ f[p] \in Int /\ Sum((T \ {x}) \ {p}) \in Int
      BY <1>0, <2>2
    <3>6. \A u, v, r \in Int : u + (v + r) = v + (u + r)
      OBVIOUS
    <3> HIDE DEF Sum, p
    <3>7. Sum(T) = f[p] + (f[x] + Sum((T \ {x}) \ {p}))
      BY <2>3, <3>2, <3>4
    <3>8. f[p] + (f[x] + Sum((T \ {x}) \ {p})) = f[x] + (f[p] + Sum((T \ {x}) \ {p}))
      BY <3>5, <3>6
    <3> QED BY <3>3, <3>7, <3>8
  <2> QED BY <2>4, <2>5
<1> HIDE DEF F
<1>2. \A T \in SUBSET S : T \in F
  BY <1>1, SubsetInduction
<1>3. S \in F
  BY <1>2
<1> QED BY <1>3 DEF F

-----------------------------------------------------------------------------
(* Comparing sums over the same set.                                       *)
LEMMA SumEqual ==
  ASSUME NEW S, IsFiniteSet(S), NEW f, NEW g, \A x \in S : f[x] = g[x]
  PROVE  SumFunctionOnSet(f, S) = SumFunctionOnSet(g, S)
<1> DEFINE F == {T \in SUBSET S : SumFunctionOnSet(f, T) = SumFunctionOnSet(g, T)}
<1>1. ASSUME NEW T \in SUBSET S, \A U \in SUBSET T : U # T => U \in F
      PROVE  T \in F
  <2>1. CASE T = {}
    BY <2>1, SumEmpty
  <2>2. CASE T # {}
    <3>1. IsFiniteSet(T) /\ Pick(T) \in T
      BY <2>2, FS_Subset, PickIn
    <3>2. T \ {Pick(T)} \in F
      BY <1>1, <3>1
    <3>3. SumFunctionOnSet(f, T) = f[Pick(T)] + SumFunctionOnSet(f, T \ {Pick(T)})
      BY <2>2, <3>1, SumPick
    <3>4. SumFunctionOnSet(g, T) = g[Pick(T)] + SumFunctionOnSet(g, T \ {Pick(T)})
      BY <2>2, <3>1, SumPick
    <3> QED BY <3>1, <3>2, <3>3, <3>4
  <2> QED BY <2>1, <2>2
<1> HIDE DEF F
<1>2. \A T \in SUBSET S : T \in F
  BY <1>1, SubsetInduction
<1> QED BY <1>2 DEF F

(* Changing one summand changes the sum by as much.                        *)
LEMMA SumUpdate ==
  ASSUME NEW S, IsFiniteSet(S), NEW f, NEW g, NEW e \in S,
         \A x \in S : f[x] \in Int /\ g[x] \in Int,
         \A x \in S \ {e} : f[x] = g[x],
         NEW d \in Int, g[e] = f[e] + d
  PROVE  SumFunctionOnSet(g, S) = SumFunctionOnSet(f, S) + d
<1>1. IsFiniteSet(S \ {e})
  BY FS_RemoveElement
<1>2. SumFunctionOnSet(f, S \ {e}) = SumFunctionOnSet(g, S \ {e})
  BY <1>1, SumEqual
<1>3. SumFunctionOnSet(f, S \ {e}) \in Int
  BY <1>1, SumInt
<1>4. SumFunctionOnSet(f, S) = f[e] + SumFunctionOnSet(f, S \ {e})
  BY SumRemove
<1>5. SumFunctionOnSet(g, S) = g[e] + SumFunctionOnSet(g, S \ {e})
  BY SumRemove
<1>6. f[e] \in Int /\ g[e] \in Int
  OBVIOUS
<1> QED BY <1>2, <1>3, <1>4, <1>5, <1>6

(* One more in one summand is one more in the sum.                         *)
LEMMA SumIncrement ==
  ASSUME NEW S, IsFiniteSet(S), NEW f, NEW g, NEW e \in S,
         \A x \in S : f[x] \in Int /\ g[x] \in Int,
         \A x \in S \ {e} : f[x] = g[x], g[e] = f[e] + 1
  PROVE  SumFunctionOnSet(g, S) = SumFunctionOnSet(f, S) + 1
BY SumUpdate

(* A sum of zeros is zero.                                                 *)
LEMMA SumZero ==
  ASSUME NEW S, IsFiniteSet(S), NEW f, \A x \in S : f[x] = 0
  PROVE  SumFunctionOnSet(f, S) = 0
<1> DEFINE F == {T \in SUBSET S : SumFunctionOnSet(f, T) = 0}
<1>1. ASSUME NEW T \in SUBSET S, \A U \in SUBSET T : U # T => U \in F
      PROVE  T \in F
  <2>1. CASE T = {}
    BY <2>1, SumEmpty
  <2>2. CASE T # {}
    <3>1. IsFiniteSet(T) /\ Pick(T) \in T
      BY <2>2, FS_Subset, PickIn
    <3>2. T \ {Pick(T)} \in F
      BY <1>1, <3>1
    <3>3. SumFunctionOnSet(f, T) = f[Pick(T)] + SumFunctionOnSet(f, T \ {Pick(T)})
      BY <2>2, <3>1, SumPick
    <3> QED BY <3>1, <3>2, <3>3
  <2> QED BY <2>1, <2>2
<1> HIDE DEF F
<1>2. \A T \in SUBSET S : T \in F
  BY <1>1, SubsetInduction
<1> QED BY <1>2 DEF F

(* A sum of naturals is at least each of its summands.                     *)
LEMMA SumMember ==
  ASSUME NEW S, IsFiniteSet(S), NEW f, \A x \in S : f[x] \in Nat, NEW e \in S
  PROVE  f[e] <= SumFunctionOnSet(f, S)
<1>1. IsFiniteSet(S \ {e})
  BY FS_RemoveElement
<1>2. SumFunctionOnSet(f, S \ {e}) \in Nat
  BY <1>1, SumNat
<1>3. SumFunctionOnSet(f, S) = f[e] + SumFunctionOnSet(f, S \ {e})
  BY SumRemove
<1> QED BY <1>2, <1>3

(* Sums add up summand by summand.                                         *)
LEMMA SumAdd ==
  ASSUME NEW S, IsFiniteSet(S), NEW f, NEW g, NEW h,
         \A x \in S : f[x] \in Int /\ g[x] \in Int /\ h[x] = f[x] + g[x]
  PROVE  SumFunctionOnSet(h, S) = SumFunctionOnSet(f, S) + SumFunctionOnSet(g, S)
<1> DEFINE F == {T \in SUBSET S :
                   SumFunctionOnSet(h, T) = SumFunctionOnSet(f, T) + SumFunctionOnSet(g, T)}
<1>1. ASSUME NEW T \in SUBSET S, \A U \in SUBSET T : U # T => U \in F
      PROVE  T \in F
  <2>1. CASE T = {}
    BY <2>1, SumEmpty
  <2>2. CASE T # {}
    <3> DEFINE p == Pick(T)
               R == T \ {p}
    <3>1. IsFiniteSet(T) /\ p \in T /\ R \in SUBSET S /\ IsFiniteSet(R)
      BY <2>2, FS_Subset, PickIn
    <3>2. R \in F
      BY <1>1, <3>1
    <3>3. SumFunctionOnSet(f, T) = f[p] + SumFunctionOnSet(f, R)
      BY <2>2, <3>1, SumPick
    <3>4. SumFunctionOnSet(g, T) = g[p] + SumFunctionOnSet(g, R)
      BY <2>2, <3>1, SumPick
    <3>5. SumFunctionOnSet(h, T) = h[p] + SumFunctionOnSet(h, R)
      BY <2>2, <3>1, SumPick
    <3>6. SumFunctionOnSet(f, R) \in Int /\ SumFunctionOnSet(g, R) \in Int
      <4> HIDE DEF R
      <4> QED BY <3>1, SumInt
    <3>7. f[p] \in Int /\ g[p] \in Int /\ h[p] = f[p] + g[p]
      BY <3>1
    <3> HIDE DEF p, R
    <3>8. SumFunctionOnSet(h, R) = SumFunctionOnSet(f, R) + SumFunctionOnSet(g, R)
      BY <3>2
    <3>9. SumFunctionOnSet(h, T) = SumFunctionOnSet(f, T) + SumFunctionOnSet(g, T)
      BY <3>3, <3>4, <3>5, <3>6, <3>7, <3>8
    <3> QED BY <3>9
  <2> QED BY <2>1, <2>2
<1> HIDE DEF F
<1>2. \A T \in SUBSET S : T \in F
  BY <1>1, SubsetInduction
<1> QED BY <1>2 DEF F

(* Larger summands make a larger sum.                                      *)
LEMMA SumMonotone ==
  ASSUME NEW S, IsFiniteSet(S), NEW f, NEW g,
         \A x \in S : f[x] \in Int /\ g[x] \in Int /\ f[x] <= g[x]
  PROVE  SumFunctionOnSet(f, S) <= SumFunctionOnSet(g, S)
<1> DEFINE d == [x \in S |-> g[x] - f[x]]
<1>1. \A x \in S : d[x] \in Nat /\ g[x] = f[x] + d[x]
  OBVIOUS
<1> HIDE DEF d
<1>2. SumFunctionOnSet(d, S) \in Nat
  BY <1>1, SumNat
<1>3. SumFunctionOnSet(g, S) = SumFunctionOnSet(f, S) + SumFunctionOnSet(d, S)
  BY <1>1, SumAdd
<1>4. SumFunctionOnSet(f, S) \in Int
  BY SumInt
<1> QED BY <1>2, <1>3, <1>4

(* A sum scales with its summands.                                         *)
LEMMA SumScale ==
  ASSUME NEW S, IsFiniteSet(S), NEW k \in Int, NEW f, NEW h,
         \A x \in S : f[x] \in Int /\ h[x] = k * f[x]
  PROVE  SumFunctionOnSet(h, S) = k * SumFunctionOnSet(f, S)
<1> DEFINE F == {T \in SUBSET S : SumFunctionOnSet(h, T) = k * SumFunctionOnSet(f, T)}
<1>1. ASSUME NEW T \in SUBSET S, \A U \in SUBSET T : U # T => U \in F
      PROVE  T \in F
  <2>1. CASE T = {}
    BY <2>1, SumEmpty
  <2>2. CASE T # {}
    <3> DEFINE p == Pick(T)
               R == T \ {p}
    <3>1. IsFiniteSet(T) /\ p \in T /\ R \in SUBSET S /\ IsFiniteSet(R)
      BY <2>2, FS_Subset, PickIn
    <3>2. R \in F
      BY <1>1, <3>1
    <3>3. SumFunctionOnSet(f, T) = f[p] + SumFunctionOnSet(f, R)
      BY <2>2, <3>1, SumPick
    <3>4. SumFunctionOnSet(h, T) = h[p] + SumFunctionOnSet(h, R)
      BY <2>2, <3>1, SumPick
    <3>5. SumFunctionOnSet(f, R) \in Int
      <4> HIDE DEF R
      <4> QED BY <3>1, SumInt
    <3>6. f[p] \in Int /\ h[p] = k * f[p]
      BY <3>1
    <3> HIDE DEF p, R
    <3>7. SumFunctionOnSet(h, R) = k * SumFunctionOnSet(f, R)
      BY <3>2
    <3>8. \A u, v \in Int : k * (u + v) = k * u + k * v
      OBVIOUS
    <3>9. SumFunctionOnSet(h, T) = k * SumFunctionOnSet(f, T)
      BY <3>3, <3>4, <3>5, <3>6, <3>7, <3>8
    <3> QED BY <3>9
  <2> QED BY <2>1, <2>2
<1> HIDE DEF F
<1>2. \A T \in SUBSET S : T \in F
  BY <1>1, SubsetInduction
<1> QED BY <1>2 DEF F

(* What a list without repetitions lists.                                  *)
OneToOne(m, I) == \A i, j \in I : m[i] = m[j] => i = j
Listed(m, I) == {m[i] : i \in I}

(* Summing over the indices of such a list, or over what it lists, is the  *)
(* same.                                                                   *)
LEMMA SumReindex ==
  ASSUME NEW I, IsFiniteSet(I), NEW m, NEW f, NEW g,
         OneToOne(m, I), \A i \in I : f[m[i]] \in Int /\ g[i] = f[m[i]]
  PROVE  /\ IsFiniteSet(Listed(m, I))
         /\ SumFunctionOnSet(f, Listed(m, I)) = SumFunctionOnSet(g, I)
<1> DEFINE Img(T) == {m[i] : i \in T}
           F == {T \in SUBSET I : /\ IsFiniteSet(Img(T))
                                  /\ SumFunctionOnSet(f, Img(T)) = SumFunctionOnSet(g, T)}
<1>1. ASSUME NEW T \in SUBSET I, \A U \in SUBSET T : U # T => U \in F
      PROVE  T \in F
  <2>1. CASE T = {}
    <3>1. Img(T) = {}
      BY <2>1
    <3> QED BY <2>1, <3>1, SumEmpty, FS_EmptySet
  <2>2. CASE T # {}
    <3> DEFINE p == Pick(T)
               R == T \ {p}
    <3>1. IsFiniteSet(T) /\ p \in T /\ R \in SUBSET I
      BY <2>2, FS_Subset, PickIn
    <3>2. R \in F
      BY <1>1, <3>1
    <3>3. Img(R) = Img(T) \ {m[p]} /\ m[p] \in Img(T) /\ Img(T) = Img(R) \cup {m[p]}
      BY <3>1 DEF OneToOne
    <3>4. IsFiniteSet(Img(T))
      <4>1. IsFiniteSet(Img(R))
        BY <3>2
      <4> HIDE DEF Img, R, p
      <4> QED BY <3>3, <4>1, FS_AddElement
    <3>5. \A x \in Img(T) : f[x] \in Int
      OBVIOUS
    <3>6. SumFunctionOnSet(f, Img(T)) = f[m[p]] + SumFunctionOnSet(f, Img(T) \ {m[p]})
      <4> DEFINE A == Img(T)
                 e == m[p]
      <4>1. IsFiniteSet(A) /\ e \in A /\ \A x \in A : f[x] \in Int
        BY <3>3, <3>4, <3>5
      <4> HIDE DEF A, e
      <4>2. SumFunctionOnSet(f, A) = f[e] + SumFunctionOnSet(f, A \ {e})
        BY <4>1, SumRemove
      <4> QED BY <4>2 DEF A, e
    <3>7. SumFunctionOnSet(g, T) = g[p] + SumFunctionOnSet(g, R)
      BY <2>2, <3>1, SumPick
    <3>8. SumFunctionOnSet(f, Img(R)) = SumFunctionOnSet(g, R)
      BY <3>2
    <3>9. g[p] = f[m[p]]
      BY <3>1
    <3> HIDE DEF Img, p, R
    <3>10. SumFunctionOnSet(f, Img(T)) = SumFunctionOnSet(g, T)
      BY <3>3, <3>6, <3>7, <3>8, <3>9
    <3> QED BY <3>4, <3>10
  <2> QED BY <2>1, <2>2
<1> HIDE DEF F
<1>2. \A T \in SUBSET I : T \in F
  BY <1>1, SubsetInduction
<1>3. I \in F
  BY <1>2
<1>4. IsFiniteSet(Img(I)) /\ SumFunctionOnSet(f, Img(I)) = SumFunctionOnSet(g, I)
  BY <1>3 DEF F
<1>5. Listed(m, I) = Img(I)
  BY DEF Listed
<1> HIDE DEF Img
<1> QED BY <1>4, <1>5

(* Summands that are zero may be left out.                                 *)
LEMMA SumSupport ==
  ASSUME NEW S, IsFiniteSet(S), NEW R \in SUBSET S, NEW f,
         \A x \in S : f[x] \in Int, \A x \in S \ R : f[x] = 0
  PROVE  SumFunctionOnSet(f, S) = SumFunctionOnSet(f, R)
<1> DEFINE F == {T \in SUBSET S :
                   SumFunctionOnSet(f, T) = SumFunctionOnSet(f, T \cap R)}
<1>1. ASSUME NEW T \in SUBSET S, \A U \in SUBSET T : U # T => U \in F
      PROVE  T \in F
  <2>1. CASE T \subseteq R
    <3>1. T \cap R = T
      BY <2>1
    <3> QED BY <3>1
  <2>2. CASE ~ (T \subseteq R)
    <3>1. PICK e \in T : e \notin R
      BY <2>2
    <3>2. T \ {e} \in F
      BY <1>1
    <3>3. (T \ {e}) \cap R = T \cap R
      BY <3>1
    <3>4. IsFiniteSet(T) /\ IsFiniteSet(T \ {e})
      BY FS_Subset
    <3>5. SumFunctionOnSet(f, T) = f[e] + SumFunctionOnSet(f, T \ {e})
      BY <3>4, SumRemove
    <3>6. f[e] = 0
      BY <3>1
    <3>7. SumFunctionOnSet(f, T \ {e}) \in Int
      BY <3>4, SumInt
    <3>8. SumFunctionOnSet(f, T) = SumFunctionOnSet(f, T \ {e})
      BY <3>5, <3>6, <3>7
    <3> QED BY <3>2, <3>3, <3>8
  <2> QED BY <2>1, <2>2
<1> HIDE DEF F
<1>2. \A T \in SUBSET S : T \in F
  BY <1>1, SubsetInduction
<1>3. S \in F /\ S \cap R = R
  BY <1>2
<1> QED BY <1>3 DEF F

-----------------------------------------------------------------------------
(* Induction over the values of a bounded counter.                         *)
LEMMA IntervalInduction ==
  ASSUME NEW n \in Nat, NEW F, 0 \in F,
         \A w \in 0 .. n : w < n /\ w \in F => w + 1 \in F
  PROVE  \A w \in 0 .. n : w \in F
<1> DEFINE G == {T \in SUBSET (0 .. n) : \A w \in 0 .. n : T = 0 .. w => w \in F}
<1>1. IsFiniteSet(0 .. n)
  BY FS_Interval
<1>2. ASSUME NEW T \in SUBSET (0 .. n), \A U \in SUBSET T : U # T => U \in G
      PROVE  T \in G
  <2>1. SUFFICES ASSUME NEW w \in 0 .. n, T = 0 .. w PROVE w \in F
    OBVIOUS
  <2>2. CASE w = 0
    BY <2>2
  <2>3. CASE w # 0
    <3>1. 0 .. (w - 1) \in SUBSET T /\ 0 .. (w - 1) # T
      BY <2>1, <2>3
    <3>2. 0 .. (w - 1) \in G
      BY <1>2, <3>1
    <3>3. w - 1 \in 0 .. n /\ w - 1 < n
      BY <2>3
    <3>4. w - 1 \in F
      BY <3>2, <3>3
    <3>5. (w - 1) + 1 \in F
      BY <3>3, <3>4
    <3> QED BY <3>5
  <2> QED BY <2>2, <2>3
<1> HIDE DEF G
<1>3. \A T \in SUBSET (0 .. n) : T \in G
  BY <1>1, <1>2, SubsetInduction
<1>4. ASSUME NEW w \in 0 .. n PROVE w \in F
  <2>1. 0 .. w \in SUBSET (0 .. n)
    OBVIOUS
  <2> QED BY <1>3, <2>1 DEF G
<1> QED BY <1>4
-----------------------------------------------------------------------------
(* Counting is summing ones.                                               *)
LEMMA SumOnes ==
  ASSUME NEW S, IsFiniteSet(S), NEW f, \A x \in S : f[x] = 1
  PROVE  SumFunctionOnSet(f, S) = Cardinality(S)
<1> DEFINE F == {T \in SUBSET S : SumFunctionOnSet(f, T) = Cardinality(T)}
<1>1. ASSUME NEW T \in SUBSET S, \A U \in SUBSET T : U # T => U \in F
      PROVE  T \in F
  <2>1. CASE T = {}
    BY <2>1, SumEmpty, FS_EmptySet
  <2>2. CASE T # {}
    <3>1. IsFiniteSet(T) /\ Pick(T) \in T
      BY <2>2, FS_Subset, PickIn
    <3>2. T \ {Pick(T)} \in F
      BY <1>1, <3>1
    <3>3. SumFunctionOnSet(f, T) = f[Pick(T)] + SumFunctionOnSet(f, T \ {Pick(T)})
      BY <2>2, <3>1, SumPick
    <3>4. Cardinality(T \ {Pick(T)}) = Cardinality(T) - 1 /\ Cardinality(T) \in Nat
      BY <3>1, FS_RemoveElement, FS_CardinalityType
    <3> QED BY <3>1, <3>2, <3>3, <3>4
  <2> QED BY <2>1, <2>2
<1> HIDE DEF F
<1>2. \A T \in SUBSET S : T \in F
  BY <1>1, SubsetInduction
<1> QED BY <1>2 DEF F

(* A sum of amounts up to k is at most k times their number.               *)
LEMMA SumBound ==
  ASSUME NEW S, IsFiniteSet(S), NEW k \in Int, NEW f,
         \A x \in S : f[x] \in Int /\ f[x] <= k
  PROVE  SumFunctionOnSet(f, S) <= k * Cardinality(S)
<1> DEFINE ones == [x \in S |-> 1]
           bounds == [x \in S |-> k]
<1>1. \A x \in S : ones[x] = 1 /\ ones[x] \in Int /\ bounds[x] = k * ones[x]
  OBVIOUS
<1>2. \A x \in S : f[x] \in Int /\ bounds[x] \in Int /\ f[x] <= bounds[x]
  OBVIOUS
<1> HIDE DEF ones, bounds
<1>3. SumFunctionOnSet(f, S) <= SumFunctionOnSet(bounds, S)
  BY <1>2, SumMonotone
<1>4. SumFunctionOnSet(bounds, S) = k * SumFunctionOnSet(ones, S)
  BY <1>1, SumScale
<1>5. SumFunctionOnSet(ones, S) = Cardinality(S)
  BY <1>1, SumOnes
<1> QED BY <1>3, <1>4, <1>5

-----------------------------------------------------------------------------
(* The settlement                                                          *)

(* What integer division means.                                            *)
LEMMA Division ==
  ASSUME NEW a \in Int, NEW b \in Int, b > 0
  PROVE  /\ a \div b \in Int /\ a % b \in Int
         /\ b * (a \div b) <= a /\ a - b < b * (a \div b)
OBVIOUS

(* A positive common factor of an inequality cancels.                      *)
LEMMA CancelFactor ==
  ASSUME NEW a \in Int, NEW b \in Int, NEW c \in Int, b > 0, b * a <= b * c
  PROVE  a <= c
OBVIOUS

(* A sum over a whole domain is a sum over that set.                       *)
LEMMA SumDomain ==
  ASSUME NEW D, NEW f \in [D -> Int]
  PROVE  SumFunction(f) = SumFunctionOnSet(f, D)
BY DEF SumFunction

(* A sum of the integers in a sequence is an integer.                      *)
LEMMA SumOfSequence ==
  ASSUME NEW n \in Nat, NEW f \in [1 .. n -> Int]
  PROVE  SumFunction(f) \in Int
<1>1. IsFiniteSet(1 .. n) /\ \A i \in 1 .. n : f[i] \in Int
  BY FS_Interval
<1> QED BY <1>1, SumDomain, SumInt

-----------------------------------------------------------------------------
(* The scan finds a tenant whenever one is eligible.                       *)
LEMMA BestExists ==
  ASSUME NEW E, IsFiniteSet(E), E \subseteq Int, E # {},
         NEW frac, \A i \in E : frac[i] \in Int
  PROVE  \E i \in E : \A j \in E : PreferredOver(frac, i, j)
<1> DEFINE F == {T \in SUBSET E : T = {} \/ \E i \in T : \A j \in T : PreferredOver(frac, i, j)}
<1>1. ASSUME NEW T \in SUBSET E, \A U \in SUBSET T : U # T => U \in F
      PROVE  T \in F
  <2>1. CASE T = {}
    BY <2>1
  <2>2. CASE T # {}
    <3>1. PICK x \in T : TRUE
      BY <2>2
    <3>2. T \ {x} \in F
      BY <1>1, <3>1
    <3>3. CASE T \ {x} = {}
      <4>1. \A j \in T : PreferredOver(frac, x, j)
        BY <3>3 DEF PreferredOver
      <4> QED BY <4>1
    <3>4. CASE T \ {x} # {}
      <4>1. PICK b \in T \ {x} : \A j \in T \ {x} : PreferredOver(frac, b, j)
        BY <3>2, <3>4
      <4>2. CASE PreferredOver(frac, b, x)
        BY <4>1, <4>2
      <4>3. CASE ~ PreferredOver(frac, b, x)
        <5>1. \A j \in T : PreferredOver(frac, x, j)
          BY <4>1, <4>3 DEF PreferredOver
        <5> QED BY <5>1
      <4> QED BY <4>2, <4>3
    <3> QED BY <3>3, <3>4
  <2> QED BY <2>1, <2>2
<1> HIDE DEF F
<1>2. \A T \in SUBSET E : T \in F
  BY <1>1, SubsetInduction
<1>3. E \in F
  BY <1>2
<1> QED BY <1>3 DEF F

(* The tenant that gets the next wei is below its cap.                     *)
LEMMA BestEligible ==
  ASSUME NEW n \in Nat, NEW remaining \in [1 .. n -> Int],
         NEW alloc \in [1 .. n -> Int], NEW frac \in [1 .. n -> Int],
         Eligible(alloc, remaining) # {}
  PROVE  /\ Best(alloc, frac, remaining) \in 1 .. n
         /\ alloc[Best(alloc, frac, remaining)] < remaining[Best(alloc, frac, remaining)]
<1> DEFINE E == Eligible(alloc, remaining)
<1>1. E \subseteq 1 .. n
  BY DEF Eligible
<1>2. IsFiniteSet(E)
  BY <1>1, FS_Interval, FS_Subset
<1>3. E \subseteq Int /\ \A i \in E : frac[i] \in Int
  BY <1>1
<1>4. \E i \in E : \A j \in E : PreferredOver(frac, i, j)
  <2> HIDE DEF E
  <2>1. E # {}
    BY DEF E
  <2> QED BY <1>2, <1>3, <2>1, BestExists
<1>5. Best(alloc, frac, remaining) \in E
  BY <1>4 DEF Best
<1> QED BY <1>1, <1>5 DEF Eligible

(* The state of the distribution loop: as many wei given out as rounds     *)
(* done, and no tenant above its cap.                                      *)
Rounds(n) == [alloc : [1 .. n -> Int], frac : [1 .. n -> Int]]

(* One more wei for one tenant is one more wei in the sum.                 *)
LEMMA OneMore ==
  ASSUME NEW n \in Nat, NEW f \in [1 .. n -> Int], NEW g \in [1 .. n -> Int],
         NEW b \in 1 .. n, g[b] = f[b] + 1, \A i \in (1 .. n) \ {b} : g[i] = f[i]
  PROVE  SumFunction(g) = SumFunction(f) + 1
<1>1. SumFunction(f) = SumFunctionOnSet(f, 1 .. n)
  BY SumDomain
<1>2. SumFunction(g) = SumFunctionOnSet(g, 1 .. n)
  BY SumDomain
<1>3. \A x \in 1 .. n : f[x] \in Int /\ g[x] \in Int
  OBVIOUS
<1>4. \A x \in (1 .. n) \ {b} : f[x] = g[x]
  OBVIOUS
<1>5. IsFiniteSet(1 .. n)
  BY FS_Interval
<1>7. SumFunctionOnSet(g, 1 .. n) = SumFunctionOnSet(f, 1 .. n) + 1
  BY <1>3, <1>4, <1>5, SumIncrement, Zenon
<1> QED BY <1>1, <1>2, <1>7

(* A round of the loop adds one wei, and to nobody beyond the cap.         *)
LEMMA GrantGivesOneWei ==
  ASSUME NEW n \in Nat, NEW remaining \in [1 .. n -> Int], NEW round \in Rounds(n),
         Eligible(round.alloc, remaining) # {}
  PROVE  /\ Grant(round, remaining) \in Rounds(n)
         /\ SumFunction(Grant(round, remaining).alloc) = SumFunction(round.alloc) + 1
         /\ \A i \in 1 .. n :
              round.alloc[i] <= remaining[i] => Grant(round, remaining).alloc[i] <= remaining[i]
         /\ \A i \in 1 .. n :
              round.alloc[i] >= 0 => Grant(round, remaining).alloc[i] >= 0
<1> DEFINE b == Best(round.alloc, round.frac, remaining)
           before == round.alloc
           A == [before EXCEPT ![b] = @ + 1]
<1>1. before \in [1 .. n -> Int] /\ round.frac \in [1 .. n -> Int]
  BY DEF Rounds
<1>2. b \in 1 .. n /\ before[b] < remaining[b]
  BY <1>1, BestEligible
<1>3. /\ Grant(round, remaining).alloc = A
      /\ Grant(round, remaining) \in Rounds(n)
  BY <1>1, <1>2 DEF Grant, Rounds
<1> HIDE DEF b
<1>4. /\ A \in [1 .. n -> Int]
      /\ A[b] = before[b] + 1
      /\ \A i \in (1 .. n) \ {b} : A[i] = before[i]
  BY <1>1, <1>2
<1> HIDE DEF A, before
<1>5. SumFunction(A) = SumFunction(before) + 1
  BY <1>1, <1>2, <1>4, OneMore
<1>6. ASSUME NEW i \in 1 .. n
      PROVE  /\ before[i] <= remaining[i] => A[i] <= remaining[i]
             /\ before[i] >= 0 => A[i] >= 0
  <2>1. before[i] \in Int /\ remaining[i] \in Int /\ A[i] \in Int
    BY <1>1, <1>4
  <2>2. CASE i = b
    BY <2>1, <2>2, <1>2, <1>4
  <2>3. CASE i # b
    BY <2>1, <2>3, <1>4
  <2> QED BY <2>2, <2>3
<1> QED BY <1>3, <1>5, <1>6 DEF before

-----------------------------------------------------------------------------
(* The loop is the recursion it looks like: its function exists.           *)
Loop(remaining, start, k, g) ==
  g = [w \in 0 .. k |-> IF w = 0 THEN start ELSE Grant(g[w - 1], remaining)]

(* The recursion of the loop has a solution, for any number of rounds.     *)
LEMMA LoopExists ==
  ASSUME NEW remaining, NEW start, NEW U \in Nat
  PROVE  \E g : Loop(remaining, start, U, g)
<1> DEFINE F == {k \in 0 .. U : \E g : Loop(remaining, start, k, g)}
<1>1. 0 \in F
  <2> DEFINE g == [w \in 0 .. 0 |-> start]
  <2>1. g = [w \in 0 .. 0 |-> IF w = 0 THEN start ELSE Grant(g[w - 1], remaining)]
    OBVIOUS
  <2>2. Loop(remaining, start, 0, g)
    BY <2>1 DEF Loop
  <2> QED BY <2>2
<1>2. ASSUME NEW k \in 0 .. U, k < U, k \in F
      PROVE  k + 1 \in F
  <2>1. PICK g : Loop(remaining, start, k, g)
    BY <1>2
  <2> DEFINE h == [w \in 0 .. k + 1 |-> IF w <= k THEN g[w] ELSE Grant(g[k], remaining)]
  <2>2. /\ g[0] = start
        /\ \A w \in 1 .. k : g[w] = Grant(g[w - 1], remaining)
    BY <2>1 DEF Loop
  <2>3. ASSUME NEW w \in 0 .. k + 1
        PROVE  h[w] = IF w = 0 THEN start ELSE Grant(h[w - 1], remaining)
    <3>1. CASE w = 0
      BY <2>2, <3>1
    <3>2. CASE w \in 1 .. k
      <4>1. h[w] = g[w] /\ h[w - 1] = g[w - 1]
        BY <3>2
      <4> QED BY <2>2, <3>2, <4>1
    <3>3. CASE w = k + 1
      <4>1. h[w] = Grant(g[k], remaining) /\ h[w - 1] = g[k]
        BY <3>3
      <4> QED BY <3>3, <4>1
    <3> QED BY <3>1, <3>2, <3>3
  <2>4. h = [w \in 0 .. k + 1 |-> h[w]]
    OBVIOUS
  <2> HIDE DEF h
  <2>5. Loop(remaining, start, k + 1, h)
    BY <2>3, <2>4, Zenon DEF Loop
  <2>6. k + 1 \in 0 .. U
    BY <1>2
  <2> QED BY <2>5, <2>6
<1> HIDE DEF F
<1>3. U \in 0 .. U
  OBVIOUS
<1>4. U \in F
  BY <1>1, <1>2, <1>3, IntervalInduction
<1> QED BY <1>4 DEF F

(* Distribution is that function: its first state, and each next one.      *)
LEMMA DistributionUnfolds ==
  ASSUME NEW remaining, NEW sharedTotal, Unallocated(remaining, sharedTotal) \in Nat
  PROVE  /\ Distribution(remaining, sharedTotal)[0]
              = [alloc |-> BaseAllocation(remaining, sharedTotal),
                 frac  |-> Fraction(remaining, sharedTotal)]
         /\ \A w \in 1 .. Unallocated(remaining, sharedTotal) :
              Distribution(remaining, sharedTotal)[w]
                = Grant(Distribution(remaining, sharedTotal)[w - 1], remaining)
<1> DEFINE U == Unallocated(remaining, sharedTotal)
           start == [alloc |-> BaseAllocation(remaining, sharedTotal),
                     frac  |-> Fraction(remaining, sharedTotal)]
           D == Distribution(remaining, sharedTotal)
<1>1. D = CHOOSE g : Loop(remaining, start, U, g)
  BY DEF Distribution, Loop
<1> HIDE DEF U, start, D
<1>2. Loop(remaining, start, U, D)
  <2>1. U \in Nat
    BY DEF U
  <2> QED BY <1>1, <2>1, LoopExists
<1>3. D[0] = start /\ \A w \in 1 .. U : D[w] = Grant(D[w - 1], remaining)
  <2>1. U \in Nat
    BY DEF U
  <2> QED BY <1>2, <2>1 DEF Loop
<1> QED BY <1>3 DEF U, start, D

-----------------------------------------------------------------------------
(* Multiplying by a natural number keeps an inequality.                    *)
LEMMA MultiplyMonotone ==
  ASSUME NEW a \in Int, NEW b \in Int, NEW c \in Int, a <= b, c >= 0
  PROVE  c * a <= c * b
OBVIOUS

(* Every floor is a whole share: not negative, and not above the cap.      *)
LEMMA FloorWithinCap ==
  ASSUME NEW s \in Int, NEW t \in Int, NEW r \in Int, 0 < s, s <= t, 0 <= r
  PROVE  0 <= (s * r) \div t /\ (s * r) \div t <= r
<1> DEFINE p == s * r
           q == p \div t
<1>1. p \in Int /\ 0 <= p /\ p <= t * r
  BY MultiplyMonotone
<1>2. q \in Int /\ t * q <= p /\ p - t < t * q
  BY <1>1, Division
<1>3. q <= r
  <2>1. t * q \in Int /\ t * r \in Int
    BY <1>2
  <2>2. t * q <= t * r
    BY <1>1, <1>2, <2>1
  <2> QED BY <1>2, <2>2, CancelFactor
<1>4. 0 <= q
  <2>1. t * 0 < t * (q + 1)
    BY <1>1, <1>2
  <2> QED BY <1>2, <2>1
<1> QED BY <1>3, <1>4

(* Steps C to E: the floors together never exceed the shared total, so the *)
(* number of wei left over is not negative.                                *)
LEMMA FloorsFit ==
  ASSUME NEW n \in Nat, NEW remaining \in [1 .. n -> Int], NEW s \in Int,
         0 < s, s <= TotalRemaining(remaining)
  PROVE  /\ BaseAllocation(remaining, s) \in [1 .. n -> Int]
         /\ Fraction(remaining, s) \in [1 .. n -> Int]
         /\ SumFunction(BaseAllocation(remaining, s)) \in Int
         /\ Unallocated(remaining, s) \in Nat
         /\ \A i \in 1 .. n : remaining[i] >= 0 =>
              /\ BaseAllocation(remaining, s)[i] >= 0
              /\ BaseAllocation(remaining, s)[i] <= remaining[i]
<1> DEFINE t == TotalRemaining(remaining)
           base == BaseAllocation(remaining, s)
           I == 1 .. n
<1>1. IsFiniteSet(I)
  BY FS_Interval
<1>2. t = SumFunctionOnSet(remaining, I) /\ t \in Int
  <2>1. t = SumFunctionOnSet(remaining, I)
    BY SumDomain DEF TotalRemaining
  <2>2. \A i \in I : remaining[i] \in Int
    OBVIOUS
  <2> QED BY <1>1, <2>1, <2>2, SumInt
<1>3. t > 0
  BY <1>2
<1>4. /\ base = [i \in I |-> (s * remaining[i]) \div t]
      /\ Fraction(remaining, s) = [i \in I |-> (s * remaining[i]) % t]
  BY DEF BaseAllocation, Fraction
<1> HIDE DEF t
<1>5. ASSUME NEW i \in I
      PROVE  /\ base[i] \in Int /\ (s * remaining[i]) % t \in Int
             /\ t * base[i] <= s * remaining[i]
  <2>1. s * remaining[i] \in Int
    OBVIOUS
  <2> QED BY <1>2, <1>3, <1>4, <2>1, Division
<1>6. base \in [1 .. n -> Int] /\ Fraction(remaining, s) \in [1 .. n -> Int]
  BY <1>4, <1>5
<1> HIDE DEF base
<1> DEFINE scaled == [i \in I |-> t * base[i]]
           product == [i \in I |-> s * remaining[i]]
<1>7. SumFunction(base) = SumFunctionOnSet(base, I) /\ SumFunction(base) \in Int
  <2>1. SumFunction(base) = SumFunctionOnSet(base, I)
    BY <1>6, SumDomain
  <2>2. \A i \in I : base[i] \in Int
    BY <1>6
  <2> QED BY <1>1, <2>1, <2>2, SumInt
<1>8. SumFunctionOnSet(scaled, I) = t * SumFunctionOnSet(base, I)
  <2>1. \A i \in I : base[i] \in Int /\ scaled[i] = t * base[i]
    BY <1>6
  <2> QED BY <1>1, <1>2, <2>1, SumScale
<1>9. SumFunctionOnSet(product, I) = s * SumFunctionOnSet(remaining, I)
  <2>1. \A i \in I : remaining[i] \in Int /\ product[i] = s * remaining[i]
    OBVIOUS
  <2> QED BY <1>1, <2>1, SumScale
<1>10. SumFunctionOnSet(scaled, I) <= SumFunctionOnSet(product, I)
  <2>1. \A i \in I : scaled[i] \in Int /\ product[i] \in Int /\ scaled[i] <= product[i]
    BY <1>2, <1>5, <1>6
  <2> QED BY <1>1, <2>1, SumMonotone
<1>11. t * SumFunction(base) <= t * s
  <2>1. s * t = t * s
    BY <1>2
  <2> QED BY <1>2, <1>7, <1>8, <1>9, <1>10, <2>1
<1>12. SumFunction(base) <= s
  BY <1>2, <1>3, <1>7, <1>11, CancelFactor
<1>13. Unallocated(remaining, s) \in Nat
  BY <1>7, <1>12 DEF base, Unallocated
<1>14. ASSUME NEW i \in I, remaining[i] >= 0
       PROVE  base[i] >= 0 /\ base[i] <= remaining[i]
  <2>1. remaining[i] \in Int /\ base[i] = (s * remaining[i]) \div t
    BY <1>4
  <2>2. s <= t
    BY DEF t
  <2> QED BY <1>2, <1>14, <2>1, <2>2, FloorWithinCap
<1> QED BY <1>6, <1>7, <1>13, <1>14 DEF base

-----------------------------------------------------------------------------
(* As long as less than the remaining total has been given out, some       *)
(* tenant has not reached its cap.                                         *)
LEMMA SomeoneEligible ==
  ASSUME NEW n \in Nat, NEW remaining \in [1 .. n -> Int], NEW alloc \in [1 .. n -> Int],
         SumFunction(alloc) < TotalRemaining(remaining)
  PROVE  Eligible(alloc, remaining) # {}
<1> DEFINE I == 1 .. n
<1> SUFFICES ASSUME Eligible(alloc, remaining) = {} PROVE FALSE
  OBVIOUS
<1>1. ASSUME NEW i \in I
      PROVE  alloc[i] \in Int /\ remaining[i] \in Int /\ remaining[i] <= alloc[i]
  <2>1. alloc[i] \in Int /\ remaining[i] \in Int /\ i \in DOMAIN remaining
    OBVIOUS
  <2>2. ~ (alloc[i] < remaining[i])
    BY <2>1 DEF Eligible
  <2> QED BY <2>1, <2>2
<1>2. IsFiniteSet(I)
  BY FS_Interval
<1>3. SumFunctionOnSet(remaining, I) <= SumFunctionOnSet(alloc, I)
  BY <1>1, <1>2, SumMonotone
<1>4. SumFunctionOnSet(remaining, I) \in Int /\ SumFunctionOnSet(alloc, I) \in Int
  BY <1>1, <1>2, SumInt
<1>5. /\ SumFunction(alloc) = SumFunctionOnSet(alloc, I)
      /\ TotalRemaining(remaining) = SumFunctionOnSet(remaining, I)
  BY SumDomain DEF TotalRemaining
<1> QED BY <1>3, <1>4, <1>5

(* The invariant of the distribution loop: after w rounds exactly w wei    *)
(* have been added to the floors, nobody is above its cap or below zero,   *)
(* and until the last round somebody can take one more.                    *)
Within(alloc, remaining, n) ==
  \A i \in 1 .. n : remaining[i] >= 0 => alloc[i] >= 0 /\ alloc[i] <= remaining[i]

(* That invariant holds after every round of the loop.                     *)
LEMMA LoopInvariant ==
  ASSUME NEW n \in Nat, NEW remaining \in [1 .. n -> Int], NEW s \in Int,
         0 < s, s <= TotalRemaining(remaining),
         NEW w \in 0 .. Unallocated(remaining, s)
  PROVE  /\ Distribution(remaining, s)[w] \in Rounds(n)
         /\ SumFunction(Distribution(remaining, s)[w].alloc)
              = SumFunction(BaseAllocation(remaining, s)) + w
         /\ Within(Distribution(remaining, s)[w].alloc, remaining, n)
         /\ w < Unallocated(remaining, s) =>
              Eligible(Distribution(remaining, s)[w].alloc, remaining) # {}
<1> DEFINE U == Unallocated(remaining, s)
           D == Distribution(remaining, s)
           base == BaseAllocation(remaining, s)
           Good(v) == /\ D[v] \in Rounds(n)
                      /\ SumFunction(D[v].alloc) = SumFunction(base) + v
                      /\ Within(D[v].alloc, remaining, n)
           F == {v \in 0 .. U : Good(v)}
<1>1. /\ base \in [1 .. n -> Int] /\ Fraction(remaining, s) \in [1 .. n -> Int]
      /\ SumFunction(base) \in Int /\ U \in Nat
      /\ Within(base, remaining, n)
  BY FloorsFit DEF Within
<1>2. SumFunction(base) + U = s
  BY <1>1 DEF Unallocated
<1>3. /\ D[0] = [alloc |-> base, frac |-> Fraction(remaining, s)]
      /\ \A v \in 1 .. U : D[v] = Grant(D[v - 1], remaining)
  BY <1>1, DistributionUnfolds
<1>4. TotalRemaining(remaining) \in Int
  <2>1. IsFiniteSet(1 .. n) /\ \A i \in 1 .. n : remaining[i] \in Int
    BY FS_Interval
  <2> QED BY <2>1, SumInt, SumDomain DEF TotalRemaining
<1> HIDE DEF U, D, base
<1>5. ASSUME NEW v \in 0 .. U, v < U, Good(v)
      PROVE  Eligible(D[v].alloc, remaining) # {}
  <2>1. D[v].alloc \in [1 .. n -> Int]
    BY <1>5 DEF Rounds
  <2>2. SumFunction(D[v].alloc) < TotalRemaining(remaining)
    BY <1>1, <1>2, <1>4, <1>5
  <2> QED BY <2>1, <2>2, SomeoneEligible
<1>6. Good(0)
  <2>1. D[0] \in Rounds(n) /\ D[0].alloc = base
    BY <1>1, <1>3 DEF Rounds
  <2> QED BY <1>1, <2>1
<1>7. ASSUME NEW v \in 0 .. U, v < U, Good(v)
      PROVE  Good(v + 1)
  <2>1. Eligible(D[v].alloc, remaining) # {}
    BY <1>5, <1>7
  <2>2. D[v + 1] = Grant(D[v], remaining)
    <3>1. v + 1 \in 1 .. U /\ (v + 1) - 1 = v
      BY <1>1, <1>7
    <3> QED BY <1>3, <3>1
  <2> DEFINE before == D[v]
             after == D[v + 1]
  <2>3. before \in Rounds(n) /\ after = Grant(before, remaining)
        /\ Eligible(before.alloc, remaining) # {}
    BY <1>7, <2>1, <2>2
  <2>4. /\ SumFunction(before.alloc) = SumFunction(base) + v
        /\ Within(before.alloc, remaining, n)
    BY <1>7
  <2> HIDE DEF before, after
  <2>5. /\ after \in Rounds(n)
        /\ SumFunction(after.alloc) = SumFunction(before.alloc) + 1
        /\ \A i \in 1 .. n : before.alloc[i] <= remaining[i] => after.alloc[i] <= remaining[i]
        /\ \A i \in 1 .. n : before.alloc[i] >= 0 => after.alloc[i] >= 0
    BY <2>3, GrantGivesOneWei
  <2>6. SumFunction(after.alloc) = SumFunction(base) + (v + 1)
    BY <1>1, <2>4, <2>5
  <2>7. Within(after.alloc, remaining, n)
    BY <2>4, <2>5 DEF Within
  <2> QED BY <2>5, <2>6, <2>7 DEF after
<1> HIDE DEF Good
<1>8. \A v \in 0 .. U : v \in F
  <2>1. 0 \in F
    BY <1>1, <1>6
  <2>2. \A v \in 0 .. U : v < U /\ v \in F => v + 1 \in F
    BY <1>1, <1>7
  <2> HIDE DEF F
  <2> QED BY <1>1, <2>1, <2>2, IntervalInduction
<1>9. w \in 0 .. U
  BY DEF U
<1>10. Good(w)
  BY <1>8, <1>9
<1>11. w < U => Eligible(D[w].alloc, remaining) # {}
  BY <1>5, <1>9, <1>10
<1> QED BY <1>10, <1>11 DEF Good, U, D, base

-----------------------------------------------------------------------------
(* The two defensive reverts of _computeSettlement are unreachable as soon *)
(* as the shared claims fit into what the tenants have left: the loop that *)
(* hands out the odd wei always finds a tenant below its cap.              *)
THEOREM NeverDefensive ==
  ASSUME NEW n \in Nat, NEW remaining \in [1 .. n -> Int], NEW s \in Nat,
         s <= TotalRemaining(remaining)
  PROVE  Settles(remaining, s)
<1>1. CASE s = 0
  BY <1>1 DEF Settles
<1>2. CASE s > 0
  <2>1. Unallocated(remaining, s) \in Nat
    BY <1>2, FloorsFit
  <2>2. ASSUME NEW w \in 1 .. Unallocated(remaining, s)
        PROVE  Eligible(Distribution(remaining, s)[w - 1].alloc, remaining) # {}
    <3>1. w - 1 \in 0 .. Unallocated(remaining, s) /\ w - 1 < Unallocated(remaining, s)
      BY <2>1
    <3> QED BY <1>2, <3>1, LoopInvariant
  <2> QED BY <2>2 DEF Settles
<1> QED BY <1>1, <1>2

(* The settlement of _computeSettlement is exact: the allocations add up   *)
(* to the shared claims, no tenant pays more than it has left or less than *)
(* nothing, and the refunds are the rest, to the wei.                      *)
THEOREM SettlementIsExact ==
  ASSUME NEW n \in Nat, NEW remaining \in [1 .. n -> Int], NEW s \in Nat,
         s <= TotalRemaining(remaining)
  PROVE  /\ Allocation(remaining, s) \in [1 .. n -> Int]
         /\ SumFunction(Allocation(remaining, s)) = s
         /\ Within(Allocation(remaining, s), remaining, n)
         /\ Refunds(remaining, s) \in [1 .. n -> Int]
         /\ SumFunction(Refunds(remaining, s)) = TotalRemaining(remaining) - s
<1> DEFINE I == 1 .. n
           alloc == Allocation(remaining, s)
           U == Unallocated(remaining, s)
<1>1. IsFiniteSet(I)
  BY FS_Interval
<1>2. alloc \in [1 .. n -> Int] /\ SumFunction(alloc) = s /\ Within(alloc, remaining, n)
  <2>1. CASE s = 0
    <3>1. alloc = [i \in I |-> 0]
      BY <2>1 DEF Allocation
    <3> HIDE DEF alloc
    <3>2. alloc \in [1 .. n -> Int] /\ \A i \in I : alloc[i] = 0
      BY <3>1
    <3>3. SumFunction(alloc) = 0
      BY <1>1, <3>2, SumDomain, SumZero
    <3>4. Within(alloc, remaining, n)
      BY <3>2 DEF Within
    <3> QED BY <2>1, <3>2, <3>3, <3>4
  <2>2. CASE s > 0
    <3>1. U \in Nat /\ SumFunction(BaseAllocation(remaining, s)) \in Int
      BY <2>2, FloorsFit
    <3>2. SumFunction(BaseAllocation(remaining, s)) + U = s
      BY <3>1 DEF Unallocated
    <3>3. alloc = Distribution(remaining, s)[U].alloc
      BY <2>2 DEF Allocation
    <3>4. U \in 0 .. U
      BY <3>1
    <3> HIDE DEF alloc
    <3>5. /\ Distribution(remaining, s)[U] \in Rounds(n)
          /\ SumFunction(alloc) = SumFunction(BaseAllocation(remaining, s)) + U
          /\ Within(alloc, remaining, n)
      BY <2>2, <3>3, <3>4, LoopInvariant
    <3>6. alloc \in [1 .. n -> Int]
      BY <3>3, <3>5 DEF Rounds
    <3> QED BY <3>2, <3>5, <3>6
  <2> QED BY <2>1, <2>2
<1> DEFINE refunds == Refunds(remaining, s)
<1>3. refunds = [i \in I |-> remaining[i] - alloc[i]]
  BY DEF Refunds
<1> HIDE DEF alloc, refunds
<1>4. refunds \in [1 .. n -> Int]
  BY <1>2, <1>3
<1>5. \A i \in I : refunds[i] \in Int /\ alloc[i] \in Int /\ remaining[i] = refunds[i] + alloc[i]
  BY <1>2, <1>3, <1>4
<1>6. SumFunctionOnSet(remaining, I) = SumFunctionOnSet(refunds, I) + SumFunctionOnSet(alloc, I)
  BY <1>1, <1>5, SumAdd
<1>7. /\ SumFunctionOnSet(refunds, I) \in Int
      /\ SumFunction(refunds) = SumFunctionOnSet(refunds, I)
      /\ SumFunction(alloc) = SumFunctionOnSet(alloc, I)
      /\ TotalRemaining(remaining) = SumFunctionOnSet(remaining, I)
  BY <1>1, <1>2, <1>4, <1>5, SumInt, SumDomain DEF TotalRemaining
<1>8. SumFunction(refunds) = TotalRemaining(remaining) - s
  BY <1>2, <1>6, <1>7
<1> QED BY <1>2, <1>4, <1>8 DEF alloc, refunds

-----------------------------------------------------------------------------
(* Who gets the odd wei                                                    *)

(* What a division leaves over.                                            *)
LEMMA Remainder ==
  ASSUME NEW a \in Int, NEW b \in Int, b > 0
  PROVE  a = b * (a \div b) + (a % b) /\ 0 <= a % b /\ a % b < b
OBVIOUS

(* Whose share is not whole is below its cap.                              *)
LEMMA FractionBelowCap ==
  ASSUME NEW s \in Int, NEW t \in Int, NEW r \in Int, NEW d \in Int, NEW f \in Int,
         0 < s, s <= t, 0 <= r, s * r = t * d + f, 0 < f
  PROVE  d < r
<1> SUFFICES ASSUME r <= d PROVE FALSE
  OBVIOUS
<1>1. t * r <= t * d
  BY MultiplyMonotone
<1>2. r * s <= r * t
  BY MultiplyMonotone
<1>3. r * s = s * r /\ r * t = t * r
  OBVIOUS
<1> QED BY <1>1, <1>2, <1>3

(* A tenant's share is its floor and a fraction; the fractions add up to   *)
(* the wei the floors left over.                                           *)
LEMMA FractionsAddUp ==
  ASSUME NEW n \in Nat, NEW remaining \in [1 .. n -> Nat], NEW s \in Int,
         0 < s, s <= TotalRemaining(remaining)
  PROVE  LET t == TotalRemaining(remaining)
             base == BaseAllocation(remaining, s)
             frac == Fraction(remaining, s)
         IN  /\ t \in Int /\ t > 0
             /\ base \in [1 .. n -> Int] /\ frac \in [1 .. n -> Nat]
             /\ \A i \in 1 .. n :
                  /\ s * remaining[i] = t * base[i] + frac[i] /\ frac[i] < t
                  /\ frac[i] > 0 => base[i] < remaining[i]
             /\ SumFunctionOnSet(frac, 1 .. n) = t * Unallocated(remaining, s)
<1> DEFINE I == 1 .. n
<1>1. PICK t, base, frac : /\ t = TotalRemaining(remaining)
                           /\ base = BaseAllocation(remaining, s)
                           /\ frac = Fraction(remaining, s)
  OBVIOUS
<1>2. IsFiniteSet(I) /\ remaining \in [1 .. n -> Int]
  BY FS_Interval
<1>3. t = SumFunctionOnSet(remaining, I) /\ t \in Int /\ t > 0
  <2>1. t = SumFunctionOnSet(remaining, I)
    BY <1>1, <1>2, SumDomain DEF TotalRemaining
  <2>2. \A i \in I : remaining[i] \in Int
    OBVIOUS
  <2> QED BY <1>1, <1>2, <2>1, <2>2, SumInt
<1>4. /\ base = [i \in I |-> (s * remaining[i]) \div t]
      /\ frac = [i \in I |-> (s * remaining[i]) % t]
  BY <1>1 DEF BaseAllocation, Fraction
<1>5. base \in [1 .. n -> Int] /\ frac \in [1 .. n -> Int] /\ SumFunction(base) \in Int
  BY <1>1, <1>2, FloorsFit
<1>6. ASSUME NEW i \in I
      PROVE  /\ s * remaining[i] = t * base[i] + frac[i] /\ 0 <= frac[i] /\ frac[i] < t
             /\ frac[i] > 0 => base[i] < remaining[i]
  <2>1. s * remaining[i] \in Int /\ remaining[i] \in Int /\ 0 <= remaining[i]
    OBVIOUS
  <2>2. base[i] = (s * remaining[i]) \div t /\ frac[i] = (s * remaining[i]) % t
    BY <1>4
  <2>3. s * remaining[i] = t * base[i] + frac[i] /\ 0 <= frac[i] /\ frac[i] < t
    <3>1. PICK x \in Int : x = s * remaining[i]
      BY <2>1
    <3>2. base[i] = x \div t /\ frac[i] = x % t
      BY <2>2, <3>1
    <3>3. t \in Int /\ t > 0
      BY <1>3
    <3>4. x = t * (x \div t) + (x % t) /\ 0 <= (x % t) /\ (x % t) < t
      BY ONLY x \in Int, <3>3, Remainder
    <3>5. x = t * base[i] + frac[i] /\ 0 <= frac[i] /\ frac[i] < t
      BY ONLY <3>2, <3>4
    <3> QED BY ONLY <3>1, <3>5
  <2>4. base[i] \in Int /\ frac[i] \in Int
    BY <1>5
  <2> QED BY <1>1, <1>3, <2>1, <2>3, <2>4, FractionBelowCap
<1>7. frac \in [1 .. n -> Nat]
  BY <1>5, <1>6
<1> DEFINE product == [i \in I |-> s * remaining[i]]
           scaled == [i \in I |-> t * base[i]]
<1>8. \A i \in I : /\ product[i] = s * remaining[i] /\ remaining[i] \in Int
                   /\ scaled[i] = t * base[i] /\ base[i] \in Int
                   /\ scaled[i] \in Int /\ frac[i] \in Int
                   /\ product[i] = scaled[i] + frac[i]
  <2>1. \A i \in I : base[i] \in Int /\ frac[i] \in Int /\ remaining[i] \in Int
    BY <1>5
  <2>2. \A i \in I : product[i] = s * remaining[i] /\ scaled[i] = t * base[i]
    OBVIOUS
  <2>3. \A i \in I : t * base[i] \in Int
    BY <1>3, <2>1
  <2> HIDE DEF product, scaled
  <2> QED BY <1>6, <2>1, <2>2, <2>3
<1> HIDE DEF product, scaled
<1>9. /\ SumFunctionOnSet(product, I) = s * SumFunctionOnSet(remaining, I)
      /\ SumFunctionOnSet(scaled, I) = t * SumFunctionOnSet(base, I)
      /\ SumFunctionOnSet(product, I) = SumFunctionOnSet(scaled, I) + SumFunctionOnSet(frac, I)
      /\ SumFunctionOnSet(frac, I) \in Int /\ SumFunctionOnSet(base, I) \in Int
  <2> HIDE DEF I
  <2>1. SumFunctionOnSet(product, I) = s * SumFunctionOnSet(remaining, I)
    BY <1>2, <1>8, SumScale
  <2>2. SumFunctionOnSet(scaled, I) = t * SumFunctionOnSet(base, I)
    BY <1>2, <1>3, <1>8, SumScale
  <2>3. SumFunctionOnSet(product, I) = SumFunctionOnSet(scaled, I) + SumFunctionOnSet(frac, I)
    BY <1>2, <1>8, SumAdd
  <2>4. SumFunctionOnSet(frac, I) \in Int /\ SumFunctionOnSet(base, I) \in Int
    BY <1>2, <1>8, SumInt
  <2> QED BY <2>1, <2>2, <2>3, <2>4
<1>10. Unallocated(remaining, s) = s - SumFunctionOnSet(base, I)
  BY <1>1, <1>5, SumDomain DEF Unallocated
<1>11. \A x, y, z \in Int : z * (x - y) = x * z - z * y
  OBVIOUS
<1>12. t * (s - SumFunctionOnSet(base, I)) = s * t - t * SumFunctionOnSet(base, I)
  BY <1>3, <1>9, <1>11
<1>13. SumFunctionOnSet(frac, I) = t * Unallocated(remaining, s)
  <2>1. s * t \in Int /\ t * SumFunctionOnSet(base, I) \in Int
    BY <1>3, <1>9
  <2> QED BY <1>3, <1>9, <1>10, <1>12, <2>1
<1> QED BY <1>1, <1>3, <1>5, <1>6, <1>7, <1>13

(* As long as fewer tenants than odd wei have been served, some tenant     *)
(* with a fraction has not.                                                *)
LEMMA FractionLeft ==
  ASSUME NEW n \in Nat, NEW frac \in [1 .. n -> Nat], NEW t \in Int, t > 0, NEW u \in Int,
         \A i \in 1 .. n : frac[i] < t, SumFunctionOnSet(frac, 1 .. n) = t * u,
         NEW G \in SUBSET (1 .. n), Cardinality(G) < u
  PROVE  \E j \in (1 .. n) \ G : frac[j] > 0
<1> SUFFICES ASSUME \A j \in (1 .. n) \ G : ~ (frac[j] > 0) PROVE FALSE
  OBVIOUS
<1>0. IsFiniteSet(1 .. n)
  BY FS_Interval
<1>1. IsFiniteSet(1 .. n) /\ IsFiniteSet(G) /\ Cardinality(G) \in Nat
  BY <1>0, FS_Subset, FS_CardinalityType
<1>2. \A i \in 1 .. n : frac[i] \in Int /\ frac[i] <= t
  OBVIOUS
<1>3. \A j \in (1 .. n) \ G : frac[j] = 0
  OBVIOUS
<1>4. SumFunctionOnSet(frac, 1 .. n) = SumFunctionOnSet(frac, G)
  BY <1>1, <1>2, <1>3, SumSupport
<1>5. SumFunctionOnSet(frac, G) <= t * Cardinality(G)
  BY <1>1, <1>2, SumBound
<1>6. t * u <= t * Cardinality(G)
  BY <1>4, <1>5
<1>7. u <= Cardinality(G)
  <2>1. PICK c \in Int : c = Cardinality(G)
    BY <1>1
  <2>2. t * u <= t * c
    BY <1>6, <2>1
  <2> QED BY <2>1, <2>2, CancelFactor
<1> QED BY <1>1, <1>7

(* The tenants in G have been served, w of them: each had a fraction, got  *)
(* one wei, and goes before everybody who has not been served.             *)
Served(G, round, base, frac, n, w) ==
  /\ G \subseteq 1 .. n /\ Cardinality(G) = w
  /\ \A i \in G : frac[i] > 0
  /\ \A i \in 1 .. n : /\ round.alloc[i] = base[i] + (IF i \in G THEN 1 ELSE 0)
                       /\ round.frac[i] = IF i \in G THEN 0 ELSE frac[i]
  /\ \A i \in G, j \in (1 .. n) \ G : PreferredOver(frac, i, j)

(* The scan finds the first in the order of the scan.                      *)
LEMMA BestIsFirst ==
  ASSUME NEW n \in Nat, NEW remaining \in [1 .. n -> Int],
         NEW alloc \in [1 .. n -> Int], NEW frac \in [1 .. n -> Int],
         Eligible(alloc, remaining) # {}
  PROVE  \A j \in Eligible(alloc, remaining) :
           PreferredOver(frac, Best(alloc, frac, remaining), j)
<1>1. PICK E : E = Eligible(alloc, remaining)
  OBVIOUS
<1>2. E \subseteq 1 .. n /\ IsFiniteSet(1 .. n)
  BY <1>1, FS_Interval DEF Eligible
<1>3. IsFiniteSet(E) /\ E # {} /\ E \subseteq Int /\ \A i \in E : frac[i] \in Int
  BY <1>1, <1>2, FS_Subset
<1>4. \E i \in E : \A j \in E : PreferredOver(frac, i, j)
  BY <1>3, BestExists
<1> QED BY <1>1, <1>4 DEF Best

(* A round serves the first of those who are left.                         *)
LEMMA RoundServesNext ==
  ASSUME NEW n \in Nat, NEW remaining \in [1 .. n -> Int], NEW base \in [1 .. n -> Int],
         NEW frac \in [1 .. n -> Nat],
         \A i \in 1 .. n : frac[i] > 0 => base[i] < remaining[i],
         NEW round \in Rounds(n), NEW w \in Nat, NEW G, Served(G, round, base, frac, n, w),
         \E j \in (1 .. n) \ G : frac[j] > 0
  PROVE  \E H : Served(H, Grant(round, remaining), base, frac, n, w + 1)
<1>1. PICK alloc, odd, E, b : /\ alloc = round.alloc /\ odd = round.frac
                               /\ E = Eligible(alloc, remaining)
                               /\ b = Best(alloc, odd, remaining)
  OBVIOUS
<1>2. alloc \in [1 .. n -> Int] /\ odd \in [1 .. n -> Int]
  BY <1>1 DEF Rounds
<1>3. \A i \in 1 .. n : /\ alloc[i] = base[i] + (IF i \in G THEN 1 ELSE 0)
                        /\ odd[i] = IF i \in G THEN 0 ELSE frac[i]
  BY <1>1 DEF Served
<1>4. PICK j \in (1 .. n) \ G : frac[j] > 0
  OBVIOUS
<1>5. j \in E
  <2>1. j \in 1 .. n /\ j \notin G /\ base[j] \in Int /\ base[j] < remaining[j]
    BY <1>4
  <2>2. alloc[j] = base[j]
    BY <1>3, <2>1
  <2> QED BY <1>1, <2>1, <2>2 DEF Eligible
<1>6. b \in 1 .. n /\ alloc[b] < remaining[b] /\ \A k \in E : PreferredOver(odd, b, k)
  BY <1>1, <1>2, <1>5, BestEligible, BestIsFirst
<1>7. b \notin G /\ frac[b] > 0
  <2>1. PreferredOver(odd, b, j)
    BY <1>5, <1>6
  <2>0. odd[b] \in Int /\ odd[j] = frac[j] /\ frac[j] \in Int
    BY <1>2, <1>3, <1>4, <1>6
  <2>2. odd[b] >= odd[j]
    BY <2>0, <2>1 DEF PreferredOver
  <2>3. odd[b] > 0
    BY <1>4, <2>0, <2>2
  <2>4. odd[b] = IF b \in G THEN 0 ELSE frac[b]
    BY <1>3, <1>6
  <2> QED BY ONLY <2>3, <2>4
<1> DEFINE H == G \cup {b}
<1>8. H \subseteq 1 .. n /\ Cardinality(H) = w + 1
  <2>1. G \subseteq 1 .. n /\ Cardinality(G) = w /\ IsFiniteSet(1 .. n)
    BY FS_Interval DEF Served
  <2>2. IsFiniteSet(G)
    BY <2>1, FS_Subset
  <2> QED BY <1>6, <1>7, <2>1, <2>2, FS_AddElement
<1>9. \A i \in H : frac[i] > 0
  BY <1>7 DEF Served
<1>10. ASSUME NEW i \in 1 .. n
       PROVE  /\ Grant(round, remaining).alloc[i] = base[i] + (IF i \in H THEN 1 ELSE 0)
              /\ Grant(round, remaining).frac[i] = IF i \in H THEN 0 ELSE frac[i]
  <2>1. /\ Grant(round, remaining).alloc = [alloc EXCEPT ![b] = alloc[b] + 1]
        /\ Grant(round, remaining).frac = [odd EXCEPT ![b] = 0]
    BY <1>1 DEF Grant
  <2>2. /\ Grant(round, remaining).alloc[i] = IF i = b THEN alloc[b] + 1 ELSE alloc[i]
        /\ Grant(round, remaining).frac[i] = IF i = b THEN 0 ELSE odd[i]
    BY <1>2, <1>6, <2>1
  <2>3. CASE i = b
    <3>1. alloc[b] = base[b] + (IF b \in G THEN 1 ELSE 0) /\ base[b] \in Int
      BY <1>3, <1>6
    <3>2. alloc[b] = base[b]
      BY ONLY <1>7, <3>1
    <3>3. i \in H
      BY <2>3
    <3> QED BY ONLY <2>2, <2>3, <3>2, <3>3
  <2>4. CASE i # b
    BY <1>3, <2>2, <2>4
  <2> QED BY <2>3, <2>4
<1>11. ASSUME NEW i \in H, NEW k \in (1 .. n) \ H
       PROVE  PreferredOver(frac, i, k)
  <2>1. CASE i \in G
    BY <2>1 DEF Served
  <2>2. CASE i = b /\ k \in E
    <3>1. PreferredOver(odd, b, k) /\ odd[b] = frac[b] /\ odd[k] = frac[k]
      BY <1>3, <1>6, <1>7, <2>2
    <3> QED BY <2>2, <3>1 DEF PreferredOver
  <2>3. CASE i = b /\ k \notin E
    <3>1. k \in 1 .. n /\ k \notin G /\ k \notin E
      BY <2>3
    <3>2. alloc[k] = base[k] + 0 /\ base[k] \in Int
      BY <1>3, <3>1
    <3>3. ~ (alloc[k] < remaining[k])
      BY <1>1, <3>1 DEF Eligible
    <3>4. ~ (base[k] < remaining[k])
      BY ONLY <3>2, <3>3
    <3>5. frac[k] \in Nat /\ frac[b] \in Nat /\ ~ (frac[k] > 0)
      BY <1>6, <3>1, <3>4
    <3>6. frac[b] > frac[k]
      BY ONLY <1>7, <3>5
    <3> QED BY ONLY <2>3, <3>6 DEF PreferredOver
  <2> QED BY <2>1, <2>2, <2>3
<1> HIDE DEF H
<1>12. Served(H, Grant(round, remaining), base, frac, n, w + 1)
  BY <1>8, <1>9, <1>10, <1>11 DEF Served
<1> QED BY <1>12

(* So the loop gives the odd wei to the tenants with the largest fractions, *)
(* to the first of them in the list among equals, and to nobody twice.     *)
THEOREM LargestRemaindersServed ==
  ASSUME NEW n \in Nat, NEW remaining \in [1 .. n -> Nat], NEW s \in Int,
         0 < s, s <= TotalRemaining(remaining)
  PROVE  LET u == Unallocated(remaining, s)
         IN  \E G : Served(G, Distribution(remaining, s)[u], BaseAllocation(remaining, s),
                           Fraction(remaining, s), n, u)
<1>1. PICK t, base, frac, u, D :
        /\ t = TotalRemaining(remaining) /\ base = BaseAllocation(remaining, s)
        /\ frac = Fraction(remaining, s) /\ u = Unallocated(remaining, s)
        /\ D = Distribution(remaining, s)
  OBVIOUS
<1>2. remaining \in [1 .. n -> Int]
  OBVIOUS
<1>3. u \in Nat
  BY <1>1, <1>2, FloorsFit
<1>4. /\ t \in Int /\ t > 0 /\ base \in [1 .. n -> Int] /\ frac \in [1 .. n -> Nat]
      /\ \A i \in 1 .. n : frac[i] < t /\ (frac[i] > 0 => base[i] < remaining[i])
      /\ SumFunctionOnSet(frac, 1 .. n) = t * u
  BY <1>1, FractionsAddUp
<1>5. /\ D[0] = [alloc |-> base, frac |-> frac]
      /\ \A w \in 1 .. u : D[w] = Grant(D[w - 1], remaining)
  BY <1>1, <1>3, DistributionUnfolds
<1>6. \A w \in 0 .. u : D[w] \in Rounds(n)
  BY <1>1, <1>2, LoopInvariant
<1> DEFINE F == {w \in 0 .. u : \E G : Served(G, D[w], base, frac, n, w)}
<1>7. 0 \in F
  <2>1. Served({}, D[0], base, frac, n, 0)
    BY <1>4, <1>5, FS_EmptySet DEF Served
  <2> QED BY <1>3, <2>1
<1>8. ASSUME NEW w \in 0 .. u, w < u, w \in F
      PROVE  w + 1 \in F
  <2>1. PICK G : Served(G, D[w], base, frac, n, w)
    BY <1>8
  <2>2. G \in SUBSET (1 .. n) /\ Cardinality(G) < u
    BY <1>8, <2>1 DEF Served
  <2>3. \E j \in (1 .. n) \ G : frac[j] > 0
    <3>1. /\ u \in Int /\ t \in Int /\ t > 0 /\ frac \in [1 .. n -> Nat]
          /\ \A i \in 1 .. n : frac[i] < t
          /\ SumFunctionOnSet(frac, 1 .. n) = t * u
      BY <1>3, <1>4
    <3> QED BY <2>2, <3>1, FractionLeft
  <2>4. \E H : Served(H, Grant(D[w], remaining), base, frac, n, w + 1)
    <3>1. D[w] \in Rounds(n) /\ w \in Nat
      BY <1>6
    <3>2. /\ base \in [1 .. n -> Int] /\ frac \in [1 .. n -> Nat]
          /\ \A i \in 1 .. n : frac[i] > 0 => base[i] < remaining[i]
      BY <1>4
    <3> QED BY <1>2, <2>1, <2>3, <3>1, <3>2, RoundServesNext
  <2>5. w + 1 \in 1 .. u /\ (w + 1) - 1 = w
    BY <1>3, <1>8
  <2>6. D[w + 1] = Grant(D[w], remaining)
    BY <1>5, <2>5
  <2> QED BY <2>4, <2>5, <2>6
<1> HIDE DEF F
<1>9. \A w \in 0 .. u : w \in F
  BY <1>3, <1>7, <1>8, IntervalInduction
<1>10. u \in F
  BY <1>3, <1>9
<1> QED BY <1>1, <1>10 DEF F

(* Who has been served is who has fewer than w tenants ahead of it.        *)
LEMMA ServedByRank ==
  ASSUME NEW n \in Nat, NEW frac \in [1 .. n -> Nat], NEW G, NEW round, NEW base,
         NEW w \in Nat, Served(G, round, base, frac, n, w), NEW i \in 1 .. n, NEW A,
         A = {j \in 1 .. n : frac[j] > frac[i] \/ (frac[j] = frac[i] /\ j < i)}
  PROVE  i \in G <=> Cardinality(A) < w
<1>1. /\ G \subseteq 1 .. n /\ Cardinality(G) = w
      /\ \A j \in G, k \in (1 .. n) \ G : PreferredOver(frac, j, k)
  BY DEF Served
<1>2. IsFiniteSet(1 .. n)
  BY FS_Interval
<1>3. IsFiniteSet(G) /\ A \subseteq 1 .. n
  BY <1>1, <1>2, FS_Subset
<1>4. IsFiniteSet(A)
  BY <1>2, <1>3, FS_Subset
<1>5. Cardinality(A) \in Nat
  BY <1>4, FS_CardinalityType
<1>6. CASE i \in G
  <2>1. A \subseteq G \ {i}
    <3>1. ASSUME NEW j \in A PROVE j \in G \ {i}
      <4>1. j \in 1 .. n /\ (frac[j] > frac[i] \/ (frac[j] = frac[i] /\ j < i))
        OBVIOUS
      <4>2. frac[j] \in Nat /\ frac[i] \in Nat /\ j # i
        BY <4>1
      <4>3. ~ PreferredOver(frac, i, j)
        BY <4>1, <4>2 DEF PreferredOver
      <4> QED BY <1>1, <1>6, <4>1, <4>2, <4>3
    <3> QED BY <3>1
  <2>2. IsFiniteSet(G \ {i}) /\ Cardinality(G \ {i}) = w - 1
    BY <1>1, <1>3, <1>6, FS_RemoveElement
  <2>3. Cardinality(A) <= w - 1
    BY <2>1, <2>2, FS_Subset
  <2> QED BY <1>5, <1>6, <2>3
<1>7. CASE i \notin G
  <2>1. G \subseteq A
    <3>1. ASSUME NEW j \in G PROVE j \in A
      <4>1. PreferredOver(frac, j, i) /\ j \in 1 .. n /\ j # i
        BY <1>1, <1>7
      <4>2. frac[j] \in Nat /\ frac[i] \in Nat
        BY <4>1
      <4> QED BY <4>1, <4>2 DEF PreferredOver
    <3> QED BY <3>1
  <2>2. w <= Cardinality(A)
    BY <1>1, <1>4, <2>1, FS_Subset
  <2> QED BY <1>5, <1>7, <2>2
<1> QED BY <1>6, <1>7

(* An allocation is within one wei of the proportional share, above or     *)
(* below.                                                                  *)
THEOREM AllocationNearShare ==
  ASSUME NEW n \in Nat, NEW remaining \in [1 .. n -> Nat], NEW s \in Int,
         0 < s, s <= TotalRemaining(remaining), NEW i \in 1 .. n
  PROVE  LET t == TotalRemaining(remaining)
             charged == Allocation(remaining, s)[i]
         IN  charged * t < s * remaining[i] + t /\ charged * t > s * remaining[i] - t
<1>1. PICK t, base, frac, u, round :
        /\ t = TotalRemaining(remaining) /\ base = BaseAllocation(remaining, s)
        /\ frac = Fraction(remaining, s) /\ u = Unallocated(remaining, s)
        /\ round = Distribution(remaining, s)[u]
  OBVIOUS
<1>2. PICK G : Served(G, round, base, frac, n, u)
  BY <1>1, LargestRemaindersServed
<1>3. /\ t \in Int /\ t > 0 /\ base[i] \in Int /\ frac[i] \in Nat /\ frac[i] < t
      /\ s * remaining[i] = t * base[i] + frac[i]
  <2>1. /\ t \in Int /\ t > 0 /\ base \in [1 .. n -> Int] /\ frac \in [1 .. n -> Nat]
        /\ \A k \in 1 .. n : s * remaining[k] = t * base[k] + frac[k] /\ frac[k] < t
    <3>1. /\ TotalRemaining(remaining) \in Int /\ TotalRemaining(remaining) > 0
          /\ BaseAllocation(remaining, s) \in [1 .. n -> Int]
          /\ Fraction(remaining, s) \in [1 .. n -> Nat]
          /\ \A k \in 1 .. n :
               /\ s * remaining[k] =
                    TotalRemaining(remaining) * BaseAllocation(remaining, s)[k] + Fraction(remaining, s)[k]
               /\ Fraction(remaining, s)[k] < TotalRemaining(remaining)
      BY ONLY n \in Nat, remaining \in [1 .. n -> Nat], s \in Int, 0 < s,
              s <= TotalRemaining(remaining), FractionsAddUp
    <3> QED BY ONLY <1>1, <3>1
  <2> QED BY ONLY <2>1, i \in 1 .. n
<1>4. PICK b, f, q : b = base[i] /\ f = frac[i] /\ q = s * remaining[i]
  OBVIOUS
<1>5. b \in Int /\ f \in Nat /\ f < t /\ q = t * b + f
  BY <1>3, <1>4
<1>6. Allocation(remaining, s)[i] = round.alloc[i]
  BY <1>1 DEF Allocation
<1>7. \/ Allocation(remaining, s)[i] = b
      \/ Allocation(remaining, s)[i] = b + 1 /\ f > 0
  BY <1>2, <1>4, <1>5, <1>6 DEF Served
<1>8. b * t = t * b /\ (b + 1) * t = t * b + t /\ t * b \in Int
  BY <1>3, <1>5
<1>9. b * t < q + t /\ b * t > q - t /\ (f > 0 => (b + 1) * t < q + t /\ (b + 1) * t > q - t)
  BY <1>3, <1>5, <1>8
<1> QED BY <1>1, <1>4, <1>7, <1>9

-----------------------------------------------------------------------------
(* The largest-remainder rule.  The loop of _computeSettlement computes it *)
(* and its defensive reverts are unreachable: for any number of tenants    *)
(* and any amounts, where the run of MCSettlement looks at every input of  *)
(* a small box.                                                            *)

(* The inputs are amounts, and the only result is that of the code.        *)
Computed ==
  /\ \E n \in Nat : remainings \in [1 .. n -> Nat]
  /\ claimed \in Nat /\ claimed <= TotalRemaining(remainings)
  /\ paidBack = <<>> \/ paidBack = Refunds(remainings, claimed)

LEMMA InputTotals ==
  ASSUME NEW n \in Nat, NEW f \in [1 .. n -> Nat]
  PROVE  TotalRemaining(f) \in Nat
<1>1. IsFiniteSet(1 .. n)
  BY FS_Interval
<1>2. SumFunctionOnSet(f, 1 .. n) \in Nat
  BY <1>1, SumNat
<1>3. f \in [1 .. n -> Int]
  OBVIOUS
<1> QED BY <1>2, <1>3, SumDomain DEF TotalRemaining

LEMMA AlwaysComputed == SettlementSpec => []Computed
<1>1. SettlementInit => Computed
  <2> SUFFICES ASSUME SettlementInit PROVE Computed
    OBVIOUS
  <2>1. PICK n \in 2 .. MaxTenants : remainings \in [1 .. n -> 0 .. MaxRemaining]
    BY DEF SettlementInit, Inputs
  <2>2. n \in Nat /\ remainings \in [1 .. n -> Nat]
    BY <2>1, BoundsAssumption
  <2>3. TotalRemaining(remainings) \in Nat
    BY <2>2, InputTotals
  <2> QED BY <2>2, <2>3 DEF SettlementInit, Computed
<1>2. Computed /\ [Compute]_settlementVars => Computed'
  BY DEF Computed, Compute, settlementVars
<1> QED BY <1>1, <1>2, PTL DEF SettlementSpec

(* Each tenant is charged what the reference says: the floor of its share, *)
(* and one wei more if fewer tenants are ahead of it than wei are left.    *)
LEMMA ChargedByRank ==
  ASSUME Computed, paidBack # <<>>, claimed > 0, NEW i \in DOMAIN remainings
  PROVE  remainings[i] - paidBack[i] = ReferenceAllocation[i]
<1>1. PICK n \in Nat : remainings \in [1 .. n -> Nat]
  BY DEF Computed
<1>2. PICK base, frac, u, round :
        /\ base = BaseAllocation(remainings, claimed)
        /\ frac = Fraction(remainings, claimed)
        /\ u = Unallocated(remainings, claimed)
        /\ round = Distribution(remainings, claimed)[u]
  OBVIOUS
<1>3. /\ i \in 1 .. n /\ remainings \in [1 .. n -> Int] /\ remainings[i] \in Int
      /\ claimed \in Int /\ 0 < claimed /\ claimed <= TotalRemaining(remainings)
      /\ paidBack = Refunds(remainings, claimed)
  BY <1>1 DEF Computed
<1>4. u \in Nat /\ base[i] \in Int /\ frac \in [1 .. n -> Nat]
  <2>1. u \in Nat /\ base \in [1 .. n -> Int]
    BY <1>2, <1>3, FloorsFit
  <2>2. frac \in [1 .. n -> Nat]
    BY <1>1, <1>2, <1>3, FractionsAddUp
  <2> QED BY <1>3, <2>1, <2>2
<1>5. PICK G : Served(G, round, base, frac, n, u)
  BY <1>1, <1>2, <1>3, LargestRemaindersServed
<1>6. Ahead(i) = {j \in 1 .. n : frac[j] > frac[i] \/ (frac[j] = frac[i] /\ j < i)}
  BY <1>1, <1>2 DEF Ahead
<1>7. i \in G <=> Cardinality(Ahead(i)) < u
  <2>1. PICK A : A = Ahead(i)
    OBVIOUS
  <2>2. A = {j \in 1 .. n : frac[j] > frac[i] \/ (frac[j] = frac[i] /\ j < i)}
    BY <1>6, <2>1
  <2>3. u \in Nat /\ i \in 1 .. n /\ frac \in [1 .. n -> Nat]
    BY <1>3, <1>4
  <2>4. i \in G <=> Cardinality(A) < u
    BY <1>5, <2>2, <2>3, ServedByRank
  <2> QED BY <2>1, <2>4
<1>8. round.alloc[i] = base[i] + (IF i \in G THEN 1 ELSE 0)
  BY <1>3, <1>5 DEF Served
<1>9. Allocation(remainings, claimed)[i] = round.alloc[i]
  BY <1>2, <1>3 DEF Allocation
<1>10. paidBack[i] = remainings[i] - Allocation(remainings, claimed)[i]
  BY <1>3 DEF Refunds
<1>11. ReferenceAllocation[i] = base[i] + (IF Cardinality(Ahead(i)) < u THEN 1 ELSE 0)
  BY <1>2 DEF ReferenceAllocation, Unallocated
<1> QED BY <1>3, <1>4, <1>7, <1>8, <1>9, <1>10, <1>11

(* The loop with its two mutable arrays is the largest-remainder rule.     *)
THEOREM RuleFollowed == SettlementSpec => []FollowsLargestRemainder
<1>1. Computed => FollowsLargestRemainder
  BY ChargedByRank DEF FollowsLargestRemainder
<1> QED BY <1>1, AlwaysComputed, PTL

(* The two defensive reverts of _computeSettlement are never taken.        *)
THEOREM NoDefensiveRevert == SettlementSpec => []NeverRevertsDefensively
<1>1. Computed => NeverRevertsDefensively
  <2> SUFFICES ASSUME Computed PROVE NeverRevertsDefensively
    OBVIOUS
  <2>1. PICK n \in Nat : remainings \in [1 .. n -> Nat]
    BY DEF Computed
  <2>2. remainings \in [1 .. n -> Int]
    BY <2>1
  <2> QED BY <2>2, NeverDefensive DEF Computed, NeverRevertsDefensively
<1> QED BY <1>1, AlwaysComputed, PTL

-----------------------------------------------------------------------------
(* Types                                                                   *)

(* Whatever is at most the remaining total can be settled, and leaves each *)
(* tenant an integer refund.                                               *)
LEMMA RefundsTyped ==
  ASSUME NEW n \in Nat, NEW remaining \in [1 .. n -> Int], NEW s \in Int,
         s <= TotalRemaining(remaining)
  PROVE  Refunds(remaining, s) \in [1 .. n -> Int]
<1>1. CASE s \in Nat
  BY <1>1, SettlementIsExact
<1>2. CASE ~ (s > 0)
  <2>1. Allocation(remaining, s) = [i \in 1 .. n |-> 0]
    BY <1>2 DEF Allocation
  <2> QED BY <2>1 DEF Refunds
<1> QED BY <1>1, <1>2

(* The zeroed records of storage have their types.                         *)
LEMMA BlanksTyped ==
  BlankAgreement \in Agreement /\ BlankTenant \in Tenant /\ BlankClaim \in Claim
<1>1. BlankAgreement \in Agreement
  BY ConstantsAssumption DEF BlankAgreement, Agreement, AgreementStatus
<1>2. BlankTenant \in Tenant
  BY DEF BlankTenant, Tenant
<1>3. BlankClaim \in Claim
  BY DEF BlankClaim, Claim, ClaimType, ClaimStatus
<1> QED BY <1>1, <1>2, <1>3

(* So has the initial state.                                               *)
LEMMA InitTyped == Init => TypeOK
<1> SUFFICES ASSUME Init PROVE TypeOK
  OBVIOUS
<1>1. agreements \in [AgreementIds -> Agreement]
  BY BlanksTyped DEF Init
<1>2. tenants \in [AgreementIds -> [Wallets -> Tenant]]
  BY BlanksTyped DEF Init
<1>3. claims \in [AgreementIds -> [ClaimIds -> Claim]]
  BY BlanksTyped DEF Init
<1>4. agreementTenants \in [AgreementIds -> Seq(Wallets)]
  BY DEF Init
<1>5. votes \in [AgreementIds -> [ClaimIds -> [Wallets -> 0 .. 2]]]
  BY DEF Init
<1> QED BY <1>1, <1>2, <1>3, <1>4, <1>5, ConstantsAssumption DEF Init, TypeOK

(* The majority threshold is a natural number.                             *)
LEMMA ApprovalsTyped == ASSUME NEW n \in Nat PROVE RequiredApprovals(n) \in Nat
BY DEF RequiredApprovals

(* The fields of one record may be replaced one at a time.                 *)
LEMMA AgreementFields ==
  ASSUME NEW g \in Agreement
  PROVE  /\ g.unresolvedClaimCount \in Int /\ g.totalOpenClaimAmount \in Int
         /\ g.totalApprovedClaims \in Int /\ g.sharedApprovedClaims \in Int
         /\ g.totalFunded \in Int /\ g.totalCancelledFundingWithdrawn \in Int
         /\ \A y \in Int :
              /\ [g EXCEPT !.unresolvedClaimCount = y] \in Agreement
              /\ [g EXCEPT !.totalOpenClaimAmount = y] \in Agreement
              /\ [g EXCEPT !.totalApprovedClaims = y] \in Agreement
              /\ [g EXCEPT !.sharedApprovedClaims = y] \in Agreement
              /\ [g EXCEPT !.totalFunded = y] \in Agreement
              /\ [g EXCEPT !.totalCancelledFundingWithdrawn = y] \in Agreement
         /\ \A c \in 0 .. MAX_CLAIMS : [g EXCEPT !.claimCount = c] \in Agreement
         /\ \A status \in AgreementStatus : [g EXCEPT !.status = status] \in Agreement
         /\ [g EXCEPT !.recipientAccepted = TRUE] \in Agreement
         /\ [g EXCEPT !.recipientPayoutWithdrawn = TRUE] \in Agreement
<1>1. /\ g.unresolvedClaimCount \in Int /\ g.totalOpenClaimAmount \in Int
      /\ g.totalApprovedClaims \in Int /\ g.sharedApprovedClaims \in Int
      /\ g.totalFunded \in Int /\ g.totalCancelledFundingWithdrawn \in Int
  BY DEF Agreement
<1>2. ASSUME NEW y \in Int
      PROVE  /\ [g EXCEPT !.unresolvedClaimCount = y] \in Agreement
             /\ [g EXCEPT !.totalOpenClaimAmount = y] \in Agreement
             /\ [g EXCEPT !.totalApprovedClaims = y] \in Agreement
             /\ [g EXCEPT !.sharedApprovedClaims = y] \in Agreement
             /\ [g EXCEPT !.totalFunded = y] \in Agreement
             /\ [g EXCEPT !.totalCancelledFundingWithdrawn = y] \in Agreement
  BY DEF Agreement
<1>3. \A c \in 0 .. MAX_CLAIMS : [g EXCEPT !.claimCount = c] \in Agreement
  BY DEF Agreement
<1>4. \A status \in AgreementStatus : [g EXCEPT !.status = status] \in Agreement
  BY DEF Agreement
<1>5. /\ [g EXCEPT !.recipientAccepted = TRUE] \in Agreement
      /\ [g EXCEPT !.recipientPayoutWithdrawn = TRUE] \in Agreement
  BY DEF Agreement
<1> QED BY <1>1, <1>2, <1>3, <1>4, <1>5

(* The updates of an agreement's record that the code makes keep its type. *)
LEMMA AgreementUpdates ==
  ASSUME NEW g \in Agreement, NEW x \in Int
  PROVE  /\ [g EXCEPT !.totalFunded = @ + x] \in Agreement
         /\ [g EXCEPT !.totalFunded = @ - x] \in Agreement
         /\ [g EXCEPT !.totalCancelledFundingWithdrawn = @ + x] \in Agreement
         /\ [g EXCEPT !.unresolvedClaimCount = @ - 1, !.totalOpenClaimAmount = @ - x] \in Agreement
         /\ \A c \in 0 .. MAX_CLAIMS :
              [g EXCEPT !.claimCount = c, !.unresolvedClaimCount = @ + 1,
                        !.totalOpenClaimAmount = @ + x] \in Agreement
<1> DEFINE u == g.unresolvedClaimCount
           o == g.totalOpenClaimAmount
<1>1. /\ u \in Int /\ o \in Int /\ g.totalFunded \in Int
      /\ g.totalCancelledFundingWithdrawn \in Int
  BY AgreementFields
<1>2. u - 1 \in Int /\ u + 1 \in Int /\ o - x \in Int /\ o + x \in Int
      /\ g.totalFunded + x \in Int /\ g.totalFunded - x \in Int
      /\ g.totalCancelledFundingWithdrawn + x \in Int
  BY <1>1
<1>3. /\ [g EXCEPT !.totalFunded = @ + x] \in Agreement
      /\ [g EXCEPT !.totalFunded = @ - x] \in Agreement
      /\ [g EXCEPT !.totalCancelledFundingWithdrawn = @ + x] \in Agreement
  BY <1>2, AgreementFields
<1>4. [g EXCEPT !.unresolvedClaimCount = u - 1, !.totalOpenClaimAmount = o - x] \in Agreement
  <2>1. [g EXCEPT !.unresolvedClaimCount = u - 1] \in Agreement
    BY <1>2, AgreementFields
  <2> QED BY <1>2, <2>1, AgreementFields
<1>5. ASSUME NEW c \in 0 .. MAX_CLAIMS
      PROVE  [g EXCEPT !.claimCount = c, !.unresolvedClaimCount = u + 1,
                       !.totalOpenClaimAmount = o + x] \in Agreement
  <2>1. [g EXCEPT !.claimCount = c] \in Agreement
    BY AgreementFields
  <2>2. [g EXCEPT !.claimCount = c, !.unresolvedClaimCount = u + 1] \in Agreement
    BY <1>2, <2>1, AgreementFields
  <2> QED BY <1>2, <2>2, AgreementFields
<1> QED BY <1>3, <1>4, <1>5

(* The same for a tenant's record.                                         *)
LEMMA TenantFlags ==
  ASSUME NEW t \in Tenant
  PROVE  /\ [t EXCEPT !.accepted = TRUE] \in Tenant
         /\ [t EXCEPT !.refundWithdrawn = TRUE] \in Tenant
         /\ [t EXCEPT !.cancelledFundingWithdrawn = TRUE] \in Tenant
BY DEF Tenant

(* And for its amounts.                                                    *)
LEMMA TenantUpdates ==
  ASSUME NEW t \in Tenant, NEW x \in Int
  PROVE  /\ [t EXCEPT !.refundAmount = x] \in Tenant
         /\ [t EXCEPT !.fundedAmount = @ + x] \in Tenant
         /\ [t EXCEPT !.fundedAmount = @ - x] \in Tenant
         /\ [t EXCEPT !.openIndividualClaimAmount = @ + x] \in Tenant
         /\ [t EXCEPT !.openIndividualClaimAmount = @ - x] \in Tenant
         /\ [t EXCEPT !.openIndividualClaimAmount = @ - x,
                      !.approvedIndividualClaims = @ + x] \in Tenant
         /\ [t EXCEPT !.cancelledFundingWithdrawn = TRUE,
                      !.cancelledFundingWithdrawnAmount = x] \in Tenant
<1>1. [t EXCEPT !.refundAmount = x] \in Tenant
  BY DEF Tenant
<1>2. /\ [t EXCEPT !.fundedAmount = @ + x] \in Tenant
      /\ [t EXCEPT !.fundedAmount = @ - x] \in Tenant
      /\ [t EXCEPT !.openIndividualClaimAmount = @ + x] \in Tenant
      /\ [t EXCEPT !.openIndividualClaimAmount = @ - x] \in Tenant
  BY DEF Tenant
<1>3. [t EXCEPT !.openIndividualClaimAmount = @ - x,
                !.approvedIndividualClaims = @ + x] \in Tenant
  <2>1. t.approvedIndividualClaims + x \in Int
    BY DEF Tenant
  <2>2. \A h \in Tenant, y \in Int : [h EXCEPT !.approvedIndividualClaims = y] \in Tenant
    BY DEF Tenant
  <2> QED BY <1>2, <2>1, <2>2
<1>4. [t EXCEPT !.cancelledFundingWithdrawn = TRUE,
                !.cancelledFundingWithdrawnAmount = x] \in Tenant
  <2>1. [t EXCEPT !.cancelledFundingWithdrawn = TRUE] \in Tenant
    BY TenantFlags
  <2>2. \A h \in Tenant : [h EXCEPT !.cancelledFundingWithdrawnAmount = x] \in Tenant
    BY DEF Tenant
  <2> QED BY <2>1, <2>2
<1> QED BY <1>1, <1>2, <1>3, <1>4

(* And for a claim's.                                                      *)
LEMMA ClaimUpdates ==
  ASSUME NEW k \in Claim
  PROVE  /\ k.amount \in Int
         /\ [k EXCEPT !.yesVotes = @ + 1] \in Claim
         /\ [k EXCEPT !.noVotes = @ + 1] \in Claim
         /\ \A status \in ClaimStatus : [k EXCEPT !.status = status] \in Claim
BY DEF Claim

(* Activation changes nothing but the status.                              *)
LEMMA ActivationTyped ==
  ASSUME NEW g \in Agreement, NEW list, NEW ts
  PROVE  CheckAndActivate(g, list, ts) \in Agreement
<1>1. [g EXCEPT !.status = "ACTIVE"] \in Agreement
  BY AgreementFields DEF AgreementStatus
<1> QED BY <1>1 DEF CheckAndActivate

(* Approval moves the claim's amount between the agreement's totals.       *)
LEMMA ApprovalTyped ==
  ASSUME NEW g \in Agreement, NEW k \in Claim
  PROVE  Approves(g, k) \in Agreement
<1> DEFINE u == g.unresolvedClaimCount - 1
           o == g.totalOpenClaimAmount - k.amount
           t == g.totalApprovedClaims + k.amount
           h == IF k.claimType = "SHARED" THEN g.sharedApprovedClaims + k.amount
                                          ELSE g.sharedApprovedClaims
<1>1. /\ k.amount \in Int /\ g.unresolvedClaimCount \in Int /\ g.totalOpenClaimAmount \in Int
      /\ g.totalApprovedClaims \in Int /\ g.sharedApprovedClaims \in Int
  BY AgreementFields, ClaimUpdates
<1>2. u \in Int /\ o \in Int /\ t \in Int /\ h \in Int
  BY <1>1
<1>3. Approves(g, k) = [g EXCEPT !.unresolvedClaimCount = u, !.totalOpenClaimAmount = o,
                                 !.totalApprovedClaims = t, !.sharedApprovedClaims = h]
  BY DEF Approves
<1> HIDE DEF u, o, t, h
<1>4. [g EXCEPT !.unresolvedClaimCount = u] \in Agreement
  BY <1>2, AgreementFields
<1>5. [g EXCEPT !.unresolvedClaimCount = u, !.totalOpenClaimAmount = o] \in Agreement
  BY <1>2, <1>4, AgreementFields
<1>6. [g EXCEPT !.unresolvedClaimCount = u, !.totalOpenClaimAmount = o,
                !.totalApprovedClaims = t] \in Agreement
  BY <1>2, <1>5, AgreementFields
<1> QED BY <1>2, <1>3, <1>6, AgreementFields

(* A released reservation leaves well-typed tenant records.                *)
LEMMA ReleasesTyped ==
  ASSUME NEW ts \in [Wallets -> Tenant], NEW k \in Claim
  PROVE  Releases(ts, k) \in [Wallets -> Tenant]
<1>1. CASE k.claimType # "INDIVIDUAL"
  BY <1>1 DEF Releases
<1>2. CASE k.claimType = "INDIVIDUAL" /\ k.liableTenant \in Wallets
  <2>1. [ts[k.liableTenant] EXCEPT !.openIndividualClaimAmount = @ - k.amount] \in Tenant
    BY <1>2, TenantUpdates, ClaimUpdates
  <2> QED BY <1>2, <2>1 DEF Releases
<1>3. CASE k.claimType = "INDIVIDUAL" /\ k.liableTenant \notin Wallets
  BY <1>3 DEF Releases
<1> QED BY <1>1, <1>2, <1>3

(* One entry of a function over agreements is replaced.                    *)
LEMMA OneEntry ==
  ASSUME NEW I, NEW R, NEW f \in [I -> R], NEW i, NEW r \in R
  PROVE  [f EXCEPT ![i] = r] \in [I -> R]
OBVIOUS

(* The parts of the state that a call on one agreement may change.         *)
Records == [AgreementIds -> Agreement]
TenantBooks == [AgreementIds -> [Wallets -> Tenant]]
ClaimLists == [AgreementIds -> [ClaimIds -> Claim]]
VoteBooks == [AgreementIds -> [ClaimIds -> [Wallets -> 0 .. 2]]]

(* What a step on one agreement has to show.                               *)
LEMMA StepOnOne ==
  ASSUME TypeOK, UNCHANGED <<nextAgreementId, agreementTenants, now, forced>>,
         agreements' \in Records, tenants' \in TenantBooks,
         claims' \in ClaimLists, votes' \in VoteBooks, balance' \in Int
  PROVE  TypeOK'
BY DEF TypeOK, Records, TenantBooks, ClaimLists, VoteBooks

-----------------------------------------------------------------------------
(* The withdrawals without the receiver's say: what each records, and the  *)
(* money gone.  The one difference to a withdrawal that goes through is    *)
(* that a receiver may still fail, so the steps in the middle of a         *)
(* transfer are among these too.                                           *)
PaysFunding(a, w, x) ==
  WithdrawFundingEffects(a, w, x) /\ balance' = balance - x
PaysCancelled(a, w) ==
  WithdrawCancelledEffects(a, w) /\ balance' = balance - tenants[a][w].fundedAmount
PaysRefund(a, w) ==
  WithdrawRefundEffects(a, w) /\ balance' = balance - tenants[a][w].refundAmount
PaysPayout(a, w) ==
  WithdrawPayoutEffects(a, w) /\ balance' = balance - agreements[a].totalApprovedClaims

Pays(w) ==
  \/ \E a \in AgreementIds, x \in Uint128 : PaysFunding(a, w, x)
  \/ \E a \in AgreementIds : PaysCancelled(a, w) \/ PaysRefund(a, w) \/ PaysPayout(a, w)

(* A step of the contract whatever its receivers do.                       *)
EscrowStep ==
  \/ \E w \in Wallets : UnguardedCall(w) \/ Pays(w)
  \/ Tick
  \/ \E amount \in 1 .. MaxForced : ForceSend(amount)
  \/ UNCHANGED vars

(* Every step of the specification is one.                                 *)
LEMMA NextIsStep == [Next]_vars => EscrowStep
<1>1. ASSUME NEW w \in Wallets, Withdrawal(w)
      PROVE  Pays(w)
  <2>1. ASSUME NEW a \in AgreementIds, NEW x \in Uint128,
               WithdrawFundingBeforeActivation(a, w, x)
        PROVE  Pays(w)
    BY <2>1 DEF WithdrawFundingBeforeActivation, SendMON, Pays, PaysFunding
  <2>2. ASSUME NEW a \in AgreementIds, WithdrawCancelledFunding(a, w)
        PROVE  Pays(w)
    BY <2>2 DEF WithdrawCancelledFunding, SendMON, Pays, PaysCancelled
  <2>3. ASSUME NEW a \in AgreementIds, WithdrawTenantRefund(a, w)
        PROVE  Pays(w)
    BY <2>3 DEF WithdrawTenantRefund, SendMON, Pays, PaysRefund
  <2>4. ASSUME NEW a \in AgreementIds, WithdrawRecipientPayout(a, w)
        PROVE  Pays(w)
    BY <2>4 DEF WithdrawRecipientPayout, SendMON, Pays, PaysPayout
  <2> QED BY <1>1, <2>1, <2>2, <2>3, <2>4 DEF Withdrawal
<1> QED BY <1>1 DEF Next, EscrowStep

-----------------------------------------------------------------------------
(* The records that createAgreement writes are well-typed.                 *)
LEMMA NewRecordsTyped ==
  ASSUME NEW p \in Proposals, RosterValid(p)
  PROVE  /\ p.tenantAddresses \in Seq(Wallets) /\ NewAgreement(p) \in Agreement
         /\ RegisteredTenants(p) \in [Wallets -> Tenant]
         /\ \A w \in Wallets : RegisteredTenants(p)[w].requiredAmount \in Uint128
<1> DEFINE n == Len(p.tenantAddresses)
<1>1. p \in Proposal
  BY ConstantsAssumption
<1>2. /\ p.tenantAddresses \in Seq(Wallets)
      /\ n \in Nat /\ p.tenantAddresses \in [1 .. n -> Wallets]
  BY <1>1 DEF RosterValid, Proposal
<1>3. /\ p.requiredAmounts \in Seq(Int) /\ Len(p.requiredAmounts) = n
      /\ \A i \in 1 .. n : p.requiredAmounts[i] \in Uint128
  BY <1>1, ConstantsAssumption DEF RosterValid, Proposal, Uint128
<1>4. SumFunction(p.requiredAmounts) \in Int
  BY <1>3, SumOfSequence
<1>5. NewAgreement(p) \in Agreement
  <2>1. RequiredApprovals(n) \in Nat
    BY <1>2, ApprovalsTyped
  <2> QED BY <1>1, <1>2, <1>4, <2>1, BlanksTyped
          DEF NewAgreement, Agreement, AgreementStatus, Proposal
<1>6. ASSUME NEW w \in Wallets
      PROVE  RegisteredTenants(p)[w] \in Tenant /\ RegisteredTenants(p)[w].requiredAmount \in Uint128
  <2>1. CASE w \notin Range(p.tenantAddresses)
    <3>1. RegisteredTenants(p)[w] = BlankTenant
      BY <2>1 DEF RegisteredTenants
    <3>2. BlankTenant.requiredAmount = 0 /\ 0 \in Uint128
      BY ConstantsAssumption DEF BlankTenant, Uint128
    <3> QED BY <3>1, <3>2, BlanksTyped
  <2>2. CASE w \in Range(p.tenantAddresses)
    <3> DEFINE i == CHOOSE i \in DOMAIN p.tenantAddresses : p.tenantAddresses[i] = w
    <3>1. i \in 1 .. n
      BY <1>2, <2>2 DEF Range
    <3>2. RegisteredTenants(p)[w]
            = [BlankTenant EXCEPT !.requiredAmount = p.requiredAmounts[i],
                                  !.index = i - 1, !.exists = TRUE]
      BY <2>2 DEF RegisteredTenants
    <3> HIDE DEF i
    <3>3. PICK x \in Uint128, k \in Nat : x = p.requiredAmounts[i] /\ k = i - 1
      BY <1>2, <1>3, <3>1
    <3>4. x \in Int
      BY ConstantsAssumption DEF Uint128
    <3> QED BY <3>2, <3>3, <3>4, BlanksTyped DEF Tenant
  <2> QED BY <2>1, <2>2
<1>7. RegisteredTenants(p) \in [Wallets -> Tenant]
  BY <1>6 DEF RegisteredTenants
<1> QED BY <1>2, <1>5, <1>6, <1>7

(* Creation registers well-typed records.                                  *)
LEMMA CreationTyped ==
  ASSUME TypeOK, NEW p \in Proposals, CreateAgreement(p)
  PROVE  TypeOK'
<1>1. /\ p.tenantAddresses \in Seq(Wallets) /\ NewAgreement(p) \in Agreement
      /\ RegisteredTenants(p) \in [Wallets -> Tenant]
  BY NewRecordsTyped DEF CreateAgreement, Creatable
<1>2. /\ agreements' \in Records /\ tenants' \in TenantBooks
      /\ agreementTenants' \in [AgreementIds -> Seq(Wallets)]
      /\ nextAgreementId' \in 1 .. MaxAgreements + 1
  BY <1>1, ConstantsAssumption
     DEF TypeOK, CreateAgreement, AgreementIds, Records, TenantBooks
<1> QED BY <1>2 DEF TypeOK, CreateAgreement, Records, TenantBooks

(* So do acceptance, funding and cancellation.                             *)
LEMMA FundingTyped ==
  ASSUME TypeOK, NEW a \in AgreementIds, NEW sender \in Wallets
  PROVE  /\ \A h \in Hashes : AcceptAsTenant(a, sender, h) => TypeOK'
         /\ \A h \in Hashes : AcceptAsRecipient(a, sender, h) => TypeOK'
         /\ \A x \in Uint128 : Deposit(a, sender, x) => TypeOK'
         /\ \A x \in Uint128 : PaysFunding(a, sender, x) => TypeOK'
         /\ CancelExpiredFunding(a, sender) => TypeOK'
         /\ PaysCancelled(a, sender) => TypeOK'
<1> DEFINE g == agreements[a]
           t == tenants[a][sender]
<1>1. /\ agreements \in Records /\ tenants \in TenantBooks
      /\ claims \in ClaimLists /\ votes \in VoteBooks /\ balance \in Int
  BY DEF TypeOK, Records, TenantBooks, ClaimLists, VoteBooks
<1>2. g \in Agreement /\ tenants[a] \in [Wallets -> Tenant] /\ t \in Tenant
  BY <1>1 DEF Records, TenantBooks
<1>3. \A x \in Uint128 : x \in Int
  BY ConstantsAssumption DEF Uint128
<1>4. \A r \in Agreement : [agreements EXCEPT ![a] = r] \in Records
  BY <1>1, OneEntry DEF Records
<1>5. \A ts \in [Wallets -> Tenant] : [tenants EXCEPT ![a] = ts] \in TenantBooks
  BY <1>1, OneEntry DEF TenantBooks
<1>6. \A r \in Tenant : [tenants[a] EXCEPT ![sender] = r] \in [Wallets -> Tenant]
  BY <1>2, OneEntry
<1>7. ASSUME NEW h \in Hashes, AcceptAsTenant(a, sender, h)
      PROVE  TypeOK'
  <2> DEFINE ts == [tenants[a] EXCEPT ![sender].accepted = TRUE]
  <2>1. ts \in [Wallets -> Tenant]
    BY <1>2, <1>6, TenantFlags
  <2>2. /\ tenants' = [tenants EXCEPT ![a] = ts]
        /\ agreements' = [agreements EXCEPT ![a] = CheckAndActivate(g, agreementTenants[a], ts)]
    BY <1>7 DEF AcceptAsTenant
  <2> HIDE DEF ts, g
  <2>3. CheckAndActivate(g, agreementTenants[a], ts) \in Agreement
    BY <1>2, ActivationTyped
  <2>4. agreements' \in Records /\ tenants' \in TenantBooks
    BY <1>4, <1>5, <2>1, <2>2, <2>3
  <2> QED BY <1>1, <1>7, <2>4, StepOnOne DEF AcceptAsTenant
<1>8. ASSUME NEW h \in Hashes, AcceptAsRecipient(a, sender, h)
      PROVE  TypeOK'
  <2> DEFINE accepted == [g EXCEPT !.recipientAccepted = TRUE]
  <2>1. accepted \in Agreement
    BY <1>2, AgreementFields
  <2>2. agreements' = [agreements EXCEPT ![a] =
                         CheckAndActivate(accepted, agreementTenants[a], tenants[a])]
    BY <1>8 DEF AcceptAsRecipient
  <2> HIDE DEF accepted
  <2>3. CheckAndActivate(accepted, agreementTenants[a], tenants[a]) \in Agreement
    BY <2>1, ActivationTyped
  <2>4. agreements' \in Records
    BY <1>4, <2>2, <2>3
  <2> QED BY <1>1, <1>8, <2>4, StepOnOne DEF AcceptAsRecipient
<1>9. ASSUME NEW x \in Uint128, Deposit(a, sender, x)
      PROVE  TypeOK'
  <2> DEFINE ts == [tenants[a] EXCEPT ![sender].fundedAmount = @ + x]
             funded == [g EXCEPT !.totalFunded = @ + x]
  <2>1. x \in Int /\ ts \in [Wallets -> Tenant] /\ funded \in Agreement
    BY <1>2, <1>3, <1>6, TenantUpdates, AgreementUpdates
  <2>2. /\ tenants' = [tenants EXCEPT ![a] = ts]
        /\ agreements' = [agreements EXCEPT ![a] = CheckAndActivate(funded, agreementTenants[a], ts)]
    BY <1>9 DEF Deposit
  <2> HIDE DEF ts, funded
  <2>3. CheckAndActivate(funded, agreementTenants[a], ts) \in Agreement
    BY <2>1, ActivationTyped
  <2>4. agreements' \in Records /\ tenants' \in TenantBooks
    BY <1>4, <1>5, <2>1, <2>2, <2>3
  <2>5. balance' \in Int
    BY <1>1, <1>9, <2>1 DEF Deposit
  <2> QED BY <1>1, <1>9, <2>4, <2>5, StepOnOne DEF Deposit
<1>10. ASSUME NEW x \in Uint128, PaysFunding(a, sender, x)
       PROVE  TypeOK'
  <2> DEFINE ts == [tenants[a] EXCEPT ![sender].fundedAmount = @ - x]
             less == [g EXCEPT !.totalFunded = @ - x]
  <2>1. x \in Int /\ ts \in [Wallets -> Tenant] /\ less \in Agreement
    BY <1>2, <1>3, <1>6, TenantUpdates, AgreementUpdates
  <2>2. /\ tenants' = [tenants EXCEPT ![a] = ts]
        /\ agreements' = [agreements EXCEPT ![a] = less]
    BY <1>10 DEF PaysFunding, WithdrawFundingEffects
  <2> HIDE DEF ts, less
  <2>3. agreements' \in Records /\ tenants' \in TenantBooks
    BY <1>4, <1>5, <2>1, <2>2
  <2>4. balance' \in Int
    BY <1>1, <1>10, <2>1 DEF PaysFunding
  <2> QED BY <1>1, <1>10, <2>3, <2>4, StepOnOne
          DEF PaysFunding, WithdrawFundingEffects
<1>11. ASSUME CancelExpiredFunding(a, sender)
       PROVE  TypeOK'
  <2>1. [g EXCEPT !.status = "CANCELLED"] \in Agreement
    BY <1>2, AgreementFields DEF AgreementStatus
  <2>2. agreements' \in Records
    BY <1>4, <1>11, <2>1 DEF CancelExpiredFunding
  <2> QED BY <1>1, <1>11, <2>2, StepOnOne DEF CancelExpiredFunding
<1>12. ASSUME PaysCancelled(a, sender)
       PROVE  TypeOK'
  <2> DEFINE x == t.fundedAmount
             ts == [tenants[a] EXCEPT ![sender].cancelledFundingWithdrawn = TRUE,
                                      ![sender].cancelledFundingWithdrawnAmount = x]
             more == [g EXCEPT !.totalCancelledFundingWithdrawn = @ + x]
  <2>1. x \in Int
    BY <1>2 DEF Tenant
  <2>2. /\ tenants' = [tenants EXCEPT ![a] = ts]
        /\ agreements' = [agreements EXCEPT ![a] = more]
    BY <1>12 DEF PaysCancelled, WithdrawCancelledEffects
  <2>3. ts \in [Wallets -> Tenant] /\ more \in Agreement
    BY <1>2, <1>6, <2>1, TenantUpdates, AgreementUpdates
  <2> HIDE DEF ts, more
  <2>4. agreements' \in Records /\ tenants' \in TenantBooks
    BY <1>4, <1>5, <2>2, <2>3
  <2>5. balance' \in Int
    BY <1>1, <1>12, <2>1 DEF PaysCancelled
  <2> QED BY <1>1, <1>12, <2>4, <2>5, StepOnOne
          DEF PaysCancelled, WithdrawCancelledEffects
<1> QED BY <1>7, <1>8, <1>9, <1>10, <1>11, <1>12

(* The two ways out of PENDING, for a claim record with this call's votes. *)
LEMMA ResolutionTyped ==
  ASSUME TypeOK, NEW a \in AgreementIds, NEW c \in ClaimIds, NEW k \in Claim
  PROVE  /\ \A status \in ClaimStatus : Dismiss(a, c, k, status) =>
              agreements' \in Records /\ tenants' \in TenantBooks /\ claims' \in ClaimLists
         /\ ApproveClaim(a, c, k) =>
              agreements' \in Records /\ tenants' \in TenantBooks /\ claims' \in ClaimLists
<1> DEFINE g == agreements[a]
<1>1. agreements \in Records /\ tenants \in TenantBooks /\ claims \in ClaimLists
  BY DEF TypeOK, Records, TenantBooks, ClaimLists
<1>2. g \in Agreement /\ tenants[a] \in [Wallets -> Tenant] /\ claims[a] \in [ClaimIds -> Claim]
  BY <1>1 DEF Records, TenantBooks, ClaimLists
<1>3. k.amount \in Int
  BY ClaimUpdates
<1>4. ASSUME NEW status \in ClaimStatus, Dismiss(a, c, k, status)
      PROVE  agreements' \in Records /\ tenants' \in TenantBooks /\ claims' \in ClaimLists
  <2>1. claims' \in ClaimLists
    <3>1. [k EXCEPT !.status = status] \in Claim
      BY ClaimUpdates
    <3>2. [claims[a] EXCEPT ![c] = [k EXCEPT !.status = status]] \in [ClaimIds -> Claim]
      BY <1>2, <3>1
    <3>3. claims' = [claims EXCEPT ![a] = [claims[a] EXCEPT ![c] = [k EXCEPT !.status = status]]]
      BY <1>4 DEF Dismiss
    <3> QED BY <1>1, <3>2, <3>3, OneEntry DEF ClaimLists
  <2>2. agreements' \in Records
    <3> DEFINE h == [g EXCEPT !.unresolvedClaimCount = @ - 1,
                              !.totalOpenClaimAmount = @ - k.amount]
    <3>1. h \in Agreement
      BY <1>2, <1>3, AgreementUpdates
    <3>2. agreements' = [agreements EXCEPT ![a] = h]
      BY <1>4 DEF Dismiss
    <3> HIDE DEF h
    <3> QED BY <1>1, <3>1, <3>2, OneEntry DEF Records
  <2>3. tenants' \in TenantBooks
    <3>1. Releases(tenants[a], k) \in [Wallets -> Tenant]
      BY <1>2, ReleasesTyped
    <3>2. tenants' = [tenants EXCEPT ![a] = Releases(tenants[a], k)]
      BY <1>4 DEF Dismiss
    <3> QED BY <1>1, <3>1, <3>2, OneEntry DEF TenantBooks
  <2> QED BY <2>1, <2>2, <2>3
<1>5. ASSUME ApproveClaim(a, c, k)
      PROVE  agreements' \in Records /\ tenants' \in TenantBooks /\ claims' \in ClaimLists
  <2>1. claims' \in ClaimLists
    <3>1. [k EXCEPT !.status = "APPROVED"] \in Claim
      BY ClaimUpdates DEF ClaimStatus
    <3>2. [claims[a] EXCEPT ![c] = [k EXCEPT !.status = "APPROVED"]] \in [ClaimIds -> Claim]
      BY <1>2, <3>1
    <3>3. claims' = [claims EXCEPT ![a] = [claims[a] EXCEPT ![c] = [k EXCEPT !.status = "APPROVED"]]]
      BY <1>5 DEF ApproveClaim
    <3> QED BY <1>1, <3>2, <3>3, OneEntry DEF ClaimLists
  <2>2. agreements' \in Records
    <3>1. Approves(g, k) \in Agreement
      BY <1>2, ApprovalTyped
    <3>2. agreements' = [agreements EXCEPT ![a] = Approves(g, k)]
      BY <1>5 DEF ApproveClaim
    <3> QED BY <1>1, <3>1, <3>2, OneEntry DEF Records
  <2>3. tenants' \in TenantBooks
    <3> DEFINE w == k.liableTenant
               ts == [tenants[a] EXCEPT ![w].openIndividualClaimAmount = @ - k.amount,
                                        ![w].approvedIndividualClaims = @ + k.amount]
    <3>1. ts \in [Wallets -> Tenant]
      <4>1. CASE w \in Wallets
        <5>1. [tenants[a][w] EXCEPT !.openIndividualClaimAmount = @ - k.amount,
                                    !.approvedIndividualClaims = @ + k.amount] \in Tenant
          BY <1>2, <1>3, <4>1, TenantUpdates
        <5> QED BY <1>2, <4>1, <5>1
      <4>2. CASE w \notin Wallets
        BY <1>2, <4>2
      <4> QED BY <4>1, <4>2
    <3>2. \/ tenants' = [tenants EXCEPT ![a] = ts]
          \/ tenants' = tenants
      BY <1>5 DEF ApproveClaim
    <3> HIDE DEF ts
    <3> QED BY <1>1, <3>1, <3>2, OneEntry DEF TenantBooks
  <2> QED BY <2>1, <2>2, <2>3
<1> QED BY <1>4, <1>5

(* Claims, votes and their resolution keep the types.                      *)
LEMMA ClaimsTyped ==
  ASSUME TypeOK, NEW a \in AgreementIds, NEW sender \in Wallets
  PROVE  /\ \A type \in ClaimType, liable \in Wallets \cup {NoWallet}, x \in Uint128,
               reason, evidence \in Hashes \cup {NoHash} :
              SubmitClaim(a, sender, type, liable, x, reason, evidence) => TypeOK'
         /\ \A c \in ClaimIds : WithdrawPendingClaim(a, sender, c) => TypeOK'
         /\ \A c \in ClaimIds, support \in BOOLEAN : VoteClaim(a, sender, c, support) => TypeOK'
         /\ \A c \in ClaimIds : FinalizePendingClaim(a, sender, c) => TypeOK'
<1> DEFINE g == agreements[a]
<1>1. /\ agreements \in Records /\ tenants \in TenantBooks
      /\ claims \in ClaimLists /\ votes \in VoteBooks /\ balance \in Int
  BY DEF TypeOK, Records, TenantBooks, ClaimLists, VoteBooks
<1>2. /\ g \in Agreement /\ tenants[a] \in [Wallets -> Tenant]
      /\ \A c \in ClaimIds : claims[a][c] \in Claim
  BY <1>1 DEF Records, TenantBooks, ClaimLists
<1>3. ASSUME NEW type \in ClaimType, NEW liable \in Wallets \cup {NoWallet},
             NEW x \in Uint128, NEW reason, NEW evidence,
             SubmitClaim(a, sender, type, liable, x, reason, evidence)
      PROVE  TypeOK'
  <2> DEFINE c == g.claimCount + 1
             k == [BlankClaim EXCEPT !.liableTenant = liable, !.amount = x,
                                     !.claimType = type, !.status = "PENDING"]
             h == [g EXCEPT !.claimCount = c, !.unresolvedClaimCount = @ + 1,
                            !.totalOpenClaimAmount = @ + x]
  <2>1. x \in Int
    BY ConstantsAssumption DEF Uint128
  <2>2. c \in 0 .. MAX_CLAIMS
    <3>1. g.claimCount \in 0 .. MAX_CLAIMS
      BY <1>2 DEF Agreement
    <3>2. g.claimCount < MAX_CLAIMS
      BY <1>3 DEF SubmitClaim, HasClaimIdsLeft
    <3> QED BY <3>1, <3>2, ConstantsAssumption
  <2>3. k \in Claim
    BY <2>1 DEF BlankClaim, Claim, ClaimStatus, ClaimType
  <2>4. h \in Agreement
    <3> HIDE DEF c
    <3> QED BY <1>2, <2>1, <2>2, AgreementUpdates
  <2>5. /\ agreements' = [agreements EXCEPT ![a] = h]
        /\ claims' = [claims EXCEPT ![a][c] = k]
    BY <1>3 DEF SubmitClaim
  <2> HIDE DEF c, k, h
  <2>6. agreements' \in Records
    BY <1>1, <2>4, <2>5, OneEntry DEF Records
  <2>7. claims' \in ClaimLists
    BY <1>1, <2>3, <2>5 DEF ClaimLists
  <2>8. tenants' \in TenantBooks
    <3> DEFINE t == [tenants[a][liable] EXCEPT !.openIndividualClaimAmount = @ + x]
    <3>1. CASE UNCHANGED tenants
      BY <1>1, <3>1
    <3>2. CASE /\ liable \in Wallets
               /\ tenants' = [tenants EXCEPT ![a][liable].openIndividualClaimAmount = @ + x]
      <4>1. t \in Tenant
        BY <1>2, <2>1, <3>2, TenantUpdates
      <4>2. tenants' = [tenants EXCEPT ![a][liable] = t]
        BY <3>2
      <4> HIDE DEF t
      <4> QED BY <1>1, <3>2, <4>1, <4>2 DEF TenantBooks
    <3> QED BY <1>3, <3>1, <3>2 DEF SubmitClaim
  <2> QED BY <1>1, <1>3, <2>6, <2>7, <2>8, StepOnOne DEF SubmitClaim
<1>4. ASSUME NEW c \in ClaimIds, WithdrawPendingClaim(a, sender, c)
      PROVE  TypeOK'
  <2>1. Dismiss(a, c, claims[a][c], "WITHDRAWN") /\ "WITHDRAWN" \in ClaimStatus
    BY <1>4 DEF WithdrawPendingClaim, ClaimStatus
  <2>2. agreements' \in Records /\ tenants' \in TenantBooks /\ claims' \in ClaimLists
    BY <1>2, <2>1, ResolutionTyped
  <2> QED BY <1>1, <1>4, <2>2, StepOnOne DEF WithdrawPendingClaim
<1>5. ASSUME NEW c \in ClaimIds, NEW support \in BOOLEAN, VoteClaim(a, sender, c, support)
      PROVE  TypeOK'
  <2> DEFINE k == IF support THEN [claims[a][c] EXCEPT !.yesVotes = @ + 1]
                             ELSE [claims[a][c] EXCEPT !.noVotes = @ + 1]
  <2>1. k \in Claim
    BY <1>2, ClaimUpdates
  <2>2. votes' \in VoteBooks
    BY <1>1, <1>5 DEF VoteClaim, VoteBooks
  <2>3. \/ ApproveClaim(a, c, k)
        \/ Dismiss(a, c, k, "REJECTED")
        \/ claims' = [claims EXCEPT ![a][c] = k] /\ UNCHANGED <<agreements, tenants>>
    BY <1>5 DEF VoteClaim
  <2> HIDE DEF k
  <2>4. "REJECTED" \in ClaimStatus
    BY DEF ClaimStatus
  <2>5. [claims EXCEPT ![a][c] = k] \in ClaimLists
    BY <1>1, <2>1 DEF ClaimLists
  <2>6. agreements' \in Records /\ tenants' \in TenantBooks /\ claims' \in ClaimLists
    BY <1>1, <2>1, <2>3, <2>4, <2>5, ResolutionTyped
  <2> QED BY <1>1, <1>5, <2>2, <2>6, StepOnOne DEF VoteClaim
<1>6. ASSUME NEW c \in ClaimIds, FinalizePendingClaim(a, sender, c)
      PROVE  TypeOK'
  <2>1. "REJECTED" \in ClaimStatus
    BY DEF ClaimStatus
  <2>2. \/ ApproveClaim(a, c, claims[a][c])
        \/ Dismiss(a, c, claims[a][c], "REJECTED")
    BY <1>6 DEF FinalizePendingClaim
  <2>3. agreements' \in Records /\ tenants' \in TenantBooks /\ claims' \in ClaimLists
    BY <1>2, <2>1, <2>2, ResolutionTyped
  <2> QED BY <1>1, <1>6, <2>3, StepOnOne DEF FinalizePendingClaim
<1> QED BY <1>3, <1>4, <1>5, <1>6

(* What each listed tenant has left is an integer.                         *)
LEMMA RemainingTyped ==
  ASSUME TypeOK, NEW a \in AgreementIds
  PROVE  /\ Len(agreementTenants[a]) \in Nat
         /\ agreementTenants[a] \in [1 .. Len(agreementTenants[a]) -> Wallets]
         /\ RemainingBalances(a) \in [1 .. Len(agreementTenants[a]) -> Int]
<1>1. agreementTenants[a] \in Seq(Wallets) /\ tenants[a] \in [Wallets -> Tenant]
  BY DEF TypeOK
<1>2. /\ Len(agreementTenants[a]) \in Nat
      /\ agreementTenants[a] \in [1 .. Len(agreementTenants[a]) -> Wallets]
  BY <1>1
<1>3. \A w \in Wallets : tenants[a][w].fundedAmount - tenants[a][w].approvedIndividualClaims \in Int
  BY <1>1 DEF Tenant
<1> QED BY <1>2, <1>3 DEF RemainingBalances

(* Settlement and the payouts keep the types.                              *)
LEMMA PayoutTyped ==
  ASSUME TypeOK, NEW a \in AgreementIds, NEW sender \in Wallets
  PROVE  /\ FinalizeAgreement(a) => TypeOK'
         /\ PaysRefund(a, sender) => TypeOK'
         /\ PaysPayout(a, sender) => TypeOK'
<1> DEFINE g == agreements[a]
           t == tenants[a][sender]
<1>1. /\ agreements \in Records /\ tenants \in TenantBooks
      /\ claims \in ClaimLists /\ votes \in VoteBooks /\ balance \in Int
  BY DEF TypeOK, Records, TenantBooks, ClaimLists, VoteBooks
<1>2. g \in Agreement /\ tenants[a] \in [Wallets -> Tenant] /\ t \in Tenant
  BY <1>1 DEF Records, TenantBooks
<1>3. ASSUME FinalizeAgreement(a)
      PROVE  TypeOK'
  <2> DEFINE list == agreementTenants[a]
             refunds == Refunds(RemainingBalances(a), g.sharedApprovedClaims)
  <2>1. refunds \in [1 .. Len(list) -> Int]
    <3>1. g.sharedApprovedClaims \in Int
      BY <1>2, AgreementFields
    <3>2. g.sharedApprovedClaims <= TotalRemaining(RemainingBalances(a))
      BY <1>3 DEF FinalizeAgreement, Settles
    <3> QED BY <3>1, <3>2, RemainingTyped, RefundsTyped
  <2>2. ASSUME NEW w \in Wallets
        PROVE  StoredRefunds(a)[w] \in Tenant
    <3>1. CASE w \notin Range(list)
      BY <1>2, <3>1 DEF StoredRefunds
    <3>2. CASE w \in Range(list)
      <4> DEFINE i == CHOOSE i \in DOMAIN list : list[i] = w
      <4>1. i \in 1 .. Len(list)
        BY <3>2, RemainingTyped DEF Range
      <4>2. StoredRefunds(a)[w] = [tenants[a][w] EXCEPT !.refundAmount = refunds[i]]
        BY <3>2 DEF StoredRefunds
      <4> HIDE DEF i, refunds
      <4>3. refunds[i] \in Int
        BY <2>1, <4>1
      <4>4. \A y \in Int : [tenants[a][w] EXCEPT !.refundAmount = y] \in Tenant
        BY <1>2, TenantUpdates
      <4> QED BY <4>2, <4>3, <4>4
    <3> QED BY <3>1, <3>2
  <2>3. StoredRefunds(a) \in [Wallets -> Tenant]
    BY <2>2 DEF StoredRefunds
  <2>4. [g EXCEPT !.status = "FINALIZED"] \in Agreement
    BY <1>2, AgreementFields DEF AgreementStatus
  <2>5. tenants' \in TenantBooks
    BY <1>1, <1>3, <2>3, OneEntry DEF FinalizeAgreement, TenantBooks
  <2>6. agreements' \in Records
    BY <1>1, <1>3, <2>4, OneEntry DEF FinalizeAgreement, Records
  <2> QED BY <1>1, <1>3, <2>5, <2>6, StepOnOne DEF FinalizeAgreement
<1>4. ASSUME PaysRefund(a, sender)
      PROVE  TypeOK'
  <2>1. [t EXCEPT !.refundWithdrawn = TRUE] \in Tenant /\ t.refundAmount \in Int
    BY <1>2, TenantFlags DEF Tenant
  <2>2. tenants' = [tenants EXCEPT ![a][sender] = [t EXCEPT !.refundWithdrawn = TRUE]]
    BY <1>4 DEF PaysRefund, WithdrawRefundEffects
  <2>3. tenants' \in TenantBooks
    BY <1>1, <2>1, <2>2 DEF TenantBooks
  <2>4. balance' \in Int
    BY <1>1, <1>4, <2>1 DEF PaysRefund
  <2> QED BY <1>1, <1>4, <2>3, <2>4, StepOnOne DEF PaysRefund, WithdrawRefundEffects
<1>5. ASSUME PaysPayout(a, sender)
      PROVE  TypeOK'
  <2>1. [g EXCEPT !.recipientPayoutWithdrawn = TRUE] \in Agreement /\ g.totalApprovedClaims \in Int
    BY <1>2, AgreementFields
  <2>2. agreements' = [agreements EXCEPT ![a] = [g EXCEPT !.recipientPayoutWithdrawn = TRUE]]
    BY <1>5 DEF PaysPayout, WithdrawPayoutEffects
  <2>3. agreements' \in Records
    BY <1>1, <2>1, <2>2, OneEntry DEF Records
  <2>4. balance' \in Int
    BY <1>1, <1>5, <2>1 DEF PaysPayout
  <2> QED BY <1>1, <1>5, <2>3, <2>4, StepOnOne DEF PaysPayout, WithdrawPayoutEffects
<1> QED BY <1>3, <1>4, <1>5

(* Every step of the contract keeps the types.                             *)
LEMMA StepTyped == TypeOK /\ EscrowStep => TypeOK'
<1> SUFFICES ASSUME TypeOK, EscrowStep PROVE TypeOK'
  OBVIOUS
<1>1. ASSUME NEW w \in Wallets, UnguardedCall(w)
      PROVE  TypeOK'
  BY <1>1, CreationTyped, FundingTyped, ClaimsTyped, PayoutTyped DEF UnguardedCall
<1>2. ASSUME NEW w \in Wallets, Pays(w)
      PROVE  TypeOK'
  BY <1>2, FundingTyped, PayoutTyped DEF Pays
<1>3. CASE Tick
  BY <1>3, ConstantsAssumption DEF Tick, TypeOK, storage
<1>4. ASSUME NEW x \in 1 .. MaxForced, ForceSend(x)
      PROVE  TypeOK'
  BY <1>4, ConstantsAssumption DEF ForceSend, TypeOK, storage
<1>5. CASE UNCHANGED vars
  BY <1>5 DEF vars, TypeOK
<1> QED BY <1>1, <1>2, <1>3, <1>4, <1>5 DEF EscrowStep

(* The contract's state always has its types, for every instance: whatever *)
(* the order of calls, each claim id stays within MAX_CLAIMS and every     *)
(* settlement that goes through writes an integer refund for each tenant.  *)
THEOREM TypeCorrect == Spec => []TypeOK
<1>1. Init => TypeOK
  BY InitTyped
<1>2. TypeOK /\ [Next]_vars => TypeOK'
  BY StepTyped, NextIsStep
<1> QED BY <1>1, <1>2, PTL DEF Spec

-----------------------------------------------------------------------------
(* The inductive invariant                                                 *)

(* The columns of an agreement's tenant records that are summed.           *)
Required(ts) == [w \in Wallets |-> ts[w].requiredAmount]
Funded(ts) == [w \in Wallets |-> ts[w].fundedAmount]
Returned(ts) == [w \in Wallets |-> ts[w].cancelledFundingWithdrawnAmount]
Deducted(ts) == [w \in Wallets |-> ts[w].approvedIndividualClaims]

(* What a pending claim reserves, and the reservations of an agreement.    *)
Reserved(k) == IF k.status = "PENDING" THEN k.amount ELSE 0
Open(ks) == [c \in ClaimIds |-> Reserved(ks[c])]

(* Owed, of an agreement's record and one of its tenants' records.         *)
Due(g, t, w) ==
  (CASE g.status = "FINALIZED" -> IF t.refundWithdrawn THEN 0 ELSE t.refundAmount
     [] g.status = "CANCELLED" -> IF t.cancelledFundingWithdrawn THEN 0 ELSE t.fundedAmount
     [] OTHER -> t.fundedAmount)
  + (IF /\ g.status = "FINALIZED" /\ w = g.recipient
        /\ ~ g.recipientPayoutWithdrawn
     THEN g.totalApprovedClaims ELSE 0)

(* And of all its tenants.                                                 *)
Dues(g, ts) == [w \in Wallets |-> Due(g, ts[w], w)]

(* The statuses in which an agreement may have claims.                     *)
HasClaims(status) == status \in {"ACTIVE", "FINALIZED"}

(* One tenant's record in an agreement of this status.                     *)
TenantSound(status, t) ==
  /\ 0 <= t.fundedAmount /\ t.fundedAmount <= t.requiredAmount
  /\ t.cancelledFundingWithdrawnAmount =
       IF t.cancelledFundingWithdrawn THEN t.fundedAmount ELSE 0
  /\ t.cancelledFundingWithdrawn => status = "CANCELLED"
  /\ t.refundWithdrawn => status = "FINALIZED"
  /\ t.openIndividualClaimAmount + t.approvedIndividualClaims <= t.fundedAmount
  /\ ~ HasClaims(status) => t.openIndividualClaimAmount = 0 /\ t.approvedIndividualClaims = 0
  /\ ~ t.exists => /\ t.requiredAmount = 0 /\ t.approvedIndividualClaims = 0
                   /\ t.refundAmount = 0

(* One claim's record.                                                     *)
ClaimSound(claimCount, ts, k, c) ==
  /\ c > claimCount => k.status = "NONE"
  /\ k.status # "NONE" =>
       /\ 0 <= k.amount
       /\ k.claimType = "INDIVIDUAL" =>
            k.liableTenant \in Wallets /\ ts[k.liableTenant].exists

(* The agreement's own record.                                             *)
RecordSound(g) ==
  /\ g.status # "NONE" => g.recipient \in Wallets
  /\ g.recipientPayoutWithdrawn => g.status = "FINALIZED"
  /\ 0 <= g.sharedApprovedClaims
  /\ g.totalOpenClaimAmount + g.totalApprovedClaims <= g.totalFunded
  /\ ~ HasClaims(g.status) => g.totalOpenClaimAmount = 0 /\ g.totalApprovedClaims = 0

(* The tenant list and the tenant records name the same wallets.           *)
ListSound(list, ts) ==
  /\ \A i, j \in DOMAIN list : list[i] = list[j] => i = j
  /\ \A w \in Wallets : ts[w].exists <=> \E i \in DOMAIN list : list[i] = w

(* The totals are sums of the records.                                     *)
TotalsSound(g, ts) ==
  /\ g.totalRequired = SumFunction(Required(ts))
  /\ g.totalFunded = SumFunction(Funded(ts))
  /\ g.totalCancelledFundingWithdrawn = SumFunction(Returned(ts))
  /\ g.totalApprovedClaims = g.sharedApprovedClaims + SumFunction(Deducted(ts))

(* All of an agreement fits together.                                      *)
Sound(g, list, ts, ks) ==
  /\ RecordSound(g)
  /\ ListSound(list, ts)
  /\ \A w \in Wallets : TenantSound(g.status, ts[w])
  /\ TotalsSound(g, ts)
  /\ \A c \in ClaimIds : ClaimSound(g.claimCount, ts, ks[c], c)
  /\ g.totalOpenClaimAmount = SumFunction(Open(ks))

(* Ids that were not given out.                                            *)
Unused(a) ==
  agreements[a] = BlankAgreement /\ \A w \in Wallets : tenants[a][w] = BlankTenant

(* The inductive invariant: TypeOK, every agreement sound, the ids not     *)
(* given out blank, and Solvent, which the payments keep step by step.     *)
EscrowInv ==
  /\ TypeOK
  /\ \A a \in AgreementIds : Sound(agreements[a], agreementTenants[a], tenants[a], claims[a])
  /\ \A a \in AgreementIds : a >= nextAgreementId => Unused(a)
  /\ Solvent

-----------------------------------------------------------------------------
(* Columns and dues                                                        *)

(* Every column holds integers, so its sum is one.                         *)
LEMMA ColumnsTyped ==
  ASSUME NEW ts \in [Wallets -> Tenant]
  PROVE  /\ Required(ts) \in [Wallets -> Int] /\ Funded(ts) \in [Wallets -> Int]
         /\ Returned(ts) \in [Wallets -> Int] /\ Deducted(ts) \in [Wallets -> Int]
         /\ SumFunction(Required(ts)) \in Int /\ SumFunction(Funded(ts)) \in Int
         /\ SumFunction(Returned(ts)) \in Int /\ SumFunction(Deducted(ts)) \in Int
<1>1. /\ Required(ts) \in [Wallets -> Int] /\ Funded(ts) \in [Wallets -> Int]
      /\ Returned(ts) \in [Wallets -> Int] /\ Deducted(ts) \in [Wallets -> Int]
  BY DEF Required, Funded, Returned, Deducted, Tenant
<1>2. ASSUME NEW f \in [Wallets -> Int]
      PROVE  SumFunction(f) \in Int
  <2>1. SumFunction(f) = SumFunctionOnSet(f, Wallets)
    BY SumDomain
  <2> QED BY <2>1, SumInt, ConstantsAssumption
<1> QED BY <1>1, <1>2

(* One entry of a function from wallets to integers changes by d.          *)
LEMMA EntryReplaced ==
  ASSUME NEW D, IsFiniteSet(D), NEW f \in [D -> Int], NEW g \in [D -> Int], NEW e \in D,
         \A x \in D \ {e} : g[x] = f[x]
  PROVE  SumFunction(g) = SumFunction(f) + (g[e] - f[e])
<1> DEFINE d == g[e] - f[e]
<1>1. d \in Int /\ g[e] = f[e] + d
  OBVIOUS
<1>2. SumFunction(f) = SumFunctionOnSet(f, D) /\ SumFunction(g) = SumFunctionOnSet(g, D)
  BY SumDomain
<1> HIDE DEF d
<1>3. \A x \in D : f[x] \in Int /\ g[x] \in Int
  OBVIOUS
<1>4. \A x \in D \ {e} : f[x] = g[x]
  OBVIOUS
<1>5. SumFunctionOnSet(g, D) = SumFunctionOnSet(f, D) + d
  BY <1>1, <1>3, <1>4, SumUpdate
<1> QED BY <1>2, <1>5 DEF d

(* What is due is an integer.                                              *)
LEMMA DueTyped ==
  ASSUME NEW g \in Agreement, NEW t \in Tenant, NEW w
  PROVE  Due(g, t, w) \in Int
<1>1. /\ g.totalApprovedClaims \in Int /\ t.refundAmount \in Int /\ t.fundedAmount \in Int
  BY DEF Agreement, Tenant
<1> QED BY <1>1 DEF Due

(* So are the sums of what is due, and Owed and Due are the same.          *)
LEMMA DuesTyped ==
  ASSUME NEW g \in Agreement, NEW ts \in [Wallets -> Tenant]
  PROVE  Dues(g, ts) \in [Wallets -> Int] /\ SumFunction(Dues(g, ts)) \in Int
<1>1. Dues(g, ts) \in [Wallets -> Int]
  BY DueTyped DEF Dues
<1>2. SumFunction(Dues(g, ts)) = SumFunctionOnSet(Dues(g, ts), Wallets)
  BY <1>1, SumDomain
<1> QED BY <1>1, <1>2, SumInt, ConstantsAssumption

(* Owed is what is due by the two records.                                 *)
LEMMA OwedIsDue ==
  ASSUME NEW a, NEW w PROVE Owed(a, w) = Due(agreements[a], tenants[a][w], w)
BY DEF Owed, Due

(* Solvent in terms of the records.                                        *)
LEMMA SolventByRecords ==
  Solvent <=>
    balance = forced + SumFunction([a \in AgreementIds |->
                                      SumFunction(Dues(agreements[a], tenants[a]))])
<1>1. \A a : Dues(agreements[a], tenants[a]) = [w \in Wallets |-> Owed(a, w)]
  BY OwedIsDue DEF Dues
<1> QED BY <1>1 DEF Solvent

(* A replaced tenant record changes the sum of what is due by its own      *)
(* change.                                                                 *)
LEMMA DueReplaced ==
  ASSUME NEW g \in Agreement, NEW ts \in [Wallets -> Tenant],
         NEW us \in [Wallets -> Tenant], NEW w \in Wallets,
         \A v \in Wallets \ {w} : us[v] = ts[v]
  PROVE  SumFunction(Dues(g, us)) = SumFunction(Dues(g, ts))
                                    + (Due(g, us[w], w) - Due(g, ts[w], w))
<1>1. Dues(g, ts) \in [Wallets -> Int] /\ Dues(g, us) \in [Wallets -> Int]
  BY DuesTyped
<1>2. \A v \in Wallets \ {w} : Dues(g, us)[v] = Dues(g, ts)[v]
  BY DEF Dues
<1>3. SumFunction(Dues(g, us)) = SumFunction(Dues(g, ts)) + (Dues(g, us)[w] - Dues(g, ts)[w])
  BY <1>1, <1>2, EntryReplaced, ConstantsAssumption
<1>4. Dues(g, us)[w] = Due(g, us[w], w) /\ Dues(g, ts)[w] = Due(g, ts[w], w)
  BY DEF Dues
<1> QED BY <1>3, <1>4

(* And each column's likewise.                                             *)
LEMMA RowReplaced ==
  ASSUME NEW ts \in [Wallets -> Tenant], NEW us \in [Wallets -> Tenant], NEW w \in Wallets,
         \A v \in Wallets \ {w} : us[v] = ts[v]
  PROVE  /\ SumFunction(Required(us)) = SumFunction(Required(ts))
                                        + (us[w].requiredAmount - ts[w].requiredAmount)
         /\ SumFunction(Funded(us)) = SumFunction(Funded(ts))
                                      + (us[w].fundedAmount - ts[w].fundedAmount)
         /\ SumFunction(Returned(us)) = SumFunction(Returned(ts))
              + (us[w].cancelledFundingWithdrawnAmount - ts[w].cancelledFundingWithdrawnAmount)
         /\ SumFunction(Deducted(us)) = SumFunction(Deducted(ts))
              + (us[w].approvedIndividualClaims - ts[w].approvedIndividualClaims)
<1>1. \A v \in Wallets \ {w} : us[v] = ts[v]
  OBVIOUS
<1>2. IsFiniteSet(Wallets)
  BY ConstantsAssumption
<1>3. /\ Required(ts) \in [Wallets -> Int] /\ Required(us) \in [Wallets -> Int]
      /\ Funded(ts) \in [Wallets -> Int] /\ Funded(us) \in [Wallets -> Int]
      /\ Returned(ts) \in [Wallets -> Int] /\ Returned(us) \in [Wallets -> Int]
      /\ Deducted(ts) \in [Wallets -> Int] /\ Deducted(us) \in [Wallets -> Int]
  BY <1>1, ColumnsTyped
<1>5. \A v \in Wallets :
        /\ Required(ts)[v] = ts[v].requiredAmount /\ Required(us)[v] = us[v].requiredAmount
        /\ Funded(ts)[v] = ts[v].fundedAmount /\ Funded(us)[v] = us[v].fundedAmount
        /\ Returned(ts)[v] = ts[v].cancelledFundingWithdrawnAmount
        /\ Returned(us)[v] = us[v].cancelledFundingWithdrawnAmount
        /\ Deducted(ts)[v] = ts[v].approvedIndividualClaims
        /\ Deducted(us)[v] = us[v].approvedIndividualClaims
  BY DEF Required, Funded, Returned, Deducted
<1>6. ASSUME NEW v \in Wallets \ {w}
      PROVE  /\ Required(us)[v] = Required(ts)[v] /\ Funded(us)[v] = Funded(ts)[v]
             /\ Returned(us)[v] = Returned(ts)[v] /\ Deducted(us)[v] = Deducted(ts)[v]
  <2>1. v \in Wallets /\ us[v] = ts[v]
    BY <1>1
  <2> QED BY <2>1 DEF Required, Funded, Returned, Deducted
<1>7. ASSUME NEW f \in [Wallets -> Int], NEW h \in [Wallets -> Int],
             \A v \in Wallets \ {w} : h[v] = f[v]
      PROVE  SumFunction(h) = SumFunction(f) + (h[w] - f[w])
  BY <1>2, <1>7, EntryReplaced
<1>8. SumFunction(Required(us)) = SumFunction(Required(ts)) + (Required(us)[w] - Required(ts)[w])
  BY <1>3, <1>6, <1>7
<1>9. SumFunction(Funded(us)) = SumFunction(Funded(ts)) + (Funded(us)[w] - Funded(ts)[w])
  BY <1>3, <1>6, <1>7
<1>10. SumFunction(Returned(us)) = SumFunction(Returned(ts)) + (Returned(us)[w] - Returned(ts)[w])
  BY <1>3, <1>6, <1>7
<1>11. SumFunction(Deducted(us)) = SumFunction(Deducted(ts)) + (Deducted(us)[w] - Deducted(ts)[w])
  BY <1>3, <1>6, <1>7
<1> QED BY <1>1, <1>5, <1>8, <1>9, <1>10, <1>11

(* The same for the open claims.                                           *)
LEMMA ClaimReplaced ==
  ASSUME NEW ks \in [ClaimIds -> Claim], NEW c \in ClaimIds, NEW k \in Claim,
         NEW ls, ls = [ks EXCEPT ![c] = k]
  PROVE  /\ SumFunction(Open(ks)) \in Int
         /\ SumFunction(Open(ls)) = SumFunction(Open(ks)) + (Reserved(k) - Reserved(ks[c]))
<1>1. ls \in [ClaimIds -> Claim] /\ ls[c] = k /\ \A d \in ClaimIds \ {c} : ls[d] = ks[d]
  OBVIOUS
<1>2. ASSUME NEW r \in Claim
      PROVE  Reserved(r) \in Int
  <2>1. r.amount \in Int
    BY ClaimUpdates
  <2> QED BY <2>1 DEF Reserved
<1>3. Open(ks) \in [ClaimIds -> Int] /\ Open(ls) \in [ClaimIds -> Int]
  BY <1>1, <1>2 DEF Open
<1>4. \A d \in ClaimIds \ {c} : Open(ls)[d] = Open(ks)[d]
  BY <1>1 DEF Open
<1>5. Open(ks)[c] = Reserved(ks[c]) /\ Open(ls)[c] = Reserved(k)
  BY <1>1 DEF Open
<1>6. IsFiniteSet(ClaimIds)
  BY FS_Interval, ConstantsAssumption DEF ClaimIds
<1>7. SumFunction(Open(ls)) = SumFunction(Open(ks)) + (Open(ls)[c] - Open(ks)[c])
  BY <1>3, <1>4, <1>6, EntryReplaced
<1>8. SumFunction(Open(ks)) = SumFunctionOnSet(Open(ks), ClaimIds)
  BY <1>3, SumDomain
<1>9. \A d \in ClaimIds : Open(ks)[d] \in Int
  BY <1>3
<1>10. SumFunctionOnSet(Open(ks), ClaimIds) \in Int
  BY <1>6, <1>9, SumInt
<1> QED BY <1>5, <1>7, <1>8, <1>10

-----------------------------------------------------------------------------
(* Replacing one agreement, one tenant's record or one status              *)

(* What there is to show of a step on one agreement: its new records are   *)
(* sound, and the account moves by what is due.                            *)
LEMMA AgreementReplaced ==
  ASSUME EscrowInv, TypeOK', NEW a \in AgreementIds, agreements[a].status # "NONE",
         UNCHANGED <<nextAgreementId, agreementTenants>>,
         NEW h, NEW us, NEW ls, agreements' = [agreements EXCEPT ![a] = h],
         tenants' = [tenants EXCEPT ![a] = us], claims' = [claims EXCEPT ![a] = ls],
         Sound(h, agreementTenants[a], us, ls),
         balance' - forced' = balance - forced
           + (SumFunction(Dues(h, us)) - SumFunction(Dues(agreements[a], tenants[a])))
  PROVE  EscrowInv'
<1> DEFINE held == [b \in AgreementIds |-> SumFunction(Dues(agreements[b], tenants[b]))]
           heldNext == [b \in AgreementIds |-> SumFunction(Dues(agreements'[b], tenants'[b]))]
<1>1. /\ agreements \in Records /\ tenants \in TenantBooks /\ claims \in ClaimLists
      /\ agreements' \in Records /\ tenants' \in TenantBooks
      /\ balance \in Int /\ forced \in Int /\ balance' \in Int /\ forced' \in Int
  BY ConstantsAssumption DEF EscrowInv, TypeOK, Records, TenantBooks, ClaimLists
<1>2. /\ agreements'[a] = h /\ tenants'[a] = us /\ claims'[a] = ls
      /\ \A b \in AgreementIds \ {a} : /\ agreements'[b] = agreements[b]
                                       /\ tenants'[b] = tenants[b] /\ claims'[b] = claims[b]
  BY <1>1 DEF Records, TenantBooks, ClaimLists
<1>3. ASSUME NEW b \in AgreementIds
      PROVE  Sound(agreements'[b], agreementTenants'[b], tenants'[b], claims'[b])
  <2>1. CASE b = a
    BY <1>2, <2>1
  <2>2. CASE b # a
    BY <1>2, <2>2 DEF EscrowInv
  <2> QED BY <2>1, <2>2
<1>4. ~ (a >= nextAgreementId)
  BY DEF EscrowInv, Unused, BlankAgreement
<1>5. \A b \in AgreementIds : b >= nextAgreementId' => Unused(b)'
  BY <1>2, <1>4 DEF EscrowInv, Unused
<1>6. held \in [AgreementIds -> Int] /\ heldNext \in [AgreementIds -> Int]
  BY <1>1, DuesTyped DEF Records, TenantBooks
<1>7. IsFiniteSet(AgreementIds)
  BY FS_Interval, ConstantsAssumption DEF AgreementIds
<1>8. /\ \A b \in AgreementIds \ {a} : heldNext[b] = held[b]
      /\ heldNext[a] - held[a]
           = SumFunction(Dues(h, us)) - SumFunction(Dues(agreements[a], tenants[a]))
  BY <1>2
<1>9. SumFunction(held) = SumFunctionOnSet(held, AgreementIds)
  BY <1>6, SumDomain
<1>10. balance = forced + SumFunction(held)
  BY SolventByRecords DEF EscrowInv
<1> HIDE DEF held, heldNext
<1>11. SumFunction(heldNext) = SumFunction(held) + (heldNext[a] - held[a])
  BY <1>6, <1>7, <1>8, EntryReplaced
<1>12. SumFunction(held) \in Int
  <2>1. \A b \in AgreementIds : held[b] \in Int
    BY <1>6
  <2> QED BY <1>7, <1>9, <2>1, SumInt
<1>13. balance' = forced' + SumFunction(heldNext)
  <2>1. held[a] \in Int /\ heldNext[a] \in Int
    BY <1>6
  <2>2. balance' - forced' = balance - forced + (heldNext[a] - held[a])
    BY <1>8
  <2> QED BY <1>1, <1>10, <1>11, <1>12, <2>1, <2>2
<1>14. Solvent'
  BY <1>13 DEF heldNext, Solvent, Owed, Due, Dues
<1> QED BY <1>3, <1>5, <1>14 DEF EscrowInv

(* One tenant's record is replaced, and the totals move with it.           *)
LEMMA TenantReplaced ==
  ASSUME NEW g \in Agreement, NEW h \in Agreement, NEW list, NEW ts \in [Wallets -> Tenant],
         NEW us \in [Wallets -> Tenant], NEW w \in Wallets,
         \A v \in Wallets \ {w} : us[v] = ts[v],
         ListSound(list, ts), TotalsSound(g, ts),
         \A v \in Wallets \ {w} : TenantSound(h.status, ts[v]), TenantSound(h.status, us[w]),
         us[w].exists = ts[w].exists, us[w].requiredAmount = ts[w].requiredAmount,
         h.totalRequired = g.totalRequired,
         h.totalFunded = g.totalFunded + (us[w].fundedAmount - ts[w].fundedAmount),
         h.totalCancelledFundingWithdrawn = g.totalCancelledFundingWithdrawn
           + (us[w].cancelledFundingWithdrawnAmount - ts[w].cancelledFundingWithdrawnAmount),
         h.totalApprovedClaims = g.totalApprovedClaims
           + (h.sharedApprovedClaims - g.sharedApprovedClaims)
           + (us[w].approvedIndividualClaims - ts[w].approvedIndividualClaims)
  PROVE  /\ ListSound(list, us)
         /\ \A v \in Wallets : TenantSound(h.status, us[v])
         /\ TotalsSound(h, us)
<1>1. us[w] \in Tenant /\ \A v \in Wallets \ {w} : us[v] = ts[v]
  OBVIOUS
<1>2. ListSound(list, us)
  BY <1>1 DEF ListSound
<1>3. \A v \in Wallets : TenantSound(h.status, us[v])
  BY <1>1
<1>4. TotalsSound(h, us)
  <2>1. /\ SumFunction(Required(us)) = SumFunction(Required(ts))
                                        + (us[w].requiredAmount - ts[w].requiredAmount)
        /\ SumFunction(Funded(us)) = SumFunction(Funded(ts))
                                      + (us[w].fundedAmount - ts[w].fundedAmount)
        /\ SumFunction(Returned(us)) = SumFunction(Returned(ts))
              + (us[w].cancelledFundingWithdrawnAmount - ts[w].cancelledFundingWithdrawnAmount)
        /\ SumFunction(Deducted(us)) = SumFunction(Deducted(ts))
              + (us[w].approvedIndividualClaims - ts[w].approvedIndividualClaims)
    BY <1>1, RowReplaced
  <2>2. /\ SumFunction(Required(ts)) \in Int /\ SumFunction(Funded(ts)) \in Int
        /\ SumFunction(Returned(ts)) \in Int /\ SumFunction(Deducted(ts)) \in Int
    BY ColumnsTyped
  <2>3. ts[w] \in Tenant
    OBVIOUS
  <2>4. /\ g.sharedApprovedClaims \in Int /\ h.sharedApprovedClaims \in Int
        /\ us[w].requiredAmount \in Int /\ us[w].fundedAmount \in Int
        /\ us[w].cancelledFundingWithdrawnAmount \in Int /\ us[w].approvedIndividualClaims \in Int
        /\ ts[w].requiredAmount \in Int /\ ts[w].fundedAmount \in Int
        /\ ts[w].cancelledFundingWithdrawnAmount \in Int
        /\ ts[w].approvedIndividualClaims \in Int
    BY <1>1, <2>3 DEF Agreement, Tenant
  <2>5. TotalsSound(g, ts)
    OBVIOUS
  <2> QED BY <1>1, <2>1, <2>2, <2>4, <2>5 DEF TotalsSound
<1> QED BY <1>2, <1>3, <1>4

(* A change of status keeps every other part of the agreement's record.    *)
LEMMA StatusReplaced ==
  ASSUME NEW g \in Agreement, NEW status \in AgreementStatus,
         NEW h, h = [g EXCEPT !.status = status]
  PROVE  /\ h \in Agreement /\ h.status = status
         /\ h.recipient = g.recipient /\ h.claimCount = g.claimCount
         /\ h.recipientPayoutWithdrawn = g.recipientPayoutWithdrawn
         /\ h.totalRequired = g.totalRequired /\ h.totalFunded = g.totalFunded
         /\ h.totalCancelledFundingWithdrawn = g.totalCancelledFundingWithdrawn
         /\ h.totalOpenClaimAmount = g.totalOpenClaimAmount
         /\ h.totalApprovedClaims = g.totalApprovedClaims
         /\ h.sharedApprovedClaims = g.sharedApprovedClaims
BY DEF Agreement

(* Activation and cancellation keep an agreement sound and what is due.    *)
LEMMA FundingEnds ==
  ASSUME NEW g \in Agreement, NEW list, NEW ts \in [Wallets -> Tenant], NEW ks,
         Sound(g, list, ts, ks), g.status = "FUNDING",
         NEW status \in {"ACTIVE", "CANCELLED"}, NEW h, h = [g EXCEPT !.status = status]
  PROVE  Sound(h, list, ts, ks) /\ Dues(h, ts) = Dues(g, ts)
<1>1. /\ h \in Agreement /\ h.status = status
      /\ h.recipient = g.recipient /\ h.claimCount = g.claimCount
      /\ h.recipientPayoutWithdrawn = g.recipientPayoutWithdrawn
      /\ h.totalRequired = g.totalRequired /\ h.totalFunded = g.totalFunded
      /\ h.totalCancelledFundingWithdrawn = g.totalCancelledFundingWithdrawn
      /\ h.totalOpenClaimAmount = g.totalOpenClaimAmount
      /\ h.totalApprovedClaims = g.totalApprovedClaims
      /\ h.sharedApprovedClaims = g.sharedApprovedClaims
  BY StatusReplaced DEF AgreementStatus
<1>2. RecordSound(h)
  BY <1>1 DEF Sound, RecordSound, HasClaims
<1>3. ASSUME NEW w \in Wallets
      PROVE  TenantSound(h.status, ts[w]) /\ Due(h, ts[w], w) = Due(g, ts[w], w)
  <2>1. TenantSound("FUNDING", ts[w])
    BY DEF Sound
  <2>2. ~ ts[w].cancelledFundingWithdrawn
    BY <2>1 DEF TenantSound
  <2>3. TenantSound(status, ts[w])
    BY <2>1 DEF TenantSound, HasClaims
  <2>4. Due(h, ts[w], w) = Due(g, ts[w], w)
    BY <1>1, <2>2 DEF Due
  <2> QED BY <1>1, <2>3, <2>4
<1>4. TotalsSound(h, ts)
  BY <1>1 DEF Sound, TotalsSound
<1>5. Dues(h, ts) = Dues(g, ts)
  BY <1>3 DEF Dues
<1> QED BY <1>1, <1>2, <1>3, <1>4, <1>5 DEF Sound

(* So does the check that activates.                                       *)
LEMMA ActivationSound ==
  ASSUME NEW g \in Agreement, NEW list, NEW ts \in [Wallets -> Tenant], NEW ks,
         Sound(g, list, ts, ks), g.status = "FUNDING",
         NEW h, h = CheckAndActivate(g, list, ts)
  PROVE  Sound(h, list, ts, ks) /\ Dues(h, ts) = Dues(g, ts)
<1>1. CASE h = g
  BY <1>1
<1>2. CASE h = [g EXCEPT !.status = "ACTIVE"]
  BY <1>2, FundingEnds
<1> QED BY <1>1, <1>2 DEF CheckAndActivate

(* The tenant's record as acceptAsTenant leaves it.                        *)
Accepts(ts, w) == [ts EXCEPT ![w].accepted = TRUE]

(* A tenant's acceptance.                                                  *)
LEMMA AcceptanceSound ==
  ASSUME NEW g \in Agreement, NEW list, NEW ts \in [Wallets -> Tenant], NEW ks,
         Sound(g, list, ts, ks), NEW w \in Wallets
  PROVE  /\ Accepts(ts, w) \in [Wallets -> Tenant] /\ Sound(g, list, Accepts(ts, w), ks)
         /\ Dues(g, Accepts(ts, w)) = Dues(g, ts)
<1> DEFINE us == Accepts(ts, w)
           t == [ts[w] EXCEPT !.accepted = TRUE]
<1>1. ts[w] \in Tenant
  OBVIOUS
<1>2. /\ t \in Tenant /\ t.exists = ts[w].exists /\ t.requiredAmount = ts[w].requiredAmount
      /\ t.fundedAmount = ts[w].fundedAmount /\ t.refundAmount = ts[w].refundAmount
      /\ t.openIndividualClaimAmount = ts[w].openIndividualClaimAmount
      /\ t.approvedIndividualClaims = ts[w].approvedIndividualClaims
      /\ t.cancelledFundingWithdrawnAmount = ts[w].cancelledFundingWithdrawnAmount
      /\ t.cancelledFundingWithdrawn = ts[w].cancelledFundingWithdrawn
      /\ t.refundWithdrawn = ts[w].refundWithdrawn
  BY <1>1 DEF Tenant
<1>3. us = [ts EXCEPT ![w] = t]
  BY DEF Accepts
<1> HIDE DEF t, us
<1>4. us \in [Wallets -> Tenant] /\ us[w] = t /\ \A v \in Wallets \ {w} : us[v] = ts[v]
  BY <1>2, <1>3
<1>5. ASSUME NEW v \in Wallets
      PROVE  /\ us[v].exists = ts[v].exists
             /\ TenantSound(g.status, us[v]) /\ Due(g, us[v], v) = Due(g, ts[v], v)
             /\ us[v].requiredAmount = ts[v].requiredAmount
             /\ us[v].fundedAmount = ts[v].fundedAmount
             /\ us[v].cancelledFundingWithdrawnAmount = ts[v].cancelledFundingWithdrawnAmount
             /\ us[v].approvedIndividualClaims = ts[v].approvedIndividualClaims
  <2>1. TenantSound(g.status, ts[v])
    BY DEF Sound
  <2>2. CASE v # w
    BY <1>4, <2>1, <2>2
  <2>3. CASE v = w
    BY <1>2, <1>4, <2>1, <2>3 DEF TenantSound, Due
  <2> QED BY <2>2, <2>3
<1>6. /\ Required(us) = Required(ts) /\ Funded(us) = Funded(ts)
      /\ Returned(us) = Returned(ts) /\ Deducted(us) = Deducted(ts)
      /\ Dues(g, us) = Dues(g, ts)
  BY <1>5 DEF Required, Funded, Returned, Deducted, Dues
<1>7. TotalsSound(g, us)
  BY <1>6 DEF Sound, TotalsSound
<1>8. ListSound(list, us)
  BY <1>5 DEF Sound, ListSound
<1>9. \A c \in ClaimIds : ClaimSound(g.claimCount, us, ks[c], c)
  BY <1>5 DEF Sound, ClaimSound
<1> QED BY <1>4, <1>5, <1>6, <1>7, <1>8, <1>9 DEF Sound, us

(* The recipient's acceptance.                                             *)
LEMMA RecipientSound ==
  ASSUME NEW g \in Agreement, NEW list, NEW ts \in [Wallets -> Tenant], NEW ks,
         Sound(g, list, ts, ks), NEW h, h = [g EXCEPT !.recipientAccepted = TRUE]
  PROVE  /\ h \in Agreement /\ h.status = g.status
         /\ Sound(h, list, ts, ks) /\ Dues(h, ts) = Dues(g, ts)
<1>1. /\ h \in Agreement /\ h.status = g.status
      /\ h.recipient = g.recipient /\ h.claimCount = g.claimCount
      /\ h.recipientPayoutWithdrawn = g.recipientPayoutWithdrawn
      /\ h.totalRequired = g.totalRequired /\ h.totalFunded = g.totalFunded
      /\ h.totalCancelledFundingWithdrawn = g.totalCancelledFundingWithdrawn
      /\ h.totalOpenClaimAmount = g.totalOpenClaimAmount
      /\ h.totalApprovedClaims = g.totalApprovedClaims
      /\ h.sharedApprovedClaims = g.sharedApprovedClaims
  BY DEF Agreement
<1>2. RecordSound(h) /\ TotalsSound(h, ts)
  BY <1>1 DEF Sound, RecordSound, TotalsSound
<1>3. Dues(h, ts) = Dues(g, ts)
  BY <1>1 DEF Dues, Due
<1> QED BY <1>1, <1>2, <1>3 DEF Sound

(* What funding by x (negative for the early withdrawal) asks for and      *)
(* leaves.                                                                 *)
Fundable(t, x) == 0 <= t.fundedAmount + x /\ t.fundedAmount + x <= t.requiredAmount
FundsTotal(g, x) == [g EXCEPT !.totalFunded = g.totalFunded + x]
FundsTenant(ts, w, x) ==
  [ts EXCEPT ![w] = [ts[w] EXCEPT !.fundedAmount = ts[w].fundedAmount + x]]

(* What a tenant put in changes by x while the funding is open.            *)
LEMMA FundingSound ==
  ASSUME NEW g \in Agreement, NEW list, NEW ts \in [Wallets -> Tenant], NEW ks,
         Sound(g, list, ts, ks), g.status = "FUNDING", NEW w \in Wallets, NEW x \in Int,
         Fundable(ts[w], x)
  PROVE  /\ FundsTotal(g, x) \in Agreement /\ FundsTotal(g, x).status = g.status
         /\ FundsTenant(ts, w, x) \in [Wallets -> Tenant]
         /\ Sound(FundsTotal(g, x), list, FundsTenant(ts, w, x), ks)
         /\ SumFunction(Dues(FundsTotal(g, x), FundsTenant(ts, w, x)))
              = SumFunction(Dues(g, ts)) + x
<1> DEFINE h == [g EXCEPT !.totalFunded = g.totalFunded + x]
           us == [ts EXCEPT ![w] = [ts[w] EXCEPT !.fundedAmount = ts[w].fundedAmount + x]]
           t == [ts[w] EXCEPT !.fundedAmount = ts[w].fundedAmount + x]
<1>0. FundsTotal(g, x) = h /\ FundsTenant(ts, w, x) = us
  BY DEF FundsTotal, FundsTenant
<1>1. ts[w] \in Tenant /\ ts[w].fundedAmount \in Int /\ g.totalFunded \in Int
  BY DEF Tenant, Agreement
<1>2. /\ t \in Tenant /\ t.exists = ts[w].exists /\ t.requiredAmount = ts[w].requiredAmount
      /\ t.fundedAmount = ts[w].fundedAmount + x /\ t.refundAmount = ts[w].refundAmount
      /\ t.openIndividualClaimAmount = ts[w].openIndividualClaimAmount
      /\ t.approvedIndividualClaims = ts[w].approvedIndividualClaims
      /\ t.cancelledFundingWithdrawnAmount = ts[w].cancelledFundingWithdrawnAmount
      /\ t.cancelledFundingWithdrawn = ts[w].cancelledFundingWithdrawn
      /\ t.refundWithdrawn = ts[w].refundWithdrawn
  BY <1>1 DEF Tenant
<1>3. us = [ts EXCEPT ![w] = t]
  OBVIOUS
<1> HIDE DEF t
<1>4. us \in [Wallets -> Tenant] /\ us[w] = t /\ \A v \in Wallets \ {w} : us[v] = ts[v]
  BY <1>2, <1>3
<1>5. /\ h \in Agreement /\ h.status = g.status
      /\ h.recipient = g.recipient /\ h.claimCount = g.claimCount
      /\ h.recipientPayoutWithdrawn = g.recipientPayoutWithdrawn
      /\ h.totalRequired = g.totalRequired /\ h.totalFunded = g.totalFunded + x
      /\ h.totalCancelledFundingWithdrawn = g.totalCancelledFundingWithdrawn
      /\ h.totalOpenClaimAmount = g.totalOpenClaimAmount
      /\ h.totalApprovedClaims = g.totalApprovedClaims
      /\ h.sharedApprovedClaims = g.sharedApprovedClaims
  BY <1>1 DEF Agreement
<1> HIDE DEF h, us
<1>6. TenantSound("FUNDING", ts[w])
  BY DEF Sound
<1>7. TenantSound(h.status, t)
  BY <1>1, <1>2, <1>5, <1>6 DEF TenantSound, HasClaims, Fundable
<1>8. \A v \in Wallets \ {w} : TenantSound(h.status, ts[v])
  BY <1>5 DEF Sound
<1>9. /\ g.totalCancelledFundingWithdrawn \in Int /\ g.totalApprovedClaims \in Int
      /\ g.sharedApprovedClaims \in Int /\ ts[w].cancelledFundingWithdrawnAmount \in Int
      /\ ts[w].approvedIndividualClaims \in Int
  BY <1>1 DEF Agreement, Tenant
<1>10. /\ h.totalFunded = g.totalFunded + (t.fundedAmount - ts[w].fundedAmount)
       /\ h.totalCancelledFundingWithdrawn = g.totalCancelledFundingWithdrawn
           + (t.cancelledFundingWithdrawnAmount - ts[w].cancelledFundingWithdrawnAmount)
       /\ h.totalApprovedClaims = g.totalApprovedClaims
           + (h.sharedApprovedClaims - g.sharedApprovedClaims)
           + (t.approvedIndividualClaims - ts[w].approvedIndividualClaims)
  BY <1>1, <1>2, <1>5, <1>9
<1>11. ListSound(list, ts) /\ TotalsSound(g, ts)
  BY DEF Sound
<1>12. /\ ListSound(list, us) /\ TotalsSound(h, us)
       /\ \A v \in Wallets : TenantSound(h.status, us[v])
  BY <1>2, <1>4, <1>5, <1>7, <1>8, <1>10, <1>11, TenantReplaced
<1>13. 0 <= h.totalFunded
  <2>1. \A v \in Wallets : Funded(us)[v] \in Nat
    <3>1. ASSUME NEW v \in Wallets
          PROVE  us[v].fundedAmount \in Nat
      <4>1. us[v].fundedAmount \in Int
        BY <1>4 DEF Tenant
      <4> QED BY <1>12, <4>1 DEF TenantSound
    <3> QED BY <3>1 DEF Funded
  <2>2. SumFunctionOnSet(Funded(us), Wallets) \in Nat
    BY <2>1, SumNat, ConstantsAssumption
  <2>3. Funded(us) \in [Wallets -> Int]
    BY <1>4, ColumnsTyped
  <2>4. SumFunction(Funded(us)) = SumFunctionOnSet(Funded(us), Wallets)
    BY <2>3, SumDomain
  <2> QED BY <1>12, <2>2, <2>4 DEF TotalsSound
<1>14. RecordSound(h)
  <2>1. RecordSound(g)
    BY DEF Sound
  <2> QED BY <1>5, <1>13, <2>1 DEF RecordSound, HasClaims
<1>15. \A c \in ClaimIds : ClaimSound(h.claimCount, us, ks[c], c)
  <2>1. \A v \in Wallets : us[v].exists = ts[v].exists
    BY <1>2, <1>4
  <2> QED BY <1>5, <2>1 DEF Sound, ClaimSound
<1>16. SumFunction(Dues(h, us)) = SumFunction(Dues(g, ts)) + x
  <2>1. Dues(h, us) = Dues(g, us)
    BY <1>5 DEF Dues, Due
  <2>2. SumFunction(Dues(g, us)) = SumFunction(Dues(g, ts))
                                     + (Due(g, us[w], w) - Due(g, ts[w], w))
    BY <1>4, DueReplaced
  <2>3. Due(g, us[w], w) = ts[w].fundedAmount + x /\ Due(g, ts[w], w) = ts[w].fundedAmount
    BY <1>1, <1>2, <1>4 DEF Due
  <2> QED BY <1>1, <2>1, <2>2, <2>3
<1> QED BY <1>0, <1>4, <1>5, <1>12, <1>14, <1>15, <1>16 DEF Sound

-----------------------------------------------------------------------------
(* Withdrawals                                                             *)

(* The records as withdrawCancelledFunding leaves them.                    *)
ReclaimsTotal(g, x) ==
  [g EXCEPT !.totalCancelledFundingWithdrawn = g.totalCancelledFundingWithdrawn + x]
Reclaims(ts, w, x) ==
  [ts EXCEPT ![w] = [ts[w] EXCEPT !.cancelledFundingWithdrawn = TRUE,
                                  !.cancelledFundingWithdrawnAmount = x]]

(* A tenant takes its funding out of a cancelled agreement.                *)
LEMMA CancelledPayoutSound ==
  ASSUME NEW g \in Agreement, NEW list, NEW ts \in [Wallets -> Tenant], NEW ks,
         Sound(g, list, ts, ks), g.status = "CANCELLED", NEW w \in Wallets,
         ~ ts[w].cancelledFundingWithdrawn, NEW x, x = ts[w].fundedAmount
  PROVE  /\ Sound(ReclaimsTotal(g, x), list, Reclaims(ts, w, x), ks)
         /\ SumFunction(Dues(ReclaimsTotal(g, x), Reclaims(ts, w, x)))
              = SumFunction(Dues(g, ts)) - x
<1> DEFINE h == [g EXCEPT !.totalCancelledFundingWithdrawn =
                            g.totalCancelledFundingWithdrawn + x]
           t == [ts[w] EXCEPT !.cancelledFundingWithdrawn = TRUE,
                              !.cancelledFundingWithdrawnAmount = x]
           us == [ts EXCEPT ![w] = [ts[w] EXCEPT !.cancelledFundingWithdrawn = TRUE,
                                                 !.cancelledFundingWithdrawnAmount = x]]
<1>0. ReclaimsTotal(g, x) = h /\ Reclaims(ts, w, x) = us
  BY DEF ReclaimsTotal, Reclaims
<1>1. ts[w] \in Tenant /\ x \in Int /\ g.totalCancelledFundingWithdrawn \in Int
  BY DEF Tenant, Agreement
<1>2. /\ t \in Tenant /\ t.exists = ts[w].exists /\ t.requiredAmount = ts[w].requiredAmount
      /\ t.fundedAmount = ts[w].fundedAmount /\ t.refundAmount = ts[w].refundAmount
      /\ t.openIndividualClaimAmount = ts[w].openIndividualClaimAmount
      /\ t.approvedIndividualClaims = ts[w].approvedIndividualClaims
      /\ t.cancelledFundingWithdrawnAmount = x
      /\ t.cancelledFundingWithdrawn = TRUE
      /\ t.refundWithdrawn = ts[w].refundWithdrawn
  <2>1. t \in Tenant
    BY <1>1, TenantUpdates
  <2> QED BY <1>1, <2>1 DEF Tenant
<1>3. us = [ts EXCEPT ![w] = t]
  OBVIOUS
<1> HIDE DEF t
<1>4. us \in [Wallets -> Tenant] /\ us[w] = t /\ \A v \in Wallets \ {w} : us[v] = ts[v]
  BY <1>2, <1>3
<1>5. /\ h \in Agreement /\ h.status = g.status
      /\ h.recipient = g.recipient /\ h.claimCount = g.claimCount
      /\ h.recipientPayoutWithdrawn = g.recipientPayoutWithdrawn
      /\ h.totalRequired = g.totalRequired /\ h.totalFunded = g.totalFunded
      /\ h.totalCancelledFundingWithdrawn = g.totalCancelledFundingWithdrawn + x
      /\ h.totalOpenClaimAmount = g.totalOpenClaimAmount
      /\ h.totalApprovedClaims = g.totalApprovedClaims
      /\ h.sharedApprovedClaims = g.sharedApprovedClaims
  BY <1>1 DEF Agreement
<1> HIDE DEF h, us
<1>6. TenantSound("CANCELLED", ts[w])
  BY DEF Sound
<1>7. ts[w].cancelledFundingWithdrawnAmount = 0 /\ TenantSound(h.status, t)
  BY <1>1, <1>2, <1>5, <1>6 DEF TenantSound, HasClaims
<1>8. \A v \in Wallets \ {w} : TenantSound(h.status, ts[v])
  BY <1>5 DEF Sound
<1>9. /\ g.totalFunded \in Int /\ g.totalApprovedClaims \in Int /\ g.sharedApprovedClaims \in Int
      /\ ts[w].approvedIndividualClaims \in Int
  BY <1>1 DEF Agreement, Tenant
<1>10. /\ h.totalFunded = g.totalFunded + (t.fundedAmount - ts[w].fundedAmount)
       /\ h.totalCancelledFundingWithdrawn = g.totalCancelledFundingWithdrawn
           + (t.cancelledFundingWithdrawnAmount - ts[w].cancelledFundingWithdrawnAmount)
       /\ h.totalApprovedClaims = g.totalApprovedClaims
           + (h.sharedApprovedClaims - g.sharedApprovedClaims)
           + (t.approvedIndividualClaims - ts[w].approvedIndividualClaims)
  BY <1>1, <1>2, <1>5, <1>7, <1>9
<1>11. ListSound(list, ts) /\ TotalsSound(g, ts)
  BY DEF Sound
<1>12. /\ ListSound(list, us) /\ TotalsSound(h, us)
       /\ \A v \in Wallets : TenantSound(h.status, us[v])
  BY <1>2, <1>4, <1>5, <1>7, <1>8, <1>10, <1>11, TenantReplaced
<1>13. RecordSound(h)
  BY <1>5 DEF Sound, RecordSound
<1>14. \A c \in ClaimIds : ClaimSound(h.claimCount, us, ks[c], c)
  <2>1. \A v \in Wallets : us[v].exists = ts[v].exists
    BY <1>2, <1>4
  <2> QED BY <1>5, <2>1 DEF Sound, ClaimSound
<1>15. SumFunction(Dues(h, us)) = SumFunction(Dues(g, ts)) - x
  <2>1. Dues(h, us) = Dues(g, us)
    BY <1>5 DEF Dues, Due
  <2>2. SumFunction(Dues(g, us)) = SumFunction(Dues(g, ts))
                                     + (Due(g, us[w], w) - Due(g, ts[w], w))
    BY <1>4, DueReplaced
  <2>3. Due(g, us[w], w) = 0 /\ Due(g, ts[w], w) = x
    BY <1>1, <1>2, <1>4 DEF Due
  <2>4. SumFunction(Dues(g, ts)) \in Int
    BY DuesTyped
  <2> QED BY <1>1, <2>1, <2>2, <2>3, <2>4
<1> QED BY <1>0, <1>5, <1>12, <1>13, <1>14, <1>15 DEF Sound

(* The tenants' records as withdrawTenantRefund leaves them.               *)
TakesRefund(ts, w) == [ts EXCEPT ![w] = [ts[w] EXCEPT !.refundWithdrawn = TRUE]]

(* A tenant takes its refund.                                              *)
LEMMA RefundSound ==
  ASSUME NEW g \in Agreement, NEW list, NEW ts \in [Wallets -> Tenant], NEW ks,
         Sound(g, list, ts, ks), g.status = "FINALIZED", NEW w \in Wallets,
         ~ ts[w].refundWithdrawn
  PROVE  /\ Sound(g, list, TakesRefund(ts, w), ks)
         /\ SumFunction(Dues(g, TakesRefund(ts, w)))
              = SumFunction(Dues(g, ts)) - ts[w].refundAmount
<1> DEFINE t == [ts[w] EXCEPT !.refundWithdrawn = TRUE]
           us == [ts EXCEPT ![w] = [ts[w] EXCEPT !.refundWithdrawn = TRUE]]
<1>0. TakesRefund(ts, w) = us
  BY DEF TakesRefund
<1>1. ts[w] \in Tenant
  OBVIOUS
<1>2. /\ t \in Tenant /\ t.exists = ts[w].exists /\ t.requiredAmount = ts[w].requiredAmount
      /\ t.fundedAmount = ts[w].fundedAmount /\ t.refundAmount = ts[w].refundAmount
      /\ t.openIndividualClaimAmount = ts[w].openIndividualClaimAmount
      /\ t.approvedIndividualClaims = ts[w].approvedIndividualClaims
      /\ t.cancelledFundingWithdrawnAmount = ts[w].cancelledFundingWithdrawnAmount
      /\ t.cancelledFundingWithdrawn = ts[w].cancelledFundingWithdrawn
      /\ t.refundWithdrawn = TRUE
  BY <1>1 DEF Tenant
<1>3. us = [ts EXCEPT ![w] = t]
  OBVIOUS
<1> HIDE DEF t
<1>4. us \in [Wallets -> Tenant] /\ us[w] = t /\ \A v \in Wallets \ {w} : us[v] = ts[v]
  BY <1>2, <1>3
<1> HIDE DEF us
<1>5. ASSUME NEW v \in Wallets
      PROVE  /\ us[v].exists = ts[v].exists /\ TenantSound(g.status, us[v])
             /\ us[v].requiredAmount = ts[v].requiredAmount
             /\ us[v].fundedAmount = ts[v].fundedAmount
             /\ us[v].cancelledFundingWithdrawnAmount = ts[v].cancelledFundingWithdrawnAmount
             /\ us[v].approvedIndividualClaims = ts[v].approvedIndividualClaims
  <2>1. TenantSound("FINALIZED", ts[v])
    BY DEF Sound
  <2>2. CASE v # w
    BY <1>4, <2>1, <2>2
  <2>3. CASE v = w
    BY <1>2, <1>4, <2>1, <2>3 DEF TenantSound
  <2> QED BY <2>2, <2>3
<1>6. TotalsSound(g, us)
  <2>1. /\ Required(us) = Required(ts) /\ Funded(us) = Funded(ts)
        /\ Returned(us) = Returned(ts) /\ Deducted(us) = Deducted(ts)
    BY <1>5 DEF Required, Funded, Returned, Deducted
  <2> QED BY <2>1 DEF Sound, TotalsSound
<1>7. ListSound(list, us)
  BY <1>5 DEF Sound, ListSound
<1>8. \A c \in ClaimIds : ClaimSound(g.claimCount, us, ks[c], c)
  BY <1>5 DEF Sound, ClaimSound
<1>9. SumFunction(Dues(g, us)) = SumFunction(Dues(g, ts)) - ts[w].refundAmount
  <2>1. SumFunction(Dues(g, us)) = SumFunction(Dues(g, ts))
                                     + (Due(g, us[w], w) - Due(g, ts[w], w))
    BY <1>4, DueReplaced
  <2>2. ts[w].refundAmount \in Int /\ g.totalApprovedClaims \in Int
    BY <1>1 DEF Tenant, Agreement
  <2>3. Due(g, us[w], w) - Due(g, ts[w], w) = 0 - ts[w].refundAmount
    BY <1>2, <1>4, <2>2 DEF Due
  <2>4. SumFunction(Dues(g, ts)) \in Int
    BY DuesTyped
  <2> QED BY <2>1, <2>2, <2>3, <2>4
<1> QED BY <1>0, <1>5, <1>6, <1>7, <1>8, <1>9 DEF Sound

(* The agreement's record as withdrawRecipientPayout leaves it.            *)
TakesPayout(g) == [g EXCEPT !.recipientPayoutWithdrawn = TRUE]

(* The recipient takes the approved claims.                                *)
LEMMA PayoutSound ==
  ASSUME NEW g \in Agreement, NEW list, NEW ts \in [Wallets -> Tenant], NEW ks,
         Sound(g, list, ts, ks), g.status = "FINALIZED", ~ g.recipientPayoutWithdrawn
  PROVE  /\ Sound(TakesPayout(g), list, ts, ks)
         /\ SumFunction(Dues(TakesPayout(g), ts))
              = SumFunction(Dues(g, ts)) - g.totalApprovedClaims
<1> DEFINE h == [g EXCEPT !.recipientPayoutWithdrawn = TRUE]
           w == g.recipient
<1>0. TakesPayout(g) = h
  BY DEF TakesPayout
<1>1. /\ h \in Agreement /\ h.status = g.status
      /\ h.recipient = g.recipient /\ h.claimCount = g.claimCount
      /\ h.recipientPayoutWithdrawn = TRUE
      /\ h.totalRequired = g.totalRequired /\ h.totalFunded = g.totalFunded
      /\ h.totalCancelledFundingWithdrawn = g.totalCancelledFundingWithdrawn
      /\ h.totalOpenClaimAmount = g.totalOpenClaimAmount
      /\ h.totalApprovedClaims = g.totalApprovedClaims
      /\ h.sharedApprovedClaims = g.sharedApprovedClaims
  BY DEF Agreement
<1> HIDE DEF h
<1>2. RecordSound(h) /\ TotalsSound(h, ts)
  BY <1>1 DEF Sound, RecordSound, TotalsSound
<1>3. w \in Wallets
  BY DEF Sound, RecordSound
<1>4. Dues(g, ts) \in [Wallets -> Int] /\ Dues(h, ts) \in [Wallets -> Int]
  BY <1>1, DuesTyped
<1>5. ASSUME NEW v \in Wallets \ {w}
      PROVE  Dues(h, ts)[v] = Dues(g, ts)[v]
  BY <1>1, <1>5 DEF Dues, Due
<1>6. SumFunction(Dues(h, ts)) = SumFunction(Dues(g, ts)) + (Dues(h, ts)[w] - Dues(g, ts)[w])
  <2> HIDE DEF w
  <2> QED BY <1>3, <1>4, <1>5, EntryReplaced, ConstantsAssumption
<1>7. Dues(h, ts)[w] - Dues(g, ts)[w] = 0 - g.totalApprovedClaims
  <2>1. ts[w] \in Tenant
    BY <1>3
  <2>2. ts[w].refundAmount \in Int /\ g.totalApprovedClaims \in Int
    BY <2>1 DEF Tenant, Agreement
  <2> QED BY <1>1, <1>3, <2>2 DEF Dues, Due
<1>8. g.totalApprovedClaims \in Int /\ SumFunction(Dues(g, ts)) \in Int
  BY DuesTyped DEF Agreement
<1> QED BY <1>0, <1>1, <1>2, <1>6, <1>7, <1>8 DEF Sound

-----------------------------------------------------------------------------
(* Claims                                                                  *)

(* Everything of a tenant's record but its claims is as before.            *)
SameStake(t, u) ==
  /\ u.exists = t.exists /\ u.requiredAmount = t.requiredAmount
  /\ u.fundedAmount = t.fundedAmount /\ u.refundAmount = t.refundAmount
  /\ u.cancelledFundingWithdrawn = t.cancelledFundingWithdrawn
  /\ u.cancelledFundingWithdrawnAmount = t.cancelledFundingWithdrawnAmount
  /\ u.refundWithdrawn = t.refundWithdrawn

(* Everything of an agreement's record but its claims is as before.        *)
SameFunding(g, h) ==
  /\ h.status = g.status /\ h.recipient = g.recipient
  /\ h.recipientPayoutWithdrawn = g.recipientPayoutWithdrawn
  /\ h.totalRequired = g.totalRequired /\ h.totalFunded = g.totalFunded
  /\ h.totalCancelledFundingWithdrawn = g.totalCancelledFundingWithdrawn

(* What all the steps on one claim of an active agreement have in common:  *)
(* they touch one claim, the claim columns of one tenant and the claim     *)
(* totals, and none of what is due.                                        *)
LEMMA ClaimStepSound ==
  ASSUME NEW g \in Agreement, NEW h \in Agreement, NEW list,
         NEW ts \in [Wallets -> Tenant], NEW us \in [Wallets -> Tenant],
         NEW ks \in [ClaimIds -> Claim], NEW ls \in [ClaimIds -> Claim],
         Sound(g, list, ts, ks), g.status = "ACTIVE", SameFunding(g, h),
         0 <= h.sharedApprovedClaims,
         h.totalOpenClaimAmount + h.totalApprovedClaims <= h.totalFunded,
         NEW w \in Wallets, \A v \in Wallets \ {w} : us[v] = ts[v],
         SameStake(ts[w], us[w]),
         us[w].openIndividualClaimAmount + us[w].approvedIndividualClaims <= us[w].fundedAmount,
         ~ us[w].exists => us[w].approvedIndividualClaims = 0,
         h.totalApprovedClaims = g.totalApprovedClaims
           + (h.sharedApprovedClaims - g.sharedApprovedClaims)
           + (us[w].approvedIndividualClaims - ts[w].approvedIndividualClaims),
         NEW c \in ClaimIds, \A d \in ClaimIds \ {c} : ls[d] = ks[d],
         ClaimSound(h.claimCount, us, ls[c], c), g.claimCount <= h.claimCount,
         h.totalOpenClaimAmount = g.totalOpenClaimAmount + (Reserved(ls[c]) - Reserved(ks[c]))
  PROVE  Sound(h, list, us, ls) /\ SumFunction(Dues(h, us)) = SumFunction(Dues(g, ts))
<1>1. us[w] \in Tenant /\ ts[w] \in Tenant /\ ls[c] \in Claim
  OBVIOUS
<1> USE DEF SameStake, SameFunding
<1>2. RecordSound(h)
  BY DEF Sound, RecordSound, HasClaims
<1>3. TenantSound("ACTIVE", ts[w])
  BY DEF Sound
<1>4. TenantSound(h.status, us[w])
  BY <1>3 DEF TenantSound, HasClaims
<1>5. \A v \in Wallets \ {w} : TenantSound(h.status, ts[v])
  BY DEF Sound
<1>6. ListSound(list, ts) /\ TotalsSound(g, ts)
  BY DEF Sound
<1>7. /\ g.totalFunded \in Int /\ g.totalCancelledFundingWithdrawn \in Int
      /\ ts[w].fundedAmount \in Int /\ ts[w].cancelledFundingWithdrawnAmount \in Int
  BY <1>1 DEF Agreement, Tenant
<1>8. /\ h.totalFunded = g.totalFunded + (us[w].fundedAmount - ts[w].fundedAmount)
      /\ h.totalCancelledFundingWithdrawn = g.totalCancelledFundingWithdrawn
           + (us[w].cancelledFundingWithdrawnAmount - ts[w].cancelledFundingWithdrawnAmount)
  BY <1>7
<1>9. /\ ListSound(list, us) /\ TotalsSound(h, us)
      /\ \A v \in Wallets : TenantSound(h.status, us[v])
  BY <1>4, <1>5, <1>6, <1>8, TenantReplaced
<1>10. ASSUME NEW d \in ClaimIds
       PROVE  ClaimSound(h.claimCount, us, ls[d], d)
  <2>1. CASE d = c
    BY <2>1
  <2>2. CASE d # c
    <3>1. ls[d] = ks[d] /\ ClaimSound(g.claimCount, ts, ks[d], d)
      BY <2>2 DEF Sound
    <3>2. \A v \in Wallets : us[v].exists = ts[v].exists
      OBVIOUS
    <3>3. g.claimCount \in Int /\ h.claimCount \in Int /\ d \in Int
      BY ConstantsAssumption DEF Agreement, ClaimIds
    <3> QED BY <3>1, <3>2, <3>3 DEF ClaimSound
  <2> QED BY <2>1, <2>2
<1>11. h.totalOpenClaimAmount = SumFunction(Open(ls))
  <2>1. ls = [ks EXCEPT ![c] = ls[c]]
    OBVIOUS
  <2>2. /\ SumFunction(Open(ks)) \in Int
        /\ SumFunction(Open(ls)) = SumFunction(Open(ks)) + (Reserved(ls[c]) - Reserved(ks[c]))
    BY <1>1, <2>1, ClaimReplaced
  <2>3. g.totalOpenClaimAmount = SumFunction(Open(ks))
    BY DEF Sound
  <2> QED BY <2>2, <2>3
<1>12. Dues(h, us) = Dues(g, ts)
  <2>1. ASSUME NEW v \in Wallets
        PROVE  us[v].fundedAmount = ts[v].fundedAmount
    OBVIOUS
  <2>2. \A v \in Wallets : Due(h, us[v], v) = Due(g, ts[v], v)
    BY <2>1 DEF Due
  <2> QED BY <2>2 DEF Dues
<1> QED BY <1>2, <1>9, <1>10, <1>11, <1>12 DEF Sound

(* A tenant's record after a reservation changes, field by field.          *)
LEMMA ReservationFields ==
  ASSUME NEW r \in Tenant, NEW y \in Int
  PROVE  LET t == [r EXCEPT !.openIndividualClaimAmount = y]
         IN  /\ t \in Tenant /\ t.openIndividualClaimAmount = y
             /\ t.approvedIndividualClaims = r.approvedIndividualClaims
             /\ SameStake(r, t)
BY DEF Tenant, SameStake

(* And after the reservation has become a deduction.                       *)
LEMMA DeductionFields ==
  ASSUME NEW r \in Tenant, NEW y \in Int, NEW z \in Int
  PROVE  LET t == [r EXCEPT !.openIndividualClaimAmount = y, !.approvedIndividualClaims = z]
         IN  /\ t \in Tenant /\ t.openIndividualClaimAmount = y
             /\ t.approvedIndividualClaims = z
             /\ SameStake(r, t)
<1>1. [r EXCEPT !.openIndividualClaimAmount = y] \in Tenant
  BY DEF Tenant
<1>2. \A s \in Tenant : [s EXCEPT !.approvedIndividualClaims = z] \in Tenant
  BY DEF Tenant
<1>3. [r EXCEPT !.openIndividualClaimAmount = y, !.approvedIndividualClaims = z] \in Tenant
  BY <1>1, <1>2
<1> QED BY <1>3 DEF Tenant, SameStake

(* The records as submitClaim leaves them.                                 *)
ReservesTotal(g, x) ==
  [g EXCEPT !.claimCount = g.claimCount + 1,
            !.unresolvedClaimCount = g.unresolvedClaimCount + 1,
            !.totalOpenClaimAmount = g.totalOpenClaimAmount + x]
Reserves(ts, w, x) ==
  [ts EXCEPT ![w] = [ts[w] EXCEPT !.openIndividualClaimAmount =
                                    ts[w].openIndividualClaimAmount + x]]
Lists(ks, c, k) == [ks EXCEPT ![c] = k]

(* A new claim, once both reservations have been checked.                  *)
LEMMA SubmissionSound ==
  ASSUME NEW g \in Agreement, NEW list, NEW ts \in [Wallets -> Tenant],
         NEW ks \in [ClaimIds -> Claim], Sound(g, list, ts, ks), g.status = "ACTIVE",
         g.claimCount + 1 \in ClaimIds, NEW x \in Nat, FitsDeposit(g, x),
         NEW k \in Claim, k.status = "PENDING", k.amount = x
  PROVE  /\ k.claimType = "SHARED" =>
              /\ Sound(ReservesTotal(g, x), list, ts, Lists(ks, g.claimCount + 1, k))
              /\ SumFunction(Dues(ReservesTotal(g, x), ts)) = SumFunction(Dues(g, ts))
         /\ \A w \in Wallets :
              ts[w].exists /\ FitsTenant(ts[w], x) /\ k.liableTenant = w =>
                /\ Sound(ReservesTotal(g, x), list, Reserves(ts, w, x),
                         Lists(ks, g.claimCount + 1, k))
                /\ SumFunction(Dues(ReservesTotal(g, x), Reserves(ts, w, x)))
                     = SumFunction(Dues(g, ts))
<1> DEFINE c == g.claimCount + 1
           u == g.unresolvedClaimCount + 1
           o == g.totalOpenClaimAmount + x
           h == [g EXCEPT !.claimCount = c, !.unresolvedClaimCount = u,
                          !.totalOpenClaimAmount = o]
           ls == [ks EXCEPT ![c] = k]
<1>0. ReservesTotal(g, x) = h /\ Lists(ks, g.claimCount + 1, k) = ls
  BY DEF ReservesTotal, Lists
<1>1. /\ g.claimCount \in Nat /\ c \in 0 .. MAX_CLAIMS /\ u \in Int /\ o \in Int
      /\ g.totalOpenClaimAmount \in Int /\ g.totalApprovedClaims \in Int
      /\ g.sharedApprovedClaims \in Int /\ g.totalFunded \in Int
  <2>1. /\ g.claimCount \in 0 .. MAX_CLAIMS /\ g.unresolvedClaimCount \in Int
        /\ g.totalOpenClaimAmount \in Int /\ g.totalApprovedClaims \in Int
        /\ g.sharedApprovedClaims \in Int /\ g.totalFunded \in Int
    BY DEF Agreement
  <2> QED BY <2>1, ConstantsAssumption DEF ClaimIds
<1>2. c \in ClaimIds
  OBVIOUS
<1> HIDE DEF c, u, o
<1>3. /\ h \in Agreement /\ SameFunding(g, h)
      /\ h.totalApprovedClaims = g.totalApprovedClaims
      /\ h.sharedApprovedClaims = g.sharedApprovedClaims
      /\ h.claimCount = c /\ h.totalOpenClaimAmount = g.totalOpenClaimAmount + x
  <2>1. [g EXCEPT !.claimCount = c] \in Agreement
    BY <1>1, AgreementFields
  <2>2. [g EXCEPT !.claimCount = c, !.unresolvedClaimCount = u] \in Agreement
    BY <1>1, <2>1, AgreementFields
  <2>3. h \in Agreement
    BY <1>1, <2>2, AgreementFields
  <2>4. /\ SameFunding(g, h) /\ h.totalApprovedClaims = g.totalApprovedClaims
        /\ h.sharedApprovedClaims = g.sharedApprovedClaims
        /\ h.claimCount = c /\ h.totalOpenClaimAmount = o
    BY <2>3 DEF Agreement, SameFunding
  <2> QED BY <2>3, <2>4 DEF o
<1>4. ls \in [ClaimIds -> Claim] /\ ls[c] = k /\ \A d \in ClaimIds \ {c} : ls[d] = ks[d]
  BY <1>2
<1> HIDE DEF h, ls
<1>5. g.claimCount <= h.claimCount /\ ~ (c > h.claimCount) /\ c > g.claimCount
  BY <1>1, <1>3 DEF c
<1>6. Reserved(ks[c]) = 0 /\ Reserved(ls[c]) = x
  <2>1. ks[c].status = "NONE"
    BY <1>2, <1>5 DEF Sound, ClaimSound
  <2> QED BY <1>4, <2>1 DEF Reserved
<1>7. /\ h.totalOpenClaimAmount = g.totalOpenClaimAmount + (Reserved(ls[c]) - Reserved(ks[c]))
      /\ h.totalOpenClaimAmount + h.totalApprovedClaims <= h.totalFunded
      /\ 0 <= h.sharedApprovedClaims
  <2>1. 0 <= g.sharedApprovedClaims
    BY DEF Sound, RecordSound
  <2> QED BY <1>1, <1>3, <1>6, <2>1 DEF FitsDeposit, SameFunding
<1>8. ASSUME k.claimType = "SHARED"
      PROVE  Sound(h, list, ts, ls) /\ SumFunction(Dues(h, ts)) = SumFunction(Dues(g, ts))
  <2> DEFINE w == g.recipient
  <2>1. w \in Wallets
    BY DEF Sound, RecordSound
  <2> HIDE DEF w
  <2>2. TenantSound("ACTIVE", ts[w])
    BY <2>1 DEF Sound
  <2>3. ts[w] \in Tenant
    BY <2>1
  <2>4. /\ h.totalApprovedClaims = g.totalApprovedClaims
             + (h.sharedApprovedClaims - g.sharedApprovedClaims)
             + (ts[w].approvedIndividualClaims - ts[w].approvedIndividualClaims)
        /\ ts[w].openIndividualClaimAmount + ts[w].approvedIndividualClaims <= ts[w].fundedAmount
        /\ ~ ts[w].exists => ts[w].approvedIndividualClaims = 0
    BY <1>1, <1>3, <2>2, <2>3 DEF TenantSound, Tenant
  <2>5. ClaimSound(h.claimCount, ts, ls[c], c)
    BY <1>4, <1>5, <1>8 DEF ClaimSound
  <2>6. SameStake(ts[w], ts[w])
    BY DEF SameStake
  <2>7. PICK us \in [Wallets -> Tenant] : us = ts
    OBVIOUS
  <2>8. /\ us \in [Wallets -> Tenant] /\ \A v \in Wallets \ {w} : us[v] = ts[v]
        /\ SameStake(ts[w], us[w])
        /\ us[w].openIndividualClaimAmount + us[w].approvedIndividualClaims <= us[w].fundedAmount
        /\ ~ us[w].exists => us[w].approvedIndividualClaims = 0
        /\ h.totalApprovedClaims = g.totalApprovedClaims
             + (h.sharedApprovedClaims - g.sharedApprovedClaims)
             + (us[w].approvedIndividualClaims - ts[w].approvedIndividualClaims)
        /\ ClaimSound(h.claimCount, us, ls[c], c)
    BY <2>4, <2>5, <2>6, <2>7
  <2>9. Sound(h, list, us, ls) /\ SumFunction(Dues(h, us)) = SumFunction(Dues(g, ts))
    BY <1>2, <1>3, <1>4, <1>5, <1>7, <2>1, <2>8, ClaimStepSound
  <2> QED BY <2>7, <2>9
<1>9. ASSUME NEW w \in Wallets, ts[w].exists, FitsTenant(ts[w], x), k.liableTenant = w
      PROVE  /\ Sound(h, list, Reserves(ts, w, x), ls)
             /\ SumFunction(Dues(h, Reserves(ts, w, x))) = SumFunction(Dues(g, ts))
  <2> DEFINE y == ts[w].openIndividualClaimAmount + x
             t == [ts[w] EXCEPT !.openIndividualClaimAmount = y]
             us == [ts EXCEPT ![w] = [ts[w] EXCEPT !.openIndividualClaimAmount = y]]
  <2>0. Reserves(ts, w, x) = us
    BY DEF Reserves
  <2>1. ts[w] \in Tenant /\ y \in Int /\ ts[w].approvedIndividualClaims \in Int
    BY DEF Tenant
  <2>2. /\ t \in Tenant /\ t.openIndividualClaimAmount = y
        /\ t.approvedIndividualClaims = ts[w].approvedIndividualClaims
        /\ SameStake(ts[w], t)
    <3> HIDE DEF y
    <3> QED BY <2>1, ReservationFields
  <2>3. us = [ts EXCEPT ![w] = t]
    OBVIOUS
  <2> HIDE DEF t
  <2>4. us \in [Wallets -> Tenant] /\ us[w] = t /\ \A v \in Wallets \ {w} : us[v] = ts[v]
    BY <2>2, <2>3
  <2> HIDE DEF us, y
  <2>5. /\ SameStake(ts[w], us[w]) /\ us[w].exists
        /\ us[w].approvedIndividualClaims = ts[w].approvedIndividualClaims
        /\ us[w].openIndividualClaimAmount = y
    BY <1>9, <2>2, <2>4 DEF SameStake
  <2>6. us[w].openIndividualClaimAmount + us[w].approvedIndividualClaims <= us[w].fundedAmount
    BY <1>9, <2>1, <2>5 DEF FitsTenant, Tenant, SameStake, y
  <2>7. h.totalApprovedClaims = g.totalApprovedClaims
          + (h.sharedApprovedClaims - g.sharedApprovedClaims)
          + (us[w].approvedIndividualClaims - ts[w].approvedIndividualClaims)
    BY <1>1, <1>3, <2>1, <2>5
  <2>8. ClaimSound(h.claimCount, us, ls[c], c)
    BY <1>4, <1>5, <1>9, <2>5 DEF ClaimSound
  <2>9. Sound(h, list, us, ls) /\ SumFunction(Dues(h, us)) = SumFunction(Dues(g, ts))
    <3>1. /\ \A v \in Wallets \ {w} : us[v] = ts[v]
          /\ us \in [Wallets -> Tenant]
      BY <2>4
    <3> QED BY <1>2, <1>3, <1>4, <1>5, <1>7, <3>1, <2>5, <2>6, <2>7, <2>8, ClaimStepSound
  <2> QED BY <2>0, <2>9
<1> QED BY <1>0, <1>8, <1>9

(* The terms of a claim are as before: only its votes may differ.          *)
SameTerms(k, l) ==
  /\ l.status = k.status /\ l.amount = k.amount
  /\ l.claimType = k.claimType /\ l.liableTenant = k.liableTenant

(* What a released reservation does to the tenants' records.               *)
LEMMA ReleaseRow ==
  ASSUME NEW ts \in [Wallets -> Tenant], NEW k \in Claim, 0 <= k.amount,
         k.claimType = "INDIVIDUAL" => k.liableTenant \in Wallets, NEW r \in Wallets
  PROVE  \E w \in Wallets :
           /\ \A v \in Wallets \ {w} : Releases(ts, k)[v] = ts[v]
           /\ SameStake(ts[w], Releases(ts, k)[w])
           /\ Releases(ts, k)[w].approvedIndividualClaims = ts[w].approvedIndividualClaims
           /\ Releases(ts, k)[w].openIndividualClaimAmount <= ts[w].openIndividualClaimAmount
<1>1. CASE k.claimType # "INDIVIDUAL"
  <2>1. Releases(ts, k) = ts
    BY <1>1 DEF Releases
  <2>2. ts[r] \in Tenant
    OBVIOUS
  <2>3. ts[r].openIndividualClaimAmount \in Int
    BY <2>2 DEF Tenant
  <2> QED BY <2>1, <2>3 DEF SameStake
<1>2. CASE k.claimType = "INDIVIDUAL"
  <2> DEFINE w == k.liableTenant
             y == ts[w].openIndividualClaimAmount - k.amount
             t == [ts[w] EXCEPT !.openIndividualClaimAmount = y]
  <2>1. w \in Wallets /\ ts[w] \in Tenant
    BY <1>2
  <2>2. ts[w].openIndividualClaimAmount \in Int /\ k.amount \in Int
    BY <2>1, ClaimUpdates DEF Tenant
  <2>3. y \in Int /\ y <= ts[w].openIndividualClaimAmount
    BY <2>2
  <2>4. Releases(ts, k) = [ts EXCEPT ![w] = t]
    BY <1>2, <2>1 DEF Releases
  <2> HIDE DEF y
  <2>5. /\ t \in Tenant /\ t.openIndividualClaimAmount = y /\ SameStake(ts[w], t)
        /\ t.approvedIndividualClaims = ts[w].approvedIndividualClaims
    BY <2>1, <2>3, ReservationFields
  <2> HIDE DEF t, w
  <2>6. Releases(ts, k)[w] = t /\ \A v \in Wallets \ {w} : Releases(ts, k)[v] = ts[v]
    BY <2>1, <2>4
  <2> QED BY <2>1, <2>3, <2>5, <2>6
<1> QED BY <1>1, <1>2

(* The records as a rejected or withdrawn claim leaves them.               *)
DismissesTotal(g, k) ==
  [g EXCEPT !.unresolvedClaimCount = g.unresolvedClaimCount - 1,
            !.totalOpenClaimAmount = g.totalOpenClaimAmount - k.amount]
Resolved(k, status) == [k EXCEPT !.status = status]

(* A pending claim leaves without approval.                                *)
LEMMA DismissalSound ==
  ASSUME NEW g \in Agreement, NEW list, NEW ts \in [Wallets -> Tenant],
         NEW ks \in [ClaimIds -> Claim], Sound(g, list, ts, ks), g.status = "ACTIVE",
         NEW c \in ClaimIds, ks[c].status = "PENDING",
         NEW k \in Claim, SameTerms(ks[c], k), NEW status \in {"REJECTED", "WITHDRAWN"}
  PROVE  /\ Sound(DismissesTotal(g, k), list, Releases(ts, k),
                  Lists(ks, c, Resolved(k, status)))
         /\ SumFunction(Dues(DismissesTotal(g, k), Releases(ts, k)))
              = SumFunction(Dues(g, ts))
<1> DEFINE u == g.unresolvedClaimCount - 1
           o == g.totalOpenClaimAmount - k.amount
           h == [g EXCEPT !.unresolvedClaimCount = u, !.totalOpenClaimAmount = o]
           l == [k EXCEPT !.status = status]
           ls == [ks EXCEPT ![c] = [k EXCEPT !.status = status]]
           us == Releases(ts, k)
<1>0. DismissesTotal(g, k) = h /\ Lists(ks, c, Resolved(k, status)) = ls
  BY DEF DismissesTotal, Lists, Resolved
<1>1. /\ g.unresolvedClaimCount \in Int /\ g.totalOpenClaimAmount \in Int
      /\ g.totalApprovedClaims \in Int /\ g.sharedApprovedClaims \in Int
      /\ g.totalFunded \in Int /\ g.claimCount \in Int /\ k.amount \in Int
  <2>1. g.claimCount \in Int
    BY ConstantsAssumption DEF Agreement
  <2> QED BY <2>1, AgreementFields, ClaimUpdates
<1>2. u \in Int /\ o \in Int
  BY <1>1
<1> HIDE DEF u, o
<1>3. /\ h \in Agreement /\ SameFunding(g, h) /\ h.totalApprovedClaims = g.totalApprovedClaims
      /\ h.sharedApprovedClaims = g.sharedApprovedClaims
      /\ h.claimCount = g.claimCount /\ h.totalOpenClaimAmount = o
  <2>1. [g EXCEPT !.unresolvedClaimCount = u] \in Agreement
    BY <1>2, AgreementFields
  <2>2. h \in Agreement
    BY <1>2, <2>1, AgreementFields
  <2> QED BY <2>2 DEF Agreement, SameFunding
<1>4. /\ l \in Claim /\ l.status = status /\ l.amount = k.amount
      /\ l.claimType = k.claimType /\ l.liableTenant = k.liableTenant
  BY DEF Claim, ClaimStatus
<1>5. ls = [ks EXCEPT ![c] = l]
  OBVIOUS
<1> HIDE DEF l
<1>6. ls \in [ClaimIds -> Claim] /\ ls[c] = l /\ \A d \in ClaimIds \ {c} : ls[d] = ks[d]
  BY <1>4, <1>5
<1> HIDE DEF h, ls
<1>7. ClaimSound(g.claimCount, ts, ks[c], c) /\ ks[c].status # "NONE"
  BY DEF Sound
<1>8. /\ 0 <= k.amount /\ ~ (c > g.claimCount)
      /\ k.claimType = "INDIVIDUAL" => k.liableTenant \in Wallets /\ ts[k.liableTenant].exists
  BY <1>7 DEF ClaimSound, SameTerms
<1>9. us \in [Wallets -> Tenant]
  BY ReleasesTyped
<1> HIDE DEF us
<1>10. g.recipient \in Wallets
  BY DEF Sound, RecordSound
<1>11. PICK w \in Wallets :
         /\ \A v \in Wallets \ {w} : us[v] = ts[v]
         /\ SameStake(ts[w], us[w])
         /\ us[w].approvedIndividualClaims = ts[w].approvedIndividualClaims
         /\ us[w].openIndividualClaimAmount <= ts[w].openIndividualClaimAmount
  BY <1>8, <1>10, ReleaseRow DEF us
<1>12. TenantSound("ACTIVE", ts[w]) /\ ts[w] \in Tenant /\ us[w] \in Tenant
  BY <1>9 DEF Sound
<1>13. /\ us[w].openIndividualClaimAmount + us[w].approvedIndividualClaims <= us[w].fundedAmount
       /\ ~ us[w].exists => us[w].approvedIndividualClaims = 0
  BY <1>11, <1>12 DEF TenantSound, SameStake, Tenant
<1>14. h.totalApprovedClaims = g.totalApprovedClaims
          + (h.sharedApprovedClaims - g.sharedApprovedClaims)
          + (us[w].approvedIndividualClaims - ts[w].approvedIndividualClaims)
  <2>1. ts[w].approvedIndividualClaims \in Int
    BY <1>12 DEF Tenant
  <2> QED BY <1>1, <1>3, <1>11, <2>1
<1>15. ClaimSound(h.claimCount, us, ls[c], c)
  <2>1. \A v \in Wallets : us[v].exists = ts[v].exists
    BY <1>11 DEF SameStake
  <2> QED BY <1>3, <1>4, <1>6, <1>8, <2>1 DEF ClaimSound
<1>16. Reserved(ks[c]) = k.amount /\ Reserved(ls[c]) = 0
  BY <1>4, <1>6 DEF Reserved, SameTerms
<1>17. RecordSound(g)
  BY DEF Sound
<1>18. /\ h.totalOpenClaimAmount = g.totalOpenClaimAmount + (Reserved(ls[c]) - Reserved(ks[c]))
       /\ h.totalOpenClaimAmount + h.totalApprovedClaims <= h.totalFunded
       /\ 0 <= h.sharedApprovedClaims /\ g.claimCount <= h.claimCount
  BY <1>1, <1>3, <1>8, <1>16, <1>17 DEF RecordSound, SameFunding, o
<1>19. Sound(h, list, us, ls) /\ SumFunction(Dues(h, us)) = SumFunction(Dues(g, ts))
  BY <1>3, <1>6, <1>9, <1>11, <1>13, <1>14, <1>15, <1>18, ClaimStepSound
<1> QED BY <1>0, <1>19 DEF us

(* What an approved individual claim does to its tenant's record.          *)
Deducts(ts, k) ==
  IF k.claimType = "INDIVIDUAL"
  THEN [ts EXCEPT ![k.liableTenant] =
          [ts[k.liableTenant] EXCEPT
             !.openIndividualClaimAmount = ts[k.liableTenant].openIndividualClaimAmount - k.amount,
             !.approvedIndividualClaims = ts[k.liableTenant].approvedIndividualClaims + k.amount]]
  ELSE ts

(* It moves the amount from the one column of that tenant to the other.    *)
LEMMA DeductRow ==
  ASSUME NEW ts \in [Wallets -> Tenant], NEW k \in Claim,
         k.claimType = "INDIVIDUAL" => k.liableTenant \in Wallets /\ ts[k.liableTenant].exists,
         NEW r \in Wallets
  PROVE  /\ Deducts(ts, k) \in [Wallets -> Tenant]
         /\ \E w \in Wallets :
              /\ \A v \in Wallets \ {w} : Deducts(ts, k)[v] = ts[v]
              /\ SameStake(ts[w], Deducts(ts, k)[w])
              /\ Deducts(ts, k)[w].approvedIndividualClaims
                   = ts[w].approvedIndividualClaims
                     + (IF k.claimType = "INDIVIDUAL" THEN k.amount ELSE 0)
              /\ Deducts(ts, k)[w].openIndividualClaimAmount
                   = ts[w].openIndividualClaimAmount
                     - (IF k.claimType = "INDIVIDUAL" THEN k.amount ELSE 0)
              /\ k.claimType = "INDIVIDUAL" => ts[w].exists
<1>1. CASE k.claimType # "INDIVIDUAL"
  <2>1. Deducts(ts, k) = ts
    BY <1>1 DEF Deducts
  <2>2. ts[r] \in Tenant
    OBVIOUS
  <2>3. ts[r].openIndividualClaimAmount \in Int /\ ts[r].approvedIndividualClaims \in Int
    BY <2>2 DEF Tenant
  <2> QED BY <1>1, <2>1, <2>3 DEF SameStake
<1>2. CASE k.claimType = "INDIVIDUAL"
  <2> DEFINE w == k.liableTenant
             y == ts[w].openIndividualClaimAmount - k.amount
             z == ts[w].approvedIndividualClaims + k.amount
             t == [ts[w] EXCEPT !.openIndividualClaimAmount = y, !.approvedIndividualClaims = z]
  <2>1. w \in Wallets /\ ts[w] \in Tenant /\ ts[w].exists
    BY <1>2
  <2>2. /\ ts[w].openIndividualClaimAmount \in Int /\ ts[w].approvedIndividualClaims \in Int
        /\ k.amount \in Int
    BY <2>1, ClaimUpdates DEF Tenant
  <2>3. y \in Int /\ z \in Int
    BY <2>2
  <2>4. Deducts(ts, k) = [ts EXCEPT ![w] = t]
    BY <1>2, <2>1 DEF Deducts
  <2> HIDE DEF y, z
  <2>5. /\ t \in Tenant /\ t.openIndividualClaimAmount = y /\ SameStake(ts[w], t)
        /\ t.approvedIndividualClaims = z
    <3> DEFINE s == ts[w]
    <3>1. s \in Tenant
      BY <2>1
    <3> HIDE DEF s
    <3>2. LET q == [s EXCEPT !.openIndividualClaimAmount = y, !.approvedIndividualClaims = z]
          IN  /\ q \in Tenant /\ q.openIndividualClaimAmount = y
              /\ q.approvedIndividualClaims = z /\ SameStake(s, q)
      BY <2>3, <3>1, DeductionFields
    <3> QED BY <3>2 DEF s
  <2> HIDE DEF t, w
  <2>6. /\ Deducts(ts, k) \in [Wallets -> Tenant] /\ Deducts(ts, k)[w] = t
        /\ \A v \in Wallets \ {w} : Deducts(ts, k)[v] = ts[v]
    BY <2>1, <2>4, <2>5
  <2>7. /\ y = ts[w].openIndividualClaimAmount
                 - (IF k.claimType = "INDIVIDUAL" THEN k.amount ELSE 0)
        /\ z = ts[w].approvedIndividualClaims
                 + (IF k.claimType = "INDIVIDUAL" THEN k.amount ELSE 0)
    BY <1>2 DEF y, z
  <2> QED BY <1>2, <2>1, <2>5, <2>6, <2>7
<1> QED BY <1>1, <1>2

(* A pending claim is approved.                                            *)
LEMMA ApprovalSound ==
  ASSUME NEW g \in Agreement, NEW list, NEW ts \in [Wallets -> Tenant],
         NEW ks \in [ClaimIds -> Claim], Sound(g, list, ts, ks), g.status = "ACTIVE",
         NEW c \in ClaimIds, ks[c].status = "PENDING",
         NEW k \in Claim, SameTerms(ks[c], k)
  PROVE  /\ Sound(Approves(g, k), list, Deducts(ts, k), Lists(ks, c, Resolved(k, "APPROVED")))
         /\ SumFunction(Dues(Approves(g, k), Deducts(ts, k))) = SumFunction(Dues(g, ts))
<1> DEFINE u == g.unresolvedClaimCount - 1
           o == g.totalOpenClaimAmount - k.amount
           p == g.totalApprovedClaims + k.amount
           s == IF k.claimType = "SHARED" THEN g.sharedApprovedClaims + k.amount
                                          ELSE g.sharedApprovedClaims
           h == Approves(g, k)
           l == [k EXCEPT !.status = "APPROVED"]
           ls == [ks EXCEPT ![c] = [k EXCEPT !.status = "APPROVED"]]
           us == Deducts(ts, k)
<1>0. Lists(ks, c, Resolved(k, "APPROVED")) = ls
  BY DEF Lists, Resolved
<1>1. /\ g.unresolvedClaimCount \in Int /\ g.totalOpenClaimAmount \in Int
      /\ g.totalApprovedClaims \in Int /\ g.sharedApprovedClaims \in Int
      /\ g.totalFunded \in Int /\ g.claimCount \in Int /\ k.amount \in Int
  <2>1. g.claimCount \in Int
    BY ConstantsAssumption DEF Agreement
  <2> QED BY <2>1, AgreementFields, ClaimUpdates
<1>2. u \in Int /\ o \in Int /\ p \in Int /\ s \in Int
  BY <1>1
<1>3. h = [g EXCEPT !.unresolvedClaimCount = u, !.totalOpenClaimAmount = o,
                    !.totalApprovedClaims = p, !.sharedApprovedClaims = s]
  BY DEF Approves
<1> HIDE DEF u, o, p, s, h
<1>4. /\ h \in Agreement /\ SameFunding(g, h) /\ h.totalApprovedClaims = p
      /\ h.sharedApprovedClaims = s
      /\ h.claimCount = g.claimCount /\ h.totalOpenClaimAmount = o
  <2>1. h \in Agreement
    BY ApprovalTyped DEF h
  <2> QED BY <1>3, <2>1 DEF Agreement, SameFunding
<1>5. /\ l \in Claim /\ l.status = "APPROVED" /\ l.amount = k.amount
      /\ l.claimType = k.claimType /\ l.liableTenant = k.liableTenant
  BY DEF Claim, ClaimStatus
<1>6. ls = [ks EXCEPT ![c] = l]
  OBVIOUS
<1> HIDE DEF l
<1>7. ls \in [ClaimIds -> Claim] /\ ls[c] = l /\ \A d \in ClaimIds \ {c} : ls[d] = ks[d]
  BY <1>5, <1>6
<1> HIDE DEF ls, us
<1>8. ClaimSound(g.claimCount, ts, ks[c], c) /\ ks[c].status # "NONE"
  BY DEF Sound
<1>9. /\ 0 <= k.amount /\ ~ (c > g.claimCount)
      /\ k.claimType = "INDIVIDUAL" => k.liableTenant \in Wallets /\ ts[k.liableTenant].exists
  BY <1>8 DEF ClaimSound, SameTerms
<1>10. g.recipient \in Wallets
  BY DEF Sound, RecordSound
<1> DEFINE x == IF k.claimType = "INDIVIDUAL" THEN k.amount ELSE 0
<1>11. us \in [Wallets -> Tenant]
  BY <1>9, <1>10, DeductRow DEF us
<1>12. PICK w \in Wallets :
         /\ \A v \in Wallets \ {w} : us[v] = ts[v]
         /\ SameStake(ts[w], us[w])
         /\ us[w].approvedIndividualClaims = ts[w].approvedIndividualClaims + x
         /\ us[w].openIndividualClaimAmount = ts[w].openIndividualClaimAmount - x
         /\ k.claimType = "INDIVIDUAL" => ts[w].exists
  BY <1>9, <1>10, DeductRow DEF us
<1>13. x \in Int /\ p - g.totalApprovedClaims = (s - g.sharedApprovedClaims) + x
  <2>1. k.claimType = "SHARED" \/ k.claimType = "INDIVIDUAL"
    BY DEF Claim, ClaimType
  <2> QED BY <1>1, <2>1 DEF p, s
<1>14. TenantSound("ACTIVE", ts[w]) /\ ts[w] \in Tenant /\ us[w] \in Tenant
  BY <1>11 DEF Sound
<1>15. ~ us[w].exists => x = 0
  BY <1>12 DEF SameStake
<1> HIDE DEF x
<1>16. /\ us[w].openIndividualClaimAmount + us[w].approvedIndividualClaims <= us[w].fundedAmount
       /\ ~ us[w].exists => us[w].approvedIndividualClaims = 0
  BY <1>12, <1>13, <1>14, <1>15 DEF TenantSound, SameStake, Tenant
<1>17. h.totalApprovedClaims = g.totalApprovedClaims
          + (h.sharedApprovedClaims - g.sharedApprovedClaims)
          + (us[w].approvedIndividualClaims - ts[w].approvedIndividualClaims)
  <2>1. ts[w].approvedIndividualClaims \in Int
    BY <1>14 DEF Tenant
  <2> QED BY <1>1, <1>2, <1>4, <1>12, <1>13, <2>1
<1>18. ClaimSound(h.claimCount, us, ls[c], c)
  <2>1. \A v \in Wallets : us[v].exists = ts[v].exists
    BY <1>12 DEF SameStake
  <2> QED BY <1>4, <1>5, <1>7, <1>9, <2>1 DEF ClaimSound
<1>19. Reserved(ks[c]) = k.amount /\ Reserved(ls[c]) = 0
  BY <1>5, <1>7 DEF Reserved, SameTerms
<1>20. RecordSound(g)
  BY DEF Sound
<1>21. /\ h.totalOpenClaimAmount = g.totalOpenClaimAmount + (Reserved(ls[c]) - Reserved(ks[c]))
       /\ h.totalOpenClaimAmount + h.totalApprovedClaims <= h.totalFunded
       /\ 0 <= h.sharedApprovedClaims /\ g.claimCount <= h.claimCount
  BY <1>1, <1>4, <1>9, <1>19, <1>20 DEF RecordSound, SameFunding, o, p, s
<1>22. Sound(h, list, us, ls) /\ SumFunction(Dues(h, us)) = SumFunction(Dues(g, ts))
  BY <1>4, <1>7, <1>11, <1>12, <1>16, <1>17, <1>18, <1>21, ClaimStepSound
<1> QED BY <1>0, <1>22 DEF h, us

(* A vote that decides nothing changes only the claim's counters.          *)
LEMMA VoteSound ==
  ASSUME NEW g \in Agreement, NEW list, NEW ts \in [Wallets -> Tenant],
         NEW ks \in [ClaimIds -> Claim], Sound(g, list, ts, ks),
         NEW c \in ClaimIds, NEW k \in Claim, SameTerms(ks[c], k)
  PROVE  Sound(g, list, ts, Lists(ks, c, k))
<1> DEFINE ls == [ks EXCEPT ![c] = k]
<1>0. Lists(ks, c, k) = ls
  BY DEF Lists
<1>1. \A d \in ClaimIds : ls[d] = IF d = c THEN k ELSE ks[d]
  OBVIOUS
<1> HIDE DEF ls
<1>2. \A d \in ClaimIds : Reserved(ls[d]) = Reserved(ks[d])
  BY <1>1 DEF Reserved, SameTerms
<1>3. Open(ls) = Open(ks)
  BY <1>2 DEF Open
<1>4. ASSUME NEW d \in ClaimIds
      PROVE  ClaimSound(g.claimCount, ts, ls[d], d)
  <2>1. ClaimSound(g.claimCount, ts, ks[d], d)
    BY DEF Sound
  <2>2. SameTerms(ks[d], ls[d])
    BY <1>1 DEF SameTerms
  <2> QED BY <2>1, <2>2 DEF ClaimSound, SameTerms
<1>5. Sound(g, list, ts, ls)
  BY <1>3, <1>4 DEF Sound
<1> QED BY <1>0, <1>5

-----------------------------------------------------------------------------
(* Settlement                                                              *)

(* The listed wallets hold h, entry by entry, and the others nothing.      *)
HeldByListed(n, list, f, h) ==
  /\ f \in [Wallets -> Int] /\ h \in [1 .. n -> Int]
  /\ \A i \in 1 .. n : f[list[i]] = h[i]
  /\ \A w \in Wallets \ Listed(list, 1 .. n) : f[w] = 0

(* What the listed wallets hold is then what all wallets hold.             *)
LEMMA SumOverList ==
  ASSUME NEW n \in Nat, NEW list \in [1 .. n -> Wallets], OneToOne(list, 1 .. n),
         NEW f, NEW h, HeldByListed(n, list, f, h)
  PROVE  SumFunction(f) = SumFunction(h)
<1> DEFINE I == 1 .. n
           R == Listed(list, I)
<1>1. IsFiniteSet(I) /\ IsFiniteSet(Wallets) /\ R \in SUBSET Wallets
  <2>1. IsFiniteSet(I)
    BY FS_Interval
  <2>2. R \in SUBSET Wallets
    BY DEF Listed
  <2> QED BY <2>1, <2>2, ConstantsAssumption
<1>2. SumFunction(f) = SumFunctionOnSet(f, Wallets) /\ SumFunction(h) = SumFunctionOnSet(h, I)
  BY SumDomain DEF HeldByListed
<1>3. SumFunctionOnSet(f, R) = SumFunctionOnSet(h, I)
  <2>1. \A i \in I : f[list[i]] \in Int /\ h[i] = f[list[i]]
    BY DEF HeldByListed
  <2>2. OneToOne(list, I)
    OBVIOUS
  <2> HIDE DEF I
  <2> QED BY <1>1, <2>1, <2>2, SumReindex
<1>4. SumFunctionOnSet(f, Wallets) = SumFunctionOnSet(f, R)
  <2>1. \A w \in Wallets : f[w] \in Int
    BY DEF HeldByListed
  <2>2. \A w \in Wallets \ R : f[w] = 0
    BY DEF HeldByListed
  <2> HIDE DEF R
  <2> QED BY <1>1, <2>1, <2>2, SumSupport
<1> QED BY <1>2, <1>3, <1>4

(* One wallet's amount, and nothing for the others.                        *)
LEMMA SumOfOne ==
  ASSUME NEW w \in Wallets, NEW x \in Int
  PROVE  SumFunction([v \in Wallets |-> IF v = w THEN x ELSE 0]) = x
<1> DEFINE zero == [v \in Wallets |-> 0]
           one == [v \in Wallets |-> IF v = w THEN x ELSE 0]
<1>1. /\ zero \in [Wallets -> Int] /\ one \in [Wallets -> Int]
      /\ \A v \in Wallets \ {w} : one[v] = zero[v]
      /\ zero[w] = 0 /\ one[w] = x /\ \A v \in Wallets : zero[v] = 0
  OBVIOUS
<1>2. IsFiniteSet(Wallets)
  BY ConstantsAssumption
<1> HIDE DEF zero, one
<1>3. SumFunction(one) = SumFunction(zero) + (one[w] - zero[w])
  BY <1>1, <1>2, EntryReplaced
<1>4. SumFunction(zero) = SumFunctionOnSet(zero, Wallets)
  BY <1>1, SumDomain
<1>5. SumFunctionOnSet(zero, Wallets) = 0
  BY <1>1, <1>2, SumZero
<1> QED BY <1>1, <1>3, <1>4, <1>5 DEF one

(* Sums of two columns.                                                    *)
LEMMA ColumnsAdd ==
  ASSUME NEW f \in [Wallets -> Int], NEW g \in [Wallets -> Int], NEW h \in [Wallets -> Int],
         \A w \in Wallets : h[w] = f[w] + g[w]
  PROVE  SumFunction(h) = SumFunction(f) + SumFunction(g)
<1>1. /\ SumFunction(f) = SumFunctionOnSet(f, Wallets)
      /\ SumFunction(g) = SumFunctionOnSet(g, Wallets)
      /\ SumFunction(h) = SumFunctionOnSet(h, Wallets)
  BY SumDomain
<1>2. \A w \in Wallets : f[w] \in Int /\ g[w] \in Int /\ h[w] = f[w] + g[w]
  OBVIOUS
<1> QED BY <1>1, <1>2, SumAdd, ConstantsAssumption

(* The deposit is what the tenants have left and what they owe for their   *)
(* own claims; so what is left covers the shared claims, as long as the    *)
(* claims fit into the deposit.                                            *)
LEMMA WhatIsLeft ==
  ASSUME NEW n \in Nat, NEW list \in [1 .. n -> Wallets], NEW ts \in [Wallets -> Tenant],
         NEW g, ListSound(list, ts), \A w \in Wallets : TenantSound(g.status, ts[w]),
         NEW remaining \in [1 .. n -> Int],
         \A i \in 1 .. n : remaining[i] = ts[list[i]].fundedAmount
                                          - ts[list[i]].approvedIndividualClaims
  PROVE  SumFunction(Funded(ts)) = TotalRemaining(remaining) + SumFunction(Deducted(ts))
<1> DEFINE left == [w \in Wallets |-> ts[w].fundedAmount - ts[w].approvedIndividualClaims]
<1>1. ASSUME NEW w \in Wallets
      PROVE  /\ ts[w].fundedAmount \in Int /\ ts[w].approvedIndividualClaims \in Int
             /\ left[w] = ts[w].fundedAmount - ts[w].approvedIndividualClaims
             /\ left[w] \in Int
             /\ (\A i \in 1 .. n : list[i] # w) => left[w] = 0
             /\ Funded(ts)[w] = left[w] + Deducted(ts)[w]
  <2>1. ts[w] \in Tenant /\ TenantSound(g.status, ts[w])
    OBVIOUS
  <2>2. ts[w].fundedAmount \in Int /\ ts[w].approvedIndividualClaims \in Int
    BY <2>1 DEF Tenant
  <2>3. (\A i \in 1 .. n : list[i] # w) => ~ ts[w].exists
    BY DEF ListSound
  <2> QED BY <2>1, <2>2, <2>3 DEF TenantSound, Funded, Deducted
<1>2. left \in [Wallets -> Int]
  BY <1>1
<1>3. \A i \in 1 .. n : left[list[i]] = remaining[i]
  BY <1>1
<1> HIDE DEF left
<1>4. OneToOne(list, 1 .. n)
  BY DEF ListSound, OneToOne
<1>5. SumFunction(left) = SumFunction(remaining)
  <2>1. \A w \in Wallets \ Listed(list, 1 .. n) : left[w] = 0
    BY <1>1 DEF Listed
  <2>2. \A i \in 1 .. n : left[list[i]] = remaining[i]
    BY <1>3
  <2>3. HeldByListed(n, list, left, remaining)
    BY <1>2, <2>1, <2>2 DEF HeldByListed
  <2> QED BY <1>4, <2>3, SumOverList
<1>6. Funded(ts) \in [Wallets -> Int] /\ Deducted(ts) \in [Wallets -> Int]
  BY ColumnsTyped
<1>7. SumFunction(Funded(ts)) = SumFunction(left) + SumFunction(Deducted(ts))
  BY <1>1, <1>2, <1>6, ColumnsAdd
<1> QED BY <1>5, <1>7 DEF TotalRemaining

(* What the listed tenants have left after their own claims.               *)
LeftWith(n, list, ts, remaining) ==
  \A i \in 1 .. n :
    remaining[i] = ts[list[i]].fundedAmount - ts[list[i]].approvedIndividualClaims

(* Their records once the refunds are stored.                              *)
RefundsStored(n, list, ts, refunds, us) ==
  /\ \A w \in Wallets \ Listed(list, 1 .. n) : us[w] = ts[w]
  /\ \A i \in 1 .. n : us[list[i]] = [ts[list[i]] EXCEPT !.refundAmount = refunds[i]]

(* The agreement's record as finalizeAgreement leaves it.                  *)
Finalized(g) == [g EXCEPT !.status = "FINALIZED"]

(* Settlement turns the deposit into refunds and the approved claims, and  *)
(* what is due stays the same in total.                                    *)
LEMMA FinalizationSound ==
  ASSUME NEW g \in Agreement, NEW n \in Nat, NEW list \in [1 .. n -> Wallets],
         NEW ts \in [Wallets -> Tenant], NEW ks, Sound(g, list, ts, ks), g.status = "ACTIVE",
         NEW remaining \in [1 .. n -> Int], LeftWith(n, list, ts, remaining),
         g.sharedApprovedClaims <= TotalRemaining(remaining),
         NEW us \in [Wallets -> Tenant],
         RefundsStored(n, list, ts, Refunds(remaining, g.sharedApprovedClaims), us)
  PROVE  /\ Sound(Finalized(g), list, us, ks)
         /\ SumFunction(Dues(Finalized(g), us)) = SumFunction(Dues(g, ts))
<1> DEFINE h == [g EXCEPT !.status = "FINALIZED"]
           refunds == Refunds(remaining, g.sharedApprovedClaims)
           refundOf == [w \in Wallets |-> us[w].refundAmount]
           payout == [w \in Wallets |-> IF w = g.recipient THEN g.totalApprovedClaims ELSE 0]
<1>0. Finalized(g) = h
  BY DEF Finalized
<1>1. /\ h \in Agreement /\ h.status = "FINALIZED"
      /\ h.recipient = g.recipient /\ h.claimCount = g.claimCount
      /\ h.recipientPayoutWithdrawn = g.recipientPayoutWithdrawn
      /\ h.totalRequired = g.totalRequired /\ h.totalFunded = g.totalFunded
      /\ h.totalCancelledFundingWithdrawn = g.totalCancelledFundingWithdrawn
      /\ h.totalOpenClaimAmount = g.totalOpenClaimAmount
      /\ h.totalApprovedClaims = g.totalApprovedClaims
      /\ h.sharedApprovedClaims = g.sharedApprovedClaims
  BY StatusReplaced DEF AgreementStatus
<1> HIDE DEF h
<1>2. /\ g.sharedApprovedClaims \in Nat /\ g.totalApprovedClaims \in Int
      /\ g.recipient \in Wallets /\ ~ g.recipientPayoutWithdrawn
  <2>1. RecordSound(g)
    BY DEF Sound
  <2>2. g.sharedApprovedClaims \in Int /\ g.totalApprovedClaims \in Int
    BY AgreementFields
  <2> QED BY <2>1, <2>2 DEF RecordSound
<1>3. /\ refunds \in [1 .. n -> Int]
      /\ SumFunction(refunds) = TotalRemaining(remaining) - g.sharedApprovedClaims
  BY <1>2, SettlementIsExact
<1>4. ListSound(list, ts) /\ OneToOne(list, 1 .. n)
  BY DEF Sound, ListSound, OneToOne
<1> HIDE DEF refunds
<1>5. \A i \in 1 .. n : us[list[i]] = [ts[list[i]] EXCEPT !.refundAmount = refunds[i]]
  BY DEF refunds, RefundsStored
<1>6. ASSUME NEW w \in Wallets
      PROVE  /\ us[w].exists = ts[w].exists
             /\ us[w].requiredAmount = ts[w].requiredAmount
             /\ us[w].fundedAmount = ts[w].fundedAmount
             /\ us[w].cancelledFundingWithdrawn = ts[w].cancelledFundingWithdrawn
             /\ us[w].cancelledFundingWithdrawnAmount = ts[w].cancelledFundingWithdrawnAmount
             /\ us[w].openIndividualClaimAmount = ts[w].openIndividualClaimAmount
             /\ us[w].approvedIndividualClaims = ts[w].approvedIndividualClaims
             /\ us[w].refundWithdrawn = ts[w].refundWithdrawn
             /\ w \notin Listed(list, 1 .. n) => us[w].refundAmount = ts[w].refundAmount
             /\ us[w].exists <=> w \in Listed(list, 1 .. n)
  <2>1. ts[w].exists <=> w \in Listed(list, 1 .. n)
    BY <1>4 DEF ListSound, Listed
  <2>2. CASE w \notin Listed(list, 1 .. n)
    BY <2>1, <2>2 DEF RefundsStored
  <2>3. CASE w \in Listed(list, 1 .. n)
    <3>1. PICK i \in 1 .. n : list[i] = w
      BY <2>3 DEF Listed
    <3>2. PICK r : r = refunds[i]
      OBVIOUS
    <3>3. us[w] = [ts[w] EXCEPT !.refundAmount = r]
      BY <1>5, <3>1, <3>2
    <3>4. ts[w] \in Tenant
      OBVIOUS
    <3> QED BY <2>1, <2>3, <3>3, <3>4 DEF Tenant
  <2> QED BY <2>2, <2>3
<1>7. \A i \in 1 .. n : us[list[i]].refundAmount = refunds[i]
  <2> SUFFICES ASSUME NEW i \in 1 .. n PROVE us[list[i]].refundAmount = refunds[i]
    OBVIOUS
  <2>1. PICK t \in Tenant : t = ts[list[i]]
    OBVIOUS
  <2>2. us[list[i]] = [t EXCEPT !.refundAmount = refunds[i]]
    BY <1>5, <2>1
  <2> QED BY <2>2 DEF Tenant
<1>8. ASSUME NEW w \in Wallets
      PROVE  /\ TenantSound("FINALIZED", us[w]) /\ us[w].refundAmount \in Int
             /\ ~ us[w].refundWithdrawn
             /\ w \notin Listed(list, 1 .. n) => us[w].refundAmount = 0
  <2>1. TenantSound("ACTIVE", ts[w])
    BY DEF Sound
  <2>2. us[w].refundAmount \in Int
    BY DEF Tenant
  <2> QED BY <1>6, <2>1, <2>2 DEF TenantSound, HasClaims
<1>9. SumFunction(Funded(ts)) = TotalRemaining(remaining) + SumFunction(Deducted(ts))
  BY <1>4, WhatIsLeft DEF Sound, LeftWith
<1>10. refundOf \in [Wallets -> Int] /\ SumFunction(refundOf) = SumFunction(refunds)
  <2>1. refundOf \in [Wallets -> Int]
    BY <1>8
  <2>2. \A i \in 1 .. n : refundOf[list[i]] = refunds[i]
    BY <1>7
  <2>3. \A w \in Wallets \ Listed(list, 1 .. n) : refundOf[w] = 0
    BY <1>8
  <2> HIDE DEF refundOf
  <2>4. HeldByListed(n, list, refundOf, refunds)
    BY <1>3, <2>1, <2>2, <2>3 DEF HeldByListed
  <2> QED BY <1>4, <2>1, <2>4, SumOverList
<1>11. payout \in [Wallets -> Int] /\ SumFunction(payout) = g.totalApprovedClaims
  <2>1. PICK w \in Wallets, x \in Int : w = g.recipient /\ x = g.totalApprovedClaims
    BY <1>2
  <2>2. payout = [v \in Wallets |-> IF v = w THEN x ELSE 0]
    BY <2>1
  <2> HIDE DEF payout
  <2>3. SumFunction(payout) = x
    BY <2>2, SumOfOne
  <2> QED BY <2>1, <2>2, <2>3
<1>12. SumFunction(Dues(h, us)) = SumFunction(refundOf) + SumFunction(payout)
  <2>1. Dues(h, us) \in [Wallets -> Int]
    BY <1>1, DuesTyped
  <2>2. \A w \in Wallets : Dues(h, us)[w] = refundOf[w] + payout[w]
    BY <1>1, <1>2, <1>8 DEF Dues, Due
  <2> HIDE DEF refundOf, payout
  <2>3. ASSUME NEW e \in [Wallets -> Int], NEW f \in [Wallets -> Int], NEW r \in [Wallets -> Int],
               \A w \in Wallets : r[w] = e[w] + f[w]
        PROVE  SumFunction(r) = SumFunction(e) + SumFunction(f)
    BY <2>3, ColumnsAdd
  <2> QED BY <1>10, <1>11, <2>1, <2>2, <2>3
<1>13. Dues(g, ts) = Funded(ts)
  <2>1. ASSUME NEW w \in Wallets PROVE Due(g, ts[w], w) = ts[w].fundedAmount
    <3>1. ts[w].fundedAmount \in Int
      BY DEF Tenant
    <3> QED BY <3>1 DEF Due
  <2> QED BY <2>1 DEF Dues, Funded
<1>14. TotalsSound(g, ts) /\ SumFunction(Deducted(ts)) \in Int
       /\ SumFunction(Funded(ts)) \in Int
  BY ColumnsTyped DEF Sound
<1>15. TotalRemaining(remaining) \in Int
  BY SumOfSequence DEF TotalRemaining
<1>16. SumFunction(Dues(h, us)) = SumFunction(Dues(g, ts))
  BY <1>2, <1>3, <1>9, <1>10, <1>11, <1>12, <1>13, <1>14, <1>15 DEF TotalsSound
<1>17. TotalsSound(h, us)
  <2>1. /\ Required(us) = Required(ts) /\ Funded(us) = Funded(ts)
        /\ Returned(us) = Returned(ts) /\ Deducted(us) = Deducted(ts)
    BY <1>6 DEF Required, Funded, Returned, Deducted
  <2> QED BY <1>1, <1>14, <2>1 DEF TotalsSound
<1>18. RecordSound(h)
  BY <1>1 DEF Sound, RecordSound, HasClaims
<1>19. ListSound(list, us)
  BY <1>4, <1>6 DEF ListSound
<1>20. \A c \in ClaimIds : ClaimSound(h.claimCount, us, ks[c], c)
  <2>1. \A w \in Wallets : us[w].exists = ts[w].exists
    BY <1>6
  <2> QED BY <1>1, <2>1 DEF Sound, ClaimSound
<1>21. Sound(h, list, us, ks)
  BY <1>1, <1>8, <1>17, <1>18, <1>19, <1>20 DEF Sound
<1> QED BY <1>0, <1>16, <1>21

-----------------------------------------------------------------------------
(* Creation and the initial state                                          *)

(* A column of zeros.                                                      *)
LEMMA ZeroColumn ==
  ASSUME NEW D, IsFiniteSet(D), NEW f, f \in [D -> Int], \A x \in D : f[x] = 0
  PROVE  SumFunction(f) = 0
<1>1. SumFunction(f) = SumFunctionOnSet(f, D)
  BY SumDomain
<1>2. SumFunctionOnSet(f, D) = 0
  BY SumZero
<1> QED BY <1>1, <1>2

(* Nothing has happened yet to a tenant with such a record.                *)
Untouched(t) ==
  /\ t.fundedAmount = 0 /\ t.openIndividualClaimAmount = 0
  /\ t.approvedIndividualClaims = 0 /\ t.refundAmount = 0
  /\ t.cancelledFundingWithdrawnAmount = 0
  /\ ~ t.cancelledFundingWithdrawn /\ ~ t.refundWithdrawn
  /\ 0 <= t.requiredAmount
  /\ ~ t.exists => t.requiredAmount = 0

(* Nor to an agreement with this one.                                      *)
Unstarted(g) ==
  /\ g.status \in {"NONE", "FUNDING"}
  /\ g.status # "NONE" => g.recipient \in Wallets
  /\ ~ g.recipientPayoutWithdrawn
  /\ g.claimCount = 0
  /\ g.totalFunded = 0 /\ g.totalCancelledFundingWithdrawn = 0
  /\ g.totalOpenClaimAmount = 0 /\ g.totalApprovedClaims = 0
  /\ g.sharedApprovedClaims = 0

(* Such records are sound and nothing is due.                              *)
LEMMA UnstartedSound ==
  ASSUME NEW g \in Agreement, Unstarted(g), NEW list,
         NEW ts \in [Wallets -> Tenant], \A w \in Wallets : Untouched(ts[w]),
         ListSound(list, ts), g.totalRequired = SumFunction(Required(ts)),
         NEW ks, \A c \in ClaimIds : ks[c].status = "NONE"
  PROVE  Sound(g, list, ts, ks) /\ SumFunction(Dues(g, ts)) = 0
<1>1. RecordSound(g)
  BY DEF RecordSound, Unstarted, HasClaims
<1>2. ASSUME NEW w \in Wallets PROVE TenantSound(g.status, ts[w])
  <2>1. Untouched(ts[w])
    OBVIOUS
  <2> QED BY <2>1 DEF TenantSound, Untouched
<1>3. IsFiniteSet(Wallets)
  BY ConstantsAssumption
<1>4. /\ Funded(ts) \in [Wallets -> Int] /\ Returned(ts) \in [Wallets -> Int]
      /\ Deducted(ts) \in [Wallets -> Int] /\ Dues(g, ts) \in [Wallets -> Int]
  BY ColumnsTyped, DuesTyped
<1>5. ASSUME NEW w \in Wallets
      PROVE  /\ Funded(ts)[w] = 0 /\ Returned(ts)[w] = 0
             /\ Deducted(ts)[w] = 0 /\ Dues(g, ts)[w] = 0
  <2>1. Untouched(ts[w])
    OBVIOUS
  <2> QED BY <2>1 DEF Untouched, Unstarted, Funded, Returned, Deducted, Dues, Due
<1>6. /\ SumFunction(Funded(ts)) = 0 /\ SumFunction(Returned(ts)) = 0
      /\ SumFunction(Deducted(ts)) = 0 /\ SumFunction(Dues(g, ts)) = 0
  BY <1>3, <1>4, <1>5, ZeroColumn
<1>7. TotalsSound(g, ts)
  BY <1>6 DEF TotalsSound, Unstarted
<1>8. IsFiniteSet(ClaimIds)
  BY FS_Interval, ConstantsAssumption DEF ClaimIds
<1>9. \A c \in ClaimIds : Open(ks)[c] = 0
  BY DEF Open, Reserved
<1>10. Open(ks) \in [ClaimIds -> Int]
  BY <1>9 DEF Open
<1>11. SumFunction(Open(ks)) = 0
  BY <1>8, <1>9, <1>10, ZeroColumn
<1>12. \A c \in ClaimIds : ClaimSound(g.claimCount, ts, ks[c], c)
  BY DEF ClaimSound
<1> QED BY <1>1, <1>2, <1>6, <1>7, <1>11, <1>12 DEF Sound, Unstarted

(* The blank records of an unused id are such.                             *)
LEMMA BlankSound ==
  ASSUME NEW list, DOMAIN list = {},
         NEW ts \in [Wallets -> Tenant], \A w \in Wallets : ts[w] = BlankTenant,
         NEW ks, \A c \in ClaimIds : ks[c].status = "NONE"
  PROVE  Sound(BlankAgreement, list, ts, ks) /\ SumFunction(Dues(BlankAgreement, ts)) = 0
<1>1. Unstarted(BlankAgreement) /\ BlankAgreement.totalRequired = 0
  BY DEF Unstarted, BlankAgreement
<1>2. Untouched(BlankTenant) /\ ~ BlankTenant.exists /\ BlankTenant.requiredAmount = 0
  BY DEF Untouched, BlankTenant
<1>3. ListSound(list, ts)
  BY <1>2 DEF ListSound
<1>4. Required(ts) \in [Wallets -> Int] /\ \A w \in Wallets : Required(ts)[w] = 0
  BY <1>2 DEF Required
<1>5. SumFunction(Required(ts)) = 0
  BY <1>4, ZeroColumn, ConstantsAssumption
<1>6. \A w \in Wallets : Untouched(ts[w])
  BY <1>2
<1> QED BY <1>1, <1>3, <1>5, <1>6, UnstartedSound, BlanksTyped

(* A tenant's record of a new agreement.                                   *)
LEMMA RegisteredRow ==
  ASSUME NEW p, NEW n \in Nat, p.tenantAddresses \in [1 .. n -> Wallets],
         p.requiredAmounts \in [1 .. n -> Nat], IsInjective(p.tenantAddresses),
         NEW w \in Wallets
  PROVE  /\ Untouched(RegisteredTenants(p)[w])
         /\ RegisteredTenants(p)[w].exists <=> \E i \in 1 .. n : p.tenantAddresses[i] = w
         /\ \A i \in 1 .. n : p.tenantAddresses[i] = w =>
              RegisteredTenants(p)[w].requiredAmount = p.requiredAmounts[i]
<1>1. CASE w \notin Range(p.tenantAddresses)
  <2>1. RegisteredTenants(p)[w] = BlankTenant
    BY <1>1 DEF RegisteredTenants
  <2>2. Untouched(BlankTenant) /\ ~ BlankTenant.exists
    BY DEF Untouched, BlankTenant
  <2>3. \A i \in 1 .. n : p.tenantAddresses[i] # w
    BY <1>1 DEF Range
  <2> QED BY <2>1, <2>2, <2>3
<1>2. CASE w \in Range(p.tenantAddresses)
  <2> DEFINE i == CHOOSE i \in DOMAIN p.tenantAddresses : p.tenantAddresses[i] = w
  <2>1. i \in 1 .. n /\ p.tenantAddresses[i] = w
    BY <1>2 DEF Range
  <2>2. RegisteredTenants(p)[w] = [BlankTenant EXCEPT !.requiredAmount = p.requiredAmounts[i],
                                                      !.index = i - 1, !.exists = TRUE]
    BY <1>2 DEF RegisteredTenants
  <2> HIDE DEF i
  <2>3. PICK y \in Nat, j \in Int : y = p.requiredAmounts[i] /\ j = i - 1
    BY <2>1
  <2>4. RegisteredTenants(p)[w] = [BlankTenant EXCEPT !.requiredAmount = y,
                                                      !.index = j, !.exists = TRUE]
    BY <2>2, <2>3
  <2>5. /\ Untouched(RegisteredTenants(p)[w]) /\ RegisteredTenants(p)[w].exists
        /\ RegisteredTenants(p)[w].requiredAmount = y
    BY <2>4 DEF Untouched, BlankTenant
  <2>6. \A k \in 1 .. n : p.tenantAddresses[k] = w => k = i
    BY <2>1 DEF IsInjective
  <2> QED BY <2>1, <2>3, <2>5, <2>6
<1> QED BY <1>1, <1>2

(* The records createAgreement writes are sound, and nothing is due yet.   *)
LEMMA CreationSound ==
  ASSUME NEW p \in Proposals, p.recipient # NoWallet, RosterValid(p),
         NewAgreement(p) \in Agreement, RegisteredTenants(p) \in [Wallets -> Tenant],
         NEW ks, \A c \in ClaimIds : ks[c].status = "NONE"
  PROVE  /\ Sound(NewAgreement(p), p.tenantAddresses, RegisteredTenants(p), ks)
         /\ SumFunction(Dues(NewAgreement(p), RegisteredTenants(p))) = 0
<1> DEFINE n == Len(p.tenantAddresses)
           list == p.tenantAddresses
           ts == RegisteredTenants(p)
<1>1. p \in Proposal
  BY ConstantsAssumption
<1>2. /\ n \in Nat /\ list \in [1 .. n -> Wallets] /\ IsInjective(list)
  BY <1>1 DEF RosterValid, Proposal
<1>3. p.requiredAmounts \in [1 .. n -> Nat]
  BY <1>1, ConstantsAssumption DEF RosterValid, Proposal, Uint128
<1>4. Unstarted(NewAgreement(p)) /\ NewAgreement(p).totalRequired = SumFunction(p.requiredAmounts)
  <2>1. p.recipient \in Wallets
    BY <1>1 DEF Proposal
  <2> QED BY <2>1 DEF NewAgreement, BlankAgreement, Unstarted
<1> HIDE DEF n
<1>5. ASSUME NEW w \in Wallets
      PROVE  /\ Untouched(ts[w])
             /\ ts[w].exists <=> \E i \in 1 .. n : list[i] = w
             /\ \A i \in 1 .. n : list[i] = w => ts[w].requiredAmount = p.requiredAmounts[i]
  BY <1>2, <1>3, RegisteredRow
<1>6. ListSound(list, ts)
  BY <1>2, <1>5 DEF ListSound, IsInjective
<1>7. Required(ts) \in [Wallets -> Int]
  BY ColumnsTyped
<1>8. HeldByListed(n, list, Required(ts), p.requiredAmounts)
  <2>1. \A i \in 1 .. n : Required(ts)[list[i]] = p.requiredAmounts[i]
    BY <1>2, <1>5 DEF Required
  <2>2. ASSUME NEW w \in Wallets \ Listed(list, 1 .. n)
        PROVE  Required(ts)[w] = 0
    <3>1. Untouched(ts[w]) /\ ~ ts[w].exists
      BY <1>5 DEF Listed
    <3> QED BY <3>1 DEF Untouched, Required
  <2>3. p.requiredAmounts \in [1 .. n -> Int]
    BY <1>3
  <2> QED BY <1>7, <2>1, <2>2, <2>3 DEF HeldByListed
<1>9. OneToOne(list, 1 .. n)
  BY <1>2 DEF IsInjective, OneToOne
<1>10. SumFunction(Required(ts)) = SumFunction(p.requiredAmounts)
  <2> HIDE DEF list, ts
  <2> QED BY <1>2, <1>8, <1>9, SumOverList
<1>11. NewAgreement(p).totalRequired = SumFunction(Required(ts))
  BY <1>4, <1>10
<1>12. \A w \in Wallets : Untouched(ts[w])
  BY <1>5
<1> QED BY <1>4, <1>6, <1>11, <1>12, UnstartedSound

-----------------------------------------------------------------------------
(* The steps                                                               *)

(* The initial state is all blank.                                         *)
LEMMA InitSound == Init => EscrowInv
<1> SUFFICES ASSUME Init PROVE EscrowInv
  OBVIOUS
<1>1. TypeOK
  BY InitTyped
<1>2. ASSUME NEW a \in AgreementIds
      PROVE  /\ agreements[a] = BlankAgreement /\ \A w \in Wallets : tenants[a][w] = BlankTenant
             /\ Sound(agreements[a], agreementTenants[a], tenants[a], claims[a])
             /\ SumFunction(Dues(agreements[a], tenants[a])) = 0
  <2>1. /\ agreements[a] = BlankAgreement /\ agreementTenants[a] = <<>>
        /\ \A w \in Wallets : tenants[a][w] = BlankTenant
        /\ \A c \in ClaimIds : claims[a][c] = BlankClaim
    BY DEF Init
  <2>2. tenants[a] \in [Wallets -> Tenant]
    BY <1>1 DEF TypeOK
  <2>3. DOMAIN agreementTenants[a] = {}
    BY <2>1
  <2>4. \A c \in ClaimIds : claims[a][c].status = "NONE"
    BY <2>1 DEF BlankClaim
  <2> QED BY <2>1, <2>2, <2>3, <2>4, BlankSound
<1>3. IsFiniteSet(AgreementIds)
  BY FS_Interval, ConstantsAssumption DEF AgreementIds
<1> DEFINE held == [a \in AgreementIds |-> SumFunction(Dues(agreements[a], tenants[a]))]
<1>4. held \in [AgreementIds -> Int] /\ \A a \in AgreementIds : held[a] = 0
  BY <1>2
<1> HIDE DEF held
<1>5. SumFunction(held) = 0
  BY <1>3, <1>4, ZeroColumn
<1>6. balance = forced + SumFunction(held)
  BY <1>5 DEF Init
<1>7. Solvent
  BY <1>6, SolventByRecords DEF held
<1> QED BY <1>1, <1>2, <1>7 DEF EscrowInv, Unused

(* What a call on one agreement may rely on.                               *)
LEMMA AgreementSound ==
  ASSUME EscrowInv, NEW a \in AgreementIds
  PROVE  /\ agreements[a] \in Agreement /\ tenants[a] \in [Wallets -> Tenant]
         /\ claims[a] \in [ClaimIds -> Claim]
         /\ Sound(agreements[a], agreementTenants[a], tenants[a], claims[a])
         /\ agreements = [agreements EXCEPT ![a] = agreements[a]]
         /\ tenants = [tenants EXCEPT ![a] = tenants[a]]
         /\ claims = [claims EXCEPT ![a] = claims[a]]
         /\ balance \in Int /\ SumFunction(Dues(agreements[a], tenants[a])) \in Int
<1>1. /\ agreements \in [AgreementIds -> Agreement]
      /\ tenants \in [AgreementIds -> [Wallets -> Tenant]]
      /\ claims \in [AgreementIds -> [ClaimIds -> Claim]] /\ balance \in Int
  BY DEF EscrowInv, TypeOK
<1>2. Sound(agreements[a], agreementTenants[a], tenants[a], claims[a])
  BY DEF EscrowInv
<1>3. /\ agreements[a] \in Agreement /\ tenants[a] \in [Wallets -> Tenant]
      /\ claims[a] \in [ClaimIds -> Claim]
  BY <1>1
<1>4. SumFunction(Dues(agreements[a], tenants[a])) \in Int
  BY <1>3, DuesTyped
<1> QED BY <1>1, <1>2, <1>3, <1>4

(* A call replaces an agreement's records and moves the account by d.      *)
Becomes(a, h, us, ls, d) ==
  /\ agreements' = [agreements EXCEPT ![a] = h]
  /\ tenants' = [tenants EXCEPT ![a] = us]
  /\ claims' = [claims EXCEPT ![a] = ls]
  /\ balance' = balance + d
  /\ UNCHANGED <<nextAgreementId, agreementTenants, forced>>

(* What such a call has to show.                                           *)
LEMMA CallSound ==
  ASSUME EscrowInv, TypeOK', NEW a \in AgreementIds, agreements[a].status # "NONE",
         NEW h, NEW us, NEW ls, NEW d \in Int, Becomes(a, h, us, ls, d),
         Sound(h, agreementTenants[a], us, ls),
         SumFunction(Dues(h, us)) = SumFunction(Dues(agreements[a], tenants[a])) + d
  PROVE  EscrowInv'
<1>1. balance \in Int /\ SumFunction(Dues(agreements[a], tenants[a])) \in Int
  BY AgreementSound
<1>2. forced' = forced /\ forced \in Int
  BY ConstantsAssumption DEF Becomes, EscrowInv, TypeOK
<1>3. balance' - forced' = balance - forced
        + (SumFunction(Dues(h, us)) - SumFunction(Dues(agreements[a], tenants[a])))
  BY <1>1, <1>2 DEF Becomes
<1> QED BY <1>3, AgreementReplaced DEF Becomes

(* createAgreement.                                                        *)
LEMMA CreateSound ==
  ASSUME EscrowInv, TypeOK', NEW p \in Proposals, CreateAgreement(p)
  PROVE  EscrowInv'
<1> DEFINE a == nextAgreementId
           h == NewAgreement(p)
           us == RegisteredTenants(p)
           held == [b \in AgreementIds |-> SumFunction(Dues(agreements[b], tenants[b]))]
           heldNext == [b \in AgreementIds |-> SumFunction(Dues(agreements'[b], tenants'[b]))]
<1>1. /\ agreements \in Records /\ tenants \in TenantBooks /\ claims \in ClaimLists
      /\ agreements' \in Records /\ tenants' \in TenantBooks
      /\ agreementTenants \in [AgreementIds -> Seq(Wallets)]
      /\ balance \in Int /\ forced \in Int
  BY ConstantsAssumption DEF EscrowInv, TypeOK, Records, TenantBooks, ClaimLists
<1>2. /\ a \in AgreementIds /\ a' = a + 1 /\ p.recipient # NoWallet /\ RosterValid(p)
      /\ agreements' = [agreements EXCEPT ![a] = h]
      /\ tenants' = [tenants EXCEPT ![a] = us]
      /\ agreementTenants' = [agreementTenants EXCEPT ![a] = p.tenantAddresses]
      /\ UNCHANGED <<claims, balance, forced>>
  BY DEF CreateAgreement, Creatable
<1> HIDE DEF h, us
<1>3. /\ agreements'[a] = h /\ tenants'[a] = us /\ agreementTenants'[a] = p.tenantAddresses
      /\ h \in Agreement /\ us \in [Wallets -> Tenant]
      /\ \A b \in AgreementIds \ {a} : /\ agreements'[b] = agreements[b]
                                       /\ tenants'[b] = tenants[b]
                                       /\ agreementTenants'[b] = agreementTenants[b]
  BY <1>1, <1>2 DEF Records, TenantBooks
<1>4. agreements[a] = BlankAgreement /\ \A w \in Wallets : tenants[a][w] = BlankTenant
  <2>1. a \in Int /\ a >= a
    BY <1>2 DEF AgreementIds
  <2> QED BY <1>2, <2>1 DEF EscrowInv, Unused
<1>5. \A c \in ClaimIds : claims[a][c].status = "NONE"
  <2>1. BlankAgreement.claimCount = 0
    BY DEF BlankAgreement
  <2>2. Sound(agreements[a], agreementTenants[a], tenants[a], claims[a])
    BY <1>2, AgreementSound
  <2> QED BY <1>4, <2>1, <2>2 DEF Sound, ClaimSound, ClaimIds
<1>6. Sound(h, p.tenantAddresses, us, claims[a]) /\ SumFunction(Dues(h, us)) = 0
  BY <1>2, <1>3, <1>5, CreationSound DEF h, us
<1>7. SumFunction(Dues(agreements[a], tenants[a])) = 0
  <2>1. tenants[a] \in [Wallets -> Tenant]
    BY <1>2, AgreementSound
  <2>2. DOMAIN <<>> = {}
    OBVIOUS
  <2> QED BY <1>4, <1>5, <2>1, <2>2, BlankSound
<1>8. ASSUME NEW b \in AgreementIds
      PROVE  Sound(agreements'[b], agreementTenants'[b], tenants'[b], claims'[b])
  <2>1. CASE b = a
    BY <1>2, <1>3, <1>6, <2>1
  <2>2. CASE b # a
    BY <1>2, <1>3, <2>2 DEF EscrowInv
  <2> QED BY <2>1, <2>2
<1>9. \A b \in AgreementIds : b >= nextAgreementId' => Unused(b)'
  <2>1. \A b \in AgreementIds : b >= a' => b >= a /\ b # a
    BY <1>2 DEF AgreementIds
  <2> QED BY <1>3, <2>1 DEF EscrowInv, Unused
<1>10. \A b \in AgreementIds : heldNext[b] = held[b]
  <2>1. heldNext[a] = held[a]
    BY <1>2, <1>3, <1>6, <1>7
  <2>2. \A b \in AgreementIds \ {a} : heldNext[b] = held[b]
    BY <1>3
  <2> QED BY <2>1, <2>2
<1>11. heldNext = held
  BY <1>10
<1>12. balance = forced + SumFunction(held)
  BY SolventByRecords DEF EscrowInv
<1>13. balance' = forced' + SumFunction(heldNext)
  <2> HIDE DEF held, heldNext
  <2> QED BY <1>2, <1>11, <1>12
<1>14. Solvent'
  BY <1>13 DEF Solvent, Owed, Due, Dues
<1> QED BY <1>8, <1>9, <1>14 DEF EscrowInv

(* acceptAsTenant moves nothing, whether or not it activates.              *)
LEMMA AcceptSound ==
  ASSUME EscrowInv, TypeOK', NEW a \in AgreementIds, NEW sender \in Wallets, NEW hash,
         AcceptAsTenant(a, sender, hash)
  PROVE  EscrowInv'
<1>1. PICK g, list, ts, ks : /\ g = agreements[a] /\ list = agreementTenants[a]
                             /\ ts = tenants[a] /\ ks = claims[a]
  OBVIOUS
<1>2. /\ g \in Agreement /\ ts \in [Wallets -> Tenant] /\ Sound(g, list, ts, ks)
      /\ SumFunction(Dues(g, ts)) \in Int
  BY <1>1, AgreementSound
<1> DEFINE us == Accepts(ts, sender)
<1>3. us = [ts EXCEPT ![sender].accepted = TRUE]
  BY DEF Accepts
<1>4. us \in [Wallets -> Tenant] /\ Sound(g, list, us, ks) /\ Dues(g, us) = Dues(g, ts)
  BY <1>2, AcceptanceSound
<1> HIDE DEF us
<1>5. PICK h : h = CheckAndActivate(g, list, us)
  OBVIOUS
<1>6. g.status = "FUNDING"
  BY <1>1 DEF AcceptAsTenant, TenantMayAccept, FundingOpen
<1>7. Sound(h, list, us, ks) /\ Dues(h, us) = Dues(g, us)
  BY <1>2, <1>4, <1>5, <1>6, ActivationSound
<1>8. Becomes(a, h, us, ks, 0)
  BY <1>1, <1>3, <1>5, AgreementSound DEF AcceptAsTenant, Becomes
<1>9. SumFunction(Dues(h, us)) = SumFunction(Dues(g, ts)) + 0
  BY <1>2, <1>4, <1>7
<1> QED BY <1>1, <1>6, <1>7, <1>8, <1>9, CallSound

(* Nor does acceptAsRecipient.                                             *)
LEMMA AcceptRecipientSound ==
  ASSUME EscrowInv, TypeOK', NEW a \in AgreementIds, NEW sender \in Wallets, NEW hash,
         AcceptAsRecipient(a, sender, hash)
  PROVE  EscrowInv'
<1>1. PICK g, list, ts, ks : /\ g = agreements[a] /\ list = agreementTenants[a]
                             /\ ts = tenants[a] /\ ks = claims[a]
  OBVIOUS
<1>2. /\ g \in Agreement /\ ts \in [Wallets -> Tenant] /\ Sound(g, list, ts, ks)
      /\ SumFunction(Dues(g, ts)) \in Int
  BY <1>1, AgreementSound
<1>3. PICK r : r = [g EXCEPT !.recipientAccepted = TRUE]
  OBVIOUS
<1>4. /\ r \in Agreement /\ r.status = g.status
      /\ Sound(r, list, ts, ks) /\ Dues(r, ts) = Dues(g, ts)
  BY <1>2, <1>3, RecipientSound
<1>5. PICK h : h = CheckAndActivate(r, list, ts)
  OBVIOUS
<1>6. g.status = "FUNDING"
  BY <1>1 DEF AcceptAsRecipient, RecipientMayAccept, FundingOpen
<1>7. Sound(h, list, ts, ks) /\ Dues(h, ts) = Dues(r, ts)
  BY <1>2, <1>4, <1>5, <1>6, ActivationSound
<1>8. Becomes(a, h, ts, ks, 0)
  BY <1>1, <1>3, <1>5, AgreementSound DEF AcceptAsRecipient, Becomes
<1>9. SumFunction(Dues(h, ts)) = SumFunction(Dues(g, ts)) + 0
  BY <1>2, <1>4, <1>7
<1> QED BY <1>1, <1>6, <1>7, <1>8, <1>9, CallSound

(* Nor cancelExpiredFunding.                                               *)
LEMMA CancelSound ==
  ASSUME EscrowInv, TypeOK', NEW a \in AgreementIds, NEW sender \in Wallets,
         CancelExpiredFunding(a, sender)
  PROVE  EscrowInv'
<1>1. PICK g, list, ts, ks : /\ g = agreements[a] /\ list = agreementTenants[a]
                             /\ ts = tenants[a] /\ ks = claims[a]
  OBVIOUS
<1>2. /\ g \in Agreement /\ ts \in [Wallets -> Tenant] /\ Sound(g, list, ts, ks)
      /\ SumFunction(Dues(g, ts)) \in Int
  BY <1>1, AgreementSound
<1>3. PICK h : h = [g EXCEPT !.status = "CANCELLED"]
  OBVIOUS
<1>4. g.status = "FUNDING"
  BY <1>1 DEF CancelExpiredFunding
<1>5. Sound(h, list, ts, ks) /\ Dues(h, ts) = Dues(g, ts)
  BY <1>2, <1>3, <1>4, FundingEnds
<1>6. Becomes(a, h, ts, ks, 0)
  BY <1>1, <1>3, AgreementSound DEF CancelExpiredFunding, Becomes
<1>7. SumFunction(Dues(h, ts)) = SumFunction(Dues(g, ts)) + 0
  BY <1>2, <1>5
<1>8. agreements[a].status # "NONE" /\ Sound(h, agreementTenants[a], ts, ks)
      /\ SumFunction(Dues(h, ts)) = SumFunction(Dues(agreements[a], tenants[a])) + 0
  BY <1>1, <1>4, <1>5, <1>7
<1> QED BY <1>6, <1>8, CallSound

(* deposit brings in what it records.                                      *)
LEMMA DepositSound ==
  ASSUME EscrowInv, TypeOK', NEW a \in AgreementIds, NEW sender \in Wallets,
         NEW x \in Uint128, Deposit(a, sender, x)
  PROVE  EscrowInv'
<1>1. PICK g, list, ts, ks : /\ g = agreements[a] /\ list = agreementTenants[a]
                             /\ ts = tenants[a] /\ ks = claims[a]
  OBVIOUS
<1>2. /\ g \in Agreement /\ ts \in [Wallets -> Tenant] /\ Sound(g, list, ts, ks)
      /\ SumFunction(Dues(g, ts)) \in Int
  BY <1>1, AgreementSound
<1>3. PICK d \in Int : d = x /\ x \in Nat
  BY ConstantsAssumption DEF Uint128
<1>4. g.status = "FUNDING"
  BY <1>1 DEF Deposit, MayDeposit, FundingOpen
<1>5. Fundable(ts[sender], d)
  <2>1. TenantSound(g.status, ts[sender])
    BY <1>2 DEF Sound
  <2>2. ts[sender].fundedAmount \in Int /\ ts[sender].requiredAmount \in Int
    BY <1>2 DEF Tenant
  <2>3. x <= Remaining(ts[sender])
    BY <1>1 DEF Deposit, MayDeposit
  <2> QED BY <1>3, <2>1, <2>2, <2>3 DEF TenantSound, Remaining, Fundable
<1> DEFINE r == FundsTotal(g, d)
           us == FundsTenant(ts, sender, d)
<1>6. /\ r = [g EXCEPT !.totalFunded = g.totalFunded + d]
      /\ us = [ts EXCEPT ![sender] =
                 [ts[sender] EXCEPT !.fundedAmount = ts[sender].fundedAmount + d]]
  BY DEF FundsTotal, FundsTenant
<1>7. /\ r \in Agreement /\ r.status = g.status /\ us \in [Wallets -> Tenant]
      /\ Sound(r, list, us, ks)
      /\ SumFunction(Dues(r, us)) = SumFunction(Dues(g, ts)) + d
  <2>1. g \in Agreement /\ ts \in [Wallets -> Tenant] /\ Sound(g, list, ts, ks)
    BY <1>2
  <2>2. sender \in Wallets /\ d \in Int
    OBVIOUS
  <2> QED BY <1>4, <1>5, <2>1, <2>2, FundingSound
<1> HIDE DEF r, us
<1>8. PICK h : h = CheckAndActivate(r, list, us)
  OBVIOUS
<1>9. Sound(h, list, us, ks) /\ Dues(h, us) = Dues(r, us)
  BY <1>4, <1>7, <1>8, ActivationSound
<1>10. Becomes(a, h, us, ks, d)
  BY <1>1, <1>3, <1>6, <1>8, AgreementSound DEF Deposit, Becomes
<1>11. SumFunction(Dues(h, us)) = SumFunction(Dues(g, ts)) + d
  BY <1>7, <1>9
<1> QED BY <1>1, <1>3, <1>4, <1>9, <1>10, <1>11, CallSound

(* withdrawFundingBeforeActivation takes out what it records.              *)
LEMMA WithdrawFundingSound ==
  ASSUME EscrowInv, TypeOK', NEW a \in AgreementIds, NEW sender \in Wallets,
         NEW x \in Uint128, PaysFunding(a, sender, x)
  PROVE  EscrowInv'
<1>1. PICK g, list, ts, ks : /\ g = agreements[a] /\ list = agreementTenants[a]
                             /\ ts = tenants[a] /\ ks = claims[a]
  OBVIOUS
<1>2. /\ g \in Agreement /\ ts \in [Wallets -> Tenant] /\ Sound(g, list, ts, ks)
      /\ SumFunction(Dues(g, ts)) \in Int /\ balance \in Int
  BY <1>1, AgreementSound
<1>3. PICK d \in Int : d = 0 - x /\ x \in Nat
  BY ConstantsAssumption DEF Uint128
<1>4. g.status = "FUNDING" /\ x <= ts[sender].fundedAmount
  BY <1>1 DEF PaysFunding, WithdrawFundingEffects, MayWithdrawFunding
<1>5. /\ ts[sender].fundedAmount \in Int /\ g.totalFunded \in Int
      /\ Fundable(ts[sender], d)
  <2>1. TenantSound(g.status, ts[sender])
    BY <1>2 DEF Sound
  <2>2. ts[sender].fundedAmount \in Int /\ ts[sender].requiredAmount \in Int
    BY <1>2 DEF Tenant
  <2>3. g.totalFunded \in Int
    BY <1>2, AgreementFields
  <2> QED BY <1>3, <1>4, <2>1, <2>2, <2>3 DEF TenantSound, Fundable
<1> DEFINE h == FundsTotal(g, d)
           us == FundsTenant(ts, sender, d)
<1>6. /\ h = [g EXCEPT !.totalFunded = g.totalFunded + d]
      /\ us = [ts EXCEPT ![sender] =
                 [ts[sender] EXCEPT !.fundedAmount = ts[sender].fundedAmount + d]]
  BY DEF FundsTotal, FundsTenant
<1>7. Sound(h, list, us, ks) /\ SumFunction(Dues(h, us)) = SumFunction(Dues(g, ts)) + d
  BY <1>2, <1>3, <1>4, <1>5, FundingSound
<1> HIDE DEF h, us
<1>8. /\ g.totalFunded - x = g.totalFunded + d
      /\ ts[sender].fundedAmount - x = ts[sender].fundedAmount + d
      /\ balance - x = balance + d
  BY <1>2, <1>3, <1>5
<1>9. Becomes(a, h, us, ks, d)
  <2>1. /\ agreements' = [agreements EXCEPT ![a].totalFunded = @ - x]
        /\ tenants' = [tenants EXCEPT ![a][sender].fundedAmount = @ - x]
        /\ balance' = balance - x
        /\ UNCHANGED <<nextAgreementId, agreementTenants, claims, forced>>
    BY DEF PaysFunding, WithdrawFundingEffects
  <2>2. /\ agreements' = [agreements EXCEPT ![a] = [g EXCEPT !.totalFunded = g.totalFunded - x]]
        /\ tenants' = [tenants EXCEPT ![a] = [ts EXCEPT ![sender] =
                         [ts[sender] EXCEPT !.fundedAmount = ts[sender].fundedAmount - x]]]
    BY <1>1, <2>1
  <2> QED BY <1>1, <1>6, <1>8, <2>1, <2>2, AgreementSound DEF Becomes
<1> QED BY <1>1, <1>3, <1>4, <1>7, <1>9, CallSound

(* withdrawCancelledFunding pays what it marks as paid.                    *)
LEMMA WithdrawCancelledSound ==
  ASSUME EscrowInv, TypeOK', NEW a \in AgreementIds, NEW sender \in Wallets,
         PaysCancelled(a, sender)
  PROVE  EscrowInv'
<1>1. PICK g, list, ts, ks : /\ g = agreements[a] /\ list = agreementTenants[a]
                             /\ ts = tenants[a] /\ ks = claims[a]
  OBVIOUS
<1>2. /\ g \in Agreement /\ ts \in [Wallets -> Tenant] /\ Sound(g, list, ts, ks)
      /\ SumFunction(Dues(g, ts)) \in Int /\ balance \in Int
  BY <1>1, AgreementSound
<1>3. PICK x \in Int : x = ts[sender].fundedAmount
  BY <1>2 DEF Tenant
<1>4. g.status = "CANCELLED" /\ ~ ts[sender].cancelledFundingWithdrawn
  BY <1>1 DEF PaysCancelled, WithdrawCancelledEffects
<1> DEFINE h == ReclaimsTotal(g, x)
           us == Reclaims(ts, sender, x)
<1>5. /\ h = [g EXCEPT !.totalCancelledFundingWithdrawn = g.totalCancelledFundingWithdrawn + x]
      /\ us = [ts EXCEPT ![sender] = [ts[sender] EXCEPT !.cancelledFundingWithdrawn = TRUE,
                                                        !.cancelledFundingWithdrawnAmount = x]]
  BY DEF ReclaimsTotal, Reclaims
<1>6. Sound(h, list, us, ks) /\ SumFunction(Dues(h, us)) = SumFunction(Dues(g, ts)) - x
  BY <1>2, <1>3, <1>4, CancelledPayoutSound
<1> HIDE DEF h, us
<1>7. PICK d \in Int : d = 0 - x
  BY <1>3
<1>8. balance - x = balance + d /\ SumFunction(Dues(h, us)) = SumFunction(Dues(g, ts)) + d
  BY <1>2, <1>3, <1>6, <1>7
<1>9. Becomes(a, h, us, ks, d)
  <2>1. /\ agreements' = [agreements EXCEPT ![a].totalCancelledFundingWithdrawn = @ + x]
        /\ tenants' = [tenants EXCEPT ![a][sender].cancelledFundingWithdrawn = TRUE,
                                      ![a][sender].cancelledFundingWithdrawnAmount = x]
        /\ balance' = balance - x
        /\ UNCHANGED <<nextAgreementId, agreementTenants, claims, forced>>
    BY <1>1, <1>3 DEF PaysCancelled, WithdrawCancelledEffects
  <2>2. /\ agreements' = [agreements EXCEPT ![a] = h]
        /\ tenants' = [tenants EXCEPT ![a] = us]
    BY <1>1, <1>5, <2>1
  <2> QED BY <1>1, <1>8, <2>1, <2>2, AgreementSound DEF Becomes
<1> QED BY <1>1, <1>4, <1>6, <1>8, <1>9, CallSound

(* So does withdrawTenantRefund.                                           *)
LEMMA WithdrawRefundSound ==
  ASSUME EscrowInv, TypeOK', NEW a \in AgreementIds, NEW sender \in Wallets,
         PaysRefund(a, sender)
  PROVE  EscrowInv'
<1>1. PICK g, list, ts, ks : /\ g = agreements[a] /\ list = agreementTenants[a]
                             /\ ts = tenants[a] /\ ks = claims[a]
  OBVIOUS
<1>2. /\ g \in Agreement /\ ts \in [Wallets -> Tenant] /\ Sound(g, list, ts, ks)
      /\ SumFunction(Dues(g, ts)) \in Int /\ balance \in Int
  BY <1>1, AgreementSound
<1>3. PICK x \in Int : x = ts[sender].refundAmount
  BY <1>2 DEF Tenant
<1>4. g.status = "FINALIZED" /\ ~ ts[sender].refundWithdrawn
  BY <1>1 DEF PaysRefund, WithdrawRefundEffects
<1> DEFINE us == TakesRefund(ts, sender)
<1>5. us = [ts EXCEPT ![sender] = [ts[sender] EXCEPT !.refundWithdrawn = TRUE]]
  BY DEF TakesRefund
<1>6. Sound(g, list, us, ks) /\ SumFunction(Dues(g, us)) = SumFunction(Dues(g, ts)) - x
  BY <1>2, <1>3, <1>4, RefundSound
<1> HIDE DEF us
<1>7. PICK d \in Int : d = 0 - x
  BY <1>3
<1>8. balance - x = balance + d /\ SumFunction(Dues(g, us)) = SumFunction(Dues(g, ts)) + d
  BY <1>2, <1>3, <1>6, <1>7
<1>9. Becomes(a, g, us, ks, d)
  <2>1. /\ tenants' = [tenants EXCEPT ![a][sender].refundWithdrawn = TRUE]
        /\ balance' = balance - x
        /\ UNCHANGED <<nextAgreementId, agreements, agreementTenants, claims, forced>>
    BY <1>1, <1>3 DEF PaysRefund, WithdrawRefundEffects
  <2>2. tenants' = [tenants EXCEPT ![a] = us]
    BY <1>1, <1>5, <2>1
  <2> QED BY <1>1, <1>8, <2>1, <2>2, AgreementSound DEF Becomes
<1> QED BY <1>1, <1>4, <1>6, <1>8, <1>9, CallSound

(* So does withdrawRecipientPayout.                                        *)
LEMMA WithdrawPayoutSound ==
  ASSUME EscrowInv, TypeOK', NEW a \in AgreementIds, NEW sender \in Wallets,
         PaysPayout(a, sender)
  PROVE  EscrowInv'
<1>1. PICK g, list, ts, ks : /\ g = agreements[a] /\ list = agreementTenants[a]
                             /\ ts = tenants[a] /\ ks = claims[a]
  OBVIOUS
<1>2. /\ g \in Agreement /\ ts \in [Wallets -> Tenant] /\ Sound(g, list, ts, ks)
      /\ SumFunction(Dues(g, ts)) \in Int /\ balance \in Int
  BY <1>1, AgreementSound
<1>3. PICK x \in Int : x = g.totalApprovedClaims
  BY <1>2, AgreementFields
<1>4. g.status = "FINALIZED" /\ ~ g.recipientPayoutWithdrawn
  BY <1>1 DEF PaysPayout, WithdrawPayoutEffects
<1> DEFINE h == TakesPayout(g)
<1>5. h = [g EXCEPT !.recipientPayoutWithdrawn = TRUE]
  BY DEF TakesPayout
<1>6. Sound(h, list, ts, ks) /\ SumFunction(Dues(h, ts)) = SumFunction(Dues(g, ts)) - x
  BY <1>2, <1>3, <1>4, PayoutSound
<1> HIDE DEF h
<1>7. PICK d \in Int : d = 0 - x
  BY <1>3
<1>8. balance - x = balance + d /\ SumFunction(Dues(h, ts)) = SumFunction(Dues(g, ts)) + d
  BY <1>2, <1>3, <1>6, <1>7
<1>9. Becomes(a, h, ts, ks, d)
  <2>1. /\ agreements' = [agreements EXCEPT ![a].recipientPayoutWithdrawn = TRUE]
        /\ balance' = balance - x
        /\ UNCHANGED <<nextAgreementId, agreementTenants, tenants, claims, forced>>
    BY <1>1, <1>3 DEF PaysPayout, WithdrawPayoutEffects
  <2>2. agreements' = [agreements EXCEPT ![a] = h]
    BY <1>1, <1>5, <2>1
  <2> QED BY <1>1, <1>8, <2>1, <2>2, AgreementSound DEF Becomes
<1> QED BY <1>1, <1>4, <1>6, <1>8, <1>9, CallSound

(* A claim leaves PENDING unapproved: its reservation is released.         *)
LEMMA DismissSound ==
  ASSUME EscrowInv, TypeOK', NEW a \in AgreementIds, NEW c \in ClaimIds, NEW k \in Claim,
         NEW status \in {"REJECTED", "WITHDRAWN"},
         agreements[a].status = "ACTIVE", claims[a][c].status = "PENDING",
         SameTerms(claims[a][c], k), Dismiss(a, c, k, status),
         UNCHANGED <<nextAgreementId, agreementTenants, balance, forced>>
  PROVE  EscrowInv'
<1>1. PICK g, list, ts, ks : /\ g = agreements[a] /\ list = agreementTenants[a]
                             /\ ts = tenants[a] /\ ks = claims[a]
  OBVIOUS
<1>2. /\ g \in Agreement /\ ts \in [Wallets -> Tenant] /\ ks \in [ClaimIds -> Claim]
      /\ Sound(g, list, ts, ks) /\ SumFunction(Dues(g, ts)) \in Int /\ balance \in Int
  BY <1>1, AgreementSound
<1>3. g.status = "ACTIVE" /\ ks[c].status = "PENDING" /\ SameTerms(ks[c], k)
  BY <1>1
<1> DEFINE h == DismissesTotal(g, k)
           us == Releases(ts, k)
           ls == Lists(ks, c, Resolved(k, status))
<1>4. Sound(h, list, us, ls) /\ SumFunction(Dues(h, us)) = SumFunction(Dues(g, ts))
  BY <1>2, <1>3, DismissalSound
<1>5. /\ h = [g EXCEPT !.unresolvedClaimCount = g.unresolvedClaimCount - 1,
                       !.totalOpenClaimAmount = g.totalOpenClaimAmount - k.amount]
      /\ ls = [ks EXCEPT ![c] = [k EXCEPT !.status = status]]
  BY DEF DismissesTotal, Lists, Resolved
<1> HIDE DEF h, ls
<1>6. Becomes(a, h, us, ls, 0)
  <2>1. /\ agreements' = [agreements EXCEPT ![a].unresolvedClaimCount = @ - 1,
                                            ![a].totalOpenClaimAmount = @ - k.amount]
        /\ tenants' = [tenants EXCEPT ![a] = Releases(@, k)]
        /\ claims' = [claims EXCEPT ![a][c] = [k EXCEPT !.status = status]]
    BY DEF Dismiss
  <2>2. /\ agreements' = [agreements EXCEPT ![a] = h]
        /\ tenants' = [tenants EXCEPT ![a] = us]
        /\ claims' = [claims EXCEPT ![a] = ls]
    BY <1>1, <1>5, <2>1
  <2> QED BY <1>2, <2>2 DEF Becomes
<1> HIDE DEF us
<1>7. SumFunction(Dues(h, us)) = SumFunction(Dues(g, ts)) + 0
  BY <1>2, <1>4
<1> QED BY <1>1, <1>3, <1>4, <1>6, <1>7, CallSound

(* A claim is approved: its reservation becomes a deduction.               *)
LEMMA ApproveSound ==
  ASSUME EscrowInv, TypeOK', NEW a \in AgreementIds, NEW c \in ClaimIds, NEW k \in Claim,
         agreements[a].status = "ACTIVE", claims[a][c].status = "PENDING",
         SameTerms(claims[a][c], k), ApproveClaim(a, c, k),
         UNCHANGED <<nextAgreementId, agreementTenants, balance, forced>>
  PROVE  EscrowInv'
<1>1. PICK g, list, ts, ks : /\ g = agreements[a] /\ list = agreementTenants[a]
                             /\ ts = tenants[a] /\ ks = claims[a]
  OBVIOUS
<1>2. /\ g \in Agreement /\ ts \in [Wallets -> Tenant] /\ ks \in [ClaimIds -> Claim]
      /\ Sound(g, list, ts, ks) /\ SumFunction(Dues(g, ts)) \in Int /\ balance \in Int
  BY <1>1, AgreementSound
<1>3. g.status = "ACTIVE" /\ ks[c].status = "PENDING" /\ SameTerms(ks[c], k)
  BY <1>1
<1> DEFINE h == Approves(g, k)
           us == Deducts(ts, k)
           ls == Lists(ks, c, Resolved(k, "APPROVED"))
<1>4. Sound(h, list, us, ls) /\ SumFunction(Dues(h, us)) = SumFunction(Dues(g, ts))
  BY <1>2, <1>3, ApprovalSound
<1>5. ls = [ks EXCEPT ![c] = [k EXCEPT !.status = "APPROVED"]]
  BY DEF Lists, Resolved
<1> HIDE DEF ls
<1>6. Becomes(a, h, us, ls, 0)
  <2>1. /\ agreements' = [agreements EXCEPT ![a] = Approves(@, k)]
        /\ claims' = [claims EXCEPT ![a][c] = [k EXCEPT !.status = "APPROVED"]]
    BY DEF ApproveClaim
  <2>2. /\ agreements' = [agreements EXCEPT ![a] = h]
        /\ claims' = [claims EXCEPT ![a] = ls]
    BY <1>1, <1>5, <2>1
  <2>3. tenants' = [tenants EXCEPT ![a] = us]
    <3>1. CASE k.claimType = "INDIVIDUAL"
      <4> DEFINE w == k.liableTenant
      <4>1. tenants' = [tenants EXCEPT ![a][w].openIndividualClaimAmount = @ - k.amount,
                                       ![a][w].approvedIndividualClaims = @ + k.amount]
        BY <3>1 DEF ApproveClaim
      <4>2. us = [ts EXCEPT ![w] =
                    [ts[w] EXCEPT
                       !.openIndividualClaimAmount = ts[w].openIndividualClaimAmount - k.amount,
                       !.approvedIndividualClaims = ts[w].approvedIndividualClaims + k.amount]]
        BY <3>1 DEF Deducts
      <4> HIDE DEF us, w
      <4> QED BY <1>1, <4>1, <4>2
    <3>2. CASE k.claimType # "INDIVIDUAL"
      <4>1. tenants' = tenants /\ us = ts
        BY <3>2 DEF ApproveClaim, Deducts
      <4> HIDE DEF us
      <4> QED BY <1>1, <4>1, AgreementSound
    <3> QED BY <3>1, <3>2
  <2> QED BY <1>2, <2>2, <2>3 DEF Becomes
<1> HIDE DEF h, us
<1>7. SumFunction(Dues(h, us)) = SumFunction(Dues(g, ts)) + 0
  BY <1>2, <1>4
<1> QED BY <1>1, <1>3, <1>4, <1>6, <1>7, CallSound

(* withdrawPendingClaim.                                                   *)
LEMMA WithdrawClaimSound ==
  ASSUME EscrowInv, TypeOK', NEW a \in AgreementIds, NEW sender \in Wallets,
         NEW c \in ClaimIds, WithdrawPendingClaim(a, sender, c)
  PROVE  EscrowInv'
<1>1. claims[a][c] \in Claim /\ SameTerms(claims[a][c], claims[a][c])
  BY AgreementSound DEF SameTerms
<1> QED BY <1>1, DismissSound DEF WithdrawPendingClaim

(* finalizePendingClaim.                                                   *)
LEMMA FinalizeClaimSound ==
  ASSUME EscrowInv, TypeOK', NEW a \in AgreementIds, NEW sender \in Wallets,
         NEW c \in ClaimIds, FinalizePendingClaim(a, sender, c)
  PROVE  EscrowInv'
<1>1. claims[a][c] \in Claim /\ SameTerms(claims[a][c], claims[a][c])
  BY AgreementSound DEF SameTerms
<1> QED BY <1>1, DismissSound, ApproveSound DEF FinalizePendingClaim

(* voteClaim, with the resolution it may bring.                            *)
LEMMA VotingSound ==
  ASSUME EscrowInv, TypeOK', NEW a \in AgreementIds, NEW sender \in Wallets,
         NEW c \in ClaimIds, NEW support \in BOOLEAN, VoteClaim(a, sender, c, support)
  PROVE  EscrowInv'
<1> DEFINE k == IF support THEN [claims[a][c] EXCEPT !.yesVotes = @ + 1]
                           ELSE [claims[a][c] EXCEPT !.noVotes = @ + 1]
<1>1. k \in Claim /\ SameTerms(claims[a][c], k)
  <2>1. claims[a][c] \in Claim
    BY AgreementSound
  <2>2. k \in Claim
    BY <2>1, ClaimUpdates
  <2>3. SameTerms(claims[a][c], k)
    BY <2>1 DEF SameTerms, Claim
  <2> QED BY <2>2, <2>3
<1>2. /\ agreements[a].status = "ACTIVE" /\ claims[a][c].status = "PENDING"
      /\ UNCHANGED <<nextAgreementId, agreementTenants, balance, forced>>
      /\ \/ ApproveClaim(a, c, k)
         \/ Dismiss(a, c, k, "REJECTED")
         \/ claims' = [claims EXCEPT ![a][c] = k] /\ UNCHANGED <<agreements, tenants>>
  BY DEF VoteClaim, VotingOpen
<1> HIDE DEF k
<1>3. CASE ApproveClaim(a, c, k)
  BY <1>1, <1>2, <1>3, ApproveSound
<1>4. CASE Dismiss(a, c, k, "REJECTED")
  BY <1>1, <1>2, <1>4, DismissSound
<1>5. CASE claims' = [claims EXCEPT ![a][c] = k] /\ UNCHANGED <<agreements, tenants>>
  <2>1. PICK g, list, ts, ks : /\ g = agreements[a] /\ list = agreementTenants[a]
                               /\ ts = tenants[a] /\ ks = claims[a]
    OBVIOUS
  <2>2. /\ g \in Agreement /\ ts \in [Wallets -> Tenant] /\ ks \in [ClaimIds -> Claim]
        /\ Sound(g, list, ts, ks) /\ SumFunction(Dues(g, ts)) \in Int /\ balance \in Int
    BY <2>1, AgreementSound
  <2> DEFINE ls == Lists(ks, c, k)
  <2>3. Sound(g, list, ts, ls)
    BY <1>1, <2>1, <2>2, VoteSound
  <2>4. ls = [ks EXCEPT ![c] = k]
    BY DEF Lists
  <2> HIDE DEF ls
  <2>5. Becomes(a, g, ts, ls, 0)
    <3>1. claims' = [claims EXCEPT ![a] = ls]
      BY <1>5, <2>1, <2>4
    <3>2. UNCHANGED <<nextAgreementId, agreementTenants, forced, agreements, tenants>>
      BY <1>2, <1>5
    <3>3. balance' = balance + 0
      BY <1>2, <2>2
    <3>4. agreements' = [agreements EXCEPT ![a] = g] /\ tenants' = [tenants EXCEPT ![a] = ts]
      BY <2>1, <3>2, AgreementSound
    <3> QED BY <3>1, <3>2, <3>3, <3>4 DEF Becomes
  <2>6. SumFunction(Dues(g, ts)) = SumFunction(Dues(g, ts)) + 0
    BY <2>2
  <2> QED BY <1>2, <2>1, <2>3, <2>5, <2>6, CallSound
<1> QED BY <1>2, <1>3, <1>4, <1>5

(* submitClaim.                                                            *)
LEMMA SubmitSound ==
  ASSUME EscrowInv, TypeOK', NEW a \in AgreementIds, NEW sender \in Wallets,
         NEW type \in ClaimType, NEW liable \in Wallets \cup {NoWallet}, NEW x \in Uint128,
         NEW reason, NEW evidence,
         SubmitClaim(a, sender, type, liable, x, reason, evidence)
  PROVE  EscrowInv'
<1>1. PICK g, list, ts, ks : /\ g = agreements[a] /\ list = agreementTenants[a]
                             /\ ts = tenants[a] /\ ks = claims[a]
  OBVIOUS
<1>2. /\ g \in Agreement /\ ts \in [Wallets -> Tenant] /\ ks \in [ClaimIds -> Claim]
      /\ Sound(g, list, ts, ks) /\ SumFunction(Dues(g, ts)) \in Int /\ balance \in Int
  BY <1>1, AgreementSound
<1>3. PICK d \in Nat : d = x
  BY ConstantsAssumption DEF Uint128
<1> DEFINE c == g.claimCount + 1
           k == [BlankClaim EXCEPT !.liableTenant = liable, !.amount = x,
                                   !.claimType = type, !.status = "PENDING"]
<1>4. k \in Claim /\ k.status = "PENDING" /\ k.amount = d /\ k.claimType = type
      /\ k.liableTenant = liable
  <2>1. k \in Claim
    <3>1. x \in Int
      BY <1>3
    <3> QED BY <3>1 DEF BlankClaim, Claim, ClaimStatus, ClaimType
  <2> QED BY <1>3, <2>1 DEF BlankClaim
<1>5. /\ g.status = "ACTIVE" /\ FitsDeposit(g, d) /\ g.claimCount + 1 \in ClaimIds
      /\ agreements' = [agreements EXCEPT ![a].claimCount = c, ![a].unresolvedClaimCount = @ + 1,
                                          ![a].totalOpenClaimAmount = @ + d]
      /\ claims' = [claims EXCEPT ![a][c] = k]
      /\ UNCHANGED <<nextAgreementId, agreementTenants, balance, forced>>
  <2>1. g.claimCount \in 0 .. MAX_CLAIMS /\ g.claimCount < MAX_CLAIMS
    BY <1>1, <1>2 DEF SubmitClaim, HasClaimIdsLeft, Agreement
  <2>2. g.claimCount + 1 \in ClaimIds
    BY <2>1, ConstantsAssumption DEF ClaimIds
  <2> QED BY <1>1, <1>3, <2>2 DEF SubmitClaim
<1> HIDE DEF k
<1> DEFINE h == ReservesTotal(g, d)
           ls == Lists(ks, g.claimCount + 1, k)
<1>6. /\ agreements' = [agreements EXCEPT ![a] = h]
      /\ claims' = [claims EXCEPT ![a] = ls]
  BY <1>1, <1>5 DEF ReservesTotal, Lists
<1> HIDE DEF c
<1>0. UNCHANGED <<nextAgreementId, agreementTenants, forced>> /\ balance' = balance + 0
  BY <1>2, <1>5
<1>7. CASE type = "SHARED" /\ UNCHANGED tenants
  <2>1. Sound(h, list, ts, ls) /\ SumFunction(Dues(h, ts)) = SumFunction(Dues(g, ts))
    BY <1>2, <1>4, <1>5, <1>7, SubmissionSound
  <2> HIDE DEF h, ls
  <2>2. Becomes(a, h, ts, ls, 0)
    <3>1. tenants' = [tenants EXCEPT ![a] = ts]
      BY <1>1, <1>7, AgreementSound
    <3> QED BY <1>0, <1>6, <3>1 DEF Becomes
  <2>3. SumFunction(Dues(h, ts)) = SumFunction(Dues(g, ts)) + 0
    BY <1>2, <2>1
  <2> QED BY <1>1, <1>5, <2>1, <2>2, <2>3, CallSound
<1>8. CASE /\ type = "INDIVIDUAL" /\ liable # NoWallet
           /\ tenants[a][liable].exists /\ FitsTenant(tenants[a][liable], x)
           /\ tenants' = [tenants EXCEPT ![a][liable].openIndividualClaimAmount = @ + x]
  <2> DEFINE us == Reserves(ts, liable, d)
  <2>1. liable \in Wallets /\ ts[liable].exists /\ FitsTenant(ts[liable], d)
    BY <1>1, <1>3, <1>8
  <2>2. Sound(h, list, us, ls) /\ SumFunction(Dues(h, us)) = SumFunction(Dues(g, ts))
    BY <1>2, <1>4, <1>5, <2>1, SubmissionSound
  <2>3. tenants' = [tenants EXCEPT ![a] = us]
    BY <1>1, <1>3, <1>8 DEF Reserves
  <2> HIDE DEF h, ls, us
  <2>4. Becomes(a, h, us, ls, 0)
    BY <1>0, <1>6, <2>3 DEF Becomes
  <2>5. SumFunction(Dues(h, us)) = SumFunction(Dues(g, ts)) + 0
    BY <1>2, <2>2
  <2> QED BY <1>1, <1>5, <2>2, <2>4, <2>5, CallSound
<1> QED BY <1>7, <1>8 DEF SubmitClaim

(* What StoredRefunds writes is what FinalizationSound is about.           *)
LEMMA StoredRefundsAre ==
  ASSUME EscrowInv, NEW a \in AgreementIds
  PROVE  LET n == Len(agreementTenants[a])
             remaining == RemainingBalances(a)
         IN  /\ n \in Nat /\ agreementTenants[a] \in [1 .. n -> Wallets]
             /\ remaining \in [1 .. n -> Int]
             /\ LeftWith(n, agreementTenants[a], tenants[a], remaining)
             /\ RefundsStored(n, agreementTenants[a], tenants[a],
                              Refunds(remaining, agreements[a].sharedApprovedClaims),
                              StoredRefunds(a))
<1> DEFINE list == agreementTenants[a]
           n == Len(list)
           ts == tenants[a]
           refunds == Refunds(RemainingBalances(a), agreements[a].sharedApprovedClaims)
<1>1. /\ n \in Nat /\ list \in [1 .. n -> Wallets] /\ RemainingBalances(a) \in [1 .. n -> Int]
  BY RemainingTyped DEF EscrowInv
<1>2. LeftWith(n, list, ts, RemainingBalances(a))
  BY <1>1 DEF LeftWith, RemainingBalances
<1>3. ListSound(list, ts)
  BY AgreementSound DEF Sound
<1>4. \A w \in Wallets :
        StoredRefunds(a)[w] = IF w \in Range(list)
                              THEN [ts[w] EXCEPT !.refundAmount =
                                      refunds[CHOOSE i \in DOMAIN list : list[i] = w]]
                              ELSE ts[w]
  BY DEF StoredRefunds
<1> HIDE DEF list, n, ts, refunds
<1>5. DOMAIN list = 1 .. n
  BY <1>1
<1>6. ASSUME NEW w \in Wallets \ Listed(list, 1 .. n)
      PROVE  StoredRefunds(a)[w] = ts[w]
  <2>1. w \notin Range(list)
    BY <1>5 DEF Listed, Range
  <2> QED BY <1>4, <2>1
<1>7. ASSUME NEW i \in 1 .. n
      PROVE  StoredRefunds(a)[list[i]] = [ts[list[i]] EXCEPT !.refundAmount = refunds[i]]
  <2>1. PICK w \in Wallets : w = list[i]
    BY <1>1
  <2>2. w \in Range(list)
    BY <1>5, <2>1 DEF Range
  <2> DEFINE j == CHOOSE j \in DOMAIN list : list[j] = w
  <2>3. j \in 1 .. n /\ list[j] = w
    BY <1>5, <2>1
  <2>4. StoredRefunds(a)[w] = [ts[w] EXCEPT !.refundAmount = refunds[j]]
    BY <1>4, <2>2
  <2> HIDE DEF j
  <2>5. j = i
    BY <1>3, <1>5, <2>1, <2>3 DEF ListSound
  <2> QED BY <2>1, <2>4, <2>5
<1>8. RefundsStored(n, list, ts, refunds, StoredRefunds(a))
  BY <1>6, <1>7 DEF RefundsStored
<1> QED BY <1>1, <1>2, <1>8 DEF list, n, ts, refunds

(* finalizeAgreement.                                                      *)
LEMMA FinalizeSound ==
  ASSUME EscrowInv, TypeOK', NEW a \in AgreementIds, FinalizeAgreement(a)
  PROVE  EscrowInv'
<1>1. PICK g, list, ts, ks : /\ g = agreements[a] /\ list = agreementTenants[a]
                             /\ ts = tenants[a] /\ ks = claims[a]
  OBVIOUS
<1>2. /\ g \in Agreement /\ ts \in [Wallets -> Tenant] /\ Sound(g, list, ts, ks)
      /\ SumFunction(Dues(g, ts)) \in Int /\ balance \in Int
  BY <1>1, AgreementSound
<1>3. PICK n, remaining, us :
        /\ n = Len(list) /\ remaining = RemainingBalances(a) /\ us = StoredRefunds(a)
  OBVIOUS
<1>4. /\ n \in Nat /\ list \in [1 .. n -> Wallets] /\ remaining \in [1 .. n -> Int]
      /\ LeftWith(n, list, ts, remaining)
      /\ RefundsStored(n, list, ts, Refunds(remaining, g.sharedApprovedClaims), us)
  BY <1>1, <1>3, StoredRefundsAre
<1>5. g.status = "ACTIVE" /\ g.sharedApprovedClaims <= TotalRemaining(remaining)
  BY <1>1, <1>3 DEF FinalizeAgreement, Settles
<1>6. us \in [Wallets -> Tenant]
  <2>1. tenants' = [tenants EXCEPT ![a] = us]
    BY <1>3 DEF FinalizeAgreement
  <2>2. tenants'[a] \in [Wallets -> Tenant]
    BY DEF TypeOK
  <2>3. DOMAIN tenants = AgreementIds
    BY DEF EscrowInv, TypeOK
  <2> QED BY <2>1, <2>2, <2>3
<1> DEFINE h == Finalized(g)
<1>7. Sound(h, list, us, ks) /\ SumFunction(Dues(h, us)) = SumFunction(Dues(g, ts))
  BY <1>2, <1>4, <1>5, <1>6, FinalizationSound
<1>8. h = [g EXCEPT !.status = "FINALIZED"]
  BY DEF Finalized
<1> HIDE DEF h
<1>9. Becomes(a, h, us, ks, 0)
  <2>1. /\ agreements' = [agreements EXCEPT ![a].status = "FINALIZED"]
        /\ tenants' = [tenants EXCEPT ![a] = us]
        /\ UNCHANGED <<nextAgreementId, agreementTenants, claims, balance, forced>>
    BY <1>3 DEF FinalizeAgreement
  <2>2. agreements' = [agreements EXCEPT ![a] = h]
    BY <1>1, <1>8, <2>1
  <2>3. claims' = [claims EXCEPT ![a] = ks] /\ balance' = balance + 0
    BY <1>1, <1>2, <2>1, AgreementSound
  <2> QED BY <2>1, <2>2, <2>3 DEF Becomes
<1>10. SumFunction(Dues(h, us)) = SumFunction(Dues(g, ts)) + 0
  BY <1>2, <1>7
<1> QED BY <1>1, <1>5, <1>7, <1>9, <1>10, CallSound

(* What the contract holds beyond the forced money does not change when    *)
(* both grow by the same amount.                                           *)
LEMMA Carried ==
  ASSUME NEW b \in Int, NEW f \in Int, NEW c \in Int, NEW d \in Int, NEW m \in Int,
         c - d = b - f, b = f + m
  PROVE  c = d + m
OBVIOUS

(* Steps that touch no record: time passes, money is forced in, nothing.   *)
LEMMA IdleSound ==
  ASSUME EscrowInv, TypeOK', UNCHANGED storage, balance' - forced' = balance - forced
  PROVE  EscrowInv'
<1>1. /\ balance \in Int /\ balance' \in Int /\ forced \in Int /\ forced' \in Int
  BY ConstantsAssumption DEF EscrowInv, TypeOK
<1>2. UNCHANGED <<nextAgreementId, agreements, agreementTenants, tenants, claims>>
  BY DEF storage
<1> DEFINE held == SumFunction([a \in AgreementIds |->
                                  SumFunction([w \in Wallets |-> Owed(a, w)])])
<1>3. UNCHANGED held
  BY <1>2 DEF Owed
<1>4. held \in Int
  <2> DEFINE each == [a \in AgreementIds |-> SumFunction(Dues(agreements[a], tenants[a]))]
  <2>1. each \in [AgreementIds -> Int]
    BY AgreementSound
  <2>2. \A a : Dues(agreements[a], tenants[a]) = [w \in Wallets |-> Owed(a, w)]
    BY OwedIsDue DEF Dues
  <2>3. held = SumFunction(each)
    BY <2>2
  <2>4. IsFiniteSet(AgreementIds)
    BY FS_Interval, ConstantsAssumption DEF AgreementIds
  <2> HIDE DEF each
  <2>5. SumFunction(each) = SumFunctionOnSet(each, AgreementIds)
    BY <2>1, SumDomain
  <2>6. SumFunctionOnSet(each, AgreementIds) \in Int
    BY <2>1, <2>4, SumInt
  <2> QED BY <2>3, <2>5, <2>6
<1>5. PICK m \in Int : m = held
  BY <1>4
<1>6. Solvent'
  <2>1. balance = forced + m
    BY <1>5 DEF EscrowInv, Solvent
  <2>2. held' = m
    BY <1>3, <1>5
  <2>3. balance' = forced' + m
    <3>1. balance' - forced' = balance - forced
      OBVIOUS
    <3>2. PICK b \in Int, f \in Int, c \in Int, d \in Int :
            b = balance /\ f = forced /\ c = balance' /\ d = forced'
      BY <1>1
    <3>3. c - d = b - f
      BY <3>1, <3>2
    <3>4. b = f + m
      BY <2>1, <3>2
    <3>5. c = d + m
      BY <3>3, <3>4, Carried
    <3> QED BY <3>2, <3>5
  <2> QED BY <2>2, <2>3 DEF Solvent
<1>7. \A a \in AgreementIds : Unused(a)' <=> Unused(a)
  BY <1>2 DEF Unused
<1> QED BY <1>2, <1>6, <1>7 DEF EscrowInv

(* Every step keeps the invariant.                                         *)
LEMMA StepSound == EscrowInv /\ EscrowStep => EscrowInv'
<1> SUFFICES ASSUME EscrowInv, EscrowStep PROVE EscrowInv'
  OBVIOUS
<1>1. TypeOK'
  BY StepTyped DEF EscrowInv
<1>2. ASSUME NEW w \in Wallets, UnguardedCall(w)
      PROVE  EscrowInv'
  BY <1>1, <1>2, CreateSound, AcceptSound, AcceptRecipientSound, DepositSound, CancelSound,
     SubmitSound, WithdrawClaimSound, VotingSound, FinalizeClaimSound, FinalizeSound
     DEF UnguardedCall
<1>3. ASSUME NEW w \in Wallets, Pays(w)
      PROVE  EscrowInv'
  BY <1>1, <1>3, WithdrawFundingSound, WithdrawCancelledSound, WithdrawRefundSound,
     WithdrawPayoutSound DEF Pays
<1>4. CASE Tick
  <2>1. UNCHANGED storage /\ balance' - forced' = balance - forced
    BY <1>4 DEF Tick
  <2> QED BY <1>1, <2>1, IdleSound
<1>5. ASSUME NEW x \in 1 .. MaxForced, ForceSend(x)
      PROVE  EscrowInv'
  <2>1. balance \in Int /\ forced \in Int /\ x \in Int
    BY ConstantsAssumption DEF EscrowInv, TypeOK
  <2>2. UNCHANGED storage /\ balance' - forced' = balance - forced
    BY <1>5, <2>1 DEF ForceSend
  <2> QED BY <1>1, <2>2, IdleSound
<1>6. CASE UNCHANGED vars
  <2>1. UNCHANGED storage /\ balance' - forced' = balance - forced
    BY <1>6 DEF vars, storage
  <2> QED BY <1>1, <2>1, IdleSound
<1> QED BY <1>2, <1>3, <1>4, <1>5, <1>6 DEF EscrowStep

-----------------------------------------------------------------------------
(* The theorems                                                            *)

(* So the invariant holds in every reachable state.                        *)
LEMMA EscrowAlwaysSound == Spec => []EscrowInv
BY InitSound, StepSound, NextIsStep, PTL DEF Spec

(* At every moment the contract holds exactly what it owes, over all       *)
(* agreements, plus what was forced in, so no withdrawal it allows lacks   *)
(* the money and no agreement pays for another: for any wallets,           *)
(* proposals, amounts and number of agreements.                            *)
THEOREM Solvency == Spec => []Solvent
<1>1. EscrowInv => Solvent
  BY DEF EscrowInv
<1> QED BY <1>1, EscrowAlwaysSound, PTL

(* The totals of the invariant are those of FundingBooks.                  *)
LEMMA RecordsGiveFunding == EscrowInv => FundingBooks
<1>1. ASSUME EscrowInv, NEW a \in AgreementIds
      PROVE  /\ TotalsSound(agreements[a], tenants[a])
             /\ \A w \in Wallets : TenantSound(agreements[a].status, tenants[a][w])
  BY <1>1, AgreementSound DEF Sound
<1> QED BY <1>1 DEF FundingBooks, TotalsSound, TenantSound, Required, Funded, Returned

(* The agreement's funding totals are the sums of its tenants' records,    *)
(* through every deposit, early withdrawal and cancelled payout.           *)
THEOREM FundingBooksHold == Spec => []FundingBooks
BY RecordsGiveFunding, EscrowAlwaysSound, PTL

(* What the tenants have left covers the shared claims of an agreement.    *)
LEMMA SharedClaimsFit ==
  ASSUME EscrowInv, NEW a \in AgreementIds
  PROVE  /\ agreements[a].sharedApprovedClaims \in Nat
         /\ agreements[a].sharedApprovedClaims <= TotalRemaining(RemainingBalances(a))
<1>1. PICK g, list, ts, ks : /\ g = agreements[a] /\ list = agreementTenants[a]
                             /\ ts = tenants[a] /\ ks = claims[a]
  OBVIOUS
<1>2. /\ g \in Agreement /\ ts \in [Wallets -> Tenant] /\ ks \in [ClaimIds -> Claim]
      /\ Sound(g, list, ts, ks)
  BY <1>1, AgreementSound
<1>3. PICK n, remaining : n = Len(list) /\ remaining = RemainingBalances(a)
  OBVIOUS
<1>4. /\ n \in Nat /\ list \in [1 .. n -> Wallets] /\ remaining \in [1 .. n -> Int]
      /\ LeftWith(n, list, ts, remaining)
  BY <1>1, <1>3, StoredRefundsAre
<1>5. SumFunction(Funded(ts)) = TotalRemaining(remaining) + SumFunction(Deducted(ts))
  BY <1>2, <1>4, WhatIsLeft DEF Sound, LeftWith
<1>6. g.totalOpenClaimAmount \in Nat
  <2>1. ASSUME NEW c \in ClaimIds PROVE Open(ks)[c] \in Nat
    <3>1. ClaimSound(g.claimCount, ts, ks[c], c) /\ ks[c].amount \in Int
      BY <1>2, ClaimUpdates DEF Sound
    <3> QED BY <3>1 DEF ClaimSound, Open, Reserved
  <2>2. IsFiniteSet(ClaimIds)
    BY FS_Interval, ConstantsAssumption DEF ClaimIds
  <2>3. Open(ks) \in [ClaimIds -> Int]
    BY <2>1 DEF Open
  <2>4. SumFunction(Open(ks)) = SumFunctionOnSet(Open(ks), ClaimIds)
    BY <2>3, SumDomain
  <2>5. SumFunctionOnSet(Open(ks), ClaimIds) \in Nat
    BY <2>1, <2>2, SumNat
  <2> QED BY <1>2, <2>4, <2>5 DEF Sound
<1>7. RecordSound(g) /\ TotalsSound(g, ts)
  BY <1>2 DEF Sound
<1>8. /\ SumFunction(Funded(ts)) \in Int /\ SumFunction(Deducted(ts)) \in Int
      /\ g.sharedApprovedClaims \in Int
  BY <1>2, ColumnsTyped, AgreementFields
<1>9. TotalRemaining(remaining) \in Int
  BY <1>4, SumOfSequence DEF TotalRemaining
<1> QED BY <1>1, <1>3, <1>5, <1>6, <1>7, <1>8, <1>9 DEF RecordSound, TotalsSound

(* And the reservations are covered.                                       *)
LEMMA RecordsGiveCover == EscrowInv => ClaimsCovered
<1>1. ASSUME EscrowInv, NEW a \in AgreementIds
      PROVE  /\ RecordSound(agreements[a])
             /\ \A w \in Wallets : TenantSound(agreements[a].status, tenants[a][w])
             /\ Settles(RemainingBalances(a), agreements[a].sharedApprovedClaims)
  <2>1. Sound(agreements[a], agreementTenants[a], tenants[a], claims[a])
    BY <1>1, AgreementSound
  <2>2. Settles(RemainingBalances(a), agreements[a].sharedApprovedClaims)
    BY <1>1, SharedClaimsFit, StoredRefundsAre, NeverDefensive
  <2> QED BY <2>1, <2>2 DEF Sound
<1> QED BY <1>1 DEF ClaimsCovered, RecordSound, TenantSound

(* Claims never reserve more than was deposited, in total or against one   *)
(* tenant, and an active agreement can always be settled: neither of the   *)
(* two defensive reverts of finalizeAgreement can be reached.              *)
THEOREM ClaimsAlwaysCovered == Spec => []ClaimsCovered
BY RecordsGiveCover, EscrowAlwaysSound, PTL
=============================================================================
