-------------------------------- MODULE Sums --------------------------------
(***************************************************************************)
(* What MapThenSumSet of the community modules computes over a finite set. *)
(*                                                                         *)
(* It is a recursive function on the subsets of the set, which takes one   *)
(* element at a time away, the one that CHOOSE names.  The lemmas show     *)
(* that the function exists and is the only one, that the sum of natural   *)
(* numbers is one, and that the order of the elements does not matter:     *)
(* another element adds its own weight.  Induction is by a smallest        *)
(* counterexample, since strict inclusion of finite sets is well-founded.  *)
(* In the same way a finite set of numbers has a largest member and a      *)
(* smallest one.                                                           *)
(***************************************************************************)
EXTENDS Integers, FiniteSets, FiniteSetsExt, FiniteSetTheorems,
        WellFoundedInduction, TLAPS

SumOver(w, S) == MapThenSumSet(LAMBDA x : w[x], S)

Taken(s) == CHOOSE x \in s : TRUE

AddsUp(g, w, S) ==
    g = [s \in SUBSET S |-> IF s = {} THEN 0 ELSE w[Taken(s)] + g[s \ {Taken(s)}]]

LEMMA SumUnfolds ==
    ASSUME NEW w, NEW S
    PROVE  SumOver(w, S) = (CHOOSE g : AddsUp(g, w, S))[S]
  BY DEF SumOver, MapThenSumSet, MapThenFoldSet, AddsUp, Taken

LEMMA TakenIsIn ==
    ASSUME NEW s, s # {}
    PROVE  Taken(s) \in s
  BY DEF Taken

\* A set of subsets of a finite set has a member that includes no other.
LEMMA SmallestSet ==
    ASSUME NEW S, IsFiniteSet(S), NEW F, F \subseteq SUBSET S, F # {}
    PROVE  \E s \in F : \A t \in F : ~(t \subseteq s /\ t # s)
<1>1. IsWellFoundedOn(StrictSubsetOrdering(S), SUBSET S)
  BY FS_StrictSubsetOrderingWellFounded, FS_FiniteSubsetsOfFinite, Zenon
<1>2. PICK s \in F : \A t \in F : <<t, s>> \notin StrictSubsetOrdering(S)
  BY <1>1, WFMin
<1>3. ASSUME NEW t \in F, t \subseteq s, t # s PROVE FALSE
  <2>1. <<t, s>> \in (SUBSET S) \X (SUBSET S)
    OBVIOUS
  <2>2. <<t, s>> \in StrictSubsetOrdering(S)
    BY <1>3, <2>1 DEF StrictSubsetOrdering
  <2> QED
    BY <1>2, <2>2
<1> QED
  BY <1>2, <1>3

-----------------------------------------------------------------------------
\* Unrolled once.
LEMMA AddsUpAt ==
    ASSUME NEW w, NEW S, NEW g, AddsUp(g, w, S), NEW s \in SUBSET S
    PROVE  g[s] = IF s = {} THEN 0 ELSE w[Taken(s)] + g[s \ {Taken(s)}]
  BY DEF AddsUp

\* The function depends on the weights of the elements only, and on a part
\* of the set it is the function of that part.
LEMMA AddsUpAgree ==
    ASSUME NEW S, IsFiniteSet(S), NEW T \in SUBSET S, NEW w, NEW v,
           \A x \in T : w[x] = v[x],
           NEW g, AddsUp(g, w, S), NEW h, AddsUp(h, v, T), NEW s \in SUBSET T
    PROVE  g[s] = h[s]
<1> DEFINE Bad == {t \in SUBSET T : g[t] # h[t]}
<1>1. SUFFICES ASSUME Bad # {} PROVE FALSE
  OBVIOUS
<1>2. IsFiniteSet(T)
  BY FS_Subset
<1>3. PICK t \in Bad : \A u \in Bad : ~(u \subseteq t /\ u # t)
  <2>1. Bad \subseteq SUBSET T
    OBVIOUS
  <2> HIDE DEF Bad
  <2> QED
    BY <1>1, <1>2, <2>1, SmallestSet
<1>4. t \in SUBSET T /\ t \in SUBSET S
  OBVIOUS
<1>5. /\ g[t] = IF t = {} THEN 0 ELSE w[Taken(t)] + g[t \ {Taken(t)}]
      /\ h[t] = IF t = {} THEN 0 ELSE v[Taken(t)] + h[t \ {Taken(t)}]
  BY <1>4, AddsUpAt
<1>6. t # {}
  BY <1>3, <1>5
<1>7. Taken(t) \in t /\ Taken(t) \in T
  BY <1>4, <1>6, TakenIsIn
<1>8. t \ {Taken(t)} \notin Bad
  BY <1>3, <1>7
<1>9. g[t \ {Taken(t)}] = h[t \ {Taken(t)}]
  BY <1>4, <1>8
<1> QED
  BY <1>3, <1>5, <1>6, <1>7, <1>9

LEMMA AddsUpRestricted ==
    ASSUME NEW w, NEW S, NEW g, AddsUp(g, w, S), NEW T \in SUBSET S
    PROVE  AddsUp([s \in SUBSET T |-> g[s]], w, T)
<1> DEFINE h == [s \in SUBSET T |-> g[s]]
<1>1. ASSUME NEW s \in SUBSET T
      PROVE  h[s] = IF s = {} THEN 0 ELSE w[Taken(s)] + h[s \ {Taken(s)}]
  <2>1. s \in SUBSET S /\ s \ {Taken(s)} \in SUBSET T
    OBVIOUS
  <2>2. g[s] = IF s = {} THEN 0 ELSE w[Taken(s)] + g[s \ {Taken(s)}]
    BY <2>1, AddsUpAt
  <2> QED
    BY <2>1, <2>2
<1>2. h = [s \in SUBSET T |-> h[s]]
  OBVIOUS
<1> HIDE DEF h
<1>3. AddsUp(h, w, T)
  BY <1>1, <1>2 DEF AddsUp
<1> QED
  BY <1>3 DEF h

\* There is such a function.
LEMMA AddsUpExists ==
    ASSUME NEW w, NEW S, IsFiniteSet(S)
    PROVE  \E g : AddsUp(g, w, S)
<1> DEFINE Bad == {T \in SUBSET S : ~\E g : AddsUp(g, w, T)}
<1>1. SUFFICES ASSUME Bad # {} PROVE FALSE
  OBVIOUS
<1>2. PICK T \in Bad : \A U \in Bad : ~(U \subseteq T /\ U # T)
  <2>1. Bad \subseteq SUBSET S
    OBVIOUS
  <2> HIDE DEF Bad
  <2> QED
    BY <1>1, <2>1, SmallestSet
<1>3. T \in SUBSET S /\ IsFiniteSet(T) /\ ~\E g : AddsUp(g, w, T)
  BY FS_Subset
<1> DEFINE Some(U) == CHOOSE g : AddsUp(g, w, U)
<1>4. ASSUME NEW U \in SUBSET T, U # T
      PROVE  AddsUp(Some(U), w, U)
  <2>1. U \notin Bad
    BY <1>2, <1>4
  <2>2. \E g : AddsUp(g, w, U)
    BY <1>3, <2>1
  <2> QED
    BY <2>2, Zenon
<1> DEFINE total == [U \in SUBSET T |-> Some(U)[U]]
           h == [s \in SUBSET T |->
                    IF s = {} THEN 0 ELSE w[Taken(s)] + total[s \ {Taken(s)}]]
<1> HIDE DEF Some, Bad
<1>5. ASSUME NEW s \in SUBSET T, s # T
      PROVE  h[s] = total[s]
  <2>1. AddsUp(Some(s), w, s) /\ total[s] = Some(s)[s]
    BY <1>4, <1>5
  <2>2. Some(s)[s] = IF s = {} THEN 0 ELSE w[Taken(s)] + Some(s)[s \ {Taken(s)}]
    BY <2>1, AddsUpAt
  <2>3. CASE s = {}
    BY <2>1, <2>2, <2>3
  <2>4. CASE s # {}
    <3> DEFINE u == s \ {Taken(s)}
    <3>1. Taken(s) \in s
      BY <2>4, TakenIsIn
    <3>2. u \in SUBSET T /\ u # T /\ u \in SUBSET s /\ IsFiniteSet(s)
      BY <1>3, <3>1, FS_Subset
    <3> HIDE DEF u
    <3>3. AddsUp(Some(u), w, u)
      BY <1>4, <3>2
    <3>4. Some(s)[u] = Some(u)[u]
      BY <2>1, <3>2, <3>3, AddsUpAgree
    <3>5. total[u] = Some(u)[u]
      BY <3>2
    <3>6. Some(s)[s] = w[Taken(s)] + Some(s)[u]
      BY <2>2, <2>4 DEF u
    <3>7. h[s] = w[Taken(s)] + total[u]
      BY <2>4 DEF u
    <3> QED
      BY <2>1, <3>4, <3>5, <3>6, <3>7
  <2> QED
    BY <2>3, <2>4
<1>6. ASSUME NEW s \in SUBSET T
      PROVE  h[s] = IF s = {} THEN 0 ELSE w[Taken(s)] + h[s \ {Taken(s)}]
  <2>1. CASE s = {}
    BY <2>1
  <2>2. CASE s # {}
    <3>1. Taken(s) \in s
      BY <2>2, TakenIsIn
    <3>2. s \ {Taken(s)} \in SUBSET T /\ s \ {Taken(s)} # T
      BY <3>1
    <3>3. h[s \ {Taken(s)}] = total[s \ {Taken(s)}]
      BY <1>5, <3>2
    <3>4. h[s] = w[Taken(s)] + total[s \ {Taken(s)}]
      BY <2>2
    <3> HIDE DEF h, total
    <3> QED
      BY <2>2, <3>3, <3>4
  <2> QED
    BY <2>1, <2>2
<1>7. h = [s \in SUBSET T |-> h[s]]
  OBVIOUS
<1> HIDE DEF h
<1>8. AddsUp(h, w, T)
  BY <1>6, <1>7 DEF AddsUp
<1> QED
  BY <1>3, <1>8

-----------------------------------------------------------------------------
\* The sum is what any such function gives for the whole set.
LEMMA SumIs ==
    ASSUME NEW w, NEW S, IsFiniteSet(S), NEW g, AddsUp(g, w, S)
    PROVE  SumOver(w, S) = g[S]
<1> DEFINE f == CHOOSE h : AddsUp(h, w, S)
<1>1. AddsUp(f, w, S)
  BY Zenon
<1>2. SumOver(w, S) = f[S]
  BY SumUnfolds
<1> HIDE DEF f
<1>3. f[S] = g[S]
  BY <1>1, AddsUpAgree
<1> QED
  BY <1>2, <1>3

\* Equal weights have equal sums.
LEMMA SumSame ==
    ASSUME NEW S, IsFiniteSet(S), NEW w, NEW v, \A x \in S : w[x] = v[x]
    PROVE  SumOver(w, S) = SumOver(v, S)
<1>1. PICK g : AddsUp(g, w, S)
  BY AddsUpExists
<1>2. PICK T \in SUBSET S : T = S
  OBVIOUS
<1>3. PICK h : AddsUp(h, v, T)
  BY <1>2, AddsUpExists
<1>4. T \in SUBSET T /\ \A x \in T : w[x] = v[x]
  BY <1>2
<1>5. g[T] = h[T]
  BY <1>1, <1>3, <1>4, AddsUpAgree
<1> QED
  BY <1>1, <1>2, <1>3, <1>5, SumIs

\* Unrolled once, in terms of sums.
LEMMA SumTakes ==
    ASSUME NEW S, IsFiniteSet(S), NEW w
    PROVE  SumOver(w, S) = IF S = {} THEN 0
                           ELSE w[Taken(S)] + SumOver(w, S \ {Taken(S)})
<1> DEFINE T == S \ {Taken(S)}
<1>1. PICK g : AddsUp(g, w, S)
  BY AddsUpExists
<1>2. IsFiniteSet(T) /\ T \in SUBSET S /\ T \in SUBSET T
  BY FS_Subset
<1>3. PICK h : AddsUp(h, w, T)
  BY <1>2, AddsUpExists
<1>4. g[T] = h[T]
  <2>1. \A x \in T : w[x] = w[x]
    OBVIOUS
  <2> HIDE DEF T
  <2> QED
    BY <1>1, <1>2, <1>3, <2>1, AddsUpAgree
<1>5. SumOver(w, S) = g[S] /\ SumOver(w, T) = h[T]
  BY <1>1, <1>2, <1>3, SumIs
<1>6. g[S] = IF S = {} THEN 0 ELSE w[Taken(S)] + g[T]
  BY <1>1 DEF AddsUp
<1> QED
  BY <1>4, <1>5, <1>6

\* The sum over no elements is zero, over natural numbers a natural number.
LEMMA SumOfNone ==
    ASSUME NEW w
    PROVE  SumOver(w, {}) = 0
  BY SumTakes, FS_EmptySet

LEMMA SumIsNatural ==
    ASSUME NEW S, IsFiniteSet(S), NEW w, \A x \in S : w[x] \in Nat
    PROVE  SumOver(w, S) \in Nat
<1> DEFINE Bad == {T \in SUBSET S : SumOver(w, T) \notin Nat}
<1>1. SUFFICES ASSUME Bad # {} PROVE FALSE
  OBVIOUS
<1>2. PICK T \in Bad : \A U \in Bad : ~(U \subseteq T /\ U # T)
  <2>1. Bad \subseteq SUBSET S
    OBVIOUS
  <2> HIDE DEF Bad
  <2> QED
    BY <1>1, <2>1, SmallestSet
<1>3. T \in SUBSET S /\ SumOver(w, T) \notin Nat
  OBVIOUS
<1>4. IsFiniteSet(T)
  BY <1>3, FS_Subset
<1>5. SumOver(w, T) = IF T = {} THEN 0 ELSE w[Taken(T)] + SumOver(w, T \ {Taken(T)})
  BY <1>4, SumTakes
<1>6. T # {}
  BY <1>3, <1>5
<1>7. Taken(T) \in T
  BY <1>6, TakenIsIn
<1>8. T \ {Taken(T)} \notin Bad
  BY <1>2, <1>7
<1>9. SumOver(w, T \ {Taken(T)}) \in Nat
  BY <1>3, <1>8
<1>10. w[Taken(T)] \in Nat
  BY <1>3, <1>7
<1> QED
  BY <1>3, <1>5, <1>6, <1>9, <1>10

\* Another element adds its weight, whichever CHOOSE takes first.
LEMMA SumAdds ==
    ASSUME NEW S, IsFiniteSet(S), NEW w, \A x \in S : w[x] \in Nat, NEW y \in S
    PROVE  SumOver(w, S) = w[y] + SumOver(w, S \ {y})
<1> DEFINE Bad == {T \in SUBSET S :
                      \E z \in T : SumOver(w, T) # w[z] + SumOver(w, T \ {z})}
<1>1. SUFFICES ASSUME Bad # {} PROVE FALSE
  OBVIOUS
<1>2. PICK T \in Bad : \A U \in Bad : ~(U \subseteq T /\ U # T)
  <2>1. Bad \subseteq SUBSET S
    OBVIOUS
  <2> HIDE DEF Bad
  <2> QED
    BY <1>1, <2>1, SmallestSet
<1>3. PICK z \in T : SumOver(w, T) # w[z] + SumOver(w, T \ {z})
  OBVIOUS
<1>4. T \in SUBSET S /\ IsFiniteSet(T)
  BY FS_Subset
<1>5. ASSUME NEW U \in SUBSET T, U # T, NEW x \in U
      PROVE  SumOver(w, U) = w[x] + SumOver(w, U \ {x})
  <2>1. U \notin Bad /\ U \in SUBSET S
    BY <1>2, <1>4, <1>5
  <2> QED
    BY <2>1
<1> DEFINE p == Taken(T)
<1> HIDE DEF Bad
<1>6. p \in T /\ SumOver(w, T) = w[p] + SumOver(w, T \ {p})
  BY <1>4, TakenIsIn, SumTakes
<1> HIDE DEF p
<1>7. p # z
  BY <1>3, <1>6
<1> DEFINE U == T \ {p}
           V == T \ {z}
           W == T \ {p, z}
<1>8. U \in SUBSET T /\ U # T /\ z \in U /\ U \ {z} = W
  BY <1>6, <1>7
<1>9. V \in SUBSET T /\ V # T /\ p \in V /\ V \ {p} = W
  BY <1>6, <1>7
<1>10. SumOver(w, U) = w[z] + SumOver(w, W) /\ SumOver(w, V) = w[p] + SumOver(w, W)
  <2> HIDE DEF U, V, W
  <2> QED
    BY <1>5, <1>8, <1>9
<1>11. w[z] \in Nat /\ w[p] \in Nat /\ SumOver(w, W) \in Nat
  <2>1. W \in SUBSET S /\ IsFiniteSet(W) /\ z \in S /\ p \in S
    BY <1>4, <1>6, FS_Subset
  <2> HIDE DEF W
  <2> QED
    BY <2>1, SumIsNatural
<1> QED
  BY <1>3, <1>6, <1>10, <1>11

-----------------------------------------------------------------------------
\* The image of a finite set is finite.
LEMMA FiniteImage ==
    ASSUME NEW S, IsFiniteSet(S), NEW f
    PROVE  IsFiniteSet({f[x] : x \in S}) /\ Cardinality({f[x] : x \in S}) <= Cardinality(S)
<1> DEFINE T == {f[x] : x \in S}
           g == [x \in S |-> f[x]]
<1>1. g \in Surjection(S, T)
  BY DEF Surjection
<1> QED
  BY <1>1, FS_Surjection

\* A finite set of numbers has a largest one.
LEMMA LargestOfFinite ==
    ASSUME NEW S, S \subseteq Int, S # {}, IsFiniteSet(S)
    PROVE  Max(S) \in S /\ \A y \in S : Max(S) >= y
<1> DEFINE Up(x) == {y \in S : y >= x}
           Ups == {Up(x) : x \in S}
<1>1. Ups \subseteq SUBSET S
  OBVIOUS
<1>2. Ups # {}
  <2>1. PICK x : x \in S
    OBVIOUS
  <2>2. Up(x) \in Ups
    BY <2>1
  <2> QED
    BY <2>2
<1>3. PICK U \in Ups : \A V \in Ups : ~(V \subseteq U /\ V # U)
  <2>1. PICK T : T = S
    OBVIOUS
  <2>2. IsFiniteSet(T) /\ Ups \subseteq SUBSET T
    BY <1>1, <2>1
  <2> HIDE DEF Ups
  <2> QED
    BY <1>2, <2>2, SmallestSet
<1>4. PICK x \in S : U = Up(x)
  OBVIOUS
<1>5. ASSUME NEW y \in S, ~(x >= y) PROVE FALSE
  <2>1. x \in Int /\ y \in Int
    OBVIOUS
  <2>2. x \in Up(x) /\ x \notin Up(y)
    BY <1>5, <2>1
  <2>3. ASSUME NEW z \in Up(y) PROVE z \in Up(x)
    <3>1. z \in S /\ z \in Int /\ z >= y
      OBVIOUS
    <3> QED
      BY <1>5, <2>1, <3>1
  <2>4. Up(y) \in Ups
    OBVIOUS
  <2> HIDE DEF Up, Ups
  <2> QED
    BY <1>3, <1>4, <2>2, <2>3, <2>4
<1>6. \A y \in S : x >= y
  BY <1>5
<1> QED
  BY <1>6 DEF Max

\* And a smallest one.
LEMMA SmallestOfFinite ==
    ASSUME NEW S, S \subseteq Int, S # {}, IsFiniteSet(S)
    PROVE  Min(S) \in S /\ \A y \in S : Min(S) =< y
<1> DEFINE minus == [x \in S |-> -x]
           T == {minus[x] : x \in S}
<1>1. T \subseteq Int /\ T # {} /\ IsFiniteSet(T)
  <2>1. T \subseteq Int /\ T # {}
    <3>1. PICK x : x \in S
      OBVIOUS
    <3>2. minus[x] \in T
      BY <3>1
    <3>3. ASSUME NEW y \in S PROVE minus[y] \in Int
      OBVIOUS
    <3> HIDE DEF minus
    <3> QED
      BY <3>2, <3>3
  <2>2. IsFiniteSet(T)
    <3> HIDE DEF minus
    <3> QED
      BY FiniteImage
  <2> QED
    BY <2>1, <2>2
<1>2. Max(T) \in T /\ \A y \in T : Max(T) >= y
  <2> HIDE DEF T
  <2> QED
    BY <1>1, LargestOfFinite
<1>3. PICK x \in S : Max(T) = -x
  BY <1>2
<1>4. ASSUME NEW y \in S PROVE x =< y
  <2>1. -y \in T
    OBVIOUS
  <2>2. -x >= -y
    BY <1>2, <1>3, <2>1
  <2>3. x \in Int /\ y \in Int
    OBVIOUS
  <2> QED
    BY <2>2, <2>3
<1> QED
  BY <1>4 DEF Min

\* The larger and the smaller one of two numbers.
LEMMA TwoMax ==
    ASSUME NEW x \in Int, NEW y \in Int
    PROVE  Max({x, y}) = IF x >= y THEN x ELSE y
<1>1. {x, y} \subseteq Int /\ {x, y} # {}
  OBVIOUS
<1>2. IsFiniteSet({x, y})
  <2>1. IsFiniteSet({y})
    BY FS_Singleton
  <2>2. {x, y} = {y} \cup {x}
    OBVIOUS
  <2> QED
    BY <2>1, <2>2, FS_AddElement
<1>3. Max({x, y}) \in {x, y} /\ \A z \in {x, y} : Max({x, y}) >= z
  BY <1>1, <1>2, LargestOfFinite
<1> QED
  BY <1>3

LEMMA TwoMin ==
    ASSUME NEW x \in Int, NEW y \in Int
    PROVE  Min({x, y}) = IF x >= y THEN y ELSE x
<1>1. {x, y} \subseteq Int /\ {x, y} # {}
  OBVIOUS
<1>2. IsFiniteSet({x, y})
  <2>1. IsFiniteSet({y})
    BY FS_Singleton
  <2>2. {x, y} = {y} \cup {x}
    OBVIOUS
  <2> QED
    BY <2>1, <2>2, FS_AddElement
<1>3. Min({x, y}) \in {x, y} /\ \A z \in {x, y} : Min({x, y}) =< z
  BY <1>1, <1>2, SmallestOfFinite
<1> QED
  BY <1>3

LEMMA MaxOfTwo ==
    ASSUME NEW a \in Int, NEW b \in Int
    PROVE  Max({a, b}) \in Int /\ Max({a, b}) >= a /\ Max({a, b}) >= b
  BY TwoMax

==============================================================================
