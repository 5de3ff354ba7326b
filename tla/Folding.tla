------------------------------- MODULE Folding -------------------------------
(***************************************************************************)
(* What every fold of the community modules keeps: FoldLeft, FoldSet and   *)
(* FoldFunction all are MapThenFoldSet.  An invariant of its steps holds   *)
(* of its result.  A module that is to reason about a fold instantiates    *)
(* this one with its operator, and with an invariant of its own that says  *)
(* what the fold has made of the elements it has taken so far.  The        *)
(* parameter c is what operator and invariant depend on besides.           *)
(***************************************************************************)
EXTENDS Integers, FiniteSets, Folds, FiniteSetTheorems, WellFoundedInduction, TLAPS

CONSTANTS
    Op(_, _, _),    \* of c, an element and what was made of the others
    F(_, _),        \* the elements, by what they are taken for
    Pick(_),        \* the one of a set that is taken last
    Base(_),
    Inv(_, _, _)    \* of c, what was taken and what was made of it

Fold(c, S) == MapThenFoldSet(LAMBDA e, x : Op(c, e, x), Base(c), LAMBDA i : F(c, i), Pick, S)

-----------------------------------------------------------------------------
\* The induction: a set of subsets of a finite set has a smallest one, and a set
\* of numbers a smallest number.
LEMMA SmallestSubset ==
    ASSUME NEW S, IsFiniteSet(S), NEW U, U \subseteq SUBSET S, U # {}
    PROVE  \E T \in U : \A V \in U : V \subseteq T => V = T
<1> DEFINE R == StrictSubsetOrdering(S)
<1>1. U \subseteq FiniteSubsetsOf(S)
    BY FS_FiniteSubsetsOfFinite
<1>2. IsWellFoundedOn(R, FiniteSubsetsOf(S))
    BY FS_StrictSubsetOrderingWellFounded
<1>3. \E T \in U : \A V \in U : ~(<<V, T>> \in R)
    <2> HIDE DEF R
    <2> QED BY <1>1, <1>2, WFMin
<1>4. \A V, T \in U : V \subseteq T /\ V # T => <<V, T>> \in R
    BY DEF StrictSubsetOrdering
<1> QED BY <1>3, <1>4

LEMMA SmallestNumber ==
    ASSUME NEW U, U \subseteq Nat, U # {}
    PROVE  \E m \in U : \A k \in U : m <= k
<1> DEFINE R == OpToRel(<, Nat)
<1>1. IsWellFoundedOn(R, Nat)
    BY NatLessThanWellFounded
<1>2. \E x \in U : \A y \in U : ~ (<<y, x>> \in R)
    <2> HIDE DEF R
    <2> QED BY <1>1, WFMin
<1>3. R = {ss \in Nat \X Nat : ss[1] < ss[2]}
    BY DEF OpToRel
<1>4. \A x, y \in Nat : y < x => <<y, x>> \in R
    <2> HIDE DEF R
    <2> QED BY <1>3
<1> HIDE DEF R
<1>5. PICK m \in U : \A y \in U : ~ (<<y, m>> \in R)
    BY <1>2
<1>6. \A y \in U : ~(y < m)
    BY <1>4, <1>5
<1> QED BY <1>6

\* Of the numbers up to n some have a largest one: the first of n - k.
LEMMA LargestNumber ==
    ASSUME NEW n \in Nat, NEW T \in SUBSET (1 .. n), T # {}
    PROVE  \E m \in T : \A k \in T : m >= k
<1> DEFINE U == {n - k : k \in T}
<1>1. U \subseteq Nat /\ U # {}
    <2>1. \A k \in T : k \in Int /\ n - k \in Nat
        OBVIOUS
    <2>2. U \subseteq Nat
        BY <2>1
    <2>3. PICK k \in T : TRUE
        OBVIOUS
    <2>4. n - k \in U
        OBVIOUS
    <2> QED BY <2>2, <2>4
<1>2. PICK m \in U : \A k \in U : m <= k
    <2> HIDE DEF U
    <2> QED BY <1>1, SmallestNumber
<1>3. PICK t \in T : m = n - t
    BY <1>2
<1>4. \A k \in T : n - k \in U
    OBVIOUS
<1>5. ASSUME NEW k \in T PROVE t >= k
    <2>1. m <= n - k
        BY <1>2, <1>4
    <2> QED BY <1>3, <2>1
<1> QED BY <1>5

-----------------------------------------------------------------------------
\* The function by which MapThenFoldSet is defined.
Rec(c, S, g) ==
    [T \in SUBSET S |-> IF T = {} THEN Base(c) ELSE Op(c, F(c, Pick(T)), g[T \ {Pick(T)}])]

\* There is such a function: on sets of n elements at most, for every n.
LEMMA RecIsDefined ==
    ASSUME NEW c, NEW S, IsFiniteSet(S), \A T \in SUBSET S : T # {} => Pick(T) \in T
    PROVE  \E g : g = Rec(c, S, g)
<1> DEFINE D(n) == {T \in SUBSET S : Cardinality(T) <= n}
           Val(g, T) == IF T = {} THEN Base(c) ELSE Op(c, F(c, Pick(T)), g[T \ {Pick(T)}])
           Good(n) == \E g : g = [T \in D(n) |-> Val(g, T)]
           Bad == {n \in Nat : ~Good(n)}
<1>0. \A T \in SUBSET S : IsFiniteSet(T) /\ Cardinality(T) \in Nat
    BY FS_Subset, FS_CardinalityType
<1>1. ASSUME NEW T \in SUBSET S, T # {}
      PROVE  /\ T \ {Pick(T)} \in SUBSET S
             /\ Cardinality(T) # 0
             /\ Cardinality(T \ {Pick(T)}) = Cardinality(T) - 1
    BY <1>0, <1>1, FS_EmptySet, FS_RemoveElement
<1>2. Good(0)
    <2>1. ASSUME NEW T \in D(0) PROVE T = {}
        <3>1. T \in SUBSET S /\ Cardinality(T) = 0
            BY <1>0
        <3> QED BY <1>0, <3>1, FS_EmptySet
    <2> DEFINE g == [T \in D(0) |-> Base(c)]
    <2>2. g = [T \in D(0) |-> Val(g, T)]
        BY <2>1
    <2> QED BY <2>2
<1>3. ASSUME NEW n \in Nat, Good(n) PROVE Good(n + 1)
    <2>1. PICK g : g = [T \in D(n) |-> Val(g, T)]
        BY <1>3
    <2> DEFINE h == [T \in D(n + 1) |-> IF T \in D(n) THEN g[T] ELSE Val(g, T)]
    <2>2. ASSUME NEW T \in D(n + 1), T # {} PROVE T \ {Pick(T)} \in D(n) /\ T \ {Pick(T)} \in D(n + 1)
        BY <1>0, <1>1, <2>2
    <2>3. \A T \in D(n) : T \in D(n + 1)
        BY <1>0
    <2>4. \A T \in D(n) : h[T] = g[T]
        BY <2>3
    <2>5. ASSUME NEW T \in D(n + 1) PROVE h[T] = Val(h, T)
        <3>1. CASE T \in D(n)
            <4>1. h[T] = Val(g, T)
                BY <2>1, <2>4, <3>1
            <4>2. T # {} => g[T \ {Pick(T)}] = h[T \ {Pick(T)}]
                BY <2>2, <2>4
            <4> HIDE DEF h, D
            <4> QED BY <4>1, <4>2
        <3>2. CASE T \notin D(n)
            <4>1. h[T] = Val(g, T)
                BY <3>2
            <4>2. T # {} => g[T \ {Pick(T)}] = h[T \ {Pick(T)}]
                BY <2>2, <2>4
            <4> HIDE DEF h, D
            <4> QED BY <4>1, <4>2
        <3> QED BY <3>1, <3>2
    <2>6. h = [T \in D(n + 1) |-> h[T]]
        OBVIOUS
    <2>7. h = [T \in D(n + 1) |-> Val(h, T)]
        <3> HIDE DEF h, D, Val
        <3> QED BY <2>5, <2>6
    <2> HIDE DEF h, D, Val
    <2> QED BY <2>7
<1>4. Bad = {}
    <2> SUFFICES ASSUME Bad # {} PROVE FALSE
        OBVIOUS
    <2> HIDE DEF Good
    <2>1. PICK m \in Bad : \A k \in Bad : m <= k
        BY SmallestNumber
    <2>2. m # 0 /\ m \in Nat
        BY <1>2
    <2>3. m - 1 \in Nat /\ m - 1 \notin Bad
        BY <2>1, <2>2
    <2>4. Good((m - 1) + 1)
        BY <1>3, <2>3
    <2>5. (m - 1) + 1 = m
        BY <2>2
    <2> QED BY <2>4, <2>5
<1>5. Cardinality(S) \in Nat
    BY FS_CardinalityType
<1>6. D(Cardinality(S)) = SUBSET S
    BY FS_Subset
<1>7. Good(Cardinality(S))
    <2> HIDE DEF Good
    <2> QED BY <1>4, <1>5
<1> HIDE DEF D
<1> QED BY <1>6, <1>7 DEF Rec

\* An invariant that holds of the base and nothing, and that each element keeps,
\* holds of the fold and all elements, whatever order they are taken in.
THEOREM FoldKeeps ==
    ASSUME NEW c, NEW S, IsFiniteSet(S), \A T \in SUBSET S : T # {} => Pick(T) \in T,
           Inv(c, {}, Base(c)),
           \A T \in SUBSET S : \A x : T # {} /\ Inv(c, T \ {Pick(T)}, x) => Inv(c, T, Op(c, F(c, Pick(T)), x))
    PROVE  Inv(c, S, Fold(c, S))
<1> DEFINE iter == CHOOSE g : g = Rec(c, S, g)
           Bad == {T \in SUBSET S : ~Inv(c, T, iter[T])}
<1>1. iter = Rec(c, S, iter)
    BY RecIsDefined
<1>2. Fold(c, S) = iter[S]
    BY DEF Fold, MapThenFoldSet, Rec
<1> HIDE DEF iter
<1>3. \A T \in SUBSET S : iter[T] = IF T = {} THEN Base(c) ELSE Op(c, F(c, Pick(T)), iter[T \ {Pick(T)}])
    BY <1>1 DEF Rec
<1>4. ~ \E T \in Bad : \A V \in Bad : V \subseteq T => V = T
    <2> SUFFICES ASSUME NEW T \in Bad, \A V \in Bad : V \subseteq T => V = T PROVE FALSE
        OBVIOUS
    <2>1. T # {}
        BY <1>3
    <2>2. T \ {Pick(T)} \notin Bad
        BY <2>1
    <2>3. Inv(c, T \ {Pick(T)}, iter[T \ {Pick(T)}])
        BY <2>2
    <2>4. T \in SUBSET S /\ ~Inv(c, T, iter[T])
        OBVIOUS
    <2>5. iter[T] = Op(c, F(c, Pick(T)), iter[T \ {Pick(T)}])
        BY <1>3, <2>1, <2>4
    <2> HIDE DEF Bad
    <2> QED BY <2>1, <2>3, <2>4, <2>5
<1>5. Bad = {}
    <2> HIDE DEF Bad
    <2>1. Bad \subseteq SUBSET S
        BY DEF Bad
    <2> QED BY <1>4, <2>1, SmallestSubset
<1> QED BY <1>2, <1>5
=============================================================================
