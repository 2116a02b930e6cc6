----------------------------- MODULE QueueLemmas -----------------------------
(***************************************************************************)
(* Facts about the data the components are built from: sets of numbers,    *)
(* queues whose elements are all different, induction stated about sets,   *)
(* and folds over finite sets.                                             *)
(***************************************************************************)
EXTENDS Integers, Sequences, SequencesExt, FiniteSets, FiniteSetsExt, Functions,
        FiniteSetTheorems, SequenceTheorems, TLAPS

\* A set of naturals has a least element.
LEMMA LeastExists ==
    ASSUME NEW S \in SUBSET Nat, S # {}
    PROVE  \E x \in S : \A y \in S : x <= y
<1> DEFINE R == OpToRel(<, Nat)
<1>1. IsWellFoundedOn(R, Nat)
  BY NatLessThanWellFounded
<1>2. \A x, y \in S : <<y, x>> \in R <=> y < x
  BY DEF OpToRel
<1> HIDE DEF R
<1>3. PICK x \in S : \A y \in S : ~ (<<y, x>> \in R)
  BY <1>1, WFMin
<1>4. ASSUME NEW y \in S PROVE x <= y
  <2>1. ~ (y < x) /\ x \in Nat /\ y \in Nat
    BY <1>2, <1>3
  <2> QED
    BY <2>1
<1> QED
  BY <1>4

\* Min is one of the elements ...
LEMMA MinIsIn ==
    ASSUME NEW S \in SUBSET Nat, S # {}
    PROVE  Min(S) \in S
BY LeastExists DEF Min

\* ... and no element is less.
LEMMA MinIsLeast ==
    ASSUME NEW S \in SUBSET Nat, S # {}
    PROVE  \A x \in S : Min(S) <= x
<1> SUFFICES ASSUME NEW x \in S PROVE Min(S) <= x
  OBVIOUS
<1>1. \E m \in S : \A y \in S : m <= y
  BY LeastExists
<1> QED
  BY <1>1 DEF Min

\* Taking the first element of a queue shifts the others.
LEMMA TailShift ==
    ASSUME NEW S, NEW q \in Seq(S), q # <<>>
    PROVE  /\ Tail(q) \in Seq(S) /\ Len(Tail(q)) = Len(q) - 1
           /\ Head(q) = q[1] /\ Head(q) \in S /\ 1 \in DOMAIN q
           /\ \A i \in DOMAIN Tail(q) :
                Tail(q)[i] = q[i + 1] /\ i + 1 \in DOMAIN q /\ i + 1 # 1
           /\ \A i \in DOMAIN q : i = 1 \/ \E j \in DOMAIN Tail(q) : i = j + 1
<1>1. Len(q) \in Nat \ {0} /\ DOMAIN q = 1..Len(q)
  OBVIOUS
<1>2. /\ Tail(q) \in Seq(S) /\ Len(Tail(q)) = Len(q) - 1
      /\ DOMAIN Tail(q) = 1..(Len(q) - 1)
      /\ \A i \in 1..(Len(q) - 1) : Tail(q)[i] = q[i + 1]
  OBVIOUS
<1>3. ASSUME NEW i \in DOMAIN q, i # 1 PROVE \E j \in DOMAIN Tail(q) : i = j + 1
  <2>1. i - 1 \in DOMAIN Tail(q) /\ i = (i - 1) + 1
    BY <1>1, <1>2, <1>3
  <2> QED
    BY <2>1
<1>4. \A i \in DOMAIN Tail(q) : i + 1 \in DOMAIN q /\ i + 1 # 1
  BY <1>1, <1>2
<1>5. Head(q) = q[1] /\ Head(q) \in S /\ 1 \in DOMAIN q
  BY <1>1
<1> QED
  BY <1>1, <1>2, <1>3, <1>4, <1>5

\* A queue's head leaves it; elements that were different stay so.
LEMMA TailDistinct ==
    ASSUME NEW S, NEW q \in Seq(S), q # <<>>, IsInjective(q)
    PROVE  /\ IsInjective(Tail(q)) /\ Head(q) \in ToSet(q)
           /\ ToSet(Tail(q)) = ToSet(q) \ {Head(q)}
<1>1. /\ Head(q) = q[1] /\ 1 \in DOMAIN q
      /\ \A i \in DOMAIN Tail(q) : Tail(q)[i] = q[i + 1] /\ i + 1 \in DOMAIN q /\ i + 1 # 1
      /\ \A i \in DOMAIN q : i = 1 \/ \E j \in DOMAIN Tail(q) : i = j + 1
  BY TailShift
<1>2. DOMAIN Tail(q) \subseteq Int
  BY TailShift
<1>3. ASSUME NEW i \in DOMAIN Tail(q), NEW j \in DOMAIN Tail(q), Tail(q)[i] = Tail(q)[j]
      PROVE  i = j
  <2>1. i + 1 = j + 1
    BY <1>1, <1>3 DEF IsInjective
  <2> QED
    BY <1>2, <2>1
<1>4. ToSet(Tail(q)) \subseteq ToSet(q) \ {Head(q)}
  <2>1. ASSUME NEW i \in DOMAIN Tail(q) PROVE Tail(q)[i] \in ToSet(q) /\ Tail(q)[i] # Head(q)
    BY <1>1 DEF IsInjective, ToSet
  <2> QED
    BY <2>1 DEF ToSet
<1>5. ToSet(q) \ {Head(q)} \subseteq ToSet(Tail(q))
  <2>1. ASSUME NEW i \in DOMAIN q, q[i] # Head(q) PROVE q[i] \in ToSet(Tail(q))
    BY <1>1, <2>1 DEF ToSet
  <2> QED
    BY <2>1 DEF ToSet
<1>6. IsInjective(Tail(q))
  BY <1>3 DEF IsInjective
<1>7. Head(q) \in ToSet(q)
  BY <1>1 DEF ToSet
<1> QED
  BY <1>4, <1>5, <1>6, <1>7

\* The elements of a sequence and the one added at its end.
LEMMA Appended ==
    ASSUME NEW S, NEW q \in Seq(S), NEW x \in S
    PROVE  /\ Append(q, x) \in Seq(S) /\ Len(q) \in Nat /\ Len(Append(q, x)) = Len(q) + 1
           /\ DOMAIN q = 1..Len(q) /\ DOMAIN Append(q, x) = 1..(Len(q) + 1)
           /\ Append(q, x)[Len(q) + 1] = x /\ \A i \in 1..Len(q) : Append(q, x)[i] = q[i]
OBVIOUS

\* A new element joins a queue at its end.
LEMMA AppendDistinct ==
    ASSUME NEW S, NEW q \in Seq(S), NEW x \in S
    PROVE  /\ Append(q, x) \in Seq(S) /\ Len(Append(q, x)) = Len(q) + 1
           /\ ToSet(Append(q, x)) = ToSet(q) \cup {x}
           /\ IsInjective(q) /\ x \notin ToSet(q) => IsInjective(Append(q, x))
<1> DEFINE p == Append(q, x)
<1>1. /\ p \in Seq(S) /\ Len(q) \in Nat /\ Len(p) = Len(q) + 1
      /\ DOMAIN q = 1..Len(q) /\ DOMAIN p = 1..(Len(q) + 1)
      /\ p[Len(q) + 1] = x /\ \A i \in 1..Len(q) : p[i] = q[i]
  OBVIOUS
<1> HIDE DEF p
<1>2. \A i \in DOMAIN p : i \in DOMAIN q \/ i = Len(q) + 1
  BY <1>1
<1>3. Len(q) + 1 \in DOMAIN p /\ DOMAIN q \subseteq DOMAIN p
  BY <1>1
<1>4. ToSet(p) \subseteq ToSet(q) \cup {x}
  BY <1>1, <1>2 DEF ToSet
<1>5. ToSet(q) \cup {x} \subseteq ToSet(p)
  BY <1>1, <1>3 DEF ToSet
<1>6. ASSUME IsInjective(q), x \notin ToSet(q) PROVE IsInjective(p)
  BY <1>1, <1>2, <1>6 DEF IsInjective, ToSet
<1> QED
  BY <1>1, <1>4, <1>5, <1>6 DEF p

\* An element more in a finite set, or one less, counts for one.
LEMMA OneMore ==
    ASSUME NEW U, IsFiniteSet(U), NEW S \in SUBSET U, NEW x \in U
    PROVE  /\ IsFiniteSet(S) /\ Cardinality(S) \in Nat
           /\ Cardinality(S \cup {x}) <= Cardinality(S) + 1
           /\ x \notin S => Cardinality(S \cup {x}) = Cardinality(S) + 1
           /\ \A T \in SUBSET S : Cardinality(T) \in Nat /\ Cardinality(T) <= Cardinality(S)
<1>1. IsFiniteSet(S)
  BY FS_Subset
<1>2. Cardinality(S) \in Nat
  BY <1>1, FS_CardinalityType
<1>3. x \notin S => Cardinality(S \cup {x}) = Cardinality(S) + 1
  BY <1>1, FS_AddElement
<1>4. x \in S => S \cup {x} = S
  OBVIOUS
<1>5. \A T \in SUBSET S : Cardinality(T) \in Nat /\ Cardinality(T) <= Cardinality(S)
  BY <1>1, FS_Subset, FS_CardinalityType
<1> QED
  BY <1>1, <1>2, <1>3, <1>4, <1>5

-----------------------------------------------------------------------------
(* Induction, stated about sets *)

\* A set of naturals that holds 0 and every successor is all of them.
LEMMA NatSteps ==
    ASSUME NEW T \in SUBSET Nat, 0 \in T, \A n \in T : n + 1 \in T
    PROVE  T = Nat
<1> SUFFICES ASSUME Nat \ T # {} PROVE FALSE
  OBVIOUS
<1> DEFINE n == Min(Nat \ T)
<1>1. n \in Nat \ T /\ \A m \in Nat \ T : n <= m
  <2>1. n \in Nat \ T
    BY MinIsIn
  <2> QED
    BY <2>1, MinIsLeast
<1> HIDE DEF n
<1>2. n # 0 /\ n - 1 \in Nat /\ n - 1 \notin Nat \ T
  BY <1>1
<1>3. (n - 1) + 1 \in T
  BY <1>2
<1> QED
  BY <1>1, <1>2, <1>3

\* A sequence that is not empty results from adding an element at the end.
LEMMA LastApart ==
    ASSUME NEW S, NEW s \in Seq(S), s # <<>>
    PROVE  \E f \in Seq(S), x \in S : s = Append(f, x)
<1>0. PICK n \in Nat : Len(s) = n + 1
  <2>1. Len(s) - 1 \in Nat /\ Len(s) = (Len(s) - 1) + 1
    OBVIOUS
  <2> QED
    BY <2>1
<1> DEFINE f == SubSeq(s, 1, n)
           x == s[n + 1]
<1>1. f \in Seq(S) /\ Len(f) = n /\ x \in S /\ \A i \in 1..n : f[i] = s[i]
  BY <1>0
<1>2. x = s[n + 1]
  OBVIOUS
<1> HIDE DEF f, x
<1> DEFINE a == Append(f, x)
<1>3. a \in Seq(S) /\ Len(a) = n + 1 /\ a[n + 1] = x /\ \A i \in 1..n : a[i] = f[i]
  BY <1>1, Appended
<1> HIDE DEF a
<1>4. \A i \in 1..(n + 1) : i \in 1..n \/ i = n + 1
  OBVIOUS
<1>5. \A i \in 1..(n + 1) : a[i] = s[i]
  BY <1>1, <1>2, <1>3, <1>4
<1>6. a = s
  BY <1>0, <1>3, <1>5, SeqEqual
<1> QED
  BY <1>1, <1>6 DEF a

\* A set of sequences that holds the empty one and what results from adding an
\* element at the end is all of them.
LEMMA AppendSteps ==
    ASSUME NEW S, NEW T \in SUBSET Seq(S), <<>> \in T,
           \A s \in T, x \in S : Append(s, x) \in T
    PROVE  T = Seq(S)
<1> DEFINE N == {n \in Nat : \A s \in Seq(S) : Len(s) = n => s \in T}
<1>1. 0 \in N
  <2>1. \A s \in Seq(S) : Len(s) = 0 => s = <<>>
    OBVIOUS
  <2> QED
    BY <2>1
<1>2. ASSUME NEW n \in N PROVE n + 1 \in N
  <2>1. ASSUME NEW s \in Seq(S), Len(s) = n + 1 PROVE s \in T
    <3>1. n \in Nat /\ \A f \in Seq(S) : Len(f) = n => f \in T
      OBVIOUS
    <3> HIDE DEF N
    <3>2. s # <<>>
      BY <2>1, <3>1
    <3>3. PICK f \in Seq(S), x \in S : s = Append(f, x)
      BY <3>2, LastApart
    <3>4. Len(f) = n
      BY <2>1, <3>1, <3>3
    <3> QED
      BY <3>1, <3>3, <3>4
  <2> QED
    BY <2>1
<1>3. N = Nat
  <2> HIDE DEF N
  <2>1. N \in SUBSET Nat
    BY DEF N
  <2> QED
    BY <1>1, <1>2, <2>1, NatSteps
<1>4. ASSUME NEW s \in Seq(S) PROVE s \in T
  <2>1. Len(s) \in N
    BY <1>3
  <2> QED
    BY <2>1
<1> QED
  BY <1>4

-----------------------------------------------------------------------------
(* Folds over finite sets *)

Pick(T) == CHOOSE x \in T : TRUE

\* Any element of a set that is not empty will do, and is the one picked.
LEMMA PickIsIn == \A T : T # {} => Pick(T) \in T
BY DEF Pick

\* Sets reached from the empty one, element by element, are all of them.
LEMMA FoldInduction ==
    ASSUME NEW S, IsFiniteSet(S), NEW N \in SUBSET SUBSET S, {} \in N,
           \A T \in SUBSET S : T # {} /\ T \ {Pick(T)} \in N => T \in N
    PROVE  S \in N
<1> DEFINE K == {n \in Nat : \A T \in SUBSET S : Cardinality(T) = n => T \in N}
<1>1. \A T \in SUBSET S : IsFiniteSet(T) /\ Cardinality(T) \in Nat
  BY FS_Subset, FS_CardinalityType
<1>2. 0 \in K
  BY <1>1, FS_EmptySet
<1>3. ASSUME NEW n \in K PROVE n + 1 \in K
  <2>0. n \in Nat
    OBVIOUS
  <2>1. ASSUME NEW T \in SUBSET S, Cardinality(T) = n + 1 PROVE T \in N
    <3>1. IsFiniteSet(T) /\ T # {}
      BY <1>1, <2>1, FS_EmptySet
    <3>2. Pick(T) \in T
      BY <3>1, PickIsIn
    <3>3. Cardinality(T \ {Pick(T)}) = n
      <4>1. Cardinality(T \ {Pick(T)}) = Cardinality(T) - 1
        BY <3>1, <3>2, FS_RemoveElement
      <4> QED
        BY <2>0, <2>1, <4>1
    <3>4. T \ {Pick(T)} \in N
      BY <3>3
    <3> QED
      BY <3>1, <3>4
  <2> QED
    BY <2>1
<1>4. K = Nat
  <2>1. K \in SUBSET Nat
    OBVIOUS
  <2> HIDE DEF K
  <2> QED
    BY <1>2, <1>3, <2>1, NatSteps
<1> QED
  BY <1>1, <1>4

\* g folds f over S from a.
FoldOf(g, S, a, f) ==
    /\ g[{}] = a
    /\ \A T \in SUBSET S : T # {} => g[T] = f[<<Pick(T), g[T \ {Pick(T)}]>>]

\* A fold whose steps stay in U exists, and stays in U.
LEMMA FoldExists ==
    ASSUME NEW S, IsFiniteSet(S), NEW U, NEW a \in U, NEW f \in [S \X U -> U]
    PROVE  \E g \in [SUBSET S -> U] : FoldOf(g, S, a, f)
<1> DEFINE Low(n) == {T \in SUBSET S : Cardinality(T) <= n}
           Rule(g, n) == /\ g[{}] = a
                         /\ \A T \in Low(n) : T # {} => g[T] = f[<<Pick(T), g[T \ {Pick(T)}]>>]
           K == {n \in Nat : \E g \in [SUBSET S -> U] : Rule(g, n)}
<1>1. \A T \in SUBSET S : IsFiniteSet(T) /\ Cardinality(T) \in Nat
  BY FS_Subset, FS_CardinalityType
<1>2. \A T \in SUBSET S : T # {} => /\ Pick(T) \in S /\ T \ {Pick(T)} \in SUBSET S
                                   /\ Cardinality(T \ {Pick(T)}) = Cardinality(T) - 1
  BY <1>1, PickIsIn, FS_RemoveElement
<1>3. 0 \in K
  <2>1. [T \in SUBSET S |-> a] \in [SUBSET S -> U]
    OBVIOUS
  <2>2. \A T \in Low(0) : T = {}
    BY <1>1, FS_EmptySet
  <2>3. Rule([T \in SUBSET S |-> a], 0)
    BY <2>2
  <2> QED
    BY <2>1, <2>3
<1>4. ASSUME NEW n \in K PROVE n + 1 \in K
  <2>1. PICK g \in [SUBSET S -> U] : Rule(g, n)
    OBVIOUS
  <2> DEFINE G == [T \in SUBSET S |-> IF T # {} /\ Cardinality(T) = n + 1
                                     THEN f[<<Pick(T), g[T \ {Pick(T)}]>>] ELSE g[T]]
  <2>0. n \in Nat
    OBVIOUS
  <2> HIDE DEF K
  <2>2. n \in Nat /\ n + 1 \in Nat
    BY <2>0
  <2>3. G \in [SUBSET S -> U]
    BY <1>2
  <2>4. ASSUME NEW T \in Low(n) PROVE G[T] = g[T]
    <3>1. Cardinality(T) # n + 1
      BY <1>1, <2>2
    <3> QED
      BY <3>1
  <2>5. G[{}] = a
    BY <2>1
  <2>6. ASSUME NEW T \in Low(n + 1), T # {} PROVE G[T] = f[<<Pick(T), G[T \ {Pick(T)}]>>]
    <3>1. T \in SUBSET S /\ Cardinality(T) \in Nat /\ Cardinality(T) <= n + 1
      BY <1>1, <2>2
    <3>2. T \ {Pick(T)} \in Low(n)
      <4>1. /\ T \ {Pick(T)} \in SUBSET S
            /\ Cardinality(T \ {Pick(T)}) = Cardinality(T) - 1
        BY <1>2, <2>6, <3>1
      <4>2. Cardinality(T) - 1 <= n
        BY <2>2, <3>1
      <4> QED
        BY <4>1, <4>2
    <3>3. G[T \ {Pick(T)}] = g[T \ {Pick(T)}]
      BY <2>4, <3>2
    <3>4. CASE Cardinality(T) = n + 1
      <4>1. G[T] = f[<<Pick(T), g[T \ {Pick(T)}]>>]
        BY <2>6, <3>1, <3>4
      <4> QED
        BY <3>3, <4>1
    <3>5. CASE Cardinality(T) <= n
      <4>1. T \in Low(n)
        BY <3>1, <3>5
      <4>2. g[T] = f[<<Pick(T), g[T \ {Pick(T)}]>>]
        BY <2>1, <2>6, <4>1
      <4> HIDE DEF G
      <4>3. G[T] = g[T]
        BY <2>4, <4>1
      <4> QED
        BY <3>3, <4>2, <4>3
    <3>6. Cardinality(T) = n + 1 \/ Cardinality(T) <= n
      BY <2>2, <3>1
    <3> QED
      BY <3>4, <3>5, <3>6
  <2>7. Rule(G, n + 1)
    BY <2>5, <2>6
  <2> HIDE DEF G, Rule
  <2> QED
    BY <2>2, <2>3, <2>7 DEF K
<1>5. K = Nat
  <2>1. K \in SUBSET Nat
    OBVIOUS
  <2> HIDE DEF K
  <2> QED
    BY <1>3, <1>4, <2>1, NatSteps
<1>6. Cardinality(S) \in K
  BY <1>1, <1>5
<1>7. PICK g \in [SUBSET S -> U] : Rule(g, Cardinality(S))
  BY <1>6
<1>8. \A T \in SUBSET S : T \in Low(Cardinality(S))
  BY FS_Subset
<1> QED
  BY <1>7, <1>8 DEF FoldOf

\* G folds f over S from a, as long as it stays in U.
Folds(G, S, a, U, f) ==
    /\ G[{}] = a
    /\ \A T \in SUBSET S : T # {} /\ G[T \ {Pick(T)}] \in U =>
         G[T] = f[<<Pick(T), G[T \ {Pick(T)}]>>]

\* P[T] is what folding over T may lead to.
Climbs(P, S, a, f) ==
    /\ a \in P[{}]
    /\ \A T \in SUBSET S : T # {} =>
         \A x \in P[T \ {Pick(T)}] : f[<<Pick(T), x>>] \in P[T]

\* Then folding over S leads to P[S],
LEMMA FoldReaches ==
    ASSUME NEW S, IsFiniteSet(S), NEW U, NEW a \in U, NEW f \in [S \X U -> U],
           NEW G, Folds(G, S, a, U, f), NEW P \in [SUBSET S -> SUBSET U], Climbs(P, S, a, f)
    PROVE  G[S] \in P[S]
<1> DEFINE N == {T \in SUBSET S : G[T] \in P[T]}
<1>1. {} \in N
  BY DEF Folds, Climbs
<1>2. ASSUME NEW T \in SUBSET S, T # {}, T \ {Pick(T)} \in N PROVE T \in N
  <2>1. G[T \ {Pick(T)}] \in P[T \ {Pick(T)}] /\ G[T \ {Pick(T)}] \in U
    BY <1>2
  <2> QED
    BY <1>2, <2>1 DEF Folds, Climbs
<1>3. N \in SUBSET (SUBSET S)
  OBVIOUS
<1> HIDE DEF N
<1>4. S \in N
  BY <1>1, <1>2, <1>3, FoldInduction
<1> QED
  BY <1>4 DEF N

\* and never out of U.
LEMMA FoldWithin ==
    ASSUME NEW S, IsFiniteSet(S), NEW U, NEW a \in U, NEW f \in [S \X U -> U],
           NEW G, Folds(G, S, a, U, f)
    PROVE  G[S] \in U
<1> DEFINE P == [T \in SUBSET S |-> U]
<1>1. P \in [SUBSET S -> SUBSET U] /\ P[S] = U
  OBVIOUS
<1>2. Climbs(P, S, a, f)
  <2>1. ASSUME NEW T \in SUBSET S, T # {}, NEW x \in U PROVE f[<<Pick(T), x>>] \in U
    BY <2>1, PickIsIn
  <2>2. \A T \in SUBSET S : T \ {Pick(T)} \in SUBSET S
    OBVIOUS
  <2> QED
    BY <2>1, <2>2 DEF Climbs
<1> HIDE DEF P
<1> QED
  BY <1>1, <1>2, FoldReaches

=============================================================================
