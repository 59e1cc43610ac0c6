-------------------------- MODULE PropertyState_proofs -------------------------
(***************************************************************************)
(* However objects are created, cloned, read, resized and destroyed: a     *)
(* property observes itself where it has since it was registered, and the  *)
(* properties it descends from; and a change calls a handler once.         *)
(*                                                                         *)
(* The heap is a forest: an object is held in one place at most, and what  *)
(* is held is alive.  That is what the destruction of a tree of objects,   *)
(* and a clone that goes from tree to tree, rest on.                       *)
(***************************************************************************)
EXTENDS PropertyState, FiniteSetTheorems, SequenceTheorems,
        WellFoundedInduction, TLAPS

\* There is a property at a place.
Present(h, q) == h[q[1]] # None /\ h[q[1]][q[2]] # None

\* Index i of the property k of o holds the object n.
Holds(h, o, k, i, n) ==
    /\ h[o] # None /\ h[o][k] # None
    /\ i \in DOMAIN h[o][k].values /\ h[o][k].values[i] = n

\* Nothing holds an object.
Unheld(h, n) == \A o \in Objects, k \in Keys, i \in Nat : ~ Holds(h, o, k, i, n)

HeldOnce(h) ==
    \A n \in Objects, a, b \in Objects, k, l \in Keys, i, j \in Nat :
        Holds(h, a, k, i, n) /\ Holds(h, b, l, j, n) => a = b /\ k = l /\ i = j

\* The observers of the property p at a place: itself once where it is kept, and each
\* of its origins once at most.
Observed(p, place) ==
    \A i \in DOMAIN p.subjects :
        LET subject == p.subjects[i]
        IN  /\ \A j \in DOMAIN subject : subject[j] \in p.origin \cup {place, Destroyed}
            /\ \A j, l \in DOMAIN subject :
                  subject[j] = subject[l] /\ subject[j] # Destroyed => j = l
            /\ (\E j \in DOMAIN subject : subject[j] = place) <=> i <= p.kept

\* The UID of a property was generated, or it is that of a document and the property has
\* not been registered.
UidOK(p, u) == p.uid <= u \/ (p.kept = 0 /\ p.uid <= MaxUid)

\* What holds of one property: the UIDs are smaller the further it goes back, but in the
\* objects of X, whose properties have no UIDs of their own yet.
PropertyOK(h, u, X, o, k) ==
    LET p == h[o][k]
    IN  /\ UidOK(p, u)
        /\ p.kept <= Len(p.subjects)
        /\ p.type # "object" => p.values = <<>>
        /\ \A q \in p.origin :
              /\ q \in Objects \X Keys /\ Present(h, q) /\ q # <<o, k>> /\ At(h, q).uid <= u
              /\ o \notin X => At(h, q).uid < p.uid
        /\ Observed(p, <<o, k>>)
        /\ \A i \in DOMAIN p.values : p.values[i] # None => h[p.values[i]] # None

Good(h, u, X) ==
    /\ h \in Heap /\ u \in Nat
    /\ \A o \in Live(h) : \A k \in KeysOf(h[o]) : PropertyOK(h, u, X, o, k)
    /\ HeldOnce(h)

-----------------------------------------------------------------------------
\* Of some numbers one is the smallest.
LEMMA SmallestExists ==
    ASSUME NEW S \in SUBSET Nat, S # {}
    PROVE  \E v \in S : \A w \in S : v <= w
  <1>1. PICK v \in S : \A w \in S : <<w, v>> \notin OpToRel(<, Nat)
    BY NatLessThanWellFounded, WFMin, Zenon
  <1>2. \A w \in S : ~ (w < v)
    BY <1>1 DEF OpToRel
  <1>. QED
    BY <1>2

\* Induction over 0..N, for a set of numbers.
LEMMA Induction ==
    ASSUME NEW N \in Nat, NEW S, 0 \in S, \A n \in 1..N : n - 1 \in S => n \in S
    PROVE  0..N \subseteq S
  <1>. DEFINE T == {n \in 0..N : n \notin S}
  <1>. SUFFICES ASSUME T # {} PROVE FALSE
    OBVIOUS
  <1>1. T \in SUBSET Nat
    OBVIOUS
  <1>2. PICK m \in T : \A k \in T : m <= k
    BY <1>1, SmallestExists
  <1>3. m \in 1..N /\ m - 1 \in 0..N /\ m - 1 \notin T
    BY <1>2
  <1>. QED
    BY <1>2, <1>3

LEMMA LiveFacts ==
    ASSUME NEW h \in Heap, NEW o \in Live(h)
    PROVE  /\ o \in Objects /\ o # None /\ h[o] # None /\ h[o] \in PropertyMap
           /\ \A k \in KeysOf(h[o]) : k \in Keys /\ h[o][k] # None /\ h[o][k] \in Property
  BY NoneAssumption DEF Live, Heap, PropertyMap, KeysOf

LEMMA PropertyFacts ==
    ASSUME NEW p \in Property
    PROVE  /\ p.uid \in Nat /\ p.capacity \in Indices /\ p.kept \in Nat
           /\ p.subjects \in Seq(Seq(Places)) /\ Len(p.subjects) \in Nat
           /\ DOMAIN p.subjects = 1..Len(p.subjects)
           /\ \A i \in DOMAIN p.subjects : p.subjects[i] \in Seq(Places)
           /\ p.values \in Seq(Objects \cup {None}) /\ Len(p.values) \in Nat
           /\ DOMAIN p.values = 1..Len(p.values)
           /\ \A i \in DOMAIN p.values : p.values[i] \in Objects \cup {None}
           /\ p.origin \subseteq Places /\ p # None
  BY BoundsAssumption, NoneAssumption DEF Property

LEMMA PresentFacts ==
    ASSUME NEW h \in Heap, NEW q \in Objects \X Keys, Present(h, q)
    PROVE  /\ q[1] \in Live(h) /\ q[2] \in KeysOf(h[q[1]]) /\ q = <<q[1], q[2]>>
           /\ At(h, q) = h[q[1]][q[2]] /\ At(h, q) \in Property /\ At(h, q).uid \in Nat
  <1>1. q[1] \in Live(h) /\ q[2] \in KeysOf(h[q[1]]) /\ q = <<q[1], q[2]>>
    BY DEF Present, Live, KeysOf
  <1>2. h[q[1]][q[2]] \in Property
    BY <1>1, LiveFacts
  <1>. QED
    BY <1>1, <1>2, PropertyFacts DEF At

LEMMA PropertyLater ==
    ASSUME NEW h, NEW u, NEW X, Good(h, u, X), NEW v \in Nat, u <= v,
           NEW o \in Live(h), NEW k \in KeysOf(h[o])
    PROVE  PropertyOK(h, v, X, o, k)
  <1>1. /\ PropertyOK(h, u, X, o, k) /\ h[o][k] \in Property /\ h[o][k].uid \in Nat
        /\ u \in Nat /\ h \in Heap
    BY LiveFacts, PropertyFacts DEF Good
  <1>2. UidOK(h[o][k], v)
    BY <1>1 DEF PropertyOK, UidOK
  <1>3. \A q \in h[o][k].origin : At(h, q).uid <= v
    <2>1. \A q \in h[o][k].origin : q \in Objects \X Keys /\ Present(h, q) /\ At(h, q).uid <= u
      BY <1>1 DEF PropertyOK
    <2>2. \A q \in h[o][k].origin : At(h, q).uid \in Nat
      BY <1>1, <2>1, PresentFacts
    <2>. QED
      BY <1>1, <2>1, <2>2
  <1>. QED
    BY <1>1, <1>2, <1>3 DEF PropertyOK

LEMMA GoodLater ==
    ASSUME NEW h, NEW u, NEW X, Good(h, u, X), NEW v \in Nat, u <= v
    PROVE  Good(h, v, X)
  BY PropertyLater DEF Good

\* What an object holds, one index after another.
LEMMA InnerFacts ==
    ASSUME NEW h \in Heap, NEW o \in Live(h)
    PROVE  \A n : n \in Inner(h, o) <=> n \in Objects /\ \E k \in Keys, i \in Nat : Holds(h, o, k, i, n)
  <1>1. ASSUME NEW n \in Inner(h, o)
        PROVE  n \in Objects /\ \E k \in Keys, i \in Nat : Holds(h, o, k, i, n)
    <2>. DEFINE held == {ToSet(h[o][k].values) : k \in KeysOf(h[o])}
    <2>0. n # None /\ n \in UNION held
      BY <1>1, Zenon DEF Inner
    <2>1. PICK k \in KeysOf(h[o]) : n \in ToSet(h[o][k].values) /\ n # None
      BY <2>0
    <2>2. h[o][k] \in Property /\ h[o][k] # None /\ k \in Keys /\ h[o] # None
      BY LiveFacts
    <2>3. PICK i \in DOMAIN h[o][k].values : h[o][k].values[i] = n
      BY <2>1 DEF ToSet
    <2>. QED
      BY <2>1, <2>2, <2>3, PropertyFacts DEF Holds
  <1>2. ASSUME NEW n \in Objects, NEW k \in Keys, NEW i \in Nat, Holds(h, o, k, i, n)
        PROVE  n \in Inner(h, o)
    <2>1. k \in KeysOf(h[o]) /\ n # None
      BY <1>2, NoneAssumption DEF Holds, KeysOf
    <2>2. n \in ToSet(h[o][k].values)
      BY <1>2 DEF Holds, ToSet
    <2>. DEFINE held == {ToSet(h[o][l].values) : l \in KeysOf(h[o])}
    <2>3. ToSet(h[o][k].values) \in held
      BY <2>1
    <2>4. n \in UNION held
      BY <2>2, <2>3
    <2>. QED
      BY <2>1, <2>4, Zenon DEF Inner
  <1>. QED
    BY <1>1, <1>2

\* What is held is alive.
LEMMA HeldIsLive ==
    ASSUME NEW h, NEW u, NEW X, Good(h, u, X), NEW o \in Objects, NEW k \in Keys, NEW i,
           NEW n \in Objects, Holds(h, o, k, i, n)
    PROVE  /\ n \in Live(h) /\ o \in Live(h) /\ k \in KeysOf(h[o])
           /\ i \in Nat /\ h[o][k].type = "object"
  <1>1. h \in Heap /\ o \in Live(h) /\ k \in KeysOf(h[o])
    BY DEF Good, Live, KeysOf, Holds
  <1>2. h[o][k] \in Property /\ PropertyOK(h, u, X, o, k)
    BY <1>1, LiveFacts DEF Good
  <1>3. i \in DOMAIN h[o][k].values /\ h[o][k].values[i] = n
    BY DEF Holds
  <1>4. n # None
    BY NoneAssumption
  <1>5. h[n] # None
    BY <1>2, <1>3, <1>4 DEF PropertyOK
  <1>6. h[o][k].values # <<>> /\ i \in Nat
    BY <1>2, <1>3, PropertyFacts
  <1>. QED
    BY <1>1, <1>2, <1>5, <1>6 DEF PropertyOK, Live

-----------------------------------------------------------------------------
(***************************************************************************)
(* Trees of objects.                                                       *)
(***************************************************************************)

\* The objects that are up to n deep.
Deepens(f, h, o, N) ==
    /\ f[0] = {o}
    /\ \A n \in 1..N : f[n] = UNION {{x} \cup Inner(h, x) : x \in f[n - 1]}

\* The function by which Tree is defined, which there is.
LEMMA TreeRecursion ==
    ASSUME NEW h, NEW o, NEW N \in Nat, N = Cardinality(Objects)
    PROVE  \E f : Tree(h, o) = f[N] /\ Deepens(f, h, o, N)
  <1>. DEFINE P(m) == \E f : f = [n \in 0..m |->
                         IF n = 0 THEN {o} ELSE UNION {{x} \cup Inner(h, x) : x \in f[n - 1]}]
              S == {m \in 0..N : P(m)}
  <1>1. P(0)
    <2>. DEFINE f == [n \in 0..0 |-> {o}]
    <2>1. f = [n \in 0..0 |-> IF n = 0 THEN {o} ELSE UNION {{x} \cup Inner(h, x) : x \in f[n - 1]}]
      OBVIOUS
    <2>. QED
      BY <2>1
  <1>2. ASSUME NEW m \in 1..N, P(m - 1) PROVE P(m)
    <2>1. PICK f : f = [n \in 0..(m - 1) |->
                         IF n = 0 THEN {o} ELSE UNION {{x} \cup Inner(h, x) : x \in f[n - 1]}]
      BY <1>2
    <2>. DEFINE g == [n \in 0..m |-> IF n = m THEN UNION {{x} \cup Inner(h, x) : x \in f[m - 1]}
                                     ELSE f[n]]
    <2>2. ASSUME NEW n \in 0..m
          PROVE  g[n] = IF n = 0 THEN {o} ELSE UNION {{x} \cup Inner(h, x) : x \in g[n - 1]}
      <3>1. CASE n = m
        <4>1. g[n - 1] = f[n - 1]
          BY <3>1
        <4>. QED
          BY <3>1, <4>1
      <3>2. CASE n # m
        <4>1. n \in 0..(m - 1) /\ g[n] = f[n]
          BY <3>2
        <4>2. n # 0 => n - 1 \in 0..(m - 1) /\ g[n - 1] = f[n - 1]
          BY <3>2
        <4>3. f[n] = IF n = 0 THEN {o} ELSE UNION {{x} \cup Inner(h, x) : x \in f[n - 1]}
          BY <2>1, <4>1
        <4>. QED
          BY <4>1, <4>2, <4>3
      <3>. QED
        BY <3>1, <3>2
    <2>3. g = [n \in 0..m |-> IF n = 0 THEN {o} ELSE UNION {{x} \cup Inner(h, x) : x \in g[n - 1]}]
      <3>. HIDE DEF g
      <3>1. DOMAIN g = 0..m /\ g = [n \in 0..m |-> g[n]]
        BY DEF g
      <3>. QED
        BY <2>2, <3>1
    <2>. QED
      BY <2>3
  <1>. HIDE DEF P
  <1>3. 0 \in S /\ \A m \in 1..N : m - 1 \in S => m \in S
    BY <1>1, <1>2
  <1>4. P(N)
    <2>1. 0..N \subseteq S
      BY <1>3, Induction
    <2>2. N \in S
      BY <2>1
    <2>. QED
      BY <2>2
  <1>. DEFINE F == CHOOSE f : f = [n \in 0..N |->
                      IF n = 0 THEN {o} ELSE UNION {{x} \cup Inner(h, x) : x \in f[n - 1]}]
  <1>5. F = [n \in 0..N |-> IF n = 0 THEN {o} ELSE UNION {{x} \cup Inner(h, x) : x \in F[n - 1]}]
    BY <1>4 DEF P
  <1>6. Tree(h, o) = F[N]
    BY DEF Tree
  <1>. HIDE DEF F
  <1>7. F[0] = {o} /\ \A n \in 1..N : F[n] = UNION {{x} \cup Inner(h, x) : x \in F[n - 1]}
    <2>1. F[0] = {o}
      BY <1>5
    <2>2. ASSUME NEW n \in 1..N
          PROVE  F[n] = UNION {{x} \cup Inner(h, x) : x \in F[n - 1]}
      <3>1. n \in 0..N /\ n # 0
        OBVIOUS
      <3>. QED
        BY <1>5, <3>1, Zenon
    <2>. QED
      BY <2>1, <2>2
  <1>. QED
    BY <1>6, <1>7 DEF Deepens

\* An object is in its tree, with all that is held in it; and what else is in the tree is
\* held in it.
LEMMA TreeFacts ==
    ASSUME NEW h, NEW u, NEW X, Good(h, u, X), NEW o \in Live(h)
    PROVE  /\ o \in Tree(h, o) /\ Tree(h, o) \subseteq Live(h)
           /\ \A x \in Tree(h, o) : Inner(h, x) \subseteq Tree(h, o)
           /\ \A x \in Tree(h, o) : x # o => \E y \in Tree(h, o) : x \in Inner(h, y)
  <1>1. IsFiniteSet(Objects) /\ Live(h) \subseteq Objects /\ h \in Heap
    BY ObjectsAssumption DEF Live, Good
  <1>2. PICK N \in Nat : N = Cardinality(Objects)
    BY <1>1, FS_CardinalityType
  <1>3. PICK f : Tree(h, o) = f[N] /\ Deepens(f, h, o, N)
    BY <1>2, TreeRecursion
  <1>4. ASSUME NEW x \in Live(h) PROVE Inner(h, x) \subseteq Live(h)
    BY <1>1, InnerFacts, HeldIsLive
  <1>5. ASSUME NEW n \in 1..N
        PROVE  \A x : x \in f[n] <=> \E y \in f[n - 1] : x = y \/ x \in Inner(h, y)
    <2>. DEFINE before == f[n - 1]
                M == {{y} \cup Inner(h, y) : y \in before}
    <2>1. f[n] = UNION M
      BY <1>3, Zenon DEF Deepens
    <2>. SUFFICES ASSUME NEW x
                  PROVE  x \in f[n] <=> \E y \in before : x = y \/ x \in Inner(h, y)
      OBVIOUS
    <2>. HIDE DEF before
    <2>2. ASSUME x \in f[n] PROVE \E y \in before : x = y \/ x \in Inner(h, y)
      BY <2>1, <2>2
    <2>3. ASSUME NEW y \in before, x = y \/ x \in Inner(h, y) PROVE x \in f[n]
      <3>1. {y} \cup Inner(h, y) \in M /\ x \in {y} \cup Inner(h, y)
        BY <2>3
      <3>. QED
        BY <2>1, <3>1
    <2>. QED
      BY <2>2, <2>3
  <1>6. \A n \in 0..N : f[n] \subseteq Live(h)
    <2>. DEFINE S == {n \in 0..N : f[n] \subseteq Live(h)}
    <2>1. 0 \in S
      BY <1>3 DEF Deepens
    <2>2. ASSUME NEW n \in 1..N, n - 1 \in S PROVE n \in S
      BY <1>4, <1>5, <2>2
    <2>. QED
      BY <2>1, <2>2, Induction
  <1>7. \A n \in 0..N : IsFiniteSet(f[n]) /\ Cardinality(f[n]) \in Nat
    BY <1>1, <1>6, FS_Subset, FS_CardinalityType
  <1>8. \A n \in 0..N : \/ \A x \in f[n] : Inner(h, x) \subseteq f[n]
                       \/ Cardinality(f[n]) > n
    <2>. DEFINE Closed(n) == \A x \in f[n] : Inner(h, x) \subseteq f[n]
                S == {n \in 0..N : Closed(n) \/ Cardinality(f[n]) > n}
    <2>1. 0 \in S
      <3>1. Cardinality(f[0]) = 1
        BY <1>3, FS_Singleton DEF Deepens
      <3>. QED
        BY <3>1
    <2>2. ASSUME NEW n \in 1..N, n - 1 \in S PROVE n \in S
      <3>1. f[n - 1] \subseteq f[n] /\ n \in 0..N /\ n - 1 \in 0..N
        BY <1>5
      <3>2. CASE Closed(n - 1)
        <4>1. \A x : x \in f[n] <=> x \in f[n - 1]
          BY <1>5, <3>2
        <4>2. f[n] = f[n - 1]
          BY <4>1
        <4>. QED
          BY <3>1, <3>2, <4>2
      <3>3. CASE ~ Closed(n - 1)
        <4>1. f[n - 1] # f[n]
          BY <1>5, <3>3
        <4>2. Cardinality(f[n - 1]) < Cardinality(f[n])
          BY <1>7, <3>1, <4>1, FS_Subset
        <4>3. Cardinality(f[n - 1]) > n - 1
          BY <2>2, <3>3
        <4>. QED
          BY <1>7, <3>1, <4>2, <4>3
      <3>. QED
        BY <3>2, <3>3
    <2>. QED
      BY <2>1, <2>2, Induction
  <1>9. \A x \in f[N] : Inner(h, x) \subseteq f[N]
    <2>1. f[N] \subseteq Objects /\ N \in 0..N
      BY <1>1, <1>6
    <2>2. Cardinality(f[N]) <= N
      BY <1>1, <1>2, <2>1, FS_Subset
    <2>. QED
      BY <1>7, <1>8, <2>1, <2>2
  <1>10. \A n \in 0..N : f[n] \subseteq f[N]
    <2>. DEFINE S == {n \in 0..N : f[N - n] \subseteq f[N]}
    <2>1. 0 \in S
      OBVIOUS
    <2>2. ASSUME NEW n \in 1..N, n - 1 \in S PROVE n \in S
      <3>1. N - n + 1 \in 1..N /\ (N - n + 1) - 1 = N - n /\ N - (n - 1) = N - n + 1
        OBVIOUS
      <3>2. f[N - n] \subseteq f[N - n + 1]
        BY <1>5, <3>1
      <3>. QED
        BY <2>2, <3>1, <3>2
    <2>3. 0..N \subseteq S
      BY <2>1, <2>2, Induction
    <2>4. ASSUME NEW n \in 0..N PROVE f[n] \subseteq f[N]
      <3>1. N - n \in S /\ N - (N - n) = n
        BY <2>3
      <3>. QED
        BY <3>1
    <2>. QED
      BY <2>4
  <1>11. \A n \in 0..N : \A x \in f[n] : x # o => \E y \in f[N] : x \in Inner(h, y)
    <2>. DEFINE S == {n \in 0..N : \A x \in f[n] : x # o => \E y \in f[N] : x \in Inner(h, y)}
    <2>1. 0 \in S
      BY <1>3 DEF Deepens
    <2>2. ASSUME NEW n \in 1..N, n - 1 \in S PROVE n \in S
      <3>1. n \in 0..N /\ n - 1 \in 0..N
        OBVIOUS
      <3>. QED
        BY <1>5, <1>10, <2>2, <3>1
    <2>. QED
      BY <2>1, <2>2, Induction
  <1>12. 0 \in 0..N /\ N \in 0..N
    OBVIOUS
  <1>. QED
    BY <1>3, <1>6, <1>9, <1>10, <1>11, <1>12 DEF Deepens

\* Who holds an object of some trees is in them, or holds a root.
LEMMA HolderOfTrees ==
    ASSUME NEW h, NEW u, NEW X, Good(h, u, X), NEW R \in SUBSET Live(h),
           NEW o \in Objects, NEW k \in Keys, NEW i, NEW n \in Objects,
           Holds(h, o, k, i, n), n \in UNION {Tree(h, r) : r \in R}
    PROVE  o \in UNION {Tree(h, r) : r \in R} \/ n \in R
  <1>1. PICK r \in R : n \in Tree(h, r)
    OBVIOUS
  <1>2. CASE n = r
    BY <1>2
  <1>3. CASE n # r
    <2>1. PICK y \in Tree(h, r) : n \in Inner(h, y)
      BY <1>1, <1>3, TreeFacts
    <2>2. y \in Live(h) /\ h \in Heap
      BY <2>1, TreeFacts DEF Good
    <2>3. PICK l \in Keys, j \in Nat : Holds(h, y, l, j, n)
      BY <2>1, <2>2, InnerFacts
    <2>4. i \in Nat
      BY HeldIsLive
    <2>5. y = o
      BY <2>2, <2>3, <2>4 DEF Good, HeldOnce, Live
    <2>6. Tree(h, r) \in {Tree(h, s) : s \in R}
      OBVIOUS
    <2>. QED
      BY <2>1, <2>5, <2>6
  <1>. QED
    BY <1>2, <1>3

\* What is in some trees and held by nothing is a root.
LEMMA UnheldOfTrees ==
    ASSUME NEW h, NEW u, NEW X, Good(h, u, X), NEW R \in SUBSET Live(h), NEW n,
           n \in UNION {Tree(h, r) : r \in R}, Unheld(h, n)
    PROVE  n \in R
  <1>1. PICK r \in R : n \in Tree(h, r)
    OBVIOUS
  <1>. SUFFICES ASSUME n # r PROVE FALSE
    BY <1>1
  <1>2. PICK y \in Tree(h, r) : n \in Inner(h, y)
    BY <1>1, TreeFacts
  <1>3. y \in Live(h) /\ h \in Heap
    BY <1>2, TreeFacts DEF Good
  <1>. QED
    BY <1>2, <1>3, InnerFacts DEF Unheld, Live

\* The trees of live objects are made of live objects, and of all that is in these.
LEMMA TreesFacts ==
    ASSUME NEW h, NEW u, NEW X, Good(h, u, X), NEW R \in SUBSET Live(h)
    PROVE  LET S == UNION {Tree(h, r) : r \in R} IN R \subseteq S /\ S \subseteq Live(h)
  <1>1. ASSUME NEW r \in R PROVE r \in UNION {Tree(h, s) : s \in R}
    <2>1. r \in Tree(h, r) /\ Tree(h, r) \in {Tree(h, s) : s \in R}
      BY TreeFacts
    <2>. QED
      BY <2>1
  <1>2. \A r \in R : Tree(h, r) \subseteq Live(h)
    BY TreeFacts
  <1>. QED
    BY <1>1, <1>2

-----------------------------------------------------------------------------
(***************************************************************************)
(* The end of objects and properties.                                      *)
(***************************************************************************)

\* What is left of a property when those at the places D are gone.
LEMMA CutFacts ==
    ASSUME NEW p \in Property, NEW D
    PROVE  LET c == Cut(p, D)
           IN  /\ c \in Property
               /\ c.type = p.type /\ c.uid = p.uid /\ c.capacity = p.capacity /\ c.kept = p.kept
               /\ c.replicate = p.replicate /\ c.writable = p.writable /\ c.name = p.name
               /\ c.values = p.values /\ c.origin = p.origin \ D
               /\ Len(c.subjects) = Len(p.subjects) /\ DOMAIN c.subjects = DOMAIN p.subjects
               /\ \A i \in DOMAIN p.subjects :
                     /\ DOMAIN c.subjects[i] = DOMAIN p.subjects[i]
                     /\ \A j \in DOMAIN p.subjects[i] :
                           c.subjects[i][j] = IF p.subjects[i][j] \in D THEN Destroyed
                                              ELSE p.subjects[i][j]
  <1>. DEFINE subjects == [i \in DOMAIN p.subjects |-> Forget(p.subjects[i], D)]
  <1>1. /\ p.subjects \in Seq(Seq(Places)) /\ DOMAIN p.subjects = 1..Len(p.subjects)
        /\ Len(p.subjects) \in Nat /\ p.origin \subseteq Places
        /\ \A i \in DOMAIN p.subjects : p.subjects[i] \in Seq(Places)
    BY PropertyFacts
  <1>2. Destroyed \in Places
    BY DEF Places
  <1>3. ASSUME NEW i \in DOMAIN p.subjects
        PROVE  /\ subjects[i] \in Seq(Places) /\ DOMAIN subjects[i] = DOMAIN p.subjects[i]
               /\ \A j \in DOMAIN p.subjects[i] :
                     subjects[i][j] = IF p.subjects[i][j] \in D THEN Destroyed
                                      ELSE p.subjects[i][j]
    <2>. DEFINE t == p.subjects[i]
    <2>1. t \in Seq(Places)
      BY <1>1
    <2>. HIDE DEF t
    <2>2. Forget(t, D) = [j \in 1..Len(t) |-> IF t[j] \in D THEN Destroyed ELSE t[j]]
      BY <2>1 DEF Forget
    <2>3. Forget(t, D) \in Seq(Places)
      <3>1. Len(t) \in Nat /\ \A j \in 1..Len(t) : t[j] \in Places
        BY <2>1
      <3>. QED
        BY <1>2, <2>2, <3>1
    <2>4. DOMAIN t = 1..Len(t)
      BY <2>1
    <2>. QED
      BY <2>2, <2>3, <2>4 DEF t
  <1>4. /\ Cut(p, D).subjects = subjects /\ Cut(p, D).origin = p.origin \ D
        /\ Cut(p, D) = [p EXCEPT !.subjects = subjects, !.origin = p.origin \ D]
    BY DEF Cut, Property
  <1>5. subjects \in Seq(Seq(Places)) /\ Len(subjects) = Len(p.subjects)
    <2>1. subjects \in [1..Len(p.subjects) -> Seq(Places)]
      BY <1>1, <1>3
    <2>. DEFINE n == Len(p.subjects)
    <2>2. n \in Nat
      BY <1>1
    <2>. HIDE DEF subjects, n
    <2>3. subjects \in [1..n -> Seq(Places)]
      BY <2>1 DEF n
    <2>4. subjects \in Seq(Seq(Places)) /\ Len(subjects) = n
      BY <2>2, <2>3, SeqDef, LenProperties
    <2>. QED
      BY <2>4 DEF n
  <1>6. p.origin \ D \in SUBSET Places
    BY <1>1
  <1>7. DOMAIN subjects = DOMAIN p.subjects
    OBVIOUS
  <1>. HIDE DEF subjects
  <1>8. Cut(p, D) \in Property
    BY <1>4, <1>5, <1>6 DEF Property
  <1>. QED
    BY <1>3, <1>4, <1>5, <1>7, <1>8 DEF Property

LEMMA PurgedShape ==
    ASSUME NEW h \in Heap, NEW S, NEW D
    PROVE  LET g == Purged(Without(h, S), D)
           IN  /\ g \in Heap /\ Live(g) = Live(h) \ S
               /\ \A o \in Live(g) : \A k \in Keys :
                     g[o][k] = IF h[o][k] = None THEN None ELSE Cut(h[o][k], D)
               /\ \A o \in Live(g) : KeysOf(g[o]) = KeysOf(h[o])
               /\ \A o \in Objects : g[o] # None <=> h[o] # None /\ o \notin S
  <1>. DEFINE w == Without(h, S)
              g == Purged(w, D)
              map(o) == [k \in Keys |-> IF h[o][k] = None THEN None ELSE Cut(h[o][k], D)]
  <1>1. ASSUME NEW o \in Live(h) PROVE map(o) \in PropertyMap /\ map(o) # None
    <2>1. \A k \in Keys : h[o][k] # None => h[o][k] \in Property
      BY LiveFacts DEF KeysOf
    <2>2. \A k \in Keys : h[o][k] # None => Cut(h[o][k], D) \in Property
      BY <2>1, CutFacts
    <2>3. map(o) \in PropertyMap
      BY <2>2 DEF PropertyMap
    <2>. QED
      BY <2>3, NoneAssumption
  <1>2. ASSUME NEW o \in Objects
        PROVE  g[o] = IF h[o] = None \/ o \in S THEN None ELSE map(o)
    BY DEF Purged, Without
  <1>3. g = [o \in Objects |-> g[o]]
    BY DEF Purged
  <1>. HIDE DEF g, map
  <1>4. g \in Heap
    BY <1>1, <1>2, <1>3 DEF Heap, Live
  <1>5. \A o \in Objects : g[o] # None <=> h[o] # None /\ o \notin S
    BY <1>1, <1>2 DEF Live
  <1>6. Live(g) = Live(h) \ S
    BY <1>5 DEF Live
  <1>7. \A o \in Live(g) : \A k \in Keys :
           g[o][k] = IF h[o][k] = None THEN None ELSE Cut(h[o][k], D)
    BY <1>2, <1>6 DEF Live, map
  <1>8. ASSUME NEW o \in Live(g), NEW k \in Keys, h[o][k] # None PROVE Cut(h[o][k], D) # None
    <2>1. h[o][k] \in Property
      BY <1>6, <1>8, LiveFacts DEF KeysOf
    <2>. QED
      BY <2>1, CutFacts, PropertyFacts
  <1>9. \A o \in Live(g) : KeysOf(g[o]) = KeysOf(h[o])
    BY <1>7, <1>8 DEF KeysOf
  <1>. QED
    BY <1>4, <1>5, <1>6, <1>7, <1>9 DEF g

\* A subject that forgets those that end observes as before.
LEMMA CutObserved ==
    ASSUME NEW p \in Property, NEW D, NEW place, Observed(p, place),
           place \notin D, Destroyed \notin D, place # Destroyed
    PROVE  Observed(Cut(p, D), place)
  <1>. DEFINE c == Cut(p, D)
  <1>1. /\ DOMAIN c.subjects = DOMAIN p.subjects /\ c.kept = p.kept /\ c.origin = p.origin \ D
        /\ \A i \in DOMAIN p.subjects :
              /\ DOMAIN c.subjects[i] = DOMAIN p.subjects[i]
              /\ \A j \in DOMAIN p.subjects[i] :
                    c.subjects[i][j] = IF p.subjects[i][j] \in D THEN Destroyed
                                       ELSE p.subjects[i][j]
    BY CutFacts
  <1>. HIDE DEF c
  <1>2. ASSUME NEW i \in DOMAIN c.subjects
        PROVE  /\ \A j \in DOMAIN c.subjects[i] :
                     c.subjects[i][j] \in c.origin \cup {place, Destroyed}
               /\ \A j, l \in DOMAIN c.subjects[i] :
                     c.subjects[i][j] = c.subjects[i][l] /\ c.subjects[i][j] # Destroyed => j = l
               /\ (\E j \in DOMAIN c.subjects[i] : c.subjects[i][j] = place) <=> i <= c.kept
    <2>1. /\ \A j \in DOMAIN p.subjects[i] : p.subjects[i][j] \in p.origin \cup {place, Destroyed}
          /\ \A j, l \in DOMAIN p.subjects[i] :
                p.subjects[i][j] = p.subjects[i][l] /\ p.subjects[i][j] # Destroyed => j = l
          /\ (\E j \in DOMAIN p.subjects[i] : p.subjects[i][j] = place) <=> i <= p.kept
      BY <1>1 DEF Observed
    <2>. DEFINE t == p.subjects[i]
                e == c.subjects[i]
    <2>2. /\ DOMAIN e = DOMAIN t /\ c.kept = p.kept
          /\ \A j \in DOMAIN t : e[j] = IF t[j] \in D THEN Destroyed ELSE t[j]
      BY <1>1
    <2>3. /\ \A j \in DOMAIN t : t[j] \in p.origin \cup {place, Destroyed}
          /\ \A j, l \in DOMAIN t : t[j] = t[l] /\ t[j] # Destroyed => j = l
          /\ (\E j \in DOMAIN t : t[j] = place) <=> i <= p.kept
      BY <2>1
    <2>. HIDE DEF t, e
    <2>4. \A j \in DOMAIN e : e[j] \in c.origin \cup {place, Destroyed}
      BY <1>1, <2>2, <2>3
    <2>5. \A j, l \in DOMAIN e : e[j] = e[l] /\ e[j] # Destroyed => j = l
      BY <2>2, <2>3
    <2>6. \A j \in DOMAIN t : e[j] = place <=> t[j] = place
      BY <2>2
    <2>7. (\E j \in DOMAIN e : e[j] = place) <=> i <= c.kept
      BY <2>2, <2>3, <2>6
    <2>. QED
      BY <2>4, <2>5, <2>7 DEF e
  <1>. QED
    BY <1>2 DEF Observed, c

\* p is what is left of the property k of o in the heap old: it holds what that does, or
\* less, but at one place an object that is held by nothing.
Trimmed(p, old, o, k, at) ==
    LET q == old[o][k]
    IN  /\ p.type = q.type /\ p.uid = q.uid /\ p.origin = q.origin
        /\ q.kept = 0 => p.kept = 0
        /\ \A i \in DOMAIN p.values : p.values[i] # None =>
              \/ i \in DOMAIN q.values /\ p.values[i] = q.values[i]
              \/ <<o, k, i>> = at /\ old[p.values[i]] # None /\ Unheld(old, p.values[i])

\* What an operation leaves of a heap, before the places in D and the objects in S, which
\* no other refers to, are forgotten.
Leaving(h, old, S, D, at) ==
    /\ h \in Heap /\ Live(h) = Live(old)
    /\ \A o \in Live(h) : \A k \in KeysOf(h[o]) :
          LET p == h[o][k]
          IN  /\ k \in KeysOf(old[o]) /\ Trimmed(p, old, o, k, at)
              /\ p.kept <= Len(p.subjects) /\ Observed(p, <<o, k>>)
              /\ p.type # "object" => p.values = <<>>
    /\ \A q \in Objects \X Keys : Present(old, q) => q \in D \/ (q[1] \notin S /\ Present(h, q))
    /\ \A o \in Live(h) \ S : \A k \in KeysOf(h[o]) :
          /\ <<o, k>> \notin D
          /\ \A i \in DOMAIN h[o][k].values : h[o][k].values[i] \notin S

LEMMA SameObserved ==
    ASSUME NEW p, NEW c, NEW place, Observed(p, place),
           c.subjects = p.subjects, c.origin = p.origin, c.kept = p.kept
    PROVE  Observed(c, place)
  BY DEF Observed

LEMMA PurgedGood ==
    ASSUME NEW old, NEW u, NEW X, Good(old, u, X), NEW S \in SUBSET Objects,
           NEW D \in SUBSET (Objects \X Keys), NEW h, NEW at, Leaving(h, old, S, D, at)
    PROVE  Good(Purged(Without(h, S), D), u, X)
  <1>. DEFINE g == Purged(Without(h, S), D)
  <1>1. h \in Heap /\ Live(h) = Live(old) /\ old \in Heap /\ u \in Nat
    BY DEF Leaving, Good
  <1>2. /\ g \in Heap /\ Live(g) = Live(h) \ S
        /\ \A o \in Live(g) : \A k \in Keys :
              g[o][k] = IF h[o][k] = None THEN None ELSE Cut(h[o][k], D)
        /\ \A o \in Live(g) : KeysOf(g[o]) = KeysOf(h[o])
        /\ \A o \in Objects : g[o] # None <=> h[o] # None /\ o \notin S
    BY <1>1, PurgedShape
  <1>. HIDE DEF g
  <1>3. Destroyed \notin D
    BY NoneAssumption DEF Destroyed
  <1>4. ASSUME NEW o \in Live(g), NEW k \in KeysOf(g[o])
        PROVE  /\ o \in Live(h) /\ o \in Live(old) /\ o \in Objects /\ o \notin S /\ k \in Keys
               /\ k \in KeysOf(h[o]) /\ k \in KeysOf(old[o])
               /\ h[o][k] \in Property /\ old[o][k] \in Property /\ g[o][k] = Cut(h[o][k], D)
               /\ Trimmed(h[o][k], old, o, k, at)
    <2>1. o \in Live(h) /\ o \notin S /\ k \in KeysOf(h[o])
      BY <1>2
    <2>2. /\ k \in Keys /\ h[o][k] # None /\ h[o][k] \in Property /\ o \in Objects
      BY <1>1, <2>1, LiveFacts
    <2>3. k \in KeysOf(old[o]) /\ o \in Live(old) /\ Trimmed(h[o][k], old, o, k, at)
      BY <1>1, <2>1 DEF Leaving
    <2>4. old[o][k] \in Property
      BY <1>1, <2>3, LiveFacts
    <2>. QED
      BY <1>2, <2>1, <2>2, <2>3, <2>4
  <1>5. ASSUME NEW o \in Live(g), NEW k \in KeysOf(g[o]) PROVE PropertyOK(g, u, X, o, k)
    <2>. DEFINE p == h[o][k]
                q == old[o][k]
                c == g[o][k]
    <2>1. /\ p \in Property /\ q \in Property /\ c = Cut(p, D) /\ Trimmed(p, old, o, k, at)
          /\ p.type = q.type /\ p.uid = q.uid /\ p.origin = q.origin /\ (q.kept = 0 => p.kept = 0)
          /\ o \in Live(h) /\ k \in KeysOf(h[o]) /\ o \in Live(old) /\ k \in KeysOf(old[o])
          /\ o \notin S /\ o \in Objects /\ k \in Keys
      BY <1>4 DEF Trimmed
    <2>2. PropertyOK(old, u, X, o, k)
      BY <2>1 DEF Good
    <2>3. /\ p.kept <= Len(p.subjects) /\ Observed(p, <<o, k>>)
          /\ p.type # "object" => p.values = <<>>
          /\ <<o, k>> \notin D /\ \A i \in DOMAIN p.values : p.values[i] \notin S
      BY <2>1 DEF Leaving
    <2>4. /\ c.type = p.type /\ c.uid = p.uid /\ c.kept = p.kept /\ c.values = p.values
          /\ c.origin = p.origin \ D /\ Len(c.subjects) = Len(p.subjects)
      BY <2>1, CutFacts
    <2>5. Observed(c, <<o, k>>)
      <3>1. <<o, k>> # Destroyed
        BY <2>1, NoneAssumption DEF Destroyed
      <3>. QED
        BY <1>3, <2>1, <2>3, <3>1, CutObserved
    <2>6. ASSUME NEW r \in c.origin
          PROVE  /\ r \in Objects \X Keys /\ Present(g, r) /\ r # <<o, k>> /\ At(g, r).uid <= u
                 /\ o \notin X => At(g, r).uid < c.uid
      <3>1. /\ r \in Objects \X Keys /\ Present(old, r) /\ r # <<o, k>> /\ r \notin D
            /\ At(old, r).uid <= u
            /\ o \notin X => At(old, r).uid < q.uid
        BY <2>1, <2>2, <2>4 DEF PropertyOK
      <3>2. PICK a \in Objects, b \in Keys : r = <<a, b>>
        BY <3>1
      <3>3. a \notin S /\ Present(h, r)
        BY <3>1, <3>2 DEF Leaving
      <3>4. a \in Live(h) /\ b \in KeysOf(h[a])
        BY <3>2, <3>3 DEF Present, Live, KeysOf
      <3>5. a \in Live(g) /\ b \in KeysOf(g[a])
        BY <1>2, <3>3, <3>4
      <3>6. /\ g[a][b] = Cut(h[a][b], D) /\ h[a][b] \in Property
            /\ h[a][b].uid = old[a][b].uid
        BY <1>4, <3>5 DEF Trimmed
      <3>7. g[a][b].uid = old[a][b].uid
        BY <3>6, CutFacts
      <3>8. Present(g, r)
        BY <3>2, <3>5 DEF Present, Live, KeysOf
      <3>. QED
        BY <2>1, <2>4, <3>1, <3>2, <3>7, <3>8 DEF At
    <2>7. ASSUME NEW i \in DOMAIN c.values, c.values[i] # None PROVE g[c.values[i]] # None
      <3>1. /\ i \in DOMAIN p.values /\ p.values[i] = c.values[i] /\ p.values[i] \notin S
            /\ p.values[i] # None
        BY <2>3, <2>4, <2>7
      <3>2. p.values[i] \in Objects
        BY <2>1, <3>1, PropertyFacts
      <3>3. old[p.values[i]] # None
        <4>1. CASE i \in DOMAIN q.values /\ p.values[i] = q.values[i]
          BY <2>2, <3>1, <4>1 DEF PropertyOK
        <4>. QED
          BY <2>1, <3>1, <4>1 DEF Trimmed
      <3>4. p.values[i] \in Live(h)
        BY <1>1, <3>2, <3>3 DEF Live
      <3>. QED
        BY <1>2, <3>1, <3>2, <3>4 DEF Live
    <2>. HIDE DEF p, q, c
    <2>. QED
      BY <2>1, <2>2, <2>3, <2>4, <2>5, <2>6, <2>7 DEF PropertyOK, UidOK, p, q, c
  <1>6. ASSUME NEW n \in Objects, NEW o \in Objects, NEW k \in Keys, NEW i, Holds(g, o, k, i, n)
        PROVE  Holds(old, o, k, i, n) \/ (<<o, k, i>> = at /\ Unheld(old, n))
    <2>1. o \in Live(g) /\ k \in KeysOf(g[o])
      BY <1>6 DEF Holds, Live, KeysOf
    <2>2. /\ h[o][k] \in Property /\ g[o][k] = Cut(h[o][k], D) /\ Trimmed(h[o][k], old, o, k, at)
          /\ o \in Live(old) /\ k \in KeysOf(old[o])
      BY <1>4, <2>1
    <2>3. g[o][k].values = h[o][k].values
      BY <2>2, CutFacts
    <2>4. i \in DOMAIN h[o][k].values /\ h[o][k].values[i] = n /\ n # None
      BY <1>6, <2>3, NoneAssumption DEF Holds
    <2>. QED
      BY <2>2, <2>4 DEF Holds, Trimmed, Live, KeysOf
  <1>7. HeldOnce(g)
    <2>1. HeldOnce(old)
      BY DEF Good
    <2>. QED
      BY <1>6, <2>1 DEF HeldOnce, Unheld
  <1>. QED
    BY <1>1, <1>2, <1>5, <1>7 DEF Good, g

-----------------------------------------------------------------------------
(***************************************************************************)
(* Another property in the place of one.                                   *)
(***************************************************************************)

Replaced(h, o, k, p) == [h EXCEPT ![o][k] = p]

\* g is h but for the property k of o.
Differs(g, h, o, k, p) ==
    /\ g \in Heap /\ Live(g) = Live(h)
    /\ \A a \in Objects : a # o => g[a] = h[a]
    /\ \A l \in Keys : g[o][l] = IF l = k THEN p ELSE h[o][l]
    /\ \A a \in Objects : a # o => KeysOf(g[a]) = KeysOf(h[a])
    /\ KeysOf(g[o]) = KeysOf(h[o]) \cup {k}

LEMMA ReplacedShape ==
    ASSUME NEW h \in Heap, NEW o \in Live(h), NEW k \in Keys, NEW p \in Property
    PROVE  Differs(Replaced(h, o, k, p), h, o, k, p)
  <1>. DEFINE m == [h[o] EXCEPT ![k] = p]
              g == [h EXCEPT ![o] = m]
  <1>1. h[o] \in PropertyMap /\ o \in Objects /\ p # None
    BY LiveFacts, PropertyFacts
  <1>2. m \in PropertyMap
    BY <1>1 DEF PropertyMap
  <1>3. \A l \in Keys : m[l] = IF l = k THEN p ELSE h[o][l]
    BY <1>1 DEF PropertyMap
  <1>4. m # None
    BY <1>2, NoneAssumption
  <1>5. g = Replaced(h, o, k, p)
    BY DEF Replaced
  <1>. HIDE DEF m
  <1>6. g \in Heap
    BY <1>1, <1>2 DEF Heap
  <1>7. \A a \in Objects : g[a] = IF a = o THEN m ELSE h[a]
    BY DEF Heap
  <1>. HIDE DEF g
  <1>8. Live(g) = Live(h)
    BY <1>1, <1>4, <1>7 DEF Live
  <1>9. KeysOf(g[o]) = KeysOf(h[o]) \cup {k}
    BY <1>1, <1>3, <1>7 DEF KeysOf
  <1>. QED
    BY <1>1, <1>3, <1>5, <1>6, <1>7, <1>8, <1>9 DEF Differs

\* p may take the place of the property k of o: it holds no more than that, but at one
\* index an object that is held by nothing.
Successor(h, o, k, p, index) ==
    /\ p \in Property /\ p.uid = h[o][k].uid /\ p.origin = h[o][k].origin
    /\ h[o][k].kept = 0 => p.kept = 0
    /\ p.kept <= Len(p.subjects) /\ Observed(p, <<o, k>>)
    /\ p.type # "object" => p.values = <<>>
    /\ \A i \in DOMAIN p.values : p.values[i] # None =>
          \/ i \in DOMAIN h[o][k].values /\ p.values[i] = h[o][k].values[i]
          \/ i = index /\ h[p.values[i]] # None /\ Unheld(h, p.values[i])

LEMMA ReplacedGood ==
    ASSUME NEW h, NEW u, NEW X, Good(h, u, X), NEW o \in Live(h), NEW k \in KeysOf(h[o]),
           NEW p, NEW index, Successor(h, o, k, p, index)
    PROVE  Good(Replaced(h, o, k, p), u, X)
  <1>. DEFINE g == Replaced(h, o, k, p)
  <1>0. /\ p \in Property /\ p.uid = h[o][k].uid /\ p.origin = h[o][k].origin
        /\ h[o][k].kept = 0 => p.kept = 0
        /\ p.kept <= Len(p.subjects) /\ Observed(p, <<o, k>>)
        /\ p.type # "object" => p.values = <<>>
        /\ \A i \in DOMAIN p.values : p.values[i] # None =>
              \/ i \in DOMAIN h[o][k].values /\ p.values[i] = h[o][k].values[i]
              \/ i = index /\ h[p.values[i]] # None /\ Unheld(h, p.values[i])
    BY DEF Successor
  <1>1. h \in Heap /\ u \in Nat /\ o \in Objects /\ k \in Keys /\ h[o][k] \in Property
    BY LiveFacts DEF Good
  <1>2. /\ g \in Heap /\ Live(g) = Live(h)
        /\ \A a \in Objects : a # o => g[a] = h[a]
        /\ \A l \in Keys : g[o][l] = IF l = k THEN p ELSE h[o][l]
        /\ \A a \in Objects : a # o => KeysOf(g[a]) = KeysOf(h[a])
        /\ KeysOf(g[o]) = KeysOf(h[o]) \cup {k}
    <2>1. Differs(g, h, o, k, p)
      BY <1>0, <1>1, ReplacedShape
    <2>. QED
      BY <2>1 DEF Differs
  <1>. HIDE DEF g
  <1>3. \A a \in Objects : g[a] # None <=> h[a] # None
    BY <1>2 DEF Live
  <1>4. \A a \in Live(g) : a \in Objects /\ KeysOf(g[a]) = KeysOf(h[a])
    BY <1>2 DEF Live
  <1>5. \A q \in Objects \X Keys : Present(h, q) => Present(g, q) /\ At(g, q).uid = At(h, q).uid
    <2>1. ASSUME NEW a \in Objects, NEW b \in Keys, Present(h, <<a, b>>)
          PROVE  Present(g, <<a, b>>) /\ At(g, <<a, b>>).uid = At(h, <<a, b>>).uid
      <3>1. a \in Live(g) /\ a \in Live(h) /\ b \in KeysOf(h[a])
        BY <1>2, <2>1 DEF Present, Live, KeysOf
      <3>2. g[a] # None /\ g[a][b] # None
        BY <1>4, <3>1 DEF Live, KeysOf
      <3>3. g[a][b].uid = h[a][b].uid
        BY <1>0, <1>2
      <3>. QED
        BY <3>2, <3>3 DEF Present, At
    <2>. QED
      BY <2>1
  <1>6. PropertyOK(h, u, X, o, k)
    BY DEF Good
  <1>7. ASSUME NEW i \in DOMAIN p.values, p.values[i] # None PROVE g[p.values[i]] # None
    <2>1. p.values[i] \in Objects
      BY <1>0, <1>7, PropertyFacts
    <2>. QED
      BY <1>0, <1>3, <1>6, <1>7, <2>1 DEF PropertyOK
  <1>8. ASSUME NEW a \in Live(g), NEW b \in KeysOf(g[a]) PROVE PropertyOK(g, u, X, a, b)
    <2>1. a \in Live(h) /\ b \in KeysOf(h[a]) /\ a \in Objects /\ b \in Keys /\ h[a][b] \in Property
      BY <1>1, <1>2, <1>4, LiveFacts
    <2>2. PropertyOK(h, u, X, a, b)
      BY <2>1 DEF Good
    <2>3. CASE a = o /\ b = k
      <3>1. g[a][b] = p
        BY <1>2, <2>1, <2>3
      <3>. QED
        BY <1>0, <1>5, <1>6, <1>7, <2>3, <3>1 DEF PropertyOK, UidOK
    <2>4. CASE ~ (a = o /\ b = k)
      <3>1. g[a][b] = h[a][b]
        BY <1>2, <2>1, <2>4
      <3>2. \A i \in DOMAIN h[a][b].values : h[a][b].values[i] # None => g[h[a][b].values[i]] # None
        BY <1>3, <2>1, <2>2, PropertyFacts DEF PropertyOK
      <3>. QED
        BY <1>5, <2>2, <3>1, <3>2 DEF PropertyOK
    <2>. QED
      BY <2>3, <2>4
  <1>9. HeldOnce(h)
    BY DEF Good
  <1>10. ASSUME NEW n \in Objects, NEW a \in Objects, NEW l \in Keys, NEW i \in Nat, Holds(g, a, l, i, n)
         PROVE  Holds(h, a, l, i, n) \/ (a = o /\ l = k /\ i = index /\ Unheld(h, n))
    <2>1. a \in Live(g) /\ l \in KeysOf(g[a])
      BY <1>10 DEF Holds, Live, KeysOf
    <2>2. h[a] # None /\ h[a][l] # None
      BY <1>3, <1>4, <2>1 DEF Live, KeysOf
    <2>3. CASE a = o /\ l = k
      <3>1. g[a][l] = p /\ n # None
        BY <1>2, <2>3, NoneAssumption
      <3>. QED
        BY <1>0, <1>10, <2>2, <2>3, <3>1 DEF Holds
    <2>4. CASE ~ (a = o /\ l = k)
      <3>1. g[a][l] = h[a][l]
        BY <1>2, <2>4
      <3>. QED
        BY <1>10, <2>2, <3>1 DEF Holds
    <2>. QED
      BY <2>3, <2>4
  <1>11. HeldOnce(g)
    BY <1>9, <1>10 DEF HeldOnce, Unheld
  <1>. QED
    BY <1>1, <1>2, <1>8, <1>11 DEF Good, g

-----------------------------------------------------------------------------
(***************************************************************************)
(* A new object.                                                           *)
(***************************************************************************)

Placed(h, to, m) == [h EXCEPT ![to] = m]

\* Nothing holds an object, and nothing was copied from a property of it.
Fresh(h, y) ==
    \A o \in Live(h) : \A k \in KeysOf(h[o]) :
        /\ \A i \in DOMAIN h[o][k].values : h[o][k].values[i] # y
        /\ \A q \in h[o][k].origin : q[1] # y

\* A property that is not in the heap yet, and holds nothing.
NewProperty(h, u, X, to, k, p) ==
    /\ UidOK(p, u) /\ p.kept <= Len(p.subjects)
    /\ p.type # "object" => p.values = <<>>
    /\ \A i \in DOMAIN p.values : p.values[i] = None
    /\ \A q \in p.origin : /\ q \in Objects \X Keys /\ Present(h, q) /\ At(h, q).uid <= u
                           /\ to \notin X => At(h, q).uid < p.uid
    /\ Observed(p, <<to, k>>)

LEMMA PlacedShape ==
    ASSUME NEW h \in Heap, NEW to \in Objects, h[to] = None, NEW m \in PropertyMap
    PROVE  /\ Placed(h, to, m) \in Heap
           /\ Live(Placed(h, to, m)) = Live(h) \cup {to}
           /\ Placed(h, to, m)[to] = m
           /\ \A a \in Objects : a # to => Placed(h, to, m)[a] = h[a]
  <1>1. m # None
    BY NoneAssumption
  <1>2. Placed(h, to, m) \in Heap
    BY DEF Placed, Heap
  <1>3. \A a \in Objects : Placed(h, to, m)[a] = IF a = to THEN m ELSE h[a]
    BY DEF Placed, Heap
  <1>. QED
    BY <1>1, <1>2, <1>3 DEF Live

LEMMA PlacedGood ==
    ASSUME NEW h, NEW u, NEW X, Good(h, u, X), NEW to \in Objects, h[to] = None,
           NEW m \in PropertyMap, NEW v \in Nat, u <= v, NEW Y, X \subseteq Y,
           \A k \in KeysOf(m) : NewProperty(h, v, Y, to, k, m[k])
    PROVE  Good(Placed(h, to, m), v, Y) /\ Fresh(Placed(h, to, m), to)
  <1>. DEFINE g == Placed(h, to, m)
  <1>1. h \in Heap /\ u \in Nat
    BY DEF Good
  <1>2. /\ g \in Heap /\ Live(g) = Live(h) \cup {to} /\ g[to] = m
        /\ \A a \in Objects : a # to => g[a] = h[a]
    BY <1>1, PlacedShape
  <1>. HIDE DEF g
  <1>3. to \notin Live(h) /\ Live(h) \subseteq Objects
    BY DEF Live
  <1>4. \A a \in Live(h) : a # to /\ g[a] = h[a] /\ g[a] # None /\ a \in Objects
    BY <1>2, <1>3 DEF Live
  <1>5. \A q \in Objects \X Keys : Present(h, q) =>
              Present(g, q) /\ At(g, q) = At(h, q) /\ q[1] # to
    BY <1>2, <1>3 DEF Present, At, Live
  <1>6. ASSUME NEW a \in Live(h), NEW k \in KeysOf(h[a])
        PROVE  /\ PropertyOK(g, v, Y, a, k)
               /\ \A i \in DOMAIN h[a][k].values : h[a][k].values[i] # to
               /\ \A q \in h[a][k].origin : q[1] # to
    <2>1. PropertyOK(h, u, X, a, k) /\ h[a][k] \in Property /\ g[a] = h[a]
      BY <1>1, <1>4, LiveFacts DEF Good
    <2>2. ASSUME NEW i \in DOMAIN h[a][k].values, h[a][k].values[i] # None
          PROVE  g[h[a][k].values[i]] # None /\ h[a][k].values[i] # to
      <3>1. h[a][k].values[i] \in Live(h)
        BY <2>1, <2>2, PropertyFacts DEF PropertyOK, Live
      <3>. QED
        BY <1>4, <3>1
    <2>3. to # None
      BY NoneAssumption
    <2>4. h[a][k].uid \in Nat /\ UidOK(h[a][k], v)
      BY <1>1, <2>1, PropertyFacts DEF PropertyOK, UidOK
    <2>5. ASSUME NEW q \in h[a][k].origin
          PROVE  /\ q \in Objects \X Keys /\ Present(h, q) /\ q # <<a, k>> /\ At(h, q).uid <= v
                 /\ a \notin X => At(h, q).uid < h[a][k].uid
      <3>1. q \in Objects \X Keys /\ Present(h, q) /\ At(h, q).uid <= u
        BY <2>1 DEF PropertyOK
      <3>2. At(h, q).uid \in Nat
        BY <1>1, <3>1, PresentFacts
      <3>. QED
        BY <1>1, <2>1, <3>1, <3>2 DEF PropertyOK
    <2>. QED
      BY <1>5, <2>1, <2>2, <2>3, <2>4, <2>5 DEF PropertyOK
  <1>7. ASSUME NEW k \in KeysOf(m)
        PROVE  /\ PropertyOK(g, v, Y, to, k)
               /\ \A i \in DOMAIN m[k].values : m[k].values[i] # to
               /\ \A q \in m[k].origin : q[1] # to
    <2>1. NewProperty(h, v, Y, to, k, m[k]) /\ g[to] = m /\ to # None
      BY <1>2, NoneAssumption
    <2>2. \A q \in m[k].origin : q # <<to, k>>
      BY <1>5, <2>1 DEF NewProperty
    <2>. QED
      BY <1>5, <2>1, <2>2 DEF PropertyOK, NewProperty
  <1>8. \A a \in Live(g) : \A k \in KeysOf(g[a]) :
           /\ PropertyOK(g, v, Y, a, k)
           /\ \A i \in DOMAIN g[a][k].values : g[a][k].values[i] # to
           /\ \A q \in g[a][k].origin : q[1] # to
    BY <1>2, <1>4, <1>6, <1>7
  <1>9. ASSUME NEW n \in Objects, NEW a \in Objects, NEW k \in Keys, NEW i, Holds(g, a, k, i, n)
        PROVE  Holds(h, a, k, i, n)
    <2>1. CASE a = to
      <3>1. k \in KeysOf(m) /\ n # None
        BY <1>2, <1>9, <2>1, NoneAssumption DEF Holds, KeysOf
      <3>2. \A j \in DOMAIN m[k].values : m[k].values[j] = None
        BY <3>1 DEF NewProperty
      <3>. QED
        BY <1>2, <1>9, <2>1, <3>1, <3>2 DEF Holds
    <2>2. CASE a # to
      BY <1>2, <1>9, <2>2 DEF Holds
    <2>. QED
      BY <2>1, <2>2
  <1>10. HeldOnce(g)
    <2>1. HeldOnce(h)
      BY DEF Good
    <2>. QED
      BY <1>9, <2>1 DEF HeldOnce
  <1>. QED
    BY <1>2, <1>8, <1>10 DEF Good, Fresh, g

-----------------------------------------------------------------------------
(***************************************************************************)
(* Clones.                                                                 *)
(***************************************************************************)

\* The UIDs of objects: those of documents or generated ones, and 0 where there is no object.
IdsOK(h, numbers, u) ==
    /\ numbers \in [Objects -> Nat]
    /\ \A o \in Objects : (numbers[o] <= u \/ numbers[o] <= MaxUid) /\ (h[o] = None => numbers[o] = 0)

\* An orderly intermediate state, in which the objects of X have no UIDs of their own yet.
Valid(s, X) ==
    s \in State /\ Good(s.heap, s.uid, X) /\ IdsOK(s.heap, s.ids, s.uid) /\ X \subseteq Live(s.heap)

\* t is s with new objects, which hold new objects.
GoesOn(s, t) ==
    /\ \A o \in Live(s.heap) : t.heap[o] = s.heap[o] /\ t.ids[o] = s.ids[o]
    /\ \A o \in Live(t.heap) \ Live(s.heap) : \A k \in KeysOf(t.heap[o]) :
          \A i \in DOMAIN t.heap[o][k].values : t.heap[o][k].values[i] \notin Live(s.heap)

\* Objects that nothing refers to stay so, but for the one that is copied.
StayFresh(s, t, from) ==
    \A y \in Live(s.heap) : y # from /\ Fresh(s.heap, y) => Fresh(t.heap, y)

\* A clone of o ends in c.
CloneOK(s, o, X, c) ==
    /\ c.uid \in Nat /\ s.uid <= c.uid /\ c.ok \in BOOLEAN
    /\ c.ok => /\ Valid(c, X) /\ GoesOn(s, c) /\ StayFresh(s, c, o)
               /\ c.made \in Live(c.heap) \ Live(s.heap) /\ Fresh(c.heap, c.made)

ClonesOK(clones) ==
    \A s \in State, o \in Objects, X \in SUBSET Objects :
        s.ok /\ Valid(s, X) /\ o \in Live(s.heap) => CloneOK(s, o, X, clones[<<s, o>>])

\* The properties a copy of p, which is at a place, comes from.
Descent(p, place) == IF p.kept > 0 THEN p.origin \cup {place} ELSE p.origin

\* p is the copy of the property q, but for the objects it holds.
CopyOf(p, q, place) ==
    /\ p.type = q.type /\ p.uid = q.uid /\ p.capacity = q.capacity
    /\ p.origin = Descent(q, place) /\ p.subjects = q.subjects /\ p.kept = 0
    /\ DOMAIN p.values = DOMAIN Copy(q, place).values

\* Copying the map of from to the new object to has come to t.
CopyOK(s, from, to, X, t) ==
    /\ t.uid \in Nat /\ s.uid <= t.uid /\ t.ok \in BOOLEAN
    /\ t.ok => /\ Valid(t, X \cup {to}) /\ GoesOn(s, t) /\ StayFresh(s, t, from)
               /\ to \in Live(t.heap) /\ Fresh(t.heap, to)
               /\ KeysOf(t.heap[to]) = KeysOf(s.heap[from])
               /\ \A k \in KeysOf(s.heap[from]) :
                     CopyOf(t.heap[to][k], s.heap[from][k], <<from, k>>)

LEMMA CopyFacts ==
    ASSUME NEW p \in Property, NEW place \in Objects \X Keys
    PROVE  LET c == Copy(p, place)
           IN  /\ c \in Property /\ c # None
               /\ CopyOf(c, p, place)
               /\ c.type = "object" => c.values = [i \in 1..p.capacity |-> None]
               /\ c.type # "object" => c.values = p.values
  <1>. DEFINE values == IF p.type = "object" THEN [i \in 1..p.capacity |-> None] ELSE p.values
              c == Copy(p, place)
  <1>1. /\ p.capacity \in Nat /\ p.values \in Seq(Objects \cup {None})
        /\ p.origin \subseteq Places
    BY PropertyFacts, BoundsAssumption DEF Indices
  <1>2. values \in Seq(Objects \cup {None})
    <2>1. ASSUME NEW n \in Nat PROVE [i \in 1..n |-> None] \in Seq(Objects \cup {None})
      BY <2>1
    <2>. QED
      BY <1>1, <2>1
  <1>3. Descent(p, place) \in SUBSET Places /\ 0 \in 0..MaxCapacity
    BY <1>1, BoundsAssumption DEF Places, Descent
  <1>4. c = [p EXCEPT !.origin = Descent(p, place), !.kept = 0, !.values = values]
    BY DEF Copy, Descent
  <1>5. /\ c.type = p.type /\ c.uid = p.uid /\ c.capacity = p.capacity /\ c.values = values
        /\ c.origin = Descent(p, place) /\ c.subjects = p.subjects /\ c.kept = 0
    BY <1>4 DEF Property
  <1>. HIDE DEF values
  <1>6. c \in Property
    BY <1>2, <1>3, <1>4 DEF Property
  <1>. HIDE DEF c
  <1>. QED
    BY <1>5, <1>6, PropertyFacts DEF CopyOf, c, values

\* The copy of a property observes what the property observes.
LEMMA CopyObserved ==
    ASSUME NEW p \in Property, NEW place, Observed(p, place), NEW other, NEW c,
           c.subjects = p.subjects, c.origin = Descent(p, place), c.kept = 0,
           other \notin p.origin, other # place, other # Destroyed
    PROVE  Observed(c, other)
  <1>1. ASSUME NEW i \in DOMAIN p.subjects
        PROVE  /\ \A j \in DOMAIN p.subjects[i] :
                     p.subjects[i][j] \in c.origin \cup {other, Destroyed}
               /\ \A j, l \in DOMAIN p.subjects[i] :
                     p.subjects[i][j] = p.subjects[i][l] /\ p.subjects[i][j] # Destroyed => j = l
               /\ ~ \E j \in DOMAIN p.subjects[i] : p.subjects[i][j] = other
    <2>1. i \in Nat /\ i > 0 /\ p.kept \in Nat
      BY PropertyFacts
    <2>2. (\E j \in DOMAIN p.subjects[i] : p.subjects[i][j] = place) <=> i <= p.kept
      BY DEF Observed
    <2>3. /\ \A j \in DOMAIN p.subjects[i] : p.subjects[i][j] \in p.origin \cup {place, Destroyed}
          /\ \A j, l \in DOMAIN p.subjects[i] :
                p.subjects[i][j] = p.subjects[i][l] /\ p.subjects[i][j] # Destroyed => j = l
      BY DEF Observed
    <2>4. CASE p.kept > 0
      <3>1. c.origin = p.origin \cup {place}
        BY <2>4 DEF Descent
      <3>. QED
        BY <2>3, <3>1
    <2>5. CASE ~ p.kept > 0
      <3>1. c.origin = p.origin /\ p.kept = 0
        BY <2>1, <2>5 DEF Descent
      <3>2. ~ i <= p.kept
        BY <2>1, <3>1
      <3>3. \A j \in DOMAIN p.subjects[i] : p.subjects[i][j] # place
        BY <2>2, <3>2, Zenon
      <3>. QED
        BY <2>3, <3>1, <3>3
    <2>. QED
      BY <2>4, <2>5
  <1>2. \A i \in DOMAIN p.subjects : ~ i <= 0
    BY PropertyFacts
  <1>. QED
    BY <1>1, <1>2 DEF Observed

LEMMA CopiesShape ==
    ASSUME NEW h \in Heap, NEW from \in Live(h)
    PROVE  /\ Copies(h, from) \in PropertyMap
           /\ KeysOf(Copies(h, from)) = KeysOf(h[from])
           /\ \A k \in KeysOf(h[from]) : Copies(h, from)[k] = Copy(h[from][k], <<from, k>>)
  <1>. DEFINE m == Copies(h, from)
  <1>1. \A k \in KeysOf(h[from]) : /\ k \in Keys /\ h[from][k] \in Property
                                  /\ <<from, k>> \in Objects \X Keys
    BY LiveFacts
  <1>2. \A k \in KeysOf(h[from]) :
           Copy(h[from][k], <<from, k>>) \in Property /\ Copy(h[from][k], <<from, k>>) # None
    BY <1>1, CopyFacts
  <1>3. \A k \in Keys : m[k] = IF k \in KeysOf(h[from]) THEN Copy(h[from][k], <<from, k>>) ELSE None
    BY DEF Copies, KeysOf
  <1>4. m \in PropertyMap
    <2>1. m = [k \in Keys |-> m[k]]
      BY DEF Copies
    <2>. HIDE DEF m
    <2>. QED
      BY <1>2, <1>3, <2>1 DEF PropertyMap
  <1>5. KeysOf(m) = KeysOf(h[from])
    BY <1>2, <1>3 DEF KeysOf
  <1>. QED
    BY <1>1, <1>3, <1>4, <1>5

LEMMA FirstCopy ==
    ASSUME NEW X \in SUBSET Objects, NEW s, Valid(s, X), s.ok, NEW from \in Live(s.heap),
           NEW to \in Objects, s.heap[to] = None
    PROVE  CopyOK(s, from, to, X, [s EXCEPT !.heap[to] = Copies(s.heap, from)])
  <1>. DEFINE h == s.heap
              m == Copies(h, from)
              g == Placed(h, to, m)
              t == [s EXCEPT !.heap[to] = Copies(s.heap, from)]
  <1>1. /\ s \in State /\ Good(h, s.uid, X) /\ IdsOK(h, s.ids, s.uid) /\ h \in Heap
        /\ s.uid \in Nat /\ s.ok \in BOOLEAN /\ s.ids \in [Objects -> Nat]
    BY DEF Valid, State
  <1>2. /\ m \in PropertyMap /\ KeysOf(m) = KeysOf(h[from])
        /\ \A k \in KeysOf(h[from]) : m[k] = Copy(h[from][k], <<from, k>>)
    BY <1>1, CopiesShape
  <1>3. t.heap = g /\ t.ids = s.ids /\ t.uid = s.uid /\ t.ok = s.ok /\ t = [s EXCEPT !.heap = g]
    BY <1>1 DEF Placed, State
  <1>. HIDE DEF m, g, t
  <1>4. /\ g \in Heap /\ Live(g) = Live(h) \cup {to} /\ g[to] = m
        /\ \A a \in Objects : a # to => g[a] = h[a]
    BY <1>1, <1>2, PlacedShape DEF g
  <1>5. from \in Objects /\ from # to /\ to \notin Live(h) /\ to # None /\ from # None
    BY <1>1, NoneAssumption DEF Live
  <1>6. ASSUME NEW k \in KeysOf(m)
        PROVE  NewProperty(h, s.uid, X \cup {to}, to, k, m[k]) /\ CopyOf(m[k], h[from][k], <<from, k>>)
    <2>. DEFINE p == h[from][k]
                c == m[k]
    <2>1. /\ k \in Keys /\ k \in KeysOf(h[from]) /\ p \in Property /\ h[from] # None /\ p # None
          /\ <<from, k>> \in Objects \X Keys
      BY <1>1, <1>2, <1>5, LiveFacts
    <2>2. /\ c = Copy(p, <<from, k>>) /\ CopyOf(c, p, <<from, k>>)
          /\ c.type = "object" => c.values = [i \in 1..p.capacity |-> None]
          /\ c.type # "object" => c.values = p.values
          /\ c \in Property
      BY <1>2, <2>1, CopyFacts
    <2>3. PropertyOK(h, s.uid, X, from, k)
      BY <1>1, <2>1 DEF Good
    <2>. HIDE DEF p, c
    <2>4. /\ c.type = p.type /\ c.uid = p.uid /\ c.origin = Descent(p, <<from, k>>)
          /\ c.subjects = p.subjects /\ c.kept = 0
      BY <2>2 DEF CopyOf
    <2>5. /\ UidOK(p, s.uid)
          /\ p.type # "object" => p.values = <<>>
          /\ \A q \in p.origin : q \in Objects \X Keys /\ Present(h, q) /\ At(h, q).uid <= s.uid
          /\ Observed(p, <<from, k>>)
      BY <2>3 DEF PropertyOK, p
    <2>6. Present(h, <<from, k>>) /\ At(h, <<from, k>>) = p
      BY <2>1 DEF Present, At, p
    <2>7. <<to, k>> \notin p.origin /\ <<to, k>> # <<from, k>> /\ <<to, k>> # Destroyed
      BY <1>5, <2>5 DEF Present, Live, Destroyed
    <2>8. Observed(c, <<to, k>>)
      BY <2>1, <2>4, <2>5, <2>7, CopyObserved
    <2>9. c.kept <= Len(c.subjects)
      BY <2>2, <2>4, PropertyFacts
    <2>10. /\ c.type # "object" => c.values = <<>>
           /\ \A i \in DOMAIN c.values : c.values[i] = None
      <3>1. CASE c.type = "object"
        BY <2>2, <3>1
      <3>2. CASE c.type # "object"
        BY <2>2, <2>4, <2>5, <3>2
      <3>. QED
        BY <3>1, <3>2
    <2>11. \A q \in c.origin : q \in Objects \X Keys /\ Present(h, q) /\ At(h, q).uid <= s.uid
      <3>1. p.kept > 0 => p.uid <= s.uid
        BY <2>5 DEF UidOK
      <3>. QED
        BY <2>1, <2>4, <2>5, <2>6, <3>1 DEF Descent
    <2>12. to \in X \cup {to} /\ UidOK(c, s.uid)
      BY <2>4, <2>5 DEF UidOK
    <2>13. NewProperty(h, s.uid, X \cup {to}, to, k, c)
      BY <2>8, <2>9, <2>10, <2>11, <2>12 DEF NewProperty
    <2>. QED
      BY <2>2, <2>13 DEF p, c
  <1>7. Good(g, s.uid, X \cup {to}) /\ Fresh(g, to)
    <2>1. X \subseteq X \cup {to} /\ s.uid <= s.uid
      BY <1>1
    <2>2. \A k \in KeysOf(m) : NewProperty(h, s.uid, X \cup {to}, to, k, m[k])
      BY <1>6
    <2>. HIDE DEF h
    <2>3. h[to] = None
      BY DEF h
    <2>. QED
      BY <1>1, <1>2, <2>1, <2>2, <2>3, PlacedGood DEF g
  <1>8. IdsOK(g, s.ids, s.uid)
    BY <1>1, <1>4 DEF IdsOK
  <1>9. t \in State
    BY <1>1, <1>3, <1>4 DEF State
  <1>10. GoesOn(s, t)
    <2>1. \A k \in KeysOf(m) : \A i \in DOMAIN m[k].values : m[k].values[i] \notin Live(h)
      BY <1>6, NoneAssumption DEF NewProperty, Live
    <2>. QED
      BY <1>3, <1>4, <1>5, <2>1 DEF GoesOn, Live
  <1>11. ASSUME NEW y \in Live(h), y # from, Fresh(h, y) PROVE Fresh(g, y)
    <2>1. \A k \in KeysOf(m) : /\ \A i \in DOMAIN m[k].values : m[k].values[i] # y
                              /\ m[k].origin \subseteq h[from][k].origin \cup {<<from, k>>}
      BY <1>6, NoneAssumption DEF NewProperty, CopyOf, Descent, Live
    <2>2. \A k \in KeysOf(m) : \A q \in m[k].origin : q[1] # y
      BY <1>2, <1>11, <2>1 DEF Fresh
    <2>. QED
      BY <1>4, <1>11, <2>1, <2>2 DEF Fresh, Live
  <1>12. StayFresh(s, t, from)
    BY <1>3, <1>11 DEF StayFresh
  <1>13. Valid(t, X \cup {to})
    <2>1. X \cup {to} \subseteq Live(g)
      BY <1>4 DEF Valid
    <2>. QED
      BY <1>3, <1>7, <1>8, <1>9, <2>1 DEF Valid
  <1>14. \A k \in KeysOf(s.heap[from]) : CopyOf(t.heap[to][k], s.heap[from][k], <<from, k>>)
    BY <1>2, <1>3, <1>4, <1>6
  <1>. QED
    <2>1. t.uid \in Nat /\ s.uid <= t.uid /\ t.ok \in BOOLEAN
      BY <1>1, <1>3
    <2>2. to \in Live(t.heap) /\ Fresh(t.heap, to) /\ KeysOf(t.heap[to]) = KeysOf(s.heap[from])
      BY <1>2, <1>3, <1>4, <1>7
    <2>3. CopyOK(s, from, to, X, t)
      BY <1>10, <1>12, <1>13, <1>14, <2>1, <2>2 DEF CopyOK
    <2>. QED
      BY <2>3 DEF t

LEMMA FreshUnheld ==
    ASSUME NEW h \in Heap, NEW y \in Objects, Fresh(h, y)
    PROVE  Unheld(h, y)
  BY DEF Fresh, Unheld, Holds, Live, KeysOf

LEMMA GoesOnFurther ==
    ASSUME NEW s, NEW t, NEW c, s.heap \in Heap, t.heap \in Heap, c.heap \in Heap,
           GoesOn(s, t), GoesOn(t, c)
    PROVE  GoesOn(s, c) /\ Live(s.heap) \subseteq Live(t.heap)
  <1>1. Live(s.heap) \subseteq Live(t.heap)
    BY DEF GoesOn, Live
  <1>2. \A o \in Live(s.heap) : c.heap[o] = s.heap[o] /\ c.ids[o] = s.ids[o]
    BY <1>1 DEF GoesOn
  <1>3. ASSUME NEW o \in Live(c.heap) \ Live(s.heap), NEW k \in KeysOf(c.heap[o]),
               NEW i \in DOMAIN c.heap[o][k].values
        PROVE  c.heap[o][k].values[i] \notin Live(s.heap)
    <2>1. CASE o \in Live(t.heap)
      <3>1. c.heap[o] = t.heap[o]
        BY <2>1 DEF GoesOn
      <3>. QED
        BY <1>3, <2>1, <3>1 DEF GoesOn
    <2>2. CASE o \notin Live(t.heap)
      BY <1>1, <1>3, <2>2 DEF GoesOn
    <2>. QED
      BY <2>1, <2>2
  <1>. QED
    BY <1>1, <1>2, <1>3 DEF GoesOn

PutIn(c, to, k, i, made) == [c EXCEPT !.heap[to][k].values[i] = made]

\* w is c but for made, which is put into to.
PutOK(s, c, X, to, made, w) ==
    /\ Valid(w, X) /\ GoesOn(s, w) /\ w.uid = c.uid /\ w.ok = c.ok
    /\ Live(w.heap) = Live(c.heap) /\ KeysOf(w.heap[to]) = KeysOf(c.heap[to])
    /\ \A y : y # made /\ Fresh(c.heap, y) => Fresh(w.heap, y)
    /\ \A l \in KeysOf(c.heap[to]) : \A q, place :
          CopyOf(c.heap[to][l], q, place) => CopyOf(w.heap[to][l], q, place)

\* An object is put into a new one, where nothing refers to either.
LEMMA PutInto ==
    ASSUME NEW s, s.heap \in Heap, NEW c, NEW X, Valid(c, X), GoesOn(s, c),
           NEW to \in Live(c.heap) \ Live(s.heap), NEW k \in KeysOf(c.heap[to]), NEW i,
           i \in DOMAIN c.heap[to][k].values, c.heap[to][k].type = "object",
           NEW made, made \in Live(c.heap) \ Live(s.heap), made # to, Fresh(c.heap, made),
           NEW w, w = PutIn(c, to, k, i, made)
    PROVE  PutOK(s, c, X, to, made, w)
  <1>. DEFINE h == c.heap
              p == h[to][k]
              values == [p.values EXCEPT ![i] = made]
              new == [p EXCEPT !.values = values]
              g == Replaced(h, to, k, new)
  <1>1. /\ c \in State /\ Good(h, c.uid, X) /\ IdsOK(h, c.ids, c.uid) /\ h \in Heap
        /\ c.uid \in Nat /\ c.ids \in [Objects -> Nat]
    BY DEF Valid, State
  <1>2. p \in Property /\ k \in Keys /\ to \in Objects /\ made \in Objects /\ h[made] # None
    BY <1>1, LiveFacts DEF Live
  <1>3. /\ values \in Seq(Objects \cup {None}) /\ DOMAIN values = DOMAIN p.values
        /\ values[i] = made /\ \A j \in DOMAIN values : j # i => values[j] = p.values[j]
    <2>. DEFINE old == p.values
    <2>1. old \in Seq(Objects \cup {None})
      BY <1>2, PropertyFacts
    <2>. HIDE DEF old
    <2>2. [old EXCEPT ![i] = made] \in Seq(Objects \cup {None})
      <3>1. i \in 1..Len(old) /\ made \in Objects \cup {None}
        BY <1>2, <2>1 DEF old
      <3>. QED
        BY <2>1, <3>1, ExceptSeq
    <2>. QED
      BY <1>2, <2>1, <2>2 DEF old
  <1>. HIDE DEF values
  <1>4. /\ new \in Property /\ new.values = values /\ new.origin = p.origin /\ new.uid = p.uid
        /\ new.kept = p.kept /\ new.subjects = p.subjects /\ new.type = p.type
        /\ new.capacity = p.capacity
    BY <1>2, <1>3 DEF Property
  <1>5. /\ w.heap = g /\ w.ids = c.ids /\ w.uid = c.uid /\ w.ok = c.ok
        /\ w = [c EXCEPT !.heap = g]
    BY <1>1 DEF State, Replaced, values, PutIn
  <1>6. Differs(g, h, to, k, new)
    BY <1>1, <1>2, <1>4, ReplacedShape
  <1>7. PropertyOK(h, c.uid, X, to, k) /\ p.type = "object"
    BY <1>1 DEF Good
  <1>. HIDE DEF new, g
  <1>8. Good(g, c.uid, X)
    <2>1. new.kept <= Len(new.subjects) /\ Observed(new, <<to, k>>)
      <3>. DEFINE old == p
      <3>1. /\ old.kept <= Len(old.subjects) /\ Observed(old, <<to, k>>)
            /\ new.origin = old.origin /\ new.kept = old.kept /\ new.subjects = old.subjects
        BY <1>4, <1>7 DEF PropertyOK
      <3>. HIDE DEF old
      <3>2. Observed(new, <<to, k>>)
        BY <3>1, SameObserved
      <3>. QED
        BY <3>1, <3>2
    <2>2. Unheld(h, made)
      BY <1>1, <1>2, FreshUnheld
    <2>3. \A j \in DOMAIN new.values : new.values[j] # None =>
              \/ j \in DOMAIN p.values /\ new.values[j] = p.values[j]
              \/ j = i /\ h[new.values[j]] # None /\ Unheld(h, new.values[j])
      BY <1>2, <1>3, <1>4, <2>2
    <2>4. new.type # "object" => new.values = <<>>
      BY <1>4, <1>7
    <2>5. to \in Live(h) /\ k \in KeysOf(h[to]) /\ new \in Property
      BY <1>4
    <2>6. new.uid = h[to][k].uid /\ new.origin = h[to][k].origin /\ new.kept = h[to][k].kept
      BY <1>4
    <2>7. \A j \in DOMAIN new.values : new.values[j] # None =>
              \/ j \in DOMAIN h[to][k].values /\ new.values[j] = h[to][k].values[j]
              \/ j = i /\ h[new.values[j]] # None /\ Unheld(h, new.values[j])
      BY <2>3
    <2>. HIDE DEF h
    <2>8. Successor(h, to, k, new, i)
      BY <2>1, <2>4, <2>5, <2>6, <2>7 DEF Successor
    <2>9. Good(Replaced(h, to, k, new), c.uid, X)
      BY <1>1, <2>5, <2>8, ReplacedGood
    <2>. QED
      BY <2>9 DEF g
  <1>9. /\ g \in Heap /\ Live(g) = Live(h)
        /\ \A a \in Objects : a # to => g[a] = h[a]
        /\ \A l \in Keys : g[to][l] = IF l = k THEN new ELSE h[to][l]
        /\ \A a \in Objects : a # to => KeysOf(g[a]) = KeysOf(h[a])
        /\ KeysOf(g[to]) = KeysOf(h[to])
    BY <1>6 DEF Differs
  <1>10. Valid(w, X)
    <2>1. IdsOK(g, c.ids, c.uid)
      BY <1>1, <1>9 DEF IdsOK, Live
    <2>2. w \in State
      BY <1>1, <1>5, <1>9 DEF State
    <2>3. X \subseteq Live(g)
      BY <1>9 DEF Valid
    <2>. QED
      BY <1>5, <1>8, <2>1, <2>2, <2>3 DEF Valid
  <1>11. \A o \in Live(s.heap) : o # to /\ o \in Objects
    BY DEF Live
  <1>12. ASSUME NEW o \in Live(g) \ Live(s.heap), NEW l \in KeysOf(g[o]),
                NEW j \in DOMAIN g[o][l].values
         PROVE  g[o][l].values[j] \notin Live(s.heap)
    <2>1. o \in Objects /\ l \in Keys
      BY <1>12 DEF Live, KeysOf
    <2>2. CASE o = to /\ l = k
      <3>1. g[o][l] = new
        BY <1>9, <2>1, <2>2
      <3>. QED
        BY <1>3, <1>4, <1>12, <2>2, <3>1 DEF GoesOn
    <2>3. CASE ~ (o = to /\ l = k)
      <3>1. g[o][l] = h[o][l] /\ l \in KeysOf(h[o]) /\ o \in Live(h)
        BY <1>9, <1>12, <2>1, <2>3
      <3>. QED
        BY <1>12, <3>1 DEF GoesOn
    <2>. QED
      BY <2>2, <2>3
  <1>13. GoesOn(s, w)
    BY <1>5, <1>9, <1>11, <1>12 DEF GoesOn
  <1>14. ASSUME NEW y, y # made, Fresh(h, y) PROVE Fresh(g, y)
    <2>1. ASSUME NEW o \in Live(g), NEW l \in KeysOf(g[o])
          PROVE  /\ \A j \in DOMAIN g[o][l].values : g[o][l].values[j] # y
                 /\ \A q \in g[o][l].origin : q[1] # y
      <3>1. o \in Objects /\ l \in Keys /\ o \in Live(h)
        BY <1>9 DEF Live, KeysOf
      <3>2. CASE o = to /\ l = k
        <4>1. g[o][l] = new
          BY <1>9, <3>1, <3>2
        <4>2. /\ \A j \in DOMAIN p.values : p.values[j] # y
              /\ \A q \in p.origin : q[1] # y
          BY <1>14 DEF Fresh
        <4>. QED
          BY <1>3, <1>4, <1>14, <4>1, <4>2
      <3>3. CASE ~ (o = to /\ l = k)
        <4>1. g[o][l] = h[o][l] /\ l \in KeysOf(h[o])
          BY <1>9, <3>1, <3>3
        <4>. QED
          BY <1>14, <3>1, <4>1 DEF Fresh
      <3>. QED
        BY <3>2, <3>3
    <2>. QED
      BY <2>1 DEF Fresh
  <1>15. ASSUME NEW l \in KeysOf(h[to]), NEW q, NEW place, CopyOf(h[to][l], q, place)
         PROVE  CopyOf(g[to][l], q, place)
    <2>1. l \in Keys
      BY DEF KeysOf
    <2>2. CASE l = k
      BY <1>3, <1>4, <1>9, <1>15, <2>1, <2>2 DEF CopyOf
    <2>3. CASE l # k
      BY <1>9, <1>15, <2>1, <2>3
    <2>. QED
      BY <2>2, <2>3
  <1>. QED
    BY <1>5, <1>9, <1>10, <1>13, <1>14, <1>15 DEF PutOK

\* What is copied of the objects in a map: a live object, and the new property has a
\* place for the clone.
LEMMA CopiedFacts ==
    ASSUME NEW h, NEW u, NEW X, Good(h, u, X), NEW from \in Live(h), NEW v \in Copied(h, from)
    PROVE  LET p == h[from][v[1]]
           IN  /\ v[1] \in KeysOf(h[from]) /\ v[2] \in Indices /\ p \in Property
               /\ v[2] \in DOMAIN p.values /\ p.type = "object"
               /\ v[2] \in DOMAIN Copy(p, <<from, v[1]>>).values
               /\ p.values[v[2]] \in Live(h) /\ ~ Fresh(h, p.values[v[2]])
  <1>. DEFINE k == v[1]
              i == v[2]
              p == h[from][k]
              n == p.values[i]
  <1>1. /\ k \in KeysOf(h[from]) /\ i \in Indices /\ i \in DOMAIN p.values /\ i <= p.capacity
        /\ n # None
    BY DEF Copied
  <1>2. h \in Heap /\ p \in Property /\ PropertyOK(h, u, X, from, k)
    BY <1>1, LiveFacts DEF Good
  <1>3. <<from, k>> \in Objects \X Keys
    BY <1>1, <1>2, LiveFacts
  <1>. HIDE DEF p
  <1>4. p.values # <<>> /\ n \in Objects
    BY <1>1, <1>2, PropertyFacts
  <1>5. p.type = "object" /\ h[n] # None
    BY <1>1, <1>2, <1>4 DEF PropertyOK, p
  <1>6. CopyOf(Copy(p, <<from, k>>), p, <<from, k>>)
    BY <1>2, <1>3, CopyFacts
  <1>7. Copy(p, <<from, k>>).values = [j \in 1..p.capacity |-> None]
    <2>1. Copy(p, <<from, k>>).type = "object"
      BY <1>5, <1>6 DEF CopyOf
    <2>. QED
      BY <1>2, <1>3, <2>1, CopyFacts
  <1>8. i \in 1..p.capacity
    BY <1>1, <1>2, PropertyFacts, BoundsAssumption DEF Indices
  <1>9. i \in DOMAIN Copy(p, <<from, k>>).values
    BY <1>7, <1>8
  <1>10. ~ Fresh(h, n)
    BY <1>1 DEF Fresh, p
  <1>. QED
    BY <1>1, <1>2, <1>4, <1>5, <1>9, <1>10 DEF Live, p

LEMMA NextCopy ==
    ASSUME NEW X \in SUBSET Objects, NEW clones, ClonesOK(clones),
           NEW s, Valid(s, X), s.ok, NEW from \in Live(s.heap),
           NEW to \in Objects, s.heap[to] = None,
           NEW t, CopyOK(s, from, to, X, t), NEW v \in Copied(s.heap, from)
    PROVE  CopyOK(s, from, to, X, CopyValue(clones, t, from, to, v))
  <1>. DEFINE k == v[1]
              i == v[2]
              p == s.heap[from][k]
              n == p.values[i]
              c == clones[<<t, n>>]
              w == PutIn(c, to, k, i, c.made)
              Y == X \cup {to}
              next == CopyValue(clones, t, from, to, v)
  <1>. SUFFICES CopyOK(s, from, to, X, next)
    OBVIOUS
  <1>1. /\ k \in KeysOf(s.heap[from]) /\ i \in Indices /\ p \in Property
        /\ i \in DOMAIN p.values /\ p.type = "object"
        /\ i \in DOMAIN Copy(p, <<from, k>>).values
        /\ n \in Live(s.heap) /\ ~ Fresh(s.heap, n)
    BY CopiedFacts DEF Valid
  <1>2. CASE ~ t.ok
    BY <1>2 DEF CopyValue
  <1>3. CASE t.ok
    <2>1. /\ Valid(t, Y) /\ GoesOn(s, t) /\ StayFresh(s, t, from) /\ to \in Live(t.heap)
          /\ Fresh(t.heap, to) /\ KeysOf(t.heap[to]) = KeysOf(s.heap[from])
          /\ \A l \in KeysOf(s.heap[from]) : CopyOf(t.heap[to][l], s.heap[from][l], <<from, l>>)
          /\ t.uid \in Nat /\ s.uid <= t.uid
      BY <1>3 DEF CopyOK
    <2>2. s \in State /\ t \in State /\ s.heap \in Heap /\ t.heap \in Heap /\ s.uid \in Nat
      BY <2>1 DEF Valid, State
    <2>3. t.heap[from] = s.heap[from] /\ n \in Live(t.heap) /\ n \in Objects /\ to \notin Live(s.heap)
      BY <1>1, <2>1 DEF GoesOn, Live
    <2>4. next = IF ~ c.ok THEN c ELSE w
      BY <1>3, <2>3 DEF CopyValue, PutIn
    <2>. HIDE DEF next, c
    <2>5. Y \in SUBSET Objects
      OBVIOUS
    <2>6. CloneOK(t, n, Y, c)
      BY <1>3, <2>1, <2>2, <2>3, <2>5 DEF ClonesOK, c
    <2>7. c.uid \in Nat /\ s.uid <= c.uid /\ c.ok \in BOOLEAN
      BY <2>1, <2>2, <2>6 DEF CloneOK
    <2>8. CASE ~ c.ok
      BY <2>4, <2>7, <2>8 DEF CopyOK
    <2>9. CASE c.ok
      <3>1. /\ Valid(c, Y) /\ GoesOn(t, c) /\ StayFresh(t, c, n)
            /\ c.made \in Live(c.heap) \ Live(t.heap) /\ Fresh(c.heap, c.made)
        BY <2>6, <2>9 DEF CloneOK
      <3>2. c.heap \in Heap
        BY <3>1 DEF Valid, State
      <3>3. GoesOn(s, c) /\ Live(s.heap) \subseteq Live(t.heap)
        BY <2>1, <2>2, <3>1, <3>2, GoesOnFurther
      <3>4. c.heap[to] = t.heap[to] /\ to \in Live(c.heap) \ Live(s.heap)
        BY <2>1, <2>3, <3>1 DEF GoesOn, Live
      <3>5. /\ k \in KeysOf(c.heap[to]) /\ KeysOf(c.heap[to]) = KeysOf(s.heap[from])
            /\ CopyOf(c.heap[to][k], p, <<from, k>>)
        BY <1>1, <2>1, <3>4
      <3>6. i \in DOMAIN c.heap[to][k].values /\ c.heap[to][k].type = "object"
        BY <1>1, <3>5 DEF CopyOf
      <3>7. c.made \in Live(c.heap) \ Live(s.heap) /\ c.made # to
        BY <2>1, <3>1, <3>3
      <3>8. /\ Valid(w, Y) /\ GoesOn(s, w) /\ w.uid = c.uid /\ w.ok = c.ok
            /\ Live(w.heap) = Live(c.heap) /\ KeysOf(w.heap[to]) = KeysOf(c.heap[to])
            /\ \A y : y # c.made /\ Fresh(c.heap, y) => Fresh(w.heap, y)
            /\ \A l \in KeysOf(c.heap[to]) : \A q, place :
                 CopyOf(c.heap[to][l], q, place) => CopyOf(w.heap[to][l], q, place)
        <4>. DEFINE made == c.made
        <4>. HIDE DEF made
        <4>1. w = PutIn(c, to, k, i, made)
          BY DEF made
        <4>2. made \in Live(c.heap) \ Live(s.heap) /\ made # to /\ Fresh(c.heap, made)
          BY <3>1, <3>7 DEF made
        <4>3. s.heap \in Heap /\ Valid(c, Y) /\ GoesOn(s, c)
          BY <2>2, <3>1, <3>3
        <4>. HIDE DEF w, k, i, Y
        <4>4. PutOK(s, c, Y, to, made, w)
          BY <3>4, <3>5, <3>6, <4>1, <4>2, <4>3, PutInto
        <4>. QED
          BY <4>4 DEF PutOK, made
      <3>. HIDE DEF w
      <3>9. Fresh(w.heap, to)
        <4>1. Fresh(c.heap, to)
          BY <2>1, <2>3, <1>1, <3>1 DEF StayFresh
        <4>. QED
          BY <3>7, <3>8, <4>1
      <3>10. StayFresh(s, w, from)
        <4>1. ASSUME NEW y \in Live(s.heap), y # from, Fresh(s.heap, y) PROVE Fresh(w.heap, y)
          <5>1. Fresh(t.heap, y) /\ y \in Live(t.heap) /\ y # n
            BY <1>1, <2>1, <3>3, <4>1 DEF StayFresh
          <5>2. Fresh(c.heap, y) /\ y # c.made
            BY <3>1, <5>1 DEF StayFresh
          <5>. QED
            BY <3>8, <5>2
        <4>. QED
          BY <4>1 DEF StayFresh
      <3>11. \A l \in KeysOf(s.heap[from]) :
               CopyOf(w.heap[to][l], s.heap[from][l], <<from, l>>)
        BY <2>1, <3>4, <3>5, <3>8
      <3>. QED
        BY <2>4, <2>7, <2>9, <3>4, <3>5, <3>8, <3>9, <3>10, <3>11 DEF CopyOK
    <2>. QED
      BY <2>8, <2>9
  <1>. QED
    BY <1>2, <1>3 DEF CopyOK

\* What is copied of a map comes in some sequence.
LEMMA SlotsFacts ==
    ASSUME NEW h, NEW from
    PROVE  LET slots == SetToSeq(Copied(h, from))
           IN  /\ Len(slots) \in Nat
               /\ \A n \in 1..Len(slots) : slots[n] \in Copied(h, from)
  <1>. DEFINE S == Copied(h, from)
              N == Cardinality(S)
  <1>1. IsFiniteSet(S)
    <2>1. IsFiniteSet(Keys) /\ IsFiniteSet(Indices)
      BY KeysAssumption, BoundsAssumption, FS_Interval DEF Indices
    <2>2. IsFiniteSet(Keys \X Indices)
      BY <2>1, FS_Product
    <2>3. S \subseteq Keys \X Indices
      BY DEF Copied, KeysOf
    <2>. QED
      BY <2>2, <2>3, FS_Subset
  <1>. HIDE DEF S
  <1>2. N \in Nat /\ ExistsBijection(1..N, S)
    BY <1>1, FS_CardinalityType
  <1>3. \E f \in [1..N -> S] : IsInjective(f)
    BY <1>2 DEF ExistsBijection, Bijection, Injection, IsInjective
  <1>4. SetToSeq(S) \in [1..N -> S]
    BY <1>3 DEF SetToSeq
  <1>. HIDE DEF N
  <1>5. SetToSeq(S) \in Seq(S) /\ Len(SetToSeq(S)) = N
    BY <1>2, <1>4, SeqDef, LenProperties
  <1>. QED
    BY <1>2, <1>4, <1>5 DEF S

\* The values of a map are copied one after another.
Goes(f, clones, s, from, to, slots, N) ==
    /\ f[0] = [s EXCEPT !.heap[to] = Copies(s.heap, from)]
    /\ \A n \in 1..N : f[n] = CopyValue(clones, f[n - 1], from, to, slots[n])

LEMMA CopyRecursion ==
    ASSUME NEW clones, NEW s, NEW from, NEW to, NEW slots, NEW N,
           slots = SetToSeq(Copied(s.heap, from)), N = Len(slots), N \in Nat
    PROVE  \E f : CopyMap(clones, s, from, to) = f[N] /\ Goes(f, clones, s, from, to, slots, N)
  <1>. DEFINE start == [s EXCEPT !.heap[to] = Copies(s.heap, from)]
  <1>. HIDE DEF start
  <1>. DEFINE P(m) == \E f : f = [n \in 0..m |->
                         IF n = 0 THEN start ELSE CopyValue(clones, f[n - 1], from, to, slots[n])]
              S == {m \in 0..N : P(m)}
  <1>1. P(0)
    <2>. DEFINE f == [n \in 0..0 |-> start]
    <2>1. f = [n \in 0..0 |-> IF n = 0 THEN start ELSE CopyValue(clones, f[n - 1], from, to, slots[n])]
      OBVIOUS
    <2>. QED
      BY <2>1
  <1>2. ASSUME NEW m \in 1..N, P(m - 1) PROVE P(m)
    <2>1. PICK f : f = [n \in 0..(m - 1) |->
                     IF n = 0 THEN start ELSE CopyValue(clones, f[n - 1], from, to, slots[n])]
      BY <1>2
    <2>. DEFINE g == [n \in 0..m |-> IF n = m THEN CopyValue(clones, f[m - 1], from, to, slots[m])
                                     ELSE f[n]]
    <2>2. ASSUME NEW n \in 0..m
          PROVE  g[n] = IF n = 0 THEN start ELSE CopyValue(clones, g[n - 1], from, to, slots[n])
      <3>1. CASE n = m
        <4>1. g[n - 1] = f[n - 1]
          BY <3>1
        <4>. QED
          BY <3>1, <4>1
      <3>2. CASE n # m
        <4>1. n \in 0..(m - 1) /\ g[n] = f[n]
          BY <3>2
        <4>2. n # 0 => n - 1 \in 0..(m - 1) /\ g[n - 1] = f[n - 1]
          BY <3>2
        <4>3. f[n] = IF n = 0 THEN start ELSE CopyValue(clones, f[n - 1], from, to, slots[n])
          BY <2>1, <4>1
        <4>. QED
          BY <4>1, <4>2, <4>3
      <3>. QED
        BY <3>1, <3>2
    <2>3. g = [n \in 0..m |-> IF n = 0 THEN start
                              ELSE CopyValue(clones, g[n - 1], from, to, slots[n])]
      <3>. HIDE DEF g
      <3>1. DOMAIN g = 0..m /\ g = [n \in 0..m |-> g[n]]
        BY DEF g
      <3>. QED
        BY <2>2, <3>1
    <2>. QED
      BY <2>3
  <1>. HIDE DEF P
  <1>3. 0 \in S /\ \A m \in 1..N : m - 1 \in S => m \in S
    BY <1>1, <1>2
  <1>4. P(N)
    <2>1. 0..N \subseteq S
      BY <1>3, Induction
    <2>2. N \in S
      BY <2>1
    <2>. QED
      BY <2>2
  <1>. DEFINE F == CHOOSE f : f = [n \in 0..N |->
                      IF n = 0 THEN start ELSE CopyValue(clones, f[n - 1], from, to, slots[n])]
  <1>5. F = [n \in 0..N |-> IF n = 0 THEN start
                            ELSE CopyValue(clones, F[n - 1], from, to, slots[n])]
    BY <1>4 DEF P
  <1>6. CopyMap(clones, s, from, to) = F[N]
    BY DEF CopyMap, start
  <1>. HIDE DEF F
  <1>7. Goes(F, clones, s, from, to, slots, N)
    <2>1. F[0] = start
      BY <1>5
    <2>2. ASSUME NEW n \in 1..N
          PROVE  F[n] = CopyValue(clones, F[n - 1], from, to, slots[n])
      <3>1. n \in 0..N /\ n # 0
        OBVIOUS
      <3>. QED
        BY <1>5, <3>1, Zenon
    <2>. QED
      BY <2>1, <2>2 DEF Goes, start
  <1>. QED
    BY <1>6, <1>7

LEMMA CopyMapOK ==
    ASSUME NEW X \in SUBSET Objects, NEW clones, ClonesOK(clones),
           NEW s, Valid(s, X), s.ok, NEW from \in Live(s.heap),
           NEW to \in Objects, s.heap[to] = None
    PROVE  CopyOK(s, from, to, X, CopyMap(clones, s, from, to))
  <1>. DEFINE slots == SetToSeq(Copied(s.heap, from))
              N == Len(slots)
  <1>1. N \in Nat /\ \A n \in 1..N : slots[n] \in Copied(s.heap, from)
    BY SlotsFacts
  <1>. HIDE DEF slots
  <1>2. PICK f : /\ CopyMap(clones, s, from, to) = f[N]
                 /\ Goes(f, clones, s, from, to, slots, N)
    BY <1>1, CopyRecursion DEF slots
  <1>. HIDE DEF N
  <1>. DEFINE S == {n \in 0..N : CopyOK(s, from, to, X, f[n])}
  <1>3. 0 \in S
    BY <1>1, <1>2, FirstCopy DEF Goes
  <1>4. ASSUME NEW n \in 1..N, n - 1 \in S PROVE n \in S
    <2>1. f[n] = CopyValue(clones, f[n - 1], from, to, slots[n]) /\ CopyOK(s, from, to, X, f[n - 1])
      BY <1>2, <1>4 DEF Goes
    <2>2. slots[n] \in Copied(s.heap, from) /\ n \in 0..N
      BY <1>1
    <2>. QED
      BY <2>1, <2>2, NextCopy
  <1>5. N \in S
    <2>1. 0..N \subseteq S
      BY <1>1, <1>3, <1>4, Induction
    <2>. QED
      BY <1>1, <2>1
  <1>. QED
    BY <1>2, <1>5

\* No more is in the tree of o than in any set that has o, and all that its objects hold.
LEMMA TreeWithin ==
    ASSUME NEW h, NEW o, NEW C, o \in C, \A x \in C : Inner(h, x) \subseteq C
    PROVE  Tree(h, o) \subseteq C
  <1>1. PICK N \in Nat : N = Cardinality(Objects)
    BY ObjectsAssumption, FS_CardinalityType
  <1>2. PICK f : Tree(h, o) = f[N] /\ Deepens(f, h, o, N)
    BY <1>1, TreeRecursion
  <1>. DEFINE S == {n \in 0..N : f[n] \subseteq C}
  <1>3. 0 \in S
    BY <1>2 DEF Deepens
  <1>4. ASSUME NEW n \in 1..N, n - 1 \in S PROVE n \in S
    <2>1. f[n] = UNION {{x} \cup Inner(h, x) : x \in f[n - 1]}
      BY <1>2, Zenon DEF Deepens
    <2>2. \A x \in f[n - 1] : {x} \cup Inner(h, x) \subseteq C
      BY <1>4
    <2>3. UNION {{x} \cup Inner(h, x) : x \in f[n - 1]} \subseteq C
      BY <2>2
    <2>. QED
      BY <2>1, <2>3
  <1>5. N \in S
    <2>1. 0..N \subseteq S
      BY <1>3, <1>4, Induction
    <2>. QED
      BY <2>1
  <1>. QED
    BY <1>2, <1>5

-----------------------------------------------------------------------------
(***************************************************************************)
(* Other properties in the map of an object.                               *)
(***************************************************************************)

\* m has what the map of o has, of the same origin.
Remakes(h, o, m, v, Y) ==
    /\ m \in PropertyMap /\ KeysOf(m) = KeysOf(h[o])
    /\ \A k \in KeysOf(m) :
          /\ m[k].type = h[o][k].type /\ m[k].values = h[o][k].values
          /\ m[k].origin = h[o][k].origin
          /\ UidOK(m[k], v) /\ m[k].kept <= Len(m[k].subjects) /\ Observed(m[k], <<o, k>>)
    /\ \A a \in Live(h) : \A k \in KeysOf(h[a]) : \A q \in h[a][k].origin :
          /\ At(Placed(h, o, m), q).uid <= v
          /\ a \notin Y => At(Placed(h, o, m), q).uid < Placed(h, o, m)[a][k].uid

\* So does g, of which m is the map of o.
Remade(g, h, o, m) ==
    /\ g \in Heap /\ Live(g) = Live(h) /\ g[o] = m
    /\ \A a \in Objects : a # o => g[a] = h[a]
    /\ \A a \in Live(h) : KeysOf(g[a]) = KeysOf(h[a])
    /\ \A y : Fresh(h, y) => Fresh(g, y)

LEMMA RemadeGood ==
    ASSUME NEW h, NEW u, NEW X, Good(h, u, X), NEW o \in Live(h), NEW m, NEW v \in Nat, u <= v,
           NEW Y, Remakes(h, o, m, v, Y)
    PROVE  Good(Placed(h, o, m), v, Y) /\ Remade(Placed(h, o, m), h, o, m)
  <1>. DEFINE g == Placed(h, o, m)
  <1>1. /\ h \in Heap /\ u \in Nat /\ o \in Objects /\ m \in PropertyMap
        /\ KeysOf(m) = KeysOf(h[o]) /\ m # None /\ h[o] # None
    BY NoneAssumption DEF Good, Live, Remakes
  <1>2. g \in Heap /\ \A a \in Objects : g[a] = IF a = o THEN m ELSE h[a]
    BY <1>1 DEF Heap, Placed
  <1>. HIDE DEF g
  <1>3. /\ \A a \in Objects : g[a] # None <=> h[a] # None
        /\ Live(g) = Live(h)
        /\ \A a \in Live(h) : a \in Objects /\ KeysOf(g[a]) = KeysOf(h[a])
    BY <1>1, <1>2 DEF Live
  <1>4. ASSUME NEW a \in Live(h), NEW k \in KeysOf(h[a])
        PROVE  /\ g[a][k].type = h[a][k].type /\ g[a][k].values = h[a][k].values
               /\ g[a][k].origin = h[a][k].origin
               /\ UidOK(g[a][k], v) /\ g[a][k].kept <= Len(g[a][k].subjects)
               /\ Observed(g[a][k], <<a, k>>)
               /\ h[a][k] \in Property /\ PropertyOK(h, u, X, a, k)
               /\ g[a][k] \in Property
    <2>1. /\ h[a][k] \in Property /\ PropertyOK(h, u, X, a, k) /\ h[a][k].uid \in Nat
          /\ g[a][k] \in Property
      BY <1>1, <1>2, <1>3, LiveFacts, PropertyFacts DEF Good
    <2>2. CASE a = o
      BY <1>1, <1>2, <2>1, <2>2 DEF Remakes
    <2>3. CASE a # o
      <3>1. g[a] = h[a]
        BY <1>2, <1>3, <2>3
      <3>. QED
        BY <1>1, <2>1, <3>1 DEF PropertyOK, UidOK
    <2>. QED
      BY <2>1, <2>2, <2>3
  <1>5. \A q \in Objects \X Keys : Present(h, q) => Present(g, q)
    BY <1>3 DEF Present, Live, KeysOf
  <1>6. ASSUME NEW a \in Live(g), NEW k \in KeysOf(g[a]) PROVE PropertyOK(g, v, Y, a, k)
    <2>1. a \in Live(h) /\ k \in KeysOf(h[a])
      BY <1>3
    <2>2. ASSUME NEW q \in g[a][k].origin
          PROVE  /\ q \in Objects \X Keys /\ Present(g, q) /\ q # <<a, k>> /\ At(g, q).uid <= v
                 /\ a \notin Y => At(g, q).uid < g[a][k].uid
      <3>1. q \in h[a][k].origin /\ PropertyOK(h, u, X, a, k)
        BY <1>4, <2>1
      <3>2. q \in Objects \X Keys /\ Present(h, q) /\ q # <<a, k>>
        BY <3>1 DEF PropertyOK
      <3>3. At(g, q).uid <= v /\ (a \notin Y => At(g, q).uid < g[a][k].uid)
        BY <2>1, <3>1 DEF Remakes, g
      <3>. QED
        BY <1>5, <3>2, <3>3
    <2>3. ASSUME NEW i \in DOMAIN g[a][k].values, g[a][k].values[i] # None
          PROVE  g[g[a][k].values[i]] # None
      <3>1. i \in DOMAIN h[a][k].values /\ g[a][k].values[i] = h[a][k].values[i]
        BY <1>4, <2>1
      <3>2. h[a][k].values[i] \in Objects /\ h[h[a][k].values[i]] # None
        <4>. DEFINE p == h[a][k]
        <4>1. p \in Property /\ PropertyOK(h, u, X, a, k) /\ i \in DOMAIN p.values
              /\ p.values[i] # None
          BY <1>4, <2>1, <2>3, <3>1
        <4>2. h[p.values[i]] # None
          BY <4>1 DEF PropertyOK
        <4>. HIDE DEF p
        <4>3. p.values[i] \in Objects
          BY <4>1, PropertyFacts
        <4>. QED
          BY <4>2, <4>3 DEF p
      <3>. QED
        BY <1>3, <3>1, <3>2
    <2>4. g[a][k].type # "object" => g[a][k].values = <<>>
      BY <1>4, <2>1 DEF PropertyOK
    <2>. QED
      BY <1>4, <2>1, <2>2, <2>3, <2>4 DEF PropertyOK
  <1>7. HeldOnce(g)
    <2>1. ASSUME NEW n \in Objects, NEW a \in Objects, NEW k \in Keys, NEW i, Holds(g, a, k, i, n)
          PROVE  Holds(h, a, k, i, n)
      <3>1. a \in Live(g) /\ k \in KeysOf(g[a])
        BY <2>1 DEF Holds, Live, KeysOf
      <3>2. a \in Live(h) /\ k \in KeysOf(h[a])
        BY <1>3, <3>1
      <3>. QED
        BY <1>4, <2>1, <3>2 DEF Holds, Live, KeysOf
    <2>2. HeldOnce(h)
      BY DEF Good
    <2>. QED
      BY <2>1, <2>2 DEF HeldOnce
  <1>8. ASSUME NEW y, Fresh(h, y) PROVE Fresh(g, y)
    <2>1. ASSUME NEW a \in Live(g), NEW k \in KeysOf(g[a])
          PROVE  /\ \A i \in DOMAIN g[a][k].values : g[a][k].values[i] # y
                 /\ \A q \in g[a][k].origin : q[1] # y
      <3>1. a \in Live(h) /\ k \in KeysOf(h[a])
        BY <1>3
      <3>2. g[a][k].values = h[a][k].values /\ g[a][k].origin = h[a][k].origin
        BY <1>4, <3>1
      <3>. QED
        BY <1>8, <3>1, <3>2 DEF Fresh
    <2>. QED
      BY <2>1 DEF Fresh
  <1>9. Remade(g, h, o, m)
    BY <1>1, <1>2, <1>3, <1>8 DEF Remade
  <1>. QED
    BY <1>2, <1>6, <1>7, <1>9 DEF Good, g

\* The observers are registered.
LEMMA RegisteredFacts ==
    ASSUME NEW p \in Property, NEW place \in Objects \X Keys, Registrable(p),
           Observed(p, place), p.kept = 0
    PROVE  LET r == Registered(p, place)
           IN  /\ r \in Property /\ r.type = p.type /\ r.values = p.values /\ r.uid = p.uid
               /\ r.origin = p.origin /\ r.kept <= Len(r.subjects) /\ Observed(r, place)
  <1>1. /\ p.capacity \in Nat /\ p.subjects \in Seq(Seq(Places)) /\ Len(p.subjects) \in Nat
        /\ DOMAIN p.subjects = 1..Len(p.subjects) /\ p.capacity \in 0..MaxCapacity
        /\ \A i \in DOMAIN p.subjects : p.subjects[i] \in Seq(Places)
    BY PropertyFacts, BoundsAssumption DEF Indices
  <1>2. CASE ~ p.replicate
    BY <1>1, <1>2 DEF Registered
  <1>3. CASE p.replicate
    <2>. DEFINE subjects == [i \in DOMAIN p.subjects |->
                   IF i <= p.capacity THEN Append(p.subjects[i], place) ELSE p.subjects[i]]
                r == Registered(p, place)
    <2>1. r = [p EXCEPT !.subjects = subjects, !.kept = p.capacity]
      BY <1>3 DEF Registered
    <2>2. place \in Places /\ place # Destroyed
      BY NoneAssumption DEF Places, Destroyed
    <2>3. /\ subjects \in Seq(Seq(Places)) /\ Len(subjects) = Len(p.subjects)
          /\ DOMAIN subjects = DOMAIN p.subjects
      <3>. DEFINE n == Len(p.subjects)
      <3>1. n \in Nat /\ DOMAIN p.subjects = 1..n
        BY <1>1
      <3>2. \A i \in 1..n : subjects[i] \in Seq(Places)
        BY <1>1, <2>2, AppendProperties
      <3>. HIDE DEF n
      <3>3. subjects \in [1..n -> Seq(Places)]
        BY <3>1, <3>2
      <3>. HIDE DEF subjects
      <3>4. subjects \in Seq(Seq(Places)) /\ Len(subjects) = n /\ DOMAIN subjects = 1..n
        BY <3>1, <3>3, SeqDef, LenProperties
      <3>. QED
        BY <3>1, <3>4 DEF n
    <2>. HIDE DEF subjects
    <2>4. r \in Property
      BY <1>1, <2>1, <2>3 DEF Property
    <2>5. /\ r.type = p.type /\ r.values = p.values /\ r.uid = p.uid /\ r.origin = p.origin
          /\ r.kept = p.capacity /\ r.subjects = subjects
      BY <2>1 DEF Property
    <2>. HIDE DEF r
    <2>6. r.kept <= Len(r.subjects)
      BY <1>3, <2>3, <2>5 DEF Registrable
    <2>7. ASSUME NEW i \in DOMAIN r.subjects
          PROVE  LET e == r.subjects[i]
                 IN  /\ \A j \in DOMAIN e : e[j] \in r.origin \cup {place, Destroyed}
                     /\ \A j, l \in DOMAIN e : e[j] = e[l] /\ e[j] # Destroyed => j = l
                     /\ (\E j \in DOMAIN e : e[j] = place) <=> i <= r.kept
      <3>. DEFINE e == r.subjects[i]
                  t == p.subjects[i]
      <3>1. i \in DOMAIN p.subjects /\ i \in 1..Len(p.subjects) /\ t \in Seq(Places)
        BY <1>1, <2>3, <2>5
      <3>2. /\ \A j \in DOMAIN t : t[j] \in p.origin \cup {place, Destroyed}
            /\ \A j, l \in DOMAIN t : t[j] = t[l] /\ t[j] # Destroyed => j = l
            /\ \A j \in DOMAIN t : t[j] # place
        BY <3>1 DEF Observed
      <3>3. e = IF i <= p.capacity THEN Append(t, place) ELSE t
        BY <2>5, <3>1 DEF subjects
      <3>4. DOMAIN t = 1..Len(t) /\ Len(t) \in Nat
        BY <3>1
      <3>. HIDE DEF e, t
      <3>5. CASE i <= p.capacity
        <4>1. /\ DOMAIN e = 1..(Len(t) + 1) /\ e[Len(t) + 1] = place
              /\ \A j \in 1..Len(t) : e[j] = t[j]
          BY <2>2, <3>1, <3>3, <3>5, AppendProperties
        <4>2. \A j \in DOMAIN e : j \in DOMAIN t \/ j = Len(t) + 1
          BY <3>4, <4>1
        <4>3. \A j \in DOMAIN e : e[j] \in r.origin \cup {place, Destroyed}
          BY <2>5, <3>2, <3>4, <4>1, <4>2
        <4>4. \A j, l \in DOMAIN e : e[j] = e[l] /\ e[j] # Destroyed => j = l
          BY <3>2, <3>4, <4>1, <4>2
        <4>5. \E j \in DOMAIN e : e[j] = place
          BY <3>4, <4>1
        <4>. QED
          BY <2>5, <3>5, <4>3, <4>4, <4>5 DEF e
      <3>6. CASE ~ i <= p.capacity
        BY <2>5, <3>2, <3>3, <3>6 DEF e
      <3>. QED
        BY <3>5, <3>6
    <2>8. Observed(r, place)
      BY <2>7 DEF Observed
    <2>. QED
      BY <2>4, <2>5, <2>6, <2>8 DEF r
  <1>. QED
    BY <1>2, <1>3

\* All properties of a new object are registered.
LEMMA RegisterAllOK ==
    ASSUME NEW s, NEW X, Valid(s, X), NEW o \in Live(s.heap),
           \A k \in KeysOf(s.heap[o]) : s.heap[o][k].kept = 0 /\ s.heap[o][k].uid <= s.uid
    PROVE  LET t == RegisterAll(s, o)
           IN  /\ t.uid = s.uid /\ t.ids = s.ids /\ t.made = s.made /\ t.ok \in BOOLEAN
               /\ t.ok => /\ s.ok /\ Valid(t, X) /\ Remade(t.heap, s.heap, o, t.heap[o])
                          /\ \A k \in KeysOf(s.heap[o]) :
                                /\ t.heap[o][k].uid = s.heap[o][k].uid
                                /\ t.heap[o][k].origin = s.heap[o][k].origin
                                /\ t.heap[o][k].values = s.heap[o][k].values
  <1>. DEFINE h == s.heap
              t == RegisterAll(s, o)
              m == [k \in Keys |-> IF h[o][k] = None THEN None ELSE Registered(h[o][k], <<o, k>>)]
              g == Placed(h, o, m)
              good == s.ok /\ \A k \in KeysOf(h[o]) : Registrable(h[o][k])
  <1>1. /\ s \in State /\ Good(h, s.uid, X) /\ IdsOK(h, s.ids, s.uid) /\ X \subseteq Live(h)
        /\ h \in Heap /\ s.uid \in Nat /\ s.ok \in BOOLEAN /\ o \in Objects
    BY DEF Valid, State, Live
  <1>2. t.heap = g /\ t.ids = s.ids /\ t.uid = s.uid /\ t.ok = good /\ t.made = s.made
        /\ t = [s EXCEPT !.heap = g, !.ok = good]
    BY <1>1 DEF Placed, State, RegisterAll
  <1>3. good \in BOOLEAN
    BY <1>1
  <1>4. ASSUME good
        PROVE  /\ Valid(t, X) /\ Remade(g, h, o, m)
               /\ \A k \in KeysOf(h[o]) : /\ m[k].uid = h[o][k].uid /\ m[k].origin = h[o][k].origin
                                          /\ m[k].values = h[o][k].values
    <2>. HIDE DEF t, g
    <2>1. ASSUME NEW k \in KeysOf(h[o])
          PROVE  /\ m[k] \in Property /\ m[k] # None /\ m[k].type = h[o][k].type
                 /\ m[k].values = h[o][k].values /\ m[k].uid = h[o][k].uid
                 /\ m[k].origin = h[o][k].origin
                 /\ m[k].kept <= Len(m[k].subjects) /\ Observed(m[k], <<o, k>>)
                 /\ k \in Keys /\ UidOK(m[k], s.uid)
      <3>. DEFINE p == h[o][k]
      <3>1. p \in Property /\ <<o, k>> \in Objects \X Keys /\ k \in Keys /\ p # None
        BY <1>1, LiveFacts
      <3>2. PropertyOK(h, s.uid, X, o, k) /\ p.kept = 0 /\ p.uid <= s.uid /\ Registrable(p)
        BY <1>1, <1>4 DEF Good
      <3>3. Observed(p, <<o, k>>)
        BY <3>2 DEF PropertyOK
      <3>4. m[k] = Registered(p, <<o, k>>)
        BY <3>1
      <3>. HIDE DEF p, m
      <3>. QED
        BY <3>1, <3>2, <3>3, <3>4, RegisteredFacts, PropertyFacts DEF p, UidOK
    <2>2. \A k \in Keys : k \notin KeysOf(h[o]) => m[k] = None
      BY DEF KeysOf
    <2>3. m \in PropertyMap
      <3>1. m = [k \in Keys |-> m[k]] /\ \A k \in Keys : m[k] \in Property \cup {None}
        BY <2>1, <2>2
      <3>. HIDE DEF m
      <3>. QED
        BY <3>1 DEF PropertyMap
    <2>. HIDE DEF m, h
    <2>4. KeysOf(m) = KeysOf(h[o])
      BY <2>1, <2>2 DEF KeysOf
    <2>5. ASSUME NEW a \in Live(h), NEW k \in KeysOf(h[a]), NEW q \in h[a][k].origin
          PROVE  At(g, q).uid <= s.uid /\ (a \notin X => At(g, q).uid < g[a][k].uid)
      <3>1. PropertyOK(h, s.uid, X, a, k)
        BY <1>1 DEF Good, h
      <3>2. /\ q \in Objects \X Keys /\ Present(h, q) /\ At(h, q).uid <= s.uid
            /\ a \notin X => At(h, q).uid < h[a][k].uid
        BY <3>1 DEF PropertyOK
      <3>3. \A b \in Live(h) : \A l \in KeysOf(h[b]) : g[b][l].uid = h[b][l].uid
        <4>1. \A b \in Live(h) : g[b] = IF b = o THEN m ELSE h[b]
          BY <1>1 DEF g, Placed, Heap, Live, h
        <4>. QED
          BY <2>1, <4>1
      <3>4. q[1] \in Live(h) /\ q[2] \in KeysOf(h[q[1]])
        BY <3>2 DEF Present, Live, KeysOf
      <3>. QED
        BY <3>2, <3>3, <3>4 DEF At
    <2>6. Remakes(h, o, m, s.uid, X)
      BY <2>1, <2>3, <2>4, <2>5 DEF Remakes, g
    <2>7. Good(g, s.uid, X) /\ Remade(g, h, o, m)
      <3>1. Good(h, s.uid, X) /\ o \in Live(h) /\ s.uid \in Nat /\ s.uid <= s.uid
        BY <1>1 DEF h
      <3>. QED
        BY <2>6, <3>1, RemadeGood DEF g
    <2>8. IdsOK(g, s.ids, s.uid) /\ g \in Heap /\ Live(g) = Live(h)
      BY <1>1, <2>7 DEF IdsOK, Remade, Live, h
    <2>9. t \in State
      BY <1>1, <1>2, <1>3, <2>8 DEF State, h
    <2>10. Valid(t, X)
      BY <1>1, <1>2, <2>7, <2>8, <2>9 DEF Valid, h
    <2>. QED
      BY <2>1, <2>7, <2>10
  <1>5. m = g[o]
    BY <1>1 DEF Placed, Heap
  <1>. HIDE DEF t, g, m
  <1>. QED
    BY <1>2, <1>3, <1>4, <1>5 DEF t

\* The properties of an object that nothing refers to get UIDs of their own.
LEMMA RenumberedOK ==
    ASSUME NEW s, NEW X \in SUBSET Objects, NEW o \in Live(s.heap), Valid(s, X \cup {o}),
           Fresh(s.heap, o)
    PROVE  LET t == Renumbered(s, o)
           IN  /\ t.uid \in Nat /\ s.uid <= t.uid /\ t.ids = s.ids /\ t.ok = s.ok
               /\ Valid(t, X) /\ Remade(t.heap, s.heap, o, t.heap[o])
               /\ \A k \in KeysOf(s.heap[o]) :
                     /\ t.heap[o][k].uid <= t.uid /\ t.heap[o][k].kept = s.heap[o][k].kept
                     /\ t.heap[o][k].values = s.heap[o][k].values
  <1>. DEFINE h == s.heap
              keys == KeysOf(h[o])
              rank(k) == Cardinality({j \in keys : j <= k})
              m == [k \in Keys |-> IF k \notin keys THEN None
                                   ELSE [h[o][k] EXCEPT !.uid = s.uid + rank(k)]]
              g == Placed(h, o, m)
              v == s.uid + Cardinality(keys)
              t == Renumbered(s, o)
  <1>1. /\ s \in State /\ Good(h, s.uid, X \cup {o}) /\ IdsOK(h, s.ids, s.uid)
        /\ X \cup {o} \subseteq Live(h) /\ h \in Heap /\ s.uid \in Nat /\ s.ok \in BOOLEAN
        /\ o \in Objects
    BY DEF Valid, State, Live
  <1>2. t.heap = g /\ t.ids = s.ids /\ t.uid = v /\ t.ok = s.ok
        /\ t = [s EXCEPT !.heap = g, !.uid = v]
    BY <1>1 DEF Placed, State, Renumbered
  <1>. HIDE DEF t, g
  <1>3. /\ Cardinality(keys) \in Nat /\ keys \subseteq Keys
        /\ \A k \in keys : rank(k) \in Nat /\ 1 <= rank(k) /\ rank(k) <= Cardinality(keys)
    <2>1. IsFiniteSet(keys) /\ keys \subseteq Keys /\ Keys \subseteq Nat
      BY KeysAssumption, FS_Subset DEF KeysOf
    <2>. HIDE DEF keys
    <2>2. ASSUME NEW k \in keys PROVE rank(k) \in Nat /\ 1 <= rank(k) /\ rank(k) <= Cardinality(keys)
      <3>. DEFINE below == {j \in keys : j <= k}
      <3>1. below \subseteq keys /\ k \in below
        BY <2>1
      <3>. HIDE DEF below
      <3>2. IsFiniteSet(below) /\ Cardinality(below) \in Nat /\ Cardinality(below) <= Cardinality(keys)
        BY <2>1, <3>1, FS_Subset, FS_CardinalityType
      <3>3. Cardinality(below) # 0
        BY <3>1, <3>2, FS_EmptySet
      <3>. QED
        BY <3>2, <3>3 DEF below
    <2>. QED
      BY <2>1, <2>2, FS_CardinalityType
  <1>. HIDE DEF rank
  <1>4. ASSUME NEW k \in keys
        PROVE  /\ m[k] \in Property /\ m[k] # None /\ m[k].type = h[o][k].type
               /\ m[k].values = h[o][k].values /\ m[k].kept = h[o][k].kept
               /\ m[k].origin = h[o][k].origin /\ m[k].uid = s.uid + rank(k)
               /\ m[k].kept <= Len(m[k].subjects) /\ Observed(m[k], <<o, k>>) /\ k \in Keys
    <2>. DEFINE p == h[o][k]
    <2>1. p \in Property /\ k \in Keys
      BY <1>1, LiveFacts
    <2>2. PropertyOK(h, s.uid, X \cup {o}, o, k)
      BY <1>1 DEF Good
    <2>3. Observed(p, <<o, k>>) /\ p.kept <= Len(p.subjects)
      BY <2>2 DEF PropertyOK
    <2>4. m[k] = [p EXCEPT !.uid = s.uid + rank(k)]
      BY <2>1
    <2>5. s.uid + rank(k) \in Nat
      BY <1>1, <1>3
    <2>. HIDE DEF m, p, keys
    <2>6. m[k] \in Property
      BY <2>1, <2>4, <2>5 DEF Property
    <2>7. /\ m[k].type = p.type /\ m[k].values = p.values /\ m[k].kept = p.kept
          /\ m[k].origin = p.origin /\ m[k].uid = s.uid + rank(k) /\ m[k].subjects = p.subjects
      BY <2>1, <2>4 DEF Property
    <2>8. Observed(m[k], <<o, k>>)
      BY <2>3, <2>7, SameObserved
    <2>. QED
      BY <2>1, <2>3, <2>6, <2>7, <2>8, PropertyFacts DEF p
  <1>5. \A k \in Keys : k \notin keys => m[k] = None
    OBVIOUS
  <1>6. m \in PropertyMap
    <2>1. m = [k \in Keys |-> m[k]] /\ \A k \in Keys : m[k] \in Property \cup {None}
      BY <1>4, <1>5
    <2>. HIDE DEF m
    <2>. QED
      BY <2>1 DEF PropertyMap
  <1>. HIDE DEF m
  <1>7. KeysOf(m) = keys
    BY <1>3, <1>4, <1>5 DEF KeysOf
  <1>8. \A b \in Objects : g[b] = IF b = o THEN m ELSE h[b]
    BY <1>1 DEF g, Placed, Heap
  <1>9. v \in Nat /\ s.uid <= v
    BY <1>1, <1>3
  <1>10. ASSUME NEW a \in Live(h), NEW k \in KeysOf(h[a]), NEW q \in h[a][k].origin
         PROVE  At(g, q).uid <= v /\ (a \notin X => At(g, q).uid < g[a][k].uid)
    <2>1. PropertyOK(h, s.uid, X \cup {o}, a, k)
      BY <1>1 DEF Good
    <2>2. /\ q \in Objects \X Keys /\ Present(h, q) /\ At(h, q).uid <= s.uid
          /\ a # o /\ a \notin X => At(h, q).uid < h[a][k].uid
      BY <2>1 DEF PropertyOK
    <2>3. q[1] # o /\ q[1] \in Live(h) /\ q[2] \in KeysOf(h[q[1]])
      BY <2>2 DEF Fresh, Present, Live, KeysOf
    <2>4. PropertyOK(h, s.uid, X \cup {o}, q[1], q[2]) /\ At(h, q) \in Property
      BY <1>1, <2>3, LiveFacts DEF Good, At
    <2>5. /\ At(g, q).uid = At(h, q).uid /\ At(h, q).uid <= s.uid /\ At(h, q).uid \in Nat
          /\ At(g, q).uid <= v
      <3>1. At(g, q).uid = At(h, q).uid /\ At(h, q).uid \in Nat
        BY <1>8, <2>2, <2>3, <2>4, PropertyFacts DEF At
      <3>. HIDE DEF v
      <3>. QED
        BY <1>1, <1>9, <2>2, <3>1
    <2>6. a \in Objects
      BY DEF Live
    <2>7. CASE a = o
      <3>1. g[a][k].uid = s.uid + rank(k) /\ rank(k) \in Nat /\ 1 <= rank(k)
        BY <1>3, <1>4, <1>8, <2>6, <2>7
      <3>. QED
        BY <1>1, <2>5, <3>1
    <2>8. CASE a # o
      BY <1>8, <2>2, <2>5, <2>6, <2>8
    <2>. QED
      BY <2>5, <2>7, <2>8
  <1>11. Remakes(h, o, m, v, X)
    <2>1. \A k \in keys : m[k].uid <= v
      <3>. DEFINE all == Cardinality(keys)
      <3>1. s.uid \in Nat /\ all \in Nat
        BY <1>1, <1>3
      <3>2. \A k \in keys : m[k].uid = s.uid + rank(k) /\ rank(k) \in Nat /\ rank(k) <= all
        BY <1>3, <1>4
      <3>. HIDE DEF keys, all
      <3>3. \A k \in keys : m[k].uid <= s.uid + all
        BY <3>1, <3>2
      <3>. QED
        BY <3>3 DEF all
    <2>2. \A a \in Live(h) : \A k \in KeysOf(h[a]) : \A q \in h[a][k].origin :
             /\ At(Placed(h, o, m), q).uid <= v
             /\ a \notin X => At(Placed(h, o, m), q).uid < Placed(h, o, m)[a][k].uid
      BY <1>10 DEF g
    <2>3. \A k \in keys : UidOK(m[k], v)
      BY <2>1 DEF UidOK
    <2>. HIDE DEF v
    <2>. QED
      BY <1>4, <1>6, <1>7, <2>2, <2>3 DEF Remakes
  <1>17. \A k \in keys : g[o][k].uid <= v
    <2>1. \A k \in keys : rank(k) \in Nat /\ rank(k) <= Cardinality(keys) /\ m[k].uid = s.uid + rank(k)
      BY <1>3, <1>4
    <2>2. g[o] = m /\ s.uid \in Nat /\ Cardinality(keys) \in Nat
      BY <1>1, <1>3, <1>8
    <2>. HIDE DEF keys
    <2>. QED
      BY <2>1, <2>2
  <1>12. Good(g, v, X) /\ Remade(g, h, o, m)
    <2>1. o \in Live(h)
      OBVIOUS
    <2>. HIDE DEF h, v
    <2>. QED
      BY <1>1, <1>9, <1>11, <2>1, RemadeGood DEF g
  <1>13. IdsOK(g, s.ids, v) /\ g \in Heap /\ Live(g) = Live(h)
    <2>1. \A a \in Objects : g[a] = None <=> h[a] = None
      BY <1>12 DEF Remade, Live
    <2>2. \A a \in Objects : s.ids[a] \in Nat /\ (s.ids[a] <= v \/ s.ids[a] <= MaxUid)
      BY <1>1, <1>9 DEF IdsOK
    <2>. QED
      BY <1>1, <1>12, <2>1, <2>2 DEF IdsOK, Remade
  <1>14. t \in State
    BY <1>1, <1>2, <1>9, <1>13 DEF State
  <1>15. Valid(t, X)
    BY <1>1, <1>2, <1>12, <1>13, <1>14 DEF Valid
  <1>. QED
    BY <1>2, <1>4, <1>8, <1>9, <1>1, <1>12, <1>15, <1>17 DEF t

-----------------------------------------------------------------------------
(***************************************************************************)
(* Trees that end.                                                         *)
(***************************************************************************)

\* h is what is left of old once the objects R are held no more, and there are no
\* properties at the places P.
Drops(h, old, R, P, at) ==
    /\ h \in Heap /\ Live(h) = Live(old) /\ R \subseteq Live(old) /\ P \subseteq Objects \X Keys
    /\ \A o \in Live(h) : \A k \in KeysOf(h[o]) :
          LET p == h[o][k]
          IN  /\ k \in KeysOf(old[o]) /\ Trimmed(p, old, o, k, at)
              /\ p.kept <= Len(p.subjects) /\ Observed(p, <<o, k>>)
              /\ p.type # "object" => p.values = <<>>
              /\ <<o, k>> \notin P /\ \A i \in DOMAIN p.values : p.values[i] \notin R
    /\ \A q \in Objects \X Keys : Present(old, q) => q \in P \/ Present(h, q)

LEMMA DropsGood ==
    ASSUME NEW old, NEW u, NEW X, Good(old, u, X), NEW h, NEW R, NEW P, NEW at,
           Drops(h, old, R, P, at),
           NEW S, S = UNION {Tree(old, r) : r \in R}
    PROVE  Good(Purged(Without(h, S), P \cup PlacesOf(old, S)), u, X)
  <1>. DEFINE D == P \cup PlacesOf(old, S)
  <1>1. R \in SUBSET Live(old)
    BY DEF Drops
  <1>2. R \subseteq S /\ S \subseteq Live(old)
    BY <1>1, TreesFacts
  <1>3. S \in SUBSET Objects /\ D \in SUBSET (Objects \X Keys)
    BY <1>2 DEF Live, PlacesOf, Drops
  <1>4. ASSUME NEW q \in Objects \X Keys, Present(old, q)
        PROVE  q \in D \/ (q[1] \notin S /\ Present(h, q))
    <2>1. CASE q[1] \in S
      <3>1. q \in S \X Keys /\ At(old, q) # None
        BY <1>4, <2>1 DEF Present, At
      <3>. QED
        BY <3>1 DEF PlacesOf
    <2>2. CASE q[1] \notin S
      BY <1>4, <2>2 DEF Drops
    <2>. QED
      BY <2>1, <2>2
  <1>5. ASSUME NEW o \in Live(h) \ S, NEW k \in KeysOf(h[o])
        PROVE  /\ <<o, k>> \notin D
               /\ \A i \in DOMAIN h[o][k].values : h[o][k].values[i] \notin S
    <2>1. /\ o \in Live(old) /\ o \in Objects /\ k \in Keys /\ k \in KeysOf(old[o])
          /\ Trimmed(h[o][k], old, o, k, at) /\ <<o, k>> \notin P
          /\ \A i \in DOMAIN h[o][k].values : h[o][k].values[i] \notin R
      BY DEF Drops, Live, KeysOf
    <2>2. ASSUME NEW i \in DOMAIN h[o][k].values, h[o][k].values[i] \in S PROVE FALSE
      <3>. DEFINE n == h[o][k].values[i]
      <3>1. n \in Objects /\ n # None
        BY <1>3, <2>2, NoneAssumption
      <3>2. n \in UNION {Tree(old, r) : r \in R}
        BY <2>2
      <3>3. CASE i \in DOMAIN old[o][k].values /\ old[o][k].values[i] = n
        <4>1. Holds(old, o, k, i, n)
          BY <2>1, <3>3 DEF Holds, Live, KeysOf
        <4>. HIDE DEF n
        <4>2. o \in UNION {Tree(old, r) : r \in R} \/ n \in R
          BY <1>1, <2>1, <3>1, <3>2, <4>1, HolderOfTrees
        <4>. QED
          BY <2>1, <4>2 DEF n
      <3>4. CASE Unheld(old, n)
        <4>1. n \in R
          <5>. HIDE DEF n
          <5>. QED
            BY <1>1, <3>2, <3>4, UnheldOfTrees
        <4>. QED
          BY <2>1, <4>1
      <3>. QED
        BY <2>1, <3>1, <3>3, <3>4 DEF Trimmed
    <2>3. <<o, k>> \notin PlacesOf(old, S)
      BY DEF PlacesOf
    <2>. QED
      BY <2>1, <2>2, <2>3
  <1>6. Leaving(h, old, S, D, at)
    <2>. HIDE DEF D
    <2>. QED
      BY <1>4, <1>5 DEF Leaving, Drops
  <1>. HIDE DEF D
  <1>7. Good(Purged(Without(h, S), D), u, X)
    BY <1>3, <1>6, PurgedGood
  <1>. QED
    BY <1>7 DEF D

\* If nothing that ends is referred to, nothing is forgotten.
LEMMA CutNothing ==
    ASSUME NEW p \in Property, NEW D, p.origin \cap D = {},
           \A i \in DOMAIN p.subjects : \A j \in DOMAIN p.subjects[i] : p.subjects[i][j] \notin D
    PROVE  Cut(p, D) = p
  <1>. DEFINE subjects == [i \in DOMAIN p.subjects |-> Forget(p.subjects[i], D)]
  <1>1. /\ p.subjects \in Seq(Seq(Places)) /\ \A i \in DOMAIN p.subjects : p.subjects[i] \in Seq(Places)
    BY PropertyFacts
  <1>2. ASSUME NEW i \in DOMAIN p.subjects PROVE Forget(p.subjects[i], D) = p.subjects[i]
    <2>. DEFINE t == p.subjects[i]
    <2>1. t \in Seq(Places) /\ \A j \in DOMAIN t : t[j] \notin D
      BY <1>1
    <2>. HIDE DEF t
    <2>2. Forget(t, D) = [j \in DOMAIN t |-> t[j]]
      BY <2>1 DEF Forget
    <2>3. t = [j \in DOMAIN t |-> t[j]]
      BY <2>1
    <2>. QED
      BY <2>2, <2>3 DEF t
  <1>3. subjects = [i \in DOMAIN p.subjects |-> p.subjects[i]]
    BY <1>2
  <1>4. p.subjects = [i \in DOMAIN p.subjects |-> p.subjects[i]]
    <2>. DEFINE t == p.subjects
    <2>1. t \in Seq(Seq(Places))
      BY <1>1
    <2>. HIDE DEF t
    <2>2. t = [i \in DOMAIN t |-> t[i]]
      BY <2>1
    <2>. QED
      BY <2>2 DEF t
  <1>5. Cut(p, D) = [p EXCEPT !.subjects = subjects, !.origin = p.origin \ D]
    BY DEF Cut
  <1>6. subjects = p.subjects /\ p.origin \ D = p.origin
    BY <1>3, <1>4
  <1>. HIDE DEF subjects
  <1>. QED
    BY <1>5, <1>6 DEF Property

LEMMA GoesOnUnheld ==
    ASSUME NEW s, NEW t, s.heap \in Heap, t.heap \in Heap, GoesOn(s, t),
           NEW y \in Live(s.heap), Unheld(s.heap, y)
    PROVE  Unheld(t.heap, y)
  <1>. SUFFICES ASSUME NEW o \in Objects, NEW k \in Keys, NEW i \in Nat, Holds(t.heap, o, k, i, y)
                PROVE  FALSE
    BY DEF Unheld
  <1>1. o \in Live(t.heap) /\ k \in KeysOf(t.heap[o]) /\ i \in DOMAIN t.heap[o][k].values
    BY DEF Holds, Live, KeysOf
  <1>2. CASE o \in Live(s.heap)
    BY <1>1, <1>2 DEF GoesOn, Unheld, Holds
  <1>3. CASE o \notin Live(s.heap)
    BY <1>1, <1>3 DEF GoesOn, Holds
  <1>. QED
    BY <1>2, <1>3

-----------------------------------------------------------------------------
(***************************************************************************)
(* The local map of a clone ends, and all that is in it.                   *)
(***************************************************************************)

\* What is new to f is a clone of an object and the local map it was copied from, which
\* nothing holds.
Cloning(s, f, X, local, made) ==
    /\ Valid(s, X) /\ Valid(f, X \cup {made}) /\ GoesOn(s, f)
    /\ local \in Live(f.heap) \ Live(s.heap) /\ Unheld(f.heap, local)
    /\ made \in Live(f.heap) \ Live(s.heap) /\ Fresh(f.heap, made) /\ made # local
    /\ \A k \in KeysOf(f.heap[made]) : \A q \in f.heap[made][k].origin :
          q[1] # local => At(f.heap, q).uid < f.heap[made][k].uid

\* The tree of the local map has new objects only, and not the clone.
LEMMA LocalTree ==
    ASSUME NEW s, NEW f, NEW X \in SUBSET Objects, NEW local, NEW made, Cloning(s, f, X, local, made)
    PROVE  LET S == Tree(f.heap, local)
           IN  /\ local \in S /\ S \subseteq Live(f.heap) /\ made \notin S
               /\ \A o \in Live(s.heap) : o \notin S
  <1>. DEFINE h == f.heap
              C == {x \in Live(h) : x \notin Live(s.heap) /\ x # made}
  <1>1. Good(h, f.uid, X \cup {made}) /\ h \in Heap /\ local \in Live(h) /\ GoesOn(s, f)
    BY DEF Cloning, Valid, Good
  <1>2. ASSUME NEW x \in C, NEW n \in Inner(h, x) PROVE n \in C
    <2>1. PICK k \in Keys, i \in Nat : n \in Objects /\ Holds(h, x, k, i, n)
      BY <1>1, InnerFacts
    <2>2. n \in Live(h) /\ k \in KeysOf(h[x])
      BY <1>1, <2>1, HeldIsLive DEF Live
    <2>3. i \in DOMAIN h[x][k].values /\ h[x][k].values[i] = n
      BY <2>1 DEF Holds
    <2>4. n \notin Live(s.heap)
      BY <1>1, <2>2, <2>3 DEF GoesOn
    <2>5. n # made
      BY <2>2, <2>3 DEF Fresh, Cloning
    <2>. QED
      BY <2>2, <2>4, <2>5
  <1>3. local \in C
    BY DEF Cloning
  <1>4. Tree(h, local) \subseteq C
    <2>. HIDE DEF C
    <2>. QED
      BY <1>2, <1>3, TreeWithin
  <1>5. local \in Tree(h, local)
    BY <1>1, TreeFacts
  <1>. QED
    BY <1>4, <1>5

LEMMA LocalFreed ==
    ASSUME NEW s, NEW f, NEW X \in SUBSET Objects, NEW local, NEW made, Cloning(s, f, X, local, made)
    PROVE  LET S == Tree(f.heap, local)
               g == Purged(Without(f.heap, S), PlacesOf(f.heap, S))
           IN  /\ Good(g, f.uid, X) /\ Live(g) = Live(f.heap) \ S
               /\ \A o \in Live(s.heap) : g[o] = s.heap[o]
               /\ \A o \in Live(g) : KeysOf(g[o]) = KeysOf(f.heap[o])
               /\ \A o \in Live(g) : \A k \in KeysOf(g[o]) : g[o][k].values = f.heap[o][k].values
               /\ \A y : Fresh(f.heap, y) => Fresh(g, y)
  <1>. DEFINE h == f.heap
              S == Tree(h, local)
              D == PlacesOf(h, S)
              g == Purged(Without(h, S), D)
  <1>1. /\ Good(h, f.uid, X \cup {made}) /\ h \in Heap /\ local \in Live(h) /\ GoesOn(s, f)
        /\ Good(s.heap, s.uid, X) /\ s.heap \in Heap /\ made \in Live(h) /\ made \in Objects
    BY DEF Cloning, Valid, Good, Live
  <1>2. /\ local \in S /\ S \subseteq Live(h) /\ made \notin S
        /\ \A o \in Live(s.heap) : o \notin S
    BY LocalTree
  <1>3. Drops(h, h, {local}, {}, None)
    <2>1. ASSUME NEW o \in Live(h), NEW k \in KeysOf(h[o])
          PROVE  /\ Trimmed(h[o][k], h, o, k, None)
                 /\ h[o][k].kept <= Len(h[o][k].subjects) /\ Observed(h[o][k], <<o, k>>)
                 /\ h[o][k].type # "object" => h[o][k].values = <<>>
                 /\ \A i \in DOMAIN h[o][k].values : h[o][k].values[i] \notin {local}
      <3>1. PropertyOK(h, f.uid, X \cup {made}, o, k) /\ h[o][k] \in Property
        BY <1>1, LiveFacts DEF Good
      <3>2. \A i \in DOMAIN h[o][k].values : i \in Nat
        BY <3>1, PropertyFacts
      <3>3. \A i \in DOMAIN h[o][k].values : h[o][k].values[i] # local
        BY <3>2 DEF Cloning, Unheld, Holds, Live, KeysOf
      <3>. QED
        BY <3>1, <3>3 DEF PropertyOK, Trimmed
    <2>. QED
      BY <1>1, <2>1 DEF Drops
  <1>4. Good(g, f.uid, X \cup {made})
    <2>1. S = UNION {Tree(h, r) : r \in {local}}
      OBVIOUS
    <2>. HIDE DEF S, h
    <2>2. Good(Purged(Without(h, S), {} \cup D), f.uid, X \cup {made})
      BY <1>1, <1>3, <2>1, DropsGood
    <2>3. {} \cup D = D
      OBVIOUS
    <2>. QED
      BY <2>2, <2>3
  <1>. HIDE DEF S
  <1>5. /\ g \in Heap /\ Live(g) = Live(h) \ S
        /\ \A o \in Live(g) : \A k \in Keys :
              g[o][k] = IF h[o][k] = None THEN None ELSE Cut(h[o][k], D)
        /\ \A o \in Live(g) : KeysOf(g[o]) = KeysOf(h[o])
    BY <1>1, PurgedShape
  <1>. HIDE DEF g, D
  <1>6. ASSUME NEW o \in Live(g), NEW k \in KeysOf(g[o])
        PROVE  /\ o \in Live(h) /\ k \in KeysOf(h[o]) /\ h[o][k] \in Property
               /\ g[o][k] = Cut(h[o][k], D) /\ g[o][k].uid = h[o][k].uid
               /\ g[o][k].values = h[o][k].values /\ g[o][k].origin = h[o][k].origin \ D
    <2>1. o \in Live(h) /\ k \in KeysOf(h[o])
      BY <1>5
    <2>2. h[o][k] \in Property /\ k \in Keys /\ h[o][k] # None
      BY <1>1, <2>1, LiveFacts
    <2>. QED
      BY <1>5, <2>1, <2>2, CutFacts
  <1>7. Good(g, f.uid, X)
    <2>1. ASSUME NEW o \in Live(g), NEW k \in KeysOf(g[o]) PROVE PropertyOK(g, f.uid, X, o, k)
      <3>1. PropertyOK(g, f.uid, X \cup {made}, o, k)
        BY <1>4 DEF Good
      <3>2. CASE o # made
        BY <3>1, <3>2 DEF PropertyOK
      <3>3. CASE o = made
        <4>1. ASSUME NEW q \in g[o][k].origin PROVE At(g, q).uid < g[o][k].uid
          <5>1. q \in Objects \X Keys /\ Present(g, q) /\ q \in h[made][k].origin
            BY <1>6, <3>1, <3>3 DEF PropertyOK
          <5>2. q[1] \in Live(g) /\ q[2] \in KeysOf(g[q[1]])
            BY <5>1 DEF Present, Live, KeysOf
          <5>3. q[1] # local
            BY <1>2, <1>5, <5>2
          <5>4. At(h, q).uid < h[made][k].uid
            BY <1>6, <3>3, <5>1, <5>3 DEF Cloning
          <5>5. At(g, q).uid = At(h, q).uid /\ g[made][k].uid = h[made][k].uid
            BY <1>6, <3>3, <5>2 DEF At
          <5>. QED
            BY <3>3, <5>4, <5>5
        <4>. QED
          BY <3>1, <4>1 DEF PropertyOK
      <3>. QED
        BY <3>2, <3>3
    <2>. QED
      BY <1>4, <2>1 DEF Good
  <1>8. ASSUME NEW o \in Live(s.heap) PROVE g[o] = s.heap[o]
    <2>1. /\ h[o] = s.heap[o] /\ o \in Live(h) /\ o \in Live(g) /\ o \notin S /\ o \in Objects
          /\ h[o] \in PropertyMap /\ g[o] \in PropertyMap
      <3>1. h[o] = s.heap[o] /\ o \in Objects
        BY <1>1 DEF GoesOn, Live
      <3>2. o \in Live(h) /\ o \in Live(g) /\ o \notin S
        BY <1>2, <1>5, <3>1 DEF Live
      <3>. QED
        BY <1>1, <1>5, <3>1, <3>2, LiveFacts
    <2>2. ASSUME NEW k \in Keys PROVE g[o][k] = h[o][k]
      <3>1. CASE h[o][k] = None
        BY <1>5, <2>1, <3>1
      <3>2. CASE h[o][k] # None
        <4>. DEFINE p == h[o][k]
        <4>1. k \in KeysOf(s.heap[o]) /\ k \in KeysOf(h[o]) /\ p \in Property
          BY <1>1, <2>1, <3>2, LiveFacts DEF KeysOf
        <4>2. PropertyOK(s.heap, s.uid, X, o, k)
          BY <1>1, <4>1 DEF Good
        <4>3. \A q \in p.origin : q \in Objects \X Keys /\ q[1] \in Live(s.heap)
          BY <2>1, <4>2 DEF PropertyOK, Present, Live
        <4>4. \A q \in p.origin \cup {<<o, k>>} : q \notin D
          BY <1>2, <2>1, <4>3 DEF D, PlacesOf
        <4>5. Destroyed \notin D
          BY <1>2, NoneAssumption DEF D, PlacesOf, Destroyed, Live
        <4>6. Observed(p, <<o, k>>)
          BY <2>1, <4>2 DEF PropertyOK
        <4>. HIDE DEF p
        <4>7. \A i \in DOMAIN p.subjects : \A j \in DOMAIN p.subjects[i] : p.subjects[i][j] \notin D
          BY <4>4, <4>5, <4>6 DEF Observed
        <4>8. Cut(p, D) = p
          <5>1. p.origin \cap D = {}
            BY <4>4
          <5>. QED
            BY <4>1, <4>7, <5>1, CutNothing
        <4>9. g[o][k] = Cut(p, D)
          BY <1>5, <2>1, <3>2 DEF p
        <4>. QED
          BY <4>8, <4>9 DEF p
      <3>. QED
        BY <3>1, <3>2
    <2>. HIDE DEF h
    <2>3. g[o] = h[o]
      BY <2>1, <2>2 DEF PropertyMap
    <2>. QED
      BY <2>1, <2>3
  <1>9. ASSUME NEW y, Fresh(h, y) PROVE Fresh(g, y)
    <2>1. ASSUME NEW o \in Live(g), NEW k \in KeysOf(g[o])
          PROVE  /\ \A i \in DOMAIN g[o][k].values : g[o][k].values[i] # y
                 /\ \A q \in g[o][k].origin : q[1] # y
      BY <1>6, <1>9 DEF Fresh
    <2>. QED
      BY <2>1 DEF Fresh
  <1>. QED
    BY <1>5, <1>6, <1>7, <1>8, <1>9 DEF g, D, S

-----------------------------------------------------------------------------
LEMMA FreeSlotFacts ==
    ASSUME NEW h \in Heap, HasSlot(h)
    PROVE  FreeSlot(h) \in Objects /\ h[FreeSlot(h)] = None /\ FreeSlot(h) \notin Live(h)
  <1>. DEFINE S == {o \in Objects : h[o] = None}
  <1>1. S \in SUBSET Nat /\ S # {}
    BY ObjectsAssumption DEF HasSlot, Live
  <1>2. PICK v \in S : \A w \in S : v <= w
    BY <1>1, SmallestExists
  <1>3. \E o \in Objects : h[o] = None /\ \A n \in Objects : h[n] = None => o <= n
    BY <1>2
  <1>4. FreeSlot(h) \in Objects /\ h[FreeSlot(h)] = None
    BY <1>3 DEF FreeSlot
  <1>. QED
    BY <1>4 DEF Live

\* f is s with a copy of a local map, which is registered.
RegisteredOK(s, f, X, local, made) ==
    /\ f.uid \in Nat /\ s.uid <= f.uid /\ f.ok \in BOOLEAN
    /\ f.ok => /\ Valid(f, X \cup {made}) /\ GoesOn(s, f) /\ StayFresh(s, f, local)
               /\ made \in Live(f.heap) /\ Fresh(f.heap, made)
               /\ \A k \in KeysOf(f.heap[made]) : \A q \in f.heap[made][k].origin :
                     q[1] # local => At(f.heap, q).uid < f.heap[made][k].uid

LEMMA CopyRegistered ==
    ASSUME NEW X \in SUBSET Objects, NEW clones, ClonesOK(clones), NEW s, Valid(s, X), s.ok,
           NEW local \in Live(s.heap), Fresh(s.heap, local), local \notin X,
           \A k \in KeysOf(s.heap[local]) : s.heap[local][k].uid <= s.uid,
           NEW made \in Objects, s.heap[made] = None,
           NEW copy, copy = CopyMap(clones, s, local, made), copy.ok,
           NEW f, f = RegisterAll(copy, made)
    PROVE  RegisteredOK(s, f, X, local, made)
  <1>1. CopyOK(s, local, made, X, copy)
    BY CopyMapOK
  <1>2. /\ Valid(copy, X \cup {made}) /\ GoesOn(s, copy) /\ StayFresh(s, copy, local)
        /\ made \in Live(copy.heap) /\ Fresh(copy.heap, made)
        /\ KeysOf(copy.heap[made]) = KeysOf(s.heap[local])
        /\ \A k \in KeysOf(s.heap[local]) :
              CopyOf(copy.heap[made][k], s.heap[local][k], <<local, k>>)
        /\ copy.uid \in Nat /\ s.uid <= copy.uid
    BY <1>1 DEF CopyOK
  <1>3. \A k \in KeysOf(copy.heap[made]) :
           copy.heap[made][k].kept = 0 /\ copy.heap[made][k].uid <= copy.uid
    <2>1. s.heap \in Heap /\ s.uid \in Nat
      BY DEF Valid, State
    <2>2. \A k \in KeysOf(s.heap[local]) : s.heap[local][k].uid \in Nat
      BY <2>1, LiveFacts, PropertyFacts
    <2>3. \A k \in KeysOf(s.heap[local]) :
             copy.heap[made][k].kept = 0 /\ copy.heap[made][k].uid = s.heap[local][k].uid
      BY <1>2 DEF CopyOf
    <2>. QED
      BY <1>2, <2>1, <2>2, <2>3
  <1>4. /\ f.uid = copy.uid /\ f.ids = copy.ids /\ f.ok \in BOOLEAN
        /\ f.ok => /\ Valid(f, X \cup {made})
                   /\ Remade(f.heap, copy.heap, made, f.heap[made])
                   /\ \A k \in KeysOf(copy.heap[made]) :
                         /\ f.heap[made][k].uid = copy.heap[made][k].uid
                         /\ f.heap[made][k].origin = copy.heap[made][k].origin
                         /\ f.heap[made][k].values = copy.heap[made][k].values
    BY <1>2, <1>3, RegisterAllOK
  <1>5. ASSUME f.ok
        PROVE  /\ Valid(f, X \cup {made}) /\ GoesOn(s, f) /\ StayFresh(s, f, local)
               /\ made \in Live(f.heap) /\ Fresh(f.heap, made)
               /\ \A k \in KeysOf(f.heap[made]) : \A q \in f.heap[made][k].origin :
                     q[1] # local => At(f.heap, q).uid < f.heap[made][k].uid
    <2>1. /\ Valid(f, X \cup {made}) /\ Live(f.heap) = Live(copy.heap)
          /\ \A a \in Objects : a # made => f.heap[a] = copy.heap[a]
          /\ \A a \in Live(copy.heap) : KeysOf(f.heap[a]) = KeysOf(copy.heap[a])
          /\ \A y : Fresh(copy.heap, y) => Fresh(f.heap, y)
      BY <1>4, <1>5 DEF Remade
    <2>2. made \notin Live(s.heap) /\ Live(s.heap) \subseteq Objects
      BY DEF Live
    <2>3. \A a \in Live(s.heap) : f.heap[a] = s.heap[a] /\ f.ids[a] = s.ids[a]
      BY <1>2, <1>4, <2>1, <2>2 DEF GoesOn
    <2>4. ASSUME NEW a \in Live(f.heap) \ Live(s.heap), NEW k \in KeysOf(f.heap[a])
          PROVE  \A i \in DOMAIN f.heap[a][k].values : f.heap[a][k].values[i] \notin Live(s.heap)
      <3>1. a \in Live(copy.heap) \ Live(s.heap) /\ k \in KeysOf(copy.heap[a]) /\ a \in Objects
        BY <2>1 DEF Live
      <3>2. f.heap[a][k].values = copy.heap[a][k].values
        BY <1>4, <1>5, <2>1, <3>1
      <3>. QED
        BY <1>2, <3>1, <3>2 DEF GoesOn
    <2>5. GoesOn(s, f)
      BY <2>3, <2>4 DEF GoesOn
    <2>6. StayFresh(s, f, local)
      BY <1>2, <2>1 DEF StayFresh
    <2>7. ASSUME NEW k \in KeysOf(f.heap[made]), NEW q \in f.heap[made][k].origin, q[1] # local
          PROVE  At(f.heap, q).uid < f.heap[made][k].uid
      <3>1. k \in KeysOf(s.heap[local]) /\ k \in KeysOf(copy.heap[made])
        BY <1>2, <2>1
      <3>2. f.heap[made][k].origin = Descent(s.heap[local][k], <<local, k>>)
        BY <1>2, <1>4, <1>5, <3>1 DEF CopyOf
      <3>3. f.heap[made][k].uid = s.heap[local][k].uid
        BY <1>2, <1>4, <1>5, <3>1 DEF CopyOf
      <3>4. q \in s.heap[local][k].origin
        BY <2>7, <3>2 DEF Descent
      <3>5. PropertyOK(s.heap, s.uid, X, local, k)
        BY <3>1 DEF Valid, Good
      <3>6. q \in Objects \X Keys /\ Present(s.heap, q) /\ At(s.heap, q).uid < s.heap[local][k].uid
        BY <3>4, <3>5 DEF PropertyOK
      <3>7. At(f.heap, q) = At(s.heap, q)
        BY <2>3, <3>6 DEF At, Present, Live
      <3>. QED
        BY <3>3, <3>6, <3>7
    <2>. QED
      BY <1>2, <2>1, <2>5, <2>6, <2>7
  <1>. QED
    BY <1>2, <1>4, <1>5 DEF RegisteredOK

EndedOK(s, f, c, X, made) ==
    /\ c.uid = f.uid /\ c.ok = f.ok /\ c.made = made
    /\ Valid(c, X) /\ GoesOn(s, c) /\ made \in Live(c.heap) \ Live(s.heap)
    /\ \A y : Fresh(f.heap, y) => Fresh(c.heap, y)

CloneMade(f, local, made, number) ==
    [Freed(f, Tree(f.heap, local)) EXCEPT !.ids[made] = number, !.made = made]

\* What is proved of a clone once the local map it is copied from is freed.
LEMMA ClonedAndFreed ==
    ASSUME NEW s, NEW f, NEW X \in SUBSET Objects, NEW local, NEW made,
           Cloning(s, f, X, local, made), NEW number \in Nat, number <= f.uid,
           NEW c, c = CloneMade(f, local, made, number)
    PROVE  EndedOK(s, f, c, X, made)
  <1>. DEFINE h == f.heap
              S == Tree(h, local)
              g == Purged(Without(h, S), PlacesOf(h, S))
              numbers == [[o \in Objects |-> IF o \in S THEN 0 ELSE f.ids[o]] EXCEPT ![made] = number]
  <1>1. /\ f \in State /\ IdsOK(h, f.ids, f.uid) /\ f.uid \in Nat /\ f.ok \in BOOLEAN
        /\ made \in Live(h) \ Live(s.heap) /\ made \in Objects /\ GoesOn(s, f)
        /\ X \subseteq Live(s.heap) /\ s.heap \in Heap /\ f.ids \in [Objects -> Nat]
    BY DEF Cloning, Valid, State, Live
  <1>2. /\ c.heap = g /\ c.ids = numbers /\ c.uid = f.uid /\ c.ok = f.ok /\ c.made = made
        /\ c = [f EXCEPT !.heap = g, !.ids = numbers, !.made = made]
    BY <1>1 DEF State, Freed, CloneMade
  <1>3. /\ S \subseteq Live(h) /\ made \notin S /\ \A o \in Live(s.heap) : o \notin S
    BY LocalTree
  <1>4. /\ Good(g, f.uid, X) /\ Live(g) = Live(h) \ S
        /\ \A o \in Live(s.heap) : g[o] = s.heap[o]
        /\ \A o \in Live(g) : KeysOf(g[o]) = KeysOf(h[o])
        /\ \A o \in Live(g) : \A k \in KeysOf(g[o]) : g[o][k].values = h[o][k].values
        /\ \A y : Fresh(h, y) => Fresh(g, y)
    BY LocalFreed
  <1>. HIDE DEF g, S
  <1>5. \A o \in Objects : numbers[o] = IF o = made THEN number ELSE IF o \in S THEN 0 ELSE f.ids[o]
    BY <1>1
  <1>6. numbers \in [Objects -> Nat]
    BY <1>1
  <1>. HIDE DEF numbers
  <1>7. IdsOK(g, numbers, f.uid)
    <2>1. ASSUME NEW o \in Objects
          PROVE  (numbers[o] <= f.uid \/ numbers[o] <= MaxUid) /\ (g[o] = None => numbers[o] = 0)
      <3>1. CASE o = made
        BY <1>1, <1>3, <1>4, <1>5, <3>1 DEF Live
      <3>2. CASE o # made /\ o \in S
        BY <1>1, <1>5, <3>2
      <3>3. CASE o # made /\ o \notin S
        BY <1>1, <1>4, <1>5, <3>3 DEF Live, IdsOK
      <3>. QED
        BY <3>1, <3>2, <3>3
    <2>. QED
      BY <1>6, <2>1 DEF IdsOK
  <1>8. c \in State
    BY <1>1, <1>2, <1>4, <1>6 DEF State, Good
  <1>9. X \subseteq Live(g)
    <2>1. \A o \in Live(s.heap) : o \in Live(h)
      BY <1>1 DEF GoesOn, Live
    <2>. QED
      BY <1>1, <1>3, <1>4, <2>1
  <1>10. Valid(c, X)
    BY <1>2, <1>4, <1>7, <1>8, <1>9 DEF Valid
  <1>11. GoesOn(s, c)
    <2>1. \A o \in Live(s.heap) : numbers[o] = s.ids[o]
      BY <1>1, <1>3, <1>5 DEF GoesOn, Live
    <2>2. \A o \in Live(g) \ Live(s.heap) : \A k \in KeysOf(g[o]) :
            \A i \in DOMAIN g[o][k].values : g[o][k].values[i] \notin Live(s.heap)
      BY <1>1, <1>4 DEF GoesOn
    <2>3. c.heap = g /\ c.ids = numbers /\ \A o \in Live(s.heap) : g[o] = s.heap[o]
      BY <1>2, <1>4
    <2>4. \A o \in Live(s.heap) : c.heap[o] = s.heap[o] /\ c.ids[o] = s.ids[o]
      BY <2>1, <2>3
    <2>5. \A o \in Live(c.heap) \ Live(s.heap) : \A k \in KeysOf(c.heap[o]) :
            \A i \in DOMAIN c.heap[o][k].values : c.heap[o][k].values[i] \notin Live(s.heap)
      BY <2>2, <2>3
    <2>. QED
      BY <2>4, <2>5 DEF GoesOn
  <1>12. made \in Live(g) \ Live(s.heap)
    BY <1>1, <1>3, <1>4
  <1>. QED
    BY <1>2, <1>4, <1>10, <1>11, <1>12 DEF EndedOK

\* A clone goes well if those of the objects further in do.
LEMMA ClonedOK ==
    ASSUME NEW clones, ClonesOK(clones), NEW s \in State, NEW o \in Objects, NEW X \in SUBSET Objects,
           s.ok, Valid(s, X), o \in Live(s.heap)
    PROVE  CloneOK(s, o, X, Cloned(clones, s, o))
  <1>. DEFINE local == FreeSlot(s.heap)
              s1 == [s EXCEPT !.uid = @ + 1]
              copy == CopyMap(clones, s1, o, local)
              r == Renumbered(copy, local)
              made == FreeSlot(r.heap)
              second == CopyMap(clones, r, local, made)
              f == RegisterAll(second, made)
              number == s.uid + 1
              c == Cloned(clones, s, o)
  <1>. SUFFICES CloneOK(s, o, X, c)
    OBVIOUS
  <1>1. /\ Good(s.heap, s.uid, X) /\ IdsOK(s.heap, s.ids, s.uid) /\ X \subseteq Live(s.heap)
        /\ s.heap \in Heap /\ s.uid \in Nat /\ s.ok \in BOOLEAN /\ s.ids \in [Objects -> Nat]
    BY DEF Valid, State
  <1>2. /\ s1.heap = s.heap /\ s1.ids = s.ids /\ s1.uid = number /\ s1.ok = s.ok /\ s1 \in State
    <2>1. number \in Nat /\ s1 = [s EXCEPT !.uid = number]
      BY <1>1
    <2>. HIDE DEF number, s1
    <2>. QED
      BY <2>1 DEF State
  <1>3. CASE ~ HasSlot(s.heap)
    <2>1. c = Thrown(s)
      BY <1>3 DEF Cloned
    <2>2. Thrown(s).uid = s.uid /\ ~ Thrown(s).ok /\ Thrown(s).ok \in BOOLEAN
      BY DEF Thrown, State
    <2>. HIDE DEF c
    <2>. QED
      BY <1>1, <2>1, <2>2 DEF CloneOK
  <1>4. CASE HasSlot(s.heap)
    <2>1. local \in Objects /\ s.heap[local] = None /\ local \notin Live(s.heap)
      BY <1>1, <1>4, FreeSlotFacts
    <2>2. Valid(s1, X)
      <3>1. number \in Nat /\ s.uid <= number
        BY <1>1
      <3>. HIDE DEF s1, number
      <3>2. IdsOK(s.heap, s.ids, number)
        BY <1>1, <3>1 DEF IdsOK
      <3>3. ASSUME NEW a \in Live(s.heap), NEW k \in KeysOf(s.heap[a])
            PROVE  PropertyOK(s.heap, number, X, a, k)
        BY <1>1, <3>1, PropertyLater
      <3>4. Good(s.heap, number, X)
        BY <1>1, <3>1, <3>3 DEF Good
      <3>. QED
        BY <1>1, <1>2, <3>2, <3>4 DEF Valid
    <2>. HIDE DEF s1, local
    <2>3. CopyOK(s1, o, local, X, copy)
      BY <1>2, <2>1, <2>2, CopyMapOK
    <2>. HIDE DEF copy
    <2>4. copy.uid \in Nat /\ s1.uid <= copy.uid /\ copy.ok \in BOOLEAN
      BY <2>3 DEF CopyOK
    <2>5. CASE ~ copy.ok
      <3>1. c = copy
        BY <1>4, <2>5 DEF Cloned, copy, local, s1
      <3>. HIDE DEF c
      <3>. QED
        BY <1>1, <1>2, <2>4, <2>5, <3>1 DEF CloneOK
    <2>6. CASE copy.ok
      <3>1. /\ Valid(copy, X \cup {local}) /\ GoesOn(s1, copy) /\ StayFresh(s1, copy, o)
            /\ local \in Live(copy.heap) /\ Fresh(copy.heap, local)
        BY <2>3, <2>6 DEF CopyOK
      <3>2. /\ r.uid \in Nat /\ copy.uid <= r.uid /\ r.ids = copy.ids /\ r.ok = copy.ok
            /\ Valid(r, X) /\ Remade(r.heap, copy.heap, local, r.heap[local])
            /\ \A k \in KeysOf(copy.heap[local]) :
                  r.heap[local][k].values = copy.heap[local][k].values /\ r.heap[local][k].uid <= r.uid
        BY <3>1, RenumberedOK
      <3>3. c = CreateCopy(clones, r, local, number)
        BY <1>4, <2>6 DEF Cloned, copy, local, s1
      <3>. HIDE DEF r, c
      <3>4. /\ r.heap \in Heap /\ Live(r.heap) = Live(copy.heap)
            /\ \A a \in Objects : a # local => r.heap[a] = copy.heap[a]
            /\ \A a \in Live(copy.heap) : KeysOf(r.heap[a]) = KeysOf(copy.heap[a])
            /\ \A y : Fresh(copy.heap, y) => Fresh(r.heap, y)
            /\ r \in State
        BY <3>2 DEF Remade, Valid
      <3>5. number <= r.uid /\ s.uid <= r.uid /\ number \in Nat
        BY <1>1, <1>2, <2>4, <3>2
      <3>6. GoesOn(s, r)
        <4>1. \A a \in Live(s.heap) : r.heap[a] = s.heap[a] /\ r.ids[a] = s.ids[a]
          BY <1>2, <2>1, <3>1, <3>2, <3>4 DEF GoesOn, Live
        <4>2. ASSUME NEW a \in Live(r.heap) \ Live(s.heap), NEW k \in KeysOf(r.heap[a])
              PROVE  \A i \in DOMAIN r.heap[a][k].values : r.heap[a][k].values[i] \notin Live(s.heap)
          <5>1. a \in Live(copy.heap) \ Live(s1.heap) /\ k \in KeysOf(copy.heap[a]) /\ a \in Objects
            BY <1>2, <3>4 DEF Live
          <5>2. r.heap[a][k].values = copy.heap[a][k].values
            BY <3>2, <3>4, <5>1
          <5>. QED
            BY <1>2, <3>1, <5>1, <5>2 DEF GoesOn
        <4>. QED
          BY <4>1, <4>2 DEF GoesOn
      <3>7. CASE ~ HasSlot(r.heap)
        <4>1. c = Thrown(r)
          BY <3>3, <3>7 DEF CreateCopy
        <4>2. Thrown(r).uid = r.uid /\ ~ Thrown(r).ok /\ Thrown(r).ok \in BOOLEAN
          BY <3>4 DEF Thrown, State
        <4>. QED
          BY <3>2, <3>5, <4>1, <4>2 DEF CloneOK
      <3>8. CASE HasSlot(r.heap)
        <4>1. made \in Objects /\ r.heap[made] = None /\ made \notin Live(r.heap)
          BY <3>4, <3>8, FreeSlotFacts
        <4>2. /\ local \in Live(r.heap) /\ Fresh(r.heap, local) /\ local \notin X /\ r.ok
              /\ \A k \in KeysOf(r.heap[local]) : r.heap[local][k].uid <= r.uid
          BY <1>1, <2>1, <2>6, <3>1, <3>2, <3>4
        <4>. HIDE DEF made
        <4>3. CopyOK(r, local, made, X, second)
          BY <3>2, <4>1, <4>2, CopyMapOK
        <4>. HIDE DEF second
        <4>4. second.uid \in Nat /\ r.uid <= second.uid /\ second.ok \in BOOLEAN
          BY <4>3 DEF CopyOK
        <4>5. CASE ~ second.ok
          <5>1. c = second
            BY <3>3, <3>8, <4>5 DEF CreateCopy, second, made
          <5>. QED
            BY <1>1, <3>2, <3>5, <4>4, <4>5, <5>1 DEF CloneOK
        <4>6. CASE second.ok
          <5>1. c = CloneMade(f, local, made, number)
            BY <3>3, <3>8, <4>6 DEF CreateCopy, CloneMade, second, made
          <5>. HIDE DEF f
          <5>2. /\ f.uid \in Nat /\ r.uid <= f.uid /\ f.ok \in BOOLEAN
                /\ f.ok => /\ Valid(f, X \cup {made}) /\ GoesOn(r, f) /\ StayFresh(r, f, local)
                           /\ made \in Live(f.heap) /\ Fresh(f.heap, made)
                           /\ \A k \in KeysOf(f.heap[made]) : \A q \in f.heap[made][k].origin :
                                q[1] # local => At(f.heap, q).uid < f.heap[made][k].uid
            <6>1. second = CopyMap(clones, r, local, made) /\ f = RegisterAll(second, made)
              BY DEF f, second
            <6>. HIDE DEF f
            <6>2. RegisteredOK(r, f, X, local, made)
              BY <3>2, <4>1, <4>2, <4>6, <6>1, CopyRegistered
            <6>. QED
              BY <6>2 DEF RegisteredOK
          <5>3. CASE ~ f.ok
            <6>1. c.uid = f.uid /\ c.ok = f.ok
              BY <5>1 DEF Freed, CloneMade
            <6>. QED
              BY <1>1, <3>2, <3>5, <5>2, <5>3, <6>1 DEF CloneOK
          <5>4. CASE f.ok
            <6>1. f.heap \in Heap
              BY <5>2, <5>4 DEF Valid, State
            <6>2. GoesOn(s, f) /\ Live(s.heap) \subseteq Live(r.heap)
              BY <1>1, <3>4, <3>6, <5>2, <5>4, <6>1, GoesOnFurther
            <6>3. local \in Live(f.heap) /\ Unheld(f.heap, local)
              <7>1. Unheld(r.heap, local)
                BY <2>1, <3>4, <4>2, FreshUnheld
              <7>2. f.heap[local] = r.heap[local]
                BY <4>2, <5>2, <5>4 DEF GoesOn
              <7>. QED
                BY <3>4, <4>2, <5>2, <5>4, <6>1, <7>1, <7>2, GoesOnUnheld DEF Live
            <6>4. Cloning(s, f, X, local, made)
              <7>1. made # local /\ made \notin Live(s.heap)
                BY <4>1, <4>2, <6>2
              <7>. QED
                BY <2>1, <5>2, <5>4, <6>2, <6>3, <7>1 DEF Cloning
            <6>5. number <= f.uid
              BY <3>2, <3>5, <5>2
            <6>6. /\ c.uid = f.uid /\ c.ok = f.ok /\ c.made = made
                  /\ Valid(c, X) /\ GoesOn(s, c) /\ made \in Live(c.heap) \ Live(s.heap)
                  /\ \A y : Fresh(f.heap, y) => Fresh(c.heap, y)
              <7>. HIDE DEF number
              <7>1. EndedOK(s, f, c, X, made)
                BY <3>5, <5>1, <6>4, <6>5, ClonedAndFreed
              <7>. QED
                BY <7>1 DEF EndedOK
            <6>7. ASSUME NEW y \in Live(s.heap), y # o, Fresh(s.heap, y) PROVE Fresh(c.heap, y)
              <7>1. Fresh(copy.heap, y)
                BY <1>2, <3>1, <6>7 DEF StayFresh
              <7>2. Fresh(r.heap, y) /\ y \in Live(r.heap) /\ y # local
                BY <2>1, <3>4, <6>2, <7>1
              <7>3. Fresh(f.heap, y)
                BY <5>2, <5>4, <7>2 DEF StayFresh
              <7>. QED
                BY <6>6, <7>3
            <6>8. StayFresh(s, c, o)
              BY <6>7 DEF StayFresh
            <6>9. c.uid \in Nat /\ s.uid <= c.uid /\ c.ok \in BOOLEAN
              BY <1>1, <3>2, <3>5, <5>2, <6>6
            <6>. QED
              BY <5>2, <5>4, <6>6, <6>8, <6>9 DEF CloneOK
          <5>. QED
            BY <5>3, <5>4
        <4>. QED
          BY <4>5, <4>6
      <3>. QED
        BY <3>7, <3>8
    <2>. QED
      BY <2>5, <2>6
  <1>. QED
    BY <1>3, <1>4

\* A clone of an object goes well.
LEMMA CloneObjectOK ==
    ASSUME NEW s \in State, NEW o \in Objects, NEW X \in SUBSET Objects,
           s.ok, Valid(s, X), o \in Live(s.heap)
    PROVE  CloneOK(s, o, X, CloneObject(s, o))
  <1>1. PICK N \in Nat : N = Cardinality(Objects)
    BY ObjectsAssumption, FS_CardinalityType
  <1>. DEFINE first == [x \in State \X Objects |-> Thrown(x[1])]
              after(clones) == [x \in State \X Objects |-> Cloned(clones, x[1], x[2])]
              P(m) == \E f : f = [n \in 0..m |-> IF n = 0 THEN first ELSE after(f[n - 1])]
              S == {m \in 0..N : P(m)}
  <1>. HIDE DEF first, after
  <1>2. P(0)
    <2>. DEFINE f == [n \in 0..0 |-> first]
    <2>1. f = [n \in 0..0 |-> IF n = 0 THEN first ELSE after(f[n - 1])]
      OBVIOUS
    <2>. QED
      BY <2>1
  <1>3. ASSUME NEW m \in 1..N, P(m - 1) PROVE P(m)
    <2>1. PICK f : f = [n \in 0..(m - 1) |-> IF n = 0 THEN first ELSE after(f[n - 1])]
      BY <1>3
    <2>. DEFINE g == [n \in 0..m |-> IF n = m THEN after(f[m - 1]) ELSE f[n]]
    <2>2. ASSUME NEW n \in 0..m
          PROVE  g[n] = IF n = 0 THEN first ELSE after(g[n - 1])
      <3>1. CASE n = m
        <4>1. g[n - 1] = f[n - 1]
          BY <3>1
        <4>. QED
          BY <3>1, <4>1
      <3>2. CASE n # m
        <4>1. n \in 0..(m - 1) /\ g[n] = f[n]
          BY <3>2
        <4>2. n # 0 => n - 1 \in 0..(m - 1) /\ g[n - 1] = f[n - 1]
          BY <3>2
        <4>3. f[n] = IF n = 0 THEN first ELSE after(f[n - 1])
          BY <2>1, <4>1
        <4>. QED
          BY <4>1, <4>2, <4>3
      <3>. QED
        BY <3>1, <3>2
    <2>3. g = [n \in 0..m |-> IF n = 0 THEN first ELSE after(g[n - 1])]
      <3>. HIDE DEF g
      <3>1. DOMAIN g = 0..m /\ g = [n \in 0..m |-> g[n]]
        BY DEF g
      <3>. QED
        BY <2>2, <3>1
    <2>. QED
      BY <2>3
  <1>. HIDE DEF P
  <1>4. 0 \in S /\ \A m \in 1..N : m - 1 \in S => m \in S
    BY <1>2, <1>3
  <1>5. P(N)
    <2>1. 0..N \subseteq S
      BY <1>4, Induction
    <2>2. N \in S
      BY <2>1
    <2>. QED
      BY <2>2
  <1>. DEFINE F == CHOOSE f : f = [n \in 0..N |-> IF n = 0 THEN first ELSE after(f[n - 1])]
              G == CHOOSE f : f = [n \in 0..N |->
                     [x \in State \X Objects |->
                        IF n = 0 THEN Thrown(x[1]) ELSE Cloned(f[n - 1], x[1], x[2])]]
  <1>6. F = [n \in 0..N |-> IF n = 0 THEN first ELSE after(F[n - 1])]
    BY <1>5 DEF P
  <1>7. G = [n \in 0..N |-> [x \in State \X Objects |->
                IF n = 0 THEN Thrown(x[1]) ELSE Cloned(G[n - 1], x[1], x[2])]]
    <2>. HIDE DEF F
    <2>1. ASSUME NEW n \in 0..N
          PROVE  F[n] = [x \in State \X Objects |->
                           IF n = 0 THEN Thrown(x[1]) ELSE Cloned(F[n - 1], x[1], x[2])]
      <3>1. F[n] = IF n = 0 THEN first ELSE after(F[n - 1])
        BY <1>6
      <3>2. CASE n = 0
        BY <3>1, <3>2 DEF first
      <3>3. CASE n # 0
        BY <3>1, <3>3 DEF after
      <3>. QED
        BY <3>2, <3>3
    <2>2. F = [n \in 0..N |-> [x \in State \X Objects |->
                IF n = 0 THEN Thrown(x[1]) ELSE Cloned(F[n - 1], x[1], x[2])]]
      <3>1. F = [n \in 0..N |-> F[n]]
        BY <1>6
      <3>. QED
        BY <2>1, <3>1
    <2>. QED
      BY <2>2
  <1>8. CloneObject(s, o) = G[N][<<s, o>>]
    BY <1>1 DEF CloneObject
  <1>. HIDE DEF G
  <1>. DEFINE R == {n \in 0..N : ClonesOK(G[n])}
  <1>9. 0 \in R
    <2>1. G[0] = [x \in State \X Objects |-> Thrown(x[1])]
      BY <1>7
    <2>2. ASSUME NEW t \in State, NEW n \in Objects, NEW Y \in SUBSET Objects
          PROVE  CloneOK(t, n, Y, G[0][<<t, n>>])
      <3>1. G[0][<<t, n>>] = Thrown(t)
        BY <2>1
      <3>2. Thrown(t).uid = t.uid /\ ~ Thrown(t).ok /\ Thrown(t).ok \in BOOLEAN /\ t.uid \in Nat
        BY DEF Thrown, State
      <3>. QED
        BY <3>1, <3>2 DEF CloneOK
    <2>. QED
      BY <2>2 DEF ClonesOK
  <1>10. ASSUME NEW m \in 1..N, m - 1 \in R PROVE m \in R
    <2>1. G[m] = [x \in State \X Objects |-> Cloned(G[m - 1], x[1], x[2])]
      <3>1. m \in 0..N /\ m # 0
        OBVIOUS
      <3>. QED
        BY <1>7, <3>1, Zenon
    <2>. DEFINE clones == G[m - 1]
    <2>2. ClonesOK(clones)
      BY <1>10
    <2>. HIDE DEF clones
    <2>3. ASSUME NEW t \in State, NEW n \in Objects, NEW Y \in SUBSET Objects,
                 t.ok, Valid(t, Y), n \in Live(t.heap)
          PROVE  CloneOK(t, n, Y, G[m][<<t, n>>])
      <3>1. G[m][<<t, n>>] = Cloned(clones, t, n)
        BY <2>1 DEF clones
      <3>. QED
        BY <2>2, <2>3, <3>1, ClonedOK
    <2>. QED
      BY <2>3 DEF ClonesOK
  <1>11. ClonesOK(G[N])
    <2>1. 0..N \subseteq R
      BY <1>9, <1>10, Induction
    <2>2. N \in R
      BY <2>1
    <2>. QED
      BY <2>2
  <1>. QED
    BY <1>8, <1>11 DEF ClonesOK

-----------------------------------------------------------------------------
(***************************************************************************)
(* The invariant.                                                          *)
(***************************************************************************)

\* A property comes to an object that had none of the id.
LEMMA AddedGood ==
    ASSUME NEW h, NEW u, NEW X, Good(h, u, X), NEW o \in Live(h), NEW k \in Keys, h[o][k] = None,
           NEW p \in Property, p.origin = {}, NEW v \in Nat, u <= v, NewProperty(h, v, X, o, k, p)
    PROVE  Good(Replaced(h, o, k, p), v, X)
  <1>. DEFINE g == Replaced(h, o, k, p)
  <1>1. h \in Heap /\ u \in Nat /\ o \in Objects
    BY DEF Good, Live
  <1>2. /\ g \in Heap /\ Live(g) = Live(h)
        /\ \A a \in Objects : a # o => g[a] = h[a]
        /\ \A l \in Keys : g[o][l] = IF l = k THEN p ELSE h[o][l]
        /\ \A a \in Objects : a # o => KeysOf(g[a]) = KeysOf(h[a])
        /\ KeysOf(g[o]) = KeysOf(h[o]) \cup {k}
    <2>1. Differs(g, h, o, k, p)
      BY <1>1, ReplacedShape
    <2>. QED
      BY <2>1 DEF Differs
  <1>. HIDE DEF g
  <1>3. \A a \in Objects : g[a] # None <=> h[a] # None
    BY <1>2 DEF Live
  <1>4. ASSUME NEW q \in Objects \X Keys, Present(h, q)
        PROVE  Present(g, q) /\ At(g, q) = At(h, q)
    <2>1. PICK a \in Objects, b \in Keys : q = <<a, b>>
      OBVIOUS
    <2>2. ~ (a = o /\ b = k) /\ h[a] # None /\ h[a][b] # None
      BY <1>4, <2>1 DEF Present
    <2>3. g[a][b] = h[a][b]
      BY <1>2, <2>2
    <2>. QED
      BY <1>3, <2>1, <2>2, <2>3 DEF Present, At
  <1>5. \A i \in DOMAIN p.values : p.values[i] = None
    BY DEF NewProperty
  <1>6. ASSUME NEW a \in Live(g), NEW b \in KeysOf(g[a]), ~ (a = o /\ b = k)
        PROVE  g[a][b] = h[a][b] /\ a \in Live(h) /\ b \in KeysOf(h[a]) /\ a \in Objects /\ b \in Keys
    BY <1>2, <1>6 DEF Live, KeysOf
  <1>7. ASSUME NEW a \in Live(g), NEW b \in KeysOf(g[a]) PROVE PropertyOK(g, v, X, a, b)
    <2>1. CASE a = o /\ b = k
      <3>1. g[a][b] = p
        BY <1>2, <2>1
      <3>. QED
        BY <1>5, <2>1, <3>1 DEF NewProperty, PropertyOK
    <2>2. CASE ~ (a = o /\ b = k)
      <3>1. g[a][b] = h[a][b] /\ a \in Live(h) /\ b \in KeysOf(h[a])
        BY <1>6, <2>2
      <3>2. PropertyOK(h, u, X, a, b) /\ h[a][b] \in Property
        BY <1>1, <3>1, LiveFacts DEF Good
      <3>3. ASSUME NEW i \in DOMAIN h[a][b].values, h[a][b].values[i] # None
            PROVE  g[h[a][b].values[i]] # None
        <4>1. h[a][b].values[i] \in Objects
          BY <3>2, <3>3, PropertyFacts
        <4>. QED
          BY <1>3, <3>2, <3>3, <4>1 DEF PropertyOK
      <3>4. PropertyOK(h, v, X, a, b)
        BY <3>1, PropertyLater
      <3>. QED
        BY <1>4, <3>1, <3>3, <3>4 DEF PropertyOK
    <2>. QED
      BY <2>1, <2>2
  <1>8. HeldOnce(g)
    <2>1. ASSUME NEW n \in Objects, NEW a \in Objects, NEW b \in Keys, NEW i, Holds(g, a, b, i, n)
          PROVE  Holds(h, a, b, i, n)
      <3>1. a \in Live(g) /\ b \in KeysOf(g[a]) /\ n # None
        BY <2>1, NoneAssumption DEF Holds, Live, KeysOf
      <3>2. ~ (a = o /\ b = k)
        BY <1>2, <1>5, <2>1, <3>1 DEF Holds
      <3>3. g[a][b] = h[a][b] /\ a \in Live(h) /\ b \in KeysOf(h[a])
        BY <1>6, <3>1, <3>2
      <3>. QED
        BY <2>1, <3>3 DEF Holds, Live, KeysOf
    <2>2. HeldOnce(h)
      BY DEF Good
    <2>. QED
      BY <2>1, <2>2 DEF HeldOnce
  <1>. QED
    BY <1>2, <1>7, <1>8 DEF Good, g

\* Handlers are those of int8 properties.
HandlersOK(h, registered) ==
    /\ registered \in [0..MaxUid -> Seq(Places)]
    /\ \A u \in 0..MaxUid : \A i \in DOMAIN registered[u] :
          registered[u][i] # Destroyed =>
              /\ registered[u][i] \in Objects \X Keys /\ Present(h, registered[u][i])
              /\ At(h, registered[u][i]).type = "int8"

\* What is reported is a call of setValue on the property as it is.
Reported ==
    \E o \in Live(heap) : \E k \in KeysOf(heap[o]), i \in Indices :
        LET p == heap[o][k]
            subject == IF i \in DOMAIN p.subjects THEN p.subjects[i] ELSE <<>>
        IN  \E read \in UidsRead(subject) :
               report = [of |-> <<o, k>>, index |-> i, calls |-> Calls(p, read)]

\* What holds between two steps.
Sound(h, numbers, u, registered) ==
    /\ Good(h, u, {}) /\ IdsOK(h, numbers, u) /\ u \in 0..MaxGenerated
    /\ HandlersOK(h, registered)

IInv == Sound(heap, ids, uid, handlers) /\ (report = None \/ Reported)

LEMMA HandlersKept ==
    ASSUME NEW h, NEW g, NEW registered, HandlersOK(h, registered), NEW dead,
           \A q \in Objects \X Keys : Present(h, q) =>
              q \in dead \/ (Present(g, q) /\ At(g, q).type = At(h, q).type)
    PROVE  HandlersOK(g, [u \in 0..MaxUid |-> Forget(registered[u], dead)])
  <1>. DEFINE left == [u \in 0..MaxUid |-> Forget(registered[u], dead)]
  <1>1. ASSUME NEW u \in 0..MaxUid
        PROVE  /\ left[u] \in Seq(Places)
               /\ \A i \in DOMAIN left[u] : left[u][i] # Destroyed =>
                     /\ left[u][i] \in Objects \X Keys /\ Present(g, left[u][i])
                     /\ At(g, left[u][i]).type = "int8"
    <2>. DEFINE t == registered[u]
                e == left[u]
    <2>1. /\ t \in Seq(Places)
          /\ \A i \in DOMAIN t : t[i] # Destroyed =>
                t[i] \in Objects \X Keys /\ Present(h, t[i]) /\ At(h, t[i]).type = "int8"
      BY DEF HandlersOK
    <2>2. e = Forget(t, dead)
      OBVIOUS
    <2>. HIDE DEF t, e
    <2>3. e = [i \in 1..Len(t) |-> IF t[i] \in dead THEN Destroyed ELSE t[i]] /\ DOMAIN t = 1..Len(t)
      BY <2>1, <2>2 DEF Forget
    <2>4. e \in Seq(Places)
      <3>1. Len(t) \in Nat /\ \A j \in 1..Len(t) : t[j] \in Places
        BY <2>1
      <3>2. Destroyed \in Places
        BY DEF Places
      <3>. QED
        BY <2>3, <3>1, <3>2
    <2>5. ASSUME NEW i \in DOMAIN e, e[i] # Destroyed
          PROVE  e[i] \in Objects \X Keys /\ Present(g, e[i]) /\ At(g, e[i]).type = "int8"
      <3>1. i \in DOMAIN t /\ e[i] = t[i] /\ t[i] \notin dead
        BY <2>3, <2>5
      <3>. QED
        BY <2>1, <2>5, <3>1
    <2>. QED
      BY <2>4, <2>5 DEF e
  <1>2. left \in [0..MaxUid -> Seq(Places)]
    BY <1>1
  <1>. HIDE DEF left
  <1>3. HandlersOK(g, left)
    BY <1>1, <1>2 DEF HandlersOK
  <1>. QED
    BY <1>3 DEF left

LEMMA HandlersStay ==
    ASSUME NEW h, NEW g, NEW registered, HandlersOK(h, registered),
           \A q \in Objects \X Keys : Present(h, q) =>
              Present(g, q) /\ At(g, q).type = At(h, q).type
    PROVE  HandlersOK(g, registered)
  BY DEF HandlersOK

\* What most actions leave.
LEMMA Unreported ==
    ASSUME Sound(heap', ids', uid', handlers'), report' = None
    PROVE  IInv'
  BY DEF IInv

\* A property as it is made, before it is put into the map of an object.
MadeOK(p, replicate, h, v, X, o, k) ==
    /\ p \in Property /\ p # None /\ p.origin = {} /\ p.kept = 0 /\ p.replicate = replicate
    /\ Registrable(p) /\ NewProperty(h, v, X, o, k, p)

LEMMA MadeFacts ==
    ASSUME NEW template, template.type \in ValueTypes, template.capacity \in Indices,
           template.replicate \in BOOLEAN, NEW number \in Nat, NEW name \in Keys \cup {0},
           NEW h, NEW v \in Nat, number <= v, NEW X, NEW o \in Objects, NEW k \in Keys
    PROVE  MadeOK(Made(template, number, name), template.replicate, h, v, X, o, k)
  <1>. DEFINE p == Made(template, number, name)
              n == template.capacity
              values == IF template.type = "object" THEN [i \in 1..n |-> None] ELSE <<>>
              subjects == [i \in 1..n |-> <<>>]
  <1>1. n \in Nat
    BY BoundsAssumption DEF Indices
  <1>2. values \in Seq(Objects \cup {None}) /\ \A i \in DOMAIN values : values[i] = None
    <2>. HIDE DEF n
    <2>1. CASE template.type = "object"
      BY <1>1, <2>1
    <2>2. CASE template.type # "object"
      BY <1>1, <2>2
    <2>. QED
      BY <2>1, <2>2
  <1>3. /\ subjects \in Seq(Seq(Places)) /\ Len(subjects) = n /\ DOMAIN subjects = 1..n
        /\ \A i \in DOMAIN subjects : subjects[i] = <<>>
    <2>. HIDE DEF n
    <2>1. subjects \in [1..n -> Seq(Places)]
      OBVIOUS
    <2>2. DOMAIN subjects = 1..n /\ \A i \in DOMAIN subjects : subjects[i] = <<>>
      OBVIOUS
    <2>. HIDE DEF subjects
    <2>. QED
      BY <1>1, <2>1, <2>2, SeqDef, LenProperties
  <1>4. /\ p.type = template.type /\ p.uid = number /\ p.name = name /\ p.capacity = n
        /\ p.replicate = template.replicate /\ p.writable = TRUE /\ p.subjects = subjects
        /\ p.values = values /\ p.origin = {} /\ p.kept = 0
    BY DEF Made
  <1>5. p = [type |-> template.type, uid |-> number, name |-> name, capacity |-> n,
             replicate |-> template.replicate, writable |-> TRUE, subjects |-> subjects,
             values |-> values, origin |-> {}, kept |-> 0]
    BY DEF Made
  <1>6. 0 \in 0..MaxCapacity
    BY BoundsAssumption
  <1>. HIDE DEF values, subjects
  <1>7. p \in Property
    BY <1>2, <1>3, <1>5, <1>6 DEF Property
  <1>8. Observed(p, <<o, k>>)
    <2>. HIDE DEF p
    <2>1. ASSUME NEW i \in DOMAIN p.subjects PROVE DOMAIN p.subjects[i] = {} /\ ~ i <= p.kept
      <3>1. p.subjects[i] = <<>> /\ i \in 1..n
        BY <1>3, <1>4
      <3>. HIDE DEF n
      <3>. QED
        BY <1>1, <1>4, <3>1
    <2>. QED
      BY <2>1 DEF Observed
  <1>9. p.type # "object" => p.values = <<>>
    BY <1>4 DEF values
  <1>. HIDE DEF p
  <1>10. NewProperty(h, v, X, o, k, p)
    BY <1>1, <1>2, <1>3, <1>4, <1>8, <1>9 DEF NewProperty, UidOK
  <1>11. Registrable(p)
    BY <1>1, <1>3, <1>4 DEF Registrable
  <1>. QED
    BY <1>4, <1>7, <1>10, <1>11, PropertyFacts DEF p, MadeOK

LEMMA NowWith ==
    ASSUME NEW o, NEW m, NEW n, NEW s,
           s = [Now EXCEPT !.heap[o] = m, !.ids[o] = n, !.uid = @ + 1]
    PROVE  s = [heap |-> [heap EXCEPT ![o] = m], ids |-> [ids EXCEPT ![o] = n],
                uid |-> uid + 1, ok |-> TRUE, made |-> None]
  <1>1. DOMAIN s = {"heap", "ids", "uid", "ok", "made"}
    BY DEF Now
  <1>2. s.heap = [heap EXCEPT ![o] = m]
    BY DEF Now
  <1>3. s.ids = [ids EXCEPT ![o] = n]
    BY DEF Now
  <1>4. s.uid = uid + 1 /\ s.ok = TRUE /\ s.made = None
    BY DEF Now
  <1>5. s = [f \in {"heap", "ids", "uid", "ok", "made"} |-> s[f]]
    BY DEF Now
  <1>. QED
    BY <1>1, <1>2, <1>3, <1>4, <1>5

LEMMA CreateOK ==
    ASSUME IInv, NEW map \in Maps, Create(map)
    PROVE  IInv'
  <1>. DEFINE o == FreeSlot(heap)
              m == [k \in Keys |-> IF k \in DOMAIN map THEN Made(map[k], 0, 0) ELSE None]
              g == Placed(heap, o, m)
              number == uid + 1
              numbers == [ids EXCEPT ![o] = number]
              s == [Now EXCEPT !.heap[o] = m, !.ids[o] = uid + 1, !.uid = @ + 1]
              t == RegisterAll(s, o)
  <1>1. /\ Good(heap, uid, {}) /\ IdsOK(heap, ids, uid) /\ uid \in 0..MaxGenerated
        /\ HandlersOK(heap, handlers) /\ heap \in Heap /\ uid \in Nat /\ number \in Nat
        /\ ids \in [Objects -> Nat] /\ uid <= number
    BY DEF IInv, Sound, Good, IdsOK
  <1>2. o \in Objects /\ heap[o] = None /\ o \notin Live(heap)
    BY <1>1, FreeSlotFacts DEF Create
  <1>3. /\ heap' = t.heap /\ ids' = t.ids /\ uid' = t.uid /\ report' = None
        /\ handlers' = handlers /\ Fits(t)
    BY DEF Create
  <1>4. ASSUME NEW k \in Keys, k \in DOMAIN map
        PROVE  /\ m[k] \in Property /\ m[k] # None /\ m[k].kept = 0 /\ Registrable(m[k])
               /\ m[k].uid = 0 /\ NewProperty(heap, number, {}, o, k, m[k])
    <2>1. /\ map[k].type \in ValueTypes /\ map[k].capacity \in Indices
          /\ map[k].replicate \in BOOLEAN
      BY <1>4, MapsAssumption
    <2>2. m[k] = Made(map[k], 0, 0) /\ 0 \in Nat /\ 0 <= number /\ 0 \in Keys \cup {0}
      BY <1>1, <1>4
    <2>3. MadeOK(Made(map[k], 0, 0), map[k].replicate, heap, number, {}, o, k)
      <3>. HIDE DEF m, o, number
      <3>. QED
        BY <1>1, <1>2, <2>1, <2>2, MadeFacts
    <2>4. m[k].uid = 0
      BY <2>2 DEF Made
    <2>. HIDE DEF m, o, number
    <2>. QED
      BY <2>2, <2>3, <2>4 DEF MadeOK
  <1>5. m \in PropertyMap
    BY <1>4 DEF PropertyMap
  <1>6. \A k \in KeysOf(m) : k \in Keys /\ k \in DOMAIN map
    BY DEF KeysOf
  <1>. HIDE DEF m, o
  <1>7. Good(g, number, {}) /\ g \in Heap /\ Live(g) = Live(heap) \cup {o} /\ g[o] = m
    <2>1. \A k \in KeysOf(m) : NewProperty(heap, number, {}, o, k, m[k])
      BY <1>4, <1>6
    <2>2. g \in Heap /\ Live(g) = Live(heap) \cup {o} /\ g[o] = m
      BY <1>1, <1>2, <1>5, PlacedShape
    <2>. HIDE DEF number
    <2>3. {} \subseteq {}
      OBVIOUS
    <2>. QED
      BY <1>1, <1>2, <1>5, <2>1, <2>2, <2>3, PlacedGood
  <1>8. /\ s.heap = g /\ s.ids = numbers /\ s.uid = number /\ s.ok = TRUE
        /\ s = [heap |-> g, ids |-> numbers, uid |-> number, ok |-> TRUE, made |-> None]
    <2>1. s = [heap |-> [heap EXCEPT ![o] = m], ids |-> [ids EXCEPT ![o] = uid + 1],
               uid |-> uid + 1, ok |-> TRUE, made |-> None]
      BY NowWith
    <2>. QED
      BY <2>1 DEF Placed
  <1>. HIDE DEF s
  <1>9. Valid(s, {})
    <2>1. numbers \in [Objects -> Nat]
      BY <1>1
    <2>2. s \in State
      BY <1>1, <1>7, <1>8, <2>1 DEF State
    <2>3. IdsOK(g, numbers, number)
      <3>1. \A a \in Objects : numbers[a] = IF a = o THEN number ELSE ids[a]
        BY <1>1
      <3>2. \A a \in Objects : /\ ids[a] \in Nat /\ (ids[a] <= uid \/ ids[a] <= MaxUid)
                               /\ (heap[a] = None => ids[a] = 0)
        BY <1>1 DEF IdsOK
      <3>3. \A a \in Objects : g[a] = None => heap[a] = None /\ a # o
        BY <1>7 DEF Live
      <3>. HIDE DEF numbers, g
      <3>4. \A a \in Objects : /\ numbers[a] <= number \/ numbers[a] <= MaxUid
                               /\ g[a] = None => numbers[a] = 0
        BY <1>1, <3>1, <3>2, <3>3
      <3>. QED
        BY <2>1, <3>4 DEF IdsOK
    <2>. QED
      BY <1>7, <1>8, <2>2, <2>3 DEF Valid
  <1>10. t.ok
    <2>1. t.ok = (s.ok /\ \A k \in KeysOf(s.heap[o]) : Registrable(s.heap[o][k]))
      BY <1>9 DEF RegisterAll, Valid, State
    <2>. QED
      BY <1>4, <1>6, <1>7, <1>8, <2>1
  <1>11. /\ t.uid = s.uid /\ t.ids = s.ids /\ Valid(t, {}) /\ Remade(t.heap, s.heap, o, t.heap[o])
    <2>1. o \in Live(s.heap)
      BY <1>7, <1>8
    <2>2. \A k \in KeysOf(s.heap[o]) : s.heap[o][k].kept = 0 /\ s.heap[o][k].uid <= s.uid
      BY <1>1, <1>4, <1>6, <1>7, <1>8
    <2>. QED
      BY <1>9, <1>10, <2>1, <2>2, RegisterAllOK
  <1>. HIDE DEF t
  <1>12. \A q \in Objects \X Keys : Present(heap, q) =>
              Present(t.heap, q) /\ At(t.heap, q).type = At(heap, q).type
    <2>1. \A a \in Live(heap) : a \in Objects /\ a # o /\ t.heap[a] = heap[a]
      BY <1>1, <1>2, <1>8, <1>11 DEF Remade, Live, Placed, Heap
    <2>. QED
      BY <2>1 DEF Present, At, Live
  <1>13. HandlersOK(t.heap, handlers)
    BY <1>1, <1>12, HandlersStay
  <1>14. t.uid \in 0..MaxGenerated
    BY <1>1, <1>3, <1>8, <1>11, BoundsAssumption DEF Fits
  <1>15. Good(t.heap, t.uid, {}) /\ IdsOK(t.heap, t.ids, t.uid)
    BY <1>11 DEF Valid
  <1>16. Sound(t.heap, t.ids, t.uid, handlers)
    BY <1>13, <1>14, <1>15 DEF Sound
  <1>. QED
    BY <1>3, <1>16, Unreported

LEMMA DiffersStays ==
    ASSUME NEW h \in Heap, NEW o \in Live(h), NEW k \in Keys, NEW p, p # None,
           h[o][k] # None => p.type = h[o][k].type,
           NEW g, Differs(g, h, o, k, p), NEW registered, HandlersOK(h, registered)
    PROVE  HandlersOK(g, registered)
  <1>1. ASSUME NEW q \in Objects \X Keys, Present(h, q)
        PROVE  Present(g, q) /\ At(g, q).type = At(h, q).type
    <2>1. q[1] \in Objects /\ q[2] \in Keys /\ q[1] \in Live(h) /\ q[1] \in Live(g)
      BY <1>1 DEF Present, Live, Differs
    <2>2. CASE q[1] = o
      BY <1>1, <2>1, <2>2 DEF Differs, Present, At, Live
    <2>3. CASE q[1] # o
      BY <1>1, <2>1, <2>3 DEF Differs, Present, At, Live
    <2>. QED
      BY <2>2, <2>3
  <1>. QED
    BY <1>1, HandlersStay

LEMMA AddPropertyOK ==
    ASSUME IInv, NEW o \in Live(heap), NEW new \in Added, AddProperty(o, new[1], new[2])
    PROVE  IInv'
  <1>. DEFINE k == new[1]
              template == [type |-> new[2], capacity |-> 1, replicate |-> FALSE]
              p == Made(template, uid + 1, k)
              g == Replaced(heap, o, k, p)
  <1>0. k \in Keys /\ new[2] \in ValueTypes
    BY AddedAssumption
  <1>1. /\ Good(heap, uid, {}) /\ IdsOK(heap, ids, uid) /\ uid \in 0..MaxGenerated
        /\ HandlersOK(heap, handlers) /\ heap \in Heap /\ uid \in Nat /\ uid + 1 \in Nat
        /\ uid <= uid + 1 /\ uid + 1 <= uid + 1 /\ o \in Objects
    BY DEF IInv, Sound, Good, IdsOK, Live
  <1>2. MadeOK(p, FALSE, heap, uid + 1, {}, o, k)
    <2>1. /\ template.type \in ValueTypes /\ template.capacity \in Indices
          /\ template.replicate = FALSE /\ template.replicate \in BOOLEAN
      BY <1>0, BoundsAssumption DEF Indices
    <2>. HIDE DEF template, k
    <2>. QED
      BY <1>0, <1>1, <2>1, MadeFacts
  <1>3. /\ heap' = [heap EXCEPT ![o][k] = Registered(p, <<o, k>>)] /\ heap[o][k] = None
        /\ uid' = uid + 1 /\ report' = None /\ ids' = ids /\ handlers' = handlers
        /\ uid < MaxGenerated
    BY DEF AddProperty
  <1>. HIDE DEF p, k
  <1>4. heap' = g
    BY <1>2, <1>3 DEF MadeOK, Registered, Replaced
  <1>5. Differs(g, heap, o, k, p)
    BY <1>0, <1>1, <1>2, ReplacedShape DEF MadeOK
  <1>6. Good(g, uid + 1, {})
    <2>. DEFINE v == uid + 1
    <2>1. NewProperty(heap, v, {}, o, k, p) /\ p \in Property /\ p.origin = {}
      BY <1>2 DEF MadeOK
    <2>2. v \in Nat /\ uid <= v
      BY <1>1
    <2>. HIDE DEF v
    <2>3. Good(g, v, {})
      BY <1>0, <1>1, <1>3, <2>1, <2>2, AddedGood
    <2>. QED
      BY <2>3 DEF v
  <1>7. HandlersOK(g, handlers)
    <2>1. p # None
      BY <1>2 DEF MadeOK
    <2>. HIDE DEF g
    <2>. QED
      BY <1>0, <1>1, <1>3, <1>5, <2>1, DiffersStays
  <1>8. IdsOK(g, ids, uid + 1)
    <2>1. \A a \in Objects : /\ ids[a] \in Nat /\ (ids[a] <= uid \/ ids[a] <= MaxUid)
                             /\ (heap[a] = None => ids[a] = 0)
      BY <1>1 DEF IdsOK
    <2>2. \A a \in Objects : g[a] = None => heap[a] = None
      BY <1>5 DEF Differs, Live
    <2>3. \A a \in Objects : /\ ids[a] <= uid + 1 \/ ids[a] <= MaxUid
                             /\ (g[a] = None => ids[a] = 0)
      BY <1>1, <2>1, <2>2
    <2>. QED
      BY <1>1, <2>3 DEF IdsOK
  <1>9. Sound(heap', ids', uid', handlers')
    <2>1. uid + 1 \in 0..MaxGenerated
      BY <1>1, <1>3, BoundsAssumption
    <2>. QED
      BY <1>3, <1>4, <1>6, <1>7, <1>8, <2>1 DEF Sound
  <1>. QED
    BY <1>3, <1>9, Unreported

\* A property whose mode or writability is set.
LEMMA SwitchedOK ==
    ASSUME IInv, NEW o \in Live(heap), NEW k \in KeysOf(heap[o]), NEW p \in Property,
           p.type = heap[o][k].type, p.uid = heap[o][k].uid, p.origin = heap[o][k].origin,
           p.subjects = heap[o][k].subjects, p.values = heap[o][k].values,
           p.kept = heap[o][k].kept,
           heap' = Replaced(heap, o, k, p), report' = None, ids' = ids, uid' = uid,
           handlers' = handlers
    PROVE  IInv'
  <1>1. /\ Good(heap, uid, {}) /\ IdsOK(heap, ids, uid) /\ uid \in 0..MaxGenerated
        /\ HandlersOK(heap, handlers) /\ heap \in Heap
    BY DEF IInv, Sound, Good
  <1>2. /\ k \in Keys /\ PropertyOK(heap, uid, {}, o, k) /\ heap[o][k] # None
    BY <1>1 DEF Good, KeysOf
  <1>3. Successor(heap, o, k, p, 0)
    <2>1. Observed(p, <<o, k>>)
      BY <1>2, SameObserved DEF PropertyOK
    <2>. QED
      BY <1>2, <2>1 DEF Successor, PropertyOK
  <1>4. Good(heap', uid, {}) /\ Differs(heap', heap, o, k, p)
    <2>. DEFINE g == Replaced(heap, o, k, p)
    <2>1. Good(g, uid, {})
      BY <1>1, <1>3, ReplacedGood
    <2>2. Differs(g, heap, o, k, p)
      BY <1>1, <1>2, ReplacedShape
    <2>. QED
      BY <2>1, <2>2
  <1>5. HandlersOK(heap', handlers)
    <2>. DEFINE g == heap'
    <2>1. p # None /\ Differs(g, heap, o, k, p)
      BY <1>4, PropertyFacts
    <2>. HIDE DEF g
    <2>2. HandlersOK(g, handlers)
      BY <1>1, <1>2, <2>1, DiffersStays
    <2>. QED
      BY <2>2 DEF g
  <1>6. IdsOK(heap', ids, uid)
    BY <1>1, <1>4 DEF IdsOK, Differs, Live
  <1>7. Sound(heap', ids', uid', handlers')
    BY <1>1, <1>4, <1>5, <1>6 DEF Sound
  <1>. QED
    BY <1>7, Unreported

LEMMA SwitchOK ==
    ASSUME IInv, NEW o \in Live(heap), NEW k \in KeysOf(heap[o]), NEW b \in BOOLEAN,
           SetReplicationMode(o, k, b) \/ SetWriteable(o, k, b)
    PROVE  IInv'
  <1>1. heap \in Heap /\ o \in Objects /\ k \in Keys /\ heap[o] \in PropertyMap
    BY LiveFacts DEF IInv, Sound, Good
  <1>2. heap[o][k] \in Property
    BY <1>1, LiveFacts
  <1>. DEFINE p == heap[o][k]
  <1>3. CASE SetReplicationMode(o, k, b)
    <2>. DEFINE c == [p EXCEPT !.replicate = b]
    <2>1. c \in Property /\ c.type = p.type /\ c.uid = p.uid /\ c.origin = p.origin
          /\ c.subjects = p.subjects /\ c.values = p.values /\ c.kept = p.kept
      BY <1>2 DEF Property
    <2>2. heap' = Replaced(heap, o, k, c)
      BY <1>1, <1>2, <1>3 DEF SetReplicationMode, Replaced, Heap, PropertyMap
    <2>3. report' = None /\ ids' = ids /\ uid' = uid /\ handlers' = handlers
      BY <1>3 DEF SetReplicationMode
    <2>. HIDE DEF c
    <2>. QED
      BY <2>1, <2>2, <2>3, SwitchedOK
  <1>4. CASE SetWriteable(o, k, b)
    <2>. DEFINE c == [p EXCEPT !.writable = b]
    <2>1. c \in Property /\ c.type = p.type /\ c.uid = p.uid /\ c.origin = p.origin
          /\ c.subjects = p.subjects /\ c.values = p.values /\ c.kept = p.kept
      BY <1>2 DEF Property
    <2>2. heap' = Replaced(heap, o, k, c)
      BY <1>1, <1>2, <1>4 DEF SetWriteable, Replaced, Heap, PropertyMap
    <2>3. report' = None /\ ids' = ids /\ uid' = uid /\ handlers' = handlers
      BY <1>4 DEF SetWriteable
    <2>. HIDE DEF c
    <2>. QED
      BY <2>1, <2>2, <2>3, SwitchedOK
  <1>. QED
    BY <1>3, <1>4

LEMMA RegisterOK ==
    ASSUME IInv, NEW o \in Live(heap), NEW k \in KeysOf(heap[o]), Register(o, k)
    PROVE  IInv'
  <1>. DEFINE p == heap[o][k]
              n == p.uid
  <1>1. /\ Good(heap, uid, {}) /\ IdsOK(heap, ids, uid) /\ uid \in 0..MaxGenerated
        /\ HandlersOK(heap, handlers) /\ heap \in Heap
    BY DEF IInv, Sound, Good
  <1>2. /\ o \in Objects /\ k \in Keys /\ p \in Property /\ p # None /\ UidOK(p, uid)
        /\ heap[o] # None
    BY <1>1, LiveFacts DEF Good, PropertyOK
  <1>3. n \in 0..MaxUid
    BY <1>1, <1>2, BoundsAssumption, PropertyFacts DEF UidOK
  <1>4. /\ handlers' = IF p.type = "int8"
                       THEN [handlers EXCEPT ![n] = Append(@, <<o, k>>)] ELSE handlers
        /\ report' = None /\ heap' = heap /\ ids' = ids /\ uid' = uid
    BY DEF Register
  <1>5. HandlersOK(heap, handlers')
    <2>1. CASE p.type # "int8"
      BY <1>1, <1>4, <2>1
    <2>2. CASE p.type = "int8"
      <3>1. /\ handlers \in [0..MaxUid -> Seq(Places)] /\ handlers[n] \in Seq(Places)
            /\ \A u \in 0..MaxUid : \A i \in DOMAIN handlers[u] :
                  handlers[u][i] # Destroyed =>
                      /\ handlers[u][i] \in Objects \X Keys /\ Present(heap, handlers[u][i])
                      /\ At(heap, handlers[u][i]).type = "int8"
        BY <1>1, <1>3 DEF HandlersOK
      <3>. DEFINE q == <<o, k>>
                  longer == Append(handlers[n], q)
      <3>2. q \in Places /\ q \in Objects \X Keys /\ Present(heap, q) /\ At(heap, q).type = "int8"
        BY <1>2, <2>2 DEF Places, Present, At
      <3>. HIDE DEF q
      <3>3. /\ longer \in Seq(Places) /\ Len(longer) = Len(handlers[n]) + 1
            /\ DOMAIN longer = 1..(Len(handlers[n]) + 1) /\ DOMAIN handlers[n] = 1..Len(handlers[n])
            /\ Len(handlers[n]) \in Nat
            /\ \A i \in DOMAIN longer : longer[i] = IF i <= Len(handlers[n]) THEN handlers[n][i] ELSE q
        BY <3>1, <3>2, AppendProperties, LenProperties
      <3>. HIDE DEF longer
      <3>4. handlers' = [handlers EXCEPT ![n] = longer]
        BY <1>4, <2>2 DEF longer, q
      <3>5. \A i \in DOMAIN longer : longer[i] # Destroyed =>
                      /\ longer[i] \in Objects \X Keys /\ Present(heap, longer[i])
                      /\ At(heap, longer[i]).type = "int8"
        <4>. SUFFICES ASSUME NEW i \in DOMAIN longer, longer[i] # Destroyed
                      PROVE  /\ longer[i] \in Objects \X Keys /\ Present(heap, longer[i])
                             /\ At(heap, longer[i]).type = "int8"
          OBVIOUS
        <4>1. CASE i <= Len(handlers[n])
          <5>1. i \in DOMAIN handlers[n] /\ longer[i] = handlers[n][i]
            BY <3>3, <4>1
          <5>. HIDE DEF n
          <5>. QED
            BY <1>3, <3>1, <5>1
        <4>2. CASE ~ i <= Len(handlers[n])
          BY <3>2, <3>3, <4>2
        <4>. QED
          BY <4>1, <4>2
      <3>. HIDE DEF n
      <3>6. handlers' \in [0..MaxUid -> Seq(Places)]
        BY <1>3, <3>1, <3>3, <3>4
      <3>7. \A u \in 0..MaxUid : handlers'[u] = IF u = n THEN longer ELSE handlers[u]
        BY <3>1, <3>4
      <3>. QED
        BY <3>1, <3>5, <3>6, <3>7 DEF HandlersOK
    <2>. QED
      BY <2>1, <2>2
  <1>6. Sound(heap', ids', uid', handlers')
    BY <1>1, <1>4, <1>5 DEF Sound
  <1>. QED
    BY <1>4, <1>6, Unreported

\* UidsRead of a heap and of handlers.
ReadOf(h, registered, subject) ==
    LET stale == {j \in DOMAIN subject : subject[j] = Destroyed}
        used  == {u \in 0..MaxUid : registered[u] # <<>>} \cup {None}
    IN  {[j \in DOMAIN subject |-> IF j \in stale THEN any[j] ELSE At(h, subject[j]).uid]
            : any \in [stale -> used]}

LEMMA ReportedNow ==
    ASSUME heap' = heap, ids' = ids, uid' = uid, handlers' = handlers,
           NEW o \in Live(heap), NEW k \in KeysOf(heap[o]), NEW i \in Indices,
           NEW p, p = heap[o][k],
           NEW subject, subject = IF i \in DOMAIN p.subjects THEN p.subjects[i] ELSE <<>>,
           NEW read \in UidsRead(subject),
           report' = [of |-> <<o, k>>, index |-> i, calls |-> Calls(p, read)]
    PROVE  Reported'
  <1>1. UidsRead(subject)' = UidsRead(subject)
    <2>1. UidsRead(subject) = ReadOf(heap, handlers, subject)
      BY DEF UidsRead, ReadOf, At
    <2>2. UidsRead(subject)' = ReadOf(heap', handlers', subject)
      BY DEF UidsRead, ReadOf, At
    <2>. QED
      BY <2>1, <2>2
  <1>2. Calls(p, read)' = Calls(p, read)
    BY Zenon DEF Calls, Called
  <1>3. o \in Live(heap)' /\ k \in KeysOf(heap[o])' /\ p = heap'[o][k]
    BY DEF Live, KeysOf
  <1>4. \E r \in UidsRead(subject)' :
              report' = [of |-> <<o, k>>, index |-> i, calls |-> Calls(p, r)']
    BY <1>1, <1>2
  <1>. QED
    BY <1>3, <1>4 DEF Reported

LEMMA SetValueOK ==
    ASSUME IInv, NEW o \in Live(heap), NEW k \in KeysOf(heap[o]), NEW i \in Indices,
           SetValue(o, k, i)
    PROVE  IInv'
  <1>. DEFINE p == heap[o][k]
              subject == IF i \in DOMAIN p.subjects THEN p.subjects[i] ELSE <<>>
  <1>1. heap' = heap /\ ids' = ids /\ uid' = uid /\ handlers' = handlers
    BY DEF SetValue
  <1>2. PICK read \in UidsRead(subject) :
              report' = [of |-> <<o, k>>, index |-> i, calls |-> Calls(p, read)]
    BY DEF SetValue
  <1>3. Sound(heap', ids', uid', handlers')
    BY <1>1 DEF IInv
  <1>4. Reported'
    BY <1>1, <1>2, ReportedNow
  <1>. QED
    BY <1>3, <1>4 DEF IInv

-----------------------------------------------------------------------------
\* The owner of the objects R and of the properties at P ends.
LEMMA EndOK ==
    ASSUME IInv, NEW h, NEW R, NEW P, Drops(h, heap, R, P, None),
           NEW S, S = UNION {Tree(heap, r) : r \in R}, End(h, S, P)
    PROVE  IInv'
  <1>. DEFINE dead == P \cup PlacesOf(heap, S)
              g == Purged(Without(h, S), dead)
  <1>1. /\ Good(heap, uid, {}) /\ IdsOK(heap, ids, uid) /\ uid \in 0..MaxGenerated
        /\ HandlersOK(heap, handlers) /\ heap \in Heap
    BY DEF IInv, Sound, Good
  <1>2. /\ h \in Heap /\ Live(h) = Live(heap) /\ S \subseteq Objects
    BY <1>1, TreesFacts DEF Drops, Live
  <1>3. /\ heap' = g /\ ids' = [o \in Objects |-> IF o \in S THEN 0 ELSE ids[o]]
        /\ handlers' = [u \in 0..MaxUid |-> Forget(handlers[u], dead)]
        /\ report' = None /\ uid' = uid
    BY DEF End, Handling
  <1>4. Good(g, uid, {})
    BY <1>1, DropsGood
  <1>. HIDE DEF dead
  <1>5. /\ \A o \in Live(g) : \A k \in Keys :
              g[o][k] = IF h[o][k] = None THEN None ELSE Cut(h[o][k], dead)
        /\ \A o \in Objects : g[o] # None <=> h[o] # None /\ o \notin S
    BY <1>2, PurgedShape
  <1>. HIDE DEF g
  <1>6. ASSUME NEW q \in Objects \X Keys, Present(heap, q), q \notin dead
        PROVE  Present(g, q) /\ At(g, q).type = At(heap, q).type
    <2>. DEFINE o == q[1]
                k == q[2]
    <2>1. o \in Objects /\ k \in Keys /\ q = <<o, k>>
      OBVIOUS
    <2>. HIDE DEF o, k
    <2>2. heap[o] # None /\ heap[o][k] # None
      BY <1>6 DEF Present, o, k
    <2>3. o \notin S
      BY <1>6, <2>1, <2>2 DEF dead, PlacesOf, At
    <2>4. Present(h, q)
      BY <1>6 DEF Drops, dead
    <2>5. h[o] # None /\ h[o][k] # None /\ o \in Live(h) /\ k \in KeysOf(h[o])
      BY <2>1, <2>4 DEF Present, Live, KeysOf, o, k
    <2>6. h[o][k].type = heap[o][k].type /\ h[o][k] \in Property
      BY <1>2, <2>5, LiveFacts DEF Drops, Trimmed
    <2>7. o \in Live(g)
      BY <1>5, <2>1, <2>3, <2>5 DEF Live
    <2>8. g[o][k] = Cut(h[o][k], dead)
      BY <1>5, <2>1, <2>5, <2>7
    <2>9. g[o][k].type = heap[o][k].type /\ g[o][k] # None
      BY <2>6, <2>8, CutFacts, PropertyFacts
    <2>. QED
      BY <2>7, <2>9 DEF Present, At, Live, o, k
  <1>7. HandlersOK(g, handlers')
    BY <1>1, <1>3, <1>6, HandlersKept
  <1>8. IdsOK(g, ids', uid)
    <2>1. \A a \in Objects : /\ ids[a] \in Nat /\ (ids[a] <= uid \/ ids[a] <= MaxUid)
                             /\ (heap[a] = None => ids[a] = 0)
      BY <1>1 DEF IdsOK
    <2>2. \A a \in Objects : g[a] = None => heap[a] = None \/ a \in S
      BY <1>2, <1>5 DEF Live
    <2>3. \A a \in Objects : ids'[a] = IF a \in S THEN 0 ELSE ids[a]
      BY <1>3
    <2>4. ids' \in [Objects -> Nat]
      BY <1>3, <2>1
    <2>5. \A a \in Objects : /\ ids'[a] <= uid \/ ids'[a] <= MaxUid
                             /\ g[a] = None => ids'[a] = 0
      BY <1>1, <2>1, <2>2, <2>3, BoundsAssumption
    <2>. QED
      BY <2>4, <2>5 DEF IdsOK
  <1>9. Sound(heap', ids', uid', handlers')
    BY <1>1, <1>3, <1>4, <1>7, <1>8 DEF Sound
  <1>. QED
    BY <1>3, <1>9, Unreported

LEMMA DestroyOK ==
    ASSUME IInv, NEW o \in Outermost(heap), Destroy(o)
    PROVE  IInv'
  <1>1. Good(heap, uid, {}) /\ heap \in Heap
    BY DEF IInv, Sound, Good
  <1>2. o \in Live(heap) /\ o \in Objects /\ o # None
    BY <1>1, LiveFacts DEF Outermost
  <1>3. ASSUME NEW a \in Live(heap), NEW k \in KeysOf(heap[a])
        PROVE  LET p == heap[a][k]
               IN  /\ k \in KeysOf(heap[a]) /\ Trimmed(p, heap, a, k, None)
                   /\ p.kept <= Len(p.subjects) /\ Observed(p, <<a, k>>)
                   /\ p.type # "object" => p.values = <<>>
                   /\ <<a, k>> \notin {} /\ \A i \in DOMAIN p.values : p.values[i] \notin {o}
    <2>1. PropertyOK(heap, uid, {}, a, k) /\ heap[a][k] \in Property /\ k \in Keys
          /\ heap[a] # None /\ heap[a][k] # None
      BY <1>1, LiveFacts DEF Good
    <2>2. Trimmed(heap[a][k], heap, a, k, None)
      BY DEF Trimmed
    <2>3. ASSUME NEW i \in DOMAIN heap[a][k].values, heap[a][k].values[i] = o
          PROVE  FALSE
      <3>1. i \in Nat
        BY <2>1, PropertyFacts
      <3>2. Holds(heap, a, k, i, o)
        BY <2>1, <2>3 DEF Holds
      <3>3. o \in Inner(heap, a)
        BY <1>1, <1>2, <2>1, <3>1, <3>2, InnerFacts
      <3>. QED
        BY <3>3 DEF Outermost
    <2>. QED
      BY <2>1, <2>2, <2>3 DEF PropertyOK
  <1>4. Drops(heap, heap, {o}, {}, None)
    BY <1>1, <1>2, <1>3 DEF Drops
  <1>5. Tree(heap, o) = UNION {Tree(heap, r) : r \in {o}}
    OBVIOUS
  <1>6. End(heap, Tree(heap, o), {})
    BY DEF Destroy
  <1>. QED
    BY <1>4, <1>5, <1>6, EndOK

LEMMA RemovePropertyOK ==
    ASSUME IInv, NEW o \in Live(heap), NEW k \in KeysOf(heap[o]), RemoveProperty(o, k)
    PROVE  IInv'
  <1>. DEFINE p == heap[o][k]
              R == ToSet(p.values) \ {None}
              P == {<<o, k>>}
              h == [heap EXCEPT ![o][k] = None]
  <1>1. Good(heap, uid, {}) /\ heap \in Heap
    BY DEF IInv, Sound, Good
  <1>2. /\ o \in Objects /\ k \in Keys /\ heap[o] \in PropertyMap /\ heap[o] # None
        /\ p \in Property /\ p # None /\ PropertyOK(heap, uid, {}, o, k)
    BY <1>1, LiveFacts DEF Good
  <1>3. \A n \in R : n \in Live(heap) /\ n \in Objects /\ \E j \in Nat : Holds(heap, o, k, j, n)
    <2>. SUFFICES ASSUME NEW n \in R
                  PROVE  n \in Live(heap) /\ n \in Objects /\ \E j \in Nat : Holds(heap, o, k, j, n)
      OBVIOUS
    <2>1. PICK j \in DOMAIN p.values : p.values[j] = n
      BY DEF ToSet
    <2>2. j \in Nat /\ n \in Objects
      BY <1>2, <2>1, PropertyFacts
    <2>3. Holds(heap, o, k, j, n)
      BY <1>2, <2>1 DEF Holds
    <2>4. heap[n] # None
      BY <1>2, <2>1 DEF PropertyOK
    <2>. QED
      BY <2>2, <2>3, <2>4 DEF Live
  <1>. HIDE DEF R
  <1>4. /\ h \in Heap /\ \A a \in Objects : a # o => h[a] = heap[a]
        /\ h[o] # None /\ \A l \in Keys : h[o][l] = IF l = k THEN None ELSE heap[o][l]
    <2>. DEFINE m == [heap[o] EXCEPT ![k] = None]
    <2>1. m \in PropertyMap /\ \A l \in Keys : m[l] = IF l = k THEN None ELSE heap[o][l]
      BY <1>2 DEF PropertyMap
    <2>2. h = [heap EXCEPT ![o] = m]
      BY <1>1, <1>2 DEF Heap
    <2>3. m # None
      BY <2>1, NoneAssumption
    <2>. HIDE DEF m
    <2>4. h[o] = m
      BY <1>1, <1>2, <2>2 DEF Heap
    <2>5. h \in Heap /\ \A a \in Objects : a # o => h[a] = heap[a]
      BY <1>1, <1>2, <2>1, <2>2 DEF Heap
    <2>. QED
      BY <2>1, <2>3, <2>4, <2>5
  <1>. HIDE DEF h
  <1>5. Live(h) = Live(heap)
    BY <1>2, <1>4 DEF Live
  <1>6. ASSUME NEW a \in Live(h), NEW l \in KeysOf(h[a])
        PROVE  /\ <<a, l>> # <<o, k>> /\ h[a][l] = heap[a][l] /\ l \in KeysOf(heap[a])
               /\ a \in Live(heap)
    <2>1. a \in Objects /\ l \in Keys /\ h[a][l] # None
      BY DEF Live, KeysOf
    <2>. QED
      BY <1>4, <1>5, <2>1 DEF KeysOf
  <1>7. ASSUME NEW a \in Live(h), NEW l \in KeysOf(h[a])
        PROVE  LET c == h[a][l]
               IN  /\ l \in KeysOf(heap[a]) /\ Trimmed(c, heap, a, l, None)
                   /\ c.kept <= Len(c.subjects) /\ Observed(c, <<a, l>>)
                   /\ c.type # "object" => c.values = <<>>
                   /\ <<a, l>> \notin P /\ \A i \in DOMAIN c.values : c.values[i] \notin R
    <2>1. /\ <<a, l>> # <<o, k>> /\ h[a][l] = heap[a][l] /\ l \in KeysOf(heap[a])
          /\ a \in Live(heap)
      BY <1>6
    <2>2. /\ PropertyOK(heap, uid, {}, a, l) /\ heap[a][l] \in Property /\ l \in Keys
          /\ heap[a] # None /\ heap[a][l] # None /\ a \in Objects
      BY <1>1, <2>1, LiveFacts DEF Good
    <2>3. Trimmed(heap[a][l], heap, a, l, None)
      BY DEF Trimmed
    <2>4. ASSUME NEW i \in DOMAIN heap[a][l].values, heap[a][l].values[i] \in R
          PROVE  FALSE
      <3>. DEFINE n == heap[a][l].values[i]
      <3>1. i \in Nat
        BY <2>2, PropertyFacts
      <3>2. Holds(heap, a, l, i, n)
        BY <2>2 DEF Holds
      <3>3. n \in Objects /\ \E j \in Nat : Holds(heap, o, k, j, n)
        BY <1>3, <2>4
      <3>. HIDE DEF n
      <3>4. a = o /\ l = k
        BY <1>1, <1>2, <2>2, <3>1, <3>2, <3>3 DEF Good, HeldOnce
      <3>. QED
        BY <2>1, <3>4
    <2>. QED
      BY <2>1, <2>2, <2>3, <2>4 DEF PropertyOK
  <1>8. ASSUME NEW q \in Objects \X Keys, Present(heap, q)
        PROVE  q \in P \/ Present(h, q)
    <2>1. q[1] \in Objects /\ q[2] \in Keys /\ q = <<q[1], q[2]>>
      OBVIOUS
    <2>. QED
      BY <1>4, <1>8, <2>1 DEF Present
  <1>9. Drops(h, heap, R, P, None)
    <2>1. R \subseteq Live(heap) /\ P \subseteq Objects \X Keys
      BY <1>2, <1>3
    <2>. HIDE DEF P
    <2>. QED
      BY <1>4, <1>5, <1>7, <1>8, <2>1 DEF Drops
  <1>10. End(h, UNION {Tree(heap, r) : r \in R}, P)
    BY DEF RemoveProperty, InTrees, h, R
  <1>. QED
    BY <1>9, <1>10, EndOK

\* A property is changed so that it does not hold the objects R any more.
LEMMA ReplacedDrops ==
    ASSUME NEW old, NEW u, NEW X, Good(old, u, X), NEW o \in Live(old), NEW k \in KeysOf(old[o]),
           NEW c \in Property, NEW at, Trimmed(c, old, o, k, at),
           c.kept <= Len(c.subjects), Observed(c, <<o, k>>), c.type # "object" => c.values = <<>>,
           NEW R, \A n \in R : n # None /\ \E j \in DOMAIN old[o][k].values : old[o][k].values[j] = n,
           \A i \in DOMAIN c.values : c.values[i] \notin R
    PROVE  Drops(Replaced(old, o, k, c), old, R, {}, at)
  <1>. DEFINE p == old[o][k]
              h == Replaced(old, o, k, c)
  <1>1. /\ old \in Heap /\ o \in Objects /\ k \in Keys /\ old[o] \in PropertyMap /\ old[o] # None
        /\ p \in Property /\ p # None /\ PropertyOK(old, u, X, o, k) /\ c # None
    BY LiveFacts, PropertyFacts DEF Good
  <1>2. Differs(h, old, o, k, c)
    BY <1>1, ReplacedShape
  <1>. HIDE DEF h
  <1>3. \A n \in R : n \in Live(old) /\ n \in Objects /\ \E j \in Nat : Holds(old, o, k, j, n)
    <2>. SUFFICES ASSUME NEW n \in R
                  PROVE  n \in Live(old) /\ n \in Objects /\ \E j \in Nat : Holds(old, o, k, j, n)
      OBVIOUS
    <2>1. PICK j \in DOMAIN p.values : p.values[j] = n /\ n # None
      OBVIOUS
    <2>2. j \in Nat /\ n \in Objects
      BY <1>1, <2>1, PropertyFacts
    <2>3. Holds(old, o, k, j, n)
      BY <1>1, <2>1 DEF Holds
    <2>4. old[n] # None
      BY <1>1, <2>1 DEF PropertyOK
    <2>. QED
      BY <2>2, <2>3, <2>4 DEF Live
  <1>4. ASSUME NEW a \in Live(h), NEW l \in KeysOf(h[a])
        PROVE  LET d == h[a][l]
               IN  /\ l \in KeysOf(old[a]) /\ Trimmed(d, old, a, l, at)
                   /\ d.kept <= Len(d.subjects) /\ Observed(d, <<a, l>>)
                   /\ d.type # "object" => d.values = <<>>
                   /\ <<a, l>> \notin {} /\ \A i \in DOMAIN d.values : d.values[i] \notin R
    <2>1. a \in Objects /\ l \in Keys /\ a \in Live(old)
      BY <1>2 DEF Differs, Live, KeysOf
    <2>2. l \in KeysOf(old[a])
      BY <1>2, <2>1 DEF Differs
    <2>3. CASE a = o /\ l = k
      <3>1. h[a][l] = c
        BY <1>2, <2>1, <2>3 DEF Differs
      <3>. QED
        BY <2>2, <2>3, <3>1
    <2>4. CASE ~ (a = o /\ l = k)
      <3>1. h[a][l] = old[a][l]
        BY <1>2, <2>1, <2>4 DEF Differs
      <3>2. /\ PropertyOK(old, u, X, a, l) /\ old[a][l] \in Property
            /\ old[a] # None /\ old[a][l] # None
        BY <1>1, <2>1, <2>2, LiveFacts DEF Good
      <3>3. Trimmed(old[a][l], old, a, l, at)
        BY DEF Trimmed
      <3>4. ASSUME NEW i \in DOMAIN old[a][l].values, old[a][l].values[i] \in R
            PROVE  FALSE
        <4>. DEFINE n == old[a][l].values[i]
        <4>1. i \in Nat
          BY <3>2, PropertyFacts
        <4>2. Holds(old, a, l, i, n)
          BY <3>2 DEF Holds
        <4>3. n \in Objects /\ \E j \in Nat : Holds(old, o, k, j, n)
          BY <1>3, <3>4
        <4>. HIDE DEF n
        <4>4. a = o /\ l = k
          BY <1>1, <2>1, <4>1, <4>2, <4>3 DEF Good, HeldOnce
        <4>. QED
          BY <2>4, <4>4
      <3>. QED
        BY <2>2, <3>1, <3>2, <3>3, <3>4 DEF PropertyOK
    <2>. QED
      BY <2>3, <2>4
  <1>5. ASSUME NEW q \in Objects \X Keys, Present(old, q)
        PROVE  q \in {} \/ Present(h, q)
    <2>1. q[1] \in Objects /\ q[2] \in Keys
      OBVIOUS
    <2>2. q[1] \in Live(h)
      BY <1>2, <1>5, <2>1 DEF Differs, Present, Live
    <2>3. h[q[1]] # None
      BY <2>2 DEF Live
    <2>4. h[q[1]][q[2]] # None
      BY <1>1, <1>2, <1>5, <2>1 DEF Differs, Present
    <2>. QED
      BY <2>3, <2>4 DEF Present
  <1>6. R \subseteq Live(old) /\ {} \subseteq Objects \X Keys /\ h \in Heap /\ Live(h) = Live(old)
    BY <1>2, <1>3 DEF Differs
  <1>7. Drops(h, old, R, {}, at)
    BY <1>4, <1>5, <1>6 DEF Drops
  <1>. QED
    BY <1>7 DEF h

ResizedOK(r, T, seq, n, filler) ==
    /\ r \in Seq(T) /\ Len(r) = n /\ DOMAIN r = 1..n
    /\ \A i \in 1..n : r[i] = IF i \in DOMAIN seq THEN seq[i] ELSE filler

LEMMA ResizedFacts ==
    ASSUME NEW T, NEW seq \in Seq(T), NEW n \in Nat, NEW filler \in T
    PROVE  ResizedOK(Resized(seq, n, filler), T, seq, n, filler)
  <1>. DEFINE r == Resized(seq, n, filler)
  <1>1. Len(seq) \in Nat /\ DOMAIN seq = 1..Len(seq) /\ \A i \in DOMAIN seq : seq[i] \in T
    BY LenProperties, ElementOfSeq
  <1>2. r = [i \in 1..n |-> IF i \in DOMAIN seq THEN seq[i] ELSE filler]
    BY <1>1 DEF Resized
  <1>3. r \in [1..n -> T] /\ \A i \in 1..n : r[i] = IF i \in DOMAIN seq THEN seq[i] ELSE filler
    BY <1>1, <1>2
  <1>. HIDE DEF r
  <1>4. r \in Seq(T) /\ DOMAIN r = 1..n
    BY <1>3, SeqDef
  <1>. QED
    BY <1>3, <1>4, LenProperties DEF r, ResizedOK

LEMMA CapaciousFacts ==
    ASSUME NEW p \in Property, NEW n \in Indices, NEW place, Observed(p, place),
           p.kept <= Len(p.subjects), p.type # "object" => p.values = <<>>,
           NEW c, c = Capacious(p, n)
    PROVE  /\ c \in Property /\ c.type = p.type /\ c.uid = p.uid /\ c.origin = p.origin
           /\ p.kept = 0 => c.kept = 0
           /\ c.kept <= Len(c.subjects) /\ Observed(c, place)
           /\ c.type # "object" => c.values = <<>>
           /\ \A i \in DOMAIN c.values : i \in Nat /\ i <= n
           /\ \A i \in DOMAIN c.values : c.values[i] # None =>
                 i \in DOMAIN p.values /\ c.values[i] = p.values[i]
  <1>1. /\ n \in Nat /\ p.kept \in Nat /\ p.kept <= MaxCapacity /\ n <= MaxCapacity
        /\ MaxCapacity \in Nat
    BY BoundsAssumption DEF Property, Indices
  <1>. DEFINE subjects == Resized(p.subjects, n, <<>>)
              values == IF p.type = "object" THEN Resized(p.values, n, None) ELSE p.values
              kept == IF n < p.kept THEN n ELSE p.kept
  <1>2. /\ c.type = p.type /\ c.uid = p.uid /\ c.origin = p.origin /\ c.name = p.name
        /\ c.replicate = p.replicate /\ c.writable = p.writable
        /\ c.capacity = n /\ c.subjects = subjects /\ c.values = values /\ c.kept = kept
    BY DEF Capacious, Property
  <1>3. c = [type |-> p.type, uid |-> p.uid, name |-> p.name, capacity |-> n,
             replicate |-> p.replicate, writable |-> p.writable, subjects |-> subjects,
             values |-> values, origin |-> p.origin, kept |-> kept]
    BY DEF Capacious, Property
  <1>4. /\ subjects \in Seq(Seq(Places)) /\ Len(subjects) = n /\ DOMAIN subjects = 1..n
        /\ \A i \in 1..n : subjects[i] = IF i \in DOMAIN p.subjects THEN p.subjects[i] ELSE <<>>
    <2>. DEFINE T == Seq(Places)
                empty == <<>>
    <2>1. p.subjects \in Seq(T) /\ empty \in T
      BY PropertyFacts
    <2>. HIDE DEF T, empty
    <2>2. ResizedOK(Resized(p.subjects, n, empty), T, p.subjects, n, empty)
      BY <1>1, <2>1, ResizedFacts
    <2>. QED
      BY <2>2 DEF T, empty, ResizedOK
  <1>5. /\ values \in Seq(Objects \cup {None})
        /\ \A i \in DOMAIN values : i \in Nat /\ i <= n
        /\ \A i \in DOMAIN values : values[i] # None => i \in DOMAIN p.values /\ values[i] = p.values[i]
        /\ p.type # "object" => values = <<>>
    <2>1. CASE p.type # "object"
      <3>1. values = <<>>
        BY <2>1
      <3>. HIDE DEF values
      <3>2. values \in Seq(Objects \cup {None}) /\ DOMAIN values = {}
        BY <3>1
      <3>. QED
        BY <3>1, <3>2
    <2>2. CASE p.type = "object"
      <3>. DEFINE T == Objects \cup {None}
      <3>1. p.values \in Seq(T) /\ None \in T
        BY PropertyFacts
      <3>. HIDE DEF T
      <3>2. ResizedOK(Resized(p.values, n, None), T, p.values, n, None)
        BY <1>1, <3>1, ResizedFacts
      <3>3. values = Resized(p.values, n, None)
        BY <2>2
      <3>. HIDE DEF values
      <3>4. values \in Seq(T) /\ DOMAIN values = 1..n
        BY <3>2, <3>3 DEF ResizedOK
      <3>5. \A i \in 1..n : values[i] = IF i \in DOMAIN p.values THEN p.values[i] ELSE None
        BY <3>2, <3>3 DEF ResizedOK
      <3>6. \A i \in DOMAIN values : i \in Nat /\ i <= n
        BY <1>1, <3>4
      <3>. QED
        BY <2>2, <3>4, <3>5, <3>6 DEF T
    <2>. QED
      BY <2>1, <2>2
  <1>6. kept \in 0..MaxCapacity /\ kept \in Nat /\ kept <= n /\ kept <= p.kept
        /\ \A i \in 1..n : i <= kept <=> i <= p.kept
    BY <1>1
  <1>. HIDE DEF subjects, values, kept
  <1>7. c \in Property
    BY <1>3, <1>4, <1>5, <1>6 DEF Property
  <1>8. Observed(c, place)
    <2>1. ASSUME NEW i \in 1..n
          PROVE  LET subject == subjects[i]
                 IN  /\ \A j \in DOMAIN subject : subject[j] \in p.origin \cup {place, Destroyed}
                     /\ \A j, l \in DOMAIN subject :
                           subject[j] = subject[l] /\ subject[j] # Destroyed => j = l
                     /\ (\E j \in DOMAIN subject : subject[j] = place) <=> i <= kept
      <3>1. CASE i \in DOMAIN p.subjects
        <4>1. subjects[i] = p.subjects[i]
          BY <1>4, <3>1
        <4>. QED
          BY <1>6, <3>1, <4>1 DEF Observed
      <3>2. CASE i \notin DOMAIN p.subjects
        <4>1. subjects[i] = <<>> /\ DOMAIN subjects[i] = {}
          BY <1>4, <3>2
        <4>2. ~ i <= kept
          BY <1>1, <1>6, <3>2, PropertyFacts
        <4>. QED
          BY <4>1, <4>2
      <3>. QED
        BY <3>1, <3>2
    <2>. QED
      BY <1>2, <1>4, <2>1 DEF Observed
  <1>9. c.kept <= Len(c.subjects) /\ (p.kept = 0 => c.kept = 0)
    BY <1>1, <1>2, <1>4, <1>6
  <1>. QED
    BY <1>2, <1>5, <1>7, <1>8, <1>9

LEMMA SetCapacityOK ==
    ASSUME IInv, NEW o \in Live(heap), NEW k \in KeysOf(heap[o]), NEW n \in Indices,
           SetCapacity(o, k, n)
    PROVE  IInv'
  <1>. DEFINE p == heap[o][k]
              c == Capacious(p, n)
              R == {p.values[i] : i \in {j \in DOMAIN p.values : j > n}} \ {None}
              h == Replaced(heap, o, k, c)
  <1>1. Good(heap, uid, {}) /\ heap \in Heap
    BY DEF IInv, Sound, Good
  <1>2. /\ o \in Objects /\ k \in Keys /\ heap[o] \in PropertyMap /\ heap[o] # None
        /\ p \in Property /\ p # None /\ PropertyOK(heap, uid, {}, o, k) /\ n \in Nat
    BY <1>1, LiveFacts, BoundsAssumption DEF Good, Indices
  <1>3. /\ c \in Property /\ c.type = p.type /\ c.uid = p.uid /\ c.origin = p.origin
        /\ p.kept = 0 => c.kept = 0
        /\ c.kept <= Len(c.subjects) /\ Observed(c, <<o, k>>)
        /\ c.type # "object" => c.values = <<>>
        /\ \A i \in DOMAIN c.values : i \in Nat /\ i <= n
        /\ \A i \in DOMAIN c.values : c.values[i] # None =>
              i \in DOMAIN p.values /\ c.values[i] = p.values[i]
    <2>. HIDE DEF p, c
    <2>1. /\ Observed(p, <<o, k>>) /\ p.kept <= Len(p.subjects)
          /\ p.type # "object" => p.values = <<>>
      BY <1>2 DEF PropertyOK, p
    <2>2. c = Capacious(p, n)
      BY DEF c
    <2>. QED
      BY <1>2, <2>1, <2>2, CapaciousFacts
  <1>4. \A x \in R : x # None /\ \E j \in DOMAIN p.values : p.values[j] = x /\ j > n
    OBVIOUS
  <1>5. h = [heap EXCEPT ![o][k] = c]
    BY DEF Replaced
  <1>6. End(h, UNION {Tree(heap, r) : r \in R}, {})
    BY <1>5 DEF SetCapacity, InTrees
  <1>. HIDE DEF R, c
  <1>7. ASSUME NEW i \in DOMAIN c.values, c.values[i] \in R
        PROVE  FALSE
    <2>. DEFINE x == c.values[i]
    <2>1. PICK j \in DOMAIN p.values : p.values[j] = x /\ j > n /\ x # None
      BY <1>4, <1>7
    <2>2. i \in DOMAIN p.values /\ p.values[i] = x /\ i <= n /\ i \in Nat
      BY <1>3, <2>1
    <2>3. j \in Nat /\ x \in Objects
      BY <1>2, <2>1, PropertyFacts
    <2>. HIDE DEF x
    <2>4. Holds(heap, o, k, i, x) /\ Holds(heap, o, k, j, x)
      BY <1>2, <2>1, <2>2 DEF Holds
    <2>5. i = j
      BY <1>1, <1>2, <2>2, <2>3, <2>4 DEF Good, HeldOnce
    <2>. QED
      BY <1>2, <2>1, <2>2, <2>3, <2>5
  <1>8. Trimmed(c, heap, o, k, None)
    BY <1>3 DEF Trimmed
  <1>9. Drops(h, heap, R, {}, None)
    <2>1. \A x \in R : x # None /\ \E j \in DOMAIN heap[o][k].values : heap[o][k].values[j] = x
      BY <1>4
    <2>. HIDE DEF p
    <2>. QED
      BY <1>1, <1>3, <1>7, <1>8, <2>1, ReplacedDrops
  <1>. HIDE DEF h
  <1>. QED
    BY <1>6, <1>9, EndOK

\* What is in an object is no other once new objects are made.
LEMMA TreeSame ==
    ASSUME NEW s, NEW t, NEW u, NEW v, NEW X, Good(s.heap, u, X), Good(t.heap, v, X),
           GoesOn(s, t), NEW x \in Live(s.heap)
    PROVE  Tree(t.heap, x) = Tree(s.heap, x)
  <1>1. \A y \in Live(s.heap) : y \in Live(t.heap) /\ Inner(t.heap, y) = Inner(s.heap, y)
    BY DEF GoesOn, Live, Inner, KeysOf
  <1>2. /\ x \in Tree(s.heap, x) /\ Tree(s.heap, x) \subseteq Live(s.heap)
        /\ \A y \in Tree(s.heap, x) : Inner(s.heap, y) \subseteq Tree(s.heap, x)
    BY TreeFacts
  <1>3. Tree(t.heap, x) \subseteq Tree(s.heap, x)
    <2>1. \A y \in Tree(s.heap, x) : Inner(t.heap, y) \subseteq Tree(s.heap, x)
      BY <1>1, <1>2
    <2>. QED
      BY <1>2, <2>1, TreeWithin
  <1>4. /\ x \in Tree(t.heap, x)
        /\ \A y \in Tree(t.heap, x) : Inner(t.heap, y) \subseteq Tree(t.heap, x)
    BY <1>1, TreeFacts
  <1>5. Tree(s.heap, x) \subseteq Tree(t.heap, x)
    <2>1. \A y \in Tree(t.heap, x) : Inner(s.heap, y) \subseteq Tree(t.heap, x)
      BY <1>1, <1>2, <1>3, <1>4
    <2>. QED
      BY <1>4, <2>1, TreeWithin
  <1>. QED
    BY <1>3, <1>5

LEMMA NowValid ==
    ASSUME IInv
    PROVE  /\ Valid(Now, {}) /\ Now \in State /\ Now.ok /\ Now.heap = heap /\ Now.ids = ids
           /\ Now.uid = uid
  <1>1. /\ Now.ok /\ Now.heap = heap /\ Now.ids = ids /\ Now.uid = uid
    BY DEF Now
  <1>2. Good(heap, uid, {}) /\ IdsOK(heap, ids, uid) /\ heap \in Heap /\ uid \in Nat
        /\ ids \in [Objects -> Nat]
    BY DEF IInv, Sound, Good, IdsOK
  <1>3. Now \in State
    BY <1>2 DEF Now, State
  <1>. QED
    BY <1>1, <1>2, <1>3 DEF Valid

LEMMA IdsLater ==
    ASSUME NEW h, NEW numbers, NEW u \in Nat, NEW v \in Nat, u <= v, IdsOK(h, numbers, u)
    PROVE  IdsOK(h, numbers, v)
  BY DEF IdsOK

\* All there was is there as it was.
LEMMA GoesOnHandlers ==
    ASSUME IInv, NEW s, GoesOn(Now, s), s.heap \in Heap
    PROVE  \A q \in Objects \X Keys : Present(heap, q) =>
              Present(s.heap, q) /\ At(s.heap, q) = At(heap, q) /\ q[1] \in Live(heap)
  <1>1. \A o \in Live(heap) : s.heap[o] = heap[o] /\ o \in Objects /\ o \in Live(s.heap)
    BY NowValid DEF GoesOn, Live
  <1>. QED
    BY <1>1 DEF Present, At, Live

LEMMA CloneStepOK ==
    ASSUME IInv, NEW o \in Live(heap), Clone(o)
    PROVE  IInv'
  <1>. DEFINE s == CloneObject(Now, o)
  <1>1. /\ Good(heap, uid, {}) /\ IdsOK(heap, ids, uid) /\ uid \in 0..MaxGenerated
        /\ HandlersOK(heap, handlers) /\ uid \in Nat /\ MaxGenerated \in Nat
    BY BoundsAssumption DEF IInv, Sound, Good
  <1>2. CloneOK(Now, o, {}, s)
    <2>1. Now \in State /\ Now.ok /\ Valid(Now, {}) /\ o \in Live(Now.heap) /\ o \in Objects
      BY NowValid DEF Live
    <2>. QED
      BY <2>1, CloneObjectOK
  <1>3. /\ s.uid <= MaxGenerated /\ uid' = s.uid /\ report' = None /\ handlers' = handlers
        /\ IF s.ok THEN heap' = s.heap /\ ids' = s.ids ELSE heap' = heap /\ ids' = ids
    BY DEF Clone, Fits
  <1>. HIDE DEF s
  <1>4. s.uid \in 0..MaxGenerated /\ s.uid \in Nat /\ uid <= s.uid
    BY <1>1, <1>2, <1>3, NowValid DEF CloneOK
  <1>5. CASE s.ok
    <2>1. Valid(s, {}) /\ GoesOn(Now, s)
      BY <1>2, <1>5 DEF CloneOK
    <2>2. Good(s.heap, s.uid, {}) /\ IdsOK(s.heap, s.ids, s.uid) /\ s.heap \in Heap
      BY <2>1 DEF Valid, Good
    <2>3. HandlersOK(s.heap, handlers)
      BY <1>1, <2>1, <2>2, GoesOnHandlers, HandlersStay
    <2>4. Sound(heap', ids', uid', handlers')
      BY <1>3, <1>4, <1>5, <2>2, <2>3 DEF Sound
    <2>. QED
      BY <1>3, <2>4, Unreported
  <1>6. CASE ~ s.ok
    <2>1. Good(heap, s.uid, {})
      BY <1>1, <1>4, GoodLater
    <2>2. IdsOK(heap, ids, s.uid)
      BY <1>1, <1>4, IdsLater
    <2>3. Sound(heap', ids', uid', handlers')
      BY <1>1, <1>3, <1>4, <1>6, <2>1, <2>2 DEF Sound
    <2>. QED
      BY <1>3, <2>3, Unreported
  <1>. QED
    BY <1>5, <1>6

\* The property with the object made at index i.
PutAt(p, i, made) == [p EXCEPT !.values[i] = made]

LEMMA PutAtFacts ==
    ASSUME NEW p \in Property, NEW i \in DOMAIN p.values, NEW made \in Objects \cup {None},
           p.type = "object", NEW c, c = PutAt(p, i, made)
    PROVE  /\ c \in Property /\ c.type = p.type /\ c.uid = p.uid /\ c.origin = p.origin
           /\ c.kept = p.kept /\ c.subjects = p.subjects
           /\ c.type # "object" => c.values = <<>>
           /\ DOMAIN c.values = DOMAIN p.values
           /\ \A j \in DOMAIN c.values : c.values[j] = IF j = i THEN made ELSE p.values[j]
  <1>. DEFINE values == [p.values EXCEPT ![i] = made]
  <1>1. /\ p.values \in Seq(Objects \cup {None}) /\ made \in Objects \cup {None}
    BY PropertyFacts
  <1>2. /\ values \in Seq(Objects \cup {None}) /\ DOMAIN values = DOMAIN p.values
        /\ \A j \in DOMAIN values : values[j] = IF j = i THEN made ELSE p.values[j]
    <2>. DEFINE T == Objects \cup {None}
    <2>1. p.values \in Seq(T) /\ made \in T
      BY <1>1
    <2>. HIDE DEF T
    <2>2. values \in Seq(T)
      BY <2>1, ExceptSeq
    <2>3. DOMAIN values = DOMAIN p.values
          /\ \A j \in DOMAIN values : values[j] = IF j = i THEN made ELSE p.values[j]
      OBVIOUS
    <2>. QED
      BY <2>2, <2>3 DEF T
  <1>. HIDE DEF values
  <1>3. c = [p EXCEPT !.values = values]
    BY DEF PutAt, values, Property
  <1>4. /\ c.type = p.type /\ c.uid = p.uid /\ c.origin = p.origin
        /\ c.kept = p.kept /\ c.subjects = p.subjects /\ c.values = values
    BY <1>3 DEF Property
  <1>5. c \in Property
    BY <1>2, <1>3 DEF Property
  <1>. QED
    BY <1>2, <1>4, <1>5

\* The objects that end where a new object takes the place of one.
LEMMA GoneFacts ==
    ASSUME IInv, NEW o \in Live(heap), NEW k \in KeysOf(heap[o]), NEW i \in DOMAIN heap[o][k].values,
           NEW s, Valid(s, {}), GoesOn(Now, s), NEW R, R = {heap[o][k].values[i]} \ {None}
    PROVE  /\ R \subseteq Live(heap) /\ R \subseteq Live(s.heap)
           /\ InTrees(R) = UNION {Tree(s.heap, r) : r \in R}
           /\ InTrees(R) \subseteq Live(heap)
  <1>1. Good(heap, uid, {}) /\ heap \in Heap /\ Good(s.heap, s.uid, {}) /\ Now.heap = heap
    BY NowValid DEF IInv, Sound, Good, Valid
  <1>2. PropertyOK(heap, uid, {}, o, k) /\ heap[o][k] \in Property
    BY <1>1, LiveFacts DEF Good
  <1>3. \A r \in R : r # None /\ r = heap[o][k].values[i]
    OBVIOUS
  <1>4. \A r \in R : r \in Live(heap)
    <2>1. \A r \in R : r \in Objects
      BY <1>2, <1>3, PropertyFacts
    <2>2. \A r \in R : heap[r] # None
      BY <1>2, <1>3 DEF PropertyOK
    <2>. QED
      BY <2>1, <2>2 DEF Live
  <1>5. Live(heap) \subseteq Live(s.heap)
    BY <1>1 DEF GoesOn, Live
  <1>6. \A r \in R : Tree(heap, r) = Tree(s.heap, r)
    BY <1>1, <1>4, TreeSame
  <1>7. InTrees(R) = UNION {Tree(s.heap, r) : r \in R}
    BY <1>6, Zenon DEF InTrees
  <1>8. InTrees(R) \subseteq Live(heap)
    BY <1>1, <1>4, TreesFacts DEF InTrees
  <1>. QED
    BY <1>4, <1>5, <1>7, <1>8

LEMMA SetObjectOK ==
    ASSUME IInv, NEW o \in Live(heap), NEW k \in KeysOf(heap[o]), NEW i \in Indices,
           NEW source \in Live(heap), SetObject(o, k, i, source)
    PROVE  IInv'
  <1>. DEFINE s == CloneObject(Now, source)
              p == heap[o][k]
              R == {p.values[i]} \ {None}
              gone == InTrees(R)
              t == Freed([s EXCEPT !.heap[o][k].values[i] = s.made], gone)
  <1>1. /\ Good(heap, uid, {}) /\ IdsOK(heap, ids, uid) /\ uid \in 0..MaxGenerated
        /\ HandlersOK(heap, handlers) /\ uid \in Nat /\ MaxGenerated \in Nat /\ heap \in Heap
    BY BoundsAssumption DEF IInv, Sound, Good
  <1>2. CloneOK(Now, source, {}, s)
    <2>1. Now \in State /\ Now.ok /\ Valid(Now, {}) /\ source \in Live(Now.heap) /\ source \in Objects
      BY NowValid DEF Live
    <2>. QED
      BY <2>1, CloneObjectOK
  <1>3. /\ p.type = "object" /\ i \in DOMAIN p.values
        /\ s.uid <= MaxGenerated /\ uid' = s.uid /\ report' = None
        /\ IF s.ok THEN /\ heap' = t.heap /\ ids' = t.ids
                         /\ handlers' = Handling(PlacesOf(heap, gone))
                   ELSE heap' = heap /\ ids' = ids /\ handlers' = handlers
    BY DEF SetObject, Fits
  <1>. HIDE DEF s
  <1>4. s.uid \in 0..MaxGenerated /\ s.uid \in Nat /\ uid <= s.uid
    BY <1>1, <1>2, <1>3, NowValid DEF CloneOK
  <1>5. CASE s.ok
    <2>1. /\ Valid(s, {}) /\ GoesOn(Now, s) /\ s.made \in Live(s.heap) \ Live(Now.heap)
          /\ Fresh(s.heap, s.made)
      BY <1>2, <1>5 DEF CloneOK
    <2>2. /\ Good(s.heap, s.uid, {}) /\ IdsOK(s.heap, s.ids, s.uid) /\ s.heap \in Heap
          /\ s \in State /\ Now.heap = heap
      BY <2>1, NowValid DEF Valid, Good
    <2>. DEFINE c == PutAt(p, i, s.made)
                h == Replaced(s.heap, o, k, c)
                g == Purged(Without(h, gone), PlacesOf(s.heap, gone))
    <2>3. /\ o \in Objects /\ k \in Keys /\ p \in Property /\ heap[o] # None
          /\ PropertyOK(heap, uid, {}, o, k)
      BY <1>1, LiveFacts DEF Good
    <2>4. /\ s.heap[o] = heap[o] /\ o \in Live(s.heap) /\ k \in KeysOf(s.heap[o])
          /\ s.heap[o][k] = p
      BY <2>1, <2>2, <2>3 DEF GoesOn, Live
    <2>5. /\ c \in Property /\ c.type = p.type /\ c.uid = p.uid /\ c.origin = p.origin
          /\ c.kept = p.kept /\ c.subjects = p.subjects
          /\ c.type # "object" => c.values = <<>>
          /\ DOMAIN c.values = DOMAIN p.values
          /\ \A j \in DOMAIN c.values : c.values[j] = IF j = i THEN s.made ELSE p.values[j]
      <3>1. s.made \in Objects
        BY <2>1 DEF Live
      <3>2. c = PutAt(p, i, s.made)
        OBVIOUS
      <3>. HIDE DEF c
      <3>. QED
        BY <1>3, <2>3, <3>1, <3>2, PutAtFacts
    <2>6. [s EXCEPT !.heap[o][k].values[i] = s.made] = [s EXCEPT !.heap = h]
      BY <2>2, <2>4 DEF State, Replaced, PutAt
    <2>7. /\ R \subseteq Live(heap) /\ R \subseteq Live(s.heap)
          /\ gone = UNION {Tree(s.heap, r) : r \in R} /\ gone \subseteq Live(heap)
      <3>1. R = {heap[o][k].values[i]} \ {None}
        OBVIOUS
      <3>. HIDE DEF R
      <3>. QED
        BY <1>3, <2>1, <3>1, GoneFacts
    <2>. HIDE DEF c
    <2>8. Differs(h, s.heap, o, k, c)
      BY <2>2, <2>3, <2>4, <2>5, ReplacedShape
    <2>. HIDE DEF h, gone
    <2>9. PlacesOf(h, gone) = PlacesOf(s.heap, gone)
      <3>1. \A q \in gone \X Keys : At(h, q) # None <=> At(s.heap, q) # None
        <4>. SUFFICES ASSUME NEW q \in gone \X Keys
                      PROVE  At(h, q) # None <=> At(s.heap, q) # None
          OBVIOUS
        <4>1. q[1] \in Objects /\ q[2] \in Keys
          BY <2>7 DEF Live
        <4>2. CASE q[1] = o
          <5>1. h[o][q[2]] = IF q[2] = k THEN c ELSE s.heap[o][q[2]]
            BY <2>8, <4>1 DEF Differs
          <5>2. c # None /\ s.heap[o][k] # None
            BY <2>4, <2>5, PropertyFacts DEF KeysOf
          <5>. QED
            BY <4>2, <5>1, <5>2 DEF At
        <4>3. CASE q[1] # o
          BY <2>8, <4>1, <4>3 DEF Differs, At
        <4>. QED
          BY <4>2, <4>3
      <3>. QED
        BY <3>1, Zenon DEF PlacesOf
    <2>10. t.heap = g /\ t.ids = [a \in Objects |-> IF a \in gone THEN 0 ELSE s.ids[a]]
      <3>. DEFINE w == [s EXCEPT !.heap = h]
      <3>1. w.heap = h /\ w.ids = s.ids /\ t = Freed(w, gone)
        BY <2>2, <2>6 DEF State
      <3>2. w \in [heap : {h}, ids : {s.ids}, uid : Nat, ok : BOOLEAN, made : Objects \cup {None}]
        BY <2>2 DEF State
      <3>. HIDE DEF w, t
      <3>3. Freed(w, gone).heap = Purged(Without(h, gone), PlacesOf(h, gone))
        BY <3>1, <3>2 DEF Freed
      <3>4. Freed(w, gone).ids = [a \in Objects |-> IF a \in gone THEN 0 ELSE s.ids[a]]
        BY <3>1, <3>2 DEF Freed
      <3>. QED
        BY <2>9, <3>1, <3>3, <3>4
    <2>. HIDE DEF t
    <2>11. Drops(h, s.heap, R, {}, <<o, k, i>>)
      <3>. DEFINE at == <<o, k, i>>
      <3>1. Trimmed(c, s.heap, o, k, at)
        <4>1. s.heap[s.made] # None /\ Unheld(s.heap, s.made)
          BY <2>1, <2>2, FreshUnheld DEF Live
        <4>. QED
          BY <2>4, <2>5, <4>1 DEF Trimmed
      <3>2. PropertyOK(s.heap, s.uid, {}, o, k)
        BY <2>2, <2>4 DEF Good
      <3>3. c.kept <= Len(c.subjects) /\ Observed(c, <<o, k>>)
        <4>1. Observed(p, <<o, k>>) /\ p.kept <= Len(p.subjects)
          BY <2>3 DEF PropertyOK
        <4>2. Observed(c, <<o, k>>)
          BY <2>5, <4>1, SameObserved
        <4>. QED
          BY <2>5, <4>1, <4>2
      <3>4. \A n \in R : n # None /\ \E j \in DOMAIN s.heap[o][k].values : s.heap[o][k].values[j] = n
        BY <1>3, <2>4
      <3>5. ASSUME NEW j \in DOMAIN c.values, c.values[j] \in R
            PROVE  FALSE
        <4>1. p.values[i] = c.values[j] /\ p.values[i] \in Live(heap) /\ c.values[j] \in Objects
          BY <2>7, <3>5 DEF Live
        <4>2. CASE j = i
          BY <2>1, <2>2, <2>5, <4>1, <4>2
        <4>3. CASE j # i
          <5>. DEFINE n == p.values[i]
          <5>1. j \in Nat /\ i \in Nat /\ j \in DOMAIN p.values /\ p.values[j] = n /\ n \in Objects
            BY <1>3, <2>3, <2>5, <4>1, <4>3, PropertyFacts
          <5>2. p # None
            BY <2>3, PropertyFacts
          <5>. HIDE DEF n
          <5>3. Holds(heap, o, k, j, n) /\ Holds(heap, o, k, i, n)
            BY <1>3, <2>3, <5>1, <5>2 DEF Holds, n
          <5>. QED
            BY <1>1, <2>3, <4>3, <5>1, <5>3 DEF Good, HeldOnce
        <4>. QED
          BY <4>2, <4>3
      <3>. HIDE DEF at, R, p
      <3>6. Drops(Replaced(s.heap, o, k, c), s.heap, R, {}, at)
        BY <2>2, <2>4, <2>5, <3>1, <3>3, <3>4, <3>5, ReplacedDrops
      <3>. QED
        BY <3>6 DEF at, h
    <2>12. Good(g, s.uid, {})
      <3>1. Good(Purged(Without(h, gone), {} \cup PlacesOf(s.heap, gone)), s.uid, {})
        <4>. HIDE DEF R
        <4>. QED
          BY <2>2, <2>7, <2>11, DropsGood
      <3>2. {} \cup PlacesOf(s.heap, gone) = PlacesOf(s.heap, gone)
        OBVIOUS
      <3>. QED
        BY <3>1, <3>2
    <2>13. /\ \A a \in Live(g) : \A l \in Keys :
                 g[a][l] = IF h[a][l] = None THEN None ELSE Cut(h[a][l], PlacesOf(s.heap, gone))
           /\ \A a \in Objects : g[a] # None <=> h[a] # None /\ a \notin gone
      <3>1. h \in Heap
        BY <2>8 DEF Differs
      <3>. QED
        BY <3>1, PurgedShape
    <2>. HIDE DEF g
    <2>14. HandlersOK(g, handlers')
      <3>1. ASSUME NEW q \in Objects \X Keys, Present(heap, q), q \notin PlacesOf(heap, gone)
            PROVE  Present(g, q) /\ At(g, q).type = At(heap, q).type
        <4>. DEFINE a == q[1]
                    l == q[2]
        <4>1. a \in Objects /\ l \in Keys /\ q = <<a, l>>
          OBVIOUS
        <4>2. heap[a] # None /\ heap[a][l] # None /\ At(heap, q) = heap[a][l]
          BY <3>1 DEF Present, At
        <4>3. s.heap[a] # None /\ s.heap[a][l] = heap[a][l] /\ a \in Live(heap) /\ a \in Live(s.heap)
          BY <2>1, <2>2, <4>1, <4>2 DEF GoesOn, Live
        <4>. HIDE DEF a, l
        <4>4. a \notin gone
          BY <3>1, <4>1, <4>2 DEF PlacesOf
        <4>5. h[a] # None /\ a \in Live(h)
          BY <2>8, <4>1, <4>3 DEF Differs, Live
        <4>6. h[a][l] \in Property /\ h[a][l].type = heap[a][l].type /\ h[a][l] # None
          <5>1. h[a][l] = IF a = o /\ l = k THEN c ELSE s.heap[a][l]
            BY <2>8, <4>1 DEF Differs
          <5>2. heap[a][l] \in Property /\ l \in KeysOf(heap[a])
            BY <1>1, <4>1, <4>2, <4>3, LiveFacts DEF KeysOf
          <5>3. h[a][l] \in Property /\ h[a][l].type = heap[a][l].type
            BY <2>5, <4>3, <5>1, <5>2
          <5>. QED
            BY <5>3, PropertyFacts
        <4>7. a \in Live(g) /\ g[a] # None
          BY <2>13, <4>1, <4>4, <4>5 DEF Live
        <4>8. g[a][l] = Cut(h[a][l], PlacesOf(s.heap, gone))
          BY <2>13, <4>1, <4>6, <4>7
        <4>9. g[a][l].type = heap[a][l].type /\ g[a][l] # None
          BY <4>6, <4>8, CutFacts, PropertyFacts
        <4>. QED
          BY <4>1, <4>2, <4>7, <4>9 DEF Present, At, a, l
      <3>2. handlers' = [u \in 0..MaxUid |-> Forget(handlers[u], PlacesOf(heap, gone))]
        BY <1>3, <1>5 DEF Handling
      <3>. QED
        BY <1>1, <3>1, <3>2, HandlersKept
    <2>15. IdsOK(g, t.ids, s.uid)
      <3>1. \A a \in Objects : /\ s.ids[a] \in Nat /\ (s.ids[a] <= s.uid \/ s.ids[a] <= MaxUid)
                               /\ s.heap[a] = None => s.ids[a] = 0
        BY <2>2 DEF IdsOK
      <3>2. \A a \in Objects : g[a] = None => s.heap[a] = None \/ a \in gone
        BY <2>8, <2>13 DEF Differs, Live
      <3>3. \A a \in Objects : t.ids[a] = IF a \in gone THEN 0 ELSE s.ids[a]
        BY <2>10
      <3>4. t.ids \in [Objects -> Nat]
        BY <2>10, <3>1
      <3>5. \A a \in Objects : /\ t.ids[a] <= s.uid \/ t.ids[a] <= MaxUid
                               /\ g[a] = None => t.ids[a] = 0
        BY <1>4, <3>1, <3>2, <3>3
      <3>. QED
        BY <3>4, <3>5 DEF IdsOK
    <2>16. Sound(heap', ids', uid', handlers')
      BY <1>3, <1>4, <1>5, <2>10, <2>12, <2>14, <2>15 DEF Sound
    <2>. QED
      BY <1>3, <2>16, Unreported
  <1>6. CASE ~ s.ok
    <2>1. Good(heap, s.uid, {})
      BY <1>1, <1>4, GoodLater
    <2>2. IdsOK(heap, ids, s.uid)
      BY <1>1, <1>4, IdsLater
    <2>. HIDE DEF t
    <2>3. Sound(heap', ids', uid', handlers')
      BY <1>1, <1>3, <1>4, <1>6, <2>1, <2>2 DEF Sound
    <2>. QED
      BY <1>3, <2>3, Unreported
  <1>. QED
    BY <1>5, <1>6

-----------------------------------------------------------------------------

LEMMA ClearObjectOK ==
    ASSUME IInv, NEW o \in Live(heap), NEW k \in KeysOf(heap[o]), NEW i \in Indices,
           ClearObject(o, k, i)
    PROVE  IInv'
  <1>. DEFINE p == heap[o][k]
              c == PutAt(p, i, None)
              R == {p.values[i]} \ {None}
              h == Replaced(heap, o, k, c)
  <1>1. Good(heap, uid, {}) /\ heap \in Heap
    BY DEF IInv, Sound, Good
  <1>2. /\ o \in Objects /\ k \in Keys /\ heap[o] # None /\ p \in Property /\ p # None
        /\ PropertyOK(heap, uid, {}, o, k)
    BY <1>1, LiveFacts DEF Good
  <1>3. /\ p.type = "object" /\ i \in DOMAIN p.values
        /\ End(h, UNION {Tree(heap, r) : r \in R}, {})
    BY DEF ClearObject, InTrees, Replaced, PutAt
  <1>4. /\ c \in Property /\ c.type = p.type /\ c.uid = p.uid /\ c.origin = p.origin
        /\ c.kept = p.kept /\ c.subjects = p.subjects
        /\ c.type # "object" => c.values = <<>>
        /\ DOMAIN c.values = DOMAIN p.values
        /\ \A j \in DOMAIN c.values : c.values[j] = IF j = i THEN None ELSE p.values[j]
    <2>1. c = PutAt(p, i, None)
      OBVIOUS
    <2>. HIDE DEF p, c
    <2>. QED
      BY <1>2, <1>3, <2>1, PutAtFacts
  <1>5. \A x \in R : x # None /\ x = p.values[i]
    OBVIOUS
  <1>. HIDE DEF R, c
  <1>6. c.kept <= Len(c.subjects) /\ Observed(c, <<o, k>>)
    <2>1. p.kept <= Len(p.subjects) /\ Observed(p, <<o, k>>)
      BY <1>2 DEF PropertyOK
    <2>. HIDE DEF p
    <2>. QED
      BY <1>4, <2>1, SameObserved
  <1>7. ASSUME NEW j \in DOMAIN c.values, c.values[j] \in R
        PROVE  FALSE
    <2>1. j # i /\ j \in DOMAIN p.values /\ p.values[j] = p.values[i] /\ p.values[i] # None
      BY <1>4, <1>5, <1>7
    <2>2. i \in Nat /\ j \in Nat /\ p.values[i] \in Objects
      BY <1>2, <1>3, <2>1, PropertyFacts
    <2>. DEFINE x == p.values[i]
    <2>3. Holds(heap, o, k, i, x) /\ Holds(heap, o, k, j, x)
      BY <1>2, <1>3, <2>1 DEF Holds
    <2>4. x \in Objects
      BY <2>2
    <2>. HIDE DEF x, p
    <2>5. HeldOnce(heap)
      BY <1>1 DEF Good
    <2>. QED
      BY <1>2, <2>1, <2>2, <2>3, <2>4, <2>5 DEF HeldOnce
  <1>8. Trimmed(c, heap, o, k, None)
    BY <1>4 DEF Trimmed
  <1>9. Drops(h, heap, R, {}, None)
    <2>1. \A x \in R : x # None /\ \E j \in DOMAIN heap[o][k].values : heap[o][k].values[j] = x
      BY <1>3, <1>5
    <2>. HIDE DEF p
    <2>. QED
      BY <1>1, <1>4, <1>6, <1>7, <1>8, <2>1, ReplacedDrops
  <1>. HIDE DEF h
  <1>. QED
    BY <1>3, <1>9, EndOK

LEMMA InitOK ==
    ASSUME Init
    PROVE  IInv
  <1>1. /\ heap \in Heap /\ Live(heap) = {} /\ \A o \in Objects : heap[o] = None
    BY DEF Init, Heap, Live
  <1>2. uid = 0 /\ uid \in Nat /\ uid \in 0..MaxGenerated /\ report = None
    BY BoundsAssumption DEF Init
  <1>3. Good(heap, uid, {})
    <2>1. HeldOnce(heap)
      BY <1>1 DEF HeldOnce, Holds
    <2>. QED
      BY <1>1, <1>2, <2>1 DEF Good
  <1>4. IdsOK(heap, ids, uid)
    <2>1. ids = [o \in Objects |-> 0]
      BY DEF Init
    <2>. QED
      BY <1>2, <2>1 DEF IdsOK
  <1>5. HandlersOK(heap, handlers)
    <2>1. handlers = [u \in 0..MaxUid |-> <<>>]
      BY DEF Init
    <2>. QED
      BY <2>1 DEF HandlersOK
  <1>. QED
    BY <1>2, <1>3, <1>4, <1>5 DEF IInv, Sound

LEMMA OnPropertyOK ==
    ASSUME IInv, NEW o \in Live(heap), NEW k \in KeysOf(heap[o]), OnProperty(o, k)
    PROVE  IInv'
  <1>1. CASE RemoveProperty(o, k)
    BY <1>1, RemovePropertyOK
  <1>2. CASE \E n \in Indices : SetCapacity(o, k, n)
    BY <1>2, SetCapacityOK
  <1>3. CASE \E b \in Modes : SetReplicationMode(o, k, b)
    BY <1>3, SwitchOK, SwitchesAssumption
  <1>4. CASE \E b \in Writables : SetWriteable(o, k, b)
    BY <1>4, SwitchOK, SwitchesAssumption
  <1>5. CASE Register(o, k)
    BY <1>5, RegisterOK
  <1>6. CASE \E i \in Indices : SetValue(o, k, i)
    BY <1>6, SetValueOK
  <1>7. CASE \E i \in Indices, source \in Live(heap) : SetObject(o, k, i, source)
    BY <1>7, SetObjectOK
  <1>8. CASE \E i \in Indices : ClearObject(o, k, i)
    BY <1>8, ClearObjectOK
  <1>. QED
    BY <1>1, <1>2, <1>3, <1>4, <1>5, <1>6, <1>7, <1>8 DEF OnProperty

LEMMA NextOK ==
    ASSUME IInv, [Next]_vars
    PROVE  IInv'
  <1>1. CASE \E map \in Maps : Create(map)
    BY <1>1, CreateOK
  <1>2. CASE \E o \in Live(heap), new \in Added : AddProperty(o, new[1], new[2])
    BY <1>2, AddPropertyOK
  <1>3. CASE \E o \in Live(heap) : Clone(o)
    BY <1>3, CloneStepOK
  <1>4. CASE \E o \in Live(heap) : \E k \in KeysOf(heap[o]) : OnProperty(o, k)
    BY <1>4, OnPropertyOK
  <1>5. CASE \E o \in Outermost(heap) : Destroy(o)
    BY <1>5, DestroyOK
  <1>6. CASE UNCHANGED vars
    <2>1. heap' = heap /\ ids' = ids /\ uid' = uid /\ handlers' = handlers /\ report' = report
      BY <1>6 DEF vars
    <2>2. Sound(heap', ids', uid', handlers')
      BY <2>1 DEF IInv
    <2>3. CASE report = None
      BY <2>1, <2>2, <2>3 DEF IInv
    <2>4. CASE Reported
      <3>1. PICK o \in Live(heap) : \E k \in KeysOf(heap[o]), i \in Indices :
                LET p == heap[o][k]
                    subject == IF i \in DOMAIN p.subjects THEN p.subjects[i] ELSE <<>>
                IN  \E read \in UidsRead(subject) :
                       report = [of |-> <<o, k>>, index |-> i, calls |-> Calls(p, read)]
        BY <2>4 DEF Reported
      <3>2. PICK k \in KeysOf(heap[o]), i \in Indices :
                LET p == heap[o][k]
                    subject == IF i \in DOMAIN p.subjects THEN p.subjects[i] ELSE <<>>
                IN  \E read \in UidsRead(subject) :
                       report = [of |-> <<o, k>>, index |-> i, calls |-> Calls(p, read)]
        BY <3>1
      <3>. DEFINE p == heap[o][k]
                  subject == IF i \in DOMAIN p.subjects THEN p.subjects[i] ELSE <<>>
      <3>3. PICK read \in UidsRead(subject) :
                report = [of |-> <<o, k>>, index |-> i, calls |-> Calls(p, read)]
        BY <3>2
      <3>4. Reported'
        BY <2>1, <3>3, ReportedNow
      <3>. QED
        BY <2>2, <3>4 DEF IInv
    <2>. QED
      BY <2>3, <2>4 DEF IInv
  <1>. QED
    BY <1>1, <1>2, <1>3, <1>4, <1>5, <1>6 DEF Next

\* Whatever is created, cloned, set, resized or destroyed leaves a forest of objects, with
\* observers of properties and of those they descend from, and a report that is that of setValue.
THEOREM Invariance == Spec => []IInv
  <1>1. Init => IInv
    BY InitOK
  <1>2. IInv /\ [Next]_vars => IInv'
    BY NextOK
  <1>. QED
    BY <1>1, <1>2, PTL DEF Spec

-----------------------------------------------------------------------------
(***************************************************************************)
(* How often something occurs in a sequence, and in the concatenation of   *)
(* sequences.                                                              *)
(***************************************************************************)

Never(seq, x) == \A l \in DOMAIN seq : seq[l] # x
Once(seq, x) == \E m \in DOMAIN seq : \A l \in DOMAIN seq : seq[l] = x <=> l = m

LEMMA TimesFacts ==
    ASSUME NEW seq, NEW x
    PROVE  /\ Never(seq, x) => Times(seq, x) = 0
           /\ Once(seq, x) => Times(seq, x) = 1
  <1>1. ASSUME Never(seq, x) PROVE Times(seq, x) = 0
    <2>1. {j \in DOMAIN seq : seq[j] = x} = {}
      BY <1>1 DEF Never
    <2>. QED
      BY <2>1, FS_EmptySet DEF Times
  <1>2. ASSUME Once(seq, x) PROVE Times(seq, x) = 1
    <2>1. PICK m \in DOMAIN seq : \A l \in DOMAIN seq : seq[l] = x <=> l = m
      BY <1>2 DEF Once
    <2>2. {j \in DOMAIN seq : seq[j] = x} = {m}
      BY <2>1
    <2>. QED
      BY <2>2, FS_Singleton DEF Times
  <1>. QED
    BY <1>1, <1>2

\* What is in c is in s or in t.
FromEither(c, s, t) ==
    \A l \in DOMAIN c : (\E i \in DOMAIN s : c[l] = s[i]) \/ (\E i \in DOMAIN t : c[l] = t[i])

LEMMA ConcatMembers ==
    ASSUME NEW T, NEW s \in Seq(T), NEW t \in Seq(T)
    PROVE  s \o t \in Seq(T) /\ FromEither(s \o t, s, t)
  <1>. DEFINE c == s \o t
              a == Len(s)
              b == Len(t)
  <1>1. a \in Nat /\ b \in Nat /\ DOMAIN s = 1..a /\ DOMAIN t = 1..b
    BY LenProperties
  <1>2. /\ c \in Seq(T) /\ DOMAIN c = 1..(a + b)
        /\ \A l \in 1..(a + b) : c[l] = IF l <= a THEN s[l] ELSE t[l - a]
    BY <1>1, ConcatProperties, LenProperties
  <1>. HIDE DEF c, a, b
  <1>3. \A l \in DOMAIN c : \/ l \in DOMAIN s /\ c[l] = s[l]
                            \/ l > a /\ l - a \in DOMAIN t /\ c[l] = t[l - a]
    BY <1>1, <1>2
  <1>. QED
    BY <1>2, <1>3 DEF c, FromEither

LEMMA ConcatOnce ==
    ASSUME NEW T, NEW s \in Seq(T), NEW t \in Seq(T), NEW x
    PROVE  /\ Never(s, x) /\ Never(t, x) => Never(s \o t, x)
           /\ Never(s, x) /\ Once(t, x) => Once(s \o t, x)
           /\ Once(s, x) /\ Never(t, x) => Once(s \o t, x)
  <1>. DEFINE c == s \o t
              a == Len(s)
              b == Len(t)
  <1>1. a \in Nat /\ b \in Nat /\ DOMAIN s = 1..a /\ DOMAIN t = 1..b
    BY LenProperties
  <1>2. /\ c \in Seq(T) /\ DOMAIN c = 1..(a + b)
        /\ \A l \in 1..(a + b) : c[l] = IF l <= a THEN s[l] ELSE t[l - a]
    BY <1>1, ConcatProperties, LenProperties
  <1>. HIDE DEF c, a, b
  <1>3. \A l \in DOMAIN c : \/ l \in DOMAIN s /\ c[l] = s[l]
                            \/ l > a /\ l - a \in DOMAIN t /\ c[l] = t[l - a]
    BY <1>1, <1>2
  <1>4. ASSUME Never(s, x), Never(t, x) PROVE Never(c, x)
    BY <1>3, <1>4 DEF Never
  <1>5. ASSUME Never(s, x), Once(t, x) PROVE Once(c, x)
    <2>1. PICK m \in DOMAIN t : \A l \in DOMAIN t : t[l] = x <=> l = m
      BY <1>5 DEF Once
    <2>2. m + a \in DOMAIN c
      BY <1>1, <1>2
    <2>3. ASSUME NEW l \in DOMAIN c PROVE c[l] = x <=> l = m + a
      <3>1. CASE l <= a
        <4>1. c[l] # x /\ l # m + a
          BY <1>1, <1>2, <1>5, <3>1 DEF Never
        <4>. QED
          BY <4>1
      <3>2. CASE ~ l <= a
        <4>1. l - a \in DOMAIN t /\ c[l] = t[l - a] /\ l \in Int /\ m \in Int
          BY <1>1, <1>2, <3>2
        <4>. QED
          BY <1>1, <2>1, <4>1
      <3>. QED
        BY <3>1, <3>2
    <2>. QED
      BY <2>2, <2>3 DEF Once
  <1>6. ASSUME Once(s, x), Never(t, x) PROVE Once(c, x)
    <2>1. PICK m \in DOMAIN s : \A l \in DOMAIN s : s[l] = x <=> l = m
      BY <1>6 DEF Once
    <2>2. m \in DOMAIN c
      BY <1>1, <1>2
    <2>3. ASSUME NEW l \in DOMAIN c PROVE c[l] = x <=> l = m
      <3>1. CASE l \in DOMAIN s
        <4>1. c[l] = s[l]
          BY <1>1, <1>2, <3>1
        <4>. QED
          BY <2>1, <3>1, <4>1
      <3>2. CASE l \notin DOMAIN s
        <4>1. c[l] # x
          BY <1>3, <1>6, <3>2 DEF Never
        <4>. QED
          BY <2>1, <3>2, <4>1
      <3>. QED
        BY <3>1, <3>2
    <2>. QED
      BY <2>2, <2>3 DEF Once
  <1>. QED
    BY <1>4, <1>5, <1>6 DEF c

\* f[n] is the concatenation of the first n of N sequences.
Concatenates(f, seqs, N) ==
    /\ f[1] = seqs[1]
    /\ \A n \in 2..N : f[n] = f[n - 1] \o seqs[n]

\* The function by which FlattenSeq is defined, which there is.
LEMMA FlattenRecursion ==
    ASSUME NEW seqs, NEW N \in Nat, N = Len(seqs), N # 0
    PROVE  \E f : FlattenSeq(seqs) = f[N] /\ Concatenates(f, seqs, N)
  <1>. DEFINE P(m) == \E f : f = [i \in 1..m |-> IF i = 1 THEN seqs[i] ELSE f[i-1] \o seqs[i]]
              S == {m \in 0..N : P(m)}
  <1>1. P(0)
    <2>. DEFINE f == [i \in 1..0 |-> {}]
    <2>1. f = [i \in 1..0 |-> IF i = 1 THEN seqs[i] ELSE f[i-1] \o seqs[i]]
      OBVIOUS
    <2>. QED
      BY <2>1
  <1>2. ASSUME NEW m \in 1..N, P(m - 1) PROVE P(m)
    <2>1. PICK f : f = [i \in 1..(m - 1) |-> IF i = 1 THEN seqs[i] ELSE f[i-1] \o seqs[i]]
      BY <1>2
    <2>. DEFINE g == [i \in 1..m |-> IF i = m THEN (IF i = 1 THEN seqs[i] ELSE f[i-1] \o seqs[i])
                                     ELSE f[i]]
    <2>2. ASSUME NEW i \in 1..m
          PROVE  g[i] = IF i = 1 THEN seqs[i] ELSE g[i-1] \o seqs[i]
      <3>1. CASE i = m
        <4>1. i # 1 => g[i - 1] = f[i - 1]
          BY <3>1
        <4>. QED
          BY <3>1, <4>1
      <3>2. CASE i # m
        <4>1. i \in 1..(m - 1) /\ g[i] = f[i]
          BY <3>2
        <4>2. i # 1 => i - 1 \in 1..(m - 1) /\ g[i - 1] = f[i - 1]
          BY <3>2
        <4>3. f[i] = IF i = 1 THEN seqs[i] ELSE f[i-1] \o seqs[i]
          BY <2>1, <4>1
        <4>. QED
          BY <4>1, <4>2, <4>3
      <3>. QED
        BY <3>1, <3>2
    <2>3. g = [i \in 1..m |-> IF i = 1 THEN seqs[i] ELSE g[i-1] \o seqs[i]]
      <3>. HIDE DEF g
      <3>1. DOMAIN g = 1..m /\ g = [i \in 1..m |-> g[i]]
        BY DEF g
      <3>. QED
        BY <2>2, <3>1
    <2>. QED
      BY <2>3
  <1>. HIDE DEF P
  <1>3. 0 \in S /\ \A m \in 1..N : m - 1 \in S => m \in S
    BY <1>1, <1>2
  <1>4. P(N)
    <2>1. 0..N \subseteq S
      BY <1>3, Induction
    <2>2. N \in S
      BY <2>1
    <2>. QED
      BY <2>2
  <1>. DEFINE F == CHOOSE f : f = [i \in 1..N |-> IF i = 1 THEN seqs[i] ELSE f[i-1] \o seqs[i]]
  <1>5. F = [i \in 1..N |-> IF i = 1 THEN seqs[i] ELSE F[i-1] \o seqs[i]]
    BY <1>4 DEF P
  <1>6. FlattenSeq(seqs) = F[N]
    BY DEF FlattenSeq
  <1>. HIDE DEF F
  <1>7. F[1] = seqs[1] /\ \A n \in 2..N : F[n] = F[n - 1] \o seqs[n]
    <2>1. \A i \in 1..N : F[i] = IF i = 1 THEN seqs[i] ELSE F[i-1] \o seqs[i]
      BY <1>5, Zenon
    <2>2. \A n \in 2..N : n \in 1..N /\ n # 1
      OBVIOUS
    <2>3. 1 \in 1..N
      OBVIOUS
    <2>. QED
      BY <2>1, <2>2, <2>3, Zenon
  <1>. QED
    BY <1>6, <1>7 DEF Concatenates

\* What is in the concatenation is in one of the sequences, and what is in one of them once,
\* and in no other, is in it once.
LEMMA FlattenFacts ==
    ASSUME NEW T, NEW N \in Nat, NEW seqs \in [1..N -> Seq(T)], NEW x, NEW j0 \in 1..N,
           Once(seqs[j0], x), \A j \in 1..N : j # j0 => Never(seqs[j], x)
    PROVE  Once(FlattenSeq(seqs), x)
  <1>1. N # 0 /\ Len(seqs) = N /\ seqs \in Seq(Seq(T)) /\ 1 \in 1..N
    BY SeqDef, LenProperties
  <1>2. PICK f : FlattenSeq(seqs) = f[N] /\ Concatenates(f, seqs, N)
    BY <1>1, FlattenRecursion
  <1>. DEFINE So(n) == /\ f[n] \in Seq(T)
                       /\ n < j0 => Never(f[n], x)
                       /\ j0 <= n => Once(f[n], x)
              S == {n \in 0..N : n = 0 \/ So(n)}
  <1>3. 0 \in S
    OBVIOUS
  <1>4. ASSUME NEW n \in 1..N, n - 1 \in S PROVE n \in S
    <2>1. CASE n = 1
      <3>1. f[n] = seqs[n] /\ seqs[n] \in Seq(T)
        BY <1>2, <2>1 DEF Concatenates
      <3>2. n < j0 => Never(seqs[n], x)
        BY <2>1
      <3>3. j0 <= n => j0 = n
        BY <2>1
      <3>. QED
        BY <3>1, <3>2, <3>3
    <2>2. CASE n # 1
      <3>0. n \in 2..N /\ n - 1 # 0 /\ n \in 0..N /\ seqs[n] \in Seq(T)
        BY <2>2
      <3>1. f[n] = f[n - 1] \o seqs[n]
        BY <1>2, <3>0 DEF Concatenates
      <3>2. /\ f[n - 1] \in Seq(T) /\ (n - 1 < j0 => Never(f[n - 1], x))
            /\ (j0 <= n - 1 => Once(f[n - 1], x))
        <4>. HIDE DEF So
        <4>1. So(n - 1)
          BY <1>4, <3>0
        <4>. QED
          BY <4>1, Zenon DEF So
      <3>3. /\ f[n] \in Seq(T)
            /\ Never(f[n - 1], x) /\ Never(seqs[n], x) => Never(f[n], x)
            /\ Never(f[n - 1], x) /\ Once(seqs[n], x) => Once(f[n], x)
            /\ Once(f[n - 1], x) /\ Never(seqs[n], x) => Once(f[n], x)
        BY <3>0, <3>1, <3>2, ConcatOnce, ConcatMembers
      <3>4. n < j0 => Never(f[n], x)
        BY <3>2, <3>3
      <3>5. j0 <= n => Once(f[n], x)
        <4>1. CASE j0 = n
          BY <3>2, <3>3, <4>1
        <4>2. CASE j0 # n
          BY <3>2, <3>3, <4>2
        <4>. QED
          BY <4>1, <4>2
      <3>6. So(n)
        BY <3>3, <3>4, <3>5
      <3>. HIDE DEF So
      <3>. QED
        BY <3>0, <3>6
    <2>. QED
      BY <2>1, <2>2
  <1>. HIDE DEF S
  <1>5. 0..N \subseteq S
    BY <1>3, <1>4, Induction
  <1>6. N \in S
    BY <1>5
  <1>7. Once(f[N], x)
    <2>. HIDE DEF So
    <2>1. So(N)
      BY <1>1, <1>6 DEF S
    <2>2. j0 <= N
      OBVIOUS
    <2>. QED
      BY <2>1, <2>2, Zenon DEF So
  <1>. QED
    BY <1>2, <1>7

\* What is in c is in one of the sequences.
FromOne(c, seqs, N) ==
    \A l \in DOMAIN c : \E j \in 1..N : \E i \in DOMAIN seqs[j] : c[l] = seqs[j][i]

LEMMA FlattenMembers ==
    ASSUME NEW T, NEW N \in Nat, NEW seqs \in [1..N -> Seq(T)]
    PROVE  FromOne(FlattenSeq(seqs), seqs, N)
  <1>1. Len(seqs) = N /\ DOMAIN seqs = 1..N
    BY SeqDef, LenProperties
  <1>2. CASE N = 0
    BY <1>1, <1>2 DEF FlattenSeq, FromOne
  <1>3. CASE N # 0
    <2>1. PICK f : FlattenSeq(seqs) = f[N] /\ Concatenates(f, seqs, N)
      BY <1>1, <1>3, FlattenRecursion
    <2>. DEFINE From(n) == \A l \in DOMAIN f[n] :
                             \E j \in 1..N : \E i \in DOMAIN seqs[j] : f[n][l] = seqs[j][i]
                S == {n \in 0..N : n # 0 => f[n] \in Seq(T) /\ From(n)}
    <2>2. 0 \in S
      OBVIOUS
    <2>3. ASSUME NEW n \in 1..N, n - 1 \in S PROVE n \in S
      <3>1. CASE n = 1
        <4>1. f[n] = seqs[n] /\ seqs[n] \in Seq(T)
          BY <2>1, <3>1 DEF Concatenates
        <4>. QED
          BY <4>1
      <3>2. CASE n # 1
        <4>0. n \in 2..N /\ n - 1 # 0 /\ n \in 0..N /\ seqs[n] \in Seq(T)
          BY <3>2
        <4>1. f[n] = f[n - 1] \o seqs[n]
          BY <2>1, <4>0 DEF Concatenates
        <4>2. f[n - 1] \in Seq(T) /\ From(n - 1)
          BY <2>3, <4>0
        <4>3. /\ f[n] \in Seq(T)
              /\ \A l \in DOMAIN f[n] : \/ \E i \in DOMAIN f[n - 1] : f[n][l] = f[n - 1][i]
                                        \/ \E i \in DOMAIN seqs[n] : f[n][l] = seqs[n][i]
          <5>. DEFINE a == f[n - 1]
                      b == seqs[n]
          <5>1. f[n] = a \o b /\ a \in Seq(T) /\ b \in Seq(T)
            BY <4>0, <4>1, <4>2
          <5>. HIDE DEF a, b
          <5>2. f[n] \in Seq(T) /\ FromEither(f[n], a, b)
            BY <5>1, ConcatMembers
          <5>. QED
            BY <5>2 DEF a, b, FromEither
        <4>4. From(n)
          <5>. SUFFICES ASSUME NEW l \in DOMAIN f[n]
                        PROVE  \E j \in 1..N : \E i \in DOMAIN seqs[j] : f[n][l] = seqs[j][i]
            OBVIOUS
          <5>1. CASE \E i \in DOMAIN f[n - 1] : f[n][l] = f[n - 1][i]
            <6>1. PICK i \in DOMAIN f[n - 1] : f[n][l] = f[n - 1][i]
              BY <5>1
            <6>2. PICK j \in 1..N : \E m \in DOMAIN seqs[j] : f[n - 1][i] = seqs[j][m]
              BY <4>2
            <6>. QED
              BY <6>1, <6>2
          <5>2. CASE \E i \in DOMAIN seqs[n] : f[n][l] = seqs[n][i]
            BY <5>2
          <5>. QED
            BY <4>3, <5>1, <5>2
        <4>. QED
          BY <4>0, <4>3, <4>4
      <3>. QED
        BY <3>1, <3>2
    <2>. HIDE DEF S
    <2>4. N \in S
      <3>1. 0..N \subseteq S
        BY <2>2, <2>3, Induction
      <3>. QED
        BY <3>1
    <2>5. From(N)
      BY <1>3, <2>4 DEF S
    <2>6. \A l \in DOMAIN f[N] : \E j \in 1..N : \E i \in DOMAIN seqs[j] : f[N][l] = seqs[j][i]
      BY <2>5
    <2>. HIDE DEF From
    <2>. QED
      BY <2>1, <2>6, Zenon DEF FromOne
  <1>. QED
    BY <1>2, <1>3

-----------------------------------------------------------------------------
LEMMA EverywhereFacts ==
    ASSUME IInv, NEW place \in Everywhere
    PROVE  LET o == place[1]
               k == place[2]
           IN  /\ place = <<o, k>> /\ o \in Live(heap) /\ o \in Objects /\ k \in Keys
               /\ k \in KeysOf(heap[o]) /\ At(heap, place) = heap[o][k]
               /\ heap[o][k] \in Property /\ PropertyOK(heap, uid, {}, o, k)
               /\ place # Destroyed
  <1>. DEFINE o == place[1]
              k == place[2]
  <1>1. /\ place = <<o, k>> /\ o \in Live(heap) /\ k \in Keys
        /\ At(heap, place) = heap[o][k] /\ heap[o][k] # None
    BY DEF Everywhere, PlacesOf, At
  <1>2. o \in Objects /\ k \in KeysOf(heap[o])
    BY <1>1 DEF Live, KeysOf
  <1>3. Good(heap, uid, {}) /\ heap \in Heap
    BY DEF IInv, Sound, Good
  <1>4. heap[o][k] \in Property /\ PropertyOK(heap, uid, {}, o, k)
    BY <1>1, <1>2, <1>3, LiveFacts DEF Good
  <1>5. place # Destroyed
    BY <1>1, <1>2, NoneAssumption DEF Destroyed
  <1>. QED
    BY <1>1, <1>2, <1>4, <1>5

LEMMA TypeIsOK ==
    ASSUME IInv
    PROVE  TypeOK
  <1>1. /\ Good(heap, uid, {}) /\ IdsOK(heap, ids, uid) /\ uid \in 0..MaxGenerated
        /\ HandlersOK(heap, handlers) /\ heap \in Heap
    BY DEF IInv, Sound, Good
  <1>2. MaxGenerated \in Nat /\ MaxUid \in Nat /\ MaxGenerated <= MaxUid
    BY BoundsAssumption
  <1>3. ASSUME NEW place \in Everywhere
        PROVE  At(heap, place).uid <= MaxUid /\ At(heap, place).kept <= Len(At(heap, place).subjects)
    <2>. DEFINE p == At(heap, place)
    <2>1. p \in Property /\ UidOK(p, uid) /\ p.kept <= Len(p.subjects)
      BY EverywhereFacts DEF PropertyOK
    <2>2. p.uid \in Nat
      BY <2>1, PropertyFacts
    <2>. HIDE DEF p
    <2>3. p.uid <= MaxUid
      BY <1>1, <1>2, <2>1, <2>2 DEF UidOK
    <2>. QED
      BY <2>1, <2>3 DEF p
  <1>4. ASSUME NEW o \in Objects
        PROVE  ids[o] \in IF heap[o] = None THEN {0} ELSE 0..MaxUid
    <2>1. ids[o] \in Nat /\ (ids[o] <= uid \/ ids[o] <= MaxUid) /\ (heap[o] = None => ids[o] = 0)
      BY <1>1 DEF IdsOK
    <2>. QED
      BY <1>1, <1>2, <2>1
  <1>5. \A u \in 0..MaxUid : \A i \in DOMAIN handlers[u] :
          handlers[u][i] # Destroyed => At(heap, handlers[u][i]).type = "int8"
    BY <1>1 DEF HandlersOK
  <1>. QED
    BY <1>1, <1>3, <1>4, <1>5 DEF TypeOK

LEMMA ItselfIsObserved ==
    ASSUME IInv
    PROVE  ObservesItself
  <1>. SUFFICES ASSUME NEW place \in Everywhere,
                       NEW i \in DOMAIN At(heap, place).subjects
                PROVE  Times(At(heap, place).subjects[i], place)
                          = IF i <= At(heap, place).kept THEN 1 ELSE 0
    BY DEF ObservesItself
  <1>. DEFINE p == At(heap, place)
              subject == p.subjects[i]
  <1>1. Observed(p, place) /\ place # Destroyed
    BY EverywhereFacts DEF PropertyOK
  <1>. HIDE DEF p
  <1>2. /\ \A j, l \in DOMAIN subject : subject[j] = subject[l] /\ subject[j] # Destroyed => j = l
        /\ (\E j \in DOMAIN subject : subject[j] = place) <=> i <= p.kept
    BY <1>1 DEF Observed, p
  <1>. HIDE DEF subject
  <1>3. CASE i <= p.kept
    <2>1. Once(subject, place)
      BY <1>1, <1>2, <1>3 DEF Once
    <2>. QED
      BY <1>3, <2>1, TimesFacts DEF p, subject
  <1>4. CASE ~ i <= p.kept
    <2>1. Never(subject, place)
      BY <1>2, <1>4 DEF Never
    <2>. QED
      BY <1>4, <2>1, TimesFacts DEF p, subject
  <1>. QED
    BY <1>3, <1>4

LEMMA OriginsAreObserved ==
    ASSUME IInv
    PROVE  ObserversAreOrigins
  <1>. SUFFICES ASSUME NEW place \in Everywhere,
                       NEW i \in DOMAIN At(heap, place).subjects
                PROVE  LET p == At(heap, place)
                       IN  /\ ToSet(p.subjects[i]) \subseteq p.origin \cup {place, Destroyed}
                           /\ \A q \in p.origin : Times(p.subjects[i], q) <= 1
    BY DEF ObserversAreOrigins
  <1>. DEFINE p == At(heap, place)
              subject == p.subjects[i]
  <1>1. Observed(p, place) /\ \A q \in p.origin : q \in Objects \X Keys
    BY EverywhereFacts DEF PropertyOK
  <1>. HIDE DEF p
  <1>2. /\ \A j \in DOMAIN subject : subject[j] \in p.origin \cup {place, Destroyed}
        /\ \A j, l \in DOMAIN subject : subject[j] = subject[l] /\ subject[j] # Destroyed => j = l
    BY <1>1 DEF Observed, p
  <1>. HIDE DEF subject
  <1>3. ToSet(subject) \subseteq p.origin \cup {place, Destroyed}
    BY <1>2 DEF ToSet
  <1>4. ASSUME NEW q \in p.origin PROVE Times(subject, q) <= 1
    <2>1. q # Destroyed
      <3>1. q[1] \in Objects /\ q[1] # None
        BY <1>1, <1>4, NoneAssumption
      <3>. QED
        BY <3>1 DEF Destroyed
    <2>2. CASE \E j \in DOMAIN subject : subject[j] = q
      <3>1. Once(subject, q)
        BY <1>2, <2>1, <2>2 DEF Once
      <3>. QED
        BY <3>1, TimesFacts
    <2>3. CASE ~ \E j \in DOMAIN subject : subject[j] = q
      <3>1. Never(subject, q)
        BY <2>3 DEF Never
      <3>. QED
        BY <3>1, TimesFacts
    <2>. QED
      BY <2>2, <2>3
  <1>. QED
    BY <1>3, <1>4 DEF p, subject

LEMMA ReadFacts ==
    ASSUME NEW subject, \A j \in DOMAIN subject : subject[j] # Destroyed,
           NEW read \in UidsRead(subject)
    PROVE  read = [j \in DOMAIN subject |-> At(heap, subject[j]).uid]
  <1>. DEFINE stale == {j \in DOMAIN subject : subject[j] = Destroyed}
              used  == {u \in 0..MaxUid : handlers[u] # <<>>} \cup {None}
  <1>1. PICK any \in [stale -> used] :
            read = [j \in DOMAIN subject |-> IF j \in stale THEN any[j] ELSE At(heap, subject[j]).uid]
    BY DEF UidsRead
  <1>2. stale = {}
    OBVIOUS
  <1>. QED
    BY <1>1, <1>2

Call == [uid : Nat, handler : Nat]

\* The calls that the observers of a subject make, each of which calls the handlers of u.
CallsOf(u, calls) ==
    /\ u \in 0..MaxUid /\ calls \in Seq(Call) /\ DOMAIN calls = DOMAIN handlers[u]
    /\ \A n \in DOMAIN calls : calls[n] = [uid |-> u, handler |-> n]

LEMMA CalledFacts ==
    ASSUME IInv, NEW u \in 0..MaxUid
    PROVE  CallsOf(u, Called(u))
  <1>1. u # None /\ u \in Nat
    BY NoneAssumption, BoundsAssumption
  <1>2. Len(handlers[u]) \in Nat /\ DOMAIN handlers[u] = 1..Len(handlers[u])
    <2>1. handlers[u] \in Seq(Places)
      BY DEF IInv, Sound, HandlersOK
    <2>. QED
      BY <2>1, LenProperties
  <1>. DEFINE N == Len(handlers[u])
              c == [n \in 1..N |-> [uid |-> u, handler |-> n]]
  <1>3. Called(u) = c
    BY <1>1 DEF Called
  <1>. HIDE DEF N
  <1>4. c \in [1..N -> Call] /\ \A n \in 1..N : c[n] = [uid |-> u, handler |-> n]
    BY <1>1, <1>2 DEF Call, N
  <1>. HIDE DEF c
  <1>5. c \in Seq(Call) /\ DOMAIN c = 1..N
    BY <1>2, <1>4, SeqDef DEF N
  <1>. QED
    BY <1>2, <1>3, <1>4, <1>5 DEF CallsOf, N

\* What setValue calls, if no observer at the index is that of a destroyed property.
Lists(p, i, pieces, calls) ==
    LET subject == p.subjects[i]
    IN  /\ pieces \in [1..Len(subject) -> Seq(Call)] /\ Len(subject) \in Nat
        /\ \A j \in 1..Len(subject) : CallsOf(At(heap, subject[j]).uid, pieces[j])
        /\ calls = FlattenSeq(pieces)

\* Where no observer is left of a destroyed property, a place in the subject is that of the
\* property, or of one it descends from, which has a smaller UID.
Leads(o, k, i) ==
    LET p == heap[o][k]
        subject == p.subjects[i]
    IN  /\ p \in Property /\ i \in DOMAIN p.subjects /\ p.uid \in 0..MaxUid
        /\ subject \in Seq(Places) /\ Len(subject) \in Nat /\ DOMAIN subject = 1..Len(subject)
        /\ \A j \in DOMAIN subject :
              /\ subject[j] # Destroyed /\ At(heap, subject[j]).uid \in 0..MaxUid
              /\ subject[j] = <<o, k>> \/ subject[j] \in p.origin
              /\ subject[j] \in p.origin => At(heap, subject[j]).uid < p.uid
        /\ \E m \in DOMAIN subject : \A j \in DOMAIN subject : subject[j] = <<o, k>> <=> j = m

LEMMA LeadsFacts ==
    ASSUME IInv, NEW o \in Live(heap), NEW k \in KeysOf(heap[o]), NEW i \in Indices,
           Certain(heap[o][k], i)
    PROVE  Leads(o, k, i)
  <1>. DEFINE p == heap[o][k]
              subject == p.subjects[i]
              place == <<o, k>>
  <1>1. /\ Good(heap, uid, {}) /\ heap \in Heap /\ uid \in Nat /\ uid <= MaxUid
    BY BoundsAssumption DEF IInv, Sound, Good
  <1>2. /\ o \in Objects /\ k \in Keys /\ p \in Property /\ PropertyOK(heap, uid, {}, o, k)
    BY <1>1, LiveFacts DEF Good
  <1>3. i \in Nat /\ i >= 1
    BY BoundsAssumption DEF Indices
  <1>4. i <= p.kept /\ Destroyed \notin ToSet(subject) /\ p.kept <= Len(p.subjects)
    BY <1>2 DEF Certain, PropertyOK
  <1>5. i \in DOMAIN p.subjects /\ p.subjects \in Seq(Seq(Places))
    BY <1>2, <1>3, <1>4, PropertyFacts
  <1>6. subject \in Seq(Places)
    BY <1>2, <1>5, PropertyFacts
  <1>7. Len(subject) \in Nat /\ DOMAIN subject = 1..Len(subject)
    BY <1>6, LenProperties
  <1>8. /\ \A j \in DOMAIN subject : subject[j] \in p.origin \cup {place, Destroyed}
        /\ \A j, l \in DOMAIN subject : subject[j] = subject[l] /\ subject[j] # Destroyed => j = l
        /\ \E j \in DOMAIN subject : subject[j] = place
    BY <1>2, <1>4, <1>5 DEF PropertyOK, Observed
  <1>9. \A j \in DOMAIN subject : subject[j] # Destroyed
    BY <1>4 DEF ToSet
  <1>10. p.uid \in 0..MaxUid
    <2>1. p.uid \in Nat /\ p.kept \in Nat /\ UidOK(p, uid)
      BY <1>2, PropertyFacts DEF PropertyOK
    <2>2. p.uid <= uid
      BY <1>3, <1>4, <2>1 DEF UidOK
    <2>. QED
      BY <1>1, <2>1, <2>2, BoundsAssumption
  <1>11. \A q \in p.origin : At(heap, q).uid < p.uid /\ At(heap, q).uid \in 0..MaxUid
    <2>. SUFFICES ASSUME NEW q \in p.origin
                  PROVE  At(heap, q).uid < p.uid /\ At(heap, q).uid \in 0..MaxUid
      OBVIOUS
    <2>1. q \in Objects \X Keys /\ Present(heap, q) /\ At(heap, q).uid < p.uid
      BY <1>2 DEF PropertyOK
    <2>2. q[1] \in Live(heap) /\ q[2] \in KeysOf(heap[q[1]])
      BY <2>1 DEF Present, Live, KeysOf
    <2>3. At(heap, q) \in Property
      BY <1>1, <2>2, LiveFacts DEF At
    <2>4. At(heap, q).uid \in Nat
      BY <2>3, PropertyFacts
    <2>. QED
      BY <1>10, <2>1, <2>4, BoundsAssumption
  <1>12. At(heap, place) = p
    BY DEF At
  <1>. HIDE DEF p, subject, place
  <1>13. \A j \in DOMAIN subject :
              /\ subject[j] # Destroyed /\ At(heap, subject[j]).uid \in 0..MaxUid
              /\ subject[j] = place \/ subject[j] \in p.origin
              /\ subject[j] \in p.origin => At(heap, subject[j]).uid < p.uid
    BY <1>8, <1>9, <1>10, <1>11, <1>12
  <1>14. \E m \in DOMAIN subject : \A j \in DOMAIN subject : subject[j] = place <=> j = m
    BY <1>8, <1>9
  <1>. QED
    BY <1>2, <1>5, <1>6, <1>7, <1>10, <1>13, <1>14 DEF Leads, p, subject, place

LEMMA ListsFacts ==
    ASSUME IInv, NEW o \in Live(heap), NEW k \in KeysOf(heap[o]), NEW i \in Indices,
           Leads(o, k, i), heap[o][k].type = "int8",
           NEW read \in UidsRead(heap[o][k].subjects[i])
    PROVE  \E pieces : Lists(heap[o][k], i, pieces, Calls(heap[o][k], read))
  <1>. DEFINE p == heap[o][k]
              subject == p.subjects[i]
              N == Len(subject)
              pieces == [j \in DOMAIN read |-> Called(read[j])]
  <1>1. /\ N \in Nat /\ DOMAIN subject = 1..N
        /\ \A j \in DOMAIN subject : subject[j] # Destroyed /\ At(heap, subject[j]).uid \in 0..MaxUid
    BY DEF Leads
  <1>2. Calls(p, read) = FlattenSeq(pieces)
    BY DEF Calls
  <1>. HIDE DEF subject
  <1>3. read = [j \in DOMAIN subject |-> At(heap, subject[j]).uid]
    BY <1>1, ReadFacts DEF subject
  <1>. HIDE DEF N
  <1>4. \A j \in 1..N : CallsOf(At(heap, subject[j]).uid, Called(At(heap, subject[j]).uid))
    BY <1>1, CalledFacts
  <1>5. pieces = [j \in 1..N |-> Called(At(heap, subject[j]).uid)]
    BY <1>1, <1>3
  <1>6. \A j \in 1..N : CallsOf(At(heap, subject[j]).uid, pieces[j])
    BY <1>4, <1>5
  <1>7. pieces \in [1..N -> Seq(Call)]
    BY <1>4, <1>5 DEF CallsOf
  <1>. HIDE DEF pieces
  <1>8. Lists(p, i, pieces, Calls(p, read))
    BY <1>1, <1>2, <1>6, <1>7 DEF Lists, subject, N
  <1>. QED
    BY <1>8

\* What a report of a change is of, where no observer is left of a destroyed property.
LEMMA ReportFacts ==
    ASSUME IInv, report # None, Certain(At(heap, report.of), report.index)
    PROVE  \E o \in Live(heap) : \E k \in KeysOf(heap[o]), i \in Indices :
              /\ At(heap, report.of) = heap[o][k] /\ report.index = i /\ Leads(o, k, i)
              /\ \E read \in UidsRead(heap[o][k].subjects[i]) :
                    report.calls = Calls(heap[o][k], read)
  <1>1. Reported
    BY DEF IInv
  <1>2. PICK o \in Live(heap) : \E k \in KeysOf(heap[o]), i \in Indices :
            LET p == heap[o][k]
                subject == IF i \in DOMAIN p.subjects THEN p.subjects[i] ELSE <<>>
            IN  \E read \in UidsRead(subject) :
                   report = [of |-> <<o, k>>, index |-> i, calls |-> Calls(p, read)]
    BY <1>1 DEF Reported
  <1>3. PICK k \in KeysOf(heap[o]), i \in Indices :
            LET p == heap[o][k]
                subject == IF i \in DOMAIN p.subjects THEN p.subjects[i] ELSE <<>>
            IN  \E read \in UidsRead(subject) :
                   report = [of |-> <<o, k>>, index |-> i, calls |-> Calls(p, read)]
    BY <1>2
  <1>. DEFINE p == heap[o][k]
              subject == IF i \in DOMAIN p.subjects THEN p.subjects[i] ELSE <<>>
  <1>4. PICK read \in UidsRead(subject) :
            report = [of |-> <<o, k>>, index |-> i, calls |-> Calls(p, read)]
    BY <1>3
  <1>. HIDE DEF subject
  <1>5. report.of = <<o, k>> /\ report.index = i /\ report.calls = Calls(p, read)
    BY <1>4
  <1>6. At(heap, report.of) = p
    BY <1>5 DEF At
  <1>7. Leads(o, k, i)
    BY <1>5, <1>6, LeadsFacts
  <1>8. subject = p.subjects[i]
    BY <1>7 DEF Leads, subject
  <1>. QED
    BY <1>4, <1>5, <1>6, <1>7, <1>8

LEMMA IsCalledOnce ==
    ASSUME IInv
    PROVE  CalledOnce
  <1>. SUFFICES ASSUME report # None, At(heap, report.of).type = "int8",
                       Certain(At(heap, report.of), report.index),
                       NEW n \in DOMAIN handlers[At(heap, report.of).uid]
                PROVE  Times(report.calls, [uid |-> At(heap, report.of).uid, handler |-> n]) = 1
    BY DEF CalledOnce
  <1>1. PICK o \in Live(heap) : \E k \in KeysOf(heap[o]), i \in Indices :
              /\ At(heap, report.of) = heap[o][k] /\ report.index = i /\ Leads(o, k, i)
              /\ \E read \in UidsRead(heap[o][k].subjects[i]) :
                    report.calls = Calls(heap[o][k], read)
    BY ReportFacts
  <1>2. PICK k \in KeysOf(heap[o]), i \in Indices :
              /\ At(heap, report.of) = heap[o][k] /\ report.index = i /\ Leads(o, k, i)
              /\ \E read \in UidsRead(heap[o][k].subjects[i]) :
                    report.calls = Calls(heap[o][k], read)
    BY <1>1
  <1>3. PICK read \in UidsRead(heap[o][k].subjects[i]) : report.calls = Calls(heap[o][k], read)
    BY <1>2
  <1>. DEFINE p == heap[o][k]
              subject == p.subjects[i]
              N == Len(subject)
              call == [uid |-> p.uid, handler |-> n]
  <1>4. PICK pieces : Lists(p, i, pieces, report.calls)
    BY <1>2, <1>3, ListsFacts
  <1>5. /\ N \in Nat /\ DOMAIN subject = 1..N /\ n \in DOMAIN handlers[p.uid]
        /\ \A j \in 1..N : /\ subject[j] = <<o, k>> \/ subject[j] \in p.origin
                           /\ subject[j] \in p.origin => At(heap, subject[j]).uid < p.uid
                           /\ At(heap, subject[j]).uid \in 0..MaxUid
        /\ p.uid \in 0..MaxUid /\ At(heap, <<o, k>>) = p
    BY <1>2 DEF Leads, At
  <1>6. PICK m \in 1..N : \A j \in 1..N : subject[j] = <<o, k>> <=> j = m
    <2>1. PICK m \in DOMAIN subject : \A j \in DOMAIN subject : subject[j] = <<o, k>> <=> j = m
      BY <1>2 DEF Leads
    <2>2. DOMAIN subject = 1..N
      BY <1>5
    <2>. HIDE DEF subject, N, p
    <2>3. m \in 1..N /\ \A j \in 1..N : j \in DOMAIN subject
      BY <2>2
    <2>4. \A j \in 1..N : subject[j] = <<o, k>> <=> j = m
      BY <2>1, <2>3
    <2>. QED
      BY <2>3, <2>4
  <1>7. /\ pieces \in [1..N -> Seq(Call)] /\ report.calls = FlattenSeq(pieces)
        /\ \A j \in 1..N : CallsOf(At(heap, subject[j]).uid, pieces[j])
    BY <1>4 DEF Lists
  <1>8. Once(pieces[m], call)
    <2>1. CallsOf(p.uid, pieces[m])
      BY <1>5, <1>6, <1>7
    <2>2. n \in DOMAIN pieces[m] /\ \A l \in DOMAIN pieces[m] : pieces[m][l] = [uid |-> p.uid, handler |-> l]
      BY <1>5, <2>1 DEF CallsOf
    <2>3. \A l \in DOMAIN pieces[m] : [uid |-> p.uid, handler |-> l] = call <=> l = n
      OBVIOUS
    <2>. HIDE DEF call
    <2>. QED
      BY <2>2, <2>3 DEF Once
  <1>9. ASSUME NEW j \in 1..N, j # m PROVE Never(pieces[j], call)
    <2>1. At(heap, subject[j]).uid # p.uid
      BY <1>5, <1>6, <1>9, BoundsAssumption
    <2>2. CallsOf(At(heap, subject[j]).uid, pieces[j])
      BY <1>7
    <2>. DEFINE u == At(heap, subject[j]).uid
    <2>3. \A l \in DOMAIN pieces[j] : pieces[j][l] = [uid |-> u, handler |-> l]
      BY <2>2 DEF CallsOf
    <2>4. \A l \in DOMAIN pieces[j] : [uid |-> u, handler |-> l] # call
      BY <2>1
    <2>. HIDE DEF call, u
    <2>. QED
      BY <2>3, <2>4 DEF Never
  <1>. HIDE DEF N, call
  <1>10. Once(FlattenSeq(pieces), call)
    BY <1>5, <1>7, <1>8, <1>9, FlattenFacts
  <1>11. Times(report.calls, call) = 1
    BY <1>7, <1>10, TimesFacts
  <1>. QED
    BY <1>2, <1>11 DEF call

LEMMA IsOwnOrOrigin ==
    ASSUME IInv
    PROVE  CallsOwnOrOrigins
  <1>. SUFFICES ASSUME report # None, Certain(At(heap, report.of), report.index),
                       NEW l \in DOMAIN report.calls
                PROVE  report.calls[l].uid \in {At(heap, report.of).uid}
                          \cup {At(heap, q).uid : q \in At(heap, report.of).origin}
    BY DEF CallsOwnOrOrigins
  <1>1. PICK o \in Live(heap) : \E k \in KeysOf(heap[o]), i \in Indices :
              /\ At(heap, report.of) = heap[o][k] /\ report.index = i /\ Leads(o, k, i)
              /\ \E read \in UidsRead(heap[o][k].subjects[i]) :
                    report.calls = Calls(heap[o][k], read)
    BY ReportFacts
  <1>2. PICK k \in KeysOf(heap[o]), i \in Indices :
              /\ At(heap, report.of) = heap[o][k] /\ report.index = i /\ Leads(o, k, i)
              /\ \E read \in UidsRead(heap[o][k].subjects[i]) :
                    report.calls = Calls(heap[o][k], read)
    BY <1>1
  <1>3. PICK read \in UidsRead(heap[o][k].subjects[i]) : report.calls = Calls(heap[o][k], read)
    BY <1>2
  <1>. DEFINE p == heap[o][k]
              subject == p.subjects[i]
              N == Len(subject)
  <1>4. p.type = "int8"
    <2>1. CASE p.type # "int8"
      <3>1. report.calls = <<>>
        BY <1>3, <2>1 DEF Calls
      <3>. QED
        BY <3>1
    <2>. QED
      BY <2>1
  <1>5. PICK pieces : Lists(p, i, pieces, report.calls)
    BY <1>2, <1>3, <1>4, ListsFacts
  <1>6. /\ N \in Nat /\ DOMAIN subject = 1..N /\ At(heap, <<o, k>>) = p
        /\ \A j \in 1..N : subject[j] = <<o, k>> \/ subject[j] \in p.origin
    BY <1>2 DEF Leads, At
  <1>7. /\ pieces \in [1..N -> Seq(Call)] /\ report.calls = FlattenSeq(pieces)
        /\ \A j \in 1..N : CallsOf(At(heap, subject[j]).uid, pieces[j])
    BY <1>5 DEF Lists
  <1>. HIDE DEF N, subject
  <1>8. PICK j \in 1..N : \E n \in DOMAIN pieces[j] : report.calls[l] = pieces[j][n]
    <2>1. FromOne(FlattenSeq(pieces), pieces, N)
      BY <1>6, <1>7, FlattenMembers
    <2>. QED
      BY <1>7, <2>1 DEF FromOne
  <1>9. report.calls[l].uid = At(heap, subject[j]).uid
    BY <1>7, <1>8 DEF CallsOf
  <1>10. At(heap, subject[j]).uid \in {p.uid} \cup {At(heap, q).uid : q \in p.origin}
    BY <1>6
  <1>. QED
    BY <1>2, <1>9, <1>10

-----------------------------------------------------------------------------
(***************************************************************************)
(* What a document consists of, level by level.                            *)
(***************************************************************************)

DocumentLevels(f, N) ==
    \A n \in 0..N : f[n] = IF n = 0 THEN {Missing} ELSE
                          {Missing} \cup
                          [uid : 0..MaxUid,
                           properties : [Keys -> DocumentProperties(f[n - 1]) \cup {None}]
                                        \cup {Missing}]

LEMMA DocumentsRecursion ==
    ASSUME NEW N \in Nat
    PROVE  \E f : DocumentsTo(N) = f[N]
                  /\ DocumentLevels(f, N)
  <1>. DEFINE level(n, g) == IF n = 0 THEN {Missing} ELSE
                          {Missing} \cup
                          [uid : 0..MaxUid,
                           properties : [Keys -> DocumentProperties(g) \cup {None}]
                                        \cup {Missing}]
              P(m) == \E f : f = [n \in 0..m |-> level(n, f[n - 1])]
              S == {m \in 0..N : P(m)}
  <1>1. \A g, h : level(0, g) = level(0, h)
    OBVIOUS
  <1>. HIDE DEF level
  <1>2. P(0)
    <2>. DEFINE f == [n \in 0..0 |-> level(0, 0)]
    <2>1. f = [n \in 0..0 |-> level(n, f[n - 1])]
      <3>1. level(0, 0) = level(0, f[-1])
        BY <1>1
      <3>. QED
        BY <3>1
    <2>. QED
      BY <2>1
  <1>3. ASSUME NEW m \in 1..N, P(m - 1) PROVE P(m)
    <2>1. PICK f : f = [n \in 0..(m - 1) |-> level(n, f[n - 1])]
      BY <1>3
    <2>. DEFINE g == [n \in 0..m |-> IF n = m THEN level(m, f[m - 1]) ELSE f[n]]
    <2>2. ASSUME NEW n \in 0..m PROVE g[n] = level(n, g[n - 1])
      <3>1. CASE n = m
        <4>1. g[n - 1] = f[n - 1]
          BY <3>1
        <4>. QED
          BY <3>1, <4>1
      <3>2. CASE n # m
        <4>1. n \in 0..(m - 1) /\ g[n] = f[n] /\ f[n] = level(n, f[n - 1])
          BY <2>1, <3>2
        <4>2. CASE n = 0
          BY <1>1, <4>1, <4>2
        <4>3. CASE n # 0
          <5>1. g[n - 1] = f[n - 1]
            BY <3>2, <4>3
          <5>. QED
            BY <4>1, <5>1
        <4>. QED
          BY <4>2, <4>3
      <3>. QED
        BY <3>1, <3>2
    <2>3. g = [n \in 0..m |-> level(n, g[n - 1])]
      <3>. HIDE DEF g
      <3>1. DOMAIN g = 0..m /\ g = [n \in 0..m |-> g[n]]
        BY DEF g
      <3>. QED
        BY <2>2, <3>1
    <2>. QED
      BY <2>3
  <1>. HIDE DEF P
  <1>4. 0 \in S /\ \A m \in 1..N : m - 1 \in S => m \in S
    BY <1>2, <1>3
  <1>5. N \in S
    <2>1. 0..N \subseteq S
      BY <1>4, Induction
    <2>. QED
      BY <2>1
  <1>. DEFINE F == CHOOSE f : f = [n \in 0..N |-> IF n = 0 THEN {Missing} ELSE
                          {Missing} \cup
                          [uid : 0..MaxUid,
                           properties : [Keys -> DocumentProperties(f[n - 1]) \cup {None}]
                                        \cup {Missing}]]
  <1>6. F = [n \in 0..N |-> level(n, F[n - 1])]
    <2>1. P(N)
      BY <1>5
    <2>. QED
      BY <2>1 DEF P, level
  <1>7. DocumentsTo(N) = F[N]
    BY DEF DocumentsTo
  <1>. HIDE DEF F
  <1>8. \A n \in 0..N : F[n] = level(n, F[n - 1])
    BY <1>6
  <1>9. DocumentLevels(F, N)
    BY <1>8 DEF level, DocumentLevels
  <1>. QED
    BY <1>7, <1>9

\* Deeper documents have documents in them that are one level less deep.
LEMMA DocumentsFacts ==
    ASSUME NEW m \in Nat \ {0}
    PROVE  DocumentsTo(m) =
              {Missing} \cup
              [uid : 0..MaxUid,
               properties : [Keys -> DocumentProperties(DocumentsTo(m - 1)) \cup {None}]
                            \cup {Missing}]
  <1>1. PICK f : DocumentsTo(m) = f[m] /\ DocumentLevels(f, m)
    BY DocumentsRecursion
  <1>2. m - 1 \in Nat /\ m \in 0..m /\ m # 0
    OBVIOUS
  <1>3. PICK g : DocumentsTo(m - 1) = g[m - 1] /\ DocumentLevels(g, m - 1)
    BY <1>2, DocumentsRecursion
  <1>. DEFINE S == {n \in 0..(m - 1) : f[n] = g[n]}
  <1>4. 0 \in S
    <2>1. 0 \in 0..m /\ 0 \in 0..(m - 1)
      OBVIOUS
    <2>2. f[0] = {Missing}
      BY <1>1, <2>1, Zenon DEF DocumentLevels
    <2>3. g[0] = {Missing}
      BY <1>3, <2>1, Zenon DEF DocumentLevels
    <2>. QED
      BY <2>1, <2>2, <2>3
  <1>5. ASSUME NEW n \in 1..(m - 1), n - 1 \in S PROVE n \in S
    <2>1. n \in 0..m /\ n \in 0..(m - 1) /\ n # 0 /\ f[n - 1] = g[n - 1]
      BY <1>5
    <2>2. f[n] = g[n]
      BY <1>1, <1>3, <2>1, Zenon DEF DocumentLevels
    <2>. QED
      BY <2>1, <2>2
  <1>6. f[m - 1] = g[m - 1]
    <2>1. 0..(m - 1) \subseteq S
      BY <1>2, <1>4, <1>5, Induction
    <2>2. m - 1 \in S
      BY <1>2, <2>1
    <2>. QED
      BY <2>2
  <1>7. f[m - 1] = DocumentsTo(m - 1)
    BY <1>3, <1>6
  <1>. QED
    BY <1>1, <1>2, <1>7, Zenon DEF DocumentLevels

\* A property in a document, whose list is of documents in D.
ListedOK(p, D) ==
    /\ p.type \in ValueTypes /\ p.uid \in 0..MaxUid /\ p.uid \in Nat /\ p.name \in Keys \cup {0}
    /\ p.capacity \in Indices /\ p.replicate \in BOOLEAN /\ p.writable \in BOOLEAN
    /\ p.list # Missing => /\ p.list \in Seq(D \cup {None})
                           /\ p.type # "object" => p.list = <<>>

LEMMA ListedFacts ==
    ASSUME NEW D, NEW p \in DocumentProperties(D)
    PROVE  ListedOK(p, D)
  <1>1. CASE p \in PropertiesOf({"object"}, Seq(D \cup {None}))
    BY <1>1, BoundsAssumption DEF PropertiesOf, ListedOK, ValueTypes
  <1>2. CASE p \in PropertiesOf(ValueTypes \ {"object"}, {<<>>})
    <2>1. /\ p.type \in ValueTypes /\ p.uid \in 0..MaxUid /\ p.uid \in Nat
          /\ p.name \in Keys \cup {0} /\ p.capacity \in Indices /\ p.replicate \in BOOLEAN
          /\ p.writable \in BOOLEAN /\ p.list \in {<<>>} \cup {Missing}
      BY <1>2, BoundsAssumption DEF PropertiesOf
    <2>2. <<>> \in Seq(D \cup {None})
      OBVIOUS
    <2>3. p.list # Missing => p.list = <<>>
      BY <2>1
    <2>. QED
      BY <2>1, <2>2, <2>3, Zenon DEF ListedOK
  <1>. QED
    BY <1>1, <1>2 DEF DocumentProperties

LEMMA DocumentFacts ==
    ASSUME NEW m \in Nat \ {0}, NEW d \in DocumentsTo(m), d # Missing
    PROVE  /\ d.uid \in 0..MaxUid /\ d.uid \in Nat
           /\ KeysListed(d) \subseteq Keys
           /\ \A k \in KeysListed(d) : ListedOK(d.properties[k], DocumentsTo(m - 1))
  <1>. DEFINE D == DocumentsTo(m - 1)
              maps == [Keys -> DocumentProperties(D) \cup {None}]
  <1>1. d \in [uid : 0..MaxUid, properties : maps \cup {Missing}]
    BY DocumentsFacts
  <1>. HIDE DEF maps
  <1>2. d.uid \in 0..MaxUid /\ d.uid \in Nat /\ d.properties \in maps \cup {Missing}
    BY <1>1, BoundsAssumption
  <1>3. KeysListed(d) \subseteq Keys
    BY DEF KeysListed, KeysOf
  <1>4. ASSUME NEW k \in KeysListed(d) PROVE d.properties[k] \in DocumentProperties(D)
    <2>1. d.properties # Missing /\ k \in Keys /\ d.properties[k] # None
      BY <1>4 DEF KeysListed, KeysOf
    <2>2. d.properties \in [Keys -> DocumentProperties(D) \cup {None}]
      BY <1>2, <2>1 DEF maps
    <2>. QED
      BY <2>1, <2>2
  <1>. QED
    BY <1>2, <1>3, <1>4, ListedFacts

-----------------------------------------------------------------------------
(***************************************************************************)
(* Reading a document makes new objects, and leaves what there is.         *)
(***************************************************************************)

\* t is s but for what the deserializer keeps of where it is.
Moves(s, t) ==
    /\ t \in Reader /\ t.heap = s.heap /\ t.ids = s.ids /\ t.ok = s.ok /\ t.made = s.made
    /\ t.references = s.references /\ s.uid <= t.uid

LEMMA FrontFacts ==
    ASSUME NEW q \in Seq(Nat)
    PROVE  Front(q) \in Seq(Nat)
  BY DEF Front

LEMMA LevelsFacts ==
    ASSUME NEW s \in Reader, NEW node \in Nat
    PROVE  /\ LET t == PushAdjacencyLevel(s, node)
              IN  /\ Moves(s, t) /\ t.stack = Append(s.stack, node)
                  /\ t.edges = IF s.stack = <<>> THEN s.edges
                               ELSE Append(s.edges, <<s.stack[Len(s.stack)], node>>)
           /\ LET t == PopAdjacencyLevel(s)
              IN  Moves(s, t) /\ t.stack = Front(s.stack) /\ t.edges = s.edges
  <1>1. s.uid <= s.uid /\ s.stack \in Seq(Nat) /\ s.edges \in Seq(Nat \X Nat)
    BY DEF Reader
  <1>2. LET t == PushAdjacencyLevel(s, node)
        IN  /\ Moves(s, t) /\ t.stack = Append(s.stack, node)
            /\ t.edges = IF s.stack = <<>> THEN s.edges
                         ELSE Append(s.edges, <<s.stack[Len(s.stack)], node>>)
    <2>. DEFINE edges == IF s.stack = <<>> THEN s.edges ELSE Append(s.edges, <<Last(s.stack), node>>)
                stack == Append(s.stack, node)
                t == PushAdjacencyLevel(s, node)
    <2>1. t = [s EXCEPT !.edges = edges, !.stack = stack]
      BY DEF PushAdjacencyLevel
    <2>2. stack \in Seq(Nat)
      BY <1>1
    <2>3. edges \in Seq(Nat \X Nat)
      <3>1. CASE s.stack = <<>>
        BY <1>1, <3>1
      <3>2. CASE s.stack # <<>>
        <4>1. Last(s.stack) \in Nat
          BY <1>1, <3>2 DEF Last
        <4>. QED
          BY <1>1, <3>2, <4>1
      <3>. QED
        BY <3>1, <3>2
    <2>. HIDE DEF edges, stack, t
    <2>4. t.edges = edges /\ t.stack = stack /\ Moves(s, t)
      BY <1>1, <2>1, <2>2, <2>3 DEF Reader, Moves
    <2>. QED
      BY <2>4 DEF edges, stack, t, Last
  <1>3. LET t == PopAdjacencyLevel(s)
        IN  Moves(s, t) /\ t.stack = Front(s.stack) /\ t.edges = s.edges
    <2>. DEFINE stack == Front(s.stack)
                t == PopAdjacencyLevel(s)
    <2>1. t = [s EXCEPT !.stack = stack] /\ stack \in Seq(Nat)
      BY <1>1, FrontFacts DEF PopAdjacencyLevel
    <2>. HIDE DEF stack, t
    <2>2. t.stack = stack /\ t.edges = s.edges /\ Moves(s, t)
      BY <1>1, <2>1 DEF Reader, Moves
    <2>. QED
      BY <2>2 DEF stack, t
  <1>. QED
    BY <1>2, <1>3

\* Where the deserializer is does not matter to the objects.
LEMMA LevelsMove ==
    ASSUME NEW s \in Reader, NEW node \in Nat
    PROVE  Moves(s, PushAdjacencyLevel(s, node))
  BY LevelsFacts

LEMMA LevelsPop ==
    ASSUME NEW s \in Reader
    PROVE  LET t == PopAdjacencyLevel(s)
           IN  Moves(s, t) /\ t.stack = Front(s.stack) /\ t.edges = s.edges
  <1>1. 0 \in Nat
    OBVIOUS
  <1>. QED
    BY <1>1, LevelsFacts

LEMMA NumberedFacts ==
    ASSUME NEW s \in Reader, NEW given \in Nat
    PROVE  LET t == Numbered(s, given)
           IN  /\ Moves(s, t) /\ t.stack = s.stack /\ t.edges = s.edges
               /\ NumberOf(s, given) \in Nat
               /\ NumberOf(s, given) <= t.uid \/ NumberOf(s, given) = given
               /\ given # 0 => t = s /\ NumberOf(s, given) = given
  <1>. DEFINE t == Numbered(s, given)
  <1>1. s.uid \in Nat
    BY DEF Reader
  <1>2. CASE given = 0
    <2>. DEFINE next == s.uid + 1
    <2>1. t = [s EXCEPT !.uid = next] /\ next \in Nat /\ s.uid <= next /\ NumberOf(s, given) = next
      BY <1>1, <1>2 DEF Numbered, NumberOf
    <2>. HIDE DEF next, t
    <2>2. t.uid = next /\ t.stack = s.stack /\ t.edges = s.edges /\ Moves(s, t)
      BY <2>1 DEF Reader, Moves
    <2>3. next <= t.uid
      BY <2>1, <2>2
    <2>. QED
      BY <1>2, <2>1, <2>2, <2>3 DEF t
  <1>3. CASE given # 0
    <2>1. t = s /\ NumberOf(s, given) = given
      BY <1>3 DEF Numbered, NumberOf
    <2>2. Moves(s, s)
      BY <1>1 DEF Moves
    <2>. QED
      BY <2>1, <2>2
  <1>. QED
    BY <1>2, <1>3

LEMMA MovesFurther ==
    ASSUME NEW s \in Reader, NEW t, Moves(s, t), NEW w, Moves(t, w)
    PROVE  Moves(s, w)
  <1>1. s.uid \in Nat /\ t.uid \in Nat /\ w.uid \in Nat
    BY DEF Moves, Reader
  <1>. QED
    BY <1>1 DEF Moves

Orderly(s) ==
    /\ s \in Reader /\ Good(s.heap, s.uid, {}) /\ IdsOK(s.heap, s.ids, s.uid)
    /\ \A r \in s.references : Present(s.heap, r[2])

\* t comes after s: there are new objects, and nothing refers to more of the others.
Follows(s, t) == Orderly(t) /\ GoesOn(s, t) /\ StayFresh(s, t, None)

\* Reading an object ends in t.
ReadOK(s, t) ==
    /\ t \in Reader /\ s.uid <= t.uid
    /\ t.ok => /\ Follows(s, t)
               /\ t.made \in Live(t.heap) \ Live(s.heap) /\ Fresh(t.heap, t.made)

ReadsOK(inner, D) ==
    \A s \in Reader, d \in D : Orderly(s) /\ s.ok => ReadOK(s, inner[<<s, d>>])

Unregistered(p, type) == p.type = type /\ p.origin = {} /\ p.kept = 0

\* In t the document d is being read into the new object o.
FilledOK(s, t, o, d) ==
    /\ t \in Reader /\ s.uid <= t.uid
    /\ t.ok => /\ Follows(s, t)
               /\ o \in Live(t.heap) \ Live(s.heap) /\ Fresh(t.heap, o)
               /\ KeysOf(t.heap[o]) = KeysListed(d)
               /\ \A k \in KeysListed(d) : Unregistered(t.heap[o][k], d.properties[k].type)

LEMMA ThrownFacts ==
    ASSUME NEW s \in Reader
    PROVE  /\ Thrown(s) \in Reader /\ ~ Thrown(s).ok /\ Thrown(s).uid = s.uid
           /\ Thrown(s).heap = s.heap
  <1>1. Thrown(s) = [s EXCEPT !.ok = FALSE]
    BY DEF Thrown
  <1>. QED
    BY <1>1 DEF Reader

LEMMA FollowsMoves ==
    ASSUME NEW s, NEW t, Follows(s, t), NEW w, Moves(t, w)
    PROVE  Follows(s, w)
  <1>1. /\ t \in Reader /\ t.uid \in Nat /\ w.uid \in Nat /\ t.uid <= w.uid /\ w \in Reader
        /\ w.heap = t.heap /\ w.ids = t.ids /\ w.references = t.references
        /\ Good(t.heap, t.uid, {}) /\ IdsOK(t.heap, t.ids, t.uid)
    BY DEF Follows, Moves, Orderly, Reader
  <1>2. Good(w.heap, w.uid, {}) /\ IdsOK(w.heap, w.ids, w.uid)
    BY <1>1, GoodLater, IdsLater
  <1>3. Orderly(w)
    BY <1>1, <1>2 DEF Follows, Orderly
  <1>4. GoesOn(s, w) /\ StayFresh(s, w, None)
    BY <1>1 DEF Follows, GoesOn, StayFresh
  <1>. QED
    BY <1>3, <1>4 DEF Follows

LEMMA FilledMoves ==
    ASSUME NEW s \in Reader, NEW t, NEW o, NEW d, FilledOK(s, t, o, d), NEW w, Moves(t, w)
    PROVE  FilledOK(s, w, o, d)
  <1>1. /\ s.uid \in Nat /\ t.uid \in Nat /\ w.uid \in Nat /\ s.uid <= w.uid /\ w \in Reader
        /\ w.ok = t.ok /\ w.heap = t.heap
    BY DEF FilledOK, Moves, Reader
  <1>2. t.ok => Follows(s, w)
    BY FollowsMoves DEF FilledOK
  <1>. QED
    BY <1>1, <1>2 DEF FilledOK

\* A property as createEmptyProperty makes it.
EmptyFrom(p) ==
    [Made([type |-> p.type, capacity |-> 1, replicate |-> FALSE], p.uid, 0) EXCEPT !.values = <<>>]

LEMMA EmptyFacts ==
    ASSUME NEW D, NEW p, ListedOK(p, D), NEW o \in Objects, NEW k \in Keys, NEW h, NEW u \in Nat
    PROVE  LET e == EmptyFrom(p)
           IN  /\ e \in Property /\ e # None /\ Unregistered(e, p.type) /\ e.values = <<>>
               /\ NewProperty(h, u, {}, o, k, e)
  <1>. DEFINE template == [type |-> p.type, capacity |-> 1, replicate |-> FALSE]
              made == Made(template, p.uid, 0)
              e == [made EXCEPT !.values = <<>>]
  <1>1. /\ template.type = p.type /\ template.type \in ValueTypes /\ template.replicate \in BOOLEAN
        /\ template.capacity \in Indices /\ p.uid \in Nat /\ p.uid <= MaxUid /\ p.uid <= p.uid
    BY BoundsAssumption DEF ListedOK, Indices
  <1>2. made.type = p.type /\ made.uid = p.uid
    BY DEF Made
  <1>. HIDE DEF template
  <1>3. MadeOK(made, template.replicate, h, p.uid, {}, o, k)
    BY <1>1, MadeFacts
  <1>4. /\ made \in Property /\ made.origin = {} /\ made.kept = 0
        /\ Observed(made, <<o, k>>) /\ made.kept <= Len(made.subjects)
    BY <1>3 DEF MadeOK, NewProperty
  <1>. HIDE DEF made
  <1>5. <<>> \in Seq(Objects \cup {None})
    OBVIOUS
  <1>6. /\ e \in Property /\ e.type = p.type /\ e.uid = p.uid /\ e.origin = {} /\ e.kept = 0
        /\ e.values = <<>> /\ e.subjects = made.subjects
    BY <1>2, <1>4, <1>5 DEF Property
  <1>. HIDE DEF e
  <1>7. Observed(e, <<o, k>>) /\ e.kept <= Len(e.subjects) /\ UidOK(e, u)
    BY <1>1, <1>4, <1>6, SameObserved DEF UidOK
  <1>8. NewProperty(h, u, {}, o, k, e)
    BY <1>6, <1>7 DEF NewProperty
  <1>9. e = EmptyFrom(p)
    BY DEF e, made, template, EmptyFrom
  <1>. QED
    BY <1>6, <1>8, <1>9, PropertyFacts DEF Unregistered

\* The object is created with a property for each that is listed.
LEMMA BegunOK ==
    ASSUME NEW s, Orderly(s), s.ok, HasSlot(s.heap), NEW m \in Nat \ {0},
           NEW d \in DocumentsTo(m), d # Missing, NEW o, o = FreeSlot(s.heap),
           NEW t, t = PushAdjacencyLevel(Numbered(CreateEmpty(s, d, o), d.uid), NumberOf(s, d.uid))
    PROVE  /\ FilledOK(s, t, o, d) /\ t.ok /\ t.references = s.references
           /\ t.ids[o] = NumberOf(s, d.uid)
           /\ \A k \in KeysListed(d) : t.heap[o][k].values = <<>>
           /\ CreateEmpty(s, d, o) \in Reader
  <1>. DEFINE h == s.heap
              found == [k \in Keys |-> IF k \in KeysListed(d) THEN EmptyFrom(d.properties[k]) ELSE None]
              g == Placed(h, o, found)
              number == NumberOf(s, d.uid)
              numbers == [s.ids EXCEPT ![o] = number]
              c == CreateEmpty(s, d, o)
              n == Numbered(c, d.uid)
  <1>1. /\ s \in Reader /\ Good(h, s.uid, {}) /\ IdsOK(h, s.ids, s.uid) /\ h \in Heap
        /\ s.uid \in Nat /\ s.ids \in [Objects -> Nat]
        /\ s.references \subseteq Nat \X (Objects \X Keys)
        /\ \A r \in s.references : Present(h, r[2])
    BY DEF Orderly, Reader, References
  <1>2. o \in Objects /\ h[o] = None /\ o \notin Live(h)
    BY <1>1, FreeSlotFacts
  <1>3. /\ d.uid \in 0..MaxUid /\ d.uid \in Nat /\ KeysListed(d) \subseteq Keys
        /\ \A k \in KeysListed(d) : ListedOK(d.properties[k], DocumentsTo(m - 1))
    BY DocumentFacts
  <1>. DEFINE p(k) == d.properties[k]
  <1>4. ASSUME NEW k \in KeysListed(d)
        PROVE  /\ EmptyFrom(p(k)) \in Property /\ EmptyFrom(p(k)) # None
               /\ EmptyFrom(p(k)).values = <<>> /\ Unregistered(EmptyFrom(p(k)), p(k).type)
               /\ NewProperty(h, s.uid, {}, o, k, EmptyFrom(p(k)))
    <2>1. k \in Keys /\ ListedOK(p(k), DocumentsTo(m - 1))
      BY <1>3
    <2>. HIDE DEF p, h
    <2>. QED
      BY <1>1, <1>2, <2>1, EmptyFacts
  <1>5. /\ found \in PropertyMap /\ KeysOf(found) = KeysListed(d)
        /\ \A k \in KeysListed(d) : found[k] = EmptyFrom(p(k))
    <2>1. \A k \in Keys : found[k] = IF k \in KeysListed(d) THEN EmptyFrom(p(k)) ELSE None
      OBVIOUS
    <2>2. found = [k \in Keys |-> found[k]]
      OBVIOUS
    <2>. HIDE DEF found, p
    <2>3. found \in PropertyMap
      BY <1>4, <2>1, <2>2 DEF PropertyMap
    <2>. QED
      BY <1>3, <1>4, <2>1, <2>3 DEF KeysOf
  <1>6. c = [s EXCEPT !.heap = g, !.ids = numbers]
    BY <1>1 DEF CreateEmpty, Reader, Placed, EmptyFrom
  <1>. HIDE DEF found, p
  <1>7. /\ g \in Heap /\ Live(g) = Live(h) \cup {o} /\ g[o] = found
        /\ \A a \in Objects : a # o => g[a] = h[a]
    BY <1>1, <1>2, <1>5, PlacedShape
  <1>8. Good(g, s.uid, {}) /\ Fresh(g, o)
    <2>1. {} \subseteq {} /\ s.uid <= s.uid
      BY <1>1
    <2>2. \A k \in KeysOf(found) : NewProperty(h, s.uid, {}, o, k, found[k])
      BY <1>4, <1>5
    <2>. HIDE DEF h
    <2>. QED
      BY <1>1, <1>2, <1>5, <2>1, <2>2, PlacedGood
  <1>. HIDE DEF g
  <1>9. number \in Nat /\ (number = s.uid + 1 \/ number = d.uid) /\ (d.uid = 0 => number = s.uid + 1)
    BY <1>1, <1>3 DEF NumberOf
  <1>10. /\ numbers \in [Objects -> Nat]
         /\ \A a \in Objects : numbers[a] = IF a = o THEN number ELSE s.ids[a]
    BY <1>1, <1>9
  <1>. HIDE DEF numbers, c, number
  <1>11. /\ c \in Reader /\ c.heap = g /\ c.ids = numbers /\ c.uid = s.uid /\ c.ok = s.ok
         /\ c.references = s.references
    BY <1>1, <1>6, <1>7, <1>10 DEF Reader
  <1>12. Moves(c, n) /\ NumberOf(c, d.uid) = number /\ (number <= n.uid \/ number = d.uid)
    <2>1. NumberOf(c, d.uid) = number
      BY <1>11 DEF NumberOf, number
    <2>. QED
      BY <1>3, <1>11, <2>1, NumberedFacts
  <1>13. Moves(c, t)
    <2>1. n \in Reader
      BY <1>12 DEF Moves
    <2>. HIDE DEF n
    <2>2. t = PushAdjacencyLevel(n, number)
      BY DEF n, c, number
    <2>3. Moves(n, t)
      BY <1>9, <2>1, <2>2, LevelsMove
    <2>. QED
      BY <1>11, <1>12, <2>3, MovesFurther
  <1>14. /\ t \in Reader /\ t.heap = g /\ t.ids = numbers /\ t.ok = s.ok /\ s.uid <= t.uid
         /\ t.references = s.references /\ t.uid \in Nat /\ n.uid <= t.uid
    <2>1. n \in Reader /\ n.uid \in Nat
      BY <1>12 DEF Moves, Reader
    <2>. HIDE DEF n
    <2>2. t = PushAdjacencyLevel(n, number)
      BY DEF n, c, number
    <2>3. Moves(n, t)
      BY <1>9, <2>1, <2>2, LevelsMove
    <2>. QED
      BY <1>11, <1>13, <2>3 DEF Moves, Reader
  <1>15. IdsOK(g, numbers, t.uid)
    <2>1. \A a \in Objects : s.ids[a] \in Nat /\ (s.ids[a] <= s.uid \/ s.ids[a] <= MaxUid)
                             /\ (h[a] = None => s.ids[a] = 0)
      BY <1>1 DEF IdsOK
    <2>2. number <= t.uid \/ number <= MaxUid
      <3>1. n.uid \in Nat
        BY <1>12 DEF Moves, Reader
      <3>. HIDE DEF n
      <3>. QED
        BY <1>3, <1>9, <1>12, <1>14, <3>1, BoundsAssumption
    <2>3. \A a \in Objects : g[a] = None => h[a] = None /\ a # o
      BY <1>7 DEF Live
    <2>. HIDE DEF h
    <2>4. \A a \in Objects : /\ numbers[a] <= t.uid \/ numbers[a] <= MaxUid
                             /\ g[a] = None => numbers[a] = 0
      BY <1>1, <1>10, <1>14, <2>1, <2>2, <2>3, BoundsAssumption
    <2>. QED
      BY <1>10, <2>4 DEF IdsOK
  <1>16. \A r \in s.references : Present(g, r[2])
    <2>1. ASSUME NEW r \in s.references PROVE Present(g, r[2])
      <3>1. Present(h, r[2]) /\ r[2] \in Objects \X Keys
        BY <1>1
      <3>2. r[2][1] \in Live(h)
        BY <3>1 DEF Present, Live
      <3>. QED
        BY <1>2, <1>7, <3>1, <3>2 DEF Present, Live
    <2>. QED
      BY <2>1
  <1>17. Orderly(t)
    <2>1. Good(g, t.uid, {})
      BY <1>8, <1>14, GoodLater
    <2>. QED
      BY <1>14, <1>15, <1>16, <2>1 DEF Orderly
  <1>18. \A k \in KeysOf(found) : /\ found[k].values = <<>> /\ found[k].origin = {}
                                  /\ DOMAIN found[k].values = {}
    BY <1>4, <1>5 DEF Unregistered
  <1>19. GoesOn(s, t)
    BY <1>2, <1>7, <1>10, <1>14, <1>18 DEF GoesOn, Live
  <1>20. StayFresh(s, t, None)
    <2>1. ASSUME NEW y \in Live(h), Fresh(h, y) PROVE Fresh(g, y)
      BY <1>2, <1>7, <1>18, <2>1 DEF Fresh, Live
    <2>. QED
      BY <1>14, <2>1 DEF StayFresh
  <1>. QED
    <2>1. o \in Live(t.heap) \ Live(s.heap) /\ Fresh(t.heap, o) /\ KeysOf(t.heap[o]) = KeysListed(d)
      BY <1>2, <1>5, <1>7, <1>8, <1>14
    <2>2. \A k \in KeysListed(d) : /\ Unregistered(t.heap[o][k], d.properties[k].type)
                                   /\ t.heap[o][k].values = <<>>
      BY <1>4, <1>5, <1>7, <1>14 DEF p
    <2>3. t.ids[o] = NumberOf(s, d.uid)
      BY <1>2, <1>10, <1>14 DEF number
    <2>4. CreateEmpty(s, d, o) \in Reader
      BY <1>11 DEF c
    <2>. QED
      BY <1>14, <1>17, <1>19, <1>20, <2>1, <2>2, <2>3, <2>4 DEF FilledOK, Follows

\* p may take the place of the property k of the object that is being read: but for
\* made, it holds nothing that this has not held.
Replaces(s, t, o, d, k, p, made) ==
    /\ p \in Property /\ Unregistered(p, d.properties[k].type)
    /\ Good(Replaced(t.heap, o, k, p), t.uid, {}) /\ made \notin Live(s.heap) /\ made # o
    /\ \A i \in DOMAIN p.values :
          \/ p.values[i] = made
          \/ \E j \in DOMAIN t.heap[o][k].values : p.values[i] = t.heap[o][k].values[j]

\* In w it has.
ReplacedIn(s, t, w, o, d, k, p) ==
    /\ FilledOK(s, w, o, d) /\ w.ok /\ w.uid = t.uid /\ w.ids = t.ids
    /\ w.references = t.references /\ w.stack = t.stack /\ w.edges = t.edges
    /\ w.heap = Replaced(t.heap, o, k, p) /\ Differs(w.heap, t.heap, o, k, p)

LEMMA FilledReplaced ==
    ASSUME NEW s \in Reader, NEW t, NEW o, NEW d, FilledOK(s, t, o, d), t.ok,
           NEW k \in KeysListed(d), NEW p, NEW made, Replaces(s, t, o, d, k, p, made),
           NEW w, w = [t EXCEPT !.heap = Replaced(t.heap, o, k, p)]
    PROVE  ReplacedIn(s, t, w, o, d, k, p)
  <1>. DEFINE h == t.heap
              g == Replaced(h, o, k, p)
  <1>1. /\ t \in Reader /\ s.uid <= t.uid /\ Follows(s, t) /\ Orderly(t) /\ h \in Heap /\ o \in Live(h)
        /\ o \in Objects /\ o \notin Live(s.heap) /\ Fresh(h, o) /\ KeysOf(h[o]) = KeysListed(d)
        /\ \A l \in KeysListed(d) : Unregistered(h[o][l], d.properties[l].type)
        /\ GoesOn(s, t) /\ StayFresh(s, t, None) /\ IdsOK(h, t.ids, t.uid)
        /\ \A r \in t.references : Present(h, r[2]) /\ r[2] \in Objects \X Keys
    BY DEF FilledOK, Follows, Orderly, Reader, Live, References
  <1>. USE DEF Replaces
  <1>2. Differs(g, h, o, k, p)
    <2>1. k \in Keys
      BY <1>1 DEF KeysOf
    <2>. QED
      BY <1>1, <2>1, ReplacedShape
  <1>3. /\ g \in Heap /\ Live(g) = Live(h) /\ KeysOf(g[o]) = KeysOf(h[o]) /\ g[o][k] = p
        /\ \A a \in Objects : a # o => g[a] = h[a] /\ KeysOf(g[a]) = KeysOf(h[a])
        /\ \A l \in Keys : l # k => g[o][l] = h[o][l]
    <2>1. k \in Keys /\ k \in KeysOf(h[o]) /\ KeysOf(g[o]) = KeysOf(h[o]) \cup {k}
      BY <1>1, <1>2 DEF KeysOf, Differs
    <2>2. KeysOf(g[o]) = KeysOf(h[o])
      BY <2>1
    <2>. HIDE DEF Replaces
    <2>. QED
      BY <1>2, <2>1, <2>2 DEF Differs
  <1>4. w = [t EXCEPT !.heap = g]
    OBVIOUS
  <1>. HIDE DEF g
  <1>5. /\ w \in Reader /\ w.heap = g /\ w.ids = t.ids /\ w.uid = t.uid /\ w.ok = t.ok
        /\ w.references = t.references /\ w.stack = t.stack /\ w.edges = t.edges
    BY <1>1, <1>3, <1>4 DEF Reader
  <1>. HIDE DEF h
  <1>6. \A y : y # made /\ Fresh(h, y) => Fresh(g, y)
    <2>1. ASSUME NEW y, y # made, Fresh(h, y), NEW a \in Live(g), NEW l \in KeysOf(g[a])
          PROVE  /\ \A i \in DOMAIN g[a][l].values : g[a][l].values[i] # y
                 /\ \A q \in g[a][l].origin : q[1] # y
      <3>1. a \in Live(h) /\ a \in Objects /\ l \in KeysOf(h[a]) /\ l \in Keys
        BY <1>3, <2>1 DEF Live, KeysOf
      <3>2. /\ \A i \in DOMAIN h[a][l].values : h[a][l].values[i] # y
            /\ \A q \in h[a][l].origin : q[1] # y
        BY <2>1, <3>1 DEF Fresh
      <3>3. CASE a = o /\ l = k
        BY <1>3, <2>1, <3>2, <3>3 DEF Unregistered, h
      <3>4. CASE ~ (a = o /\ l = k)
        <4>1. g[a][l] = h[a][l]
          BY <1>3, <3>1, <3>4
        <4>. QED
          BY <3>2, <4>1
      <3>. QED
        BY <3>3, <3>4
    <2>. QED
      BY <2>1 DEF Fresh
  <1>7. Orderly(w)
    <2>1. \A a \in Objects : g[a] = None => h[a] = None
      BY <1>3 DEF Live
    <2>2. IdsOK(g, t.ids, t.uid)
      BY <1>1, <2>1 DEF IdsOK, h
    <2>3. ASSUME NEW r \in t.references PROVE Present(g, r[2])
      <3>1. Present(h, r[2]) /\ r[2][1] \in Objects /\ r[2][2] \in Keys
        BY <1>1 DEF h
      <3>2. r[2][1] \in Live(h) /\ r[2][2] \in KeysOf(h[r[2][1]])
        BY <3>1 DEF Present, Live, KeysOf
      <3>3. r[2][1] \in Live(g) /\ r[2][2] \in KeysOf(g[r[2][1]])
        BY <1>3, <3>1, <3>2
      <3>. QED
        BY <3>3 DEF Present, Live, KeysOf
    <2>. QED
      BY <1>5, <2>2, <2>3 DEF Orderly, g, h
  <1>8. GoesOn(s, w)
    <2>1. \A a \in Live(s.heap) : g[a] = h[a] /\ t.ids[a] = s.ids[a] /\ h[a] = s.heap[a]
      BY <1>1, <1>3 DEF GoesOn, Live, h
    <2>2. ASSUME NEW a \in Live(g) \ Live(s.heap), NEW l \in KeysOf(g[a]),
                 NEW i \in DOMAIN g[a][l].values
          PROVE  g[a][l].values[i] \notin Live(s.heap)
      <3>1. a \in Live(h) \ Live(s.heap) /\ a \in Objects /\ l \in KeysOf(h[a]) /\ l \in Keys
        BY <1>3, <2>2 DEF Live, KeysOf
      <3>2. \A j \in DOMAIN h[a][l].values : h[a][l].values[j] \notin Live(s.heap)
        BY <1>1, <3>1 DEF GoesOn, h
      <3>3. CASE a = o /\ l = k
        BY <1>3, <2>2, <3>2, <3>3 DEF h
      <3>4. CASE ~ (a = o /\ l = k)
        <4>1. g[a][l] = h[a][l]
          BY <1>3, <3>1, <3>4
        <4>. QED
          BY <2>2, <3>2, <4>1
      <3>. QED
        BY <3>3, <3>4
    <2>3. \A a \in Live(s.heap) : w.heap[a] = s.heap[a] /\ w.ids[a] = s.ids[a]
      BY <1>5, <2>1
    <2>4. \A a \in Live(w.heap) \ Live(s.heap) : \A l \in KeysOf(w.heap[a]) :
             \A i \in DOMAIN w.heap[a][l].values : w.heap[a][l].values[i] \notin Live(s.heap)
      BY <1>5, <2>2
    <2>. QED
      BY <2>3, <2>4 DEF GoesOn
  <1>9. StayFresh(s, w, None)
    <2>1. \A y \in Live(s.heap) : y # None /\ Fresh(s.heap, y) => Fresh(h, y) /\ y # made
      BY <1>1 DEF StayFresh, h
    <2>. QED
      BY <1>5, <1>6, <2>1 DEF StayFresh
  <1>10. /\ o \in Live(g) \ Live(s.heap) /\ Fresh(g, o) /\ KeysOf(g[o]) = KeysListed(d)
         /\ \A l \in KeysListed(d) : Unregistered(g[o][l], d.properties[l].type)
    <2>1. \A l \in KeysListed(d) : l \in Keys
      BY <1>1 DEF KeysOf, h
    <2>. QED
      BY <1>1, <1>3, <1>6, <2>1 DEF h
  <1>11. FilledOK(s, w, o, d)
    BY <1>1, <1>5, <1>7, <1>8, <1>9, <1>10 DEF FilledOK, Follows
  <1>. QED
    BY <1>2, <1>5, <1>11 DEF h, g, ReplacedIn

\* A property with the attributes a document gives.
LEMMA AttributesFacts ==
    ASSUME NEW q \in Property, NEW D, NEW p, ListedOK(p, D), NEW place, Observed(q, place),
           q.kept = 0
    PROVE  LET c == Attributes(q, p)
           IN  /\ c \in Property /\ c.type = q.type /\ c.values = q.values /\ c.origin = q.origin
               /\ c.kept = 0 /\ c.uid = p.uid /\ c.subjects = q.subjects /\ Observed(c, place)
               /\ c.name = p.name /\ c.capacity = p.capacity /\ c.replicate = p.replicate
               /\ c.writable = p.writable
               /\ \A u : UidOK(c, u)
  <1>. DEFINE c == Attributes(q, p)
  <1>1. /\ p.uid \in Nat /\ p.uid <= MaxUid /\ p.name \in Keys \cup {0} /\ p.capacity \in Indices
        /\ p.replicate \in BOOLEAN /\ p.writable \in BOOLEAN
    BY DEF ListedOK
  <1>2. c = [q EXCEPT !.uid = p.uid, !.name = p.name, !.capacity = p.capacity,
                      !.replicate = p.replicate, !.writable = p.writable]
    BY DEF Attributes
  <1>. HIDE DEF c
  <1>3. /\ c \in Property /\ c.type = q.type /\ c.values = q.values /\ c.origin = q.origin
        /\ c.kept = q.kept /\ c.uid = p.uid /\ c.subjects = q.subjects
        /\ c.name = p.name /\ c.capacity = p.capacity /\ c.replicate = p.replicate
        /\ c.writable = p.writable
    BY <1>1, <1>2 DEF Property
  <1>4. Observed(c, place) /\ \A u : UidOK(c, u)
    BY <1>1, <1>3, SameObserved DEF UidOK
  <1>. QED
    BY <1>3, <1>4 DEF c

\* The attributes of a property are overwritten.
LEMMA AttributesOK ==
    ASSUME NEW s \in Reader, NEW t, NEW o, NEW d, FilledOK(s, t, o, d), t.ok,
           NEW k \in KeysListed(d), NEW D, NEW p, p = d.properties[k], ListedOK(p, D),
           NEW w, w = [t EXCEPT !.heap = Replaced(t.heap, o, k, Attributes(t.heap[o][k], p))]
    PROVE  ReplacedIn(s, t, w, o, d, k, Attributes(t.heap[o][k], p))
  <1>. DEFINE h == t.heap
              q == h[o][k]
              c == Attributes(q, p)
              m == [h[o] EXCEPT ![k] = c]
              g == Replaced(h, o, k, c)
  <1>1. /\ t \in Reader /\ Good(h, t.uid, {}) /\ h \in Heap /\ t.uid \in Nat /\ o \in Live(h)
        /\ o \in Objects /\ Fresh(h, o) /\ KeysOf(h[o]) = KeysListed(d)
        /\ \A l \in KeysListed(d) : Unregistered(h[o][l], d.properties[l].type)
        /\ GoesOn(s, t) /\ o \notin Live(s.heap)
    BY DEF FilledOK, Follows, Orderly, Reader, Live, Good
  <1>2. /\ k \in Keys /\ k \in KeysOf(h[o]) /\ q \in Property /\ Unregistered(q, p.type)
        /\ h[o] \in PropertyMap
    BY <1>1, LiveFacts
  <1>3. \A a \in Live(h) : \A l \in KeysOf(h[a]) : PropertyOK(h, t.uid, {}, a, l)
    BY <1>1 DEF Good
  <1>. HIDE DEF h
  <1>4. /\ c \in Property /\ c.type = q.type /\ c.values = q.values /\ c.origin = q.origin
        /\ c.kept = 0 /\ c.uid = p.uid /\ c.subjects = q.subjects /\ Observed(c, <<o, k>>)
        /\ UidOK(c, t.uid) /\ c # None
    <2>1. Observed(q, <<o, k>>) /\ q.kept = 0
      BY <1>1, <1>2, <1>3 DEF PropertyOK, Unregistered
    <2>2. c \in Property => c # None
      BY PropertyFacts
    <2>. QED
      BY <1>2, <2>1, <2>2, AttributesFacts
  <1>5. /\ m \in PropertyMap /\ KeysOf(m) = KeysOf(h[o]) /\ m[k] = c
        /\ \A l \in Keys : l # k => m[l] = h[o][l]
    <2>. HIDE DEF c
    <2>1. /\ m \in PropertyMap /\ m[k] = c
          /\ \A l \in Keys : l # k => m[l] = h[o][l]
      BY <1>2, <1>4 DEF PropertyMap
    <2>. QED
      BY <1>2, <1>4, <2>1 DEF KeysOf
  <1>6. g = Placed(h, o, m)
    BY <1>1 DEF Placed, Replaced, Heap
  <1>. HIDE DEF c, m
  <1>7. Remakes(h, o, m, t.uid, {})
    <2>1. ASSUME NEW l \in KeysOf(m)
          PROVE  /\ m[l].type = h[o][l].type /\ m[l].values = h[o][l].values
                 /\ m[l].origin = h[o][l].origin
                 /\ UidOK(m[l], t.uid) /\ m[l].kept <= Len(m[l].subjects)
                 /\ Observed(m[l], <<o, l>>)
      <3>1. l \in Keys /\ l \in KeysOf(h[o]) /\ PropertyOK(h, t.uid, {}, o, l)
        BY <1>1, <1>3, <1>5 DEF KeysOf
      <3>2. CASE l = k
        <4>1. q.kept <= Len(q.subjects) /\ q.kept = 0
          BY <1>2, <3>1, <3>2 DEF PropertyOK, Unregistered
        <4>. QED
          BY <1>4, <1>5, <3>2, <4>1
      <3>3. CASE l # k
        <4>1. m[l] = h[o][l]
          BY <1>5, <3>1, <3>3
        <4>. QED
          BY <3>1, <4>1 DEF PropertyOK
      <3>. QED
        BY <3>2, <3>3
    <2>2. ASSUME NEW a \in Live(h), NEW l \in KeysOf(h[a]), NEW r \in h[a][l].origin
          PROVE  /\ At(Placed(h, o, m), r).uid <= t.uid
                 /\ At(Placed(h, o, m), r).uid < Placed(h, o, m)[a][l].uid
      <3>1. /\ r \in Objects \X Keys /\ At(h, r).uid <= t.uid /\ At(h, r).uid < h[a][l].uid
        BY <1>3, <2>2 DEF PropertyOK
      <3>2. a # o
        BY <1>1, <2>2 DEF Unregistered
      <3>3. r[1] # o /\ r[1] \in Objects
        BY <1>1, <2>2, <3>1 DEF Fresh
      <3>4. Placed(h, o, m)[a] = h[a] /\ Placed(h, o, m)[r[1]] = h[r[1]]
        BY <1>1, <2>2, <3>2, <3>3 DEF Placed, Heap, Live
      <3>5. At(Placed(h, o, m), r) = At(h, r)
        BY <3>4 DEF At
      <3>. QED
        BY <3>1, <3>4, <3>5
    <2>. QED
      BY <1>5, <2>1, <2>2 DEF Remakes
  <1>8. Good(g, t.uid, {})
    <2>1. t.uid <= t.uid /\ Good(h, t.uid, {})
      BY <1>1 DEF h
    <2>. QED
      BY <1>1, <1>6, <1>7, <2>1, RemadeGood
  <1>9. w = [t EXCEPT !.heap = Replaced(t.heap, o, k, c)]
    BY DEF h, c
  <1>10. None \notin Live(s.heap) /\ None # o
    BY <1>1, NoneAssumption DEF Live
  <1>11. Unregistered(c, d.properties[k].type)
    BY <1>2, <1>4 DEF Unregistered
  <1>12. \A i \in DOMAIN c.values : \E j \in DOMAIN h[o][k].values : c.values[i] = h[o][k].values[j]
    BY <1>4
  <1>. QED
    <2>. HIDE DEF q, g
    <2>1. c = Attributes(t.heap[o][k], p)
      BY DEF c, h, q
    <2>2. Good(Replaced(t.heap, o, k, c), t.uid, {})
      BY <1>8 DEF g, h
    <2>3. \A i \in DOMAIN c.values :
             \/ c.values[i] = None
             \/ \E j \in DOMAIN t.heap[o][k].values : c.values[i] = t.heap[o][k].values[j]
      BY <1>12 DEF h
    <2>4. Replaces(s, t, o, d, k, c, None)
      BY <1>4, <1>10, <1>11, <2>2, <2>3 DEF Replaces
    <2>. QED
      BY <1>9, <2>1, <2>4, FilledReplaced

\* A property with one more value.
Appended(q, made) == [q EXCEPT !.values = Append(@, made)]

AppendedOK(c, q, made) ==
           /\ c \in Property /\ c.type = q.type /\ c.uid = q.uid /\ c.origin = q.origin
           /\ c.kept = q.kept /\ c.subjects = q.subjects /\ c.name = q.name
           /\ c.capacity = q.capacity /\ c.replicate = q.replicate /\ c.writable = q.writable
           /\ c.values = Append(q.values, made)
           /\ DOMAIN c.values = 1..(Len(q.values) + 1) /\ Len(c.values) = Len(q.values) + 1
           /\ \A i \in DOMAIN c.values :
                 c.values[i] = IF i = Len(q.values) + 1 THEN made ELSE q.values[i]
           /\ Len(q.values) \in Nat /\ DOMAIN q.values = 1..Len(q.values)

LEMMA AppendedFacts ==
    ASSUME NEW q \in Property, NEW made \in Objects \cup {None}
    PROVE  AppendedOK(Appended(q, made), q, made)
  <1>. DEFINE values == Append(q.values, made)
              c == Appended(q, made)
  <1>1. q.values \in Seq(Objects \cup {None}) /\ Len(q.values) \in Nat
        /\ DOMAIN q.values = 1..Len(q.values)
    BY PropertyFacts
  <1>2. /\ values \in Seq(Objects \cup {None}) /\ Len(values) = Len(q.values) + 1
        /\ DOMAIN values = 1..(Len(q.values) + 1)
        /\ \A i \in 1..(Len(q.values) + 1) :
              values[i] = IF i = Len(q.values) + 1 THEN made ELSE q.values[i]
    BY <1>1
  <1>. HIDE DEF values
  <1>3. /\ c \in Property /\ c.type = q.type /\ c.uid = q.uid /\ c.origin = q.origin
        /\ c.kept = q.kept /\ c.subjects = q.subjects /\ c.name = q.name
        /\ c.capacity = q.capacity /\ c.replicate = q.replicate /\ c.writable = q.writable
        /\ c.values = values
    <2>1. c = [q EXCEPT !.values = values]
      BY DEF values, Appended
    <2>. HIDE DEF c
    <2>. QED
      BY <1>2, <2>1 DEF Property
  <1>4. values = Append(q.values, made)
    BY DEF values
  <1>. HIDE DEF c
  <1>5. AppendedOK(c, q, made)
    BY <1>1, <1>2, <1>3, <1>4 DEF AppendedOK
  <1>. QED
    BY <1>5 DEF c

\* An object in the list of a property has been read.
LEMMA FilledFurther ==
    ASSUME NEW s \in Reader, NEW t, NEW o, NEW d, FilledOK(s, t, o, d), t.ok, NEW r, ReadOK(t, r)
    PROVE  /\ FilledOK(s, r, o, d)
           /\ r.ok => /\ r.heap[o] = t.heap[o] /\ r.ids[o] = t.ids[o]
                      /\ r.made \in Live(r.heap) /\ r.made \notin Live(t.heap)
                      /\ r.made \notin Live(s.heap) /\ r.made # o /\ Fresh(r.heap, r.made)
                      /\ Live(s.heap) \subseteq Live(t.heap) /\ Live(t.heap) \subseteq Live(r.heap)
  <1>1. /\ t \in Reader /\ s.uid \in Nat /\ t.uid \in Nat /\ s.uid <= t.uid /\ Follows(s, t)
        /\ o \in Live(t.heap) /\ o \notin Live(s.heap) /\ Fresh(t.heap, o)
        /\ KeysOf(t.heap[o]) = KeysListed(d) /\ o # None
        /\ \A l \in KeysListed(d) : Unregistered(t.heap[o][l], d.properties[l].type)
        /\ GoesOn(s, t) /\ StayFresh(s, t, None) /\ t.heap \in Heap /\ s.heap \in Heap
    BY NoneAssumption DEF FilledOK, Follows, Orderly, Reader, Live
  <1>2. r \in Reader /\ r.uid \in Nat /\ s.uid <= r.uid
    BY <1>1 DEF ReadOK, Reader
  <1>3. CASE ~ r.ok
    BY <1>2, <1>3 DEF FilledOK
  <1>4. CASE r.ok
    <2>1. /\ Follows(t, r) /\ Orderly(r) /\ GoesOn(t, r) /\ StayFresh(t, r, None) /\ r.heap \in Heap
          /\ r.made \in Live(r.heap) /\ r.made \notin Live(t.heap) /\ Fresh(r.heap, r.made)
      BY <1>4 DEF ReadOK, Follows, Orderly, Reader
    <2>2. GoesOn(s, r) /\ Live(s.heap) \subseteq Live(t.heap) /\ Live(t.heap) \subseteq Live(r.heap)
      <3>1. GoesOn(s, r) /\ Live(s.heap) \subseteq Live(t.heap)
        BY <1>1, <2>1, GoesOnFurther
      <3>2. \A a \in Live(t.heap) : r.heap[a] = t.heap[a]
        BY <2>1 DEF GoesOn
      <3>. QED
        BY <3>1, <3>2 DEF Live
    <2>3. StayFresh(s, r, None)
      BY <1>1, <2>1, <2>2 DEF StayFresh
    <2>4. r.heap[o] = t.heap[o] /\ r.ids[o] = t.ids[o]
      BY <1>1, <2>1 DEF GoesOn
    <2>5. Fresh(r.heap, o)
      BY <1>1, <2>1 DEF StayFresh
    <2>6. FilledOK(s, r, o, d)
      BY <1>1, <1>2, <2>1, <2>2, <2>3, <2>4, <2>5 DEF FilledOK, Follows
    <2>. QED
      BY <1>1, <2>1, <2>2, <2>4, <2>6
  <1>. QED
    BY <1>3, <1>4

\* The object it made, or null, comes to the values of the property.
LEMMA ValueAppended ==
    ASSUME NEW s \in Reader, NEW t, NEW o, NEW d, FilledOK(s, t, o, d), t.ok,
           NEW k \in KeysListed(d), d.properties[k].type = "object", NEW made, made \notin Live(s.heap),
           made # o, made = None \/ (made \in Live(t.heap) /\ Fresh(t.heap, made)),
           NEW w, w = [t EXCEPT !.heap[o][k].values = Append(@, made)]
    PROVE  ReplacedIn(s, t, w, o, d, k, Appended(t.heap[o][k], made))
  <1>. DEFINE h == t.heap
              q == h[o][k]
              c == Appended(q, made)
  <1>1. /\ t \in Reader /\ Good(h, t.uid, {}) /\ h \in Heap /\ o \in Live(h)
        /\ o \in Objects /\ KeysOf(h[o]) = KeysListed(d)
        /\ \A l \in KeysListed(d) : Unregistered(h[o][l], d.properties[l].type)
    BY DEF FilledOK, Follows, Orderly, Reader, Live
  <1>2. /\ k \in Keys /\ k \in KeysOf(h[o]) /\ q \in Property /\ Unregistered(q, "object")
        /\ h[o] \in PropertyMap
    BY <1>1, LiveFacts
  <1>3. PropertyOK(h, t.uid, {}, o, k) /\ made \in Objects \cup {None}
    BY <1>1, <1>2 DEF Good, Live
  <1>4. /\ c \in Property /\ c.type = q.type /\ c.uid = q.uid /\ c.origin = q.origin
        /\ c.kept = q.kept /\ c.subjects = q.subjects
        /\ DOMAIN c.values = 1..(Len(q.values) + 1)
        /\ \A i \in DOMAIN c.values :
              c.values[i] = IF i = Len(q.values) + 1 THEN made ELSE q.values[i]
        /\ Len(q.values) \in Nat /\ DOMAIN q.values = 1..Len(q.values)
    <2>. HIDE DEF q
    <2>1. AppendedOK(c, q, made)
      BY <1>2, <1>3, AppendedFacts
    <2>. HIDE DEF c
    <2>. QED
      BY <2>1 DEF AppendedOK
  <1>5. t.heap = h
    OBVIOUS
  <1>6. w = [t EXCEPT !.heap = Replaced(t.heap, o, k, c)]
    BY DEF Replaced, Appended
  <1>. HIDE DEF h, c
  <1>7. \A i \in DOMAIN c.values : i \in DOMAIN q.values \/ i = Len(q.values) + 1
    BY <1>4
  <1>8. Successor(h, o, k, c, Len(q.values) + 1)
    <2>1. Observed(c, <<o, k>>) /\ c.kept <= Len(c.subjects)
      BY <1>3, <1>4, SameObserved DEF PropertyOK
    <2>2. made # None => h[made] # None /\ Unheld(h, made)
      BY <1>1, <1>3, <1>5, FreshUnheld DEF Live
    <2>3. ASSUME NEW i \in DOMAIN c.values, c.values[i] # None
          PROVE  \/ i \in DOMAIN q.values /\ c.values[i] = q.values[i]
                 \/ i = Len(q.values) + 1 /\ h[c.values[i]] # None /\ Unheld(h, c.values[i])
      BY <1>4, <1>7, <2>2, <2>3
    <2>4. c.type = "object" /\ (q.kept = 0 => c.kept = 0)
      BY <1>2, <1>4 DEF Unregistered
    <2>. QED
      BY <1>4, <2>1, <2>3, <2>4 DEF Successor
  <1>9. Good(Replaced(h, o, k, c), t.uid, {})
    BY <1>1, <1>2, <1>8, ReplacedGood
  <1>10. \A i \in DOMAIN c.values :
             \/ c.values[i] = made
             \/ \E j \in DOMAIN q.values : c.values[i] = q.values[j]
    BY <1>4, <1>7
  <1>11. Replaces(s, t, o, d, k, c, made)
    <2>1. Unregistered(c, d.properties[k].type)
      BY <1>2, <1>4 DEF Unregistered
    <2>. QED
      BY <1>4, <1>9, <1>10, <2>1, <1>5 DEF Replaces
  <1>12. ReplacedIn(s, t, w, o, d, k, c)
    BY <1>6, <1>11, FilledReplaced
  <1>. QED
    BY <1>12, <1>5 DEF c

LEMMA ReadValueOK ==
    ASSUME NEW inner, NEW D, ReadsOK(inner, D), NEW s \in Reader, NEW t, NEW o, NEW d,
           FilledOK(s, t, o, d), t.ok, NEW k \in KeysListed(d), d.properties[k].type = "object",
           NEW v \in D \cup {None}
    PROVE  FilledOK(s, ReadValue(inner, t, o, k, v), o, d)
  <1>. DEFINE r == IF v = None THEN [t EXCEPT !.made = None] ELSE inner[<<t, v>>]
              w == ReadValue(inner, t, o, k, v)
  <1>1. w = IF r.ok THEN [r EXCEPT !.heap[o][k].values = Append(@, r.made)] ELSE r
    BY DEF ReadValue
  <1>2. t \in Reader /\ Orderly(t) /\ o \in Live(t.heap)
    BY DEF FilledOK, Follows
  <1>3. /\ FilledOK(s, r, o, d)
        /\ r.ok => /\ r.made \notin Live(s.heap) /\ r.made # o
                   /\ r.made = None \/ (r.made \in Live(r.heap) /\ Fresh(r.heap, r.made))
    <2>1. CASE v = None
      <3>1. r = [t EXCEPT !.made = None]
        BY <2>1
      <3>. HIDE DEF r
      <3>2. /\ r \in Reader /\ r.made = None /\ r.heap = t.heap /\ r.ids = t.ids /\ r.uid = t.uid
            /\ r.ok = t.ok /\ r.references = t.references
        BY <1>2, <3>1 DEF Reader
      <3>3. FilledOK(s, r, o, d)
        BY <3>2 DEF FilledOK, Follows, Orderly, GoesOn, StayFresh
      <3>. QED
        BY <1>2, <3>2, <3>3, NoneAssumption DEF Live
    <2>2. CASE v # None
      <3>1. r = inner[<<t, v>>] /\ v \in D
        BY <2>2
      <3>. HIDE DEF r
      <3>2. ReadOK(t, r)
        BY <1>2, <3>1 DEF ReadsOK
      <3>. QED
        BY <3>2, FilledFurther
    <2>. QED
      BY <2>1, <2>2
  <1>. HIDE DEF r, w
  <1>4. CASE ~ r.ok
    BY <1>1, <1>3, <1>4 DEF w
  <1>5. CASE r.ok
    <2>. DEFINE made == r.made
    <2>1. w = [r EXCEPT !.heap[o][k].values = Append(@, made)]
      BY <1>1, <1>5
    <2>2. /\ made \notin Live(s.heap) /\ made # o
          /\ made = None \/ (made \in Live(r.heap) /\ Fresh(r.heap, made))
      BY <1>3, <1>5
    <2>. HIDE DEF made
    <2>3. ReplacedIn(s, r, w, o, d, k, Appended(r.heap[o][k], made))
      BY <1>3, <1>5, <2>1, <2>2, ValueAppended
    <2>. QED
      BY <2>3 DEF ReplacedIn, w
  <1>. QED
    BY <1>4, <1>5

\* The list of a property is read from the first to the last.
ReadsValues(f, inner, pushed, o, k, p, N) ==
    \A n \in 0..N : f[n] = IF n = 0 THEN [pushed EXCEPT !.heap[o][k] = Attributes(@, p)]
            ELSE IF ~f[n - 1].ok THEN f[n - 1]
            ELSE ReadValue(inner, f[n - 1], o, k, p.list[n])

LEMMA ValuesRecursion ==
    ASSUME NEW inner, NEW s, NEW o, NEW k, NEW p, p.list # Missing, NEW N \in Nat, N = Len(p.list),
           NEW pushed, pushed = PushAdjacencyLevel(Numbered(s, p.uid), NumberOf(s, p.uid))
    PROVE  \E f : ReadProperty(inner, s, o, k, p) = PopAdjacencyLevel(f[N])
                  /\ ReadsValues(f, inner, pushed, o, k, p, N)
  <1>. DEFINE level(n, g) == IF n = 0 THEN [pushed EXCEPT !.heap[o][k] = Attributes(@, p)]
            ELSE IF ~g.ok THEN g
            ELSE ReadValue(inner, g, o, k, p.list[n])
              P(m) == \E f : f = [n \in 0..m |-> level(n, f[n - 1])]
              S == {m \in 0..N : P(m)}
  <1>1. \A g, h : level(0, g) = level(0, h)
    OBVIOUS
  <1>. HIDE DEF level
  <1>2. P(0)
    <2>. DEFINE f == [n \in 0..0 |-> level(0, 0)]
    <2>1. f = [n \in 0..0 |-> level(n, f[n - 1])]
      <3>1. level(0, 0) = level(0, f[-1])
        BY <1>1
      <3>. QED
        BY <3>1
    <2>. QED
      BY <2>1
  <1>3. ASSUME NEW m \in 1..N, P(m - 1) PROVE P(m)
    <2>1. PICK f : f = [n \in 0..(m - 1) |-> level(n, f[n - 1])]
      BY <1>3
    <2>. DEFINE g == [n \in 0..m |-> IF n = m THEN level(m, f[m - 1]) ELSE f[n]]
    <2>2. ASSUME NEW n \in 0..m PROVE g[n] = level(n, g[n - 1])
      <3>1. CASE n = m
        <4>1. g[n - 1] = f[n - 1]
          BY <3>1
        <4>. QED
          BY <3>1, <4>1
      <3>2. CASE n # m
        <4>1. n \in 0..(m - 1) /\ g[n] = f[n] /\ f[n] = level(n, f[n - 1])
          BY <2>1, <3>2
        <4>2. CASE n = 0
          BY <1>1, <4>1, <4>2
        <4>3. CASE n # 0
          <5>1. g[n - 1] = f[n - 1]
            BY <3>2, <4>3
          <5>. QED
            BY <4>1, <5>1
        <4>. QED
          BY <4>2, <4>3
      <3>. QED
        BY <3>1, <3>2
    <2>3. g = [n \in 0..m |-> level(n, g[n - 1])]
      <3>. HIDE DEF g
      <3>1. DOMAIN g = 0..m /\ g = [n \in 0..m |-> g[n]]
        BY DEF g
      <3>. QED
        BY <2>2, <3>1
    <2>. QED
      BY <2>3
  <1>. HIDE DEF P
  <1>4. 0 \in S /\ \A m \in 1..N : m - 1 \in S => m \in S
    BY <1>2, <1>3
  <1>5. N \in S
    <2>1. 0..N \subseteq S
      BY <1>4, Induction
    <2>. QED
      BY <2>1
  <1>. DEFINE F == CHOOSE f : f = [n \in 0..N |-> IF n = 0 THEN [pushed EXCEPT !.heap[o][k] = Attributes(@, p)]
            ELSE IF ~f[n - 1].ok THEN f[n - 1]
            ELSE ReadValue(inner, f[n - 1], o, k, p.list[n])]
  <1>6. F = [n \in 0..N |-> level(n, F[n - 1])]
    <2>1. P(N)
      BY <1>5
    <2>. QED
      BY <2>1 DEF P, level
  <1>7. ReadProperty(inner, s, o, k, p) = PopAdjacencyLevel(F[N])
    BY DEF ReadProperty
  <1>. HIDE DEF F
  <1>8. \A n \in 0..N : F[n] = level(n, F[n - 1])
    BY <1>6
  <1>9. ReadsValues(F, inner, pushed, o, k, p, N)
    BY <1>8 DEF level, ReadsValues
  <1>. QED
    BY <1>7, <1>9

\* The state in which the attributes of a property are read.
LEMMA PushedFacts ==
    ASSUME NEW s \in Reader, NEW t, NEW o, NEW d, FilledOK(s, t, o, d), NEW given \in Nat
    PROVE  LET pushed == PushAdjacencyLevel(Numbered(t, given), NumberOf(t, given))
           IN  /\ Moves(t, pushed) /\ FilledOK(s, pushed, o, d)
               /\ pushed.stack = Append(t.stack, NumberOf(t, given))
               /\ pushed.edges = IF t.stack = <<>> THEN t.edges
                                 ELSE Append(t.edges, <<t.stack[Len(t.stack)], NumberOf(t, given)>>)
  <1>. DEFINE n == Numbered(t, given)
              number == NumberOf(t, given)
              pushed == PushAdjacencyLevel(n, number)
  <1>1. t \in Reader
    BY DEF FilledOK
  <1>2. Moves(t, n) /\ n.stack = t.stack /\ n.edges = t.edges /\ number \in Nat
    BY <1>1, NumberedFacts
  <1>3. n \in Reader
    BY <1>2 DEF Moves
  <1>. HIDE DEF n, number
  <1>4. /\ Moves(n, pushed) /\ pushed.stack = Append(n.stack, number)
        /\ pushed.edges = IF n.stack = <<>> THEN n.edges
                          ELSE Append(n.edges, <<n.stack[Len(n.stack)], number>>)
    BY <1>2, <1>3, LevelsFacts
  <1>. HIDE DEF pushed
  <1>5. Moves(t, pushed)
    BY <1>1, <1>2, <1>4, MovesFurther
  <1>6. FilledOK(s, pushed, o, d)
    BY <1>5, FilledMoves
  <1>. QED
    BY <1>2, <1>4, <1>5, <1>6 DEF pushed, n, number

LEMMA ReadPropertyOK ==
    ASSUME NEW inner, NEW D, ReadsOK(inner, D), NEW s \in Reader, NEW t, NEW o, NEW d,
           FilledOK(s, t, o, d), t.ok, NEW k \in KeysListed(d), NEW p, p = d.properties[k],
           ListedOK(p, D)
    PROVE  FilledOK(s, ReadProperty(inner, t, o, k, p), o, d)
  <1>. DEFINE pushed == PushAdjacencyLevel(Numbered(t, p.uid), NumberOf(t, p.uid))
  <1>1. p.uid \in Nat
    BY DEF ListedOK
  <1>2. Moves(t, pushed) /\ FilledOK(s, pushed, o, d)
    BY <1>1, PushedFacts
  <1>3. pushed \in Reader /\ pushed.ok
    BY <1>2 DEF Moves
  <1>. HIDE DEF pushed
  <1>4. CASE p.list = Missing
    <2>1. ReadProperty(inner, t, o, k, p) = Thrown(pushed)
      BY <1>4 DEF ReadProperty, pushed
    <2>. QED
      BY <1>2, <1>3, <2>1, ThrownFacts DEF FilledOK
  <1>5. CASE p.list # Missing
    <2>. DEFINE N == Len(p.list)
    <2>1. /\ p.list \in Seq(D \cup {None}) /\ N \in Nat /\ (p.type # "object" => p.list = <<>>)
          /\ \A i \in 1..N : p.list[i] \in D \cup {None} /\ p.type = "object"
      <3>1. p.list \in Seq(D \cup {None}) /\ (p.type # "object" => p.list = <<>>)
        BY <1>5 DEF ListedOK
      <3>. QED
        BY <3>1
    <2>2. PICK f : ReadProperty(inner, t, o, k, p) = PopAdjacencyLevel(f[N])
                   /\ ReadsValues(f, inner, pushed, o, k, p, N)
      BY <1>5, <2>1, ValuesRecursion DEF pushed
    <2>. DEFINE S == {i \in 0..N : FilledOK(s, f[i], o, d)}
    <2>. HIDE DEF N
    <2>3. 0 \in S
      <3>1. 0 \in 0..N
        BY <2>1
      <3>2. f[0] = [pushed EXCEPT !.heap[o][k] = Attributes(@, p)]
        BY <2>2, <3>1 DEF ReadsValues
      <3>3. f[0] = [pushed EXCEPT !.heap = Replaced(pushed.heap, o, k, Attributes(pushed.heap[o][k], p))]
        BY <3>2 DEF Replaced
      <3>4. FilledOK(s, f[0], o, d)
        BY <1>2, <1>3, <3>3, AttributesOK DEF ReplacedIn
      <3>. QED
        BY <3>1, <3>4
    <2>4. ASSUME NEW i \in 1..N, i - 1 \in S PROVE i \in S
      <3>1. i \in 0..N /\ i # 0 /\ FilledOK(s, f[i - 1], o, d) /\ p.list[i] \in D \cup {None}
            /\ p.type = "object"
        BY <2>1, <2>4
      <3>2. f[i] = IF ~f[i - 1].ok THEN f[i - 1] ELSE ReadValue(inner, f[i - 1], o, k, p.list[i])
        BY <2>2, <3>1 DEF ReadsValues
      <3>3. CASE ~f[i - 1].ok
        BY <3>1, <3>2, <3>3
      <3>4. CASE f[i - 1].ok
        <4>1. FilledOK(s, ReadValue(inner, f[i - 1], o, k, p.list[i]), o, d)
          BY <3>1, <3>4, ReadValueOK
        <4>. QED
          BY <3>1, <3>2, <3>4, <4>1
      <3>. QED
        BY <3>3, <3>4
    <2>5. FilledOK(s, f[N], o, d)
      <3>1. 0..N \subseteq S
        BY <2>1, <2>3, <2>4, Induction
      <3>2. N \in S
        BY <2>1, <3>1
      <3>. QED
        BY <3>2
    <2>6. f[N] \in Reader
      BY <2>5 DEF FilledOK
    <2>7. Moves(f[N], PopAdjacencyLevel(f[N]))
      BY <2>6, LevelsPop
    <2>. QED
      BY <2>2, <2>5, <2>7, FilledMoves
  <1>. QED
    BY <1>4, <1>5

\* An object whose properties have been read.
ReadEnd(r, o) ==
    IF ~r.ok THEN r
    ELSE PopAdjacencyLevel([r EXCEPT !.references = Referring(@, r.heap, o), !.made = o])

\* The properties of an object are read in the order of their ids.
ReadsMap(f, inner, begun, o, d, N) ==
    \A n \in 0..N : f[n] = IF n = 0 THEN begun
            ELSE IF ~f[n - 1].ok \/ n \notin KeysListed(d) THEN f[n - 1]
            ELSE ReadProperty(inner, f[n - 1], o, n, d.properties[n])

LEMMA MapRecursion ==
    ASSUME NEW inner, NEW s, NEW d, d # Missing, HasSlot(s.heap), d.properties # Missing,
           NEW N \in Nat, N = Cardinality(Keys), NEW o, o = FreeSlot(s.heap),
           NEW begun, begun = PushAdjacencyLevel(Numbered(CreateEmpty(s, d, o), d.uid),
                                                 NumberOf(s, d.uid))
    PROVE  \E f : ReadMap(inner, s, d) = ReadEnd(f[N], o)
                  /\ ReadsMap(f, inner, begun, o, d, N)
  <1>. DEFINE level(n, g) == IF n = 0 THEN begun
            ELSE IF ~g.ok \/ n \notin KeysListed(d) THEN g
            ELSE ReadProperty(inner, g, o, n, d.properties[n])
              P(m) == \E f : f = [n \in 0..m |-> level(n, f[n - 1])]
              S == {m \in 0..N : P(m)}
  <1>1. \A g, h : level(0, g) = level(0, h)
    OBVIOUS
  <1>. HIDE DEF level
  <1>2. P(0)
    <2>. DEFINE f == [n \in 0..0 |-> level(0, 0)]
    <2>1. f = [n \in 0..0 |-> level(n, f[n - 1])]
      <3>1. level(0, 0) = level(0, f[-1])
        BY <1>1
      <3>. QED
        BY <3>1
    <2>. QED
      BY <2>1
  <1>3. ASSUME NEW m \in 1..N, P(m - 1) PROVE P(m)
    <2>1. PICK f : f = [n \in 0..(m - 1) |-> level(n, f[n - 1])]
      BY <1>3
    <2>. DEFINE g == [n \in 0..m |-> IF n = m THEN level(m, f[m - 1]) ELSE f[n]]
    <2>2. ASSUME NEW n \in 0..m PROVE g[n] = level(n, g[n - 1])
      <3>1. CASE n = m
        <4>1. g[n - 1] = f[n - 1]
          BY <3>1
        <4>. QED
          BY <3>1, <4>1
      <3>2. CASE n # m
        <4>1. n \in 0..(m - 1) /\ g[n] = f[n] /\ f[n] = level(n, f[n - 1])
          BY <2>1, <3>2
        <4>2. CASE n = 0
          BY <1>1, <4>1, <4>2
        <4>3. CASE n # 0
          <5>1. g[n - 1] = f[n - 1]
            BY <3>2, <4>3
          <5>. QED
            BY <4>1, <5>1
        <4>. QED
          BY <4>2, <4>3
      <3>. QED
        BY <3>1, <3>2
    <2>3. g = [n \in 0..m |-> level(n, g[n - 1])]
      <3>. HIDE DEF g
      <3>1. DOMAIN g = 0..m /\ g = [n \in 0..m |-> g[n]]
        BY DEF g
      <3>. QED
        BY <2>2, <3>1
    <2>. QED
      BY <2>3
  <1>. HIDE DEF P
  <1>4. 0 \in S /\ \A m \in 1..N : m - 1 \in S => m \in S
    BY <1>2, <1>3
  <1>5. N \in S
    <2>1. 0..N \subseteq S
      BY <1>4, Induction
    <2>. QED
      BY <2>1
  <1>. DEFINE F == CHOOSE f : f = [n \in 0..N |-> IF n = 0 THEN begun
            ELSE IF ~f[n - 1].ok \/ n \notin KeysListed(d) THEN f[n - 1]
            ELSE ReadProperty(inner, f[n - 1], o, n, d.properties[n])]
  <1>6. F = [n \in 0..N |-> level(n, F[n - 1])]
    <2>1. P(N)
      BY <1>5
    <2>. QED
      BY <2>1 DEF P, level
  <1>7. ReadMap(inner, s, d) = ReadEnd(F[N], o)
    BY DEF ReadMap, ReadEnd
  <1>. HIDE DEF F
  <1>8. \A n \in 0..N : F[n] = level(n, F[n - 1])
    BY <1>6
  <1>9. ReadsMap(F, inner, begun, o, d, N)
    BY <1>8 DEF level, ReadsMap
  <1>. QED
    BY <1>7, <1>9

LEMMA KeysFacts == Cardinality(Keys) \in Nat /\ \A k : k \in Keys <=> k \in 1..Cardinality(Keys)
  <1>1. IsFiniteSet(Keys)
    BY KeysAssumption
  <1>2. Cardinality(Keys) \in Nat
    BY <1>1, FS_CardinalityType
  <1>. QED
    BY <1>2, NumberedAssumption

LEMMA ReferringFacts ==
    ASSUME NEW h \in Heap, NEW o \in Live(h), NEW references \in References,
           \A r \in references : Present(h, r[2])
    PROVE  /\ Referring(references, h, o) \in References
           /\ \A r \in Referring(references, h, o) : Present(h, r[2])
  <1>. DEFINE keys == KeysOf(h[o])
              Uid(k) == h[o][k].uid
              last == {k \in keys : \A j \in keys : Uid(j) = Uid(k) => j <= k}
              new == {<<Uid(k), <<o, k>>>> : k \in last}
              old == {r \in references : \A k \in keys : r[1] # Uid(k)}
  <1>1. Referring(references, h, o) = old \cup new
    BY DEF Referring
  <1>2. ASSUME NEW r \in old PROVE r \in Nat \X (Objects \X Keys) /\ Present(h, r[2])
    BY <1>2 DEF References
  <1>3. ASSUME NEW r \in new PROVE r \in Nat \X (Objects \X Keys) /\ Present(h, r[2])
    <2>1. PICK k \in last : r = <<Uid(k), <<o, k>>>>
      BY <1>3
    <2>2. k \in keys
      BY <2>1
    <2>3. o \in Objects /\ k \in Keys /\ h[o][k] # None /\ h[o] # None /\ h[o][k] \in Property
      BY <2>2, LiveFacts
    <2>4. Uid(k) \in Nat
      BY <2>3, PropertyFacts
    <2>5. r[2] = <<o, k>> /\ r[2][1] = o /\ r[2][2] = k
      BY <2>1
    <2>6. Present(h, r[2])
      BY <2>3, <2>5 DEF Present
    <2>7. r \in Nat \X (Objects \X Keys)
      <3>. HIDE DEF Uid, last
      <3>. QED
        BY <2>1, <2>3, <2>4
    <2>. QED
      BY <2>6, <2>7
  <1>. HIDE DEF old, new
  <1>. QED
    BY <1>1, <1>2, <1>3 DEF References

LEMMA ReadMapOK ==
    ASSUME NEW m \in Nat \ {0}, NEW inner, ReadsOK(inner, DocumentsTo(m - 1)),
           NEW s, Orderly(s), s.ok, NEW d \in DocumentsTo(m)
    PROVE  ReadOK(s, ReadMap(inner, s, d))
  <1>. DEFINE o == FreeSlot(s.heap)
              begun == PushAdjacencyLevel(Numbered(CreateEmpty(s, d, o), d.uid),
                                          NumberOf(s, d.uid))
              N == Cardinality(Keys)
  <1>1. s \in Reader /\ s.uid \in Nat
    BY DEF Orderly, Reader
  <1>2. CASE d = Missing \/ ~HasSlot(s.heap)
    <2>1. ReadMap(inner, s, d) = Thrown(s)
      BY <1>2 DEF ReadMap
    <2>. QED
      BY <1>1, <2>1, ThrownFacts DEF ReadOK
  <1>3. CASE d # Missing /\ HasSlot(s.heap)
    <2>1. FilledOK(s, begun, o, d) /\ begun.ok
      BY <1>3, BegunOK
    <2>. HIDE DEF begun, N
    <2>2. CASE d.properties = Missing
      <3>1. ReadMap(inner, s, d) = Thrown(begun)
        BY <1>3, <2>2 DEF ReadMap, begun
      <3>2. begun \in Reader /\ s.uid <= begun.uid
        BY <2>1 DEF FilledOK
      <3>. QED
        BY <3>1, <3>2, ThrownFacts DEF ReadOK
    <2>3. CASE d.properties # Missing
      <3>1. N \in Nat /\ \A k \in 1..N : k \in Keys
        BY KeysFacts DEF N
      <3>2. PICK f : /\ ReadMap(inner, s, d) = ReadEnd(f[N], o)
                     /\ ReadsMap(f, inner, begun, o, d, N)
        BY <1>3, <2>3, <3>1, MapRecursion DEF begun, N
      <3>. DEFINE S == {k \in 0..N : FilledOK(s, f[k], o, d)}
      <3>3. 0 \in S
        <4>1. 0 \in 0..N
          BY <3>1
        <4>2. f[0] = begun
          BY <3>2, <4>1 DEF ReadsMap
        <4>. QED
          BY <2>1, <4>1, <4>2
      <3>4. ASSUME NEW k \in 1..N, k - 1 \in S PROVE k \in S
        <4>1. k \in 0..N /\ k # 0 /\ FilledOK(s, f[k - 1], o, d)
          BY <3>1, <3>4
        <4>2. f[k] = IF ~f[k - 1].ok \/ k \notin KeysListed(d) THEN f[k - 1]
                     ELSE ReadProperty(inner, f[k - 1], o, k, d.properties[k])
          BY <3>2, <4>1 DEF ReadsMap
        <4>3. CASE ~f[k - 1].ok \/ k \notin KeysListed(d)
          BY <4>1, <4>2, <4>3
        <4>4. CASE f[k - 1].ok /\ k \in KeysListed(d)
          <5>1. ListedOK(d.properties[k], DocumentsTo(m - 1))
            BY <1>3, <4>4, DocumentFacts
          <5>2. FilledOK(s, ReadProperty(inner, f[k - 1], o, k, d.properties[k]), o, d)
            BY <1>1, <4>1, <4>4, <5>1, ReadPropertyOK
          <5>. QED
            BY <4>1, <4>2, <4>4, <5>2
        <4>. QED
          BY <4>3, <4>4
      <3>5. FilledOK(s, f[N], o, d)
        <4>1. 0..N \subseteq S
          BY <3>1, <3>3, <3>4, Induction
        <4>2. N \in S
          BY <3>1, <4>1
        <4>. QED
          BY <4>2
      <3>. DEFINE r == f[N]
                  references == Referring(r.references, r.heap, o)
                  w == [r EXCEPT !.references = references, !.made = o]
      <3>. HIDE DEF S
      <3>6. r \in Reader /\ s.uid <= r.uid
        BY <3>5 DEF FilledOK
      <3>7. CASE ~r.ok
        BY <3>2, <3>6, <3>7 DEF ReadOK, ReadEnd
      <3>8. CASE r.ok
        <4>1. ReadMap(inner, s, d) = PopAdjacencyLevel(w)
          BY <3>2, <3>8 DEF ReadEnd
        <4>2. /\ Orderly(r) /\ Follows(s, r) /\ r.heap \in Heap /\ o \in Live(r.heap) \ Live(s.heap)
              /\ Fresh(r.heap, o) /\ o \in Objects /\ r.references \in References
              /\ \A x \in r.references : Present(r.heap, x[2])
          BY <3>5, <3>8 DEF FilledOK, Follows, Orderly, Reader, Live
        <4>. HIDE DEF r, o
        <4>3. /\ references \in References
              /\ \A x \in references : Present(r.heap, x[2])
          BY <4>2, ReferringFacts
        <4>. HIDE DEF references
        <4>4. /\ w \in Reader /\ w.heap = r.heap /\ w.ids = r.ids /\ w.uid = r.uid /\ w.ok = r.ok
              /\ w.references = references /\ w.made = o
          BY <3>6, <4>2, <4>3 DEF Reader
        <4>. HIDE DEF w
        <4>5. Follows(s, w)
          BY <4>2, <4>3, <4>4 DEF Follows, Orderly, GoesOn, StayFresh
        <4>6. Moves(w, PopAdjacencyLevel(w))
          BY <4>4, LevelsPop
        <4>7. Follows(s, PopAdjacencyLevel(w))
          BY <4>5, <4>6, FollowsMoves
        <4>8. /\ PopAdjacencyLevel(w) \in Reader /\ s.uid <= PopAdjacencyLevel(w).uid
              /\ PopAdjacencyLevel(w).made = o /\ PopAdjacencyLevel(w).heap = r.heap
          BY <1>1, <3>6, <4>4, <4>6 DEF Moves, Reader
        <4>. QED
          BY <4>1, <4>2, <4>7, <4>8 DEF ReadOK
      <3>. QED
        BY <3>7, <3>8
    <2>. QED
      BY <2>2, <2>3
  <1>. QED
    BY <1>2, <1>3

\* Objects are read level by level.
ReadsDown(f, N) ==
    \A n \in 0..N : f[n] = [x \in Reader \X DocumentsTo(n) |->
                IF n = 0 THEN Thrown(x[1]) ELSE ReadMap(f[n - 1], x[1], x[2])]

LEMMA ReadRecursion ==
    ASSUME NEW s, NEW document, NEW N \in Nat, N = Cardinality(Objects)
    PROVE  \E f : ReadObject(s, document) = f[N][<<s, document>>]
                  /\ ReadsDown(f, N)
  <1>. DEFINE level(n, g) == [x \in Reader \X DocumentsTo(n) |->
                IF n = 0 THEN Thrown(x[1]) ELSE ReadMap(g, x[1], x[2])]
              P(m) == \E f : f = [n \in 0..m |-> level(n, f[n - 1])]
              S == {m \in 0..N : P(m)}
  <1>1. \A g, h : level(0, g) = level(0, h)
    OBVIOUS
  <1>. HIDE DEF level
  <1>2. P(0)
    <2>. DEFINE f == [n \in 0..0 |-> level(0, 0)]
    <2>1. f = [n \in 0..0 |-> level(n, f[n - 1])]
      <3>1. level(0, 0) = level(0, f[-1])
        BY <1>1
      <3>. QED
        BY <3>1
    <2>. QED
      BY <2>1
  <1>3. ASSUME NEW m \in 1..N, P(m - 1) PROVE P(m)
    <2>1. PICK f : f = [n \in 0..(m - 1) |-> level(n, f[n - 1])]
      BY <1>3
    <2>. DEFINE g == [n \in 0..m |-> IF n = m THEN level(m, f[m - 1]) ELSE f[n]]
    <2>2. ASSUME NEW n \in 0..m PROVE g[n] = level(n, g[n - 1])
      <3>1. CASE n = m
        <4>1. g[n - 1] = f[n - 1]
          BY <3>1
        <4>. QED
          BY <3>1, <4>1
      <3>2. CASE n # m
        <4>1. n \in 0..(m - 1) /\ g[n] = f[n] /\ f[n] = level(n, f[n - 1])
          BY <2>1, <3>2
        <4>2. CASE n = 0
          BY <1>1, <4>1, <4>2
        <4>3. CASE n # 0
          <5>1. g[n - 1] = f[n - 1]
            BY <3>2, <4>3
          <5>. QED
            BY <4>1, <5>1
        <4>. QED
          BY <4>2, <4>3
      <3>. QED
        BY <3>1, <3>2
    <2>3. g = [n \in 0..m |-> level(n, g[n - 1])]
      <3>. HIDE DEF g
      <3>1. DOMAIN g = 0..m /\ g = [n \in 0..m |-> g[n]]
        BY DEF g
      <3>. QED
        BY <2>2, <3>1
    <2>. QED
      BY <2>3
  <1>. HIDE DEF P
  <1>4. 0 \in S /\ \A m \in 1..N : m - 1 \in S => m \in S
    BY <1>2, <1>3
  <1>5. N \in S
    <2>1. 0..N \subseteq S
      BY <1>4, Induction
    <2>. QED
      BY <2>1
  <1>. DEFINE F == CHOOSE f : f = [n \in 0..N |-> [x \in Reader \X DocumentsTo(n) |->
                IF n = 0 THEN Thrown(x[1]) ELSE ReadMap(f[n - 1], x[1], x[2])]]
  <1>6. F = [n \in 0..N |-> level(n, F[n - 1])]
    <2>1. P(N)
      BY <1>5
    <2>. QED
      BY <2>1 DEF P, level
  <1>7. ReadObject(s, document) = F[N][<<s, document>>]
    BY DEF ReadObject, Depths
  <1>. HIDE DEF F
  <1>8. \A n \in 0..N : F[n] = level(n, F[n - 1])
    BY <1>6
  <1>9. ReadsDown(F, N)
    BY <1>8 DEF level, ReadsDown
  <1>. QED
    BY <1>7, <1>9

LEMMA ObjectsFacts == Cardinality(Objects) \in Nat /\ IsFiniteSet(Objects)
  BY ObjectsAssumption, FS_CardinalityType

\* An object goes well, and so do those further in.
LEMMA ReadsDownOK ==
    ASSUME NEW N \in Nat, NEW f, ReadsDown(f, N)
    PROVE  \A n \in 0..N : ReadsOK(f[n], DocumentsTo(n))
  <1>. DEFINE S == {n \in 0..N : ReadsOK(f[n], DocumentsTo(n))}
  <1>1. 0 \in S
    <2>1. 0 \in 0..N
      OBVIOUS
    <2>2. f[0] = [x \in Reader \X DocumentsTo(0) |->
                    IF 0 = 0 THEN Thrown(x[1]) ELSE ReadMap(f[0 - 1], x[1], x[2])]
      BY <2>1 DEF ReadsDown
    <2>3. ASSUME NEW s \in Reader, NEW d \in DocumentsTo(0) PROVE ReadOK(s, f[0][<<s, d>>])
      <3>1. f[0][<<s, d>>] = Thrown(s)
        BY <2>2
      <3>2. s.uid \in Nat
        BY DEF Reader
      <3>. QED
        BY <3>1, <3>2, ThrownFacts DEF ReadOK
    <2>. QED
      BY <2>1, <2>3 DEF ReadsOK
  <1>2. ASSUME NEW n \in 1..N, n - 1 \in S PROVE n \in S
    <2>1. n \in 0..N /\ n # 0 /\ n \in Nat \ {0} /\ ReadsOK(f[n - 1], DocumentsTo(n - 1))
      BY <1>2
    <2>2. f[n] = [x \in Reader \X DocumentsTo(n) |->
                    IF n = 0 THEN Thrown(x[1]) ELSE ReadMap(f[n - 1], x[1], x[2])]
      BY <2>1 DEF ReadsDown
    <2>3. ASSUME NEW s \in Reader, NEW d \in DocumentsTo(n), Orderly(s), s.ok
          PROVE  ReadOK(s, f[n][<<s, d>>])
      <3>1. f[n][<<s, d>>] = ReadMap(f[n - 1], s, d)
        BY <2>1, <2>2
      <3>2. ReadOK(s, ReadMap(f[n - 1], s, d))
        BY <2>1, <2>3, ReadMapOK
      <3>. QED
        BY <3>1, <3>2
    <2>. QED
      BY <2>1, <2>3 DEF ReadsOK
  <1>3. 0..N \subseteq S
    BY <1>1, <1>2, Induction
  <1>. QED
    BY <1>3

LEMMA ReadObjectOK ==
    ASSUME NEW s, Orderly(s), s.ok, NEW d \in DocumentsTo(Cardinality(Objects))
    PROVE  ReadOK(s, ReadObject(s, d))
  <1>. DEFINE N == Cardinality(Objects)
  <1>1. N \in Nat /\ s \in Reader
    BY ObjectsFacts DEF Orderly
  <1>. HIDE DEF N
  <1>2. PICK f : ReadObject(s, d) = f[N][<<s, d>>] /\ ReadsDown(f, N)
    BY <1>1, ReadRecursion DEF N
  <1>3. N \in 0..N
    BY <1>1
  <1>4. ReadsOK(f[N], DocumentsTo(N))
    BY <1>1, <1>2, <1>3, ReadsDownOK
  <1>. QED
    BY <1>1, <1>2, <1>4 DEF ReadsOK, N

-----------------------------------------------------------------------------
(***************************************************************************)
(* The map from paths to properties.                                       *)
(***************************************************************************)

IsReferred(s, node) == \E r \in s.references : r[1] = node
PathOf(s, node, path) ==
    IF IsReferred(s, node) THEN Append(path, At(s.heap, Referred(s, node)).name) ELSE path
PathBelow(s, node, path, i) ==
    IF IsReferred(s, node)
    THEN Append(PathOf(s, node, path), Cardinality(AdjacentBefore(s, node, i)))
    ELSE PathOf(s, node, path)
IsSource(s, node) == \E i \in 1..Len(s.edges) : s.edges[i][1] = node

\* What the visit of a node comes to, with first and last the states before and after
\* those of the adjacent ones.
VisitEnd(s, c, node, path, first, last) ==
    LET here == PathOf(s, node, path)
    IN  IF node \in c.visited THEN c
        ELSE IF IsSource(s, node) THEN last
        ELSE IF ~IsReferred(s, node) THEN Thrown(first)
        ELSE IF \E entry \in c.map : entry[1] = here THEN first
        ELSE [first EXCEPT !.map = @ \cup {<<here, Referred(s, node)>>}]

\* The edges are gone through from the first to the last.
GoesAlong(f, further, s, c, node, path, N) ==
    \A n \in 0..N : f[n] = IF n = 0 THEN [c EXCEPT !.visited = @ \cup {node}]
            ELSE IF s.edges[n][1] # node THEN f[n - 1]
            ELSE further[<<f[n - 1], s.edges[n][2], PathBelow(s, node, path, n)>>]

LEMMA AlongRecursion ==
    ASSUME NEW further, NEW s, NEW c, NEW node, NEW path, NEW N \in Nat, N = Len(s.edges)
    PROVE  \E f : Visit(further, s, c, node, path) = VisitEnd(s, c, node, path, f[0], f[N])
                  /\ GoesAlong(f, further, s, c, node, path, N)
  <1>. DEFINE level(n, g) == IF n = 0 THEN [c EXCEPT !.visited = @ \cup {node}]
            ELSE IF s.edges[n][1] # node THEN g
            ELSE further[<<g, s.edges[n][2], PathBelow(s, node, path, n)>>]
              P(m) == \E f : f = [n \in 0..m |-> level(n, f[n - 1])]
              S == {m \in 0..N : P(m)}
  <1>1. \A g, h : level(0, g) = level(0, h)
    OBVIOUS
  <1>. HIDE DEF level
  <1>2. P(0)
    <2>. DEFINE f == [n \in 0..0 |-> level(0, 0)]
    <2>1. f = [n \in 0..0 |-> level(n, f[n - 1])]
      <3>1. level(0, 0) = level(0, f[-1])
        BY <1>1
      <3>. QED
        BY <3>1
    <2>. QED
      BY <2>1
  <1>3. ASSUME NEW m \in 1..N, P(m - 1) PROVE P(m)
    <2>1. PICK f : f = [n \in 0..(m - 1) |-> level(n, f[n - 1])]
      BY <1>3
    <2>. DEFINE g == [n \in 0..m |-> IF n = m THEN level(m, f[m - 1]) ELSE f[n]]
    <2>2. ASSUME NEW n \in 0..m PROVE g[n] = level(n, g[n - 1])
      <3>1. CASE n = m
        <4>1. g[n - 1] = f[n - 1]
          BY <3>1
        <4>. QED
          BY <3>1, <4>1
      <3>2. CASE n # m
        <4>1. n \in 0..(m - 1) /\ g[n] = f[n] /\ f[n] = level(n, f[n - 1])
          BY <2>1, <3>2
        <4>2. CASE n = 0
          BY <1>1, <4>1, <4>2
        <4>3. CASE n # 0
          <5>1. g[n - 1] = f[n - 1]
            BY <3>2, <4>3
          <5>. QED
            BY <4>1, <5>1
        <4>. QED
          BY <4>2, <4>3
      <3>. QED
        BY <3>1, <3>2
    <2>3. g = [n \in 0..m |-> level(n, g[n - 1])]
      <3>. HIDE DEF g
      <3>1. DOMAIN g = 0..m /\ g = [n \in 0..m |-> g[n]]
        BY DEF g
      <3>. QED
        BY <2>2, <3>1
    <2>. QED
      BY <2>3
  <1>. HIDE DEF P
  <1>4. 0 \in S /\ \A m \in 1..N : m - 1 \in S => m \in S
    BY <1>2, <1>3
  <1>5. N \in S
    <2>1. 0..N \subseteq S
      BY <1>4, Induction
    <2>. QED
      BY <2>1
  <1>. DEFINE F == CHOOSE f : f = [n \in 0..N |-> IF n = 0 THEN [c EXCEPT !.visited = @ \cup {node}]
            ELSE IF s.edges[n][1] # node THEN f[n - 1]
            ELSE further[<<f[n - 1], s.edges[n][2], PathBelow(s, node, path, n)>>]]
  <1>6. F = [n \in 0..N |-> level(n, F[n - 1])]
    <2>1. P(N)
      BY <1>5
    <2>. QED
      BY <2>1 DEF P, level
  <1>7. Visit(further, s, c, node, path) = VisitEnd(s, c, node, path, F[0], F[N])
    BY DEF Visit, VisitEnd, PathOf, PathBelow, IsReferred, IsSource
  <1>. HIDE DEF F
  <1>8. \A n \in 0..N : F[n] = level(n, F[n - 1])
    BY <1>6
  <1>9. GoesAlong(F, further, s, c, node, path, N)
    BY <1>8 DEF level, GoesAlong
  <1>. QED
    BY <1>7, <1>9

\* A node is deeper than those it was come from.
VisitsDown(f, s, N) ==
    \A n \in 0..N : f[n] = [x \in Search \X Nat \X Seq(Nat) |->
                IF n = 0 THEN Thrown(x[1]) ELSE Visit(f[n - 1], s, x[1], x[2], x[3])]

LEMMA VisitRecursion ==
    ASSUME NEW s, NEW N \in Nat, N = Len(s.edges) + 1
    PROVE  \E f : PathMap(s) = f[N][<<[visited |-> {}, map |-> {}, ok |-> TRUE], s.ids[s.made], <<>>>>]
                  /\ VisitsDown(f, s, N)
  <1>. DEFINE level(n, g) == [x \in Search \X Nat \X Seq(Nat) |->
                IF n = 0 THEN Thrown(x[1]) ELSE Visit(g, s, x[1], x[2], x[3])]
              P(m) == \E f : f = [n \in 0..m |-> level(n, f[n - 1])]
              S == {m \in 0..N : P(m)}
  <1>1. \A g, h : level(0, g) = level(0, h)
    OBVIOUS
  <1>. HIDE DEF level
  <1>2. P(0)
    <2>. DEFINE f == [n \in 0..0 |-> level(0, 0)]
    <2>1. f = [n \in 0..0 |-> level(n, f[n - 1])]
      <3>1. level(0, 0) = level(0, f[-1])
        BY <1>1
      <3>. QED
        BY <3>1
    <2>. QED
      BY <2>1
  <1>3. ASSUME NEW m \in 1..N, P(m - 1) PROVE P(m)
    <2>1. PICK f : f = [n \in 0..(m - 1) |-> level(n, f[n - 1])]
      BY <1>3
    <2>. DEFINE g == [n \in 0..m |-> IF n = m THEN level(m, f[m - 1]) ELSE f[n]]
    <2>2. ASSUME NEW n \in 0..m PROVE g[n] = level(n, g[n - 1])
      <3>1. CASE n = m
        <4>1. g[n - 1] = f[n - 1]
          BY <3>1
        <4>. QED
          BY <3>1, <4>1
      <3>2. CASE n # m
        <4>1. n \in 0..(m - 1) /\ g[n] = f[n] /\ f[n] = level(n, f[n - 1])
          BY <2>1, <3>2
        <4>2. CASE n = 0
          BY <1>1, <4>1, <4>2
        <4>3. CASE n # 0
          <5>1. g[n - 1] = f[n - 1]
            BY <3>2, <4>3
          <5>. QED
            BY <4>1, <5>1
        <4>. QED
          BY <4>2, <4>3
      <3>. QED
        BY <3>1, <3>2
    <2>3. g = [n \in 0..m |-> level(n, g[n - 1])]
      <3>. HIDE DEF g
      <3>1. DOMAIN g = 0..m /\ g = [n \in 0..m |-> g[n]]
        BY DEF g
      <3>. QED
        BY <2>2, <3>1
    <2>. QED
      BY <2>3
  <1>. HIDE DEF P
  <1>4. 0 \in S /\ \A m \in 1..N : m - 1 \in S => m \in S
    BY <1>2, <1>3
  <1>5. N \in S
    <2>1. 0..N \subseteq S
      BY <1>4, Induction
    <2>. QED
      BY <2>1
  <1>. DEFINE F == CHOOSE f : f = [n \in 0..N |-> [x \in Search \X Nat \X Seq(Nat) |->
                IF n = 0 THEN Thrown(x[1]) ELSE Visit(f[n - 1], s, x[1], x[2], x[3])]]
  <1>6. F = [n \in 0..N |-> level(n, F[n - 1])]
    <2>1. P(N)
      BY <1>5
    <2>. QED
      BY <2>1 DEF P, level
  <1>7. PathMap(s) = F[N][<<[visited |-> {}, map |-> {}, ok |-> TRUE], s.ids[s.made], <<>>>>]
    BY DEF PathMap
  <1>. HIDE DEF F
  <1>8. \A n \in 0..N : F[n] = level(n, F[n - 1])
    BY <1>6
  <1>9. VisitsDown(F, s, N)
    BY <1>8 DEF level, VisitsDown
  <1>. QED
    BY <1>7, <1>9


\* A node that is none of a property leads on: at finds what it looks for.
Settled(s, node) == IsSource(s, node) \/ IsReferred(s, node)
AllSettled(s) == \A i \in 1..Len(s.edges) : Settled(s, s.edges[i][2])

\* The edges that are still to be gone along: those of nodes that were not visited.
Unused(s, c) == {i \in 1..Len(s.edges) : s.edges[i][1] \notin c.visited}

\* What was found are properties that were referred to.
Found(s, c) == c \in Search /\ \A entry \in c.map : \E r \in s.references : entry[2] = r[2]

\* The visit of a node ends in t, and does not throw if there is no node at throws for, and
\* n is more than the edges to go along.
Searched(s, n, c, node, t) ==
    /\ Found(s, t) /\ c.visited \subseteq t.visited
    /\ AllSettled(s) /\ Settled(s, node) /\ c.ok /\ Cardinality(Unused(s, c)) < n => t.ok
SearchesOK(further, s, n) ==
    \A c : Found(s, c) =>
        \A node \in Nat, path \in Seq(Nat) : Searched(s, n, c, node, further[<<c, node, path>>])

LEMMA EdgesFacts ==
    ASSUME NEW s \in Reader
    PROVE  /\ Len(s.edges) \in Nat
           /\ \A i \in 1..Len(s.edges) : s.edges[i][1] \in Nat /\ s.edges[i][2] \in Nat
  <1>1. s.edges \in Seq(Nat \X Nat)
    BY DEF Reader
  <1>2. \A i \in 1..Len(s.edges) : s.edges[i] \in Nat \X Nat
    BY <1>1
  <1>. QED
    BY <1>1, <1>2

\* The more nodes were visited the fewer edges there are to go along.
LEMMA UnusedFacts ==
    ASSUME NEW s \in Reader, NEW c, NEW t, c.visited \subseteq t.visited
    PROVE  /\ Cardinality(Unused(s, c)) \in Nat /\ Cardinality(Unused(s, t)) \in Nat
           /\ Cardinality(Unused(s, c)) <= Len(s.edges)
           /\ Cardinality(Unused(s, t)) <= Cardinality(Unused(s, c))
           /\ \A node : IsSource(s, node) /\ node \notin c.visited /\ node \in t.visited =>
                 Cardinality(Unused(s, t)) < Cardinality(Unused(s, c))
  <1>. DEFINE E == 1..Len(s.edges)
  <1>1. Len(s.edges) \in Nat
    BY EdgesFacts
  <1>2. IsFiniteSet(E) /\ Cardinality(E) = Len(s.edges)
    BY <1>1, FS_Interval
  <1>3. Unused(s, c) \subseteq E /\ Unused(s, t) \subseteq Unused(s, c)
    BY DEF Unused
  <1>4. IsFiniteSet(Unused(s, c)) /\ Cardinality(Unused(s, c)) <= Cardinality(E)
    BY <1>2, <1>3, FS_Subset
  <1>5. IsFiniteSet(Unused(s, t)) /\ Cardinality(Unused(s, t)) <= Cardinality(Unused(s, c))
    BY <1>3, <1>4, FS_Subset
  <1>6. Cardinality(Unused(s, c)) \in Nat /\ Cardinality(Unused(s, t)) \in Nat
    BY <1>4, <1>5, FS_CardinalityType
  <1>7. ASSUME NEW node, IsSource(s, node), node \notin c.visited, node \in t.visited
        PROVE  Cardinality(Unused(s, t)) < Cardinality(Unused(s, c))
    <2>1. PICK i \in E : s.edges[i][1] = node
      BY <1>7 DEF IsSource
    <2>2. i \in Unused(s, c) /\ i \notin Unused(s, t)
      BY <1>7, <2>1 DEF Unused
    <2>3. Unused(s, t) # Unused(s, c)
      BY <2>2
    <2>4. Cardinality(Unused(s, t)) # Cardinality(Unused(s, c))
      BY <1>3, <1>4, <2>3, FS_Subset
    <2>. QED
      BY <1>5, <1>6, <2>4
  <1>. QED
    BY <1>2, <1>4, <1>5, <1>6, <1>7

\* The path to what is adjacent.
LEMMA PathFacts ==
    ASSUME NEW s \in Reader, \A r \in s.references : Present(s.heap, r[2]), NEW node \in Nat,
           NEW path \in Seq(Nat)
    PROVE  /\ PathOf(s, node, path) \in Seq(Nat)
           /\ \A i \in 1..Len(s.edges) : PathBelow(s, node, path, i) \in Seq(Nat)
           /\ IsReferred(s, node) => /\ Referred(s, node) \in Objects \X Keys
                                     /\ \E r \in s.references : Referred(s, node) = r[2]
  <1>1. s.heap \in Heap /\ s.references \subseteq Nat \X (Objects \X Keys)
    BY DEF Reader, References
  <1>2. ASSUME IsReferred(s, node)
        PROVE  /\ Referred(s, node) \in Objects \X Keys
               /\ \E r \in s.references : Referred(s, node) = r[2]
    <2>. DEFINE r == CHOOSE r \in s.references : r[1] = node
    <2>1. r \in s.references
      BY <1>2 DEF IsReferred
    <2>2. Referred(s, node) = r[2]
      BY DEF Referred
    <2>. HIDE DEF r
    <2>. QED
      BY <1>1, <2>1, <2>2
  <1>3. PathOf(s, node, path) \in Seq(Nat)
    <2>1. CASE ~IsReferred(s, node)
      BY <2>1 DEF PathOf
    <2>2. CASE IsReferred(s, node)
      <3>. DEFINE q == Referred(s, node)
      <3>1. q \in Objects \X Keys /\ Present(s.heap, q)
        BY <1>2, <2>2
      <3>. HIDE DEF q
      <3>2. At(s.heap, q) \in Property
        BY <1>1, <3>1, PresentFacts
      <3>3. At(s.heap, q).name \in Keys \cup {0}
        BY <3>2 DEF Property
      <3>4. \A x \in Keys \cup {0} : x \in Nat
        BY KeysAssumption
      <3>5. At(s.heap, q).name \in Nat
        BY <3>3, <3>4
      <3>. QED
        BY <2>2, <3>5 DEF PathOf, q
    <2>. QED
      BY <2>1, <2>2
  <1>4. ASSUME NEW i \in 1..Len(s.edges) PROVE PathBelow(s, node, path, i) \in Seq(Nat)
    <2>1. AdjacentBefore(s, node, i) \subseteq 1..(i - 1)
      BY DEF AdjacentBefore
    <2>2. i \in Nat /\ i - 1 \in Nat
      BY EdgesFacts
    <2>3. IsFiniteSet(1..(i - 1))
      BY <2>2, FS_Interval
    <2>4. IsFiniteSet(AdjacentBefore(s, node, i))
      BY <2>1, <2>3, FS_Subset
    <2>5. Cardinality(AdjacentBefore(s, node, i)) \in Nat
      BY <2>4, FS_CardinalityType
    <2>. QED
      BY <1>3, <2>5 DEF PathBelow
  <1>. QED
    BY <1>2, <1>3, <1>4

\* A visit leads on to those of adjacent nodes.
LEMMA VisitOK ==
    ASSUME NEW s \in Reader, \A r \in s.references : Present(s.heap, r[2]), NEW n \in Nat \ {0},
           NEW further, SearchesOK(further, s, n - 1), NEW c, Found(s, c), NEW node \in Nat,
           NEW path \in Seq(Nat)
    PROVE  Searched(s, n, c, node, Visit(further, s, c, node, path))
  <1>. DEFINE N == Len(s.edges)
              first == [c EXCEPT !.visited = @ \cup {node}]
              here == PathOf(s, node, path)
  <1>1. N \in Nat
    BY EdgesFacts
  <1>2. c \in Search /\ \A entry \in c.map : \E r \in s.references : entry[2] = r[2]
    BY DEF Found
  <1>3. PICK f : /\ Visit(further, s, c, node, path) = VisitEnd(s, c, node, path, f[0], f[N])
                 /\ GoesAlong(f, further, s, c, node, path, N)
    BY <1>1, AlongRecursion
  <1>4. f[0] = first
    <2>1. 0 \in 0..N
      BY <1>1
    <2>. QED
      BY <1>3, <2>1 DEF GoesAlong
  <1>5. /\ first \in Search /\ first.visited = c.visited \cup {node} /\ first.map = c.map
        /\ first.ok = c.ok
    BY <1>2 DEF Search
  <1>. HIDE DEF first
  <1>6. Found(s, first)
    BY <1>2, <1>5 DEF Found
  <1>7. CASE node \in c.visited
    <2>1. Visit(further, s, c, node, path) = c
      BY <1>3, <1>7 DEF VisitEnd
    <2>. QED
      BY <2>1 DEF Searched
  <1>8. CASE node \notin c.visited /\ IsSource(s, node)
    <2>1. Visit(further, s, c, node, path) = f[N]
      BY <1>3, <1>8 DEF VisitEnd
    <2>. DEFINE Fine == AllSettled(s) /\ c.ok /\ Cardinality(Unused(s, c)) < n
                S == {i \in 0..N : /\ Found(s, f[i]) /\ first.visited \subseteq f[i].visited
                                   /\ Fine => f[i].ok}
    <2>2. 0 \in S
      BY <1>1, <1>4, <1>5, <1>6
    <2>. HIDE DEF Fine
    <2>3. ASSUME NEW i \in 1..N, i - 1 \in S PROVE i \in S
      <3>. DEFINE b == f[i - 1]
                  next == s.edges[i][2]
      <3>1. /\ i \in 0..N /\ i # 0 /\ Found(s, b) /\ first.visited \subseteq b.visited
            /\ Fine => b.ok
        BY <1>1, <2>3
      <3>2. f[i] = IF s.edges[i][1] # node THEN b
                   ELSE further[<<b, next, PathBelow(s, node, path, i)>>]
        BY <1>3, <3>1 DEF GoesAlong
      <3>3. CASE s.edges[i][1] # node
        BY <3>1, <3>2, <3>3
      <3>4. CASE s.edges[i][1] = node
        <4>1. next \in Nat /\ PathBelow(s, node, path, i) \in Seq(Nat)
          BY EdgesFacts, PathFacts
        <4>. HIDE DEF b, next
        <4>2. Searched(s, n - 1, b, next, f[i])
          BY <3>1, <3>2, <3>4, <4>1 DEF SearchesOK
        <4>3. Found(s, f[i]) /\ first.visited \subseteq f[i].visited
          BY <3>1, <4>2 DEF Searched
        <4>4. ASSUME Fine PROVE f[i].ok
          <5>1. /\ Cardinality(Unused(s, c)) \in Nat /\ Cardinality(Unused(s, b)) \in Nat
                /\ Cardinality(Unused(s, b)) < Cardinality(Unused(s, c))
            <6>1. c.visited \subseteq b.visited /\ node \in b.visited
              BY <1>5, <3>1
            <6>. QED
              BY <1>8, <6>1, UnusedFacts
          <5>2. Cardinality(Unused(s, b)) < n - 1
            BY <4>4, <5>1 DEF Fine
          <5>3. AllSettled(s) /\ Settled(s, next) /\ b.ok
            BY <3>1, <4>4 DEF Fine, AllSettled, next
          <5>. QED
            BY <4>2, <5>2, <5>3 DEF Searched
        <4>. QED
          BY <3>1, <4>3, <4>4
      <3>. QED
        BY <3>3, <3>4
    <2>4. N \in S
      <3>1. 0..N \subseteq S
        BY <1>1, <2>2, <2>3, Induction
      <3>2. N \in 0..N
        BY <1>1
      <3>. QED
        BY <3>1, <3>2
    <2>5. c.visited \subseteq f[N].visited
      BY <1>5, <2>4
    <2>. QED
      BY <2>1, <2>4, <2>5 DEF Searched, Fine
  <1>9. CASE node \notin c.visited /\ ~IsSource(s, node) /\ ~IsReferred(s, node)
    <2>1. Visit(further, s, c, node, path) = Thrown(first)
      BY <1>3, <1>4, <1>9 DEF VisitEnd
    <2>2. /\ Thrown(first) \in Search /\ Thrown(first).visited = first.visited
          /\ Thrown(first).map = first.map
      BY <1>5 DEF Thrown, Search
    <2>3. ~Settled(s, node)
      BY <1>9 DEF Settled
    <2>. QED
      BY <1>2, <1>5, <2>1, <2>2, <2>3 DEF Searched, Found
  <1>10. CASE node \notin c.visited /\ ~IsSource(s, node) /\ IsReferred(s, node)
    <2>. DEFINE q == Referred(s, node)
                w == [first EXCEPT !.map = @ \cup {<<here, q>>}]
    <2>1. here \in Seq(Nat) /\ q \in Objects \X Keys /\ \E r \in s.references : q = r[2]
      BY <1>10, PathFacts
    <2>2. Visit(further, s, c, node, path) = first \/ Visit(further, s, c, node, path) = w
      BY <1>3, <1>4, <1>10 DEF VisitEnd
    <2>. HIDE DEF here, q
    <2>3. <<here, q>> \in Seq(Nat) \X (Objects \X Keys)
      BY <2>1
    <2>4. /\ w \in Search /\ w.visited = first.visited /\ w.map = first.map \cup {<<here, q>>}
          /\ w.ok = first.ok
      BY <1>5, <2>3 DEF Search
    <2>. HIDE DEF w
    <2>5. Found(s, w)
      BY <1>2, <1>5, <2>1, <2>4 DEF Found
    <2>. QED
      BY <1>5, <1>6, <2>2, <2>4, <2>5 DEF Searched
  <1>. QED
    BY <1>7, <1>8, <1>9, <1>10

LEMMA VisitsDownOK ==
    ASSUME NEW s \in Reader, \A r \in s.references : Present(s.heap, r[2]), NEW N \in Nat,
           NEW f, VisitsDown(f, s, N)
    PROVE  SearchesOK(f[N], s, N)
  <1>. DEFINE S == {n \in 0..N : SearchesOK(f[n], s, n)}
  <1>1. 0 \in S
    <2>1. f[0] = [x \in Search \X Nat \X Seq(Nat) |->
                    IF 0 = 0 THEN Thrown(x[1]) ELSE Visit(f[0 - 1], s, x[1], x[2], x[3])]
      <3>1. 0 \in 0..N
        OBVIOUS
      <3>. QED
        BY <3>1 DEF VisitsDown
    <2>2. ASSUME NEW c, NEW node \in Nat, NEW path \in Seq(Nat), Found(s, c)
          PROVE  Searched(s, 0, c, node, f[0][<<c, node, path>>])
      <3>1. c \in Search
        BY <2>2 DEF Found
      <3>2. f[0][<<c, node, path>>] = Thrown(c)
        BY <2>1, <3>1
      <3>3. Thrown(c) \in Search /\ Thrown(c).visited = c.visited /\ Thrown(c).map = c.map
        BY <3>1 DEF Thrown, Search
      <3>4. Cardinality(Unused(s, c)) \in Nat
        BY UnusedFacts
      <3>5. ~(Cardinality(Unused(s, c)) < 0)
        BY <3>4
      <3>. QED
        BY <2>2, <3>2, <3>3, <3>5 DEF Searched, Found
    <2>. QED
      BY <2>2 DEF SearchesOK
  <1>2. ASSUME NEW n \in 1..N, n - 1 \in S PROVE n \in S
    <2>1. n \in 0..N /\ n # 0 /\ n \in Nat \ {0} /\ SearchesOK(f[n - 1], s, n - 1)
      BY <1>2
    <2>2. f[n] = [x \in Search \X Nat \X Seq(Nat) |->
                    IF n = 0 THEN Thrown(x[1]) ELSE Visit(f[n - 1], s, x[1], x[2], x[3])]
      BY <2>1 DEF VisitsDown
    <2>3. ASSUME NEW c, NEW node \in Nat, NEW path \in Seq(Nat), Found(s, c)
          PROVE  Searched(s, n, c, node, f[n][<<c, node, path>>])
      <3>1. c \in Search
        BY <2>3 DEF Found
      <3>2. f[n][<<c, node, path>>] = Visit(f[n - 1], s, c, node, path)
        BY <2>1, <2>2, <3>1
      <3>. QED
        BY <2>1, <2>3, <3>2, VisitOK
    <2>. QED
      BY <2>1, <2>3 DEF SearchesOK
  <1>3. 0..N \subseteq S
    BY <1>1, <1>2, Induction
  <1>. QED
    BY <1>3

\* What is in the map are properties of new objects; and it is compiled if every node leads on.
LEMMA PathMapOK ==
    ASSUME NEW s \in Reader, \A r \in s.references : Present(s.heap, r[2]), s.made # None
    PROVE  /\ Found(s, PathMap(s))
           /\ AllSettled(s) /\ Settled(s, s.ids[s.made]) => PathMap(s).ok
  <1>. DEFINE N == Len(s.edges) + 1
              c == [visited |-> {}, map |-> {}, ok |-> TRUE]
              node == s.ids[s.made]
  <1>1. Len(s.edges) \in Nat /\ N \in Nat
    BY EdgesFacts
  <1>2. PICK f : PathMap(s) = f[N][<<c, node, <<>>>>] /\ VisitsDown(f, s, N)
    BY <1>1, VisitRecursion
  <1>3. SearchesOK(f[N], s, N)
    BY <1>1, <1>2, VisitsDownOK
  <1>4. c.visited = {} /\ c.map = {} /\ c.ok = TRUE /\ c \in Search
    BY DEF Search
  <1>5. node \in Nat /\ <<>> \in Seq(Nat)
    BY DEF Reader
  <1>. HIDE DEF c, node
  <1>6. Found(s, c)
    BY <1>4 DEF Found
  <1>7. Searched(s, N, c, node, PathMap(s))
    BY <1>2, <1>3, <1>5, <1>6 DEF SearchesOK
  <1>8. Cardinality(Unused(s, c)) < N
    <2>1. Cardinality(Unused(s, c)) <= Len(s.edges) /\ Cardinality(Unused(s, c)) \in Nat
      BY UnusedFacts
    <2>. QED
      BY <1>1, <2>1
  <1>. QED
    BY <1>4, <1>7, <1>8 DEF Searched, node

-----------------------------------------------------------------------------
(***************************************************************************)
(* CState::initialize keeps the invariant.                                 *)
(***************************************************************************)

LEMMA SetToSeqFacts ==
    ASSUME NEW S, IsFiniteSet(S)
    PROVE  SetToSeq(S) \in Seq(S)
  <1>. DEFINE N == Cardinality(S)
  <1>1. N \in Nat /\ ExistsBijection(1..N, S)
    BY FS_CardinalityType
  <1>2. \E f \in [1..N -> S] : IsInjective(f)
    BY <1>1 DEF ExistsBijection, Bijection, Injection, IsInjective
  <1>3. SetToSeq(S) \in [1..N -> S]
    BY <1>2 DEF SetToSeq
  <1>. HIDE DEF N
  <1>. QED
    BY <1>1, <1>3, SeqDef

\* Nothing has been read yet.
LEMMA ReadingFacts ==
    ASSUME IInv
    PROVE  LET s == Reading(Now)
           IN  /\ Orderly(s) /\ s.ok /\ s.heap = heap /\ s.ids = ids /\ s.uid = uid
               /\ s.made = None /\ s.edges = <<>> /\ s.stack = <<>> /\ s.references = {}
  <1>. DEFINE s == Reading(Now)
  <1>1. /\ Valid(Now, {}) /\ Now \in State /\ Now.ok = TRUE /\ Now.heap = heap /\ Now.ids = ids
        /\ Now.uid = uid /\ Now.made = None
    BY NowValid DEF Now
  <1>2. Good(heap, uid, {}) /\ IdsOK(heap, ids, uid) /\ heap \in Heap /\ uid \in Nat
        /\ ids \in [Objects -> Nat]
    BY <1>1 DEF Valid, Good, IdsOK
  <1>3. /\ s.heap = heap /\ s.ids = ids /\ s.uid = uid /\ s.ok = TRUE /\ s.made = None
        /\ s.edges = <<>> /\ s.stack = <<>> /\ s.references = {}
    BY <1>1 DEF Reading
  <1>4. s \in Reader
    <2>1. s = [heap |-> heap, ids |-> ids, uid |-> uid, ok |-> TRUE, made |-> None,
               edges |-> <<>>, stack |-> <<>>, references |-> {}]
      BY <1>1 DEF Reading
    <2>2. <<>> \in Seq(Nat) /\ <<>> \in Seq(Nat \X Nat) /\ {} \in References
      BY DEF References
    <2>. HIDE DEF s
    <2>. QED
      BY <1>2, <2>1, <2>2 DEF Reader
  <1>. HIDE DEF s
  <1>5. Orderly(s)
    BY <1>2, <1>3, <1>4 DEF Orderly
  <1>. QED
    BY <1>3, <1>5 DEF s

\* Handlers come to those that are registered.
LEMMA HandlersMore ==
    ASSUME NEW h, NEW registered, HandlersOK(h, registered), NEW of,
           \A u \in 0..MaxUid :
              /\ IsFiniteSet(of[u])
              /\ \A q \in of[u] : q \in Objects \X Keys /\ Present(h, q) /\ At(h, q).type = "int8"
    PROVE  HandlersOK(h, [u \in 0..MaxUid |-> registered[u] \o SetToSeq(of[u])])
  <1>. DEFINE more == [u \in 0..MaxUid |-> registered[u] \o SetToSeq(of[u])]
  <1>1. ASSUME NEW u \in 0..MaxUid
        PROVE  /\ more[u] \in Seq(Places)
               /\ \A i \in DOMAIN more[u] : more[u][i] # Destroyed =>
                     /\ more[u][i] \in Objects \X Keys /\ Present(h, more[u][i])
                     /\ At(h, more[u][i]).type = "int8"
    <2>. DEFINE a == registered[u]
                b == SetToSeq(of[u])
    <2>1. a \in Seq(Places) /\ \A i \in DOMAIN a : a[i] # Destroyed =>
                     /\ a[i] \in Objects \X Keys /\ Present(h, a[i]) /\ At(h, a[i]).type = "int8"
      BY DEF HandlersOK
    <2>2. b \in Seq(of[u])
      BY SetToSeqFacts
    <2>3. of[u] \subseteq Places
      BY DEF Places
    <2>4. b \in Seq(Places) /\ \A i \in DOMAIN b : b[i] \in of[u]
      <3>. HIDE DEF b
      <3>. QED
        BY <2>2, <2>3
    <2>5. more[u] = a \o b
      OBVIOUS
    <2>. HIDE DEF a, b, more
    <2>6. a \o b \in Seq(Places) /\ FromEither(a \o b, a, b)
      BY <2>1, <2>4, ConcatMembers
    <2>7. ASSUME NEW i \in DOMAIN more[u], more[u][i] # Destroyed
          PROVE  /\ more[u][i] \in Objects \X Keys /\ Present(h, more[u][i])
                 /\ At(h, more[u][i]).type = "int8"
      <3>1. (\E j \in DOMAIN a : more[u][i] = a[j]) \/ (\E j \in DOMAIN b : more[u][i] = b[j])
        BY <2>5, <2>6 DEF FromEither
      <3>. QED
        BY <2>1, <2>4, <2>7, <3>1
    <2>. QED
      BY <2>5, <2>6, <2>7
  <1>2. more \in [0..MaxUid -> Seq(Places)]
    BY <1>1
  <1>. QED
    BY <1>1, <1>2 DEF HandlersOK

LEMMA InitializeOK ==
    ASSUME IInv, NEW document \in Documents, Initialize(document)
    PROVE  IInv'
  <1>. DEFINE r == Reading(Now)
              s == ReadObject(r, document)
              c == PathMap(s)
              OfUid(u) == {place \in {entry[2] : entry \in c.map} :
                              At(s.heap, place).type = "int8" /\ At(s.heap, place).uid = u}
  <1>1. /\ Good(heap, uid, {}) /\ IdsOK(heap, ids, uid) /\ uid \in 0..MaxGenerated
        /\ HandlersOK(heap, handlers) /\ uid \in Nat /\ MaxGenerated \in Nat
    BY BoundsAssumption DEF IInv, Sound, Good
  <1>2. ReadOK(r, s) /\ r.heap = heap /\ r.ids = ids /\ r.uid = uid
    BY DocumentsAssumption, ReadingFacts, ReadObjectOK
  <1>3. /\ s.uid <= MaxGenerated /\ uid' = s.uid /\ report' = None
        /\ IF s.ok /\ c.ok
           THEN /\ heap' = s.heap /\ ids' = s.ids
                /\ handlers' = [u \in 0..MaxUid |-> handlers[u] \o SetToSeq(OfUid(u))]
           ELSE heap' = heap /\ ids' = ids /\ handlers' = handlers
    BY DEF Initialize
  <1>. HIDE DEF r, s, c
  <1>4. s \in Reader /\ s.uid \in 0..MaxGenerated /\ s.uid \in Nat /\ uid <= s.uid
    BY <1>1, <1>2, <1>3 DEF ReadOK, Reader
  <1>5. CASE s.ok /\ c.ok
    <2>1. /\ Orderly(s) /\ GoesOn(r, s) /\ s.made \in Live(s.heap)
      BY <1>2, <1>5 DEF ReadOK, Follows
    <2>2. /\ Good(s.heap, s.uid, {}) /\ IdsOK(s.heap, s.ids, s.uid) /\ s.heap \in Heap
          /\ s.references \subseteq Nat \X (Objects \X Keys)
          /\ \A x \in s.references : Present(s.heap, x[2])
      BY <1>4, <2>1 DEF Orderly, Good, Reader, References
    <2>3. GoesOn(Now, s)
      BY <1>2, <2>1, NowValid DEF GoesOn
    <2>4. HandlersOK(s.heap, handlers)
      BY <1>1, <2>2, <2>3, GoesOnHandlers, HandlersStay
    <2>5. Found(s, c)
      <3>1. s.made # None
        BY <2>1, NoneAssumption DEF Live
      <3>. QED
        BY <1>4, <2>2, <3>1, PathMapOK DEF c
    <2>6. ASSUME NEW u \in 0..MaxUid
          PROVE  /\ IsFiniteSet(OfUid(u))
                 /\ \A q \in OfUid(u) : /\ q \in Objects \X Keys /\ Present(s.heap, q)
                                        /\ At(s.heap, q).type = "int8"
      <3>1. ASSUME NEW q \in OfUid(u)
            PROVE  q \in Objects \X Keys /\ Present(s.heap, q) /\ At(s.heap, q).type = "int8"
        <4>1. PICK entry \in c.map : q = entry[2]
          OBVIOUS
        <4>2. PICK x \in s.references : entry[2] = x[2]
          BY <2>5, <4>1 DEF Found
        <4>3. x[2] \in Objects \X Keys
          BY <2>2, <4>2
        <4>. QED
          BY <2>2, <4>1, <4>2, <4>3
      <3>2. OfUid(u) \subseteq Objects \X Keys
        BY <3>1
      <3>3. IsFiniteSet(Objects \X Keys)
        BY ObjectsAssumption, KeysAssumption, FS_Product
      <3>4. IsFiniteSet(OfUid(u))
        BY <3>2, <3>3, FS_Subset
      <3>. QED
        BY <3>1, <3>4
    <2>. HIDE DEF OfUid
    <2>7. HandlersOK(s.heap, [u \in 0..MaxUid |-> handlers[u] \o SetToSeq(OfUid(u))])
      <3>. DEFINE of == [u \in 0..MaxUid |-> OfUid(u)]
      <3>1. \A u \in 0..MaxUid : of[u] = OfUid(u)
        OBVIOUS
      <3>. HIDE DEF of
      <3>2. HandlersOK(s.heap, [u \in 0..MaxUid |-> handlers[u] \o SetToSeq(of[u])])
        BY <2>4, <2>6, <3>1, HandlersMore
      <3>. QED
        BY <3>1, <3>2
    <2>8. Sound(heap', ids', uid', handlers')
      BY <1>3, <1>4, <1>5, <2>2, <2>7 DEF Sound
    <2>. QED
      BY <1>3, <2>8, Unreported
  <1>6. CASE ~ (s.ok /\ c.ok)
    <2>1. Good(heap, s.uid, {})
      BY <1>1, <1>4, GoodLater
    <2>2. IdsOK(heap, ids, s.uid)
      BY <1>1, <1>4, IdsLater
    <2>3. Sound(heap', ids', uid', handlers')
      BY <1>1, <1>3, <1>4, <1>6, <2>1, <2>2 DEF Sound
    <2>. QED
      BY <1>3, <2>3, Unreported
  <1>. QED
    BY <1>5, <1>6

LEMMA StateNextOK ==
    ASSUME IInv, [StateNext]_allVars
    PROVE  IInv'
  <1>1. CASE \E document \in Documents : Initialize(document)
    BY <1>1, InitializeOK
  <1>2. CASE Next
    BY <1>2, NextOK
  <1>3. CASE UNCHANGED allVars
    BY <1>3, NextOK DEF allVars
  <1>. QED
    BY <1>1, <1>2, <1>3 DEF StateNext

\* Wherever an object comes from, a document or a caller: the objects are a forest, and what
\* observes a property is it or what it descends from.
THEOREM StateInvariance == StateSpec => []IInv
  <1>1. StateInit => IInv
    BY InitOK DEF StateInit
  <1>2. IInv /\ [StateNext]_allVars => IInv'
    BY StateNextOK
  <1>. QED
    BY <1>1, <1>2, PTL DEF StateSpec

-----------------------------------------------------------------------------
(***************************************************************************)
(* What is written of an object.                                           *)
(***************************************************************************)

WritesDown(f, s, N) ==
    \A n \in 0..N : f[n] = [o \in Objects |->
                IF n = 0 \/ s.heap[o] = None THEN Missing ELSE
                [uid |-> s.ids[o],
                 properties |-> [k \in Keys |->
                                    IF s.heap[o][k] = None THEN None
                                    ELSE WrittenProperty(f[n - 1], s.heap[o][k])]]]

LEMMA WrittenRecursion ==
    ASSUME NEW s, NEW N \in Nat, N = Cardinality(Objects)
    PROVE  \E f : WrittenTo(s) = f
                  /\ WritesDown(f, s, N)
  <1>. DEFINE level(n, g) == [o \in Objects |->
                IF n = 0 \/ s.heap[o] = None THEN Missing ELSE
                [uid |-> s.ids[o],
                 properties |-> [k \in Keys |->
                                    IF s.heap[o][k] = None THEN None
                                    ELSE WrittenProperty(g, s.heap[o][k])]]]
              P(m) == \E f : f = [n \in 0..m |-> level(n, f[n - 1])]
              S == {m \in 0..N : P(m)}
  <1>1. \A g, h : level(0, g) = level(0, h)
    OBVIOUS
  <1>. HIDE DEF level
  <1>2. P(0)
    <2>. DEFINE f == [n \in 0..0 |-> level(0, 0)]
    <2>1. f = [n \in 0..0 |-> level(n, f[n - 1])]
      <3>1. level(0, 0) = level(0, f[-1])
        BY <1>1
      <3>. QED
        BY <3>1
    <2>. QED
      BY <2>1
  <1>3. ASSUME NEW m \in 1..N, P(m - 1) PROVE P(m)
    <2>1. PICK f : f = [n \in 0..(m - 1) |-> level(n, f[n - 1])]
      BY <1>3
    <2>. DEFINE g == [n \in 0..m |-> IF n = m THEN level(m, f[m - 1]) ELSE f[n]]
    <2>2. ASSUME NEW n \in 0..m PROVE g[n] = level(n, g[n - 1])
      <3>1. CASE n = m
        <4>1. g[n - 1] = f[n - 1]
          BY <3>1
        <4>. QED
          BY <3>1, <4>1
      <3>2. CASE n # m
        <4>1. n \in 0..(m - 1) /\ g[n] = f[n] /\ f[n] = level(n, f[n - 1])
          BY <2>1, <3>2
        <4>2. CASE n = 0
          BY <1>1, <4>1, <4>2
        <4>3. CASE n # 0
          <5>1. g[n - 1] = f[n - 1]
            BY <3>2, <4>3
          <5>. QED
            BY <4>1, <5>1
        <4>. QED
          BY <4>2, <4>3
      <3>. QED
        BY <3>1, <3>2
    <2>3. g = [n \in 0..m |-> level(n, g[n - 1])]
      <3>. HIDE DEF g
      <3>1. DOMAIN g = 0..m /\ g = [n \in 0..m |-> g[n]]
        BY DEF g
      <3>. QED
        BY <2>2, <3>1
    <2>. QED
      BY <2>3
  <1>. HIDE DEF P
  <1>4. 0 \in S /\ \A m \in 1..N : m - 1 \in S => m \in S
    BY <1>2, <1>3
  <1>5. N \in S
    <2>1. 0..N \subseteq S
      BY <1>4, Induction
    <2>. QED
      BY <2>1
  <1>. DEFINE F == CHOOSE f : f = [n \in 0..N |-> [o \in Objects |->
                IF n = 0 \/ s.heap[o] = None THEN Missing ELSE
                [uid |-> s.ids[o],
                 properties |-> [k \in Keys |->
                                    IF s.heap[o][k] = None THEN None
                                    ELSE WrittenProperty(f[n - 1], s.heap[o][k])]]]]
  <1>6. F = [n \in 0..N |-> level(n, F[n - 1])]
    <2>1. P(N)
      BY <1>5
    <2>. QED
      BY <2>1 DEF P, level
  <1>7. WrittenTo(s) = F
    BY DEF WrittenTo, Depths
  <1>. HIDE DEF F
  <1>8. \A n \in 0..N : F[n] = level(n, F[n - 1])
    BY <1>6
  <1>9. WritesDown(F, s, N)
    BY <1>8 DEF level, WritesDown
  <1>. QED
    BY <1>7, <1>9

\* What is written of an object, with what is written of those in it.
WrittenWith(s, o, inner) ==
    [uid |-> s.ids[o],
     properties |-> [k \in Keys |-> IF s.heap[o][k] = None THEN None
                                    ELSE WrittenProperty(inner, s.heap[o][k])]]

LEMMA WrittenStep ==
    ASSUME NEW s, NEW m \in Depths, m # 0, NEW o \in Objects, s.heap[o] # None
    PROVE  WrittenTo(s)[m][o] = WrittenWith(s, o, WrittenTo(s)[m - 1])
  <1>1. PICK f : WrittenTo(s) = f /\ WritesDown(f, s, Cardinality(Objects))
    BY ObjectsFacts, WrittenRecursion
  <1>. DEFINE level == [a \in Objects |->
                           IF m = 0 \/ s.heap[a] = None THEN Missing ELSE
                           [uid |-> s.ids[a],
                            properties |-> [k \in Keys |->
                                               IF s.heap[a][k] = None THEN None
                                               ELSE WrittenProperty(f[m - 1], s.heap[a][k])]]]
  <1>2. f[m] = level
    BY <1>1 DEF WritesDown, Depths
  <1>3. level[o] = WrittenWith(s, o, f[m - 1])
    BY DEF WrittenWith
  <1>. QED
    BY <1>1, <1>2, <1>3

\* t is s as far as the objects of C go, which hold no others.
Closed(h, C) ==
    /\ C \subseteq Live(h)
    /\ \A y \in C : \A k \in KeysOf(h[y]) : \A i \in DOMAIN h[y][k].values :
          h[y][k].values[i] = None \/ h[y][k].values[i] \in C
Alike(s, t, C) == \A y \in C : t.heap[y] = s.heap[y] /\ t.ids[y] = s.ids[y]

\* What is written of an object does not depend on others.
LEMMA WrittenAlike ==
    ASSUME NEW s, NEW t, NEW C, Closed(s.heap, C), Alike(s, t, C)
    PROVE  \A m \in Depths : \A x \in C : WrittenTo(t)[m][x] = WrittenTo(s)[m][x]
  <1>. DEFINE N == Cardinality(Objects)
              S == {m \in 0..N : \A x \in C : WrittenTo(t)[m][x] = WrittenTo(s)[m][x]}
  <1>1. N \in Nat
    BY ObjectsFacts
  <1>2. \A x \in C : x \in Objects /\ s.heap[x] # None
    BY DEF Closed, Live
  <1>3. 0 \in S
    <2>1. PICK f : WrittenTo(s) = f /\ WritesDown(f, s, N)
      BY <1>1, WrittenRecursion
    <2>2. PICK g : WrittenTo(t) = g /\ WritesDown(g, t, N)
      BY <1>1, WrittenRecursion
    <2>3. 0 \in 0..N
      BY <1>1
    <2>4. \A x \in Objects : f[0][x] = Missing /\ g[0][x] = Missing
      <3>1. f[0] = [o \in Objects |->
                IF 0 = 0 \/ s.heap[o] = None THEN Missing ELSE
                [uid |-> s.ids[o],
                 properties |-> [k \in Keys |->
                                    IF s.heap[o][k] = None THEN None
                                    ELSE WrittenProperty(f[0 - 1], s.heap[o][k])]]]
        BY <2>1, <2>3 DEF WritesDown
      <3>2. g[0] = [o \in Objects |->
                IF 0 = 0 \/ t.heap[o] = None THEN Missing ELSE
                [uid |-> t.ids[o],
                 properties |-> [k \in Keys |->
                                    IF t.heap[o][k] = None THEN None
                                    ELSE WrittenProperty(g[0 - 1], t.heap[o][k])]]]
        BY <2>2, <2>3 DEF WritesDown
      <3>. QED
        BY <3>1, <3>2
    <2>. QED
      BY <1>2, <2>1, <2>2, <2>3, <2>4
  <1>4. ASSUME NEW m \in 1..N, m - 1 \in S PROVE m \in S
    <2>. DEFINE a == WrittenTo(s)[m - 1]
                b == WrittenTo(t)[m - 1]
    <2>1. m \in 0..N /\ m # 0 /\ \A y \in C : b[y] = a[y]
      BY <1>4
    <2>. HIDE DEF a, b
    <2>2. ASSUME NEW x \in C PROVE WrittenTo(t)[m][x] = WrittenTo(s)[m][x]
      <3>1. /\ x \in Objects /\ s.heap[x] # None /\ t.heap[x] = s.heap[x] /\ t.ids[x] = s.ids[x]
        BY <1>2 DEF Alike
      <3>2. /\ WrittenTo(s)[m][x] = WrittenWith(s, x, a)
            /\ WrittenTo(t)[m][x] = WrittenWith(t, x, b)
        BY <2>1, <3>1, WrittenStep DEF Depths, a, b
      <3>3. ASSUME NEW k \in Keys, s.heap[x][k] # None
            PROVE  WrittenProperty(b, s.heap[x][k]) = WrittenProperty(a, s.heap[x][k])
        <4>. DEFINE p == s.heap[x][k]
        <4>1. \A i \in DOMAIN p.values : p.values[i] = None \/ p.values[i] \in C
          BY <3>3 DEF Closed, KeysOf
        <4>. HIDE DEF p
        <4>2. \A i \in DOMAIN p.values : (IF p.values[i] = None THEN None ELSE b[p.values[i]])
                                          = (IF p.values[i] = None THEN None ELSE a[p.values[i]])
          BY <2>1, <4>1
        <4>3. [i \in DOMAIN p.values |-> IF p.values[i] = None THEN None ELSE b[p.values[i]]]
              = [i \in DOMAIN p.values |-> IF p.values[i] = None THEN None ELSE a[p.values[i]]]
          BY <4>2
        <4>4. WrittenProperty(b, p) = WrittenProperty(a, p)
          BY <4>3 DEF WrittenProperty
        <4>. QED
          BY <4>4 DEF p
      <3>4. WrittenWith(t, x, b) = WrittenWith(s, x, a)
        <4>1. \A k \in Keys : (IF s.heap[x][k] = None THEN None ELSE WrittenProperty(b, s.heap[x][k]))
                            = (IF s.heap[x][k] = None THEN None ELSE WrittenProperty(a, s.heap[x][k]))
          BY <3>3
        <4>2. [k \in Keys |-> IF s.heap[x][k] = None THEN None ELSE WrittenProperty(b, s.heap[x][k])]
            = [k \in Keys |-> IF s.heap[x][k] = None THEN None ELSE WrittenProperty(a, s.heap[x][k])]
          BY <4>1
        <4>. QED
          BY <3>1, <4>2 DEF WrittenWith
      <3>. QED
        BY <3>2, <3>4
    <2>. QED
      BY <2>1, <2>2
  <1>5. 0..N \subseteq S
    BY <1>1, <1>3, <1>4, Induction
  <1>. QED
    BY <1>5 DEF Depths

\* Which documents are regular, level by level.
RegularLevels(f, N) ==
    \A n \in 0..N : f[n] = IF n = 0 THEN {}
            ELSE {d \in DocumentsTo(n) : RegularMap(UidsTo(n - 1), f[n - 1], d)}

LEMMA RegularRecursion ==
    ASSUME NEW document, NEW N \in Nat, N = Cardinality(Objects)
    PROVE  \E f : (Regular(document) <=> document \in f[N])
                  /\ RegularLevels(f, N)
  <1>. DEFINE level(n, g) == IF n = 0 THEN {}
            ELSE {d \in DocumentsTo(n) : RegularMap(UidsTo(n - 1), g, d)}
              P(m) == \E f : f = [n \in 0..m |-> level(n, f[n - 1])]
              S == {m \in 0..N : P(m)}
  <1>1. \A g, h : level(0, g) = level(0, h)
    OBVIOUS
  <1>. HIDE DEF level
  <1>2. P(0)
    <2>. DEFINE f == [n \in 0..0 |-> level(0, 0)]
    <2>1. f = [n \in 0..0 |-> level(n, f[n - 1])]
      <3>1. level(0, 0) = level(0, f[-1])
        BY <1>1
      <3>. QED
        BY <3>1
    <2>. QED
      BY <2>1
  <1>3. ASSUME NEW m \in 1..N, P(m - 1) PROVE P(m)
    <2>1. PICK f : f = [n \in 0..(m - 1) |-> level(n, f[n - 1])]
      BY <1>3
    <2>. DEFINE g == [n \in 0..m |-> IF n = m THEN level(m, f[m - 1]) ELSE f[n]]
    <2>2. ASSUME NEW n \in 0..m PROVE g[n] = level(n, g[n - 1])
      <3>1. CASE n = m
        <4>1. g[n - 1] = f[n - 1]
          BY <3>1
        <4>. QED
          BY <3>1, <4>1
      <3>2. CASE n # m
        <4>1. n \in 0..(m - 1) /\ g[n] = f[n] /\ f[n] = level(n, f[n - 1])
          BY <2>1, <3>2
        <4>2. CASE n = 0
          BY <1>1, <4>1, <4>2
        <4>3. CASE n # 0
          <5>1. g[n - 1] = f[n - 1]
            BY <3>2, <4>3
          <5>. QED
            BY <4>1, <5>1
        <4>. QED
          BY <4>2, <4>3
      <3>. QED
        BY <3>1, <3>2
    <2>3. g = [n \in 0..m |-> level(n, g[n - 1])]
      <3>. HIDE DEF g
      <3>1. DOMAIN g = 0..m /\ g = [n \in 0..m |-> g[n]]
        BY DEF g
      <3>. QED
        BY <2>2, <3>1
    <2>. QED
      BY <2>3
  <1>. HIDE DEF P
  <1>4. 0 \in S /\ \A m \in 1..N : m - 1 \in S => m \in S
    BY <1>2, <1>3
  <1>5. N \in S
    <2>1. 0..N \subseteq S
      BY <1>4, Induction
    <2>. QED
      BY <2>1
  <1>. DEFINE F == CHOOSE f : f = [n \in 0..N |-> IF n = 0 THEN {}
            ELSE {d \in DocumentsTo(n) : RegularMap(UidsTo(n - 1), f[n - 1], d)}]
  <1>6. F = [n \in 0..N |-> level(n, F[n - 1])]
    <2>1. P(N)
      BY <1>5
    <2>. QED
      BY <2>1 DEF P, level
  <1>7. (Regular(document) <=> document \in F[N])
    BY DEF Regular, Depths
  <1>. HIDE DEF F
  <1>8. \A n \in 0..N : F[n] = level(n, F[n - 1])
    BY <1>6
  <1>9. RegularLevels(F, N)
    BY <1>8 DEF level, RegularLevels
  <1>. QED
    BY <1>7, <1>9

\* What the proofs need of a regular document.
RegularListed(p, R) ==
    /\ p.list # Missing /\ p.uid # 0
    /\ \A i \in DOMAIN p.list : p.list[i] # None => p.list[i] \in R
RegularDocument(d, R) ==
    /\ d # Missing /\ d.properties # Missing /\ KeysListed(d) # {} /\ d.uid # 0
    /\ \A k \in KeysListed(d) :
          /\ RegularListed(d.properties[k], R)
          /\ \A j \in KeysListed(d) : j # k => d.properties[j].uid # d.properties[k].uid

LEMMA RegularFacts ==
    ASSUME NEW N \in Nat, NEW f, RegularLevels(f, N)
    PROVE  /\ f[0] = {}
           /\ \A n \in 0..N : f[n] \subseteq DocumentsTo(n)
           /\ \A n \in 1..N : \A d \in f[n] : RegularDocument(d, f[n - 1])
  <1>1. f[0] = {}
    <2>1. 0 \in 0..N
      OBVIOUS
    <2>. QED
      BY <2>1 DEF RegularLevels
  <1>2. ASSUME NEW n \in 1..N
        PROVE  /\ f[n] \subseteq DocumentsTo(n)
               /\ \A d \in f[n] : RegularDocument(d, f[n - 1])
    <2>1. f[n] = {d \in DocumentsTo(n) : RegularMap(UidsTo(n - 1), f[n - 1], d)}
      <3>1. n \in 0..N /\ n # 0
        OBVIOUS
      <3>. QED
        BY <3>1 DEF RegularLevels
    <2>. DEFINE uids == UidsTo(n - 1)
                R == f[n - 1]
    <2>. HIDE DEF uids, R
    <2>2. ASSUME NEW d, RegularMap(uids, R, d) PROVE RegularDocument(d, R)
      <3>1. d # Missing /\ KeysListed(d) # {} /\ d.uid # 0
        BY <2>2 DEF RegularMap
      <3>2. ASSUME NEW k \in KeysListed(d) PROVE RegularListed(d.properties[k], R)
        BY <2>2 DEF RegularMap, RegularProperty, RegularListed
      <3>3. ASSUME NEW k \in KeysListed(d), NEW j \in KeysListed(d), j # k
            PROVE  d.properties[j].uid # d.properties[k].uid
        <4>1. UidsIn(uids, d.properties[j]) \cap UidsIn(uids, d.properties[k]) = {}
          BY <2>2, <3>3 DEF RegularMap
        <4>2. /\ d.properties[j].uid \in UidsIn(uids, d.properties[j])
              /\ d.properties[k].uid \in UidsIn(uids, d.properties[k])
          BY DEF UidsIn
        <4>. QED
          BY <4>1, <4>2
      <3>4. d.properties # Missing
        BY <3>1 DEF KeysListed
      <3>. QED
        BY <3>1, <3>2, <3>3, <3>4 DEF RegularDocument
    <2>. QED
      BY <2>1, <2>2 DEF uids, R
  <1>3. f[0] \subseteq DocumentsTo(0)
    BY <1>1
  <1>. QED
    BY <1>1, <1>2, <1>3

-----------------------------------------------------------------------------
(***************************************************************************)
(* Reading leaves no node at throws for.                                   *)
(***************************************************************************)

\* t comes after s: there are more edges, and what was referred to still is.
Grows(s, t) ==
    /\ Len(s.edges) <= Len(t.edges) /\ \A i \in 1..Len(s.edges) : t.edges[i] = s.edges[i]
    /\ \A node : IsReferred(s, node) => IsReferred(t, node)
\* But for those in U, all nodes new edges lead to are settled.
Pending(s, t, U) ==
    /\ Grows(s, t)
    /\ \A i \in 1..Len(t.edges) :
          i > Len(s.edges) => Settled(t, t.edges[i][2]) \/ t.edges[i][2] \in U

LEMMA GrowsFacts ==
    ASSUME NEW s \in Reader, NEW t \in Reader, Grows(s, t)
    PROVE  \A node : /\ IsSource(s, node) => IsSource(t, node)
                     /\ Settled(s, node) => Settled(t, node)
  <1>1. Len(s.edges) \in Nat /\ Len(t.edges) \in Nat
    BY EdgesFacts
  <1>2. ASSUME NEW node, IsSource(s, node) PROVE IsSource(t, node)
    <2>1. PICK i \in 1..Len(s.edges) : s.edges[i][1] = node
      BY <1>2 DEF IsSource
    <2>2. i \in 1..Len(t.edges) /\ t.edges[i] = s.edges[i]
      BY <1>1 DEF Grows
    <2>. QED
      BY <2>1, <2>2 DEF IsSource
  <1>. QED
    BY <1>2 DEF Settled, Grows

LEMMA PendingFurther ==
    ASSUME NEW s \in Reader, NEW t \in Reader, NEW w \in Reader, NEW U,
           Pending(s, t, U), Pending(t, w, U) \/ Pending(t, w, {})
    PROVE  Pending(s, w, U)
  <1>1. Len(s.edges) \in Nat /\ Len(t.edges) \in Nat /\ Len(w.edges) \in Nat
    BY EdgesFacts
  <1>2. Grows(s, t) /\ Grows(t, w)
    BY DEF Pending
  <1>3. Grows(s, w)
    BY <1>1, <1>2 DEF Grows
  <1>4. ASSUME NEW i \in 1..Len(w.edges), i > Len(s.edges)
        PROVE  Settled(w, w.edges[i][2]) \/ w.edges[i][2] \in U
    <2>1. CASE i > Len(t.edges)
      BY <2>1 DEF Pending
    <2>2. CASE ~(i > Len(t.edges))
      <3>1. i \in 1..Len(t.edges) /\ w.edges[i] = t.edges[i]
        BY <1>1, <1>2, <2>2 DEF Grows
      <3>2. Settled(t, t.edges[i][2]) \/ t.edges[i][2] \in U
        BY <1>4, <3>1 DEF Pending
      <3>. QED
        BY <1>2, <3>1, <3>2, GrowsFacts
    <2>. QED
      BY <2>1, <2>2
  <1>. QED
    BY <1>3, <1>4 DEF Pending

LEMMA PendingSame ==
    ASSUME NEW s \in Reader, NEW t \in Reader, t.edges = s.edges, t.references = s.references, NEW U
    PROVE  Pending(s, t, U)
  <1>1. Len(s.edges) \in Nat
    BY EdgesFacts
  <1>. QED
    BY <1>1 DEF Pending, Grows, IsReferred

PushedOK(s, t, node, U) ==
    /\ Pending(s, t, U) /\ t.stack = Append(s.stack, node)
    /\ s.stack # <<>> => IsSource(t, s.stack[Len(s.stack)])
LEMMA PendingPushed ==
    ASSUME NEW s \in Reader, NEW node \in Nat, NEW U, node \in U
    PROVE  PushedOK(s, PushAdjacencyLevel(s, node), node, U)
  <1>. DEFINE t == PushAdjacencyLevel(s, node)
  <1>. SUFFICES PushedOK(s, t, node, U)
    OBVIOUS
  <1>1. /\ Moves(s, t) /\ t.stack = Append(s.stack, node)
        /\ t.edges = IF s.stack = <<>> THEN s.edges
                     ELSE Append(s.edges, <<s.stack[Len(s.stack)], node>>)
    BY LevelsFacts
  <1>. HIDE DEF t
  <1>2. t \in Reader /\ t.references = s.references
    BY <1>1 DEF Moves
  <1>3. CASE s.stack = <<>>
    BY <1>1, <1>2, <1>3, PendingSame DEF PushedOK
  <1>4. CASE s.stack # <<>>
    <2>. DEFINE last == s.stack[Len(s.stack)]
    <2>1. last \in Nat
      <3>1. s.stack \in Seq(Nat)
        BY DEF Reader
      <3>. QED
        BY <1>4, <3>1
    <2>. HIDE DEF last
    <2>2. t.edges = Append(s.edges, <<last, node>>)
      BY <1>1, <1>4 DEF last
    <2>3. s.edges \in Seq(Nat \X Nat) /\ Len(s.edges) \in Nat /\ <<last, node>> \in Nat \X Nat
      BY <2>1 DEF Reader
    <2>4. /\ Len(t.edges) = Len(s.edges) + 1 /\ t.edges[Len(s.edges) + 1] = <<last, node>>
          /\ \A i \in 1..Len(s.edges) : t.edges[i] = s.edges[i]
      BY <2>2, <2>3
    <2>5. Grows(s, t)
      BY <1>2, <2>3, <2>4 DEF Grows, IsReferred
    <2>6. ASSUME NEW i \in 1..Len(t.edges), i > Len(s.edges) PROVE t.edges[i][2] \in U
      <3>1. i = Len(s.edges) + 1
        BY <2>3, <2>4, <2>6
      <3>. QED
        BY <2>4, <3>1
    <2>7. IsSource(t, last)
      <3>1. Len(s.edges) + 1 \in 1..Len(t.edges) /\ t.edges[Len(s.edges) + 1][1] = last
        BY <2>3, <2>4
      <3>. QED
        BY <3>1 DEF IsSource
    <2>. QED
      BY <1>1, <2>5, <2>6, <2>7 DEF Pending, PushedOK, last
  <1>. QED
    BY <1>3, <1>4

\* What is pending is settled in the end.
LEMMA PendingSettled ==
    ASSUME NEW s \in Reader, NEW t \in Reader, NEW w \in Reader, NEW U, Pending(s, t, U),
           Grows(t, w), w.edges = t.edges, \A node \in U : Settled(w, node)
    PROVE  Pending(s, w, {})
  <1>1. Len(s.edges) \in Nat /\ Len(t.edges) \in Nat /\ Grows(s, t)
    BY EdgesFacts DEF Pending
  <1>2. Grows(s, w)
    BY <1>1 DEF Grows
  <1>3. ASSUME NEW i \in 1..Len(w.edges), i > Len(s.edges)
        PROVE  Settled(w, w.edges[i][2])
    <2>1. Settled(t, t.edges[i][2]) \/ t.edges[i][2] \in U
      BY <1>3 DEF Pending
    <2>. QED
      BY <2>1, GrowsFacts
  <1>. QED
    BY <1>2, <1>3 DEF Pending

-----------------------------------------------------------------------------
(***************************************************************************)
(* What has been read is written as it was.                                *)
(***************************************************************************)

\* The objects in an object o that is being read.
Within(s, t, o) == Live(t.heap) \ (Live(s.heap) \cup {o})
\* From t to w, nothing happens to objects there are, but to o.
Kept(t, w, o) ==
    \A y \in Live(t.heap) : y # o => w.heap[y] = t.heap[y] /\ w.ids[y] = t.ids[y]

\* x is the object that has been read from v, or null.
Holding(s, t, o, x, v, n) ==
    IF v = None THEN x = None
    ELSE /\ x \in Within(s, t, o)
         /\ \A m \in Depths : m >= n => WrittenTo(t)[m][x] = v

LEMMA HoldingStays ==
    ASSUME NEW s \in Reader, NEW t, NEW o, NEW d, FilledOK(s, t, o, d), t.ok, NEW w \in Reader,
           Kept(t, w, o), NEW x, NEW v, NEW n, Holding(s, t, o, x, v, n)
    PROVE  Holding(s, w, o, x, v, n)
  <1>. DEFINE C == Within(s, t, o)
  <1>1. /\ t \in Reader /\ Good(t.heap, t.uid, {}) /\ GoesOn(s, t) /\ Fresh(t.heap, o)
    BY DEF FilledOK, Follows, Orderly
  <1>2. Closed(t.heap, C)
    <2>1. ASSUME NEW y \in C, NEW k \in KeysOf(t.heap[y]), NEW i \in DOMAIN t.heap[y][k].values,
                 t.heap[y][k].values[i] # None
          PROVE  t.heap[y][k].values[i] \in C
      <3>. DEFINE z == t.heap[y][k].values[i]
      <3>1. y \in Live(t.heap) /\ y \notin Live(s.heap) /\ y \in Objects
        BY DEF Within, Live
      <3>2. z # o /\ z \notin Live(s.heap)
        BY <1>1, <3>1 DEF Fresh, GoesOn
      <3>3. z \in Live(t.heap)
        <4>1. PropertyOK(t.heap, t.uid, {}, y, k)
          BY <1>1, <3>1 DEF Good
        <4>2. t.heap[y][k] \in Property
          BY <1>1, <2>1, <3>1, LiveFacts DEF Good
        <4>3. z \in Objects
          BY <2>1, <4>2, PropertyFacts
        <4>4. t.heap[z] # None
          BY <2>1, <4>1 DEF PropertyOK
        <4>. QED
          BY <4>3, <4>4 DEF Live
      <3>. QED
        BY <3>2, <3>3 DEF Within
    <2>. QED
      BY <2>1 DEF Closed, Within
  <1>3. Alike(t, w, C)
    BY DEF Alike, Kept, Within
  <1>4. CASE v = None
    BY <1>4 DEF Holding
  <1>5. CASE v # None
    <2>1. x \in C /\ \A m \in Depths : m >= n => WrittenTo(t)[m][x] = v
      BY <1>5 DEF Holding
    <2>2. \A m \in Depths : m >= n => WrittenTo(w)[m][x] = v
      BY <1>2, <1>3, <2>1, WrittenAlike
    <2>3. x \in Within(s, w, o)
      BY <1>3, <2>1 DEF Within, Alike, Live
    <2>. QED
      BY <1>5, <2>2, <2>3 DEF Holding
  <1>. QED
    BY <1>4, <1>5

SameAttributes(q, p) ==
    /\ q.type = p.type /\ q.uid = p.uid /\ q.name = p.name /\ q.capacity = p.capacity
    /\ q.replicate = p.replicate /\ q.writable = p.writable
\* The property k of o has been read from p, with the first i of its values.
PropertyRead(s, t, o, k, p, i, n) ==
    /\ SameAttributes(t.heap[o][k], p) /\ Len(t.heap[o][k].values) = i
    /\ \A j \in 1..i : Holding(s, t, o, t.heap[o][k].values[j], p.list[j], n)

UidsOf(d) == {d.uid} \cup {d.properties[k].uid : k \in KeysListed(d)}
\* Of the properties of o, those before k have been read and those after k have not.
Others(s, t, o, d, n, k) ==
    /\ t.ids[o] = d.uid /\ Pending(s, t, UidsOf(d))
    /\ \A l \in KeysListed(d) :
          /\ l < k => LET p == d.properties[l] IN PropertyRead(s, t, o, l, p, Len(p.list), n)
          /\ l > k => t.heap[o][l].values = <<>>
\* And of k the first i values.
Halfway(s, t, o, d, n, k, i) ==
    /\ Others(s, t, o, d, n, k) /\ PropertyRead(s, t, o, k, d.properties[k], i, n)
    /\ t.stack = Append(Append(s.stack, d.uid), d.properties[k].uid) /\ IsSource(t, d.uid)

\* An object with what is in it has been read from d.
DocumentRead(s, t, d, n) ==
    /\ t.ok \/ ~HasSlot(t.heap)
    /\ t.ok => /\ t.stack = s.stack /\ Pending(s, t, {}) /\ IsSource(t, d.uid)
               /\ t.ids[t.made] = d.uid
               /\ \A m \in Depths : m >= n => WrittenTo(t)[m][t.made] = d
DocumentsRead(inner, R, n) ==
    \A s \in Reader, d \in R : Orderly(s) /\ s.ok => DocumentRead(s, inner[<<s, d>>], d, n)

LEMMA PropertyReadStays ==
    ASSUME NEW s \in Reader, NEW t, NEW o, NEW d, FilledOK(s, t, o, d), t.ok, NEW w \in Reader,
           Kept(t, w, o), NEW l, w.heap[o][l] = t.heap[o][l], NEW p, NEW i, NEW n,
           PropertyRead(s, t, o, l, p, i, n)
    PROVE  PropertyRead(s, w, o, l, p, i, n)
  <1>1. \A j \in 1..i : Holding(s, w, o, w.heap[o][l].values[j], p.list[j], n)
    BY HoldingStays DEF PropertyRead
  <1>. QED
    BY <1>1 DEF PropertyRead

LEMMA OthersStay ==
    ASSUME NEW s \in Reader, NEW t, NEW o, NEW d, FilledOK(s, t, o, d), t.ok, NEW w \in Reader,
           Kept(t, w, o), w.ids[o] = t.ids[o], NEW k \in Nat, NEW n, Others(s, t, o, d, n, k),
           \A l \in KeysListed(d) : l # k => w.heap[o][l] = t.heap[o][l],
           Pending(t, w, UidsOf(d)) \/ Pending(t, w, {})
    PROVE  Others(s, w, o, d, n, k)
  <1>1. t \in Reader /\ \A l \in KeysListed(d) : l \in Nat
    BY KeysAssumption DEF FilledOK, KeysOf
  <1>2. Pending(s, w, UidsOf(d))
    BY <1>1, PendingFurther DEF Others
  <1>3. ASSUME NEW l \in KeysListed(d), NEW p, p = d.properties[l], l < k
        PROVE  PropertyRead(s, w, o, l, p, Len(p.list), n)
    <2>1. PropertyRead(s, t, o, l, p, Len(p.list), n)
      BY <1>3 DEF Others
    <2>2. w.heap[o][l] = t.heap[o][l]
      BY <1>1, <1>3
    <2>. QED
      BY <2>1, <2>2, PropertyReadStays
  <1>4. ASSUME NEW l \in KeysListed(d), l > k PROVE w.heap[o][l].values = <<>>
    BY <1>1, <1>4 DEF Others
  <1>. QED
    BY <1>2, <1>3, <1>4 DEF Others

\* A property of o is another one.
ElseKept(t, w, o, d, k, q) ==
    /\ t \in Reader /\ w \in Reader /\ Kept(t, w, o) /\ w.ids = t.ids /\ w.stack = t.stack
    /\ w.heap[o][k] = q /\ w.ok /\ Pending(t, w, {})
    /\ \A l \in KeysListed(d) : l # k => w.heap[o][l] = t.heap[o][l]
LEMMA ReplacedKept ==
    ASSUME NEW s \in Reader, NEW t, NEW w, NEW o, NEW d, FilledOK(s, t, o, d), t.ok,
           NEW k \in KeysListed(d), NEW q, ReplacedIn(s, t, w, o, d, k, q)
    PROVE  ElseKept(t, w, o, d, k, q)
  <1>1. /\ t \in Reader /\ t.heap \in Heap /\ o \in Live(t.heap) /\ o \in Objects
        /\ KeysOf(t.heap[o]) = KeysListed(d)
    BY DEF FilledOK, Follows, Orderly, Reader, Live
  <1>2. /\ w \in Reader /\ w.ids = t.ids /\ w.stack = t.stack /\ w.edges = t.edges
        /\ w.references = t.references /\ w.heap = Replaced(t.heap, o, k, q)
    BY DEF ReplacedIn, FilledOK
  <1>3. k \in Keys /\ t.heap[o] \in PropertyMap
    BY <1>1, LiveFacts
  <1>4. /\ w.heap[o][k] = q
        /\ \A l \in Keys : l # k => w.heap[o][l] = t.heap[o][l]
        /\ \A y \in Objects : y # o => w.heap[y] = t.heap[y]
    BY <1>1, <1>2, <1>3 DEF Replaced, Heap, PropertyMap
  <1>5. Kept(t, w, o)
    BY <1>2, <1>4 DEF Kept, Live
  <1>6. \A l \in KeysListed(d) : l \in Keys
    BY <1>1, LiveFacts
  <1>7. Pending(t, w, {}) /\ w.ok
    BY <1>1, <1>2, PendingSame DEF ReplacedIn
  <1>. QED
    BY <1>1, <1>2, <1>4, <1>5, <1>6, <1>7 DEF ElseKept

\* A value that is read comes to those of the property.
LEMMA HalfwayFurther ==
    ASSUME NEW inner, NEW R, NEW D, R \subseteq D, ReadsOK(inner, D), NEW n \in Nat,
           DocumentsRead(inner, R, n), NEW s \in Reader, NEW t, NEW o, NEW d,
           FilledOK(s, t, o, d), t.ok, NEW k \in KeysListed(d), NEW p, p = d.properties[k],
           p.type = "object", NEW i \in Nat \ {0}, NEW v, v = p.list[i], v \in R \cup {None},
           Halfway(s, t, o, d, n, k, i - 1), NEW w, w = ReadValue(inner, t, o, k, v)
    PROVE  /\ w.ok \/ ~HasSlot(w.heap)
           /\ w.ok => Halfway(s, w, o, d, n, k, i)
  <1>. DEFINE r == IF v = None THEN [t EXCEPT !.made = None] ELSE inner[<<t, v>>]
              made == r.made
  <1>1. w = IF r.ok THEN [r EXCEPT !.heap[o][k].values = Append(@, made)] ELSE r
    BY DEF ReadValue
  <1>2. /\ t \in Reader /\ Orderly(t) /\ o \in Live(t.heap) /\ t.heap \in Heap /\ o # None
        /\ o \notin Live(s.heap) /\ k \in Nat /\ k \in Keys
        /\ KeysOf(t.heap[o]) = KeysListed(d)
    BY KeysAssumption, NoneAssumption DEF FilledOK, Follows, Orderly, Reader, KeysOf, Live
  <1>3. /\ r.ok \/ ~HasSlot(r.heap)
        /\ r.ok => /\ r \in Reader /\ FilledOK(s, r, o, d) /\ Kept(t, r, o) /\ r.ids[o] = t.ids[o]
                   /\ r.heap[o] = t.heap[o] /\ r.stack = t.stack /\ Pending(t, r, {})
                   /\ Holding(s, r, o, made, v, n)
                   /\ made \notin Live(s.heap) /\ made # o
                   /\ made = None \/ (made \in Live(r.heap) /\ Fresh(r.heap, made))
    <2>1. CASE v = None
      <3>1. r = [t EXCEPT !.made = None]
        BY <2>1
      <3>. HIDE DEF r
      <3>2. /\ r \in Reader /\ r.made = None /\ r.heap = t.heap /\ r.ids = t.ids /\ r.uid = t.uid
            /\ r.ok = t.ok /\ r.references = t.references /\ r.edges = t.edges /\ r.stack = t.stack
        BY <1>2, <3>1 DEF Reader
      <3>3. FilledOK(s, r, o, d)
        BY <3>2 DEF FilledOK, Follows, Orderly, GoesOn, StayFresh
      <3>4. Pending(t, r, {})
        BY <1>2, <3>2, PendingSame
      <3>5. Kept(t, r, o) /\ Holding(s, r, o, made, v, n)
        BY <2>1, <3>2 DEF Kept, Holding
      <3>6. None \notin Live(s.heap)
        BY NoneAssumption DEF Live
      <3>. QED
        BY <1>2, <3>2, <3>3, <3>4, <3>5, <3>6
    <2>2. CASE v # None
      <3>1. r = inner[<<t, v>>] /\ v \in R /\ v \in D
        BY <2>2
      <3>. HIDE DEF r
      <3>2. ReadOK(t, r)
        BY <1>2, <3>1 DEF ReadsOK
      <3>3. DocumentRead(t, r, v, n)
        BY <1>2, <3>1 DEF DocumentsRead
      <3>4. /\ FilledOK(s, r, o, d)
            /\ r.ok => /\ r.heap[o] = t.heap[o] /\ r.ids[o] = t.ids[o]
                       /\ made \in Live(r.heap) /\ made \notin Live(s.heap) /\ made # o
                       /\ Fresh(r.heap, made)
        BY <3>2, FilledFurther
      <3>5. ASSUME r.ok PROVE r \in Reader /\ Kept(t, r, o) /\ Holding(s, r, o, made, v, n)
        <4>1. r \in Reader /\ GoesOn(t, r)
          BY <3>2, <3>5 DEF ReadOK, Follows
        <4>2. made \in Within(s, r, o)
          BY <3>4, <3>5 DEF Within
        <4>. QED
          BY <2>2, <3>3, <3>5, <4>1, <4>2 DEF Kept, GoesOn, Holding, DocumentRead
      <3>. QED
        BY <3>3, <3>4, <3>5 DEF DocumentRead
    <2>. QED
      BY <2>1, <2>2
  <1>. HIDE DEF r
  <1>4. CASE ~ r.ok
    BY <1>1, <1>3, <1>4
  <1>5. CASE r.ok
    <2>1. w = [r EXCEPT !.heap[o][k].values = Append(@, made)]
      BY <1>1, <1>5
    <2>2. /\ r \in Reader /\ FilledOK(s, r, o, d) /\ Kept(t, r, o) /\ r.ids[o] = t.ids[o]
          /\ r.heap[o] = t.heap[o] /\ r.stack = t.stack /\ Pending(t, r, {})
          /\ Holding(s, r, o, made, v, n)
          /\ made \notin Live(s.heap) /\ made # o
          /\ made = None \/ (made \in Live(r.heap) /\ Fresh(r.heap, made))
      BY <1>3, <1>5
    <2>. DEFINE q == r.heap[o][k]
                c == Appended(q, made)
    <2>. HIDE DEF made
    <2>3. ReplacedIn(s, r, w, o, d, k, c)
      BY <1>5, <2>1, <2>2, ValueAppended
    <2>4. q \in Property /\ made \in Objects \cup {None}
      <3>1. r.heap \in Heap /\ o \in Live(r.heap) /\ KeysOf(r.heap[o]) = KeysListed(d)
        BY <1>5, <2>2 DEF FilledOK, Follows, Orderly, Reader
      <3>. QED
        BY <2>2, <3>1, LiveFacts DEF Live
    <2>. HIDE DEF q
    <2>5. AppendedOK(c, q, made)
      BY <2>4, AppendedFacts
    <2>. HIDE DEF c
    <2>6. /\ w \in Reader /\ Kept(r, w, o) /\ w.ids = r.ids /\ w.stack = r.stack
          /\ w.heap[o][k] = c /\ w.ok /\ Pending(r, w, {})
          /\ \A l \in KeysListed(d) : l # k => w.heap[o][l] = r.heap[o][l]
      <3>1. ElseKept(r, w, o, d, k, c)
        BY <1>5, <2>2, <2>3, ReplacedKept
      <3>. QED
        BY <3>1 DEF ElseKept
    <2>7. Others(s, t, o, d, n, k) /\ PropertyRead(s, t, o, k, p, i - 1, n)
      BY DEF Halfway
    <2>8. Others(s, r, o, d, n, k) /\ PropertyRead(s, r, o, k, p, i - 1, n)
      BY <1>2, <2>2, <2>7, OthersStay, PropertyReadStays
    <2>9. Others(s, w, o, d, n, k)
      BY <1>2, <1>5, <2>2, <2>6, <2>8, OthersStay
    <2>10. PropertyRead(s, w, o, k, p, i, n)
      <3>1. SameAttributes(q, p) /\ Len(q.values) = i - 1
            /\ \A j \in 1..(i - 1) : Holding(s, r, o, q.values[j], p.list[j], n)
        BY <2>8 DEF PropertyRead, q
      <3>2. SameAttributes(c, p) /\ Len(c.values) = i
        BY <2>5, <3>1 DEF AppendedOK, SameAttributes
      <3>3. ASSUME NEW j \in 1..i PROVE Holding(s, w, o, c.values[j], p.list[j], n)
        <4>1. c.values[j] = IF j = i THEN made ELSE q.values[j]
          BY <2>5, <3>1 DEF AppendedOK
        <4>2. Holding(s, r, o, c.values[j], p.list[j], n)
          BY <2>2, <3>1, <4>1
        <4>. QED
          BY <1>5, <2>2, <2>6, <4>2, HoldingStays
      <3>. QED
        BY <2>6, <3>2, <3>3 DEF PropertyRead
    <2>11. IsSource(w, d.uid)
      <3>1. Grows(t, r) /\ Grows(r, w)
        BY <2>2, <2>6 DEF Pending
      <3>2. IsSource(t, d.uid)
        BY DEF Halfway
      <3>. QED
        BY <1>2, <2>2, <2>6, <3>1, <3>2, GrowsFacts
    <2>12. w.stack = Append(Append(s.stack, d.uid), d.properties[k].uid)
      BY <2>2, <2>6 DEF Halfway
    <2>. QED
      BY <2>6, <2>9, <2>10, <2>11, <2>12 DEF Halfway
  <1>. QED
    BY <1>4, <1>5

LEMMA FrontAppend ==
    ASSUME NEW q \in Seq(Nat), NEW x \in Nat
    PROVE  Front(Append(q, x)) = q
  BY DEF Front

\* The properties of o up to k have been read.
Between(s, t, o, d, n, k) ==
    /\ t.ids[o] = d.uid /\ Pending(s, t, UidsOf(d)) /\ t.stack = Append(s.stack, d.uid)
    /\ \A l \in KeysListed(d) :
          /\ l <= k => LET p == d.properties[l]
                       IN  PropertyRead(s, t, o, l, p, Len(p.list), n) /\ IsSource(t, d.uid)
          /\ l > k => t.heap[o][l].values = <<>>

\* A property with other attributes has no values yet.
LEMMA HalfwayFirst ==
    ASSUME NEW s \in Reader, NEW t, NEW o, NEW d, FilledOK(s, t, o, d), t.ok, NEW k \in Nat, NEW n,
           Others(s, t, o, d, n, k), IsSource(t, d.uid), NEW c, SameAttributes(c, d.properties[k]),
           t.stack = Append(Append(s.stack, d.uid), d.properties[k].uid), Len(c.values) = 0,
           NEW w, ElseKept(t, w, o, d, k, c)
    PROVE  Halfway(s, w, o, d, n, k, 0)
  <1>1. /\ t \in Reader /\ w \in Reader /\ Kept(t, w, o) /\ w.ids[o] = t.ids[o]
        /\ w.stack = t.stack /\ w.heap[o][k] = c /\ Pending(t, w, {})
        /\ \A l \in KeysListed(d) : l # k => w.heap[o][l] = t.heap[o][l]
    BY DEF ElseKept
  <1>2. Others(s, w, o, d, n, k)
    BY <1>1, OthersStay
  <1>3. PropertyRead(s, w, o, k, d.properties[k], 0, n)
    <2>1. \A j : j \notin 1..0
      OBVIOUS
    <2>. QED
      BY <1>1, <2>1, Zenon DEF PropertyRead
  <1>4. IsSource(w, d.uid)
    <2>1. Grows(t, w)
      BY <1>1 DEF Pending
    <2>. QED
      BY <1>1, <2>1, GrowsFacts
  <1>. QED
    BY <1>1, <1>2, <1>3, <1>4 DEF Halfway

\* A property with the attributes of p has no values yet.
ValuesBegun(t, o, k, p) ==
    LET pushed == PushAdjacencyLevel(Numbered(t, p.uid), NumberOf(t, p.uid))
    IN  [pushed EXCEPT !.heap = Replaced(pushed.heap, o, k, Attributes(pushed.heap[o][k], p))]
LEMMA HalfwayBegun ==
    ASSUME NEW s \in Reader, NEW t, NEW o, NEW d, FilledOK(s, t, o, d), t.ok,
           NEW k \in KeysListed(d), NEW D, NEW p, p = d.properties[k], ListedOK(p, D), p.uid # 0,
           NEW n, Between(s, t, o, d, n, k - 1), d.uid \in Nat
    PROVE  LET w == ValuesBegun(t, o, k, p)
           IN  FilledOK(s, w, o, d) /\ w.ok /\ Halfway(s, w, o, d, n, k, 0)
  <1>. DEFINE pushed == PushAdjacencyLevel(Numbered(t, p.uid), NumberOf(t, p.uid))
              w == ValuesBegun(t, o, k, p)
  <1>. SUFFICES FilledOK(s, w, o, d) /\ w.ok /\ Halfway(s, w, o, d, n, k, 0)
    OBVIOUS
  <1>1. /\ t \in Reader /\ p.uid \in Nat /\ k \in Nat /\ k \in Keys /\ o # None
        /\ \A l \in KeysListed(d) : l \in Nat
        /\ s.stack \in Seq(Nat) /\ o \in Live(t.heap) /\ t.heap \in Heap
        /\ KeysOf(t.heap[o]) = KeysListed(d) /\ Unregistered(t.heap[o][k], p.type)
    BY KeysAssumption, NoneAssumption DEF FilledOK, KeysOf, ListedOK, Reader, Live
  <1>2. /\ Others(s, t, o, d, n, k) /\ t.heap[o][k].values = <<>>
        /\ t.stack = Append(s.stack, d.uid)
    <2>1. \A l \in KeysListed(d) : (l < k => l <= k - 1) /\ (l >= k => l > k - 1)
      BY <1>1
    <2>2. k >= k
      BY <1>1
    <2>3. ASSUME NEW l \in KeysListed(d)
          PROVE  /\ l < k => LET q == d.properties[l] IN PropertyRead(s, t, o, l, q, Len(q.list), n)
                 /\ l > k => t.heap[o][l].values = <<>>
      <3>1. (l < k => l <= k - 1) /\ (l > k => l > k - 1)
        BY <1>1
      <3>. QED
        BY <3>1 DEF Between
    <2>. QED
      BY <2>1, <2>2, <2>3 DEF Between, Others
  <1>3. pushed = PushAdjacencyLevel(t, p.uid)
    BY <1>1, NumberedFacts
  <1>4. Moves(t, pushed) /\ FilledOK(s, pushed, o, d)
    BY <1>1, PushedFacts
  <1>0. w = [pushed EXCEPT !.heap = Replaced(pushed.heap, o, k, Attributes(pushed.heap[o][k], p))]
    BY DEF ValuesBegun
  <1>. HIDE DEF pushed, w
  <1>5. /\ pushed \in Reader /\ pushed.ok /\ pushed.heap = t.heap /\ pushed.ids = t.ids
        /\ Kept(t, pushed, o)
    BY <1>4 DEF Moves, Kept
  <1>6. /\ Pending(t, pushed, UidsOf(d)) /\ IsSource(pushed, d.uid)
        /\ pushed.stack = Append(Append(s.stack, d.uid), d.properties[k].uid)
    <2>1. p.uid \in UidsOf(d)
      BY DEF UidsOf
    <2>2. t.stack # <<>> /\ t.stack[Len(t.stack)] = d.uid
      BY <1>1, <1>2
    <2>3. PushedOK(t, pushed, p.uid, UidsOf(d))
      BY <1>1, <1>3, <2>1, PendingPushed
    <2>. QED
      BY <1>2, <2>2, <2>3 DEF PushedOK
  <1>7. Others(s, pushed, o, d, n, k)
    BY <1>1, <1>2, <1>5, <1>6, OthersStay
  <1>. DEFINE q == pushed.heap[o][k]
              c == Attributes(q, p)
  <1>8. q \in Property /\ q.type = p.type /\ q.values = <<>>
    BY <1>1, <1>2, <1>5, LiveFacts DEF Unregistered
  <1>9. SameAttributes(c, p) /\ Len(c.values) = 0
    <2>. HIDE DEF q
    <2>. QED
      BY <1>8 DEF SameAttributes, Attributes, Property
  <1>10. ReplacedIn(s, pushed, w, o, d, k, c)
    BY <1>4, <1>5, <1>0, AttributesOK
  <1>. HIDE DEF q, c
  <1>11. ElseKept(pushed, w, o, d, k, c)
    BY <1>4, <1>5, <1>10, ReplacedKept
  <1>12. FilledOK(s, w, o, d) /\ w.ok
    BY <1>10 DEF ReplacedIn
  <1>13. Halfway(s, w, o, d, n, k, 0)
    BY <1>1, <1>4, <1>5, <1>6, <1>7, <1>9, <1>11, HalfwayFirst
  <1>. QED
    BY <1>12, <1>13

\* A property that is read comes to those that have been.
LEMMA BetweenFurther ==
    ASSUME NEW inner, NEW R, NEW D, R \subseteq D, ReadsOK(inner, D), NEW n \in Nat,
           DocumentsRead(inner, R, n), NEW s \in Reader, NEW t, NEW o, NEW d,
           FilledOK(s, t, o, d), t.ok, NEW k \in KeysListed(d), NEW p, p = d.properties[k],
           ListedOK(p, D), RegularListed(p, R), d.uid \in Nat, Between(s, t, o, d, n, k - 1)
    PROVE  LET w == ReadProperty(inner, t, o, k, p)
           IN  /\ w.ok \/ ~HasSlot(w.heap)
               /\ w.ok => Between(s, w, o, d, n, k)
  <1>. DEFINE pushed == PushAdjacencyLevel(Numbered(t, p.uid), NumberOf(t, p.uid))
              N == Len(p.list)
              w == ReadProperty(inner, t, o, k, p)
  <1>1. /\ p.uid \in Nat /\ p.uid # 0 /\ p.list # Missing /\ N \in Nat
        /\ \A i \in 1..N : p.list[i] \in R \cup {None} /\ p.type = "object"
    <2>1. /\ p.uid \in Nat /\ p.uid # 0 /\ p.list # Missing /\ p.list \in Seq(D \cup {None})
          /\ p.type # "object" => p.list = <<>>
          /\ \A i \in DOMAIN p.list : p.list[i] # None => p.list[i] \in R
      BY DEF ListedOK, RegularListed
    <2>. QED
      BY <2>1
  <1>2. PICK f : w = PopAdjacencyLevel(f[N]) /\ ReadsValues(f, inner, pushed, o, k, p, N)
    BY <1>1, ValuesRecursion
  <1>. HIDE DEF N, w
  <1>. DEFINE S == {i \in 0..N : /\ FilledOK(s, f[i], o, d)
                                 /\ f[i].ok \/ ~HasSlot(f[i].heap)
                                 /\ f[i].ok => Halfway(s, f[i], o, d, n, k, i)}
  <1>3. 0 \in S
    <2>1. 0 \in 0..N
      BY <1>1
    <2>2. f[0] = ValuesBegun(t, o, k, p)
      BY <1>2, <2>1 DEF ReadsValues, Replaced, ValuesBegun
    <2>3. FilledOK(s, f[0], o, d) /\ f[0].ok /\ Halfway(s, f[0], o, d, n, k, 0)
      BY <1>1, <2>2, HalfwayBegun
    <2>. QED
      BY <2>1, <2>3
  <1>4. ASSUME NEW i \in 1..N, i - 1 \in S PROVE i \in S
    <2>. DEFINE v == f[i - 1]
    <2>1. /\ i \in 0..N /\ i # 0 /\ i \in Nat \ {0} /\ FilledOK(s, v, o, d)
          /\ p.list[i] \in R \cup {None} /\ p.list[i] \in D \cup {None} /\ p.type = "object"
          /\ v.ok \/ ~HasSlot(v.heap)
          /\ v.ok => Halfway(s, v, o, d, n, k, i - 1)
      BY <1>1, <1>4
    <2>2. f[i] = IF ~v.ok THEN v ELSE ReadValue(inner, v, o, k, p.list[i])
      BY <1>2, <2>1 DEF ReadsValues
    <2>. HIDE DEF v
    <2>3. CASE ~v.ok
      BY <2>1, <2>2, <2>3
    <2>4. CASE v.ok
      <3>. DEFINE x == ReadValue(inner, v, o, k, p.list[i])
      <3>1. FilledOK(s, x, o, d)
        BY <2>1, <2>4, ReadValueOK
      <3>2. (x.ok \/ ~HasSlot(x.heap)) /\ (x.ok => Halfway(s, x, o, d, n, k, i))
        BY <2>1, <2>4, HalfwayFurther
      <3>. QED
        BY <2>1, <2>2, <2>4, <3>1, <3>2
    <2>. QED
      BY <2>3, <2>4
  <1>5. /\ FilledOK(s, f[N], o, d)
        /\ f[N].ok \/ ~HasSlot(f[N].heap)
        /\ f[N].ok => Halfway(s, f[N], o, d, n, k, N)
    <2>1. 0..N \subseteq S
      BY <1>1, <1>3, <1>4, Induction
    <2>2. N \in S
      BY <1>1, <2>1
    <2>. QED
      BY <2>2
  <1>. DEFINE v == f[N]
  <1>. HIDE DEF S, v
  <1>6. v \in Reader /\ w = PopAdjacencyLevel(v)
    BY <1>2, <1>5 DEF FilledOK, v
  <1>7. Moves(v, w) /\ w.stack = Front(v.stack) /\ w.edges = v.edges
    BY <1>6, LevelsPop
  <1>8. /\ w \in Reader /\ w.heap = v.heap /\ w.ids = v.ids /\ w.ok = v.ok /\ Kept(v, w, o)
        /\ Pending(v, w, {})
    BY <1>6, <1>7, PendingSame DEF Moves, Kept
  <1>9. ASSUME w.ok PROVE Between(s, w, o, d, n, k)
    <2>1. /\ v.ok /\ FilledOK(s, v, o, d) /\ Others(s, v, o, d, n, k)
          /\ PropertyRead(s, v, o, k, p, N, n) /\ IsSource(v, d.uid)
          /\ v.stack = Append(Append(s.stack, d.uid), p.uid)
      BY <1>5, <1>8, <1>9 DEF Halfway, v
    <2>2. /\ k \in Nat /\ \A l \in KeysListed(d) : l \in Nat /\ (l <= k => l < k \/ l = k)
      <3>1. KeysListed(d) \subseteq Nat
        BY <2>1, KeysAssumption DEF FilledOK, KeysOf
      <3>. QED
        BY <3>1
    <2>3. Others(s, w, o, d, n, k) /\ PropertyRead(s, w, o, k, p, N, n)
      BY <1>8, <2>1, <2>2, OthersStay, PropertyReadStays
    <2>4. IsSource(w, d.uid)
      BY <1>6, <1>8, <2>1, GrowsFacts DEF Pending
    <2>5. w.stack = Append(s.stack, d.uid)
      <3>1. Append(s.stack, d.uid) \in Seq(Nat)
        BY DEF Reader
      <3>. QED
        BY <1>1, <1>7, <2>1, <3>1, FrontAppend
    <2>6. \A l \in KeysListed(d) :
             /\ l <= k => LET q == d.properties[l]
                          IN  PropertyRead(s, w, o, l, q, Len(q.list), n) /\ IsSource(w, d.uid)
             /\ l > k => w.heap[o][l].values = <<>>
      BY <2>2, <2>3, <2>4 DEF Others, N
    <2>. QED
      BY <2>3, <2>5, <2>6 DEF Between, Others
  <1>. QED
    BY <1>5, <1>8, <1>9 DEF v, w

\* An object all of whose properties have been read is written as it was.
IsListed(p) == Len(p.list) \in Nat /\ p.list = [i \in 1..Len(p.list) |-> p.list[i]]
ListWritten(inner, q) ==
    [i \in DOMAIN q.values |-> IF q.values[i] = None THEN None ELSE inner[q.values[i]]]
LEMMA PropertyRecord ==
    ASSUME NEW D, NEW p \in DocumentProperties(D)
    PROVE  p = [type |-> p.type, uid |-> p.uid, name |-> p.name, capacity |-> p.capacity,
                replicate |-> p.replicate, writable |-> p.writable, list |-> p.list]
  <1>. DEFINE lists == Seq(D \cup {None}) \cup {Missing}
  <1>1. CASE p \in PropertiesOf({"object"}, Seq(D \cup {None}))
    <2>1. p \in [type : {"object"}, uid : 0..MaxUid, name : Keys \cup {0}, capacity : Indices,
                 replicate : BOOLEAN, writable : BOOLEAN, list : lists]
      BY <1>1 DEF PropertiesOf
    <2>. HIDE DEF lists
    <2>. QED
      BY <2>1
  <1>2. CASE p \in PropertiesOf(ValueTypes \ {"object"}, {<<>>})
    <2>. DEFINE types == ValueTypes \ {"object"}
                none == {<<>>} \cup {Missing}
    <2>1. p \in [type : types, uid : 0..MaxUid, name : Keys \cup {0}, capacity : Indices,
                 replicate : BOOLEAN, writable : BOOLEAN, list : none]
      BY <1>2 DEF PropertiesOf
    <2>. HIDE DEF types, none
    <2>. QED
      BY <2>1
  <1>. QED
    BY <1>1, <1>2 DEF DocumentProperties

LEMMA ObjectWritten ==
    ASSUME NEW m \in Nat \ {0}, NEW d \in DocumentsTo(m), d # Missing, d.properties # Missing,
           NEW s \in Reader, NEW t, NEW o, FilledOK(s, t, o, d), t.ok, t.ids[o] = d.uid,
           \A k \in KeysListed(d) :
              LET p == d.properties[k]
              IN  p.list # Missing /\ PropertyRead(s, t, o, k, p, Len(p.list), m - 1)
    PROVE  \A l \in Depths : l >= m => WrittenTo(t)[l][o] = d
  <1>. DEFINE D == DocumentsTo(m - 1)
              maps == [Keys -> DocumentProperties(D) \cup {None}]
  <1>1. d \in [uid : 0..MaxUid, properties : maps \cup {Missing}]
    BY DocumentsFacts
  <1>2. d = [uid |-> d.uid, properties |-> d.properties] /\ d.properties \in maps
    <2>. HIDE DEF maps
    <2>. QED
      BY <1>1
  <1>. HIDE DEF D
  <1>3. /\ t.heap \in Heap /\ o \in Live(t.heap) /\ o \in Objects /\ t.heap[o] # None
        /\ KeysOf(t.heap[o]) = KeysListed(d)
    BY DEF FilledOK, Follows, Orderly, Reader, Live
  <1>4. ASSUME NEW l \in Depths, l >= m PROVE WrittenTo(t)[l][o] = d
    <2>. DEFINE inner == WrittenTo(t)[l - 1]
    <2>1. l # 0 /\ l - 1 \in Depths /\ l - 1 >= m - 1 /\ m - 1 \in Nat /\ l - 1 \in Nat
      BY <1>4, ObjectsFacts DEF Depths
    <2>2. WrittenTo(t)[l][o] = WrittenWith(t, o, inner)
      BY <1>3, <2>1, WrittenStep
    <2>3. ASSUME NEW k \in Keys
          PROVE  (IF t.heap[o][k] = None THEN None ELSE WrittenProperty(inner, t.heap[o][k]))
                 = d.properties[k]
      <3>. DEFINE q == t.heap[o][k]
                  p == d.properties[k]
      <3>1. CASE k \notin KeysListed(d)
        <4>1. p = None /\ q = None
          BY <1>3, <3>1 DEF KeysListed, KeysOf
        <4>. QED
          BY <4>1
      <3>2. CASE k \in KeysListed(d)
        <4>1. /\ p # None /\ q # None /\ q \in Property
              /\ p.list # Missing /\ PropertyRead(s, t, o, k, p, Len(p.list), m - 1)
          <5>1. q # None /\ q \in Property
            BY <1>3, <3>2, LiveFacts
          <5>2. p # None
            BY <3>2 DEF KeysListed, KeysOf
          <5>. QED
            BY <3>2, <5>1, <5>2
        <4>2. p \in DocumentProperties(D)
          BY <1>2, <4>1
        <4>3. IsListed(p)
          <5>1. p.list \in Seq(D \cup {None})
            BY <4>1, <4>2, ListedFacts DEF ListedOK
          <5>. QED
            BY <5>1 DEF IsListed
        <4>4. SameAttributes(q, p)
          BY <4>1 DEF PropertyRead
        <4>5. ListWritten(inner, q) = p.list
          <5>1. DOMAIN q.values = 1..Len(p.list) /\ p.list = [i \in 1..Len(p.list) |-> p.list[i]]
            <6>1. q.values \in Seq(Objects \cup {None}) /\ Len(q.values) = Len(p.list)
              BY <4>1, PropertyFacts DEF PropertyRead
            <6>. HIDE DEF q, p
            <6>. QED
              BY <4>3, <6>1 DEF IsListed
          <5>2. ASSUME NEW i \in 1..Len(p.list)
                PROVE  (IF q.values[i] = None THEN None ELSE inner[q.values[i]]) = p.list[i]
            <6>1. Holding(s, t, o, q.values[i], p.list[i], m - 1)
              BY <4>1, <5>2 DEF PropertyRead
            <6>2. CASE p.list[i] = None
              BY <6>1, <6>2 DEF Holding
            <6>3. CASE p.list[i] # None
              <7>1. q.values[i] \in Within(s, t, o) /\ inner[q.values[i]] = p.list[i]
                BY <2>1, <6>1, <6>3 DEF Holding
              <7>2. q.values[i] # None
                BY <7>1, NoneAssumption DEF Within, Live
              <7>. QED
                BY <7>1, <7>2
            <6>. QED
              BY <6>2, <6>3
          <5>. HIDE DEF p, q, inner
          <5>3. ListWritten(inner, q) = [i \in 1..Len(p.list) |-> p.list[i]]
            BY <5>1, <5>2 DEF ListWritten
          <5>. QED
            BY <5>1, <5>3
        <4>. HIDE DEF p, q
        <4>. HIDE DEF inner
        <4>6. WrittenProperty(inner, q)
              = [type |-> p.type, uid |-> p.uid, name |-> p.name, capacity |-> p.capacity,
                 replicate |-> p.replicate, writable |-> p.writable, list |-> p.list]
          BY <4>4, <4>5 DEF WrittenProperty, SameAttributes, ListWritten
        <4>7. WrittenProperty(inner, q) = p
          BY <4>2, <4>6, PropertyRecord
        <4>. QED
          BY <4>1, <4>7 DEF p, q
      <3>. QED
        BY <3>1, <3>2
    <2>. HIDE DEF inner
    <2>4. [k \in Keys |-> IF t.heap[o][k] = None THEN None ELSE WrittenProperty(inner, t.heap[o][k])]
          = d.properties
      <3>1. d.properties = [k \in Keys |-> d.properties[k]]
        BY <1>2
      <3>. QED
        BY <2>3, <3>1
    <2>5. WrittenWith(t, o, inner) = [uid |-> d.uid, properties |-> d.properties]
      BY <2>4 DEF WrittenWith
    <2>. QED
      BY <1>2, <2>2, <2>5
  <1>. QED
    BY <1>4

\* A UID that is referred to still is, and so are those of the properties.
LEMMA ReferringGrows ==
    ASSUME NEW h, NEW o, NEW references,
           \A k, j \in KeysOf(h[o]) : j # k => h[o][j].uid # h[o][k].uid
    PROVE  LET R == Referring(references, h, o)
           IN  /\ \A r \in references : \E q \in R : q[1] = r[1]
               /\ \A k \in KeysOf(h[o]) : \E q \in R : q[1] = h[o][k].uid
  <1>. DEFINE keys == KeysOf(h[o])
              Uid(k) == h[o][k].uid
              last == {k \in keys : \A j \in keys : Uid(j) = Uid(k) => j <= k}
              R == Referring(references, h, o)
  <1>1. R = {r \in references : \A k \in keys : r[1] # Uid(k)} \cup {<<Uid(k), <<o, k>>>> : k \in last}
    BY DEF Referring
  <1>2. keys \subseteq Nat
    BY KeysAssumption DEF KeysOf
  <1>3. ASSUME NEW k \in keys PROVE k \in last
    <2>1. \A j \in keys : Uid(j) = Uid(k) => j = k
      OBVIOUS
    <2>2. k <= k
      BY <1>2
    <2>. QED
      BY <2>1, <2>2
  <1>4. ASSUME NEW k \in keys PROVE \E q \in R : q[1] = Uid(k)
    <2>1. <<Uid(k), <<o, k>>>> \in R
      BY <1>1, <1>3
    <2>. QED
      BY <2>1
  <1>5. ASSUME NEW r \in references PROVE \E q \in R : q[1] = r[1]
    <2>1. CASE \A k \in keys : r[1] # Uid(k)
      BY <1>1, <2>1
    <2>2. CASE \E k \in keys : r[1] = Uid(k)
      BY <1>4, <2>2
    <2>. QED
      BY <2>1, <2>2
  <1>. QED
    BY <1>4, <1>5

\* Before the first property.
LEMMA BegunBetween ==
    ASSUME NEW s, Orderly(s), s.ok, HasSlot(s.heap), NEW m \in Nat \ {0},
           NEW d \in DocumentsTo(m), d # Missing, d.uid # 0, NEW o, o = FreeSlot(s.heap),
           NEW t, t = PushAdjacencyLevel(Numbered(CreateEmpty(s, d, o), d.uid), NumberOf(s, d.uid)),
           NEW n
    PROVE  Between(s, t, o, d, n, 0)
  <1>. DEFINE c == CreateEmpty(s, d, o)
  <1>1. s \in Reader /\ d.uid \in Nat /\ KeysListed(d) \subseteq Nat
    <2>1. KeysListed(d) \subseteq Keys /\ d.uid \in Nat
      BY DocumentFacts
    <2>. QED
      BY <2>1, KeysAssumption DEF Orderly
  <1>2. /\ FilledOK(s, t, o, d) /\ t.ids[o] = NumberOf(s, d.uid) /\ c \in Reader
        /\ \A k \in KeysListed(d) : t.heap[o][k].values = <<>>
    BY BegunOK
  <1>3. c.edges = s.edges /\ c.stack = s.stack /\ c.references = s.references
    BY <1>1 DEF CreateEmpty, Reader
  <1>4. NumberOf(s, d.uid) = d.uid /\ Numbered(c, d.uid) = c
    BY DEF NumberOf, Numbered
  <1>5. t = PushAdjacencyLevel(c, d.uid)
    BY <1>4
  <1>. HIDE DEF c
  <1>6. d.uid \in UidsOf(d)
    BY DEF UidsOf
  <1>7. PushedOK(c, t, d.uid, UidsOf(d))
    BY <1>1, <1>2, <1>5, <1>6, PendingPushed
  <1>8. Pending(s, c, UidsOf(d))
    BY <1>1, <1>2, <1>3, PendingSame
  <1>9. t \in Reader /\ Pending(s, t, UidsOf(d)) /\ t.stack = Append(s.stack, d.uid)
    <2>1. t \in Reader
      BY <1>2 DEF FilledOK
    <2>2. Pending(c, t, UidsOf(d)) /\ t.stack = Append(c.stack, d.uid)
      BY <1>7 DEF PushedOK
    <2>. QED
      BY <1>1, <1>2, <1>3, <1>8, <2>1, <2>2, PendingFurther
  <1>10. \A l \in KeysListed(d) : ~ (l <= 0)
    <2>1. \A l \in Keys : l > 0 /\ l \in Nat
      BY KeysFacts
    <2>2. KeysListed(d) \subseteq Keys
      BY DocumentFacts
    <2>. QED
      BY <2>1, <2>2
  <1>. QED
    BY <1>2, <1>4, <1>9, <1>10 DEF Between

\* All the properties of an object are read, unless memory does not suffice.
LEMMA MapRead ==
    ASSUME NEW inner, NEW R, NEW D, R \subseteq D, ReadsOK(inner, D), NEW n \in Nat,
           DocumentsRead(inner, R, n), NEW s \in Reader, NEW o, NEW d, d.uid \in Nat,
           \A k \in KeysListed(d) : ListedOK(d.properties[k], D) /\ RegularListed(d.properties[k], R),
           NEW begun, FilledOK(s, begun, o, d), begun.ok, Between(s, begun, o, d, n, 0),
           NEW N \in Nat, NEW f, ReadsMap(f, inner, begun, o, d, N), KeysListed(d) \subseteq Nat
    PROVE  /\ FilledOK(s, f[N], o, d)
           /\ f[N].ok \/ ~HasSlot(f[N].heap)
           /\ f[N].ok => Between(s, f[N], o, d, n, N)
  <1>. DEFINE S == {k \in 0..N : /\ FilledOK(s, f[k], o, d)
                                 /\ f[k].ok \/ ~HasSlot(f[k].heap)
                                 /\ f[k].ok => Between(s, f[k], o, d, n, k)}
  <1>1. 0 \in S
    <2>1. 0 \in 0..N
      OBVIOUS
    <2>2. f[0] = begun
      BY <2>1 DEF ReadsMap
    <2>. QED
      BY <2>1, <2>2
  <1>2. ASSUME NEW k \in 1..N, k - 1 \in S PROVE k \in S
    <2>. DEFINE t == f[k - 1]
                w == ReadProperty(inner, t, o, k, d.properties[k])
    <2>1. /\ k \in 0..N /\ k # 0 /\ k \in Nat /\ FilledOK(s, t, o, d)
          /\ t.ok \/ ~HasSlot(t.heap)
          /\ t.ok => Between(s, t, o, d, n, k - 1)
      BY <1>2
    <2>2. f[k] = IF ~t.ok \/ k \notin KeysListed(d) THEN t ELSE w
      BY <2>1 DEF ReadsMap
    <2>. HIDE DEF t, w
    <2>3. CASE ~t.ok
      BY <2>1, <2>2, <2>3
    <2>4. CASE t.ok /\ k \notin KeysListed(d)
      <3>1. \A l \in KeysListed(d) : (l <= k => l <= k - 1) /\ (l > k => l > k - 1)
        BY <2>1, <2>4
      <3>2. Between(s, t, o, d, n, k)
        BY <2>1, <2>4, <3>1 DEF Between
      <3>. QED
        BY <2>1, <2>2, <2>4, <3>2
    <2>5. CASE t.ok /\ k \in KeysListed(d)
      <3>1. FilledOK(s, w, o, d)
        BY <2>1, <2>5, ReadPropertyOK DEF w
      <3>2. (w.ok \/ ~HasSlot(w.heap)) /\ (w.ok => Between(s, w, o, d, n, k))
        BY <2>1, <2>5, BetweenFurther DEF w
      <3>. QED
        BY <2>1, <2>2, <2>5, <3>1, <3>2
    <2>. QED
      BY <2>3, <2>4, <2>5
  <1>3. N \in S
    <2>1. 0..N \subseteq S
      BY <1>1, <1>2, Induction
    <2>. QED
      BY <2>1
  <1>. QED
    BY <1>3

\* A regular document is read, unless memory does not suffice.
LEMMA ReadEndRead ==
    ASSUME NEW m \in Nat \ {0}, NEW R, NEW d \in DocumentsTo(m), RegularDocument(d, R),
           NEW s \in Reader, NEW o, NEW r, FilledOK(s, r, o, d), r.ok,
           NEW N \in Nat, Between(s, r, o, d, m - 1, N), KeysListed(d) \subseteq 0..N
    PROVE  DocumentRead(s, ReadEnd(r, o), d, m)
  <1>. DEFINE references == Referring(r.references, r.heap, o)
              w == [r EXCEPT !.references = references, !.made = o]
              t == PopAdjacencyLevel(w)
  <1>0. ReadEnd(r, o) = t
    BY DEF ReadEnd
  <1>1. d # Missing /\ d.properties # Missing /\ KeysListed(d) # {} /\ d.uid \in Nat
    BY DocumentFacts DEF RegularDocument
  <1>2. /\ r \in Reader /\ o \in Live(r.heap) /\ o \in Objects /\ KeysOf(r.heap[o]) = KeysListed(d)
        /\ r.references \in References /\ \A x \in r.references : Present(r.heap, x[2])
        /\ r.heap \in Heap /\ s.stack \in Seq(Nat)
    BY DEF FilledOK, Follows, Orderly, Reader, Live
  <1>3. ASSUME NEW k \in KeysListed(d), NEW p, p = d.properties[k]
        PROVE  /\ p.list # Missing /\ PropertyRead(s, r, o, k, p, Len(p.list), m - 1)
               /\ IsSource(r, d.uid) /\ r.heap[o][k].uid = p.uid
    <2>1. k <= N
      BY <1>3
    <2>2. PropertyRead(s, r, o, k, p, Len(p.list), m - 1) /\ IsSource(r, d.uid)
      BY <1>3, <2>1 DEF Between
    <2>3. p.list # Missing
      BY <1>3 DEF RegularDocument, RegularListed
    <2>. QED
      BY <2>2, <2>3 DEF PropertyRead, SameAttributes
  <1>4. \A l \in Depths : l >= m => WrittenTo(r)[l][o] = d
    <2>1. \A k \in KeysListed(d) :
              LET p == d.properties[k]
              IN  p.list # Missing /\ PropertyRead(s, r, o, k, p, Len(p.list), m - 1)
      BY <1>3
    <2>2. r.ids[o] = d.uid
      BY DEF Between
    <2>. QED
      BY <1>1, <2>1, <2>2, ObjectWritten
  <1>. DEFINE found == \A k, j \in KeysOf(r.heap[o]) : j # k => r.heap[o][j].uid # r.heap[o][k].uid
  <1>5. found
    <2>1. ASSUME NEW k \in KeysListed(d), NEW j \in KeysListed(d), j # k
          PROVE  r.heap[o][j].uid # r.heap[o][k].uid
      <3>1. d.properties[j].uid # d.properties[k].uid
        BY <2>1 DEF RegularDocument
      <3>2. /\ r.heap[o][j].uid = d.properties[j].uid
            /\ r.heap[o][k].uid = d.properties[k].uid
        BY <1>3
      <3>. QED
        BY <3>1, <3>2
    <2>. QED
      BY <1>2, <2>1
  <1>6. /\ \A x \in r.references : \E q \in references : q[1] = x[1]
        /\ \A k \in KeysOf(r.heap[o]) : \E q \in references : q[1] = r.heap[o][k].uid
    BY <1>5, ReferringGrows
  <1>7. references \in References
    BY <1>2, ReferringFacts
  <1>. HIDE DEF references
  <1>8. /\ w \in Reader /\ w.heap = r.heap /\ w.ids = r.ids /\ w.edges = r.edges
        /\ w.stack = r.stack /\ w.ok /\ w.references = references /\ w.made = o
    BY <1>2, <1>7 DEF Reader
  <1>. HIDE DEF w
  <1>9. Moves(w, t) /\ t.stack = Front(w.stack) /\ t.edges = w.edges
    BY <1>8, LevelsPop
  <1>. HIDE DEF t
  <1>10. /\ t \in Reader /\ t.heap = r.heap /\ t.ids = r.ids /\ t.edges = r.edges /\ t.ok
         /\ t.references = references /\ t.made = o /\ t.stack = Front(r.stack)
    BY <1>8, <1>9 DEF Moves
  <1>11. t.stack = s.stack
    <2>1. r.stack = Append(s.stack, d.uid)
      BY DEF Between
    <2>. QED
      BY <1>1, <1>2, <1>10, <2>1, FrontAppend
  <1>12. Grows(r, t)
    <2>1. Len(r.edges) \in Nat
      BY <1>2, EdgesFacts
    <2>2. ASSUME NEW node, IsReferred(r, node) PROVE IsReferred(t, node)
      BY <1>6, <1>10, <2>2 DEF IsReferred
    <2>. QED
      BY <1>10, <2>1, <2>2 DEF Grows
  <1>13. IsSource(t, d.uid)
    <2>1. PICK k : k \in KeysListed(d)
      BY <1>1
    <2>2. IsSource(r, d.uid)
      BY <1>3, <2>1
    <2>. QED
      BY <1>10, <2>2 DEF IsSource
  <1>14. ASSUME NEW node \in UidsOf(d) PROVE Settled(t, node)
    <2>1. CASE node = d.uid
      BY <1>13, <2>1 DEF Settled
    <2>2. CASE node # d.uid
      <3>1. PICK k \in KeysListed(d) : node = d.properties[k].uid
        BY <2>2 DEF UidsOf
      <3>2. r.heap[o][k].uid = node
        BY <1>3, <3>1
      <3>3. IsReferred(t, node)
        BY <1>2, <1>6, <1>10, <3>2 DEF IsReferred
      <3>. QED
        BY <3>3 DEF Settled
    <2>. QED
      BY <2>1, <2>2
  <1>15. Pending(s, t, {})
    <2>1. Pending(s, r, UidsOf(d))
      BY DEF Between
    <2>. QED
      BY <1>2, <1>10, <1>12, <1>14, <2>1, PendingSettled
  <1>16. t.ids[t.made] = d.uid
    BY <1>10 DEF Between
  <1>17. WrittenTo(t) = WrittenTo(r)
    BY <1>10 DEF WrittenTo
  <1>. QED
    BY <1>0, <1>4, <1>10, <1>11, <1>13, <1>15, <1>16, <1>17 DEF DocumentRead

LEMMA DocumentReadOK ==
    ASSUME NEW m \in Nat \ {0}, NEW inner, NEW R, R \subseteq DocumentsTo(m - 1),
           ReadsOK(inner, DocumentsTo(m - 1)), DocumentsRead(inner, R, m - 1),
           NEW s, Orderly(s), s.ok, NEW d \in DocumentsTo(m), RegularDocument(d, R)
    PROVE  DocumentRead(s, ReadMap(inner, s, d), d, m)
  <1>. DEFINE o == FreeSlot(s.heap)
              begun == PushAdjacencyLevel(Numbered(CreateEmpty(s, d, o), d.uid),
                                          NumberOf(s, d.uid))
              N == Cardinality(Keys)
              D == DocumentsTo(m - 1)
              n == m - 1
  <1>1. /\ s \in Reader /\ d # Missing /\ d.properties # Missing /\ d.uid # 0 /\ n \in Nat
        /\ \A k \in KeysListed(d) : RegularListed(d.properties[k], R)
    BY DEF Orderly, RegularDocument
  <1>2. CASE ~HasSlot(s.heap)
    <2>1. ReadMap(inner, s, d) = Thrown(s)
      BY <1>2 DEF ReadMap
    <2>2. ~ Thrown(s).ok /\ Thrown(s).heap = s.heap
      BY <1>1, ThrownFacts
    <2>. QED
      BY <1>2, <2>1, <2>2 DEF DocumentRead
  <1>3. CASE HasSlot(s.heap)
    <2>1. FilledOK(s, begun, o, d) /\ begun.ok
      BY <1>1, <1>3, BegunOK
    <2>2. Between(s, begun, o, d, n, 0)
      BY <1>1, <1>3, BegunBetween
    <2>3. /\ d.uid \in Nat /\ KeysListed(d) \subseteq Keys
          /\ \A k \in KeysListed(d) : ListedOK(d.properties[k], D)
      BY <1>1, DocumentFacts
    <2>4. N \in Nat /\ \A k \in Keys : k \in 1..N
      BY KeysFacts
    <2>5. KeysListed(d) \subseteq 0..N /\ KeysListed(d) \subseteq Nat
      BY <2>3, <2>4
    <2>. HIDE DEF N
    <2>6. PICK f : /\ ReadMap(inner, s, d) = ReadEnd(f[N], o)
                   /\ ReadsMap(f, inner, begun, o, d, N)
      BY <1>1, <1>3, <2>4, MapRecursion DEF N
    <2>. HIDE DEF begun, o, D, n
    <2>7. /\ FilledOK(s, f[N], o, d)
          /\ f[N].ok \/ ~HasSlot(f[N].heap)
          /\ f[N].ok => Between(s, f[N], o, d, n, N)
      <3>1. R \subseteq D /\ ReadsOK(inner, D) /\ DocumentsRead(inner, R, n)
        BY DEF D, n
      <3>2. \A k \in KeysListed(d) : ListedOK(d.properties[k], D) /\ RegularListed(d.properties[k], R)
        BY <1>1, <2>3
      <3>. QED
        BY <1>1, <2>1, <2>2, <2>3, <2>4, <2>5, <2>6, <3>1, <3>2, MapRead
    <2>8. CASE ~f[N].ok
      BY <2>6, <2>7, <2>8 DEF ReadEnd, DocumentRead
    <2>9. CASE f[N].ok
      <3>1. DocumentRead(s, ReadEnd(f[N], o), d, m)
        BY <1>1, <2>4, <2>5, <2>7, <2>9, ReadEndRead DEF n
      <3>. QED
        BY <2>6, <3>1
    <2>. QED
      BY <2>8, <2>9
  <1>. QED
    BY <1>2, <1>3

\* What is regular is read at every level.
LEMMA DocumentsReadOK ==
    ASSUME NEW N \in Nat, NEW f, ReadsDown(f, N), NEW g, RegularLevels(g, N)
    PROVE  DocumentsRead(f[N], g[N], N)
  <1>. DEFINE S == {n \in 0..N : DocumentsRead(f[n], g[n], n)}
  <1>1. /\ g[0] = {}
        /\ \A n \in 0..N : g[n] \subseteq DocumentsTo(n)
        /\ \A n \in 1..N : \A d \in g[n] : RegularDocument(d, g[n - 1])
    BY RegularFacts
  <1>2. 0 \in S
    <2>1. DocumentsRead(f[0], g[0], 0)
      BY <1>1 DEF DocumentsRead
    <2>. QED
      BY <2>1
  <1>3. ASSUME NEW n \in 1..N, n - 1 \in S PROVE n \in S
    <2>1. /\ n \in 0..N /\ n - 1 \in 0..N /\ n # 0 /\ n \in Nat \ {0}
          /\ DocumentsRead(f[n - 1], g[n - 1], n - 1)
      BY <1>3
    <2>2. f[n] = [x \in Reader \X DocumentsTo(n) |->
                    IF n = 0 THEN Thrown(x[1]) ELSE ReadMap(f[n - 1], x[1], x[2])]
      BY <2>1 DEF ReadsDown
    <2>3. ReadsOK(f[n - 1], DocumentsTo(n - 1)) /\ g[n - 1] \subseteq DocumentsTo(n - 1)
      BY <1>1, <2>1, ReadsDownOK
    <2>4. ASSUME NEW s \in Reader, NEW d \in g[n], Orderly(s), s.ok
          PROVE  DocumentRead(s, f[n][<<s, d>>], d, n)
      <3>1. d \in DocumentsTo(n) /\ RegularDocument(d, g[n - 1])
        BY <1>1, <2>1
      <3>2. f[n][<<s, d>>] = ReadMap(f[n - 1], s, d)
        BY <2>1, <2>2, <3>1
      <3>3. DocumentRead(s, ReadMap(f[n - 1], s, d), d, n)
        BY <2>1, <2>3, <2>4, <3>1, DocumentReadOK
      <3>. QED
        BY <3>2, <3>3
    <2>5. DocumentsRead(f[n], g[n], n)
      BY <2>4 DEF DocumentsRead
    <2>. QED
      BY <2>1, <2>5
  <1>4. N \in S
    <2>1. 0..N \subseteq S
      BY <1>2, <1>3, Induction
    <2>. QED
      BY <2>1
  <1>. QED
    BY <1>4

\* What is read of a regular document is written as it was.
Reads(s, document) == s.ok /\ PathMap(s).ok /\ Written(s, s.made) = document
LEMMA RegularReadable ==
    ASSUME IInv, NEW document, Regular(document), NEW s, s = ReadObject(Reading(Now), document),
           HasSlot(s.heap)
    PROVE  Reads(s, document)
  <1>. DEFINE N == Cardinality(Objects)
              r == Reading(Now)
  <1>1. /\ r \in Reader /\ Orderly(r) /\ r.ok /\ r.made = None
        /\ r.edges = <<>> /\ r.stack = <<>> /\ r.references = {}
    BY ReadingFacts DEF Orderly
  <1>2. N \in Nat /\ N \in Depths
    BY ObjectsFacts DEF Depths
  <1>. HIDE DEF N, r
  <1>3. PICK f : s = f[N][<<r, document>>] /\ ReadsDown(f, N)
    BY <1>2, ReadRecursion DEF N, r
  <1>4. PICK g : document \in g[N] /\ RegularLevels(g, N)
    BY <1>2, RegularRecursion DEF N
  <1>5. DocumentRead(r, s, document, N)
    <2>1. DocumentsRead(f[N], g[N], N)
      BY <1>2, <1>3, <1>4, DocumentsReadOK
    <2>. QED
      BY <1>1, <1>3, <1>4, <2>1 DEF DocumentsRead
  <1>6. ReadOK(r, s)
    <2>1. document \in DocumentsTo(N)
      BY <1>2, <1>4, RegularFacts
    <2>. QED
      BY <1>1, <1>3, <2>1, ReadObjectOK DEF N, r
  <1>7. /\ s.ok /\ Pending(r, s, {}) /\ IsSource(s, document.uid)
        /\ s.ids[s.made] = document.uid /\ WrittenTo(s)[N][s.made] = document
    <2>1. N >= N
      BY <1>2
    <2>. QED
      BY <1>2, <1>5, <2>1 DEF DocumentRead
  <1>8. /\ s \in Reader /\ s.made # None /\ \A x \in s.references : Present(s.heap, x[2])
    BY <1>6, <1>7, NoneAssumption DEF ReadOK, Follows, Orderly, Live
  <1>9. AllSettled(s)
    <2>1. \A i \in 1..Len(s.edges) : i > Len(r.edges)
      BY <1>1
    <2>. QED
      BY <1>7, <2>1 DEF Pending, AllSettled
  <1>10. Settled(s, s.ids[s.made])
    BY <1>7 DEF Settled
  <1>11. PathMap(s).ok
    BY <1>8, <1>9, <1>10, PathMapOK
  <1>. QED
    BY <1>7, <1>11 DEF Written, N, Reads

\* initialize reads such a document, and keeps what it read.
Loaded == file' # file /\ Regular(file') =>
              outcome' = "initialized" /\ Written(Now, root)' = file'
LEMMA InitializeReads ==
    ASSUME IInv, [StateNext]_allVars
    PROVE  Loaded
  <1>1. CASE \E document \in Documents : Initialize(document)
    <2>1. PICK document \in Documents : Initialize(document)
      BY <1>1
    <2>. DEFINE s == ReadObject(Reading(Now), document)
                c == PathMap(s)
    <2>2. /\ HasSlot(s.heap) /\ file' = document
          /\ s.ok /\ c.ok => /\ outcome' = "initialized" /\ root' = s.made
                            /\ heap' = s.heap /\ ids' = s.ids
      BY <2>1 DEF Initialize
    <2>. SUFFICES ASSUME Regular(document)
                  PROVE  outcome' = "initialized" /\ Written(Now, root)' = document
      BY <2>2 DEF Loaded
    <2>3. Reads(s, document)
      BY <2>2, RegularReadable
    <2>. HIDE DEF s
    <2>4. /\ outcome' = "initialized" /\ root' = s.made /\ heap' = s.heap /\ ids' = s.ids
          /\ Written(s, s.made) = document
      BY <2>2, <2>3 DEF Reads
    <2>. DEFINE t == [heap |-> heap', ids |-> ids', uid |-> uid', ok |-> TRUE, made |-> None]
    <2>5. t.heap = s.heap /\ t.ids = s.ids
      BY <2>4
    <2>. HIDE DEF t
    <2>6. Written(t, s.made) = Written(s, s.made)
      BY <2>5 DEF Written, WrittenTo
    <2>7. Written(Now, root)' = Written(t, s.made)
      BY <2>4 DEF Now, t
    <2>. QED
      BY <2>4, <2>6, <2>7
  <1>2. CASE UNCHANGED file
    BY <1>2 DEF Loaded
  <1>. QED
    BY <1>1, <1>2 DEF StateNext, stateVars, allVars

-----------------------------------------------------------------------------
\* Every object has the map of properties it may have, every subject a property was registered
\* with is there, and a handler is that of an int8 property or of one that is destroyed.
THEOREM TypeInvariance == Spec => []TypeOK
  BY Invariance, TypeIsOK, PTL

\* A property observes itself once at every index it has had since it was registered, and at
\* no other.
THEOREM ObservesItselfInvariance == Spec => []ObservesItself
  BY Invariance, ItselfIsObserved, PTL

\* A subject leads to the property and to those it descends from, and to each of them once.
THEOREM ObserversAreOriginsInvariance == Spec => []ObserversAreOrigins
  BY Invariance, OriginsAreObserved, PTL

\* A change calls each handler registered under the UID of the property exactly once.
THEOREM CalledOnceInvariance == Spec => []CalledOnce
  BY Invariance, IsCalledOnce, PTL

\* A change calls handlers of the property and of those it descends from only.
THEOREM CallsOwnOrOriginsInvariance == Spec => []CallsOwnOrOrigins
  BY Invariance, IsOwnOrOrigin, PTL

\* Type correctness, with the UIDs of a document next to generated ones.
THEOREM StateTypeInvariance == StateSpec => []TypeOK
  BY StateInvariance, TypeIsOK, PTL

\* A property that was read observes nothing where it was not registered, and nor does a copy
\* of it.
THEOREM StateObservesItselfInvariance == StateSpec => []ObservesItself
  BY StateInvariance, ItselfIsObserved, PTL

\* A property that was read and not registered is among the observers of no other.
THEOREM StateObserversAreOriginsInvariance == StateSpec => []ObserversAreOrigins
  BY StateInvariance, OriginsAreObserved, PTL

\* The UIDs a document gives do not make setValue call a handler twice.
THEOREM StateCalledOnceInvariance == StateSpec => []CalledOnce
  BY StateInvariance, IsCalledOnce, PTL

\* Nor do they make it call handlers of other properties.
THEOREM StateCallsOwnOrOriginsInvariance == StateSpec => []CallsOwnOrOrigins
  BY StateInvariance, IsOwnOrOrigin, PTL

\* However an object came to be what it is, and whatever is in it: if its document is regular and
\* memory suffices, the deserializer reads it back, compiles its paths, and what is written again
\* is the same document.
THEOREM WrittenIsReadInvariance == StateSpec => []WrittenIsRead
  <1>1. IInv => WrittenIsRead
    BY RegularReadable DEF WrittenIsRead, Reads
  <1>. QED
    BY <1>1, StateInvariance, PTL

\* CState::initialize does not fail on a regular document: its root is what the document says.
THEOREM RegularIsInitialized == StateSpec => [][Loaded]_allVars
  <1>1. IInv /\ [StateNext]_allVars => Loaded
    BY InitializeReads
  <1>. QED
    BY <1>1, StateInvariance, PTL DEF StateSpec
===============================================================================
