----------------------- MODULE TopologicalSort_proofs -----------------------
(***************************************************************************)
(* Proofs about TopologicalSort, for every set of passes and every         *)
(* adjacency map.                                                          *)
(***************************************************************************)
EXTENDS TopologicalSort, TLAPS, SequenceTheorems

(***************************************************************************)
(* Facts about the operators.                                              *)
(***************************************************************************)

\* An edge reaches its end, and reaching is reflexive and transitive.
LEMMA ReachesFacts ==
    /\ \A p : Reaches(p, p)
    /\ \A p : \A q \in Dependents(p) : Reaches(p, q)
    /\ \A p, q, r : Reaches(p, q) /\ Reaches(q, r) => Reaches(p, r)
  BY DEF Reaches

\* Appending x to a sequence adds x, and nothing else, to its elements.
LEMMA ElementsAppend ==
    ASSUME NEW S, NEW s \in Seq(S), NEW x \in S
    PROVE  Elements(Append(s, x)) = Elements(s) \cup {x}
  <1>1. /\ Len(Append(s, x)) = Len(s) + 1
        /\ \A i \in 1..Len(s) : Append(s, x)[i] = s[i]
        /\ Append(s, x)[Len(s) + 1] = x
        /\ Len(s) \in Nat
    OBVIOUS
  <1>2. 1..(Len(s) + 1) = (1..Len(s)) \cup {Len(s) + 1}
    BY <1>1
  <1>. QED
    BY <1>1, <1>2 DEF Elements

\* While a call is active the innermost one is a frame.
LEMMA TopFrame ==
    ASSUME frames \in Seq(Frame), frames # <<>>
    PROVE  /\ Len(frames) \in Nat \ {0} /\ Top = frames[Len(frames)]
           /\ Top \in Frame /\ Top.vertex \in Pass /\ Top.next \in Nat \ {0}
  <1>1. Len(frames) \in Nat \ {0}
    BY EmptySeq, LenProperties
  <1>2. Len(frames) \in 1..Len(frames)
    BY <1>1
  <1>3. Top = frames[Len(frames)] /\ Top \in Frame
    BY <1>2, ElementOfSeq DEF Top
  <1>. QED
    BY <1>1, <1>3 DEF Frame

\* The edges of a pass are a list of passes, whether or not the map has the key.
LEMMA EdgesType ==
    ASSUME IsAdjacencyMap(adjacency), NEW p
    PROVE  Edges(p) \in Seq(Pass)
  BY DEF IsAdjacencyMap, Edges

-----------------------------------------------------------------------------
(***************************************************************************)
(* The search invariant is inductive.                                      *)
(***************************************************************************)

LEMMA StartInvariant == IsAdjacencyMap(adjacency) /\ Start => SearchInvariant
  <1>. SUFFICES ASSUME IsAdjacencyMap(adjacency), Start PROVE SearchInvariant
    OBVIOUS
  <1>1. pending = DOMAIN adjacency /\ frames = <<>> /\ visited = {} /\ order = <<>>
    BY DEF Start
  <1>2. Active = {} /\ Elements(order) = {}
    BY <1>1 DEF Active, Elements, Vertices
  <1>. QED
    BY <1>1, <1>2 DEF SearchInvariant, TypeOK, SearchPartition, SearchProgress, SearchPath

LEMMA InitInvariant == Init => SearchInvariant
  BY AdjacenciesAssumption, StartInvariant DEF Init

\* What the three ways a step can change the calls do to them: advance the
\* innermost call, push a call, and return from the innermost call.
LEMMA AdvanceCall ==
    ASSUME NEW fs \in Seq(Frame), fs # <<>>
    PROVE  /\ Advance(fs) \in Seq(Frame) /\ Len(Advance(fs)) = Len(fs)
           /\ \A i \in 1..Len(fs) : Advance(fs)[i].vertex = fs[i].vertex
           /\ \A i \in 1..Len(fs) : i # Len(fs) => Advance(fs)[i] = fs[i]
           /\ Advance(fs)[Len(fs)].next = fs[Len(fs)].next + 1
           /\ Vertices(Advance(fs)) = Vertices(fs)
  <1>. DEFINE n == Len(fs)
              as == Advance(fs)
  <1>1. n \in 1..n /\ n \in Nat \ {0} /\ fs \in [1..n -> Frame]
    BY EmptySeq, LenProperties
  <1>2. fs[n] \in Frame
    BY <1>1
  <1>3. as = [fs EXCEPT ![n] = [fs[n] EXCEPT !.next = @ + 1]]
    BY DEF Advance
  <1>4. [fs[n] EXCEPT !.next = @ + 1] \in Frame
    BY <1>2 DEF Frame
  <1>5. as \in [1..n -> Frame] /\ \A i \in 1..n : i # n => as[i] = fs[i]
    BY <1>1, <1>3, <1>4
  <1>6. as[n] = [fs[n] EXCEPT !.next = @ + 1]
    BY <1>1, <1>3
  <1>7. as[n].vertex = fs[n].vertex /\ as[n].next = fs[n].next + 1
    BY <1>2, <1>6 DEF Frame
  <1>8. as \in Seq(Frame) /\ Len(as) = n
    BY <1>1, <1>3, <1>4, ExceptSeq
  <1>9. \A i \in 1..n : as[i].vertex = fs[i].vertex /\ (i # n => as[i] = fs[i])
    BY <1>5, <1>7
  <1>. QED
    BY <1>7, <1>8, <1>9 DEF Vertices

LEMMA PushCall ==
    ASSUME NEW fs \in Seq(Frame), NEW v \in Pass
    PROVE  /\ Recurse(fs, v) \in Seq(Frame) /\ Len(Recurse(fs, v)) = Len(fs) + 1
           /\ \A i \in 1..Len(fs) : Recurse(fs, v)[i] = fs[i]
           /\ Recurse(fs, v)[Len(fs) + 1] = [vertex |-> v, next |-> 1]
           /\ Vertices(Recurse(fs, v)) = Vertices(fs) \cup {v}
  <1>. DEFINE n == Len(fs)
              as == Recurse(fs, v)
  <1>1. Call(v) \in Frame /\ Call(v) = [vertex |-> v, next |-> 1]
    BY DEF Call, Frame
  <1>2. /\ as \in Seq(Frame) /\ Len(as) = n + 1 /\ n \in Nat
        /\ \A i \in 1..n : as[i] = fs[i]
        /\ as[n + 1] = [vertex |-> v, next |-> 1]
    BY <1>1, AppendProperties, LenProperties DEF Recurse
  <1>3. 1..(n + 1) = (1..n) \cup {n + 1} /\ n + 1 \notin 1..n
    BY <1>2
  <1>. QED
    BY <1>2, <1>3 DEF Vertices

LEMMA PopCall ==
    ASSUME NEW fs \in Seq(Frame), fs # <<>>
    PROVE  /\ Return(fs) \in Seq(Frame) /\ Len(Return(fs)) = Len(fs) - 1
           /\ \A i \in 1..(Len(fs) - 1) : Return(fs)[i] = fs[i]
           /\ Vertices(fs) = Vertices(Return(fs)) \cup {fs[Len(fs)].vertex}
  <1>. DEFINE n == Len(fs)
              as == Return(fs)
  <1>1. n \in Nat \ {0} /\ \A i \in 1..(n - 1) : fs[i] \in Frame
    BY EmptySeq, LenProperties
  <1>2. 1..n = (1..(n - 1)) \cup {n} /\ n \notin 1..(n - 1)
    BY <1>1
  <1>3. /\ as \in Seq(Frame) /\ Len(as) = n - 1
        /\ \A i \in 1..(n - 1) : as[i] = fs[i]
    <2>. n - 1 \in Int /\ 1 \in Int /\ as = SubSeq(fs, 1, n - 1)
      BY <1>1 DEF Return
    <2>1. /\ SubSeq(fs, 1, n - 1) \in Seq(Frame)
          /\ Len(SubSeq(fs, 1, n - 1)) = IF 1 <= n - 1 THEN (n - 1) - 1 + 1 ELSE 0
          /\ \A i \in 1..((n - 1) - 1 + 1) : SubSeq(fs, 1, n - 1)[i] = fs[1 + i - 1]
      <3>. HIDE DEF n, as
      <3>. QED
        BY <1>1, SubSeqProperties
    <2>2. (n - 1) - 1 + 1 = n - 1 /\ \A i \in 1..(n - 1) : 1 + i - 1 = i
      BY <1>1
    <2>3. (IF 1 <= n - 1 THEN (n - 1) - 1 + 1 ELSE 0) = n - 1
      <3>. HIDE DEF n
      <3>1. n - 1 = 0 \/ 1 <= n - 1
        BY <1>1
      <3>. QED
        BY <1>1, <2>2, <3>1
    <2>. HIDE DEF n, as
    <2>. QED
      BY <2>1, <2>2, <2>3
  <1>. QED
    BY <1>2, <1>3 DEF Vertices

LEMMA VisitRootInvariant ==
    ASSUME SearchInvariant, NEW p \in Pass, VisitRoot(p)
    PROVE  SearchInvariant'
  <1>. USE DEF SearchInvariant, VisitRoot
  <1>1. /\ adjacency' = adjacency /\ order' = order
        /\ p \in DOMAIN adjacency /\ pending' = pending \ {p}
        /\ frames = <<>>
    BY DEF TypeOK
  <1>2. /\ \A q : Edges(q)' = Edges(q) /\ Dependents(q)' = Dependents(q)
        /\ Linked' = Linked
    BY <1>1 DEF Edges, Dependents, Elements, Linked
  <1>3. CASE p \in visited
    <2>1. frames' = frames /\ visited' = visited
      BY <1>3
    <2>2. TypeOK'
      BY <1>1, <2>1 DEF TypeOK
    <2>3. SearchPartition'
      BY <1>1, <2>1 DEF SearchPartition, Active, Elements
    <2>4. SearchProgress'
      BY <1>1, <1>2, <1>3, <2>1 DEF SearchProgress, Elements
    <2>5. SearchPath'
      BY <1>1, <2>1 DEF SearchPath
    <2>. QED
      BY <1>2, <2>1, <2>2, <2>3, <2>4, <2>5
  <1>4. CASE p \notin visited
    <2>1. /\ frames' = <<Call(p)>> /\ visited' = visited \cup {p}
          /\ Len(frames') = 1 /\ frames'[1] = [vertex |-> p, next |-> 1]
      BY <1>4 DEF Call
    <2>2. TypeOK'
      BY <1>1, <2>1 DEF TypeOK, Call, Frame
    <2>3. Active = {} /\ Active' = {p}
      BY <1>1, <2>1 DEF Active, Vertices
    <2>4. SearchPartition'
      BY <1>1, <1>4, <2>1, <2>3 DEF SearchPartition, Elements
    <2>5. SearchProgress'
      <3>1. Len(Edges(p)) \in Nat
        BY EdgesType DEF TypeOK
      <3>2. \A i \in 1..Len(frames') :
               /\ frames'[i].next <= Len(Edges(frames'[i].vertex)) + 1
               /\ \A k \in 1..(frames'[i].next - 1) :
                     Edges(frames'[i].vertex)[k] \in visited'
        BY <2>1, <3>1
      <3>. QED
        BY <1>1, <1>2, <2>1, <3>2 DEF SearchProgress, Elements
    <2>6. SearchPath'
      BY <2>1 DEF SearchPath
    <2>7. p \in Linked
      BY <1>1 DEF Linked
    <2>. QED
      BY <1>2, <2>1, <2>2, <2>4, <2>5, <2>6, <2>7
  <1>. QED
    BY <1>3, <1>4

LEMMA FollowEdgeInvariant ==
    ASSUME SearchInvariant, FollowEdge
    PROVE  SearchInvariant'
  <1>. USE DEF SearchInvariant
  <1>. DEFINE n == Len(frames)
              v == Top.vertex
              adjacent == Edges(v)[Top.next]
              advanced == Advance(frames)
  <1>1. /\ adjacency' = adjacency /\ order' = order /\ pending' = pending
        /\ frames # <<>> /\ Top.next <= Len(Edges(v))
    BY DEF FollowEdge
  <1>2. /\ \A q : Edges(q)' = Edges(q) /\ Dependents(q)' = Dependents(q)
        /\ Linked' = Linked
    BY <1>1 DEF Edges, Dependents, Elements, Linked
  <1>3. /\ n \in Nat \ {0} /\ Top = frames[n]
        /\ Top \in Frame /\ v \in Pass /\ Top.next \in Nat \ {0}
    BY <1>1, TopFrame DEF TypeOK
  <1>4. /\ Len(Edges(v)) \in Nat /\ Edges(v) \in Seq(Pass)
        /\ adjacent \in Dependents(v) /\ adjacent \in Pass
    BY <1>1, <1>3, EdgesType DEF TypeOK, Dependents, Elements
  <1>5. v \in DOMAIN adjacency /\ adjacent \in Linked
    BY <1>1, <1>3, <1>4 DEF Edges, Dependents, Elements, Linked
  <1>6. /\ advanced \in Seq(Frame)
        /\ Len(advanced) = n
        /\ \A i \in 1..n : advanced[i].vertex = frames[i].vertex
        /\ \A i \in 1..n : i # n => advanced[i] = frames[i]
        /\ advanced[n].next = Top.next + 1
        /\ Vertices(advanced) = Active
    BY <1>1, <1>3, AdvanceCall DEF TypeOK, Active
  <1>. HIDE DEF advanced
  <1>7. \A i \in 1..n :
           /\ advanced[i].next <= Len(Edges(advanced[i].vertex)) + 1
           /\ \A k \in 1..(advanced[i].next - 1) :
                 Edges(advanced[i].vertex)[k] \in visited \cup {adjacent}
    <2>. SUFFICES ASSUME NEW i \in 1..n
                  PROVE  /\ advanced[i].next <= Len(Edges(advanced[i].vertex)) + 1
                         /\ \A k \in 1..(advanced[i].next - 1) :
                               Edges(advanced[i].vertex)[k] \in visited \cup {adjacent}
      OBVIOUS
    <2>1. CASE i # n
      BY <1>6, <2>1 DEF SearchProgress
    <2>2. CASE i = n
      <3>1. \A k \in 1..(Top.next - 1) : Edges(v)[k] \in visited
        BY <1>3 DEF SearchProgress
      <3>2. \A k \in 1..Top.next : k = Top.next \/ k \in 1..(Top.next - 1)
        BY <1>3
      <3>3. advanced[i].vertex = v /\ advanced[i].next = Top.next + 1
        BY <1>3, <1>6, <2>2
      <3>4. (Top.next + 1) - 1 = Top.next
        BY <1>3
      <3>. QED
        BY <1>1, <1>3, <1>4, <3>1, <3>2, <3>3, <3>4
    <2>. QED
      BY <2>1, <2>2
  <1>8. CASE adjacent \in visited
    <2>1. frames' = advanced /\ visited' = visited /\ visited \cup {adjacent} = visited
      BY <1>8 DEF FollowEdge, advanced
    <2>2. TypeOK'
      BY <1>1, <1>6, <2>1 DEF TypeOK
    <2>3. Active' = Active
      BY <1>6, <2>1 DEF Active
    <2>4. SearchPartition'
      BY <1>1, <1>6, <2>1, <2>3 DEF SearchPartition, Elements
    <2>5. SearchProgress'
      BY <1>1, <1>2, <1>6, <1>7, <2>1 DEF SearchProgress, Elements
    <2>6. SearchPath'
      BY <1>1, <1>2, <1>6, <2>1 DEF SearchPath, Reaches
    <2>. QED
      BY <1>2, <2>1, <2>2, <2>4, <2>5, <2>6
  <1>9. CASE adjacent \notin visited
    <2>1. frames' = Recurse(advanced, adjacent) /\ visited' = visited \cup {adjacent}
      BY <1>9 DEF FollowEdge, advanced
    <2>2. /\ frames' \in Seq(Frame) /\ Len(frames') = n + 1
          /\ \A i \in 1..n : frames'[i] = advanced[i]
          /\ frames'[n + 1] = [vertex |-> adjacent, next |-> 1]
          /\ Vertices(frames') = Active \cup {adjacent}
          /\ \A i \in 1..(n + 1) : i \in 1..n \/ i = n + 1
          /\ n \in Nat /\ n + 1 \notin 1..n
      <3>. HIDE DEF n, adjacent
      <3>. QED
        <4>1. advanced \in Seq(Frame) /\ n = Len(advanced) /\ adjacent \in Pass
          BY <1>4, <1>6
        <4>2. frames' = Recurse(advanced, adjacent)
          BY <2>1
        <4>3. \A i \in 1..(n + 1) : i \in 1..n \/ i = n + 1
          BY <4>1, LenProperties
        <4>. HIDE DEF SearchInvariant
        <4>. QED
          BY <1>6, <4>1, <4>2, <4>3, PushCall
    <2>3. TypeOK'
      BY <1>1, <1>4, <2>1, <2>2 DEF TypeOK
    <2>4. Active' = Active \cup {adjacent}
      BY <2>2 DEF Active
    <2>5. SearchPartition'
      <3>1. adjacent \notin Active
        BY <1>9 DEF SearchPartition
      <3>2. \A i \in 1..n : frames'[i].vertex = frames[i].vertex /\ frames'[i].vertex # adjacent
        <4>1. \A i \in 1..n : frames[i].vertex \in Active
          BY DEF Active, Vertices
        <4>. QED
          BY <1>6, <2>2, <3>1, <4>1
      <3>3. \A i, j \in 1..Len(frames') : frames'[i].vertex = frames'[j].vertex => i = j
        BY <2>2, <3>2 DEF SearchPartition
      <3>. QED
        BY <1>1, <1>9, <2>1, <2>4, <3>3 DEF SearchPartition, Elements
    <2>6. SearchProgress'
      <3>1. Len(Edges(adjacent)) \in Nat
        BY EdgesType DEF TypeOK
      <3>2. \A i \in 1..Len(frames') :
               /\ frames'[i].next <= Len(Edges(frames'[i].vertex)) + 1
               /\ \A k \in 1..(frames'[i].next - 1) :
                     Edges(frames'[i].vertex)[k] \in visited'
        BY <1>7, <2>1, <2>2, <3>1
      <3>. QED
        BY <1>1, <1>2, <2>1, <3>2 DEF SearchProgress, Elements
    <2>7. SearchPath'
      <3>. SUFFICES ASSUME NEW i \in 1..(n + 1), NEW j \in 1..(n + 1), i < j
                    PROVE  Reaches(frames'[i].vertex, frames'[j].vertex)
        BY <1>1, <1>2, <2>2 DEF SearchPath, Reaches
      <3>1. \A k \in 1..n : frames'[k].vertex = frames[k].vertex
        BY <1>6, <2>2
      <3>2. CASE j \in 1..n
        <4>. i \in 1..n
          BY <1>3, <3>2
        <4>. QED
          BY <3>1, <3>2 DEF SearchPath
      <3>3. CASE j = n + 1
        <4>1. i \in 1..n /\ n \in 1..n
          BY <1>3, <3>3
        <4>2. Reaches(v, adjacent)
          BY <1>4, ReachesFacts
        <4>3. i = n \/ Reaches(frames[i].vertex, v)
          BY <1>3, <4>1 DEF SearchPath
        <4>. QED
          BY <1>3, <2>2, <3>1, <3>3, <4>1, <4>2, <4>3, ReachesFacts
      <3>. QED
        BY <2>2, <3>2, <3>3
    <2>. QED
      BY <1>2, <1>5, <2>1, <2>3, <2>5, <2>6, <2>7
  <1>. QED
    BY <1>8, <1>9

LEMMA PushVertexInvariant ==
    ASSUME SearchInvariant, PushVertex
    PROVE  SearchInvariant'
  <1>. USE DEF SearchInvariant
  <1>. DEFINE n == Len(frames)
              v == Top.vertex
  <1>1. /\ adjacency' = adjacency /\ visited' = visited /\ pending' = pending
        /\ frames # <<>> /\ Top.next > Len(Edges(v))
        /\ order' = Append(order, v) /\ frames' = Return(frames)
    BY DEF PushVertex
  <1>2. /\ \A q : Edges(q)' = Edges(q) /\ Dependents(q)' = Dependents(q)
        /\ Linked' = Linked
    BY <1>1 DEF Edges, Dependents, Elements, Linked
  <1>3. /\ n \in Nat \ {0} /\ Top = frames[n]
        /\ Top \in Frame /\ v \in Pass /\ Top.next \in Nat \ {0}
    BY <1>1, TopFrame DEF TypeOK
  <1>4. /\ frames' \in Seq(Frame) /\ Len(frames') = n - 1
        /\ \A i \in 1..(n - 1) : frames'[i] = frames[i] /\ i \in 1..n
        /\ \A i \in 1..n : i \in 1..(n - 1) \/ i = n
        /\ n \in 1..n /\ n \notin 1..(n - 1)
        /\ Active = Vertices(frames') \cup {v}
    <2>1. /\ \A i \in 1..(n - 1) : i \in 1..n
          /\ \A i \in 1..n : i \in 1..(n - 1) \/ i = n
          /\ n \in 1..n /\ n \notin 1..(n - 1)
      BY <1>3
    <2>. QED
      BY <1>1, <1>3, <2>1, PopCall DEF TypeOK, Active
  <1>. HIDE DEF n
  <1>5. TypeOK'
    BY <1>1, <1>3, <1>4 DEF TypeOK
  <1>6. Elements(order)' = Elements(order) \cup {v}
    BY <1>1, <1>3, ElementsAppend DEF TypeOK
  <1>7. Active = Active' \cup {v} /\ v \notin Active'
    <2>1. Active' = Vertices(frames')
      BY DEF Active
    <2>2. \A i \in 1..(n - 1) : frames[i].vertex # v
      BY <1>3, <1>4 DEF SearchPartition, n
    <2>. QED
      BY <1>4, <2>1, <2>2 DEF Vertices
  <1>8. SearchPartition'
    <2>1. /\ visited' = Active' \cup Elements(order)'
          /\ Active' \cap Elements(order)' = {}
      BY <1>1, <1>6, <1>7 DEF SearchPartition
    <2>2. \A i, j \in 1..Len(frames') : frames'[i].vertex = frames'[j].vertex => i = j
      BY <1>4 DEF SearchPartition, n
    <2>. QED
      BY <2>1, <2>2 DEF SearchPartition
  <1>9. SearchProgress'
    <2>1. Dependents(v) \subseteq visited
      <3>1. Len(Edges(v)) \in Nat
        BY EdgesType DEF TypeOK
      <3>2. \A k \in 1..Len(Edges(v)) : k \in 1..(Top.next - 1)
        BY <1>1, <1>3, <3>1
      <3>. QED
        BY <1>3, <1>4, <3>2 DEF SearchProgress, Dependents, Elements, n
    <2>2. \A p \in Elements(order)' : Dependents(p)' \subseteq visited'
      BY <1>1, <1>2, <1>6, <2>1 DEF SearchProgress
    <2>3. \A i \in 1..Len(frames') :
             /\ frames'[i].next <= Len(Edges(frames'[i].vertex)) + 1
             /\ \A k \in 1..(frames'[i].next - 1) :
                   Edges(frames'[i].vertex)[k] \in visited
      BY <1>4 DEF SearchProgress, n
    <2>. QED
      BY <1>1, <1>2, <2>2, <2>3 DEF SearchProgress
  <1>10. SearchPath'
    <2>1. \A p, q : Reaches(p, q)' = Reaches(p, q)
      BY <1>1, <1>2 DEF Reaches
    <2>. QED
      BY <1>4, <2>1 DEF SearchPath, n
  <1>. QED
    BY <1>1, <1>2, <1>5, <1>8, <1>9, <1>10

LEMMA NextInvariant == SearchInvariant /\ [Next]_vars => SearchInvariant'
  <1>. SUFFICES ASSUME SearchInvariant, [Next]_vars PROVE SearchInvariant'
    OBVIOUS
  <1>1. ASSUME NEW p \in Pass, VisitRoot(p) PROVE SearchInvariant'
    BY <1>1, VisitRootInvariant
  <1>2. CASE FollowEdge
    BY <1>2, FollowEdgeInvariant
  <1>3. CASE PushVertex
    BY <1>3, PushVertexInvariant
  <1>4. CASE UNCHANGED vars
    <2>1. /\ adjacency' = adjacency /\ pending' = pending /\ frames' = frames
          /\ visited' = visited /\ order' = order
      BY <1>4 DEF vars
    <2>2. /\ \A q : Edges(q)' = Edges(q) /\ Dependents(q)' = Dependents(q)
          /\ Linked' = Linked /\ Active' = Active
      BY <2>1 DEF Edges, Dependents, Elements, Linked, Active
    <2>3. \A p, q : Reaches(p, q)' = Reaches(p, q)
      BY <2>2 DEF Reaches
    <2>. QED
      BY <2>1, <2>2, <2>3
      DEF SearchInvariant, TypeOK, SearchPartition, SearchProgress, SearchPath
  <1>. QED
    BY <1>1, <1>2, <1>3, <1>4 DEF Next, Step, Returned

\* The search invariant holds throughout every run of the sort: what is being
\* searched, pushed and still to come never mix, whatever the graph.
THEOREM SearchInvariance == Spec => []SearchInvariant
  BY InitInvariant, NextInvariant, PTL DEF Spec

-----------------------------------------------------------------------------
(***************************************************************************)
(* What the sort promises.                                                 *)
(***************************************************************************)

\* When a vertex returns, a dependent that is not on the order is still being
\* searched: the vertex was reached from it.
LEMMA PushesAfterDependents ==
    ASSUME SearchInvariant, PushVertex,
           NEW q \in Dependents(Top.vertex) \ Elements(order)
    PROVE  Reaches(q, Top.vertex)
  <1>. DEFINE n == Len(frames)
              v == Top.vertex
  <1>1. /\ n \in Nat \ {0} /\ Top = frames[n] /\ Top.next \in Nat \ {0}
        /\ frames # <<>> /\ v \in Pass
    BY TopFrame DEF PushVertex, SearchInvariant, TypeOK
  <1>2. Len(Edges(v)) \in Nat
    BY <1>1, EdgesType DEF SearchInvariant, TypeOK
  <1>3. Dependents(v) \subseteq visited
    <2>1. \A k \in 1..Len(Edges(v)) : k \in 1..(Top.next - 1)
      BY <1>1, <1>2 DEF PushVertex
    <2>. QED
      BY <1>1, <2>1 DEF SearchInvariant, SearchProgress, Dependents, Elements
  <1>4. PICK i \in 1..n : frames[i].vertex = q
    BY <1>3 DEF SearchInvariant, SearchPartition, Active, Vertices
  <1>5. i = n \/ Reaches(q, v)
    BY <1>1, <1>4 DEF SearchInvariant, SearchPath
  <1>. QED
    BY <1>1, <1>4, <1>5, ReachesFacts

\* The order only grows by PushVertex.
LEMMA OrderSteps ==
    ASSUME [Next]_vars
    PROVE  adjacency' = adjacency /\ (order' = order \/ PushVertex)
  BY DEF Next, Step, VisitRoot, FollowEdge, PushVertex, Returned, vars

\* A vertex is pushed when its call returns, and it has only one.
LEMMA PushedOnceStep == SearchInvariant /\ PushedOnce /\ [Next]_vars => PushedOnce'
  <1>. SUFFICES ASSUME SearchInvariant, PushedOnce, [Next]_vars PROVE PushedOnce'
    OBVIOUS
  <1>1. CASE order' = order
    BY <1>1 DEF PushedOnce
  <1>2. CASE PushVertex
    <2>1. frames # <<>> /\ order' = Append(order, Top.vertex)
      BY <1>2 DEF PushVertex
    <2>2. Top.vertex \in Active /\ Top.vertex \in Pass
      <3>1. frames \in Seq(Frame)
        BY DEF SearchInvariant, TypeOK
      <3>2. Len(frames) \in 1..Len(frames) /\ Top = frames[Len(frames)] /\ Top.vertex \in Pass
        BY <2>1, <3>1, TopFrame
      <3>. QED
        BY <3>2 DEF Active, Vertices
    <2>3. \A i \in 1..Len(order) : order[i] # Top.vertex
      BY <2>2 DEF SearchInvariant, SearchPartition, Elements
    <2>4. /\ Len(order') = Len(order) + 1 /\ Len(order) \in Nat
          /\ \A i \in 1..Len(order) : order'[i] = order[i]
          /\ order'[Len(order) + 1] = Top.vertex
      BY <2>1, <2>2, AppendProperties, LenProperties DEF SearchInvariant, TypeOK
    <2>5. \A i \in 1..(Len(order) + 1) : i \in 1..Len(order) \/ i = Len(order) + 1
      BY <2>4
    <2>. QED
      BY <2>3, <2>4, <2>5 DEF PushedOnce
  <1>. QED
    BY <1>1, <1>2, OrderSteps

LEMMA PushedOnceStart == Start => PushedOnce
  BY DEF Start, PushedOnce

\* Whatever the graph, no pass gets onto the execution order twice.
THEOREM PushedOnceInvariance == Spec => []PushedOnce
  <1>1. Init => PushedOnce
    BY PushedOnceStart DEF Init
  <1>. QED
    BY <1>1, PushedOnceStep, SearchInvariance, PTL DEF Spec

\* What is pushed last lies on top of all that depends on it.
LEMMA DependentsBelowStep ==
    SearchInvariant /\ DependentsBelow /\ [Next]_vars => DependentsBelow'
  <1>. SUFFICES ASSUME SearchInvariant, DependentsBelow, [Next]_vars, Acyclic'
                PROVE  \A i \in 1..Len(order') : \A q \in Dependents(order[i])' :
                           \E j \in 1..(i - 1) : order'[j] = q
    BY DEF DependentsBelow
  <1>1. /\ adjacency' = adjacency
        /\ \A i : Dependents(order[i])' = Dependents(order'[i])
        /\ \A q : Dependents(q)' = Dependents(q)
    BY OrderSteps DEF Edges, Dependents, Elements
  <1>2. Acyclic
    BY <1>1 DEF Acyclic, Reaches
  <1>3. CASE order' = order
    BY <1>1, <1>2, <1>3 DEF DependentsBelow
  <1>4. CASE PushVertex
    <2>2. Top.vertex \in Pass
      BY <1>4, TopFrame DEF PushVertex, SearchInvariant, TypeOK
    <2>1. /\ order' = Append(order, Top.vertex)
          /\ Dependents(Top.vertex) \subseteq Elements(order)
      BY <1>2, <1>4, <2>2, PushesAfterDependents DEF PushVertex, Acyclic
    <2>3. /\ Len(order') = Len(order) + 1 /\ Len(order) \in Nat
          /\ \A i \in 1..Len(order) : order'[i] = order[i]
          /\ order'[Len(order) + 1] = Top.vertex
      BY <2>1, <2>2, AppendProperties, LenProperties DEF SearchInvariant, TypeOK
    <2>4. ASSUME NEW i \in 1..Len(order), NEW q \in Dependents(order'[i])
          PROVE  \E j \in 1..(i - 1) : order'[j] = q
      <3>1. PICK j \in 1..(i - 1) : order[j] = q
        BY <1>2, <2>3, <2>4 DEF DependentsBelow
      <3>2. j \in 1..Len(order)
        BY <2>3
      <3>. QED
        BY <2>3, <3>1, <3>2
    <2>5. ASSUME NEW q \in Dependents(Top.vertex)
          PROVE  \E j \in 1..Len(order) : order'[j] = q
      BY <2>1, <2>3 DEF Elements
    <2>6. (Len(order) + 1) - 1 = Len(order)
      BY <2>3
    <2>7. \A i \in 1..(Len(order) + 1) : i \in 1..Len(order) \/ i = Len(order) + 1
      BY <2>3
    <2>. QED
      BY <1>1, <2>3, <2>4, <2>5, <2>6, <2>7
  <1>. QED
    BY <1>3, <1>4, OrderSteps

LEMMA DependentsBelowStart == Start => DependentsBelow
  BY DEF Start, DependentsBelow

\* In a graph without cycles every pass on the order lies above all passes that
\* depend on it: executing the order from its top runs sources before targets.
THEOREM DependentsBelowInvariance == Spec => []DependentsBelow
  <1>1. Init => DependentsBelow
    BY DependentsBelowStart DEF Init
  <1>. QED
    BY <1>1, DependentsBelowStep, SearchInvariance, PTL DEF Spec

LEMMA InvariantLinked == SearchInvariant => AllLinkedPushed
  <1>. SUFFICES ASSUME SearchInvariant, frames = <<>>, pending = {}
                PROVE  Elements(order) = Linked
    BY DEF AllLinkedPushed, Sorted
  <1>1. visited = Elements(order)
    BY DEF SearchInvariant, SearchPartition, Active, Vertices
  <1>2. DOMAIN adjacency \subseteq visited
    BY DEF SearchInvariant, SearchProgress
  <1>3. \A p \in DOMAIN adjacency : Dependents(p) \subseteq visited
    BY <1>1, <1>2 DEF SearchInvariant, SearchProgress
  <1>4. visited \subseteq Linked
    BY DEF SearchInvariant
  <1>. QED
    BY <1>1, <1>2, <1>3, <1>4 DEF Linked

\* When the sort returns, the order holds exactly the passes an edge starts or
\* ends at: no linked pass is missed, no other pass is executed.
THEOREM AllLinkedPushedInvariance == Spec => []AllLinkedPushed
  BY InvariantLinked, SearchInvariance, PTL

-----------------------------------------------------------------------------
(***************************************************************************)
(* The sort implements PassOrder.                                          *)
(***************************************************************************)

\* The two modules read the same edges off the adjacency map.
LEMMA SameEdges ==
    /\ Order!Linked = Linked
    /\ \A p : Order!Dependents(p) = Dependents(p)
    /\ \A p, q : Order!Reaches(p, q) = Reaches(p, q)
  <1>1. \A s : Order!Elements(s) = Elements(s)
    BY DEF Order!Elements, Elements
  <1>2. \A p : Order!Dependents(p) = Dependents(p)
    <2>1. Elements(<<>>) = {}
      BY DEF Elements
    <2>. QED
      BY <1>1, <2>1 DEF Order!Dependents, Dependents, Edges
  <1>. QED
    BY <1>2 DEF Order!Linked, Linked, Order!Reaches, Reaches

\* The depth first search only ever pushes a linked pass that is not on the order
\* yet, whose dependents are there or lead back to it; every other step changes
\* nothing the abstract specification sees.
THEOREM SortImplementsPassOrder == Spec => ImplementsPassOrder
  <1>1. Init => Order!Init
    BY DEF Init, Start, Order!Init
  <1>2. SearchInvariant /\ [Next]_vars => [Order!Next]_(Order!vars)
    <2>. SUFFICES ASSUME SearchInvariant, [Next]_vars, PushVertex
                  PROVE  Order!Next
      BY OrderSteps DEF Order!vars
    <2>. DEFINE v == Top.vertex
    <2>1. v \in Pass /\ v \in Active
      <3>1. Len(frames) \in 1..Len(frames) /\ Top = frames[Len(frames)] /\ v \in Pass
        BY TopFrame DEF PushVertex, SearchInvariant, TypeOK
      <3>. QED
        BY <3>1 DEF Active, Vertices
    <2>2. v \in Linked \ Elements(order)
      BY <2>1 DEF SearchInvariant, SearchPartition
    <2>3. \A q \in Dependents(v) \ Elements(order) : Reaches(q, v)
      BY PushesAfterDependents
    <2>4. order' = Append(order, v) /\ adjacency' = adjacency
      BY DEF PushVertex
    <2>5. Order!Elements(order) = Elements(order)
      BY DEF Order!Elements, Elements
    <2>. QED
      BY <2>1, <2>2, <2>3, <2>4, <2>5, SameEdges DEF Order!Next, Order!Push
  <1>. QED
    BY <1>1, <1>2, SearchInvariance, PTL DEF Spec, ImplementsPassOrder, Order!Spec
=============================================================================
