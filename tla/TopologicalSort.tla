--------------------------- MODULE TopologicalSort ---------------------------
(***************************************************************************)
(* CGraphBuilder::topologicalSort<PassUID_t> (graphbuilder.h): a depth     *)
(* first search over mPassAdjacency that pushes a pass on the order when   *)
(* all of its outgoing edges have been followed.  The recursion of DFSi_fn *)
(* is made explicit: one frame per active call, holding the vertex and the *)
(* position in its adjacency list.                                         *)
(***************************************************************************)
EXTENDS Naturals, Sequences

CONSTANTS
    Pass,                   \* pass uids
    Adjacencies             \* the adjacency maps the search may be started on

\* A map from some of the passes to lists of passes.
IsAdjacencyMap(a) ==
    /\ a = [p \in DOMAIN a |-> a[p]]
    /\ DOMAIN a \subseteq Pass
    /\ \A p \in DOMAIN a : a[p] \in Seq(Pass)

ASSUME AdjacenciesAssumption == \A a \in Adjacencies : IsAdjacencyMap(a)

VARIABLES
    adjacency,              \* mPassAdjacency
    pending,                \* keys the outer loop has not reached yet
    frames,                 \* active calls of DFSi_fn, outermost first
    visited,                \* aVisitedEdges, the vertices mapped to true
    order                   \* aOutPassOrder, bottom first

vars == <<adjacency, pending, frames, visited, order>>

Elements(s) == {s[i] : i \in 1..Len(s)}

\* aEdges.at(aVertex), or nothing when the map has no such key.
Edges(p) == IF p \in DOMAIN adjacency THEN adjacency[p] ELSE <<>>

\* The passes that depend on p.
Dependents(p) == Elements(Edges(p))

\* The innermost call.
Top == frames[Len(frames)]

-----------------------------------------------------------------------------

\* One call of DFSi_fn: its vertex and the position of the edge it follows next.
Frame == [vertex : Pass, next : Nat \ {0}]
Call(p) == [vertex |-> p, next |-> 1]

\* The innermost call moves on to its next edge, calls itself for p, returns.
Advance(calls) == [calls EXCEPT ![Len(calls)].next = @ + 1]
Recurse(calls, p) == Append(calls, Call(p))
Return(calls) == SubSeq(calls, 1, Len(calls) - 1)

Start ==
    /\ pending = DOMAIN adjacency
    /\ frames = <<>>
    /\ visited = {}
    /\ order = <<>>

Init == adjacency \in Adjacencies /\ Start

\* The outer loop takes its next key. The map is unordered: any key may come.
VisitRoot(p) ==
    /\ frames = <<>>
    /\ p \in pending
    /\ pending' = pending \ {p}
    /\ IF p \in visited
       THEN UNCHANGED <<frames, visited>>
       ELSE /\ frames' = <<Call(p)>>
            /\ visited' = visited \cup {p}
    /\ UNCHANGED <<adjacency, order>>

\* Mutant: a visited dependent leaves the loop at the same edge.
FollowEdgeStuck ==
    /\ frames # <<>>
    /\ Top.next <= Len(Edges(Top.vertex))
    /\ LET adjacent == Edges(Top.vertex)[Top.next]
       IN  IF adjacent \in visited
           THEN UNCHANGED <<frames, visited>>
           ELSE /\ frames' = Recurse(Advance(frames), adjacent)
                /\ visited' = visited \cup {adjacent}
    /\ UNCHANGED <<adjacency, pending, order>>

\* Mutant: a dependent is marked but not searched.
FollowEdgeShallow ==
    /\ frames # <<>>
    /\ Top.next <= Len(Edges(Top.vertex))
    /\ frames' = Advance(frames)
    /\ visited' = visited \cup {Edges(Top.vertex)[Top.next]}
    /\ UNCHANGED <<adjacency, pending, order>>

\* The innermost call follows its next outgoing edge.
FollowEdge ==
    /\ frames # <<>>
    /\ Top.next <= Len(Edges(Top.vertex))
    /\ LET adjacent == Edges(Top.vertex)[Top.next]
       IN  IF adjacent \in visited
           THEN /\ frames' = Advance(frames)
                /\ UNCHANGED visited
           ELSE /\ frames' = Recurse(Advance(frames), adjacent)
                /\ visited' = visited \cup {adjacent}
    /\ UNCHANGED <<adjacency, pending, order>>

\* Mutant: a vertex is pushed before its edges have been followed.
PushVertexEarly ==
    /\ frames # <<>>
    /\ order' = Append(order, Top.vertex)
    /\ frames' = Return(frames)
    /\ UNCHANGED <<adjacency, pending, visited>>

\* The innermost call has no edge left: push the vertex and return.
PushVertex ==
    /\ frames # <<>>
    /\ Top.next > Len(Edges(Top.vertex))
    /\ order' = Append(order, Top.vertex)
    /\ frames' = Return(frames)
    /\ UNCHANGED <<adjacency, pending, visited>>

Step == (\E p \in Pass : VisitRoot(p)) \/ FollowEdge \/ PushVertex

Sorted == frames = <<>> /\ pending = {}

\* topologicalSort has returned.
Returned == Sorted /\ UNCHANGED vars

Next == Step \/ Returned

Spec == Init /\ [][Next]_vars

FairSpec == Spec /\ WF_vars(Step)
-----------------------------------------------------------------------------

TypeOK ==
    /\ IsAdjacencyMap(adjacency)
    /\ pending \subseteq DOMAIN adjacency
    /\ frames \in Seq(Frame)
    /\ visited \subseteq Pass
    /\ order \in Seq(Pass)

\* The vertices whose calls have not returned.
Vertices(calls) == {calls[i].vertex : i \in 1..Len(calls)}
Active == Vertices(frames)

\* Every visited vertex is either being searched or has been pushed, never both,
\* and is searched by one call only.
SearchPartition ==
    /\ visited = Active \cup Elements(order)
    /\ Active \cap Elements(order) = {}
    /\ \A i, j \in 1..Len(frames) : frames[i].vertex = frames[j].vertex => i = j

\* The edges a call has followed, all edges of a pushed vertex and all keys the
\* outer loop has taken lead to visited vertices.
SearchProgress ==
    /\ \A i \in 1..Len(frames) :
          /\ frames[i].next <= Len(Edges(frames[i].vertex)) + 1
          /\ \A k \in 1..(frames[i].next - 1) : Edges(frames[i].vertex)[k] \in visited
    /\ \A p \in Elements(order) : Dependents(p) \subseteq visited
    /\ DOMAIN adjacency \ pending \subseteq visited

\* Following edges from p one comes to q: q is in every set of passes that p is in
\* and no edge leads out of.
Reaches(p, q) ==
    \A S \in SUBSET Pass :
        p \in S /\ (\A r \in S : Dependents(r) \subseteq S) => q \in S

\* The active calls form a path: an inner call is for a vertex reached from the
\* vertices of the calls around it.
SearchPath ==
    \A i, j \in 1..Len(frames) : i < j => Reaches(frames[i].vertex, frames[j].vertex)

\* No edge leads to a pass one comes back from.
Acyclic == \A p \in Pass : \A q \in Dependents(p) : ~ Reaches(q, p)

\* The passes an edge starts or ends at.
Linked == DOMAIN adjacency \cup UNION {Dependents(p) : p \in DOMAIN adjacency}

\* Without cycles, whenever a pass is on the order all passes that depend on it
\* lie below it, so that popping the order runs a pass before its dependents.
DependentsBelow ==
    Acyclic =>
        \A i \in 1..Len(order) :
            \A q \in Dependents(order[i]) : \E j \in 1..(i - 1) : order[j] = q

\* No pass is pushed twice, even when the edges form a cycle: the visited map
\* is shared by all calls, so no pass can be executed twice in a frame.
PushedOnce ==
    \A i, j \in 1..Len(order) : order[i] = order[j] => i = j

\* The search invariant: what the three properties above and below rest on. The
\* vertices being searched, pushed and still to come stay apart, nothing but
\* linked passes is reached, and the active calls are a path of the graph.
SearchInvariant ==
    /\ TypeOK
    /\ SearchPartition
    /\ SearchProgress
    /\ SearchPath
    /\ visited \subseteq Linked

\* When the sort returns it has pushed every pass an edge starts or ends at,
\* and no other pass.
AllLinkedPushed == Sorted => Elements(order) = Linked

\* The sort returns for every map it is given, those with cycles included.
Terminates == <>Sorted

\* What the sort does to the order is what PassOrder allows, with cycles and without.
Order == INSTANCE PassOrder
ImplementsPassOrder == Order!Spec
==============================================================================
