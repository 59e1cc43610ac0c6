-------------------------- MODULE MCTopologicalSort --------------------------
(***************************************************************************)
(* TopologicalSort on every adjacency map over three of four passes, and   *)
(* on every map over four passes whose edges follow the order of the pass  *)
(* uids.                                                                   *)
(***************************************************************************)
EXTENDS TopologicalSort, FiniteSets

\* The lists of different passes taken from S, in every order.
Lists(S) ==
    UNION {{s \in [1..n -> S] : \A i, j \in 1..n : s[i] = s[j] => i = j} :
               n \in 0..Cardinality(S)}

\* Every map over the passes, with any set of keys: cycles and self edges too.
AllAdjacencies(S) == UNION {[K -> Lists(S)] : K \in SUBSET S}

\* Edges go from a lower to a higher uid only: there is no cycle. The keys are
\* the passes that have an edge.
Later(p) == {q \in Pass : q > p}
UpwardAdjacencies ==
    UNION {{a \in [K -> Lists(Pass) \ {<<>>}] :
                \A p \in K : Elements(a[p]) \subseteq Later(p)} :
               K \in SUBSET {p \in Pass : Later(p) # {}}}

MCAdjacencies == AllAdjacencies({0, 1, 2}) \cup UpwardAdjacencies
==============================================================================
