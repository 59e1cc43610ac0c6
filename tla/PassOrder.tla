------------------------------ MODULE PassOrder ------------------------------
(***************************************************************************)
(* What CGraphBuilder::compile promises about the pass execution order:    *)
(* the order is a stack that grows one pass at a time, and a pass is only  *)
(* pushed once every pass that depends on it has been pushed, but for those*)
(* it depends on itself in a cycle.  Popping the stack therefore runs each *)
(* pass before the passes that depend on it.                               *)
(***************************************************************************)
EXTENDS Naturals, Sequences

CONSTANT Pass               \* pass uids

VARIABLES
    adjacency,              \* mPassAdjacency: source pass -> list of dependents
    order                   \* the std::stack of passes, bottom first

vars == <<adjacency, order>>

Elements(s) == {s[i] : i \in 1..Len(s)}

\* The passes that depend on p.
Dependents(p) == IF p \in DOMAIN adjacency THEN Elements(adjacency[p]) ELSE {}

\* The passes the order has to hold: everything an edge starts or ends at.
Linked == DOMAIN adjacency \cup UNION {Dependents(p) : p \in DOMAIN adjacency}

\* Following edges from p one comes to q: q is in every set of passes that p is in
\* and no edge leads out of.
Reaches(p, q) ==
    \A S \in SUBSET Pass :
        p \in S /\ (\A r \in S : Dependents(r) \subseteq S) => q \in S

Init == order = <<>>

\* One pass is pushed, after all of its dependents that are on no cycle with it.
Push(p) ==
    /\ p \in Linked \ Elements(order)
    /\ \A q \in Dependents(p) \ Elements(order) : Reaches(q, p)
    /\ order' = Append(order, p)
    /\ UNCHANGED adjacency

Next == \E p \in Pass : Push(p)

Spec == Init /\ [][Next]_vars
==============================================================================
