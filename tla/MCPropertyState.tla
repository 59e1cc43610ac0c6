-------------------------- MODULE MCPropertyState --------------------------
(***************************************************************************)
(* Documents for PropertyState: a root whose first property holds objects  *)
(* or nulls and whose second, if there is one, is a leaf.  UIDs are given  *)
(* as they come, but for the variants that leave one out or repeat one.    *)
(***************************************************************************)
EXTENDS PropertyState, TLC

Leaf(u, name, type) == [type |-> type, uid |-> u, name |-> name, capacity |-> 2,
                        replicate |-> TRUE, writable |-> TRUE, list |-> <<>>]
Holder(u, name, list) == [type |-> "object", uid |-> u, name |-> name,
                          capacity |-> MaxCapacity, replicate |-> FALSE,
                          writable |-> TRUE, list |-> list]
Object(u, properties) ==
    [uid |-> u, properties |-> [k \in Keys |-> IF k \in DOMAIN properties THEN properties[k] ELSE None]]

(* Inner objects: with a leaf, without properties, and with no list.       *)
Inners(u, v) == {Object(u, 1 :> Leaf(v, 1, "int8")), Object(u, <<>>), [uid |-> u, properties |-> Missing],
                 Object(u, 1 :> [Leaf(v, 1, "int8") EXCEPT !.list = Missing])}
Lists == {<<>>, <<None>>} \cup {<<a>> : a \in Inners(3, 4)} \cup {<<None, a>> : a \in Inners(3, 4)}
         \cup {<<a, b>> : a \in Inners(3, 4), b \in Inners(5, 6)}
Roots(u, v, w) ==
    {Object(u, (1 :> Holder(v, 1, list)) @@ second) :
        list \in Lists,
        second \in {<<>>} \cup {2 :> Leaf(w, name, type) : name \in {1, 2}, type \in {"int8", "int16"}}}
MCContinued == {Object(1, 1 :> Leaf(2, 1, "int8")),
                Object(1, 1 :> [Holder(2, 1, <<Object(3, 1 :> [Leaf(4, 1, "int8")
                                   EXCEPT !.capacity = 1])>>) EXCEPT !.capacity = 1])}
MCDocuments == Roots(1, 2, 7) \cup Roots(0, 2, 7) \cup Roots(1, 0, 7) \cup Roots(1, 2, 0)
               \cup Roots(1, 2, 2) \cup Roots(1, 1, 7) \cup Roots(1, 2, 4)
               \cup MCContinued
MCMaps == {1 :> [type |-> "int8", capacity |-> 1, replicate |-> TRUE],
           1 :> [type |-> "object", capacity |-> 1, replicate |-> FALSE]}
MCAdded == {<<2, "int8">>}

(* Only the clone of an object in an object needs the bounds of the cfg:   *)
(* what starts from it leaves other modes, capacities and properties       *)
(* aside, and what does not is bounded closer.                             *)
Nested == file # None /\ \E k \in KeysListed(file) : file.properties[k].type = "object"
MCBound ==
    /\ \A o \in Live(heap) : \A k \in KeysOf(heap[o]) : heap[o][k].writable
    /\ IF ~Nested THEN uid <= 3 /\ Cardinality(Live(heap)) <= 2
       ELSE \A o \in Live(heap) : \A k \in KeysOf(heap[o]) :
               LET p == heap[o][k]
               IN  p.name = 1 /\ p.capacity = 1 /\ (p.type = "object" => ~p.replicate)
=============================================================================
