--------------------------- MODULE MessageChannel ---------------------------
(***************************************************************************)
(* What two peers are promised by a session: the messages written by one   *)
(* are handed to the other once, whole, and in the order of the writes,    *)
(* for as long as the channel in that direction is intact.  Messages are   *)
(* numbered in the order in which they are written; 0 is something that    *)
(* nobody has written.                                                     *)
(***************************************************************************)
EXTENDS Naturals, Sequences

CONSTANTS Peers,    \* the two ends
          Other     \* [Peers -> Peers], the end a peer talks to

VARIABLES written,    \* [Peers -> Nat], messages written by a peer
          delivered,  \* [Peers -> Seq(Nat)], messages handed to a peer
          broken      \* [Peers -> BOOLEAN], the direction from that peer

vars == <<written, delivered, broken>>

Init == /\ written = [p \in Peers |-> 0]
        /\ delivered = [p \in Peers |-> <<>>]
        /\ broken = [p \in Peers |-> FALSE]

Write(p) == /\ written' = [written EXCEPT ![p] = @ + 1]
            /\ UNCHANGED <<delivered, broken>>

(* The next message is handed to p; anything, once the direction is broken. *)
Deliver(p) ==
    /\ \E m \in 0..(Len(delivered[p]) + 1) :
          /\ broken[Other[p]]
                \/ (m = Len(delivered[p]) + 1 /\ m <= written[Other[p]])
          /\ delivered' = [delivered EXCEPT ![p] = Append(@, m)]
    /\ UNCHANGED <<written, broken>>

Break(p) == /\ broken' = [broken EXCEPT ![p] = TRUE]
            /\ UNCHANGED <<written, delivered>>

Next == \E p \in Peers : Write(p) \/ Deliver(p) \/ Break(p)

Spec == Init /\ [][Next]_vars
=============================================================================
