------------------------- MODULE MCSubresourceChecks -------------------------
(***************************************************************************)
(* Instance of SubresourceChecks: empty, single and adjacent ranges.       *)
(***************************************************************************)
EXTENDS SubresourceChecks

MCRanges == {[offset |-> 0, length |-> 0], [offset |-> 0, length |-> 1],
             [offset |-> 0, length |-> 2], [offset |-> 1, length |-> 1]}
==============================================================================
