------------------------- MODULE MCFrameGraphBuilder -------------------------
(***************************************************************************)
(* FrameGraphBuilder on small frames, and the render passes derived from   *)
(* them.  Each configuration lets the passes use some of the calls, which  *)
(* bounds the frames it explores.                                          *)
(***************************************************************************)
EXTENDS RenderPassDerivation, TLC

Slices(offset, length) == [offset |-> offset, length |-> length]

\* One slice; and ranges that overlap, that are nested, that are adjacent and
\* that, asked of each other, reach beyond a texture with three slices.
WholeOnly == {Slices(0, 1)}
Nested == {Slices(1, 2), Slices(0, 1), Slices(1, 1)}

\* R8G8B8A8 and B8G8R8A8 have one bit depth, R32 has another.
BitClass == ("R8G8B8A8" :> 64) @@ ("B8G8R8A8" :> 64) @@ ("R32" :> 128)

AllUsages == {Usages}
SomeUsages == {Usages, {"InputAttachment"}}

(* Frames of two kinds: attached views of views that passes share, with    *)
(* room for a named dependency while the resources are few; and more named *)
(* dependencies and failing setups, for which registered textures and      *)
(* views to sample them are data flow enough.                              *)
MCAttaching ==
    /\ Spawned \ named \subseteq {setup}
    /\ dependencies = {} \/ (Cardinality(dependencies) = 1 /\ Len(resources) <= 3)
    /\ \A t \in Textures : ~ resources[t].external
    /\ \A v \in Views : resources[v].purpose # "ShaderInput"
MCDepending ==
    /\ Len(resources) <= 2
    /\ \A t \in Textures : resources[t].external
    /\ \A v \in Views : resources[v].purpose = "ShaderInput"
MCBound == MCAttaching \/ MCDepending
==============================================================================
