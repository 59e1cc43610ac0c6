-------------------------- MODULE SubresourceChecks --------------------------
(***************************************************************************)
(* A check useTexture makes before a view is made: is a range of array     *)
(* slices and mip levels of a texture being written by a view that exists  *)
(* already?  An answer of yes is logged and changes nothing.  The same     *)
(* check for reads looks at the source itself only, and is left out.       *)
(*                                                                         *)
(* One texture, made by the first pass; passes are set up one after        *)
(* another.  Lengths are not negative: nothing asks for D_RANGE_REMAINING. *)
(* No view is shared here: a shared view adds nothing to look at.          *)
(***************************************************************************)
EXTENDS Integers, Sequences

CONSTANTS
    MaxPass,                    \* bound on the pass uids
    MaxView,                    \* bound on the number of views
    Ranges                      \* ranges that are asked for

SliceRange == [offset : Nat, length : Nat]

ASSUME BoundsAssumption == MaxPass \in Nat /\ MaxView \in Nat
ASSUME RangesAssumption == Ranges \subseteq SliceRange

VARIABLES
    setup,                      \* mPassUID of the builder of the pass that is set up
    views                       \* the view with resource id i is views[i]

vars == <<setup, views>>

Texture == 0
Sources == {Texture} \cup (1..Len(views))
PassOf(r) == IF r = Texture THEN 0 ELSE views[r].pass

\* Mutant: ranges that only touch overlap.
OverlapsTouching(a, b) ==
    /\ a.length # 0 /\ b.length # 0
    /\ a.offset + a.length >= b.offset
    /\ b.offset + b.length >= a.offset

\* CRange::overlapsWith.
Overlaps(a, b) ==
    /\ a.length # 0 /\ b.length # 0
    /\ \/ a.offset = b.offset
       \/ a.offset < b.offset /\ a.offset + a.length > b.offset
       \/ b.offset < a.offset /\ b.offset + b.length > a.offset

\* isTextureBeingWrittenInSubresourceRange: looks at the views of the pass that made
\* the source.
IsBeingWritten(source, array, mip) ==
    \E v \in 1..Len(views) :
        /\ views[v].mode = "Write"
        /\ views[v].pass = PassOf(source)
        /\ v # source
        /\ Overlaps(views[v].array, array)
        /\ Overlaps(views[v].mip, mip)

\* A range asked of a view starts where the view starts.
Shifted(range, parent) == [range EXCEPT !.offset = @ + parent.offset]

-----------------------------------------------------------------------------
Init ==
    /\ setup = 0
    /\ views = <<>>

\* The next pass is set up.
NextPass ==
    /\ setup < MaxPass
    /\ setup' = setup + 1
    /\ UNCHANGED views

\* useTexture, whatever the check says.
UseTexture(source, array, mip, mode) ==
    /\ Len(views) < MaxView
    /\ views' = Append(views,
           [pass |-> setup, mode |-> mode,
            array |-> IF source = Texture THEN array ELSE Shifted(array, views[source].array),
            mip |-> IF source = Texture THEN mip ELSE Shifted(mip, views[source].mip)])
    /\ UNCHANGED setup

Next ==
    \/ NextPass
    \/ \E source \in Sources, array, mip \in Ranges, mode \in {"Read", "Write"} :
          UseTexture(source, array, mip, mode)

Spec == Init /\ [][Next]_vars

-----------------------------------------------------------------------------
(***************************************************************************)
(* Properties.                                                             *)
(***************************************************************************)

View == [pass : 0..MaxPass, mode : {"Read", "Write"}, array : SliceRange, mip : SliceRange]

TypeOK ==
    /\ setup \in 0..MaxPass
    /\ Len(views) <= MaxView
    /\ views \in Seq(View)

Slices(range) == range.offset..(range.offset + range.length - 1)

\* View v reads or writes (mode) a slice and level of the given ranges.
Touches(v, mode, array, mip) ==
    /\ views[v].mode = mode
    /\ Slices(views[v].array) \cap Slices(array) # {}
    /\ Slices(views[v].mip) \cap Slices(mip) # {}

\* What the write check reports is a conflict, and a request on a texture or view
\* the pass made itself is reported exactly when another view of the pass
\* writes a slice of it, whatever the other passes do with the texture.
WriteConflictsReported ==
    \A source \in Sources : \A array, mip \in Ranges :
        /\ IsBeingWritten(source, array, mip) =>
              \E v \in 1..Len(views) : v # source /\ Touches(v, "Write", array, mip)
        /\ PassOf(source) = setup =>
              ((\E v \in 1..Len(views) :
                    views[v].pass = setup /\ v # source /\ Touches(v, "Write", array, mip))
               => IsBeingWritten(source, array, mip))
==============================================================================
