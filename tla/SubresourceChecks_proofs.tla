----------------------- MODULE SubresourceChecks_proofs -----------------------
(***************************************************************************)
(* The overlap test of ranges is exact, and so are the reports of the      *)
(* write check, for every range, texture and number of passes and views.   *)
(***************************************************************************)
EXTENDS SubresourceChecks, SequenceTheorems, TLAPS

\* CRange::overlapsWith: two ranges overlap exactly when they share a slice; an
\* empty range overlaps nothing and adjacent ranges do not overlap.
LEMMA OverlapIsSharing ==
    ASSUME NEW a \in SliceRange, NEW b \in SliceRange
    PROVE  Overlaps(a, b) <=> Slices(a) \cap Slices(b) # {}
<1>1. /\ a.offset \in Nat /\ a.length \in Nat
      /\ b.offset \in Nat /\ b.length \in Nat
  BY DEF SliceRange
<1>2. ASSUME Overlaps(a, b)
      PROVE  \E s \in Int : s \in Slices(a) /\ s \in Slices(b)
  <2>1. CASE a.offset <= b.offset
    <3>1. b.offset \in Slices(a) /\ b.offset \in Slices(b)
      BY <1>1, <1>2, <2>1 DEF Overlaps, Slices
    <3> QED  BY <1>1, <3>1
  <2>2. CASE b.offset < a.offset
    <3>1. a.offset \in Slices(a) /\ a.offset \in Slices(b)
      BY <1>1, <1>2, <2>2 DEF Overlaps, Slices
    <3> QED  BY <1>1, <3>1
  <2> QED  BY <1>1, <2>1, <2>2
<1>3. ASSUME NEW s, s \in Slices(a), s \in Slices(b)
      PROVE  Overlaps(a, b)
  BY <1>1, <1>3 DEF Overlaps, Slices
<1> QED  BY <1>2, <1>3

\* The views made by useTexture lie in ranges of array slices and mip levels.
THEOREM TypeInvariance == Spec => []TypeOK
<1>1. Init => TypeOK
  BY BoundsAssumption DEF Init, TypeOK
<1>2. TypeOK /\ [Next]_vars => TypeOK'
  <2> SUFFICES ASSUME TypeOK, [Next]_vars PROVE TypeOK'
    OBVIOUS
  <2>1. CASE NextPass
    BY <2>1, BoundsAssumption DEF NextPass, TypeOK
  <2>2. ASSUME NEW source \in Sources, NEW array \in Ranges, NEW mip \in Ranges,
               NEW mode \in {"Read", "Write"},
               UseTexture(source, array, mip, mode)
        PROVE  TypeOK'
    <3> DEFINE newArray == IF source = Texture THEN array
                           ELSE Shifted(array, views[source].array)
               newMip == IF source = Texture THEN mip
                         ELSE Shifted(mip, views[source].mip)
               new == [pass |-> setup, mode |-> mode, array |-> newArray, mip |-> newMip]
    <3>1. source # Texture => views[source] \in View
      BY ElementOfSeq DEF TypeOK, Sources
    <3>2. newArray \in SliceRange /\ newMip \in SliceRange
      BY <3>1, RangesAssumption DEF View, SliceRange, Shifted
    <3>3. new \in View
      BY <3>2 DEF TypeOK, View
    <3>4. views' = Append(views, new) /\ setup' = setup /\ Len(views) < MaxView
      BY <2>2 DEF UseTexture
    <3> HIDE DEF new
    <3>5. views' \in Seq(View) /\ Len(views') <= MaxView
      BY <3>3, <3>4, BoundsAssumption, AppendProperties DEF TypeOK
    <3> QED  BY <3>4, <3>5 DEF TypeOK
  <2>3. CASE UNCHANGED vars
    BY <2>3 DEF vars, TypeOK
  <2> QED  BY <2>1, <2>2, <2>3 DEF Next
<1> QED  BY <1>1, <1>2, PTL DEF Spec

\* The write check reports conflicts only, and every conflict within the pass
\* that made the texture or view it is asked about.
THEOREM WriteConflictsInvariance == Spec => []WriteConflictsReported
<1>1. TypeOK => WriteConflictsReported
  <2> SUFFICES ASSUME TypeOK, NEW source \in Sources, NEW array \in Ranges, NEW mip \in Ranges
               PROVE  /\ IsBeingWritten(source, array, mip) =>
                            \E v \in 1..Len(views) :
                                v # source /\ Touches(v, "Write", array, mip)
                      /\ PassOf(source) = setup =>
                            ((\E v \in 1..Len(views) :
                                 /\ views[v].pass = setup /\ v # source
                                 /\ Touches(v, "Write", array, mip))
                             => IsBeingWritten(source, array, mip))
    BY DEF WriteConflictsReported
  <2>1. array \in SliceRange /\ mip \in SliceRange
    BY RangesAssumption
  <2>2. ASSUME NEW v \in 1..Len(views)
        PROVE  Touches(v, "Write", array, mip) <=>
                  /\ views[v].mode = "Write"
                  /\ Overlaps(views[v].array, array)
                  /\ Overlaps(views[v].mip, mip)
    <3>1. views[v] \in View
      BY ElementOfSeq DEF TypeOK
    <3>2. views[v].array \in SliceRange /\ views[v].mip \in SliceRange
      BY <3>1 DEF View
    <3> QED  BY <2>1, <3>2, OverlapIsSharing DEF Touches
  <2> QED  BY <2>2 DEF IsBeingWritten
<1> QED  BY <1>1, TypeInvariance, PTL
==============================================================================
