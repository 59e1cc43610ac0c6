----------------------- MODULE FrameGraphBuilder_proofs -----------------------
(***************************************************************************)
(* Proofs about FrameGraphBuilder, for every number of passes, resources,  *)
(* references and dependencies, and whatever calls the passes make; and,   *)
(* on top of that, about RenderPassDerivation.                             *)
(***************************************************************************)
EXTENDS RenderPassDerivation, TLAPS, SequenceTheorems, FiniteSetTheorems,
        WellFoundedInduction

\* The sort the builder runs, with what is proved of it.
Sorting == INSTANCE TopologicalSort_proofs WITH Adjacencies <- {}

(***************************************************************************)
(* The invariant.                                                          *)
(***************************************************************************)

AnyFormat == Formats \cup Requested
Purpose == {"InputAttachment", "ColorAttachment", "DepthAttachment", "ShaderInput",
            "Undefined"}
Mode == {"Read", "Write", "Forward", "Accept"}
AccessMode == {"Read", "Write"}

\* The three kinds of resources.
TextureRecord ==
    [kind : {"Texture"}, pass : Pass, parent : {NoResource}, subjacent : Nat,
     referenceCount : Nat, external : BOOLEAN, size : Sizes, format : Formats,
     permitted : SUBSET Usages, requested : SUBSET Usages]
ViewRecord ==
    [kind : {"TextureView"}, pass : Pass, parent : Nat, subjacent : Nat,
     referenceCount : Nat, range : [offset : Nat, length : Nat], format : AnyFormat,
     purpose : Purpose, mode : Mode]
OpaqueRecord ==
    [kind : {"RenderableList", "Mesh", "Material"}, pass : Pass, parent : {NoResource},
     subjacent : {NoResource}, referenceCount : Nat, external : BOOLEAN]
Resource == TextureRecord \cup ViewRecord \cup OpaqueRecord

\* The pass being set up is the last one that was spawned, and nobody knows a pass
\* by name before it was spawned.
SetupOK ==
    /\ spawned \in 1..(MaxPass + 1)
    /\ named \subseteq Spawned
    /\ setup = NoPass \/ setup = spawned - 1

\* A view belongs to no earlier pass than what it was derived from, is about the
\* same texture, and that texture has been asked for its usage.
Derived(r) ==
    resources[r].kind = "TextureView" =>
        /\ resources[r].parent \in 1..(r - 1)
        /\ resources[resources[r].parent].kind \in {"Texture", "TextureView"}
        /\ resources[resources[r].parent].pass <= resources[r].pass
        /\ resources[r].subjacent = Subjacent(resources[r].parent)
        /\ resources[r].subjacent \in 1..(r - 1)
        /\ resources[resources[r].subjacent].kind = "Texture"
        /\ resources[r].purpose # "Undefined" =>
              /\ UsageOf(resources[r].purpose) \in resources[resources[r].subjacent].requested
              /\ resources[r].mode \in AccessMode

ResourcesOK ==
    /\ resources \in Seq(Resource)
    /\ Len(resources) <= MaxResource
    /\ \A r \in Ids :
          /\ resources[r].pass \in Spawned
          /\ resources[r].subjacent \in 0..r
          /\ Derived(r)

\* A pass references no resource of a later pass, and references its own views.
ReferencesOK ==
    /\ references \in [Pass -> Seq(Ids)]
    /\ \A p \in Pass : \A r \in Elements(references[p]) : resources[r].pass <= p
    /\ \A v \in Views : v \in Elements(references[resources[v].pass])

AttachmentPurpose == {"ColorAttachment", "DepthAttachment", "InputAttachment"}

\* A list of attachments holds positions of views of one purpose.
Lists(s, purpose) ==
    \A i \in Elements(s) :
        /\ i \in 1..Len(attachments.views)
        /\ resources[attachments.views[i]].purpose = purpose

\* The lists of views and images are parallel, no view is listed twice, each is used as
\* an attachment, and the positions a pass is assigned are those of views it references.
AttachmentsOK ==
    /\ attachments \in
          [views : Seq(Views), images : Seq(Textures), assigned : [Pass -> Seq(Nat)],
           color : Seq(Nat), depth : Seq(Nat), input : Seq(Nat)]
    /\ Len(attachments.images) = Len(attachments.views)
    /\ \A i, j \in 1..Len(attachments.views) :
          attachments.views[i] = attachments.views[j] => i = j
    /\ \A i \in 1..Len(attachments.views) :
          attachments.images[i] = resources[attachments.views[i]].subjacent
    /\ \A p \in Pass : \A i \in Elements(attachments.assigned[p]) :
          /\ i \in 1..Len(attachments.views)
          /\ attachments.views[i] \in Elements(references[p])
    /\ \A i \in 1..Len(attachments.views) :
          resources[attachments.views[i]].purpose \in AttachmentPurpose
    /\ Lists(attachments.color, "ColorAttachment")
    /\ Lists(attachments.depth, "DepthAttachment")
    /\ Lists(attachments.input, "InputAttachment")

EdgesOK ==
    /\ adjacency = [p \in DOMAIN adjacency |-> adjacency[p]]
    /\ DOMAIN adjacency \subseteq Spawned
    /\ \A p \in DOMAIN adjacency : adjacency[p] \in Seq(Spawned)
    /\ EdgesFollowSpawning

\* The edges of the passes that have been collected are there.
EdgesCollected ==
    \A p \in collected : \A s \in Sources(p) :
        s \in DOMAIN adjacency /\ p \in Elements(adjacency[s])

\* The formats the collected passes left open have been resolved.
FormatsResolved ==
    \A p \in collected : \A v \in ReferencedViews(p) : resources[v].format # "Automatic"

\* The sort has not begun before all passes are collected, and nothing but the sort
\* touches its variables.
PhaseOK ==
    /\ phase \in {"building", "collecting", "sorting", "compiled", "failed"}
    /\ collected \subseteq Spawned
    /\ phase = "building" => collected = {}
    /\ phase # "building" => setup = NoPass
    /\ phase \in {"building", "collecting"} =>
          pending = {} /\ frames = <<>> /\ visited = {} /\ order = <<>>
    /\ phase \in {"sorting", "compiled", "failed"} =>
          /\ collected = Spawned
          /\ Sorting!SearchInvariant /\ Sorting!DependentsBelow /\ Sorting!PushedOnce
    /\ phase \in {"compiled", "failed"} => Sorting!Sorted
    /\ phase = "compiled" /\ Validating => \A v \in Views : ValidView(v)

Inv ==
    /\ SetupOK /\ ResourcesOK /\ ReferencesOK /\ AttachmentsOK
    /\ EdgesOK /\ EdgesCollected /\ FormatsResolved /\ PhaseOK

-----------------------------------------------------------------------------
(***************************************************************************)
(* Facts about the operators.                                              *)
(***************************************************************************)

\* A pass that was spawned is a pass, and so is the one being set up.
LEMMA PassFacts ==
    ASSUME SetupOK
    PROVE  /\ MaxPass \in Nat /\ spawned \in Nat \ {0}
           /\ Spawned \subseteq Pass /\ PseudoPass \in Spawned
           /\ NoPass \notin Pass
           /\ setup # NoPass => setup \in Spawned /\ setup \in Pass
           /\ setup # NoPass => \A p \in Spawned : p <= setup
  BY BoundsAssumption DEF SetupOK, Spawned, Pass, PseudoPass, NoPass

\* Appending an element.
LEMMA AppendFacts ==
    ASSUME NEW S, NEW s \in Seq(S), NEW x \in S
    PROVE  /\ Append(s, x) \in Seq(S)
           /\ Len(s) \in Nat /\ Len(Append(s, x)) = Len(s) + 1
           /\ \A i \in 1..Len(s) : Append(s, x)[i] = s[i]
           /\ Append(s, x)[Len(s) + 1] = x
           /\ Elements(Append(s, x)) = Elements(s) \cup {x}
           /\ x \in Elements(Append(s, x))
  <1>1. /\ Append(s, x) \in Seq(S)
        /\ Len(s) \in Nat /\ Len(Append(s, x)) = Len(s) + 1
        /\ \A i \in 1..Len(s) : Append(s, x)[i] = s[i]
        /\ Append(s, x)[Len(s) + 1] = x
    OBVIOUS
  <1>2. 1..(Len(s) + 1) = (1..Len(s)) \cup {Len(s) + 1}
    BY <1>1
  <1>. QED
    BY <1>1, <1>2 DEF Elements

LEMMA ElementsFacts ==
    /\ Elements(<<>>) = {}
    /\ \A S : \A s \in Seq(S) : Elements(s) \subseteq S
  BY ElementOfSeq DEF Elements

-----------------------------------------------------------------------------
(***************************************************************************)
(* Steps of a setup function.                                              *)
(***************************************************************************)

\* What stays of a resource whatever is counted, asked of it or resolved.
Kept(new, old) ==
    /\ new.kind = old.kind /\ new.pass = old.pass
    /\ new.parent = old.parent /\ new.subjacent = old.subjacent
    /\ old.kind = "Texture" => old.requested \subseteq new.requested
    /\ old.kind = "TextureView" => new.purpose = old.purpose /\ new.mode = old.mode

\* A resource that can be added next.
Addable(x) ==
    /\ x \in Resource
    /\ x.pass \in Spawned
    /\ x.subjacent \in 0..NewId
    /\ x.kind = "TextureView" =>
          /\ x.parent \in Textures \cup Views /\ resources[x.parent].pass <= x.pass
          /\ x.subjacent = Subjacent(x.parent)
          /\ x.subjacent \in Textures
          /\ x.purpose # "Undefined" => x.mode \in AccessMode

\* The texture of a view knows what it is used for.
Asked(x) ==
    x.kind = "TextureView" /\ x.purpose # "Undefined" =>
        UsageOf(x.purpose) \in resources'[x.subjacent].requested

\* Nothing but counts changes, or one more resource is added.
SameOrMore ==
    /\ resources' \in Seq(Resource)
    /\ Len(resources') <= MaxResource
    /\ \A r \in 1..Len(resources) : Kept(resources'[r], resources[r])
    /\ \/ Len(resources') = Len(resources)
       \/ /\ Len(resources') = NewId
          /\ Addable(resources'[NewId]) /\ Asked(resources'[NewId])

LEMMA ResourceFields ==
    ASSUME NEW x \in Resource
    PROVE  /\ x.kind \in {"Texture", "TextureView", "RenderableList", "Mesh", "Material"}
           /\ x.pass \in Pass /\ x.parent \in Nat /\ x.subjacent \in Nat
           /\ x.referenceCount \in Nat
           /\ x.kind = "Texture" => x \in TextureRecord
           /\ x.kind = "TextureView" => x \in ViewRecord
           /\ x.kind \notin {"Texture", "TextureView"} => x \in OpaqueRecord
  <1>1. CASE x \in TextureRecord
    BY <1>1 DEF TextureRecord, NoResource
  <1>2. CASE x \in ViewRecord
    BY <1>2 DEF ViewRecord
  <1>3. CASE x \in OpaqueRecord
    BY <1>3 DEF OpaqueRecord, NoResource
  <1>. QED
    BY <1>1, <1>2, <1>3 DEF Resource

\* Every resource has its fields.
LEMMA IdFacts ==
    ASSUME ResourcesOK
    PROVE  /\ Len(resources) \in Nat /\ NewId = Len(resources) + 1
           /\ Ids \subseteq Nat /\ Textures \subseteq Ids /\ Views \subseteq Ids
           /\ \A r \in Ids : resources[r] \in Resource
           /\ \A r \in Textures : resources[r] \in TextureRecord
           /\ \A r \in Views : resources[r] \in ViewRecord
  <1>1. Len(resources) \in Nat /\ \A r \in Ids : resources[r] \in Resource
    BY LenProperties, ElementOfSeq DEF ResourcesOK, Ids
  <1>. QED
    BY <1>1, ResourceFields DEF NewId, Ids, Textures, Views

LEMMA SameOrMoreFacts ==
    ASSUME ResourcesOK, SameOrMore
    PROVE  /\ Ids \subseteq Ids' /\ Textures \subseteq Textures' /\ Views \subseteq Views'
           /\ \A r \in Ids : Kept(resources'[r], resources[r])
           /\ \A r \in Ids' \ Ids : r = NewId
           /\ Views' \cap Ids = Views
  <1>1. Len(resources) \in Nat
    BY IdFacts
  <1>2. Ids \subseteq Ids' /\ \A r \in Ids' \ Ids : r = NewId
    BY <1>1 DEF SameOrMore, Ids, NewId
  <1>. QED
    BY <1>2 DEF SameOrMore, Kept, Ids, Textures, Views

LEMMA SameOrMoreOK ==
    ASSUME SetupOK, ResourcesOK, SameOrMore, spawned' = spawned
    PROVE  ResourcesOK'
  <1>1. /\ Len(resources) \in Nat /\ NewId = Len(resources) + 1
        /\ Spawned' = Spawned
    BY IdFacts DEF Spawned
  <1>2. \A r \in Ids : Kept(resources'[r], resources[r])
    BY DEF SameOrMore, Ids
  <1>3. ASSUME NEW r \in Ids
        PROVE  /\ resources'[r].pass \in Spawned'
               /\ resources'[r].subjacent \in 0..r
               /\ Derived(r)'
    <2>1. Kept(resources'[r], resources[r])
      BY <1>2
    <2>2. /\ resources'[r].pass \in Spawned'
          /\ resources'[r].subjacent \in 0..r
      BY <1>1, <2>1 DEF Kept, ResourcesOK
    <2>3. ASSUME resources'[r].kind = "TextureView" PROVE Derived(r)'
      <3>1. Derived(r) /\ resources[r].kind = "TextureView"
        BY <2>1, <2>3 DEF ResourcesOK, Kept
      <3>. DEFINE q == resources[r].parent
                  t == resources[r].subjacent
      <3>2. /\ q \in 1..(r - 1) /\ resources[q].kind \in {"Texture", "TextureView"}
            /\ resources[q].pass <= resources[r].pass
            /\ t = Subjacent(q) /\ t \in 1..(r - 1) /\ resources[t].kind = "Texture"
            /\ resources[r].purpose # "Undefined" =>
                  /\ UsageOf(resources[r].purpose) \in resources[t].requested
                  /\ resources[r].mode \in AccessMode
        BY <3>1 DEF Derived
      <3>3. q \in Ids /\ t \in Ids /\ q \in Textures \cup Views
        BY <1>1, <3>2 DEF Ids, Textures, Views
      <3>4. /\ resources'[r].parent = q /\ resources'[r].subjacent = t
            /\ resources'[r].pass = resources[r].pass
            /\ resources'[r].purpose = resources[r].purpose
            /\ resources'[r].mode = resources[r].mode
        BY <2>1, <3>1 DEF Kept
      <3>5. /\ resources'[q].kind = resources[q].kind /\ resources'[q].pass = resources[q].pass
            /\ resources'[t].kind = resources[t].kind
            /\ resources[t].requested \subseteq resources'[t].requested
        BY <1>2, <3>2, <3>3 DEF Kept
      <3>6. t = IF resources'[q].kind = "Texture" THEN q ELSE resources'[q].subjacent
        <4>1. resources'[q].subjacent = resources[q].subjacent
          BY <1>2, <3>3 DEF Kept
        <4>. QED
          BY <3>2, <3>5, <4>1 DEF Subjacent
      <3>. HIDE DEF q, t
      <3>. QED
        BY <3>2, <3>4, <3>5, <3>6 DEF Derived, Subjacent
    <2>. QED
      BY <2>2, <2>3 DEF Derived
  <1>4. ASSUME NEW r \in {NewId}, Addable(resources'[r]), Asked(resources'[r])
        PROVE  /\ resources'[r].pass \in Spawned'
               /\ resources'[r].subjacent \in 0..r
               /\ Derived(r)'
    <2>1. \A q \in Ids : q \in 1..(r - 1)
      BY <1>1 DEF Ids
    <2>2. Textures \subseteq Ids /\ Views \subseteq Ids
      BY DEF Textures, Views
    <2>3. /\ resources'[r].pass \in Spawned'
          /\ resources'[r].subjacent \in 0..r
      BY <1>1, <1>4 DEF Addable
    <2>4. ASSUME resources'[r].kind = "TextureView" PROVE Derived(r)'
      <3>. DEFINE q == resources'[r].parent
                  t == resources'[r].subjacent
      <3>1. /\ q \in Textures \cup Views /\ resources[q].pass <= resources'[r].pass
            /\ t = Subjacent(q) /\ t \in Textures
            /\ resources'[r].purpose # "Undefined" =>
                  /\ UsageOf(resources'[r].purpose) \in resources'[t].requested
                  /\ resources'[r].mode \in AccessMode
        BY <1>4, <2>4 DEF Addable, Asked
      <3>2. /\ q \in 1..(r - 1) /\ t \in 1..(r - 1) /\ q \in Ids /\ t \in Ids
            /\ resources[q].kind \in {"Texture", "TextureView"}
            /\ resources[t].kind = "Texture"
        BY <2>1, <2>2, <3>1 DEF Textures, Views
      <3>3. /\ resources'[q].kind = resources[q].kind /\ resources'[q].pass = resources[q].pass
            /\ resources'[t].kind = resources[t].kind
            /\ resources'[q].subjacent = resources[q].subjacent
        BY <1>2, <3>2 DEF Kept
      <3>4. t = IF resources'[q].kind = "Texture" THEN q ELSE resources'[q].subjacent
        BY <3>1, <3>3 DEF Subjacent
      <3>. QED
        BY <3>1, <3>2, <3>3, <3>4 DEF Derived, Subjacent
    <2>. QED
      BY <2>3, <2>4 DEF Derived
  <1>5. \A r \in Ids' :
           r \in Ids \/ (r \in {NewId} /\ Addable(resources'[r]) /\ Asked(resources'[r]))
    BY <1>1 DEF SameOrMore, Ids
  <1>6. \A r \in Ids' : /\ resources'[r].pass \in Spawned'
                        /\ resources'[r].subjacent \in 0..r
                        /\ Derived(r)'
    BY <1>3, <1>4, <1>5
  <1>. QED
    BY <1>6 DEF SameOrMore, ResourcesOK

\* What a pass references it goes on referencing.
ReferencesGrow ==
    \A p \in Pass : Elements(references[p]) \subseteq Elements(references'[p])

\* A reference to a resource of no later pass may be added; a view that is new has
\* to be referenced by its pass.
LEMMA ReferenceOK ==
    ASSUME SetupOK, ResourcesOK, ReferencesOK, SameOrMore,
           NEW p \in Pass, NEW r \in Ids', resources'[r].pass <= p, Reference(p, r),
           \A v \in Views' \ Views : v = r /\ resources'[v].pass = p
    PROVE  ReferencesOK' /\ ReferencesGrow /\ r \in Elements(references'[p])
  <1>1. references' = [references EXCEPT ![p] = Append(@, r)]
    BY DEF Reference
  <1>2. /\ Ids \subseteq Ids' /\ \A i \in Ids : resources'[i].pass = resources[i].pass
    BY SameOrMoreFacts DEF Kept
  <1>3. \A q \in Pass : references[q] \in Seq(Ids)
    BY DEF ReferencesOK
  <1>4. \A q \in Pass : references[q] \in Seq(Ids') /\ Elements(references[q]) \subseteq Ids
    BY <1>2, <1>3, SeqMonotonic, ElementsFacts
  <1>5. /\ Append(references[p], r) \in Seq(Ids')
        /\ Elements(Append(references[p], r)) = Elements(references[p]) \cup {r}
    BY <1>4, AppendFacts
  <1>6. /\ DOMAIN references = Pass /\ references'[p] = Append(references[p], r)
        /\ \A q \in Pass : q # p => references'[q] = references[q]
    BY <1>1 DEF ReferencesOK
  <1>7. references' \in [Pass -> Seq(Ids')]
    BY <1>1, <1>4, <1>5, <1>6 DEF ReferencesOK
  <1>8. ASSUME NEW q \in Pass, NEW i \in Elements(references'[q])
        PROVE  resources'[i].pass <= q
    <2>1. CASE q = p /\ i = r
      BY <2>1
    <2>2. CASE i \in Elements(references[q])
      BY <1>2, <1>4, <2>2 DEF ReferencesOK
    <2>. QED
      BY <1>5, <1>6, <1>8, <2>1, <2>2
  <1>9. ReferencesGrow /\ r \in Elements(references'[p])
    BY <1>5, <1>6 DEF ReferencesGrow
  <1>10. ASSUME NEW v \in Views' PROVE v \in Elements(references'[resources'[v].pass])
    <2>1. CASE v \in Views
      <3>1. v \in Ids /\ resources[v].pass \in Pass
        BY <2>1, IdFacts, ResourceFields
      <3>. QED
        BY <1>2, <1>9, <2>1, <3>1 DEF ReferencesOK, ReferencesGrow
    <2>2. CASE v \notin Views
      BY <1>9, <2>2
    <2>. QED
      BY <2>1, <2>2
  <1>. QED
    BY <1>7, <1>8, <1>9, <1>10 DEF ReferencesOK, Elements

LEMMA SameReferencesOK ==
    ASSUME SetupOK, ResourcesOK, ReferencesOK, SameOrMore, references' = references,
           Views' \subseteq Views
    PROVE  ReferencesOK' /\ ReferencesGrow
  <1>1. /\ Ids \subseteq Ids' /\ \A i \in Ids : resources'[i].pass = resources[i].pass
    BY SameOrMoreFacts DEF Kept
  <1>2. \A q \in Pass : references[q] \in Seq(Ids)
    BY DEF ReferencesOK
  <1>3. \A q \in Pass : references[q] \in Seq(Ids') /\ Elements(references[q]) \subseteq Ids
    BY <1>1, <1>2, SeqMonotonic, ElementsFacts
  <1>4. references' \in [Pass -> Seq(Ids')]
    BY <1>3 DEF ReferencesOK
  <1>5. ASSUME NEW q \in Pass, NEW i \in Elements(references[q])
        PROVE  resources'[i].pass <= q
    BY <1>1, <1>3 DEF ReferencesOK
  <1>6. ASSUME NEW v \in Views' PROVE v \in Elements(references[resources'[v].pass])
    BY <1>1, IdFacts DEF ReferencesOK
  <1>. QED
    BY <1>4, <1>5, <1>6 DEF ReferencesOK, ReferencesGrow, Elements

LEMMA SameAttachmentsOK ==
    ASSUME ResourcesOK, AttachmentsOK, SameOrMore, ReferencesGrow, attachments' = attachments
    PROVE  AttachmentsOK'
  <1>1. Views \subseteq Views' /\ Textures \subseteq Textures'
    BY SameOrMoreFacts
  <1>2. /\ attachments.views \in Seq(Views') /\ attachments.images \in Seq(Textures')
        /\ attachments.views \in Seq(Views)
    BY <1>1, SeqMonotonic DEF AttachmentsOK
  <1>3. \A i \in 1..Len(attachments.views) :
           LET v == attachments.views[i]
           IN  /\ resources'[v].purpose = resources[v].purpose
               /\ resources'[v].subjacent = resources[v].subjacent
    <2>. TAKE i \in 1..Len(attachments.views)
    <2>1. attachments.views[i] \in Views
      BY <1>2, ElementOfSeq
    <2>. QED
      BY <2>1, SameOrMoreFacts DEF Kept, Views
  <1>4. attachments' \in
          [views : Seq(Views'), images : Seq(Textures'), assigned : [Pass -> Seq(Nat)],
           color : Seq(Nat), depth : Seq(Nat), input : Seq(Nat)]
    BY <1>2 DEF AttachmentsOK
  <1>5. \A s, purpose : Lists(s, purpose) =>
           \A i \in Elements(s) : /\ i \in 1..Len(attachments'.views)
                                  /\ resources'[attachments'.views[i]].purpose = purpose
    BY <1>3 DEF Lists
  <1>6. /\ Lists(attachments.color, "ColorAttachment")'
        /\ Lists(attachments.depth, "DepthAttachment")'
        /\ Lists(attachments.input, "InputAttachment")'
    <2>1. /\ \A i \in Elements(attachments.color) :
                 /\ i \in 1..Len(attachments'.views)
                 /\ resources'[attachments'.views[i]].purpose = "ColorAttachment"
          /\ \A i \in Elements(attachments.depth) :
                 /\ i \in 1..Len(attachments'.views)
                 /\ resources'[attachments'.views[i]].purpose = "DepthAttachment"
          /\ \A i \in Elements(attachments.input) :
                 /\ i \in 1..Len(attachments'.views)
                 /\ resources'[attachments'.views[i]].purpose = "InputAttachment"
      BY <1>5 DEF AttachmentsOK
    <2>. QED
      BY <2>1 DEF Lists
  <1>7. \A i \in 1..Len(attachments'.views) :
           attachments'.images[i] = resources'[attachments'.views[i]].subjacent
    BY <1>3 DEF AttachmentsOK
  <1>8. \A p \in Pass : \A i \in Elements(attachments'.assigned[p]) :
           /\ i \in 1..Len(attachments'.views)
           /\ attachments'.views[i] \in Elements(references'[p])
    BY DEF AttachmentsOK, ReferencesGrow
  <1>9. \A i \in 1..Len(attachments'.views) :
           resources'[attachments'.views[i]].purpose \in AttachmentPurpose
    BY <1>3 DEF AttachmentsOK
  <1>. QED
    BY <1>4, <1>6, <1>7, <1>8, <1>9 DEF AttachmentsOK, Elements

\* The lists of attachments and what the views in them are for.
PurposeOf == [color |-> "ColorAttachment", depth |-> "DepthAttachment",
              input |-> "InputAttachment"]

\* A view that is referenced may be attached with its image.
LEMMA AttachedOK ==
    ASSUME ResourcesOK, AttachmentsOK, SameOrMore, ReferencesGrow,
           NEW p \in Pass, NEW image \in Textures', NEW view \in Views',
           NEW list \in {"color", "depth", "input"},
           view \in Elements(references'[p]),
           image = resources'[view].subjacent,
           resources'[view].purpose = PurposeOf[list],
           attachments' = Attached(list, p, image, view)
    PROVE  AttachmentsOK'
  <1>. DEFINE n == Len(attachments.views)
              known == \E i \in 1..n : attachments.views[i] = view
              index == IF known
                       THEN CHOOSE i \in 1..n : attachments.views[i] = view
                       ELSE n + 1
              views == IF known THEN attachments.views ELSE Append(attachments.views, view)
              images == IF known THEN attachments.images ELSE Append(attachments.images, image)
              assigned == [attachments.assigned EXCEPT ![p] = Append(@, index)]
  <1>1. Views \subseteq Views' /\ Textures \subseteq Textures'
    BY SameOrMoreFacts
  <1>2. /\ attachments.views \in Seq(Views') /\ attachments.images \in Seq(Textures')
        /\ attachments.views \in Seq(Views)
        /\ attachments.assigned \in [Pass -> Seq(Nat)]
        /\ attachments.color \in Seq(Nat) /\ attachments.depth \in Seq(Nat)
        /\ attachments.input \in Seq(Nat)
        /\ n \in Nat
    BY <1>1, SeqMonotonic, LenProperties DEF AttachmentsOK
  <1>3. index \in Nat /\ index \in 1..Len(views) /\ views[index] = view
    <2>1. CASE known
      <3>1. index \in 1..n /\ attachments.views[index] = view
        BY <2>1
      <3>2. views = attachments.views
        BY <2>1
      <3>. HIDE DEF index, views, known
      <3>. QED
        BY <1>2, <3>1, <3>2
    <2>2. CASE ~ known
      <3>1. index = n + 1 /\ views = Append(attachments.views, view)
        BY <2>2
      <3>2. Len(views) = n + 1 /\ views[n + 1] = view
        BY <1>2, <3>1, AppendFacts
      <3>. QED
        BY <1>2, <3>1, <3>2
    <2>. QED
      BY <2>1, <2>2
  <1>. HIDE DEF index
  <1>4. /\ views \in Seq(Views') /\ images \in Seq(Textures')
        /\ Len(images) = Len(views) /\ 1..n \subseteq 1..Len(views)
        /\ \A i \in 1..n : views[i] = attachments.views[i] /\ images[i] = attachments.images[i]
        /\ \A i \in 1..Len(views) : i \notin 1..n =>
              ~ known /\ i = n + 1 /\ views[i] = view /\ images[i] = image
    <2>1. CASE known
      BY <1>2, <2>1 DEF AttachmentsOK
    <2>2. CASE ~ known
      <3>1. views = Append(attachments.views, view) /\ images = Append(attachments.images, image)
        BY <2>2
      <3>2. /\ views \in Seq(Views') /\ Len(views) = n + 1 /\ views[n + 1] = view
            /\ \A i \in 1..n : views[i] = attachments.views[i]
        BY <1>2, <3>1, AppendFacts
      <3>3. Len(attachments.images) = n
        BY DEF AttachmentsOK
      <3>4. /\ images \in Seq(Textures') /\ Len(images) = n + 1 /\ images[n + 1] = image
            /\ \A i \in 1..n : images[i] = attachments.images[i]
        BY <1>2, <3>1, <3>3, AppendFacts
      <3>. HIDE DEF views, images, known
      <3>. QED
        BY <1>2, <2>2, <3>2, <3>4
    <2>. QED
      BY <2>1, <2>2
  <1>5. /\ assigned \in [Pass -> Seq(Nat)]
        /\ Elements(assigned[p]) = Elements(attachments.assigned[p]) \cup {index}
        /\ \A q \in Pass : q # p => assigned[q] = attachments.assigned[q]
    <2>1. /\ Append(attachments.assigned[p], index) \in Seq(Nat)
          /\ Elements(Append(attachments.assigned[p], index))
                = Elements(attachments.assigned[p]) \cup {index}
      <3>1. index \in Nat /\ attachments.assigned[p] \in Seq(Nat)
        BY <1>2, <1>3
      <3>. QED
        BY <3>1, AppendFacts
    <2>. QED
      BY <1>2, <2>1
  <1>6. /\ Append(attachments.color, index) \in Seq(Nat)
        /\ Append(attachments.depth, index) \in Seq(Nat)
        /\ Append(attachments.input, index) \in Seq(Nat)
        /\ Elements(Append(attachments.color, index)) = Elements(attachments.color) \cup {index}
        /\ Elements(Append(attachments.depth, index)) = Elements(attachments.depth) \cup {index}
        /\ Elements(Append(attachments.input, index)) = Elements(attachments.input) \cup {index}
    <2>1. index \in Nat
      BY <1>3
    <2>2. /\ attachments.color \in Seq(Nat) /\ attachments.depth \in Seq(Nat)
          /\ attachments.input \in Seq(Nat)
      BY <1>2
    <2>3. \A t \in Seq(Nat) : /\ Append(t, index) \in Seq(Nat)
                              /\ Elements(Append(t, index)) = Elements(t) \cup {index}
      BY <2>1, AppendFacts
    <2>. QED
      BY <2>2, <2>3
  <1>7. LET added == [attachments EXCEPT !.views = views, !.images = images,
                                         !.assigned[p] = Append(@, index)]
        IN  attachments' = [added EXCEPT ![list] = Append(@, index)]
    BY DEF Attached, index
  <1>8. known \/ \A i \in 1..n : attachments.views[i] # view
    OBVIOUS
  <1>. HIDE DEF known, index, views, images
  <1>9. /\ attachments' \in
             [views : Seq(Views'), images : Seq(Textures'), assigned : [Pass -> Seq(Nat)],
              color : Seq(Nat), depth : Seq(Nat), input : Seq(Nat)]
        /\ attachments'.views = views /\ attachments'.images = images
        /\ attachments'.assigned = assigned
        /\ attachments'.color = IF list = "color" THEN Append(attachments.color, index)
                                ELSE attachments.color
        /\ attachments'.depth = IF list = "depth" THEN Append(attachments.depth, index)
                                ELSE attachments.depth
        /\ attachments'.input = IF list = "input" THEN Append(attachments.input, index)
                                ELSE attachments.input
    <2>1. CASE list = "color"
      BY <1>2, <1>4, <1>5, <1>6, <1>7, <2>1 DEF AttachmentsOK
    <2>2. CASE list = "depth"
      BY <1>2, <1>4, <1>5, <1>6, <1>7, <2>2 DEF AttachmentsOK
    <2>3. CASE list = "input"
      BY <1>2, <1>4, <1>5, <1>6, <1>7, <2>3 DEF AttachmentsOK
    <2>. QED
      BY <2>1, <2>2, <2>3
  <1>. HIDE DEF assigned
  <1>10. \A i \in 1..n :
            LET v == attachments.views[i]
            IN  /\ resources'[v].purpose = resources[v].purpose
                /\ resources'[v].subjacent = resources[v].subjacent
    <2>. TAKE i \in 1..n
    <2>1. attachments.views[i] \in Views
      BY <1>2, ElementOfSeq
    <2>. QED
      BY <2>1, SameOrMoreFacts DEF Kept, Views
  <1>11. \A i, j \in 1..Len(views) : views[i] = views[j] => i = j
    BY <1>4, <1>8 DEF AttachmentsOK
  <1>12. \A i \in 1..Len(views) : images[i] = resources'[views[i]].subjacent
    <2>1. \A i \in 1..n : images[i] = resources'[views[i]].subjacent
      BY <1>4, <1>10 DEF AttachmentsOK
    <2>2. \A i \in 1..Len(views) : i \notin 1..n => images[i] = resources'[views[i]].subjacent
      BY <1>4
    <2>. QED
      BY <2>1, <2>2
  <1>13. ASSUME NEW q \in Pass, NEW i \in Elements(assigned[q])
         PROVE  i \in 1..Len(views) /\ views[i] \in Elements(references'[q])
    <2>1. CASE i \in Elements(attachments.assigned[q])
      BY <1>4, <2>1 DEF AttachmentsOK, ReferencesGrow
    <2>2. CASE q = p /\ i = index
      BY <1>3, <2>2
    <2>. QED
      BY <1>5, <1>13, <2>1, <2>2
  <1>14. \A s, purpose : Lists(s, purpose) =>
            \A i \in Elements(s) : i \in 1..Len(views) /\ resources'[views[i]].purpose = purpose
    BY <1>4, <1>10 DEF Lists
  <1>15. index \in 1..Len(views) /\ resources'[views[index]].purpose = PurposeOf[list]
    BY <1>3
  <1>16. /\ \A i \in Elements(attachments'.color) :
               i \in 1..Len(views) /\ resources'[views[i]].purpose = "ColorAttachment"
         /\ \A i \in Elements(attachments'.depth) :
               i \in 1..Len(views) /\ resources'[views[i]].purpose = "DepthAttachment"
         /\ \A i \in Elements(attachments'.input) :
               i \in 1..Len(views) /\ resources'[views[i]].purpose = "InputAttachment"
    BY <1>6, <1>9, <1>14, <1>15 DEF AttachmentsOK, PurposeOf
  <1>17. /\ Lists(attachments.color, "ColorAttachment")'
         /\ Lists(attachments.depth, "DepthAttachment")'
         /\ Lists(attachments.input, "InputAttachment")'
    BY <1>9, <1>16 DEF Lists
  <1>18. \A q \in Pass : \A i \in Elements(attachments'.assigned[q]) :
            /\ i \in 1..Len(attachments'.views)
            /\ attachments'.views[i] \in Elements(references'[q])
    BY <1>9, <1>13
  <1>19. \A i \in 1..Len(attachments'.views) :
            resources'[attachments'.views[i]].purpose \in AttachmentPurpose
    <2>1. PurposeOf[list] \in AttachmentPurpose
      BY DEF PurposeOf, AttachmentPurpose
    <2>2. \A i \in 1..n : resources'[views[i]].purpose \in AttachmentPurpose
      <3>. TAKE i \in 1..n
      <3>1. resources[attachments.views[i]].purpose \in AttachmentPurpose
        BY DEF AttachmentsOK
      <3>2. views[i] = attachments.views[i]
        BY <1>4
      <3>. QED
        BY <1>10, <3>1, <3>2
    <2>3. \A i \in 1..Len(views) : i \notin 1..n => resources'[views[i]].purpose = PurposeOf[list]
      BY <1>4
    <2>. QED
      BY <1>9, <2>1, <2>2, <2>3
  <1>. QED
    BY <1>4, <1>9, <1>11, <1>12, <1>17, <1>18, <1>19 DEF AttachmentsOK

\* A call of a setup function, or of the builder between two of them, leaves the
\* graph and the sort alone.
LEMMA BuildingStep ==
    ASSUME Inv, phase = "building", ResourcesOK', ReferencesOK', AttachmentsOK',
           UNCHANGED <<spawned, named, setup, phase, collected, adjacency, sortVars,
                       dependencies>>
    PROVE  Inv'
  <1>1. SetupOK' /\ EdgesOK'
    BY DEF Inv, SetupOK, EdgesOK, EdgesFollowSpawning, Spawned, Elements
  <1>2. collected' = {}
    BY DEF Inv, PhaseOK
  <1>3. EdgesCollected' /\ FormatsResolved'
    BY <1>2 DEF EdgesCollected, FormatsResolved
  <1>4. PhaseOK'
    BY <1>2 DEF Inv, PhaseOK, sortVars
  <1>. QED
    BY <1>1, <1>3, <1>4 DEF Inv

\* A new resource is appended, and counted where it is derived from.
LEMMA AppendedResource ==
    ASSUME SetupOK, ResourcesOK, NEW base \in Seq(Resource), Len(base) = Len(resources),
           \A r \in Ids : Kept(base[r], resources[r]),
           NEW x, Addable(x), NewId <= MaxResource, resources' = Append(base, x),
           x.kind = "TextureView" /\ x.purpose # "Undefined" =>
               UsageOf(x.purpose) \in base[x.subjacent].requested
    PROVE  /\ SameOrMore /\ NewId \in Ids' /\ resources'[NewId] = x
           /\ \A r \in Ids : resources'[r] = base[r]
           /\ \A v \in Views' \ Views : v = NewId
           /\ x.kind # "TextureView" => Views' \subseteq Views
  <1>1. Len(resources) \in Nat /\ NewId = Len(resources) + 1
    BY IdFacts
  <1>2. /\ resources' \in Seq(Resource) /\ Len(resources') = NewId
        /\ \A i \in 1..Len(resources) : resources'[i] = base[i]
        /\ resources'[NewId] = x
    BY <1>1, AppendFacts DEF Addable
  <1>3. NewId \in Ids'
    BY <1>1, <1>2 DEF Ids
  <1>4. Asked(x)
    <2>1. x.kind = "TextureView" => x.subjacent \in Ids
      BY DEF Addable, Textures
    <2>. QED
      BY <1>2, <2>1 DEF Asked, Ids
  <1>5. SameOrMore
    BY <1>2, <1>4 DEF SameOrMore, Ids
  <1>6. \A v \in Views' \ Views : v = NewId
    BY <1>5, SameOrMoreFacts DEF Views
  <1>7. ASSUME x.kind # "TextureView", NEW v \in Views' PROVE v \in Views
    BY <1>2, <1>6, <1>7 DEF Views
  <1>8. \A r \in Ids : resources'[r] = base[r]
    BY <1>2 DEF Ids
  <1>. QED
    BY <1>2, <1>3, <1>5, <1>6, <1>7, <1>8

LEMMA AddedResource ==
    ASSUME SetupOK, ResourcesOK, NEW x, Addable(x), NewId <= MaxResource,
           resources' = Append(resources, x), x.kind # "TextureView"
    PROVE  /\ SameOrMore /\ NewId \in Ids' /\ resources'[NewId] = x
           /\ \A r \in Ids : resources'[r] = resources[r]
           /\ Views' \subseteq Views
  <1>1. resources \in Seq(Resource)
    BY DEF ResourcesOK
  <1>2. \A r \in Ids : Kept(resources[r], resources[r])
    BY DEF Kept
  <1>. QED
    BY <1>1, <1>2, AppendedResource

LEMMA CreateTextureOK ==
    ASSUME Inv, NEW size \in Sizes, NEW format \in Formats, NEW permitted \in Permitted,
           NEW external \in BOOLEAN, CreateTexture(size, format, permitted, external)
    PROVE  Inv'
  <1>. DEFINE x == Texture(NewId, setup, size, format, permitted, external)
  <1>1. setup \in Spawned /\ setup \in Pass /\ MaxPass \in Nat
    BY PassFacts DEF CreateTexture, InSetup, Inv
  <1>2. Len(resources) \in Nat /\ NewId = Len(resources) + 1
    BY IdFacts DEF Inv
  <1>3. /\ x \in TextureRecord /\ x.pass = setup /\ x.kind = "Texture"
        /\ x.subjacent = NewId
    BY <1>1, <1>2, DataAssumption DEF Texture, TextureRecord
  <1>4. Addable(x)
    BY <1>1, <1>2, <1>3 DEF Addable, Resource
  <1>5. /\ NewId <= MaxResource /\ resources' = Append(resources, x)
        /\ Reference(setup, NewId) /\ attachments' = attachments
        /\ phase = "building"
    BY DEF CreateTexture, InSetup
  <1>6. SameOrMore /\ NewId \in Ids' /\ resources'[NewId] = x /\ Views' \subseteq Views
    BY <1>3, <1>4, <1>5, AddedResource DEF Inv
  <1>7. ResourcesOK'
    BY <1>6, SameOrMoreOK DEF Inv, CreateTexture
  <1>8. ReferencesOK' /\ ReferencesGrow
    <2>1. resources'[NewId].pass <= setup
      BY <1>1, <1>3, <1>6 DEF Pass
    <2>. QED
      BY <1>1, <1>5, <1>6, <2>1, ReferenceOK DEF Inv
  <1>9. AttachmentsOK'
    BY <1>5, <1>6, <1>8, SameAttachmentsOK DEF Inv
  <1>. QED
    BY <1>7, <1>8, <1>9, BuildingStep DEF CreateTexture, InSetup

LEMMA RegisterTextureOK ==
    ASSUME Inv, NEW size \in Sizes, NEW format \in Formats, NEW permitted \in Permitted,
           RegisterTexture(size, format, permitted)
    PROVE  Inv'
  <1>. DEFINE t == Texture(NewId, PseudoPass, size, format, permitted, TRUE)
              x == [t EXCEPT !.subjacent = NoResource]
  <1>1. PseudoPass \in Spawned /\ PseudoPass \in Pass /\ PseudoPass = 0
    BY PassFacts DEF Inv, PseudoPass
  <1>2. Len(resources) \in Nat /\ NewId = Len(resources) + 1
    BY IdFacts DEF Inv
  <1>3. t \in TextureRecord
    BY <1>1, <1>2, DataAssumption DEF Texture, TextureRecord
  <1>4. /\ x \in TextureRecord /\ x.pass = PseudoPass /\ x.kind = "Texture"
        /\ x.subjacent = 0
    BY <1>3 DEF Texture, TextureRecord, NoResource
  <1>. HIDE DEF x
  <1>5. Addable(x)
    BY <1>1, <1>2, <1>4 DEF Addable, Resource
  <1>6. /\ NewId <= MaxResource /\ resources' = Append(resources, x)
        /\ Reference(PseudoPass, NewId) /\ attachments' = attachments
        /\ phase = "building"
    BY DEF RegisterTexture, Idle, x
  <1>7. SameOrMore /\ NewId \in Ids' /\ resources'[NewId] = x /\ Views' \subseteq Views
    BY <1>4, <1>5, <1>6, AddedResource DEF Inv
  <1>8. ResourcesOK'
    BY <1>7, SameOrMoreOK DEF Inv, RegisterTexture
  <1>9. ReferencesOK' /\ ReferencesGrow
    <2>1. resources'[NewId].pass <= PseudoPass
      BY <1>1, <1>4, <1>7
    <2>. QED
      BY <1>1, <1>6, <1>7, <2>1, ReferenceOK DEF Inv
  <1>10. AttachmentsOK'
    BY <1>6, <1>7, <1>9, SameAttachmentsOK DEF Inv
  <1>. QED
    BY <1>8, <1>9, <1>10, BuildingStep DEF RegisterTexture, Idle

LEMMA RegisterOpaqueOK ==
    ASSUME Inv, NEW call, NEW kind \in {"RenderableList", "Mesh", "Material"},
           NEW p \in Spawned, NEW external \in BOOLEAN,
           RegisterOpaque(call, kind, p, external)
    PROVE  Inv'
  <1>. DEFINE x == Opaque(kind, p, external)
  <1>1. p \in Pass
    BY PassFacts DEF Inv
  <1>2. Len(resources) \in Nat /\ NewId = Len(resources) + 1
    BY IdFacts DEF Inv
  <1>3. x \in OpaqueRecord /\ x.pass = p /\ x.kind # "TextureView" /\ x.subjacent = 0
    BY <1>1 DEF Opaque, OpaqueRecord, NoResource
  <1>4. Addable(x)
    BY <1>2, <1>3 DEF Addable, Resource
  <1>5. /\ NewId <= MaxResource /\ resources' = Append(resources, x)
        /\ references' = references /\ attachments' = attachments
        /\ phase = "building"
    BY DEF RegisterOpaque, Idle, InSetup
  <1>6. SameOrMore /\ Views' \subseteq Views
    BY <1>3, <1>4, <1>5, AddedResource DEF Inv
  <1>7. ResourcesOK'
    BY <1>6, SameOrMoreOK DEF Inv, RegisterOpaque
  <1>8. ReferencesOK' /\ AttachmentsOK'
    BY <1>5, <1>6, SameReferencesOK, SameAttachmentsOK DEF Inv
  <1>. QED
    BY <1>5, <1>7, <1>8, BuildingStep DEF RegisterOpaque

\* Of some numbers one is the smallest.
LEMMA SmallestExists ==
    ASSUME NEW S \in SUBSET Nat, S # {}
    PROVE  \E v \in S : \A w \in S : v <= w
  <1>1. PICK v \in S : \A w \in S : <<w, v>> \notin OpToRel(<, Nat)
    BY NatLessThanWellFounded, WFMin, Zenon
  <1>2. \A w \in S : ~ (w < v)
    BY <1>1 DEF OpToRel
  <1>. QED
    BY <1>2

\* The view a request is answered with is one of those it can be answered with.
LEMMA OldestFacts ==
    ASSUME ResourcesOK, NEW source, NEW format, NEW purpose, NEW range, NEW mode,
           Duplicates(source, format, purpose, range, mode) # {}
    PROVE  LET twins == Duplicates(source, format, purpose, range, mode)
           IN  Oldest(twins) \in twins /\ twins \subseteq Views
  <1>. DEFINE twins == Duplicates(source, format, purpose, range, mode)
  <1>1. twins \subseteq Views /\ twins \subseteq Nat
    BY IdFacts DEF Duplicates
  <1>2. \E v \in twins : \A w \in twins : v <= w
    BY <1>1, SmallestExists
  <1>. QED
    BY <1>1, <1>2 DEF Oldest

\* What a request for a view is about is a texture, and the slices it means are a range.
LEMMA SourceFacts ==
    ASSUME ResourcesOK, NEW source \in Textures \cup Views,
           NEW range \in [offset : Nat, length : Nat]
    PROVE  /\ source \in Ids
           /\ Subjacent(source) \in Textures
           /\ Adjusted(source, range) \in [offset : Nat, length : Nat]
  <1>1. source \in Ids
    BY IdFacts
  <1>2. CASE source \in Textures
    BY <1>1, <1>2 DEF Subjacent, Adjusted, Textures
  <1>3. CASE source \in Views
    <2>1. /\ resources[source].kind = "TextureView"
          /\ resources[source].range \in [offset : Nat, length : Nat]
      BY <1>3, IdFacts DEF Views, ViewRecord
    <2>2. /\ resources[source].subjacent \in 1..(source - 1)
          /\ resources[resources[source].subjacent].kind = "Texture"
      BY <1>1, <2>1 DEF ResourcesOK, Derived
    <2>3. resources[source].subjacent \in Ids
      BY <1>1, <2>2, IdFacts DEF Ids
    <2>4. Subjacent(source) \in Textures
      BY <2>1, <2>2, <2>3 DEF Subjacent, Textures
    <2>5. Adjusted(source, range) \in [offset : Nat, length : Nat]
      BY <2>1 DEF Adjusted
    <2>. QED
      BY <1>1, <2>4, <2>5
  <1>. QED
    BY <1>2, <1>3

\* One resource is counted once more.
CountedAt(counted) ==
    \A r \in Ids : resources'[r].referenceCount =
        IF r = counted THEN resources[r].referenceCount + 1 ELSE resources[r].referenceCount

\* Counting a texture and asking it for a usage leaves the rest of it alone.
LEMMA CountedTexture ==
    ASSUME NEW t \in TextureRecord, NEW usage \in SUBSET Usages
    PROVE  LET counted == [t EXCEPT !.referenceCount = @ + 1, !.requested = @ \cup usage]
           IN  /\ counted \in TextureRecord /\ Kept(counted, t)
               /\ counted.requested = t.requested \cup usage
               /\ counted.referenceCount = t.referenceCount + 1
  <1>1. /\ t.referenceCount + 1 \in Nat /\ t.requested \cup usage \in SUBSET Usages
    BY DEF TextureRecord
  <1>2. [t EXCEPT !.referenceCount = @ + 1] \in TextureRecord
    BY <1>1 DEF TextureRecord
  <1>. QED
    BY <1>1, <1>2 DEF TextureRecord, Kept

\* A new view is added, counted and asked of its texture.
LEMMA SpawnedView ==
    ASSUME SetupOK, ResourcesOK, NewId <= MaxResource, setup # NoPass,
           NEW source \in Textures \cup Views, NEW usage \in SUBSET Usages,
           NEW range \in [offset : Nat, length : Nat], NEW format \in AnyFormat,
           NEW purpose \in Purpose, NEW mode \in Mode,
           purpose # "Undefined" => UsageOf(purpose) \in usage /\ mode \in AccessMode,
           SpawnView(Subjacent(source), usage,
                     View(setup, source, Subjacent(source), range, format, purpose, mode))
    PROVE  /\ SameOrMore /\ NewId \in Ids' /\ NewId \in Views'
           /\ \A v \in Views' \ Views : v = NewId
           /\ resources'[NewId].pass = setup
           /\ resources'[NewId].purpose = purpose
           /\ resources'[NewId].subjacent = Subjacent(source)
           /\ resources'[NewId].referenceCount = 1
           /\ CountedAt(Subjacent(source))
  <1>. DEFINE t == Subjacent(source)
              x == View(setup, source, t, range, format, purpose, mode)
              counted == [resources[t] EXCEPT !.referenceCount = @ + 1,
                                              !.requested = @ \cup usage]
              base == [resources EXCEPT ![t] = counted]
  <1>1. setup \in Spawned /\ setup \in Pass /\ \A p \in Spawned : p <= setup
    BY PassFacts
  <1>2. /\ Len(resources) \in Nat /\ NewId = Len(resources) + 1
        /\ source \in Ids /\ t \in Textures /\ t \in Ids
        /\ t \in Nat /\ source \in Nat /\ t <= NewId
    BY IdFacts, SourceFacts DEF Ids
  <1>3. resources[t] \in TextureRecord
    BY <1>2, IdFacts
  <1>. HIDE DEF t
  <1>4. /\ x \in ViewRecord /\ x.kind = "TextureView" /\ x.pass = setup
        /\ x.parent = source /\ x.subjacent = t /\ x.purpose = purpose /\ x.mode = mode
        /\ x.referenceCount = 1
    BY <1>1, <1>2 DEF View, ViewRecord
  <1>. HIDE DEF x
  <1>5. /\ counted \in TextureRecord /\ Kept(counted, resources[t])
        /\ counted.requested = resources[t].requested \cup usage
        /\ counted.referenceCount = resources[t].referenceCount + 1
    BY <1>3, CountedTexture
  <1>. HIDE DEF counted
  <1>6. /\ base \in Seq(Resource) /\ Len(base) = Len(resources)
        /\ \A i \in Ids : base[i] = IF i = t THEN counted ELSE resources[i]
    BY <1>2, <1>5, ExceptSeq DEF ResourcesOK, Resource, Ids
  <1>7. /\ \A r \in Ids : Kept(base[r], resources[r])
        /\ purpose # "Undefined" => UsageOf(purpose) \in base[t].requested
    <2>1. \A r \in Ids : Kept(resources[r], resources[r])
      BY DEF Kept
    <2>. QED
      BY <1>2, <1>5, <1>6, <2>1
  <1>8. Addable(x)
    <2>1. resources[source].pass \in Spawned
      BY <1>2 DEF ResourcesOK
    <2>. QED
      BY <1>1, <1>2, <1>4, <2>1 DEF Addable, Resource, t
  <1>9. resources' = Append(base, x)
    BY DEF SpawnView, base, counted, t, x
  <1>. HIDE DEF base
  <1>10. /\ SameOrMore /\ NewId \in Ids' /\ resources'[NewId] = x
         /\ \A v \in Views' \ Views : v = NewId
         /\ \A r \in Ids : resources'[r] = base[r]
    BY <1>4, <1>6, <1>7, <1>8, <1>9, AppendedResource
  <1>11. \A r \in {NewId} : r \in Views'
    BY <1>4, <1>10 DEF Views
  <1>12. CountedAt(t)
    BY <1>5, <1>6, <1>10 DEF CountedAt
  <1>. QED
    BY <1>4, <1>10, <1>11, <1>12 DEF t

\* An equal view that is found is shared.
LEMMA SharedView ==
    ASSUME SetupOK, ResourcesOK, NEW view \in Views,
           resources' = [resources EXCEPT ![view].referenceCount = @ + 1]
    PROVE  /\ SameOrMore /\ view \in Ids' /\ view \in Views' /\ Views' \subseteq Views
           /\ resources'[view].pass = resources[view].pass
           /\ resources'[view].purpose = resources[view].purpose
           /\ resources'[view].subjacent = resources[view].subjacent
           /\ Len(resources') = Len(resources) /\ CountedAt(view)
  <1>. DEFINE counted == [resources[view] EXCEPT !.referenceCount = @ + 1]
  <1>1. view \in Ids /\ resources[view] \in ViewRecord /\ Len(resources) \in Nat
    BY IdFacts
  <1>2. /\ counted \in ViewRecord /\ Kept(counted, resources[view])
        /\ counted.referenceCount = resources[view].referenceCount + 1
    BY <1>1 DEF ViewRecord, Kept
  <1>3. resources' = [resources EXCEPT ![view] = counted]
    OBVIOUS
  <1>. HIDE DEF counted
  <1>4. /\ resources' \in Seq(Resource) /\ Len(resources') = Len(resources)
        /\ \A i \in Ids : resources'[i] = IF i = view THEN counted ELSE resources[i]
    <2>1. counted \in Resource /\ resources \in Seq(Resource)
      BY <1>2 DEF Resource, ResourcesOK
    <2>. QED
      BY <1>1, <1>3, <2>1, ExceptSeq DEF Ids
  <1>5. SameOrMore
    <2>1. \A r \in Ids : Kept(resources[r], resources[r])
      BY DEF Kept
    <2>. QED
      BY <1>2, <1>4, <2>1 DEF SameOrMore, ResourcesOK, Ids
  <1>6. Ids' = Ids
    BY <1>4 DEF Ids
  <1>7. /\ view \in Ids' /\ view \in Views' /\ Views' \subseteq Views
        /\ Kept(resources'[view], resources[view])
    BY <1>1, <1>5, <1>6, SameOrMoreFacts DEF Views
  <1>8. resources[view].kind = "TextureView"
    BY DEF Views
  <1>9. Len(resources') = Len(resources) /\ CountedAt(view)
    BY <1>2, <1>4 DEF CountedAt
  <1>. QED
    BY <1>5, <1>7, <1>8, <1>9 DEF Kept

LEMMA UseTextureOK ==
    ASSUME Inv, NEW source \in Textures \cup Views, NEW format \in Requested,
           NEW range \in Ranges, NEW mode \in AccessMode, NEW call,
           NEW purpose \in Purpose \ {"Undefined"},
           call = "writeColor" => purpose = PurposeOf["color"],
           call = "writeDepth" => purpose = PurposeOf["depth"],
           call = "readAttachment" => purpose = PurposeOf["input"],
           UseTexture(call, source, purpose, format, range, mode)
    PROVE  Inv'
  <1>. DEFINE adjusted == Adjusted(source, range)
              t == Subjacent(source)
              twins == Duplicates(source, format, purpose, adjusted, mode)
              view == IF twins = {} THEN NewId ELSE Oldest(twins)
  <1>1. /\ setup # NoPass /\ phase = "building"
        /\ setup \in Spawned /\ setup \in Pass /\ setup \in Nat
        /\ \A p \in Spawned : p <= setup
    BY PassFacts DEF UseTexture, InSetup, Inv, Pass
  <1>2. adjusted \in [offset : Nat, length : Nat] /\ t \in Textures
    BY DataAssumption, SourceFacts DEF Inv
  <1>3. format \in AnyFormat /\ purpose \in Purpose /\ UsageOf(purpose) \in Usages
    <2>1. purpose \in {"InputAttachment", "ColorAttachment", "DepthAttachment", "ShaderInput"}
      BY DEF Purpose
    <2>. QED
      BY <2>1 DEF AnyFormat, Usages, UsageOf, Purpose
  <1>4. Reference(setup, view)
    BY DEF UseTexture
  <1>5. /\ SameOrMore /\ view \in Ids' /\ view \in Views'
        /\ resources'[view].pass \in Spawned
        /\ resources'[view].purpose = purpose /\ resources'[view].subjacent = t
        /\ \A v \in Views' \ Views : v = view /\ resources'[v].pass = setup
    <2>1. CASE twins # {} /\ resources' = [resources EXCEPT ![view].referenceCount = @ + 1]
      <3>1. Oldest(twins) \in twins /\ twins \subseteq Views
        BY <2>1, OldestFacts DEF Inv
      <3>2. /\ view \in Views /\ resources[view].purpose = purpose
            /\ resources[view].subjacent = t
        BY <2>1, <3>1 DEF Duplicates
      <3>3. resources[view].pass \in Spawned /\ view \in Ids
        BY <3>2, IdFacts DEF Inv, ResourcesOK
      <3>. HIDE DEF view
      <3>4. /\ SameOrMore /\ view \in Ids' /\ view \in Views' /\ Views' \subseteq Views
            /\ resources'[view].pass = resources[view].pass
            /\ resources'[view].purpose = resources[view].purpose
            /\ resources'[view].subjacent = resources[view].subjacent
        BY <2>1, <3>2, SharedView DEF Inv
      <3>. QED
        BY <3>2, <3>3, <3>4
    <2>2. CASE /\ twins = {} /\ NewId <= MaxResource
               /\ SpawnView(t, {UsageOf(purpose)},
                            View(setup, source, t, adjusted, format, purpose, mode))
      <3>1. {UsageOf(purpose)} \in SUBSET Usages /\ mode \in Mode
        BY <1>3 DEF Mode, AccessMode
      <3>2. /\ SameOrMore /\ NewId \in Ids' /\ NewId \in Views'
            /\ \A v \in Views' \ Views : v = NewId
            /\ resources'[NewId].pass = setup
            /\ resources'[NewId].purpose = purpose /\ resources'[NewId].subjacent = t
        BY <1>1, <1>2, <1>3, <2>2, <3>1, SpawnedView DEF Inv
      <3>3. view = NewId
        BY <2>2
      <3>. HIDE DEF view, t
      <3>. QED
        BY <1>1, <3>2, <3>3
    <2>. QED
      BY <2>1, <2>2 DEF UseTexture
  <1>. HIDE DEF view
  <1>6. ResourcesOK'
    BY <1>5, SameOrMoreOK DEF Inv, UseTexture
  <1>7. ReferencesOK' /\ ReferencesGrow /\ view \in Elements(references'[setup])
    BY <1>1, <1>4, <1>5, ReferenceOK DEF Inv
  <1>8. AttachmentsOK'
    <2>1. t \in Textures'
      BY <1>2, <1>5, SameOrMoreFacts DEF Inv
    <2>2. \/ attachments' = attachments
          \/ \E list \in {"color", "depth", "input"} :
                /\ attachments' = Attached(list, setup, t, view)
                /\ purpose = PurposeOf[list]
      BY DEF UseTexture, view
    <2>. HIDE DEF t
    <2>. QED
      BY <1>1, <1>5, <1>7, <2>1, <2>2, AttachedOK, SameAttachmentsOK DEF Inv
  <1>. QED
    BY <1>1, <1>6, <1>7, <1>8, BuildingStep DEF UseTexture

LEMMA PassOnOK ==
    ASSUME Inv, NEW source \in Textures \cup Views, NEW format \in AnyFormat,
           NEW range \in [offset : Nat, length : Nat], NEW mode \in Mode, NEW call,
           PassOn(call, source, format, range, mode)
    PROVE  Inv'
  <1>. DEFINE adjusted == Adjusted(source, range)
              t == Subjacent(source)
  <1>1. /\ setup # NoPass /\ phase = "building" /\ NewId <= MaxResource
        /\ setup \in Pass /\ setup \in Nat
    BY PassFacts DEF PassOn, InSetup, Inv, Pass
  <1>2. adjusted \in [offset : Nat, length : Nat]
    BY SourceFacts DEF Inv
  <1>3. /\ Reference(setup, NewId) /\ attachments' = attachments
        /\ SpawnView(t, {}, View(setup, source, t, adjusted, format, "Undefined", mode))
    BY DEF PassOn
  <1>4. /\ SameOrMore /\ NewId \in Ids' /\ resources'[NewId].pass = setup
        /\ \A v \in Views' \ Views : v = NewId
    <2>1. {} \in SUBSET Usages /\ "Undefined" \in Purpose
      BY DEF Purpose
    <2>. QED
      BY <1>1, <1>2, <1>3, <2>1, SpawnedView DEF Inv
  <1>5. ResourcesOK'
    BY <1>4, SameOrMoreOK DEF Inv, PassOn
  <1>6. ReferencesOK' /\ ReferencesGrow
    BY <1>1, <1>3, <1>4, ReferenceOK DEF Inv
  <1>7. AttachmentsOK'
    BY <1>3, <1>4, <1>6, SameAttachmentsOK DEF Inv
  <1>. QED
    BY <1>1, <1>5, <1>6, <1>7, BuildingStep DEF PassOn

\* Whatever a setup function or the builder is asked for between two of them.
LEMMA ViewCallsOK ==
    ASSUME Inv, NEW source \in Textures \cup Views, NEW format \in Requested,
           NEW range \in Ranges
    PROVE  /\ WriteColor(source, format, range) => Inv'
           /\ WriteDepth(source, format, range) => Inv'
           /\ ReadAttachment(source, format, range) => Inv'
           /\ ReadTexture(source, format, range) => Inv'
           /\ ForwardTexture(source, format, range) => Inv'
  <1>1. WriteColor(source, format, range) => Inv'
    BY UseTextureOK DEF WriteColor, PurposeOf, Purpose, AccessMode
  <1>2. WriteDepth(source, format, range) => Inv'
    BY UseTextureOK DEF WriteDepth, PurposeOf, Purpose, AccessMode
  <1>3. ReadAttachment(source, format, range) => Inv'
    BY UseTextureOK DEF ReadAttachment, PurposeOf, Purpose, AccessMode
  <1>4. ReadTexture(source, format, range) => Inv'
    BY UseTextureOK DEF ReadTexture, PurposeOf, Purpose, AccessMode
  <1>5. ForwardTexture(source, format, range) => Inv'
    BY PassOnOK, DataAssumption DEF ForwardTexture, AnyFormat, Mode
  <1>. QED
    BY <1>1, <1>2, <1>3, <1>4, <1>5

LEMMA AcceptTextureOK ==
    ASSUME Inv, NEW source \in Views, AcceptTexture(source)
    PROVE  Inv'
  <1>1. resources[source] \in ViewRecord
    BY IdFacts DEF Inv
  <1>2. /\ resources[source].format \in AnyFormat
        /\ resources[source].range \in [offset : Nat, length : Nat]
    BY <1>1 DEF ViewRecord
  <1>. QED
    BY <1>2, PassOnOK DEF AcceptTexture, Mode

LEMMA OpaqueCallsOK ==
    ASSUME Inv
    PROVE  /\ RegisterRenderables => Inv'
           /\ UseMesh => Inv'
           /\ UseMaterial => Inv'
  <1>1. PseudoPass \in Spawned /\ (setup # NoPass => setup \in Spawned)
    BY PassFacts DEF Inv
  <1>2. RegisterRenderables => Inv'
    BY <1>1, RegisterOpaqueOK DEF RegisterRenderables
  <1>3. UseMesh => Inv'
    <2>. SUFFICES ASSUME UseMesh PROVE Inv'
      OBVIOUS
    <2>1. setup # NoPass
      BY DEF UseMesh, RegisterOpaque, InSetup
    <2>. QED
      BY <1>1, <2>1, RegisterOpaqueOK DEF UseMesh
  <1>4. UseMaterial => Inv'
    <2>. SUFFICES ASSUME UseMaterial PROVE Inv'
      OBVIOUS
    <2>1. setup # NoPass
      BY DEF UseMaterial, RegisterOpaque, InSetup
    <2>. QED
      BY <1>1, <2>1, RegisterOpaqueOK DEF UseMaterial
  <1>. QED
    BY <1>2, <1>3, <1>4

-----------------------------------------------------------------------------
(***************************************************************************)
(* Passes, edges and the initial state.                                    *)
(***************************************************************************)

LEMMA InitOK == Init => Inv
  <1>. SUFFICES ASSUME Init PROVE Inv
    OBVIOUS
  <1>1. /\ spawned = 1 /\ named = {PseudoPass} /\ setup = NoPass /\ phase = "building"
        /\ resources = <<>> /\ references = [p \in Pass |-> <<>>]
        /\ attachments = NoAttachments /\ collected = {} /\ adjacency = <<>>
        /\ pending = {} /\ frames = <<>> /\ visited = {} /\ order = <<>>
    BY DEF Init
  <1>2. SetupOK
    BY <1>1, BoundsAssumption DEF SetupOK, Spawned, PseudoPass
  <1>3. Len(resources) = 0 /\ Ids = {} /\ Views = {} /\ Textures = {}
    BY <1>1, EmptySeq DEF Ids, Views, Textures
  <1>4. ResourcesOK
    BY <1>1, <1>3, BoundsAssumption, EmptySeq DEF ResourcesOK
  <1>5. ReferencesOK
    BY <1>1, <1>3, EmptySeq, ElementsFacts DEF ReferencesOK
  <1>6. AttachmentsOK
    <2>1. /\ attachments.views = <<>> /\ attachments.images = <<>>
          /\ attachments.assigned = [p \in Pass |-> <<>>]
          /\ attachments.color = <<>> /\ attachments.depth = <<>> /\ attachments.input = <<>>
          /\ Len(<<>>) = 0
      BY <1>1, EmptySeq DEF NoAttachments
    <2>2. attachments \in
             [views : Seq(Views), images : Seq(Textures), assigned : [Pass -> Seq(Nat)],
              color : Seq(Nat), depth : Seq(Nat), input : Seq(Nat)]
      BY <1>1, EmptySeq DEF NoAttachments
    <2>. QED
      BY <2>1, <2>2, ElementsFacts DEF AttachmentsOK, Lists
  <1>7. EdgesOK
    <2>1. DOMAIN adjacency = {}
      BY <1>1
    <2>. QED
      BY <1>1, <2>1 DEF EdgesOK, EdgesFollowSpawning
  <1>8. EdgesCollected /\ FormatsResolved /\ PhaseOK
    BY <1>1 DEF EdgesCollected, FormatsResolved, PhaseOK
  <1>. QED
    BY <1>2, <1>4, <1>5, <1>6, <1>7, <1>8 DEF Inv

\* Of the graph, only the passes and the edges change.
LEMMA SameGraph ==
    ASSUME Inv, UNCHANGED setupVars, Spawned \subseteq Spawned'
    PROVE  ResourcesOK' /\ ReferencesOK' /\ AttachmentsOK'
  <1>1. /\ resources' = resources /\ references' = references /\ attachments' = attachments
    BY DEF setupVars
  <1>2. /\ Ids' = Ids /\ Views' = Views /\ Textures' = Textures
    BY <1>1 DEF Ids, Views, Textures
  <1>3. ResourcesOK'
    BY <1>1, <1>2 DEF Inv, ResourcesOK, Derived, Subjacent
  <1>4. ReferencesOK' /\ AttachmentsOK'
    <2>1. ReferencesOK'
      BY <1>1, <1>2 DEF Inv, ReferencesOK
    <2>2. AttachmentsOK'
      BY <1>1, <1>2 DEF Inv, AttachmentsOK, Lists
    <2>. QED
      BY <2>1, <2>2
  <1>. QED
    BY <1>3, <1>4

LEMMA SpawnPassOK ==
    ASSUME Inv, SpawnPass
    PROVE  Inv'
  <1>1. /\ phase = "building" /\ phase' = phase /\ spawned <= MaxPass
        /\ spawned' = spawned + 1 /\ setup' = spawned /\ named' = named
        /\ collected' = collected /\ adjacency' = adjacency /\ dependencies' = dependencies
        /\ pending' = pending /\ frames' = frames /\ visited' = visited /\ order' = order
    BY DEF SpawnPass, Idle, sortVars
  <1>2. Spawned \subseteq Spawned' /\ spawned \in Nat
    BY <1>1, BoundsAssumption DEF Inv, SetupOK, Spawned
  <1>3. SetupOK'
    BY <1>1, <1>2, BoundsAssumption DEF Inv, SetupOK
  <1>4. ResourcesOK' /\ ReferencesOK' /\ AttachmentsOK'
    BY <1>2, SameGraph DEF SpawnPass
  <1>5. EdgesOK'
    <2>1. \A p \in DOMAIN adjacency : adjacency[p] \in Seq(Spawned')
      BY <1>2, SeqMonotonic DEF Inv, EdgesOK
    <2>2. EdgesFollowSpawning'
      BY <1>1 DEF Inv, EdgesOK, EdgesFollowSpawning
    <2>. QED
      BY <1>1, <1>2, <2>1, <2>2 DEF Inv, EdgesOK
  <1>6. EdgesCollected' /\ FormatsResolved' /\ PhaseOK'
    BY <1>1 DEF Inv, PhaseOK, EdgesCollected, FormatsResolved
  <1>. QED
    BY <1>3, <1>4, <1>5, <1>6 DEF Inv

\* The setup function returns, or throws.
LEMMA EndSetupOK ==
    ASSUME Inv, FinishSetup \/ FailSetup
    PROVE  Inv'
  <1>1. /\ phase = "building" /\ phase' = phase /\ spawned' = spawned
        /\ setup # NoPass /\ setup' = NoPass /\ named' \subseteq named \cup {setup}
        /\ collected' = collected /\ adjacency' = adjacency /\ dependencies' = dependencies
        /\ pending' = pending /\ frames' = frames /\ visited' = visited /\ order' = order
        /\ UNCHANGED setupVars
    BY DEF FinishSetup, FailSetup, InSetup, sortVars
  <1>2. Spawned' = Spawned
    BY <1>1 DEF Spawned
  <1>3. SetupOK'
    BY <1>1, <1>2, PassFacts DEF Inv, SetupOK
  <1>4. ResourcesOK' /\ ReferencesOK' /\ AttachmentsOK'
    BY <1>1, <1>2, SameGraph
  <1>5. EdgesOK'
    BY <1>1, <1>2 DEF Inv, EdgesOK, EdgesFollowSpawning, Elements
  <1>6. EdgesCollected' /\ FormatsResolved' /\ PhaseOK'
    BY <1>1 DEF Inv, PhaseOK, EdgesCollected, FormatsResolved
  <1>. QED
    BY <1>3, <1>4, <1>5, <1>6 DEF Inv

\* Adding an edge changes the list of its source only.
LEMMA WithEdgeFacts ==
    ASSUME EdgesOK, NEW p \in Spawned, NEW q \in Spawned
    PROVE  LET edges == WithEdge(adjacency, p, q)
           IN  /\ edges = [s \in DOMAIN edges |-> edges[s]]
               /\ DOMAIN edges = DOMAIN adjacency \cup {p}
               /\ \A s \in DOMAIN edges : edges[s] \in Seq(Spawned)
               /\ \A s \in DOMAIN adjacency : s # p => edges[s] = adjacency[s]
               /\ p \in DOMAIN adjacency =>
                     Elements(edges[p]) = Elements(adjacency[p]) \cup {q}
               /\ p \notin DOMAIN adjacency => Elements(edges[p]) = {q}
  <1>. DEFINE edges == WithEdge(adjacency, p, q)
              targets == IF p \in DOMAIN adjacency THEN adjacency[p] ELSE <<>>
              extended == IF q \in Elements(targets) THEN targets ELSE Append(targets, q)
  <1>1. edges = [s \in DOMAIN adjacency \cup {p} |-> IF s = p THEN extended ELSE adjacency[s]]
    BY DEF WithEdge
  <1>2. targets \in Seq(Spawned)
    BY EmptySeq DEF EdgesOK
  <1>3. /\ p \in DOMAIN adjacency => targets = adjacency[p]
        /\ p \notin DOMAIN adjacency => Elements(targets) = {}
    BY ElementsFacts
  <1>. HIDE DEF targets
  <1>4. extended \in Seq(Spawned) /\ Elements(extended) = Elements(targets) \cup {q}
    BY <1>2, AppendFacts
  <1>. HIDE DEF extended, edges
  <1>5. /\ DOMAIN edges = DOMAIN adjacency \cup {p} /\ edges[p] = extended
        /\ edges = [s \in DOMAIN edges |-> edges[s]]
        /\ \A s \in DOMAIN adjacency : s # p => edges[s] = adjacency[s]
    BY <1>1
  <1>6. \A s \in DOMAIN edges : edges[s] \in Seq(Spawned)
    BY <1>4, <1>5 DEF EdgesOK
  <1>. QED
    BY <1>3, <1>4, <1>5, <1>6 DEF edges

LEMMA CreatePassDependencyOK ==
    ASSUME Inv, NEW p \in Pass, NEW q \in Pass, CreatePassDependency(p, q)
    PROVE  Inv'
  <1>1. /\ phase = "building" /\ phase' = phase /\ spawned' = spawned /\ setup' = setup
        /\ named' = named /\ p \in named /\ q \in named
        /\ adjacency' = WithEdge(adjacency, p, q)
        /\ dependencies' = dependencies \cup {<<p, q>>} /\ collected' = collected
        /\ pending' = pending /\ frames' = frames /\ visited' = visited /\ order' = order
        /\ UNCHANGED setupVars
    BY DEF CreatePassDependency, Idle, sortVars
  <1>2. Spawned' = Spawned /\ p \in Spawned /\ q \in Spawned
    BY <1>1 DEF Inv, SetupOK, Spawned
  <1>3. SetupOK'
    BY <1>1, <1>2 DEF Inv, SetupOK
  <1>4. ResourcesOK' /\ ReferencesOK' /\ AttachmentsOK'
    BY <1>1, <1>2, SameGraph
  <1>5. /\ adjacency' = [s \in DOMAIN adjacency' |-> adjacency'[s]]
        /\ DOMAIN adjacency' = DOMAIN adjacency \cup {p}
        /\ \A s \in DOMAIN adjacency' : adjacency'[s] \in Seq(Spawned)
        /\ \A s \in DOMAIN adjacency : s # p => adjacency'[s] = adjacency[s]
        /\ p \in DOMAIN adjacency => Elements(adjacency'[p]) = Elements(adjacency[p]) \cup {q}
        /\ p \notin DOMAIN adjacency => Elements(adjacency'[p]) = {q}
    BY <1>1, <1>2, WithEdgeFacts DEF Inv
  <1>6. EdgesFollowSpawning'
    <2>1. ASSUME NEW s \in DOMAIN adjacency', NEW r \in Elements(adjacency'[s])
          PROVE  s < r \/ <<s, r>> \in dependencies'
      BY <1>1, <1>5 DEF Inv, EdgesOK, EdgesFollowSpawning
    <2>. QED
      BY <2>1 DEF EdgesFollowSpawning
  <1>7. EdgesOK'
    BY <1>2, <1>5, <1>6 DEF Inv, EdgesOK
  <1>8. EdgesCollected' /\ FormatsResolved' /\ PhaseOK'
    BY <1>1 DEF Inv, PhaseOK, EdgesCollected, FormatsResolved
  <1>. QED
    BY <1>3, <1>4, <1>7, <1>8 DEF Inv

-----------------------------------------------------------------------------
(***************************************************************************)
(* compile.                                                                *)
(***************************************************************************)

\* What a pass depends on was spawned before it.
LEMMA SourcesFacts ==
    ASSUME SetupOK, ResourcesOK, ReferencesOK, NEW p \in Spawned
    PROVE  /\ ReferencedViews(p) \subseteq Views
           /\ \A r \in ReferencedViews(p) : resources[r].parent \in Ids
           /\ Sources(p) \subseteq Spawned
           /\ \A s \in Sources(p) : s < p
  <1>1. p \in Pass /\ p \in Nat /\ Spawned \subseteq Nat
    BY PassFacts DEF Spawned
  <1>2. ASSUME NEW r \in ReferencedViews(p)
        PROVE  /\ r \in Views /\ resources[r].parent \in Ids
               /\ resources[resources[r].parent].pass <= p
    <2>1. r \in Elements(references[p]) /\ resources[r].parent # NoResource
      BY DEF ReferencedViews
    <2>2. r \in Ids /\ resources[r].pass <= p
      BY <1>1, <2>1, ElementsFacts DEF ReferencesOK
    <2>3. resources[r].kind = "TextureView"
      <3>1. resources[r] \in Resource
        BY <2>2, IdFacts
      <3>. QED
        BY <2>1, <3>1, ResourceFields DEF TextureRecord, OpaqueRecord
    <2>4. /\ resources[r].parent \in 1..(r - 1)
          /\ resources[resources[r].parent].pass <= resources[r].pass
      BY <2>2, <2>3 DEF ResourcesOK, Derived
    <2>5. resources[r].parent \in Ids
      BY <2>2, <2>4, IdFacts DEF Ids
    <2>6. resources[resources[r].parent].pass \in Nat /\ resources[r].pass \in Nat
      BY <1>1, <2>2, <2>5 DEF ResourcesOK
    <2>. QED
      BY <1>1, <2>2, <2>3, <2>4, <2>5, <2>6 DEF Views
  <1>3. ASSUME NEW s \in Sources(p) PROVE s \in Spawned /\ s < p
    <2>1. PICK r \in ReferencedViews(p) : s = resources[resources[r].parent].pass /\ s # p
      BY DEF Sources
    <2>2. s \in Spawned /\ s <= p /\ s # p
      BY <1>2, <2>1 DEF ResourcesOK
    <2>3. s \in Nat
      BY <1>1, <2>2
    <2>. QED
      BY <1>1, <2>2, <2>3
  <1>. QED
    BY <1>2, <1>3

\* The views a pass references, and what it depends on, are told by what stays of resources.
LEMMA SourcesSame ==
    ASSUME SetupOK, ResourcesOK, ReferencesOK, references' = references,
           \A r \in Ids : Kept(resources'[r], resources[r])
    PROVE  \A p \in Spawned : /\ ReferencedViews(p)' = ReferencedViews(p)
                              /\ Sources(p)' = Sources(p)
  <1>. TAKE p \in Spawned
  <1>1. p \in Pass
    BY PassFacts
  <1>2. \A r \in Elements(references[p]) : resources'[r].parent = resources[r].parent
    BY <1>1, ElementsFacts DEF ReferencesOK, Kept
  <1>3. Elements(references[p])' = Elements(references[p])
    BY DEF Elements
  <1>4. ReferencedViews(p)' = ReferencedViews(p)
    BY <1>2, <1>3 DEF ReferencedViews
  <1>5. \A r \in ReferencedViews(p) :
           resources'[resources'[r].parent].pass = resources[resources[r].parent].pass
    <2>. TAKE r \in ReferencedViews(p)
    <2>1. r \in Elements(references[p]) /\ resources[r].parent \in Ids
      BY SourcesFacts DEF ReferencedViews
    <2>. QED
      BY <1>2, <2>1 DEF Kept
  <1>. QED
    BY <1>4, <1>5 DEF Sources

\* collectPass resolves formats and leaves the rest of the resources alone.
LEMMA CollectedResources ==
    ASSUME Inv, NEW p \in Spawned, CollectPass(p)
    PROVE  /\ SameOrMore /\ Views' \subseteq Views
           /\ \A r \in Ids : Kept(resources'[r], resources[r])
           /\ \A r \in Ids : resources'[r].referenceCount = resources[r].referenceCount
           /\ Len(resources') = Len(resources)
           /\ \A v \in ReferencedViews(p) : resources'[v].format # "Automatic"
           /\ \A v \in Views : resources[v].format # "Automatic" =>
                 resources'[v].format # "Automatic"
  <1>. DEFINE n == Len(resources)
              open(r) == r \in ReferencedViews(p) /\ resources[r].format = "Automatic"
              resolved(r) ==
                  [resources[r] EXCEPT !.format = resources[resources[r].subjacent].format]
  <1>1. n \in Nat /\ Ids = 1..n
    BY IdFacts DEF Inv, Ids
  <1>2. resources' = [r \in Ids |-> IF open(r) THEN resolved(r) ELSE resources[r]]
    BY DEF CollectPass
  <1>3. ReferencedViews(p) \subseteq Views /\ Views \subseteq Ids
    BY SourcesFacts, IdFacts DEF Inv
  <1>4. ASSUME NEW v \in Views
        PROVE  /\ resolved(v) \in ViewRecord /\ Kept(resolved(v), resources[v])
               /\ resolved(v).referenceCount = resources[v].referenceCount
               /\ resolved(v).format # "Automatic"
    <2>1. resources[v] \in ViewRecord /\ resources[v].kind = "TextureView" /\ v \in Ids
      BY IdFacts DEF Inv, Views
    <2>2. /\ resources[v].subjacent \in 1..(v - 1)
          /\ resources[resources[v].subjacent].kind = "Texture"
      BY <2>1 DEF Inv, ResourcesOK, Derived
    <2>3. resources[v].subjacent \in Textures
      BY <1>1, <2>1, <2>2 DEF Textures
    <2>4. resources[resources[v].subjacent] \in TextureRecord
      BY <2>3, IdFacts DEF Inv
    <2>5. /\ resources[resources[v].subjacent].format \in AnyFormat
          /\ resources[resources[v].subjacent].format # "Automatic"
      BY <2>4, DataAssumption DEF TextureRecord, AnyFormat, Indefinite
    <2>. QED
      BY <2>1, <2>5 DEF ViewRecord, Kept
  <1>5. \A r \in Ids : resources[r] \in Resource /\ Kept(resources[r], resources[r])
    BY IdFacts DEF Inv, Kept
  <1>. HIDE DEF resolved
  <1>6. /\ \A r \in Ids : /\ resources'[r] \in Resource
                          /\ Kept(resources'[r], resources[r])
        /\ resources' = [r \in 1..n |-> resources'[r]]
    BY <1>1, <1>2, <1>3, <1>4, <1>5 DEF Resource
  <1>7. resources' \in Seq(Resource) /\ Len(resources') = n
    <2>1. resources' \in [1..n -> Resource]
      BY <1>1, <1>6
    <2>2. resources' \in Seq(Resource)
      BY <1>1, <2>1, SeqDef
    <2>. QED
      BY <1>1, <2>1, <2>2
  <1>8. Ids' = Ids
    BY <1>7 DEF Ids
  <1>9. SameOrMore
    BY <1>1, <1>6, <1>7 DEF SameOrMore, Inv, ResourcesOK
  <1>10. Views' \subseteq Views
    BY <1>6, <1>8 DEF Views, Kept
  <1>11. \A v \in ReferencedViews(p) : resources'[v].format # "Automatic"
    BY <1>2, <1>3, <1>4
  <1>12. \A v \in Views : resources[v].format # "Automatic" => resources'[v].format # "Automatic"
    BY <1>2, <1>3
  <1>13. \A r \in Ids : resources'[r].referenceCount = resources[r].referenceCount
    BY <1>2, <1>3, <1>4
  <1>. QED
    BY <1>6, <1>7, <1>9, <1>10, <1>11, <1>12, <1>13

LEMMA CollectPassOK ==
    ASSUME Inv, NEW p \in Pass, CollectPass(p)
    PROVE  Inv'
  <1>. DEFINE edges(s) == WithEdge(adjacency, s, p)
  <1>1. /\ phase = "collecting" /\ phase' = phase /\ p \in Spawned /\ p \notin collected
        /\ collected' = collected \cup {p}
        /\ adjacency' = [s \in DOMAIN adjacency \cup Sources(p) |->
                            IF s \in Sources(p) THEN edges(s)[s] ELSE adjacency[s]]
        /\ spawned' = spawned /\ named' = named /\ setup' = setup
        /\ references' = references /\ attachments' = attachments
        /\ pending' = pending /\ frames' = frames /\ visited' = visited /\ order' = order
        /\ dependencies' = dependencies
    BY DEF CollectPass, sortVars
  <1>2. /\ SameOrMore /\ Views' \subseteq Views
        /\ \A r \in Ids : Kept(resources'[r], resources[r])
        /\ \A v \in ReferencedViews(p) : resources'[v].format # "Automatic"
        /\ \A v \in Views : resources[v].format # "Automatic" =>
              resources'[v].format # "Automatic"
    BY <1>1, CollectedResources
  <1>3. Spawned' = Spawned /\ SetupOK'
    BY <1>1 DEF Inv, SetupOK, Spawned
  <1>4. ResourcesOK'
    BY <1>1, <1>2, SameOrMoreOK DEF Inv
  <1>5. ReferencesOK' /\ ReferencesGrow
    BY <1>1, <1>2, SameReferencesOK DEF Inv
  <1>6. AttachmentsOK'
    BY <1>1, <1>2, <1>5, SameAttachmentsOK DEF Inv
  <1>7. Sources(p) \subseteq Spawned /\ \A s \in Sources(p) : s < p
    BY <1>1, SourcesFacts DEF Inv
  <1>8. ASSUME NEW s \in Sources(p)
        PROVE  /\ s \in DOMAIN adjacency' /\ adjacency'[s] \in Seq(Spawned)
               /\ s \in DOMAIN adjacency =>
                     Elements(adjacency'[s]) = Elements(adjacency[s]) \cup {p}
               /\ s \notin DOMAIN adjacency => Elements(adjacency'[s]) = {p}
    <2>1. s \in DOMAIN adjacency' /\ adjacency'[s] = edges(s)[s]
      BY <1>1
    <2>2. /\ DOMAIN edges(s) = DOMAIN adjacency \cup {s}
          /\ \A r \in DOMAIN edges(s) : edges(s)[r] \in Seq(Spawned)
          /\ s \in DOMAIN adjacency =>
                Elements(edges(s)[s]) = Elements(adjacency[s]) \cup {p}
          /\ s \notin DOMAIN adjacency => Elements(edges(s)[s]) = {p}
      BY <1>1, <1>7, WithEdgeFacts DEF Inv
    <2>. HIDE DEF edges
    <2>. QED
      BY <2>1, <2>2
  <1>. HIDE DEF edges
  <1>9. /\ DOMAIN adjacency' = DOMAIN adjacency \cup Sources(p)
        /\ adjacency' = [s \in DOMAIN adjacency' |-> adjacency'[s]]
        /\ \A s \in DOMAIN adjacency \ Sources(p) : adjacency'[s] = adjacency[s]
    BY <1>1
  <1>10. \A s \in DOMAIN adjacency' : adjacency'[s] \in Seq(Spawned)
    BY <1>8, <1>9 DEF Inv, EdgesOK
  <1>11. ASSUME NEW s \in DOMAIN adjacency', NEW r \in Elements(adjacency'[s])
         PROVE  s < r \/ <<s, r>> \in dependencies'
    <2>1. CASE s \in Sources(p) /\ r = p
      BY <1>7, <2>1
    <2>2. CASE s \in DOMAIN adjacency /\ r \in Elements(adjacency[s])
      BY <1>1, <2>2 DEF Inv, EdgesOK, EdgesFollowSpawning
    <2>3. s \in Sources(p) => r = p \/ (s \in DOMAIN adjacency /\ r \in Elements(adjacency[s]))
      <3>. SUFFICES ASSUME s \in Sources(p)
                    PROVE  r = p \/ (s \in DOMAIN adjacency /\ r \in Elements(adjacency[s]))
        OBVIOUS
      <3>1. /\ s \in DOMAIN adjacency =>
                  Elements(adjacency'[s]) = Elements(adjacency[s]) \cup {p}
            /\ s \notin DOMAIN adjacency => Elements(adjacency'[s]) = {p}
        BY <1>8
      <3>2. r \in Elements(adjacency'[s])
        BY <1>11
      <3>. QED
        BY <3>1, <3>2
    <2>4. s \notin Sources(p) => s \in DOMAIN adjacency /\ r \in Elements(adjacency[s])
      BY <1>9, <1>11
    <2>. QED
      BY <2>1, <2>2, <2>3, <2>4
  <1>12. EdgesOK'
    <2>1. EdgesFollowSpawning'
      BY <1>11 DEF EdgesFollowSpawning
    <2>. QED
      BY <1>3, <1>7, <1>9, <1>10, <2>1 DEF Inv, EdgesOK
  <1>13. /\ collected \subseteq Spawned
         /\ \A q \in Spawned : ReferencedViews(q)' = ReferencedViews(q) /\ Sources(q)' = Sources(q)
    BY <1>1, <1>2, SourcesSame DEF Inv, PhaseOK
  <1>14. EdgesCollected'
    <2>1. ASSUME NEW q \in collected', NEW s \in Sources(q)
          PROVE  s \in DOMAIN adjacency' /\ q \in Elements(adjacency'[s])
      <3>1. CASE q = p
        BY <1>8, <3>1
      <3>2. CASE q \in collected
        <4>1. s \in DOMAIN adjacency /\ q \in Elements(adjacency[s])
          BY <2>1, <3>2 DEF Inv, EdgesCollected
        <4>. QED
          BY <1>8, <1>9, <4>1
      <3>. QED
        BY <1>1, <3>1, <3>2
    <2>2. collected' \subseteq Spawned
      BY <1>1, <1>13
    <2>. QED
      BY <1>13, <2>1, <2>2 DEF EdgesCollected
  <1>15. FormatsResolved'
    <2>1. ASSUME NEW q \in collected', NEW v \in ReferencedViews(q)
          PROVE  resources'[v].format # "Automatic"
      <3>1. CASE q = p
        BY <1>2, <3>1
      <3>2. CASE q \in collected
        <4>1. resources[v].format # "Automatic"
          BY <3>2 DEF Inv, FormatsResolved
        <4>2. v \in Views
          BY <1>13, <3>2, SourcesFacts DEF Inv
        <4>. QED
          BY <1>2, <4>1, <4>2
      <3>. QED
        BY <1>1, <3>1, <3>2
    <2>2. collected' \subseteq Spawned
      BY <1>1, <1>13
    <2>. QED
      BY <1>13, <2>1, <2>2 DEF FormatsResolved
  <1>16. PhaseOK'
    BY <1>1, <1>3 DEF Inv, PhaseOK
  <1>. QED
    BY <1>3, <1>4, <1>5, <1>6, <1>12, <1>14, <1>15, <1>16 DEF Inv

\* A step that leaves passes, resources and edges alone.
LEMMA SameBuild ==
    ASSUME Inv, spawned' = spawned, named' = named, setup' = setup, UNCHANGED setupVars,
           collected' = collected, adjacency' = adjacency, dependencies' = dependencies
    PROVE  /\ SetupOK' /\ ResourcesOK' /\ ReferencesOK' /\ AttachmentsOK'
           /\ EdgesOK' /\ EdgesCollected' /\ FormatsResolved' /\ Spawned' = Spawned
  <1>1. Spawned' = Spawned
    BY DEF Spawned
  <1>2. SetupOK' /\ EdgesOK'
    BY <1>1 DEF Inv, SetupOK, EdgesOK, EdgesFollowSpawning
  <1>3. ResourcesOK' /\ ReferencesOK' /\ AttachmentsOK'
    BY <1>1, SameGraph
  <1>4. \A p : Sources(p)' = Sources(p) /\ ReferencedViews(p)' = ReferencedViews(p)
    <2>1. resources' = resources /\ references' = references
      BY DEF setupVars
    <2>. QED
      BY <2>1 DEF Sources, ReferencedViews, Elements
  <1>5. EdgesCollected' /\ FormatsResolved'
    <2>1. resources' = resources
      BY DEF setupVars
    <2>. QED
      BY <1>4, <2>1 DEF Inv, EdgesCollected, FormatsResolved
  <1>. QED
    BY <1>1, <1>2, <1>3, <1>5

\* The sort the builder runs is the sort that was proved.
LEMMA SameSort ==
    /\ Sorting!TypeOK <=> Sort!TypeOK
    /\ Sorting!Linked = Sort!Linked
    /\ Sorting!DependentsBelow <=> Sort!DependentsBelow
    /\ Sorting!Sorted <=> Sort!Sorted
    /\ Sorting!Acyclic <=> Sort!Acyclic
    /\ Sorting!Step <=> Sort!Step
    /\ \A p : Sorting!Dependents(p) = Sort!Dependents(p)
    /\ \A s : Sorting!Elements(s) = Elements(s)
  <1>1. /\ \A s : Sorting!Elements(s) = Sort!Elements(s) /\ Sorting!Elements(s) = Elements(s)
        /\ \A p : Sorting!Edges(p) = Sort!Edges(p)
        /\ \A calls : Sorting!Advance(calls) = Sort!Advance(calls)
        /\ \A calls : Sorting!Return(calls) = Sort!Return(calls)
        /\ \A p : Sorting!Call(p) = Sort!Call(p)
        /\ \A a : Sorting!IsAdjacencyMap(a) <=> Sort!IsAdjacencyMap(a)
        /\ Sorting!Frame = Sort!Frame /\ Sorting!Top = Sort!Top
    BY DEF Sorting!Elements, Sort!Elements, Elements, Sorting!Edges, Sort!Edges,
           Sorting!Advance, Sort!Advance, Sorting!Return, Sort!Return, Sorting!Call, Sort!Call,
           Sorting!IsAdjacencyMap, Sort!IsAdjacencyMap, Sorting!Frame, Sort!Frame,
           Sorting!Top, Sort!Top
  <1>2. /\ \A p : Sorting!Dependents(p) = Sort!Dependents(p)
        /\ \A calls, p : Sorting!Recurse(calls, p) = Sort!Recurse(calls, p)
    BY <1>1 DEF Sorting!Dependents, Sort!Dependents, Sorting!Recurse, Sort!Recurse
  <1>3. /\ \A p, q : Sorting!Reaches(p, q) <=> Sort!Reaches(p, q)
        /\ Sorting!Linked = Sort!Linked
        /\ Sorting!Sorted <=> Sort!Sorted
    BY <1>2 DEF Sorting!Reaches, Sort!Reaches, Sorting!Linked, Sort!Linked,
                Sorting!Sorted, Sort!Sorted
  <1>4. Sorting!Acyclic <=> Sort!Acyclic
    BY <1>2, <1>3 DEF Sorting!Acyclic, Sort!Acyclic
  <1>5. Sorting!TypeOK <=> Sort!TypeOK
    BY <1>1 DEF Sorting!TypeOK, Sort!TypeOK
  <1>6. Sorting!DependentsBelow <=> Sort!DependentsBelow
    BY <1>2, <1>4 DEF Sorting!DependentsBelow, Sort!DependentsBelow
  <1>7. /\ \A p : Sorting!VisitRoot(p) <=> Sort!VisitRoot(p)
        /\ Sorting!FollowEdge <=> Sort!FollowEdge
        /\ Sorting!PushVertex <=> Sort!PushVertex
    BY <1>1, <1>2 DEF Sorting!VisitRoot, Sort!VisitRoot, Sorting!FollowEdge, Sort!FollowEdge,
                      Sorting!PushVertex, Sort!PushVertex
  <1>8. Sorting!Step <=> Sort!Step
    BY <1>7 DEF Sorting!Step, Sort!Step
  <1>. QED
    BY <1>1, <1>2, <1>3, <1>4, <1>5, <1>6, <1>8

\* No step of the sort touches the edges.
LEMMA StepKeepsEdges == Sorting!Step => adjacency' = adjacency
  BY DEF Sorting!Step, Sorting!VisitRoot, Sorting!FollowEdge, Sorting!PushVertex

\* A sort that starts starts right.
LEMMA SortStarts ==
    /\ (Sorting!IsAdjacencyMap(adjacency) /\ Sorting!Start)' => Sorting!SearchInvariant'
    /\ Sorting!Start' => Sorting!DependentsBelow' /\ Sorting!PushedOnce'
  <1>1. Sorting!IsAdjacencyMap(adjacency) /\ Sorting!Start => Sorting!SearchInvariant
    BY Sorting!StartInvariant
  <1>2. Sorting!Start => Sorting!DependentsBelow /\ Sorting!PushedOnce
    BY Sorting!DependentsBelowStart, Sorting!PushedOnceStart
  <1>. QED
    BY <1>1, <1>2, PTL

LEMMA StartSortOK ==
    ASSUME Inv, StartSort
    PROVE  Inv'
  <1>1. /\ phase = "collecting" /\ phase' = "sorting" /\ collected = Spawned
        /\ pending' = DOMAIN adjacency
        /\ frames' = frames /\ visited' = visited /\ order' = order
        /\ spawned' = spawned /\ named' = named /\ setup' = setup /\ UNCHANGED setupVars
        /\ collected' = collected /\ adjacency' = adjacency /\ dependencies' = dependencies
    BY DEF StartSort
  <1>2. /\ SetupOK' /\ ResourcesOK' /\ ReferencesOK' /\ AttachmentsOK'
        /\ EdgesOK' /\ EdgesCollected' /\ FormatsResolved' /\ Spawned' = Spawned
    BY <1>1, SameBuild
  <1>3. Sorting!Start'
    BY <1>1 DEF Inv, PhaseOK, Sorting!Start
  <1>4. Sorting!IsAdjacencyMap(adjacency)'
    <2>1. Spawned \subseteq Pass
      BY PassFacts DEF Inv
    <2>2. \A p \in DOMAIN adjacency : adjacency[p] \in Seq(Pass)
      BY <2>1, SeqMonotonic DEF Inv, EdgesOK
    <2>. QED
      BY <1>1, <2>1, <2>2 DEF Inv, EdgesOK, Sorting!IsAdjacencyMap
  <1>5. Sorting!SearchInvariant' /\ Sorting!DependentsBelow' /\ Sorting!PushedOnce'
    BY <1>3, <1>4, SortStarts
  <1>6. PhaseOK'
    BY <1>1, <1>2, <1>5 DEF Inv, PhaseOK
  <1>. QED
    BY <1>2, <1>6 DEF Inv

LEMMA SortStepOK ==
    ASSUME Inv, SortStep
    PROVE  Inv'
  <1>1. /\ phase = "sorting" /\ phase' = phase /\ Sorting!Step
        /\ spawned' = spawned /\ named' = named /\ setup' = setup /\ UNCHANGED setupVars
        /\ collected' = collected /\ dependencies' = dependencies
    BY SameSort DEF SortStep
  <1>2. adjacency' = adjacency
    BY <1>1, StepKeepsEdges
  <1>3. /\ SetupOK' /\ ResourcesOK' /\ ReferencesOK' /\ AttachmentsOK'
        /\ EdgesOK' /\ EdgesCollected' /\ FormatsResolved' /\ Spawned' = Spawned
    BY <1>1, <1>2, SameBuild
  <1>4. /\ Sorting!SearchInvariant /\ Sorting!DependentsBelow /\ Sorting!PushedOnce
        /\ collected = Spawned
    BY <1>1 DEF Inv, PhaseOK
  <1>5. Sorting!SearchInvariant' /\ Sorting!DependentsBelow' /\ Sorting!PushedOnce'
    BY <1>1, <1>4, Sorting!NextInvariant, Sorting!DependentsBelowStep, Sorting!PushedOnceStep
       DEF Sorting!Next
  <1>6. PhaseOK'
    BY <1>1, <1>3, <1>4, <1>5 DEF Inv, PhaseOK
  <1>. QED
    BY <1>3, <1>6 DEF Inv

\* compile is called, or has validated the graph, or nothing happens.
LEMMA ValidViewSame ==
    ASSUME resources' = resources
    PROVE  Views' = Views /\ \A v : ValidView(v)' = ValidView(v)
  BY DEF Views, Ids, ValidView

LEMMA QuietStepOK ==
    ASSUME Inv, Compile \/ FinishCompile \/ UNCHANGED vars
    PROVE  Inv'
  <1>1. /\ spawned' = spawned /\ named' = named /\ setup' = setup /\ UNCHANGED setupVars
        /\ collected' = collected /\ adjacency' = adjacency /\ dependencies' = dependencies
        /\ pending' = pending /\ frames' = frames /\ visited' = visited /\ order' = order
        /\ resources' = resources
    BY DEF Compile, FinishCompile, vars, sortVars, setupVars
  <1>2. /\ SetupOK' /\ ResourcesOK' /\ ReferencesOK' /\ AttachmentsOK'
        /\ EdgesOK' /\ EdgesCollected' /\ FormatsResolved' /\ Spawned' = Spawned
    BY <1>1, SameBuild
  <1>3. /\ Sorting!SearchInvariant => Sorting!SearchInvariant'
        /\ Sorting!SearchInvariant /\ Sorting!DependentsBelow => Sorting!DependentsBelow'
        /\ Sorting!SearchInvariant /\ Sorting!PushedOnce => Sorting!PushedOnce'
    <2>1. UNCHANGED Sorting!vars
      BY <1>1 DEF Sorting!vars
    <2>. QED
      BY <2>1, Sorting!NextInvariant, Sorting!DependentsBelowStep, Sorting!PushedOnceStep
  <1>4. Sorting!Sorted' <=> Sorting!Sorted
    BY <1>1 DEF Sorting!Sorted
  <1>5. Views' = Views /\ \A v : ValidView(v)' = ValidView(v)
    BY <1>1, ValidViewSame
  <1>6. PhaseOK'
    <2>1. CASE Compile
      <3>1. phase = "building" /\ phase' = "collecting" /\ setup = NoPass
        BY <2>1 DEF Compile, Idle
      <3>. QED
        BY <1>1, <1>2, <3>1 DEF Inv, PhaseOK
    <2>2. CASE FinishCompile
      <3>1. /\ phase = "sorting" /\ Sorting!Sorted
            /\ phase' \in {"compiled", "failed"}
            /\ phase' = "compiled" /\ Validating => \A v \in Views : ValidView(v)
        BY <2>2, SameSort DEF FinishCompile
      <3>. QED
        BY <1>1, <1>2, <1>3, <1>4, <1>5, <3>1 DEF Inv, PhaseOK
    <2>3. CASE UNCHANGED vars
      <3>1. phase' = phase
        BY <2>3 DEF vars
      <3>. QED
        BY <1>1, <1>2, <1>3, <1>4, <1>5, <3>1 DEF Inv, PhaseOK
    <2>. QED
      BY <2>1, <2>2, <2>3
  <1>. QED
    BY <1>2, <1>6 DEF Inv

LEMMA BuildOK ==
    ASSUME Inv, Build
    PROVE  Inv'
  <1>1. ASSUME NEW size \in Sizes, NEW format \in Formats, NEW permitted \in Permitted,
               \/ \E external \in BOOLEAN : CreateTexture(size, format, permitted, external)
               \/ RegisterTexture(size, format, permitted)
        PROVE  Inv'
    BY <1>1, CreateTextureOK, RegisterTextureOK
  <1>2. ASSUME NEW source \in Textures \cup Views, NEW format \in Requested,
               NEW range \in Ranges,
               \/ WriteColor(source, format, range) \/ WriteDepth(source, format, range)
               \/ ReadAttachment(source, format, range) \/ ReadTexture(source, format, range)
               \/ ForwardTexture(source, format, range)
        PROVE  Inv'
    BY <1>2, ViewCallsOK
  <1>3. ASSUME NEW source \in Views, AcceptTexture(source) PROVE Inv'
    BY <1>3, AcceptTextureOK
  <1>4. ASSUME NEW p \in Pass, NEW q \in Pass, CreatePassDependency(p, q) PROVE Inv'
    BY <1>4, CreatePassDependencyOK
  <1>. QED
    BY <1>1, <1>2, <1>3, <1>4, SpawnPassOK, EndSetupOK, OpaqueCallsOK DEF Build

\* The invariant holds throughout the building and the compilation of a frame.
THEOREM BuilderInvariance == Spec => []Inv
  <1>1. Init => Inv
    BY InitOK
  <1>2. Inv /\ [Next]_vars => Inv'
    <2>. SUFFICES ASSUME Inv, [Next]_vars PROVE Inv'
      OBVIOUS
    <2>1. CASE Build
      BY <2>1, BuildOK
    <2>2. CASE Compile \/ FinishCompile \/ Built \/ UNCHANGED vars
      BY <2>2, QuietStepOK DEF Built
    <2>3. ASSUME NEW p \in Pass, CollectPass(p) PROVE Inv'
      BY <2>3, CollectPassOK
    <2>4. CASE StartSort
      BY <2>4, StartSortOK
    <2>5. CASE SortStep
      BY <2>5, SortStepOK
    <2>. QED
      BY <2>1, <2>2, <2>3, <2>4, <2>5 DEF Next, CompileStep
  <1>. QED
    BY <1>1, <1>2, PTL DEF Spec

-----------------------------------------------------------------------------
(***************************************************************************)
(* What the invariant says of a frame.                                     *)
(***************************************************************************)

LEMMA InvType == Inv => TypeOK
  <1>. SUFFICES ASSUME Inv PROVE TypeOK
    OBVIOUS
  <1>1. /\ spawned \in 1..(MaxPass + 1) /\ named \subseteq Spawned
        /\ setup \in Spawned \cup {NoPass}
    BY PassFacts DEF Inv, SetupOK
  <1>2. ASSUME NEW r \in Ids PROVE ResourceOK(r)
    <2>1. resources[r] \in Resource /\ r \in Nat /\ r > 0
      BY IdFacts DEF Inv, Ids
    <2>2. /\ resources[r].kind \in {"Texture", "TextureView", "RenderableList", "Mesh", "Material"}
          /\ resources[r].referenceCount \in Nat
          /\ resources[r].kind # "TextureView" => resources[r].parent = NoResource
      BY <2>1, ResourceFields DEF TextureRecord, OpaqueRecord
    <2>3. resources[r].parent \in 0..(r - 1)
      BY <2>1, <2>2 DEF Inv, ResourcesOK, Derived, NoResource
    <2>. QED
      BY <2>2, <2>3 DEF ResourceOK, Inv, ResourcesOK
  <1>3. Sort!TypeOK /\ Elements(order) \subseteq Spawned
    <2>1. CASE phase \in {"building", "collecting"}
      <3>1. pending = {} /\ frames = <<>> /\ visited = {} /\ order = <<>>
        BY <2>1 DEF Inv, PhaseOK
      <3>2. Sort!IsAdjacencyMap(adjacency)
        <4>1. Spawned \subseteq Pass
          BY PassFacts DEF Inv
        <4>2. \A p \in DOMAIN adjacency : adjacency[p] \in Seq(Pass)
          BY <4>1, SeqMonotonic DEF Inv, EdgesOK
        <4>. QED
          BY <4>1, <4>2 DEF Inv, EdgesOK, Sort!IsAdjacencyMap
      <3>. QED
        BY <3>1, <3>2, ElementsFacts DEF Sort!TypeOK
    <2>2. CASE phase \in {"sorting", "compiled", "failed"}
      <3>1. Sorting!SearchInvariant
        BY <2>2 DEF Inv, PhaseOK
      <3>2. Elements(order) \subseteq Sorting!Linked
        BY <3>1, SameSort DEF Sorting!SearchInvariant, Sorting!SearchPartition
      <3>3. \A p \in DOMAIN adjacency : Sorting!Dependents(p) \subseteq Spawned
        BY ElementsFacts, SameSort
           DEF Inv, EdgesOK, Sorting!Dependents, Sorting!Edges
      <3>4. Sorting!Linked \subseteq Spawned
        BY <3>3 DEF Inv, EdgesOK, Sorting!Linked
      <3>. QED
        BY <3>1, <3>2, <3>4, SameSort DEF Sorting!SearchInvariant
    <2>. QED
      BY <2>1, <2>2 DEF Inv, PhaseOK
  <1>. QED
    BY <1>1, <1>2, <1>3 DEF TypeOK, Inv, ResourcesOK, ReferencesOK, AttachmentsOK, PhaseOK

\* Whatever the passes of a frame ask for, the state of the builder is well formed.
THEOREM TypeInvariance == Spec => []TypeOK
  BY BuilderInvariance, InvType, PTL

\* However many passes a frame has and in whatever order they are collected, an edge
\* nobody asked for by name leads from an earlier pass to a later one.
THEOREM EdgesFollowSpawningInvariance == Spec => []EdgesFollowSpawning
  <1>1. Inv => EdgesFollowSpawning
    BY DEF Inv, EdgesOK
  <1>. QED
    BY <1>1, BuilderInvariance, PTL

LEMMA InvSourcesRunFirst == Inv => SourcesRunFirst
  <1>. SUFFICES ASSUME Inv, phase = "compiled", Sort!Acyclic,
                       NEW p \in Spawned, NEW v \in ReferencedViews(p),
                       resources[resources[v].parent].pass # p
                PROVE  RunsBefore(resources[resources[v].parent].pass, p)
    BY DEF SourcesRunFirst
  <1>. DEFINE owner == resources[resources[v].parent].pass
  <1>1. /\ collected = Spawned /\ Sorting!SearchInvariant
        /\ Sorting!DependentsBelow /\ Sorting!Sorted
    BY DEF Inv, PhaseOK
  <1>2. owner \in DOMAIN adjacency /\ p \in Elements(adjacency[owner])
    <2>1. owner \in Sources(p)
      BY DEF Sources
    <2>. QED
      BY <1>1, <2>1 DEF Inv, EdgesCollected
  <1>. HIDE DEF owner
  <1>3. p \in Sorting!Dependents(owner)
    BY <1>2, SameSort DEF Sorting!Dependents, Sorting!Edges
  <1>4. owner \in Elements(order)
    <2>1. Sorting!AllLinkedPushed
      BY <1>1, Sorting!InvariantLinked
    <2>2. owner \in Sorting!Linked
      BY <1>2 DEF Sorting!Linked
    <2>. QED
      BY <1>1, <2>1, <2>2, SameSort DEF Sorting!AllLinkedPushed
  <1>5. PICK i \in 1..Len(order) : order[i] = owner
    BY <1>4 DEF Elements
  <1>6. PICK j \in 1..(i - 1) : order[j] = p
    BY <1>1, <1>3, <1>5, SameSort DEF Sorting!DependentsBelow
  <1>7. Len(order) \in Nat
    BY <1>1, LenProperties DEF Sorting!SearchInvariant, Sorting!TypeOK
  <1>8. j < i /\ j \in 1..Len(order)
    BY <1>5, <1>6, <1>7
  <1>9. RunsBefore(owner, p)
    BY <1>5, <1>6, <1>8 DEF RunsBefore
  <1>. QED
    BY <1>9 DEF owner

\* In a frame of any size, a compiled graph runs the owner of what a view was derived
\* from before the pass that references the view, unless named dependencies make a cycle.
THEOREM SourcesRunFirstInvariance == Spec => []SourcesRunFirst
  BY InvSourcesRunFirst, BuilderInvariance, PTL

-----------------------------------------------------------------------------
(***************************************************************************)
(* Passes that are left out.                                               *)
(***************************************************************************)

\* The edges asked for by name stay.
NamedEdgesKept ==
    \A p, q \in Pass :
        <<p, q>> \in dependencies => p \in DOMAIN adjacency /\ q \in Elements(adjacency[p])

\* Collecting a pass drops no edge.
LEMMA CollectedEdges ==
    ASSUME Inv, NEW p \in Pass, CollectPass(p), NEW s \in DOMAIN adjacency
    PROVE  s \in DOMAIN adjacency' /\ Elements(adjacency[s]) \subseteq Elements(adjacency'[s])
  <1>1. /\ p \in Spawned
        /\ adjacency' = [r \in DOMAIN adjacency \cup Sources(p) |->
                            IF r \in Sources(p) THEN WithEdge(adjacency, r, p)[r]
                            ELSE adjacency[r]]
    BY DEF CollectPass
  <1>2. s \in Spawned
    BY DEF Inv, EdgesOK
  <1>3. Elements(WithEdge(adjacency, s, p)[s]) = Elements(adjacency[s]) \cup {p}
    BY <1>1, <1>2, WithEdgeFacts DEF Inv
  <1>4. s \in DOMAIN adjacency' /\ adjacency'[s] \in {WithEdge(adjacency, s, p)[s], adjacency[s]}
    BY <1>1
  <1>. QED
    BY <1>3, <1>4

LEMMA NamedEdgesStep == Inv /\ NamedEdgesKept /\ [Next]_vars => NamedEdgesKept'
  <1>. SUFFICES ASSUME Inv, NamedEdgesKept, [Next]_vars,
                       NEW p \in Pass, NEW q \in Pass, <<p, q>> \in dependencies'
                PROVE  p \in DOMAIN adjacency' /\ q \in Elements(adjacency'[p])
    BY DEF NamedEdgesKept
  <1>1. CASE \E r, t \in Pass : CreatePassDependency(r, t)
    <2>1. PICK r \in Pass, t \in Pass : CreatePassDependency(r, t)
      BY <1>1
    <2>2. /\ adjacency' = WithEdge(adjacency, r, t) /\ dependencies' = dependencies \cup {<<r, t>>}
          /\ r \in Spawned /\ t \in Spawned
      BY <2>1 DEF CreatePassDependency, Inv, SetupOK
    <2>3. /\ DOMAIN adjacency' = DOMAIN adjacency \cup {r}
          /\ \A s \in DOMAIN adjacency : s # r => adjacency'[s] = adjacency[s]
          /\ r \in DOMAIN adjacency => Elements(adjacency'[r]) = Elements(adjacency[r]) \cup {t}
          /\ r \notin DOMAIN adjacency => Elements(adjacency'[r]) = {t}
      BY <2>2, WithEdgeFacts DEF Inv
    <2>4. CASE <<p, q>> \in dependencies
      <3>1. p \in DOMAIN adjacency /\ q \in Elements(adjacency[p])
        BY <2>4 DEF NamedEdgesKept
      <3>. QED
        BY <2>3, <3>1
    <2>5. CASE p = r /\ q = t
      BY <2>3, <2>5
    <2>. QED
      BY <2>2, <2>4, <2>5
  <1>2. CASE \E r \in Pass : CollectPass(r)
    <2>1. dependencies' = dependencies
      BY <1>2 DEF CollectPass
    <2>2. p \in DOMAIN adjacency /\ q \in Elements(adjacency[p])
      BY <2>1 DEF NamedEdgesKept
    <2>. QED
      BY <1>2, <2>2, CollectedEdges
  <1>3. CASE SortStep
    <2>1. dependencies' = dependencies /\ adjacency' = adjacency
      BY <1>3, SameSort, StepKeepsEdges DEF SortStep
    <2>. QED
      BY <2>1 DEF NamedEdgesKept
  <1>4. CASE UNCHANGED <<adjacency, dependencies>>
    BY <1>4 DEF NamedEdgesKept
  <1>5. ASSUME Build
        PROVE  \/ \E r, t \in Pass : CreatePassDependency(r, t)
               \/ UNCHANGED <<adjacency, dependencies>>
    <2>1. ASSUME NEW source, NEW purpose, NEW format, NEW range, NEW mode, NEW call,
                 \/ UseTexture(call, source, purpose, format, range, mode)
                 \/ PassOn(call, source, format, range, mode)
          PROVE  UNCHANGED <<adjacency, dependencies>>
      BY <2>1 DEF UseTexture, PassOn
    <2>. QED
      BY <1>5, <2>1
         DEF Build, SpawnPass, FinishSetup, FailSetup, CreateTexture, RegisterTexture,
             RegisterRenderables, UseMesh, UseMaterial, RegisterOpaque, WriteColor, WriteDepth,
             ReadAttachment, ReadTexture, ForwardTexture, AcceptTexture
  <1>6. ASSUME Compile \/ StartSort \/ FinishCompile \/ Built \/ UNCHANGED vars
        PROVE  UNCHANGED <<adjacency, dependencies>>
    BY <1>6 DEF Compile, StartSort, FinishCompile, Built, vars
  <1>. QED
    BY <1>1, <1>2, <1>3, <1>4, <1>5, <1>6 DEF Next, CompileStep

LEMMA InvOnlyIsolatedOmitted == Inv /\ NamedEdgesKept => OnlyIsolatedOmitted
  <1>. SUFFICES ASSUME Inv, NamedEdgesKept, phase \in {"compiled", "failed"},
                       NEW p \in Spawned \ Elements(order)
                PROVE  /\ Sources(p) = {}
                       /\ \A q \in Spawned :
                             p \notin Sources(q) /\ {<<p, q>>, <<q, p>>} \cap dependencies = {}
    BY DEF OnlyIsolatedOmitted
  <1>1. /\ collected = Spawned /\ Sorting!SearchInvariant /\ Sorting!Sorted
        /\ Spawned \subseteq Pass
    BY PassFacts DEF Inv, PhaseOK
  <1>2. Elements(order) = Sorting!Linked
    BY <1>1, SameSort, Sorting!InvariantLinked DEF Sorting!AllLinkedPushed
  <1>3. p \notin DOMAIN adjacency
    BY <1>2 DEF Sorting!Linked
  <1>4. \A s \in DOMAIN adjacency : p \notin Elements(adjacency[s])
    <2>1. \A s \in DOMAIN adjacency : p \notin Sorting!Dependents(s)
      BY <1>2 DEF Sorting!Linked
    <2>. QED
      BY <2>1, SameSort DEF Sorting!Dependents, Sorting!Edges
  <1>5. Sources(p) = {} /\ \A q \in Spawned : p \notin Sources(q)
    BY <1>1, <1>3, <1>4 DEF Inv, EdgesCollected
  <1>6. \A q \in Spawned : <<p, q>> \notin dependencies /\ <<q, p>> \notin dependencies
    BY <1>1, <1>3, <1>4 DEF NamedEdgesKept
  <1>. QED
    BY <1>5, <1>6

\* However many passes a frame has, and whether or not its validation fails, a pass is left
\* out of the order only when it shares nothing with another and no dependency names it.
THEOREM OnlyIsolatedOmittedInvariance == Spec => []OnlyIsolatedOmitted
  <1>1. Init => NamedEdgesKept
    BY DEF Init, NamedEdgesKept
  <1>. QED
    BY <1>1, NamedEdgesStep, InvOnlyIsolatedOmitted, BuilderInvariance, PTL DEF Spec

-----------------------------------------------------------------------------
(***************************************************************************)
(* Views and the textures they lead to.  Root is defined by recursion over *)
(* the parents; that a view's parent is older than the view makes it a     *)
(* function, and a least counterexample shows which one.                   *)
(***************************************************************************)

LEMMA RootFacts ==
    ASSUME ResourcesOK
    PROVE  \A r \in Ids :
               Root[r] = IF resources[r].kind = "TextureView" THEN resources[r].subjacent ELSE r
  <1>. DEFINE F(f) == [r \in Ids |-> IF resources[r].parent = NoResource THEN r
                                     ELSE f[resources[r].parent]]
              direct == [r \in Ids |-> IF resources[r].kind = "TextureView"
                                       THEN resources[r].subjacent ELSE r]
  <1>1. ASSUME NEW r \in Ids
        PROVE  IF resources[r].parent = NoResource
               THEN direct[r] = r
               ELSE /\ resources[r].parent \in Ids /\ resources[r].parent < r
                    /\ direct[r] = direct[resources[r].parent]
    <2>1. resources[r] \in Resource /\ r \in Nat /\ Len(resources) \in Nat /\ r <= Len(resources)
      BY IdFacts DEF Ids
    <2>2. CASE resources[r].kind = "TextureView"
      <3>. DEFINE q == resources[r].parent
      <3>1. /\ q \in 1..(r - 1) /\ resources[q].kind \in {"Texture", "TextureView"}
            /\ resources[r].subjacent = Subjacent(q)
        BY <2>2 DEF ResourcesOK, Derived
      <3>2. q \in Ids /\ q < r /\ q # NoResource
        BY <2>1, <3>1 DEF Ids, NoResource
      <3>3. direct[r] = Subjacent(q)
        BY <2>2, <3>1
      <3>4. direct[q] = Subjacent(q)
        BY <3>1, <3>2 DEF Subjacent
      <3>. QED
        BY <3>2, <3>3, <3>4
    <2>3. CASE resources[r].kind # "TextureView"
      <3>1. resources[r].parent = NoResource
        BY <2>1, <2>3, ResourceFields DEF TextureRecord, OpaqueRecord
      <3>. QED
        BY <2>3, <3>1
    <2>. QED
      BY <2>2, <2>3
  <1>2. direct = F(direct)
    <2>1. DOMAIN direct = Ids /\ direct = [r \in Ids |-> direct[r]]
      OBVIOUS
    <2>. HIDE DEF direct
    <2>. QED
      BY <1>1, <2>1
  <1>3. Root = CHOOSE f : f = F(f)
    BY DEF Root
  <1>4. Root = F(Root)
    <2>. HIDE DEF F, direct
    <2>. QED
      BY <1>2, <1>3, Zenon
  <1>. HIDE DEF direct
  <1>5. {r \in Ids : Root[r] # direct[r]} = {}
    <2>. SUFFICES ASSUME {r \in Ids : Root[r] # direct[r]} # {} PROVE FALSE
      OBVIOUS
    <2>1. PICK r \in Ids : /\ Root[r] # direct[r]
                           /\ \A q \in Ids : Root[q] # direct[q] => r <= q
      <3>1. {r \in Ids : Root[r] # direct[r]} \in SUBSET Nat
        BY DEF Ids
      <3>. QED
        BY <3>1, SmallestExists
    <2>2. Root[r] = IF resources[r].parent = NoResource THEN r ELSE Root[resources[r].parent]
      BY <1>4
    <2>3. resources[r].parent # NoResource
      BY <1>1, <2>1, <2>2
    <2>4. /\ resources[r].parent \in Ids /\ resources[r].parent < r
          /\ direct[r] = direct[resources[r].parent]
      BY <1>1, <2>3
    <2>5. r <= resources[r].parent
      BY <2>1, <2>2, <2>3, <2>4
    <2>. QED
      BY <2>4, <2>5 DEF Ids
  <1>6. \A r \in Ids : Root[r] = direct[r]
    BY <1>5
  <1>. QED
    BY <1>6 DEF direct

LEMMA InvSubjacentIsRoot == Inv => SubjacentIsRoot
  <1>. SUFFICES ASSUME Inv, NEW v \in Views
                PROVE  resources[v].subjacent = Root[v] /\ Root[v] \in Textures
    BY DEF SubjacentIsRoot
  <1>1. v \in Ids /\ resources[v].kind = "TextureView"
    BY DEF Views
  <1>2. Root[v] = resources[v].subjacent
    BY <1>1, RootFacts DEF Inv
  <1>3. /\ resources[v].subjacent \in 1..(v - 1)
        /\ resources[resources[v].subjacent].kind = "Texture"
    BY <1>1 DEF Inv, ResourcesOK, Derived
  <1>4. v \in Nat /\ Len(resources) \in Nat /\ v <= Len(resources)
    BY <1>1, IdFacts DEF Inv, Ids
  <1>5. resources[v].subjacent \in Textures
    BY <1>3, <1>4 DEF Textures, Ids
  <1>. QED
    BY <1>2, <1>5

\* However long a chain of views over views is, the texture a view has copied from
\* what it was derived from is the one the chain ends in.
THEOREM SubjacentIsRootInvariance == Spec => []SubjacentIsRoot
  BY InvSubjacentIsRoot, BuilderInvariance, PTL

LEMMA InvAttachmentsConsistent == Inv => AttachmentsConsistent
  <1>. SUFFICES ASSUME Inv PROVE AttachmentsConsistent
    OBVIOUS
  <1>1. ASSUME NEW i \in 1..Len(attachments.views)
        PROVE  attachments.images[i] = Root[attachments.views[i]]
    <2>1. attachments.views[i] \in Views
      BY ElementOfSeq DEF Inv, AttachmentsOK
    <2>2. attachments.images[i] = resources[attachments.views[i]].subjacent
      BY DEF Inv, AttachmentsOK
    <2>. QED
      BY <2>1, <2>2, InvSubjacentIsRoot DEF SubjacentIsRoot
  <1>. QED
    BY <1>1 DEF AttachmentsConsistent, Inv, AttachmentsOK, Lists

\* However passes share views, the attachment lists stay parallel, no view is listed
\* twice, and the positions they are known by mean what the lists say.
THEOREM AttachmentsConsistentInvariance == Spec => []AttachmentsConsistent
  BY InvAttachmentsConsistent, BuilderInvariance, PTL

LEMMA InvCompiledViewsUsable == Inv => CompiledViewsUsable
  <1>. SUFFICES ASSUME Inv, phase = "compiled", NEW v \in Views
                PROVE  /\ resources[v].format # "Automatic"
                       /\ Validating =>
                             /\ resources[v].range.offset + resources[v].range.length
                                    <= resources[Root[v]].size
                             /\ resources[v].purpose # "Undefined" =>
                                   UsageOf(resources[v].purpose)
                                       \in resources[Root[v]].permitted
    BY DEF CompiledViewsUsable
  <1>1. /\ v \in Ids /\ resources[v].kind = "TextureView"
        /\ resources[v].pass \in Spawned /\ Derived(v)
    BY DEF Inv, ResourcesOK, Views
  <1>2. resources[v].format # "Automatic"
    <2>1. v \in Elements(references[resources[v].pass])
      BY DEF Inv, ReferencesOK
    <2>2. resources[v].parent # NoResource
      BY <1>1 DEF Derived, NoResource
    <2>3. v \in ReferencedViews(resources[v].pass)
      BY <2>1, <2>2 DEF ReferencedViews
    <2>. QED
      BY <1>1, <2>3 DEF Inv, PhaseOK, FormatsResolved
  <1>3. Root[v] = resources[v].subjacent
    BY <1>1, RootFacts DEF Inv
  <1>4. Validating => ValidView(v)
    BY DEF Inv, PhaseOK
  <1>. QED
    BY <1>1, <1>2, <1>3, <1>4 DEF ValidView, Derived

\* In a frame of any size no pass is handed a view without a format, and what a
\* validating build hands out lies within its texture and uses it as permitted.
THEOREM CompiledViewsUsableInvariance == Spec => []CompiledViewsUsable
  BY InvCompiledViewsUsable, BuilderInvariance, PTL

-----------------------------------------------------------------------------
(***************************************************************************)
(* Reference counts.                                                       *)
(***************************************************************************)

\* The references of passes to a view, and the views over a texture.
Uses(refs, v) ==
    {use \in Pass \X (1..MaxReferences) :
        use[2] <= Len(refs[use[1]]) /\ refs[use[1]][use[2]] = v}
Over(res, t) ==
    {v \in 1..Len(res) : res[v].kind = "TextureView" /\ res[v].subjacent = t}

Counted(S, n) == IsFiniteSet(S) /\ n = Cardinality(S)

CountsOK ==
    /\ \A p \in Pass : Len(references[p]) <= MaxReferences
    /\ \A t \in Textures : Counted(Over(resources, t), resources[t].referenceCount)
    /\ \A v \in Views : Counted(Uses(references, v), resources[v].referenceCount)

LEMMA CountMore ==
    ASSUME NEW S, NEW n, Counted(S, n), NEW x, x \notin S
    PROVE  Counted(S \cup {x}, n + 1)
  BY FS_AddElement DEF Counted

LEMMA CountNone == Counted({}, 0)
  BY FS_EmptySet DEF Counted

\* Nothing refers to a resource that is not there.
LEMMA NothingRefers ==
    ASSUME ResourcesOK, ReferencesOK, NEW r, r \notin Ids
    PROVE  Uses(references, r) = {} /\ Over(resources, r) = {}
  <1>1. \A p \in Pass : \A i \in 1..Len(references[p]) : references[p][i] \in Ids
    BY ElementOfSeq DEF ReferencesOK
  <1>2. \A v \in Views : resources[v].subjacent \in Ids
    BY IdFacts DEF ResourcesOK, Derived, Views, Ids
  <1>. QED
    BY <1>1, <1>2 DEF Uses, Over, Views, Ids

\* Recording a reference adds one use of the resource, and none of another.
LEMMA NewUse ==
    ASSUME ReferencesOK, CountsOK, NEW p \in Pass, NEW r, r \in Ids', Ids \subseteq Ids',
           Reference(p, r)
    PROVE  /\ \E x : x \notin Uses(references, r)
                     /\ Uses(references', r) = Uses(references, r) \cup {x}
           /\ \A v : v # r => Uses(references', v) = Uses(references, v)
           /\ \A q \in Pass : Len(references'[q]) <= MaxReferences
  <1>. DEFINE n == Len(references[p])
              x == <<p, n + 1>>
  <1>1. references[p] \in Seq(Ids') /\ references \in [Pass -> Seq(Ids)]
    BY SeqMonotonic DEF ReferencesOK
  <1>2. /\ n \in Nat /\ n < MaxReferences
        /\ references' = [references EXCEPT ![p] = Append(references[p], r)]
    BY <1>1, LenProperties DEF Reference
  <1>3. /\ Len(references'[p]) = n + 1
        /\ \A i \in 1..n : references'[p][i] = references[p][i]
        /\ references'[p][n + 1] = r
        /\ \A q \in Pass : q # p => references'[q] = references[q]
    BY <1>1, <1>2, AppendFacts
  <1>4. MaxReferences \in Nat
    BY BoundsAssumption
  <1>5. ASSUME NEW v, NEW q \in Pass, NEW i \in 1..MaxReferences
        PROVE  <<q, i>> \in Uses(references', v) <=>
                  <<q, i>> \in Uses(references, v) \/ (v = r /\ <<q, i>> = x)
    <2>1. <<q, i>> \in Uses(references', v) <=>
              i <= Len(references'[q]) /\ references'[q][i] = v
      BY DEF Uses
    <2>2. <<q, i>> \in Uses(references, v) <=>
              i <= Len(references[q]) /\ references[q][i] = v
      BY DEF Uses
    <2>3. CASE q # p
      BY <1>3, <2>1, <2>2, <2>3
    <2>4. CASE q = p
      <3>1. i <= n \/ i = n + 1 \/ i > n + 1
        BY <1>2
      <3>. QED
        BY <1>2, <1>3, <2>1, <2>2, <2>4, <3>1
    <2>. QED
      BY <2>3, <2>4
  <1>6. \A v : /\ Uses(references', v) \subseteq Pass \X (1..MaxReferences)
               /\ Uses(references, v) \subseteq Pass \X (1..MaxReferences)
    BY DEF Uses
  <1>7. x \in Pass \X (1..MaxReferences)
    BY <1>2, <1>4
  <1>8. x \notin Uses(references, r)
    BY <1>2 DEF Uses
  <1>. HIDE DEF x
  <1>9. Uses(references', r) = Uses(references, r) \cup {x}
    BY <1>5, <1>6, <1>7
  <1>10. \A v : v # r => Uses(references', v) = Uses(references, v)
    BY <1>5, <1>6
  <1>11. \A q \in Pass : Len(references'[q]) <= MaxReferences
    BY <1>2, <1>3, <1>4 DEF CountsOK
  <1>. QED
    BY <1>8, <1>9, <1>10, <1>11

\* Whichever resources stay, the views over a texture do.
LEMMA OverKept ==
    ASSUME ResourcesOK, SameOrMore, NEW t
    PROVE  Over(resources', t) \cap Ids = Over(resources, t)
  BY IdFacts, SameOrMoreFacts DEF Over, Ids, Kept, SameOrMore

\* No view is added: only the counts of a resource that is not counted yet matter.
LEMMA CountsWithoutView ==
    ASSUME ResourcesOK, ReferencesOK, CountsOK, SameOrMore, Views' \subseteq Views,
           \A r \in Ids : resources'[r].referenceCount = resources[r].referenceCount,
           \A r \in Ids' \ Ids : resources'[r].referenceCount = 0,
           \/ references' = references
           \/ \E p \in Pass : Reference(p, NewId) /\ NewId \in Ids'
    PROVE  CountsOK'
  <1>1. /\ Ids \subseteq Ids' /\ NewId \notin Ids
        /\ \A r \in Ids : Kept(resources'[r], resources[r])
    BY IdFacts, SameOrMoreFacts DEF Ids
  <1>2. /\ \A v \in Views : Uses(references', v) = Uses(references, v)
        /\ \A p \in Pass : Len(references'[p]) <= MaxReferences
    <2>1. CASE references' = references
      BY <2>1 DEF CountsOK
    <2>2. CASE NewId \in Ids' /\ \E p \in Pass : Reference(p, NewId)
      BY <1>1, <2>2, NewUse DEF Views
    <2>. QED
      BY <2>1, <2>2
  <1>3. \A t : Over(resources', t) = Over(resources, t)
    <2>1. \A t : Over(resources', t) \subseteq Ids
      BY DEF Over, Views, Ids
    <2>. QED
      BY <2>1, OverKept
  <1>4. ASSUME NEW t \in Textures'
        PROVE  Counted(Over(resources', t), resources'[t].referenceCount)
    <2>1. CASE t \in Ids
      <3>1. t \in Textures
        BY <1>1, <2>1 DEF Textures, Kept
      <3>. QED
        BY <1>3, <2>1, <3>1 DEF CountsOK
    <2>2. CASE t \notin Ids
      BY <1>3, <2>2, NothingRefers, CountNone DEF Textures
    <2>. QED
      BY <2>1, <2>2
  <1>5. ASSUME NEW v \in Views'
        PROVE  Counted(Uses(references', v), resources'[v].referenceCount)
    BY <1>2 DEF CountsOK, Views
  <1>. QED
    BY <1>2, <1>4, <1>5 DEF CountsOK

\* A view is added: its texture counts it, and the pass that made it uses it once.
LEMMA CountsNewView ==
    ASSUME ResourcesOK, ReferencesOK, CountsOK, SameOrMore, setup \in Pass,
           NEW t \in Textures, CountedAt(t), NewId \in Views', Reference(setup, NewId),
           resources'[NewId].subjacent = t, resources'[NewId].referenceCount = 1,
           \A v \in Views' \ Views : v = NewId
    PROVE  CountsOK'
  <1>1. /\ Ids \subseteq Ids' /\ NewId \notin Ids /\ NewId \in Ids' /\ t \in Ids
        /\ \A r \in Ids : Kept(resources'[r], resources[r])
        /\ \A r \in Ids' \ Ids : r = NewId
        /\ resources'[NewId].kind = "TextureView"
    BY IdFacts, SameOrMoreFacts DEF Ids, Views
  <1>2. /\ \E x : x \notin Uses(references, NewId)
                  /\ Uses(references', NewId) = Uses(references, NewId) \cup {x}
        /\ \A v \in Views : Uses(references', v) = Uses(references, v)
        /\ \A p \in Pass : Len(references'[p]) <= MaxReferences
    BY <1>1, NewUse DEF Views
  <1>3. /\ Over(resources', t) = Over(resources, t) \cup {NewId}
        /\ \A s : s # t => Over(resources', s) = Over(resources, s)
    <2>1. \A s : /\ Over(resources', s) \subseteq Ids \cup {NewId}
                 /\ NewId \in Over(resources', s) <=> s = t
      BY <1>1 DEF Over, Ids
    <2>. QED
      BY <2>1, OverKept
  <1>4. ASSUME NEW s \in Textures'
        PROVE  Counted(Over(resources', s), resources'[s].referenceCount)
    <2>1. s \in Ids /\ s \in Textures
      BY <1>1 DEF Textures, Kept
    <2>2. Counted(Over(resources, s), resources[s].referenceCount)
      BY <2>1 DEF CountsOK
    <2>3. CASE s = t
      <3>1. NewId \notin Over(resources, t)
        BY <1>1 DEF Over, Ids
      <3>. QED
        BY <1>3, <2>1, <2>2, <2>3, <3>1, CountMore DEF CountedAt
    <2>4. CASE s # t
      BY <1>3, <2>1, <2>2, <2>4 DEF CountedAt
    <2>. QED
      BY <2>3, <2>4
  <1>5. ASSUME NEW v \in Views'
        PROVE  Counted(Uses(references', v), resources'[v].referenceCount)
    <2>1. CASE v \in Views
      <3>1. resources'[v].referenceCount = resources[v].referenceCount
        BY <2>1 DEF CountedAt, Views, Textures
      <3>. QED
        BY <1>2, <2>1, <3>1 DEF CountsOK
    <2>2. CASE v = NewId
      <3>1. Uses(references, NewId) = {}
        BY <1>1, NothingRefers
      <3>2. PICK x : Uses(references', NewId) = {} \cup {x}
        BY <1>2, <3>1
      <3>3. Counted({} \cup {x}, 0 + 1)
        BY CountNone, CountMore
      <3>. QED
        BY <2>2, <3>2, <3>3
    <2>. QED
      BY <2>1, <2>2
  <1>. QED
    BY <1>2, <1>4, <1>5 DEF CountsOK

\* A view is shared: one more pass uses it.
LEMMA CountsSharedView ==
    ASSUME ResourcesOK, ReferencesOK, CountsOK, SameOrMore, setup \in Pass,
           NEW view \in Views, CountedAt(view), Len(resources') = Len(resources),
           Reference(setup, view)
    PROVE  CountsOK'
  <1>1. /\ Ids' = Ids /\ view \in Ids
        /\ \A r \in Ids : Kept(resources'[r], resources[r])
    BY SameOrMoreFacts DEF Ids, Views
  <1>2. Views' = Views /\ Textures' = Textures
    BY <1>1 DEF Views, Textures, Kept
  <1>3. /\ \E x : x \notin Uses(references, view)
                  /\ Uses(references', view) = Uses(references, view) \cup {x}
        /\ \A v : v # view => Uses(references', v) = Uses(references, v)
        /\ \A p \in Pass : Len(references'[p]) <= MaxReferences
    BY <1>1, NewUse
  <1>4. \A t : Over(resources', t) = Over(resources, t)
    <2>1. \A t : Over(resources', t) \subseteq Ids
      BY <1>1 DEF Over, Ids
    <2>. QED
      BY <2>1, OverKept
  <1>5. ASSUME NEW t \in Textures'
        PROVE  Counted(Over(resources', t), resources'[t].referenceCount)
    <2>1. t # view /\ t \in Ids
      BY <1>2 DEF Textures, Views
    <2>2. resources'[t].referenceCount = resources[t].referenceCount
      BY <2>1 DEF CountedAt
    <2>. QED
      BY <1>2, <1>4, <2>2 DEF CountsOK
  <1>6. ASSUME NEW v \in Views'
        PROVE  Counted(Uses(references', v), resources'[v].referenceCount)
    <2>1. v \in Ids /\ Counted(Uses(references, v), resources[v].referenceCount)
      BY <1>2 DEF CountsOK, Views
    <2>2. CASE v = view
      BY <1>3, <2>1, <2>2, CountMore DEF CountedAt
    <2>3. CASE v # view
      BY <1>3, <2>1, <2>3 DEF CountedAt
    <2>. QED
      BY <2>2, <2>3
  <1>. QED
    BY <1>3, <1>5, <1>6 DEF CountsOK

\* Resources other than views.
LEMMA CountsCreate ==
    ASSUME Inv, CountsOK, NEW size \in Sizes, NEW format \in Formats,
           NEW permitted \in Permitted,
           \/ \E external \in BOOLEAN : CreateTexture(size, format, permitted, external)
           \/ RegisterTexture(size, format, permitted)
    PROVE  CountsOK'
  <1>1. PICK p \in Spawned, x \in TextureRecord :
           /\ NewId <= MaxResource /\ resources' = Append(resources, x)
           /\ Reference(p, NewId)
           /\ x.pass = p /\ x.subjacent \in {0, NewId}
           /\ x.referenceCount = 0
    <2>1. Len(resources) \in Nat /\ NewId = Len(resources) + 1
      BY IdFacts DEF Inv
    <2>2. ASSUME NEW external \in BOOLEAN, CreateTexture(size, format, permitted, external)
          PROVE  \E p \in Spawned, x \in TextureRecord :
                    /\ NewId <= MaxResource /\ resources' = Append(resources, x)
                    /\ Reference(p, NewId)
                    /\ x.pass = p /\ x.subjacent \in {0, NewId}
                    /\ x.referenceCount = 0
      <3>. DEFINE x == Texture(NewId, setup, size, format, permitted, external)
      <3>1. setup \in Spawned /\ setup \in Pass
        BY <2>2, PassFacts DEF CreateTexture, InSetup, Inv
      <3>2. /\ x \in TextureRecord /\ x.pass = setup /\ x.subjacent = NewId
            /\ x.referenceCount = 0
        BY <2>1, <3>1, DataAssumption DEF Texture, TextureRecord
      <3>3. /\ NewId <= MaxResource /\ resources' = Append(resources, x)
            /\ Reference(setup, NewId)
        BY <2>2 DEF CreateTexture
      <3>. HIDE DEF x
      <3>. QED
        BY <3>1, <3>2, <3>3
    <2>3. ASSUME RegisterTexture(size, format, permitted)
          PROVE  \E p \in Spawned, x \in TextureRecord :
                    /\ NewId <= MaxResource /\ resources' = Append(resources, x)
                    /\ Reference(p, NewId)
                    /\ x.pass = p /\ x.subjacent \in {0, NewId}
                    /\ x.referenceCount = 0
      <3>. DEFINE t == Texture(NewId, PseudoPass, size, format, permitted, TRUE)
                  x == [t EXCEPT !.subjacent = NoResource]
      <3>1. PseudoPass \in Spawned /\ PseudoPass \in Pass
        BY PassFacts DEF Inv
      <3>2. t \in TextureRecord /\ t.pass = PseudoPass /\ t.referenceCount = 0
        BY <2>1, <3>1, DataAssumption DEF Texture, TextureRecord
      <3>3. /\ x \in TextureRecord /\ x.pass = PseudoPass /\ x.subjacent = 0
            /\ x.referenceCount = 0
        BY <3>2 DEF TextureRecord, NoResource
      <3>4. /\ NewId <= MaxResource /\ resources' = Append(resources, x)
            /\ Reference(PseudoPass, NewId)
        BY <2>3 DEF RegisterTexture
      <3>. HIDE DEF x
      <3>. QED
        BY <3>1, <3>3, <3>4
    <2>. QED
      BY <2>2, <2>3
  <1>2. Len(resources) \in Nat /\ NewId = Len(resources) + 1 /\ p \in Pass
    BY IdFacts, PassFacts DEF Inv
  <1>3. x.kind = "Texture"
    BY <1>1 DEF TextureRecord
  <1>4. Addable(x)
    BY <1>1, <1>2, <1>3 DEF Addable, Resource
  <1>5. /\ SameOrMore /\ NewId \in Ids' /\ resources'[NewId] = x
        /\ \A r \in Ids : resources'[r] = resources[r]
        /\ Views' \subseteq Views
    BY <1>1, <1>3, <1>4, AddedResource DEF Inv
  <1>6. \A r \in Ids' \ Ids : resources'[r].referenceCount = 0
    BY <1>1, <1>5, SameOrMoreFacts DEF Inv
  <1>. QED
    BY <1>1, <1>2, <1>5, <1>6, CountsWithoutView DEF Inv

LEMMA CountsOpaque ==
    ASSUME Inv, CountsOK, RegisterRenderables \/ UseMesh \/ UseMaterial
    PROVE  CountsOK'
  <1>1. PICK p \in Spawned, kind \in {"RenderableList", "Mesh", "Material"},
             external \in BOOLEAN :
           /\ NewId <= MaxResource /\ resources' = Append(resources, Opaque(kind, p, external))
           /\ references' = references
    <2>1. PseudoPass \in Spawned /\ (setup # NoPass => setup \in Spawned)
      BY PassFacts DEF Inv
    <2>2. CASE RegisterRenderables
      BY <2>1, <2>2 DEF RegisterRenderables, RegisterOpaque
    <2>3. CASE UseMesh
      BY <2>1, <2>3 DEF UseMesh, RegisterOpaque, InSetup
    <2>4. CASE UseMaterial
      BY <2>1, <2>4 DEF UseMaterial, RegisterOpaque, InSetup
    <2>. QED
      BY <2>2, <2>3, <2>4
  <1>. DEFINE x == Opaque(kind, p, external)
  <1>2. Len(resources) \in Nat /\ NewId = Len(resources) + 1 /\ p \in Pass
    BY IdFacts, PassFacts DEF Inv
  <1>3. /\ x \in OpaqueRecord /\ x.pass = p /\ x.kind # "TextureView" /\ x.subjacent = 0
        /\ x.referenceCount = 0
    BY <1>2 DEF Opaque, OpaqueRecord, NoResource
  <1>4. Addable(x)
    BY <1>2, <1>3 DEF Addable, Resource
  <1>5. /\ SameOrMore /\ resources'[NewId] = x /\ Views' \subseteq Views
        /\ \A r \in Ids : resources'[r] = resources[r]
    BY <1>1, <1>3, <1>4, AddedResource DEF Inv
  <1>6. \A r \in Ids' \ Ids : resources'[r].referenceCount = 0
    BY <1>3, <1>5, SameOrMoreFacts DEF Inv
  <1>. QED
    BY <1>1, <1>5, <1>6, CountsWithoutView DEF Inv

LEMMA CountsSpawn ==
    ASSUME Inv, CountsOK, NewId <= MaxResource, setup # NoPass,
           NEW source \in Textures \cup Views, NEW usage \in SUBSET Usages,
           NEW range \in [offset : Nat, length : Nat], NEW format \in AnyFormat,
           NEW purpose \in Purpose, NEW mode \in Mode,
           purpose # "Undefined" => UsageOf(purpose) \in usage /\ mode \in AccessMode,
           SpawnView(Subjacent(source), usage,
                     View(setup, source, Subjacent(source), Adjusted(source, range), format,
                          purpose, mode)),
           Reference(setup, NewId)
    PROVE  CountsOK'
  <1>1. Adjusted(source, range) \in [offset : Nat, length : Nat] /\ Subjacent(source) \in Textures
    BY SourceFacts DEF Inv
  <1>2. /\ SameOrMore /\ NewId \in Views'
        /\ \A v \in Views' \ Views : v = NewId
        /\ resources'[NewId].subjacent = Subjacent(source)
        /\ resources'[NewId].referenceCount = 1
        /\ CountedAt(Subjacent(source))
    BY <1>1, SpawnedView DEF Inv
  <1>3. setup \in Pass
    BY PassFacts DEF Inv
  <1>. QED
    BY <1>1, <1>2, <1>3, CountsNewView DEF Inv

LEMMA CountsUse ==
    ASSUME Inv, CountsOK, NEW source \in Textures \cup Views, NEW format \in Requested,
           NEW range \in Ranges, NEW mode \in AccessMode, NEW call,
           NEW purpose \in Purpose \ {"Undefined"},
           UseTexture(call, source, purpose, format, range, mode)
    PROVE  CountsOK'
  <1>. DEFINE twins == Duplicates(source, format, purpose, Adjusted(source, range), mode)
              view == IF twins = {} THEN NewId ELSE Oldest(twins)
  <1>1. setup # NoPass /\ setup \in Pass /\ Reference(setup, view)
    BY PassFacts DEF UseTexture, InSetup, Inv
  <1>2. CASE twins # {} /\ resources' = [resources EXCEPT ![view].referenceCount = @ + 1]
    <2>1. view \in Views
      BY <1>2, OldestFacts DEF Inv
    <2>. HIDE DEF view
    <2>2. SameOrMore /\ Len(resources') = Len(resources) /\ CountedAt(view)
      BY <1>2, <2>1, SharedView DEF Inv
    <2>. QED
      BY <1>1, <2>1, <2>2, CountsSharedView DEF Inv
  <1>3. CASE /\ twins = {} /\ NewId <= MaxResource
             /\ SpawnView(Subjacent(source), {UsageOf(purpose)},
                          View(setup, source, Subjacent(source), Adjusted(source, range),
                               format, purpose, mode))
    <2>1. {UsageOf(purpose)} \in SUBSET Usages /\ mode \in Mode
      BY DEF Purpose, Usages, UsageOf, Mode, AccessMode
    <2>2. range \in [offset : Nat, length : Nat] /\ format \in AnyFormat
      BY DataAssumption DEF AnyFormat
    <2>3. view = NewId
      BY <1>3
    <2>. HIDE DEF view, twins
    <2>. QED
      BY <1>1, <1>3, <2>1, <2>2, <2>3, CountsSpawn
  <1>. QED
    BY <1>2, <1>3 DEF UseTexture

LEMMA CountsPassOn ==
    ASSUME Inv, CountsOK, NEW source \in Textures \cup Views, NEW format \in AnyFormat,
           NEW range \in [offset : Nat, length : Nat], NEW mode \in Mode, NEW call,
           PassOn(call, source, format, range, mode)
    PROVE  CountsOK'
  <1>1. /\ setup # NoPass /\ NewId <= MaxResource /\ Reference(setup, NewId)
        /\ SpawnView(Subjacent(source), {},
                     View(setup, source, Subjacent(source), Adjusted(source, range), format,
                          "Undefined", mode))
        /\ {} \in SUBSET Usages /\ "Undefined" \in Purpose
    BY DEF PassOn, InSetup, Purpose
  <1>. QED
    BY <1>1, CountsSpawn

LEMMA CountsViewCalls ==
    ASSUME Inv, CountsOK, NEW source \in Textures \cup Views, NEW format \in Requested,
           NEW range \in Ranges,
           \/ WriteColor(source, format, range) \/ WriteDepth(source, format, range)
           \/ ReadAttachment(source, format, range) \/ ReadTexture(source, format, range)
           \/ ForwardTexture(source, format, range)
    PROVE  CountsOK'
  <1>1. CASE WriteColor(source, format, range)
    BY <1>1, CountsUse DEF WriteColor, Purpose, AccessMode
  <1>2. CASE WriteDepth(source, format, range)
    BY <1>2, CountsUse DEF WriteDepth, Purpose, AccessMode
  <1>3. CASE ReadAttachment(source, format, range)
    BY <1>3, CountsUse DEF ReadAttachment, Purpose, AccessMode
  <1>4. CASE ReadTexture(source, format, range)
    BY <1>4, CountsUse DEF ReadTexture, Purpose, AccessMode
  <1>5. CASE ForwardTexture(source, format, range)
    <2>1. format \in AnyFormat /\ range \in [offset : Nat, length : Nat] /\ "Forward" \in Mode
      BY DataAssumption DEF AnyFormat, Mode
    <2>. QED
      BY <1>5, <2>1, CountsPassOn DEF ForwardTexture
  <1>. QED
    BY <1>1, <1>2, <1>3, <1>4, <1>5

LEMMA CountsAccept ==
    ASSUME Inv, CountsOK, NEW source \in Views, AcceptTexture(source)
    PROVE  CountsOK'
  <1>1. /\ resources[source].format \in AnyFormat
        /\ resources[source].range \in [offset : Nat, length : Nat]
    BY IdFacts DEF Inv, ViewRecord
  <1>. QED
    BY <1>1, CountsPassOn DEF AcceptTexture, Mode

LEMMA CountsCollect ==
    ASSUME Inv, CountsOK, NEW p \in Pass, CollectPass(p)
    PROVE  CountsOK'
  <1>1. p \in Spawned /\ references' = references
    BY DEF CollectPass
  <1>2. /\ SameOrMore /\ Views' \subseteq Views /\ Len(resources') = Len(resources)
        /\ \A r \in Ids : resources'[r].referenceCount = resources[r].referenceCount
    BY <1>1, CollectedResources
  <1>3. Ids' = Ids
    BY <1>2 DEF Ids
  <1>. QED
    BY <1>1, <1>2, <1>3, CountsWithoutView DEF Inv

LEMMA CountsUnchanged ==
    ASSUME CountsOK, UNCHANGED <<resources, references>>
    PROVE  CountsOK'
  BY DEF CountsOK, Textures, Views, Ids, Uses, Over

LEMMA InvReferenceCounts == Inv /\ CountsOK => ReferenceCounts
  <1>. SUFFICES ASSUME Inv, CountsOK PROVE ReferenceCounts
    OBVIOUS
  <1>1. ASSUME NEW t \in Textures PROVE {v \in Views : Root[v] = t} = Over(resources, t)
    BY InvSubjacentIsRoot DEF SubjacentIsRoot, Over, Views, Ids
  <1>. QED
    BY <1>1 DEF ReferenceCounts, CountsOK, Counted, Uses

\* Whatever views are made and shared, a texture is counted once for each view over it
\* and a view once for each time a pass was given it.
THEOREM ReferenceCountsInvariance == Spec => []ReferenceCounts
  <1>1. Init => CountsOK
    <2>. SUFFICES ASSUME Init PROVE CountsOK
      OBVIOUS
    <2>1. resources = <<>> /\ references = [p \in Pass |-> <<>>]
      BY DEF Init
    <2>. QED
      BY <2>1, BoundsAssumption DEF CountsOK, Textures, Views, Ids
  <1>2. Inv /\ CountsOK /\ [Next]_vars => CountsOK'
    <2>. SUFFICES ASSUME Inv, CountsOK, [Next]_vars PROVE CountsOK'
      OBVIOUS
    <2>1. ASSUME NEW size \in Sizes, NEW format \in Formats, NEW permitted \in Permitted,
                 \/ \E external \in BOOLEAN : CreateTexture(size, format, permitted, external)
                 \/ RegisterTexture(size, format, permitted)
          PROVE  CountsOK'
      BY <2>1, CountsCreate
    <2>2. CASE RegisterRenderables \/ UseMesh \/ UseMaterial
      BY <2>2, CountsOpaque
    <2>3. ASSUME NEW source \in Textures \cup Views, NEW format \in Requested,
                 NEW range \in Ranges,
                 \/ WriteColor(source, format, range) \/ WriteDepth(source, format, range)
                 \/ ReadAttachment(source, format, range) \/ ReadTexture(source, format, range)
                 \/ ForwardTexture(source, format, range)
          PROVE  CountsOK'
      BY <2>3, CountsViewCalls
    <2>4. ASSUME NEW source \in Views, AcceptTexture(source) PROVE CountsOK'
      BY <2>4, CountsAccept
    <2>5. ASSUME NEW p \in Pass, CollectPass(p) PROVE CountsOK'
      BY <2>5, CountsCollect
    <2>6. CASE \/ SpawnPass \/ FinishSetup \/ FailSetup
               \/ \E p, q \in Pass : CreatePassDependency(p, q)
               \/ Compile \/ StartSort \/ SortStep \/ FinishCompile \/ Built \/ UNCHANGED vars
      <3>1. UNCHANGED <<resources, references>>
        BY <2>6 DEF SpawnPass, FinishSetup, FailSetup, CreatePassDependency, Compile, StartSort,
                    SortStep, FinishCompile, Built, vars, setupVars
      <3>. QED
        BY <3>1, CountsUnchanged
    <2>. QED
      BY <2>1, <2>2, <2>3, <2>4, <2>5, <2>6 DEF Next, Build, CompileStep
  <1>. QED
    BY <1>1, <1>2, InvReferenceCounts, BuilderInvariance, PTL DEF Spec

-----------------------------------------------------------------------------
(***************************************************************************)
(* What holds of the render pass that is derived from a compiled graph,    *)
(* for every number of passes, resources and references: its subpasses     *)
(* wait for each other as their views were derived, the images are there   *)
(* before their views are made, and the two numberings of the attachments  *)
(* agree.                                                                  *)
(***************************************************************************)

-----------------------------------------------------------------------------
(***************************************************************************)
(* The order of execution and the views of a subpass.                      *)
(***************************************************************************)

\* The order holds passes, each once.
LEMMA OrderFacts ==
    ASSUME Inv, phase = "compiled"
    PROVE  /\ Len(order) \in Nat /\ order \in Seq(Spawned)
           /\ \A i, j \in 1..Len(order) : order[i] = order[j] => i = j
  <1>1. Sorting!SearchInvariant /\ Sorting!Sorted /\ Sorting!PushedOnce
    BY DEF Inv, PhaseOK
  <1>2. order \in Seq(Pass) /\ Len(order) \in Nat
    BY <1>1, LenProperties DEF Sorting!SearchInvariant, Sorting!TypeOK
  <1>3. Elements(order) \subseteq Spawned
    BY <1>1, InvType DEF TypeOK
  <1>4. \A i \in 1..Len(order) : order[i] \in Spawned
    BY <1>3 DEF Elements
  <1>5. order \in Seq(Spawned)
    BY <1>2, <1>4, IsASeq, LenProperties
  <1>. QED
    BY <1>1, <1>2, <1>5 DEF Sorting!PushedOnce

\* The order is executed from its top.
LEMMA ExecutionFacts ==
    ASSUME Inv, phase = "compiled"
    PROVE  /\ DOMAIN ExecutionOrder = 1..Len(order) /\ Len(ExecutionOrder) = Len(order)
           /\ \A k \in 1..Len(order) :
                 /\ Len(order) + 1 - k \in 1..Len(order)
                 /\ ExecutionOrder[k] = order[Len(order) + 1 - k]
                 /\ ExecutionOrder[k] \in Spawned
           /\ \A j, k \in 1..Len(order) : ExecutionOrder[j] = ExecutionOrder[k] => j = k
           /\ \A i \in 1..Len(order) : ExecutionOrder[Len(order) + 1 - i] = order[i]
  <1>1. Len(order) \in Nat /\ \A i \in 1..Len(order) : order[i] \in Spawned
    BY OrderFacts, ElementOfSeq
  <1>2. ExecutionOrder = [k \in 1..Len(order) |-> order[(Len(order) - k) + 1]]
    BY DEF ExecutionOrder, Seqs!Reverse
  <1>3. \A k \in 1..Len(order) :
           /\ Len(order) + 1 - k \in 1..Len(order)
           /\ (Len(order) - k) + 1 = Len(order) + 1 - k
           /\ Len(order) + 1 - (Len(order) + 1 - k) = k
    BY <1>1
  <1>4. Len(ExecutionOrder) = Len(order)
    BY <1>1, <1>2
  <1>. QED
    BY <1>1, <1>2, <1>3, <1>4, OrderFacts

\* A pass that is executed is the subpass SubpassOf says.
LEMMA SubpassFacts ==
    ASSUME Inv, phase = "compiled", NEW p \in Elements(order)
    PROVE  SubpassOf(p) \in 1..Len(order) /\ ExecutionOrder[SubpassOf(p)] = p
  <1>1. PICK i \in 1..Len(order) : order[i] = p
    BY DEF Elements
  <1>2. \E k \in DOMAIN ExecutionOrder : ExecutionOrder[k] = p
    <2>1. Len(order) + 1 - i \in DOMAIN ExecutionOrder
      BY ExecutionFacts
    <2>. QED
      BY <1>1, <2>1, ExecutionFacts
  <1>. QED
    BY <1>2, ExecutionFacts DEF SubpassOf

\* The views of a subpass are attached views that its pass references.
LEMMA AttachedViewsFacts ==
    ASSUME Inv, phase = "compiled", NEW k \in 1..Len(order)
    PROVE  LET assigned == attachments.assigned[ExecutionOrder[k]]
           IN  /\ Len(assigned) \in Nat /\ Len(AttachedViews(k)) = Len(assigned)
               /\ \A n \in 1..Len(assigned) :
                     /\ assigned[n] \in 1..Len(attachments.views)
                     /\ AttachedViews(k)[n] = attachments.views[assigned[n]]
               /\ \A view \in Elements(AttachedViews(k)) :
                     view \in Views /\ view \in Elements(references[ExecutionOrder[k]])
  <1>. DEFINE p == ExecutionOrder[k]
              assigned == attachments.assigned[p]
  <1>1. p \in Pass
    BY ExecutionFacts, PassFacts DEF Inv
  <1>2. assigned \in Seq(Nat) /\ attachments.views \in Seq(Views)
    BY <1>1 DEF Inv, AttachmentsOK
  <1>3. /\ Len(assigned) \in Nat /\ DOMAIN assigned = 1..Len(assigned)
        /\ \A n \in 1..Len(assigned) : assigned[n] \in Elements(assigned)
    BY <1>2, LenProperties DEF Elements
  <1>4. AttachedViews(k) = [n \in 1..Len(assigned) |-> attachments.views[assigned[n]]]
    BY <1>3 DEF AttachedViews
  <1>5. \A n \in 1..Len(assigned) :
           /\ assigned[n] \in 1..Len(attachments.views)
           /\ attachments.views[assigned[n]] \in Elements(references[p])
    BY <1>1, <1>3 DEF Inv, AttachmentsOK
  <1>6. \A n \in 1..Len(assigned) : attachments.views[assigned[n]] \in Views
    BY <1>2, <1>5, ElementOfSeq
  <1>. HIDE DEF p, assigned
  <1>7. AttachedViews(k) \in Seq(Views) /\ Len(AttachedViews(k)) = Len(assigned)
    BY <1>3, <1>4, <1>6, IsASeq, LenProperties
  <1>8. \A n \in 1..Len(assigned) : AttachedViews(k)[n] = attachments.views[assigned[n]]
    BY <1>4
  <1>9. ASSUME NEW view \in Elements(AttachedViews(k))
        PROVE  view \in Views /\ view \in Elements(references[p])
    <2>1. PICK n \in 1..Len(assigned) : view = AttachedViews(k)[n]
      BY <1>7, <1>9 DEF Elements
    <2>. QED
      BY <1>5, <1>6, <1>8, <2>1
  <1>. QED
    BY <1>3, <1>5, <1>7, <1>8, <1>9 DEF p, assigned

\* They are a sequence of views.
LEMMA AttachedViewsSeq ==
    ASSUME Inv, phase = "compiled", NEW k \in 1..Len(order)
    PROVE  AttachedViews(k) \in Seq(Views) /\ Len(AttachedViews(k)) \in Nat
  <1>. DEFINE assigned == attachments.assigned[ExecutionOrder[k]]
  <1>1. /\ Len(assigned) \in Nat /\ Len(AttachedViews(k)) = Len(assigned)
        /\ \A view \in Elements(AttachedViews(k)) : view \in Views
    BY AttachedViewsFacts
  <1>2. \A n \in 1..Len(AttachedViews(k)) : AttachedViews(k)[n] \in Views
    BY <1>1 DEF Elements
  <1>3. ExecutionOrder[k] \in Pass
    BY ExecutionFacts, PassFacts DEF Inv
  <1>4. DOMAIN assigned = 1..Len(assigned)
    BY <1>3, LenProperties DEF Inv, AttachmentsOK
  <1>5. AttachedViews(k) = [n \in 1..Len(assigned) |-> AttachedViews(k)[n]]
    BY <1>4 DEF AttachedViews
  <1>. QED
    BY <1>1, <1>2, <1>5, IsASeq

-----------------------------------------------------------------------------
(***************************************************************************)
(* Subpass dependencies.                                                   *)
(***************************************************************************)

\* A view of a subpass was derived from a texture, from a view of the same pass, or
\* from a view of a pass that is an earlier subpass.
LEMMA OwnerIsEarlier ==
    ASSUME Inv, RenderPassDerived, NEW k \in 1..Len(order),
           NEW view \in Elements(AttachedViews(k)),
           resources[resources[view].parent].kind = "TextureView"
    PROVE  LET owner == resources[resources[view].parent].pass
           IN  /\ SubpassOf(owner) \in 1..k
               /\ ExecutionOrder[SubpassOf(owner)] = owner
               /\ owner # ExecutionOrder[k] => SubpassOf(owner) < k
  <1>. DEFINE p == ExecutionOrder[k]
              owner == resources[resources[view].parent].pass
  <1>1. /\ phase = "compiled" /\ Sort!Acyclic /\ Len(order) \in Nat
        /\ p \in Spawned /\ order[Len(order) + 1 - k] = p
        /\ Len(order) + 1 - k \in 1..Len(order)
    BY ExecutionFacts, OrderFacts DEF RenderPassDerived
  <1>2. view \in Views /\ view \in Elements(references[p])
    BY <1>1, AttachedViewsFacts
  <1>3. view \in ReferencedViews(p)
    <2>1. Derived(view)
      BY <1>2, IdFacts DEF Inv, ResourcesOK
    <2>2. resources[view].parent # NoResource
      BY <1>2, <2>1 DEF Derived, Views, NoResource
    <2>. QED
      BY <1>2, <2>2 DEF ReferencedViews
  <1>4. CASE owner = p
    <2>1. p \in Elements(order)
      BY <1>1 DEF Elements
    <2>2. SubpassOf(p) \in 1..Len(order) /\ ExecutionOrder[SubpassOf(p)] = p
      BY <1>1, <2>1, SubpassFacts
    <2>3. SubpassOf(p) = k
      BY <1>1, <2>2, ExecutionFacts
    <2>. QED
      BY <1>1, <1>4, <2>2, <2>3
  <1>5. CASE owner # p
    <2>1. RunsBefore(owner, p)
      BY <1>1, <1>3, <1>5, InvSourcesRunFirst DEF SourcesRunFirst
    <2>2. PICK i, j \in 1..Len(order) : j < i /\ order[i] = owner /\ order[j] = p
      BY <2>1 DEF RunsBefore
    <2>3. j = Len(order) + 1 - k
      BY <1>1, <2>2, OrderFacts
    <2>4. owner \in Elements(order)
      BY <2>2 DEF Elements
    <2>5. SubpassOf(owner) \in 1..Len(order) /\ ExecutionOrder[SubpassOf(owner)] = owner
      BY <1>1, <2>4, SubpassFacts
    <2>6. SubpassOf(owner) = Len(order) + 1 - i
      <3>1. /\ Len(order) + 1 - i \in 1..Len(order)
            /\ ExecutionOrder[Len(order) + 1 - i] = owner
        BY <1>1, <2>2, ExecutionFacts
      <3>. QED
        BY <1>1, <2>5, <3>1, ExecutionFacts
    <2>. QED
      BY <1>1, <2>2, <2>3, <2>5, <2>6
  <1>. QED
    BY <1>4, <1>5

LEMMA InvSubpassesSynchronized == Inv => SubpassesSynchronized
  <1>. SUFFICES ASSUME Inv, RenderPassDerived PROVE SubpassesSynchronized
    BY DEF SubpassesSynchronized
  <1>1. phase = "compiled" /\ Len(order) \in Nat /\ DOMAIN ExecutionOrder = 1..Len(order)
    BY OrderFacts, ExecutionFacts DEF RenderPassDerived
  <1>2. ASSUME NEW k \in 1..Len(order), NEW view \in Elements(AttachedViews(k))
        PROVE  WaitedFor(k, view).src \in 0..k
    BY <1>1, <1>2, OwnerIsEarlier DEF WaitedFor, External
  <1>3. ASSUME NEW d \in SubpassDependencies
        PROVE  d.src <= Len(order) /\ (d.dst # External => d.src <= d.dst)
    <2>1. CASE d \in [src : {External}, after : {"memory"}, dst : {1},
                      before : {"color", "depth"}]
      BY <1>1, <2>1 DEF External
    <2>2. CASE d \in [src : {Len(order)}, after : {"color", "depth"}, dst : {External},
                      before : {"memory"}]
      BY <1>1, <2>2
    <2>3. ASSUME NEW k \in DOMAIN ExecutionOrder \ {1},
                 NEW view \in Elements(AttachedViews(k)), d = Dependency(k, view)
          PROVE  d.src <= Len(order) /\ d.src <= d.dst
      <3>1. d.src \in 0..k /\ d.dst = k
        BY <1>1, <1>2, <2>3 DEF Dependency
      <3>. QED
        BY <1>1, <3>1
    <2>4. \/ d \in [src : {External}, after : {"memory"}, dst : {1}, before : {"color", "depth"}]
          \/ d \in UNION {{Dependency(k, view) : view \in Elements(AttachedViews(k))} :
                             k \in DOMAIN ExecutionOrder \ {1}}
          \/ d \in [src : {Len(order)}, after : {"color", "depth"}, dst : {External},
                      before : {"memory"}]
      BY <1>3, Zenon DEF SubpassDependencies
    <2>. QED
      BY <2>1, <2>2, <2>3, <2>4
  <1>4. ASSUME NEW k \in DOMAIN ExecutionOrder, NEW view \in Elements(AttachedViews(k)),
               resources[view].parent \in Views,
               resources[resources[view].parent].pass # ExecutionOrder[k]
        PROVE  \E d \in SubpassDependencies :
                  /\ d.dst = k /\ d.before = Kind(view)
                  /\ d.src \in DOMAIN ExecutionOrder
                  /\ ExecutionOrder[d.src] = resources[resources[view].parent].pass
                  /\ d.after = Kind(resources[view].parent)
    <2>1. resources[resources[view].parent].kind = "TextureView"
      BY <1>4 DEF Views
    <2>2. LET owner == resources[resources[view].parent].pass
          IN  /\ SubpassOf(owner) \in 1..k /\ SubpassOf(owner) < k
              /\ ExecutionOrder[SubpassOf(owner)] = owner
      BY <1>1, <1>4, <2>1, OwnerIsEarlier
    <2>3. k # 1 /\ k \in 1..Len(order)
      BY <1>1, <2>2
    <2>4. Dependency(k, view) \in SubpassDependencies
      <3>1. k \in DOMAIN ExecutionOrder \ {1}
        BY <1>1, <2>3
      <3>2. Dependency(k, view) \in UNION {{Dependency(l, v) : v \in Elements(AttachedViews(l))} :
                                              l \in DOMAIN ExecutionOrder \ {1}}
        BY <1>4, <3>1
      <3>. QED
        BY <3>2, Zenon DEF SubpassDependencies
    <2>. QED
      BY <1>1, <2>1, <2>2, <2>3, <2>4 DEF Dependency, WaitedFor
  <1>. QED
    BY <1>3, <1>4 DEF SubpassesSynchronized

\* However many passes share however many views, no subpass waits for a later or a missing
\* one, and each waits for the pass a view of its was derived from.
THEOREM SubpassesSynchronizedInvariance == Spec => []SubpassesSynchronized
  BY InvSubpassesSynchronized, BuilderInvariance, PTL

-----------------------------------------------------------------------------
(***************************************************************************)
(* Lists that are made one element after another.  They are defined by     *)
(* recursion over the positions; that there is such a function, and what   *)
(* holds of all its values, follows from a least counterexample.           *)
(***************************************************************************)

\* n functions that are applied one after another.
Stages(n, S) == [1..n -> [S -> S]]

\* The values between them, from a on.
Unfolds(f, n, S, a, g) ==
    f \in [0..n -> S] /\ f[0] = a /\ \A i \in 1..n : f[i] = g[i][f[i - 1]]

LEMMA RecursionExists ==
    ASSUME NEW n \in Nat, NEW S, NEW a \in S, NEW g \in Stages(n, S)
    PROVE  \E f : Unfolds(f, n, S, a, g)
  <1>. DEFINE P(m) == \E f \in [0..m -> S] : f[0] = a /\ \A i \in 1..m : f[i] = g[i][f[i - 1]]
              T == {m \in 0..n : ~ P(m)}
  <1>. USE DEF Stages
  <1>1. P(0)
    <2>. DEFINE f == [i \in 0..0 |-> a]
    <2>1. f \in [0..0 -> S] /\ f[0] = a
      OBVIOUS
    <2>2. \A i \in 1..0 : f[i] = g[i][f[i - 1]]
      OBVIOUS
    <2>. HIDE DEF f
    <2>. QED
      BY <2>1, <2>2
  <1>2. ASSUME NEW m \in 1..n, P(m - 1) PROVE P(m)
    <2>1. PICK f \in [0..(m - 1) -> S] :
                  f[0] = a /\ \A i \in 1..(m - 1) : f[i] = g[i][f[i - 1]]
      BY <1>2
    <2>. DEFINE h == [i \in 0..m |-> IF i = m THEN g[m][f[m - 1]] ELSE f[i]]
    <2>2. m - 1 \in 0..(m - 1) /\ g[m] \in [S -> S] /\ f[m - 1] \in S
      OBVIOUS
    <2>3. h \in [0..m -> S]
      <3>1. g[m][f[m - 1]] \in S
        BY <2>2
      <3>2. \A i \in 0..m : i # m => i \in 0..(m - 1)
        OBVIOUS
      <3>. QED
        BY <3>1, <3>2
    <2>4. h[0] = a
      BY <2>1
    <2>5. ASSUME NEW i \in 1..m PROVE h[i] = g[i][h[i - 1]]
      <3>1. h[i - 1] = f[i - 1]
        OBVIOUS
      <3>2. CASE i = m
        BY <3>1, <3>2
      <3>3. CASE i # m
        <4>1. i \in 1..(m - 1)
          BY <3>3
        <4>. QED
          BY <2>1, <3>1, <3>3, <4>1
      <3>. QED
        BY <3>2, <3>3
    <2>. HIDE DEF h
    <2>. QED
      BY <2>3, <2>4, <2>5
  <1>. HIDE DEF P
  <1>3. T = {}
    <2>. SUFFICES ASSUME T # {} PROVE FALSE
      OBVIOUS
    <2>1. T \in SUBSET Nat
      OBVIOUS
    <2>2. PICK m \in T : \A k \in T : m <= k
      BY <2>1, SmallestExists
    <2>3. m \in 1..n
      BY <1>1, <2>2
    <2>4. m - 1 \in 0..n /\ m - 1 \notin T
      BY <2>2, <2>3
    <2>. QED
      BY <1>2, <2>2, <2>3, <2>4
  <1>4. P(n)
    BY <1>3
  <1>. QED
    BY <1>4 DEF P, Unfolds

-----------------------------------------------------------------------------
(***************************************************************************)
(* What is made in the graphics API before the render pass.                *)
(***************************************************************************)

\* A list of what has been made for the first n of the attached views: no texture twice,
\* and a texture that is not external before each of its views.
MadeOK(list, n) ==
    /\ list \in Seq(Ids)
    /\ \A i \in 1..n : attachments.views[i] \in Elements(list)
    /\ \A i, j \in 1..Len(list) : list[i] \in Textures /\ list[i] = list[j] => i = j
    /\ \A j \in 1..Len(list) :
          list[j] \in Views /\ ~ resources[resources[list[j]].subjacent].external =>
              \E i \in 1..(j - 1) : list[i] = resources[list[j]].subjacent

\* A view that is attached, and its texture.
LEMMA AttachedViewFacts ==
    ASSUME Inv, NEW n \in 1..Len(attachments.views)
    PROVE  LET view == attachments.views[n]
               texture == resources[view].subjacent
           IN  /\ view \in Views /\ view \in Ids /\ view \notin Textures
               /\ texture \in Textures /\ texture \in Ids /\ texture \notin Views
               /\ Root[view] = texture
  <1>. DEFINE view == attachments.views[n]
  <1>1. view \in Views
    BY ElementOfSeq DEF Inv, AttachmentsOK
  <1>. HIDE DEF view
  <1>2. /\ resources[view].subjacent = Root[view] /\ Root[view] \in Textures
    BY <1>1, InvSubjacentIsRoot DEF SubjacentIsRoot
  <1>. QED
    BY <1>1, <1>2 DEF Views, Textures, view

LEMMA AppendedMade ==
    ASSUME Inv, NEW n \in 1..Len(attachments.views), NEW list, MadeOK(list, n - 1),
           LET texture == resources[attachments.views[n]].subjacent
           IN  resources[texture].external \/ texture \in Elements(list)
    PROVE  MadeOK(Append(list, attachments.views[n]), n)
  <1>. DEFINE view == attachments.views[n]
              texture == resources[view].subjacent
              longer == Append(list, view)
  <1>1. /\ view \in Views /\ view \in Ids /\ view \notin Textures
    BY AttachedViewFacts
  <1>. HIDE DEF view
  <1>2. /\ longer \in Seq(Ids) /\ Len(list) \in Nat /\ Len(longer) = Len(list) + 1
        /\ \A i \in 1..Len(list) : longer[i] = list[i]
        /\ longer[Len(list) + 1] = view
        /\ Elements(longer) = Elements(list) \cup {view}
    BY <1>1, AppendFacts DEF MadeOK
  <1>. HIDE DEF longer
  <1>3. \A i \in 1..n : attachments.views[i] \in Elements(longer)
    <2>1. \A i \in 1..n : i \in 1..(n - 1) \/ attachments.views[i] = view
      BY DEF view
    <2>. QED
      BY <1>2, <2>1 DEF MadeOK
  <1>4. \A i \in 1..Len(longer) : i \in 1..Len(list) \/ i = Len(list) + 1
    BY <1>2
  <1>5. \A i, j \in 1..Len(longer) : longer[i] \in Textures /\ longer[i] = longer[j] => i = j
    BY <1>1, <1>2, <1>4 DEF MadeOK
  <1>6. ASSUME NEW j \in 1..Len(longer), longer[j] \in Views,
               ~ resources[resources[longer[j]].subjacent].external
        PROVE  \E i \in 1..(j - 1) : longer[i] = resources[longer[j]].subjacent
    <2>1. CASE j \in 1..Len(list)
      <3>1. PICK i \in 1..(j - 1) : list[i] = resources[list[j]].subjacent
        BY <1>2, <1>6, <2>1 DEF MadeOK
      <3>2. i \in 1..Len(list)
        BY <1>2, <2>1
      <3>. QED
        BY <1>2, <2>1, <3>1, <3>2
    <2>2. CASE j = Len(list) + 1
      <3>1. texture \in Elements(list)
        BY <1>2, <1>6, <2>2 DEF view
      <3>2. PICK i \in 1..Len(list) : list[i] = texture
        BY <3>1 DEF Elements
      <3>. QED
        BY <1>2, <2>2, <3>2
    <2>. QED
      BY <1>4, <2>1, <2>2
  <1>7. MadeOK(longer, n)
    BY <1>2, <1>3, <1>5, <1>6 DEF MadeOK
  <1>. QED
    BY <1>7 DEF longer, view

LEMMA AppendedMadeOnDemand ==
    ASSUME Inv, NEW n \in 1..Len(attachments.views), NEW list, MadeOK(list, n - 1),
           resources[attachments.views[n]].subjacent \notin Elements(list)
    PROVE  LET view == attachments.views[n]
           IN  MadeOK(list \o <<resources[view].subjacent, view, view>>, n)
  <1>. DEFINE view == attachments.views[n]
              texture == resources[view].subjacent
              more == <<texture, view, view>>
              longer == list \o more
              m == Len(list)
  <1>1. /\ view \in Views /\ view \in Ids /\ view \notin Textures
        /\ texture \in Textures /\ texture \in Ids /\ texture \notin Views
    BY AttachedViewFacts
  <1>2. list \in Seq(Ids) /\ m \in Nat
    BY LenProperties DEF MadeOK
  <1>. HIDE DEF view, texture
  <1>3. /\ more \in Seq(Ids) /\ Len(more) = 3
        /\ more[1] = texture /\ more[2] = view /\ more[3] = view
    BY <1>1
  <1>4. /\ longer \in Seq(Ids) /\ Len(longer) = m + 3
        /\ \A i \in 1..m : longer[i] = list[i]
        /\ longer[m + 1] = texture /\ longer[m + 2] = view /\ longer[m + 3] = view
    <2>. HIDE DEF more
    <2>1. /\ longer \in Seq(Ids) /\ Len(longer) = Len(list) + Len(more)
          /\ \A i \in 1..(Len(list) + Len(more)) :
                longer[i] = IF i <= Len(list) THEN list[i] ELSE more[i - Len(list)]
      BY <1>2, <1>3, ConcatProperties
    <2>. HIDE DEF longer
    <2>2. /\ m + 1 \in 1..(m + 3) /\ m + 2 \in 1..(m + 3) /\ m + 3 \in 1..(m + 3)
          /\ ~ m + 1 <= m /\ ~ m + 2 <= m /\ ~ m + 3 <= m
          /\ (m + 1) - m = 1 /\ (m + 2) - m = 2 /\ (m + 3) - m = 3
          /\ \A i \in 1..m : i \in 1..(m + 3) /\ i <= m
      BY <1>2
    <2>. HIDE DEF m
    <2>3. \A i \in 1..(m + 3) : longer[i] = IF i <= m THEN list[i] ELSE more[i - m]
      BY <1>3, <2>1 DEF m
    <2>4. longer \in Seq(Ids) /\ Len(longer) = m + 3
      BY <1>3, <2>1 DEF m
    <2>5. /\ longer[m + 1] = more[(m + 1) - m]
          /\ longer[m + 2] = more[(m + 2) - m]
          /\ longer[m + 3] = more[(m + 3) - m]
      BY <2>2, <2>3
    <2>6. longer[m + 1] = texture /\ longer[m + 2] = view /\ longer[m + 3] = view
      BY <1>3, <2>2, <2>5
    <2>. QED
      BY <2>2, <2>3, <2>4, <2>6
  <1>. HIDE DEF longer, more
  <1>5. \A i \in 1..Len(longer) : i \in 1..m \/ i = m + 1 \/ i = m + 2 \/ i = m + 3
    BY <1>2, <1>4
  <1>6. \A i \in 1..n : attachments.views[i] \in Elements(longer)
    <2>1. \A i \in 1..n : i \in 1..(n - 1) \/ attachments.views[i] = view
      BY DEF view
    <2>2. Elements(list) \subseteq Elements(longer) /\ view \in Elements(longer)
      BY <1>2, <1>4 DEF Elements
    <2>. QED
      BY <2>1, <2>2 DEF MadeOK
  <1>7. \A i \in 1..m : list[i] # texture
    BY DEF Elements, texture, view
  <1>8. \A i, j \in 1..Len(longer) : longer[i] \in Textures /\ longer[i] = longer[j] => i = j
    <2>. SUFFICES ASSUME NEW i \in 1..Len(longer), NEW j \in 1..Len(longer),
                         longer[i] \in Textures, longer[i] = longer[j]
                  PROVE  i = j
      OBVIOUS
    <2>1. /\ i \in 1..m \/ i = m + 1
          /\ j \in 1..m \/ j = m + 1
      BY <1>1, <1>4, <1>5
    <2>2. CASE i \in 1..m /\ j \in 1..m
      <3>1. list[i] \in Textures /\ list[i] = list[j]
        BY <1>4, <2>2
      <3>. QED
        BY <2>2, <3>1 DEF MadeOK
    <2>. QED
      BY <1>4, <1>7, <2>1, <2>2
  <1>9. ASSUME NEW j \in 1..Len(longer), longer[j] \in Views,
               ~ resources[resources[longer[j]].subjacent].external
        PROVE  \E i \in 1..(j - 1) : longer[i] = resources[longer[j]].subjacent
    <2>1. CASE j \in 1..m
      <3>1. PICK i \in 1..(j - 1) : list[i] = resources[list[j]].subjacent
        BY <1>4, <1>9, <2>1 DEF MadeOK
      <3>2. i \in 1..m
        BY <1>2, <2>1
      <3>. QED
        BY <1>4, <2>1, <3>1, <3>2
    <2>2. CASE j # m + 1 /\ j \notin 1..m
      <3>1. longer[j] = view /\ m + 1 \in 1..(j - 1)
        BY <1>2, <1>4, <1>5, <2>2
      <3>. QED
        BY <1>4, <3>1 DEF texture
    <2>3. CASE j = m + 1
      BY <1>1, <1>4, <1>9, <2>3
    <2>. QED
      BY <2>1, <2>2, <2>3
  <1>10. MadeOK(longer, n)
    BY <1>4, <1>6, <1>8, <1>9 DEF MadeOK
  <1>. QED
    BY <1>10 DEF longer, more, texture, view

LEMMA InstantiatedStep ==
    ASSUME Inv, NEW n \in 1..Len(attachments.views), NEW list, MadeOK(list, n - 1)
    PROVE  MadeOK(InstantiatedWith(list, attachments.views[n]), n)
  <1>. DEFINE view == attachments.views[n]
              texture == resources[view].subjacent
  <1>1. CASE view \in Elements(list)
    <2>1. \A i \in 1..n : i \in 1..(n - 1) \/ attachments.views[i] = view
      OBVIOUS
    <2>2. MadeOK(list, n)
      BY <1>1, <2>1 DEF MadeOK
    <2>. QED
      BY <1>1, <2>2 DEF InstantiatedWith
  <1>2. CASE view \notin Elements(list) /\ ~ resources[texture].external /\ texture \notin Elements(list)
    BY <1>2, AppendedMadeOnDemand DEF InstantiatedWith
  <1>3. CASE view \notin Elements(list) /\ (resources[texture].external \/ texture \in Elements(list))
    BY <1>3, AppendedMade DEF InstantiatedWith
  <1>. QED
    BY <1>1, <1>2, <1>3

\* InstantiatedUpTo is what its recursion says.
LEMMA InstantiatedRecursion ==
    ASSUME Inv
    PROVE  /\ InstantiatedUpTo[0] = <<>>
           /\ \A n \in 1..Len(attachments.views) :
                 InstantiatedUpTo[n] = InstantiatedWith(InstantiatedUpTo[n - 1], attachments.views[n])
  <1>. DEFINE L == Len(attachments.views)
              F(f) == [n \in 0..L |-> IF n = 0 THEN <<>>
                                      ELSE InstantiatedWith(f[n - 1], attachments.views[n])]
              g == [n \in 1..L |-> [list \in Seq(Ids) |->
                                        InstantiatedWith(list, attachments.views[n])]]
  <1>1. L \in Nat
    BY LenProperties DEF Inv, AttachmentsOK
  <1>2. ASSUME NEW n \in 1..L, NEW list \in Seq(Ids)
        PROVE  InstantiatedWith(list, attachments.views[n]) \in Seq(Ids)
    <2>. DEFINE view == attachments.views[n]
                texture == resources[view].subjacent
    <2>1. view \in Ids /\ texture \in Ids
      BY AttachedViewFacts
    <2>. HIDE DEF view, texture
    <2>2. <<texture, view, view>> \in Seq(Ids) /\ Append(list, view) \in Seq(Ids)
      BY <2>1
    <2>3. list \o <<texture, view, view>> \in Seq(Ids)
      BY <2>2, ConcatProperties
    <2>. QED
      BY <2>2, <2>3 DEF InstantiatedWith, view, texture
  <1>3. g \in [1..L -> [Seq(Ids) -> Seq(Ids)]]
    BY <1>2
  <1>4. <<>> \in Seq(Ids)
    OBVIOUS
  <1>5. \A n \in 1..L, list \in Seq(Ids) : g[n][list] = InstantiatedWith(list, attachments.views[n])
    OBVIOUS
  <1>. HIDE DEF g
  <1>6. PICK f \in [0..L -> Seq(Ids)] : f[0] = <<>> /\ \A i \in 1..L : f[i] = g[i][f[i - 1]]
    <2>. DEFINE S == Seq(Ids)
                none == <<>>
    <2>1. none \in S /\ g \in Stages(L, S)
      BY <1>3, <1>4 DEF Stages
    <2>. HIDE DEF S, L, none, F
    <2>2. \E f : Unfolds(f, L, S, none, g)
      BY <1>1, <2>1, RecursionExists
    <2>. QED
      BY <2>2 DEF S, none, Unfolds
  <1>7. f = F(f)
    <2>1. \A i \in 1..L : f[i] = InstantiatedWith(f[i - 1], attachments.views[i])
      <3>. TAKE i \in 1..L
      <3>1. f[i - 1] \in Seq(Ids)
        BY <1>1
      <3>. QED
        BY <1>5, <1>6, <3>1
    <2>2. \A i \in 0..L : f[i] = IF i = 0 THEN <<>>
                                  ELSE InstantiatedWith(f[i - 1], attachments.views[i])
      BY <1>1, <1>6, <2>1
    <2>. QED
      BY <2>2
  <1>8. InstantiatedUpTo = CHOOSE h : h = F(h)
    BY DEF InstantiatedUpTo
  <1>9. InstantiatedUpTo = F(InstantiatedUpTo)
    <2>. HIDE DEF F
    <2>. QED
      BY <1>7, <1>8, Zenon
  <1>10. \A n \in 0..L : InstantiatedUpTo[n] =
             IF n = 0 THEN <<>>
             ELSE InstantiatedWith(InstantiatedUpTo[n - 1], attachments.views[n])
    <2>. DEFINE G(n) == IF n = 0 THEN <<>>
                        ELSE InstantiatedWith(InstantiatedUpTo[n - 1], attachments.views[n])
    <2>1. InstantiatedUpTo = [n \in 0..L |-> G(n)]
      BY <1>9
    <2>. HIDE DEF G
    <2>2. \A n \in 0..L : InstantiatedUpTo[n] = G(n)
      BY <2>1, Zenon
    <2>. QED
      BY <2>2 DEF G
  <1>11. 0 \in 0..L /\ \A n \in 1..L : n \in 0..L /\ n # 0
    BY <1>1
  <1>. QED
    BY <1>10, <1>11

LEMMA InstantiatedOK ==
    ASSUME Inv
    PROVE  MadeOK(Instantiated, Len(attachments.views))
  <1>. DEFINE L == Len(attachments.views)
              T == {n \in 0..L : ~ MadeOK(InstantiatedUpTo[n], n)}
  <1>1. L \in Nat
    BY LenProperties DEF Inv, AttachmentsOK
  <1>2. MadeOK(InstantiatedUpTo[0], 0)
    <2>. DEFINE none == InstantiatedUpTo[0]
    <2>1. none = <<>>
      BY InstantiatedRecursion
    <2>2. none \in Seq(Ids) /\ Len(none) = 0
      BY <2>1
    <2>. HIDE DEF none
    <2>3. MadeOK(none, 0)
      BY <2>2 DEF MadeOK
    <2>. QED
      BY <2>3 DEF none
  <1>3. T = {}
    <2>. SUFFICES ASSUME T # {} PROVE FALSE
      OBVIOUS
    <2>1. T \in SUBSET Nat
      OBVIOUS
    <2>2. PICK n \in T : \A k \in T : n <= k
      BY <2>1, SmallestExists
    <2>3. n \in 1..L /\ ~ MadeOK(InstantiatedUpTo[n], n)
      BY <1>2, <2>2
    <2>4. n - 1 \in 0..L /\ n - 1 \notin T
      BY <2>2, <2>3
    <2>5. MadeOK(InstantiatedUpTo[n - 1], n - 1)
      BY <2>4
    <2>. QED
      BY <2>3, <2>5, InstantiatedRecursion, InstantiatedStep
  <1>. QED
    BY <1>1, <1>3 DEF Instantiated

LEMMA InvTexturesReadyForViews == Inv => TexturesReadyForViews
  <1>. SUFFICES ASSUME Inv, NEW view \in Elements(attachments.views)
                PROVE  LET texture == Root[view]
                           made == {i \in DOMAIN Instantiated : Instantiated[i] = texture}
                       IN  /\ view \in Elements(Instantiated) /\ Made(view)
                           /\ ~ resources[texture].external =>
                                 /\ Cardinality(made) = 1
                                 /\ \A i \in made, j \in DOMAIN Instantiated :
                                       Instantiated[j] = view => i < j
                                 /\ UsageOf(resources[view].purpose) \in Bindings(texture)
    BY DEF TexturesReadyForViews
  <1>. DEFINE texture == Root[view]
              made == {i \in DOMAIN Instantiated : Instantiated[i] = texture}
  <1>1. PICK n \in 1..Len(attachments.views) : view = attachments.views[n]
    BY DEF Elements
  <1>2. /\ view \in Views /\ view \in Ids /\ texture \in Textures
        /\ texture = resources[view].subjacent
    BY <1>1, AttachedViewFacts
  <1>. HIDE DEF texture
  <1>3. MadeOK(Instantiated, Len(attachments.views))
    BY InstantiatedOK
  <1>4. DOMAIN Instantiated = 1..Len(Instantiated) /\ Len(Instantiated) \in Nat
    BY <1>3, LenProperties DEF MadeOK
  <1>5. view \in Elements(Instantiated)
    BY <1>1, <1>3 DEF MadeOK
  <1>6. resources[view].purpose \in AttachmentPurpose
    BY <1>1 DEF Inv, AttachmentsOK
  <1>7. Derived(view) /\ resources[view].kind = "TextureView"
    BY <1>2 DEF Inv, ResourcesOK, Views
  <1>8. /\ resources[view].mode \in AccessMode
        /\ UsageOf(resources[view].purpose) \in resources[texture].requested
    BY <1>2, <1>6, <1>7 DEF Derived, AttachmentPurpose
  <1>9. Made(view)
    BY <1>2, <1>8 DEF Made, AccessMode
  <1>10. UsageOf(resources[view].purpose) \in Bindings(texture)
    BY <1>6, <1>8 DEF Bindings, UsageOf, AttachmentPurpose
  <1>11. ASSUME ~ resources[texture].external
         PROVE  /\ Cardinality(made) = 1
                /\ \A i \in made, j \in DOMAIN Instantiated : Instantiated[j] = view => i < j
    <2>1. \A j \in 1..Len(Instantiated) : Instantiated[j] = view =>
             \E i \in 1..(j - 1) : Instantiated[i] = texture
      BY <1>2, <1>3, <1>11 DEF MadeOK
    <2>2. PICK j \in 1..Len(Instantiated) : Instantiated[j] = view
      BY <1>5 DEF Elements
    <2>3. PICK i \in 1..(j - 1) : Instantiated[i] = texture
      BY <2>1, <2>2
    <2>4. i \in DOMAIN Instantiated
      BY <1>4, <2>2, <2>3
    <2>5. \A k \in 1..Len(Instantiated) : Instantiated[k] = texture => k = i
      BY <1>2, <1>3, <1>4, <2>3, <2>4 DEF MadeOK
    <2>6. made = {i}
      BY <1>4, <2>3, <2>4, <2>5
    <2>7. Cardinality(made) = 1
      BY <2>6, FS_Singleton
    <2>8. ASSUME NEW k \in DOMAIN Instantiated, Instantiated[k] = view PROVE i < k
      <3>1. PICK h \in 1..(k - 1) : Instantiated[h] = texture
        BY <1>4, <2>1, <2>8
      <3>2. h \in 1..Len(Instantiated)
        BY <1>4, <3>1
      <3>. QED
        BY <1>4, <2>5, <3>1, <3>2
    <2>. QED
      BY <2>6, <2>7, <2>8
  <1>12. Root[view] = texture /\ made = {i \in DOMAIN Instantiated : Instantiated[i] = texture}
    BY DEF texture
  <1>. HIDE DEF made
  <1>. QED
    BY <1>5, <1>9, <1>10, <1>11, <1>12

\* However many views of however many textures are attached and shared, a texture is made
\* once, before its first view, for all its views ask of it, and every attached view is made.
THEOREM TexturesReadyForViewsInvariance == Spec => []TexturesReadyForViews
  BY InvTexturesReadyForViews, BuilderInvariance, PTL
-----------------------------------------------------------------------------
(***************************************************************************)
(* The two numberings of the attachments.  addAttachment numbers them in   *)
(* the order in which passes are spawned and ask: the one with a smaller   *)
(* number was asked for by an earlier pass, or before by the same pass.    *)
(***************************************************************************)

\* The pass asked for attachment i before its n-th attachment, or an earlier pass did.
AskedBefore(assigned, p, n, i) ==
    \/ \E q \in Pass : q < p /\ i \in Elements(assigned[q])
    \/ \E m \in 1..(n - 1) : assigned[p][m] = i

NumberedAsAsked ==
    /\ \A i \in 1..Len(attachments.views) :
          \E p \in Pass : i \in Elements(attachments.assigned[p])
    /\ \A p \in Pass : attachments.assigned[p] # <<>> => p \in Spawned
    /\ \A p \in Pass : \A n \in 1..Len(attachments.assigned[p]) :
          \A i \in 1..(attachments.assigned[p][n] - 1) :
              AskedBefore(attachments.assigned, p, n, i)

\* What a step does to the attachments: nothing, or the pass being set up, which is the
\* last one spawned, is assigned a number.
Assigns(index) ==
    /\ setup \in Spawned /\ setup = spawned - 1 /\ spawned' = spawned
    /\ index \in 1..Len(attachments'.views)
    /\ \/ attachments'.views = attachments.views
       \/ index = Len(attachments.views) + 1 /\ Len(attachments'.views) = index
    /\ attachments'.assigned =
          [attachments.assigned EXCEPT ![setup] = Append(@, index)]

LEMMA AttachedAssigns ==
    ASSUME Inv, setup # NoPass, spawned' = spawned,
           NEW list \in {"color", "depth", "input"}, NEW image, NEW view,
           attachments' = Attached(list, setup, image, view)
    PROVE  \E index : Assigns(index)
  <1>. DEFINE n == Len(attachments.views)
              known == \E i \in 1..n : attachments.views[i] = view
              index == IF known
                       THEN CHOOSE i \in 1..n : attachments.views[i] = view
                       ELSE n + 1
              views == IF known THEN attachments.views ELSE Append(attachments.views, view)
              assigned == [attachments.assigned EXCEPT ![setup] = Append(@, index)]
  <1>1. /\ attachments \in
              [views : Seq(Views), images : Seq(Textures), assigned : [Pass -> Seq(Nat)],
               color : Seq(Nat), depth : Seq(Nat), input : Seq(Nat)]
        /\ attachments.views \in Seq(Views) /\ n \in Nat
    BY LenProperties DEF Inv, AttachmentsOK
  <1>2. setup \in Spawned /\ setup = spawned - 1 /\ spawned \in Nat
    BY PassFacts DEF Inv, SetupOK, Spawned
  <1>3. attachments'.views = views /\ attachments'.assigned = assigned
    <2>1. list # "views" /\ list # "assigned"
      OBVIOUS
    <2>. QED
      BY <1>1, <2>1 DEF Attached
  <1>4. CASE known
    <2>1. index \in 1..n /\ views = attachments.views
      BY <1>4
    <2>. HIDE DEF index, views
    <2>. QED
      BY <1>2, <1>3, <2>1 DEF Assigns
  <1>5. CASE ~ known
    <2>1. index = n + 1 /\ views = Append(attachments.views, view)
      BY <1>5
    <2>2. Len(views) = n + 1
      BY <1>1, <2>1
    <2>. HIDE DEF index, views
    <2>3. index \in 1..Len(views) /\ Len(views) = index
      BY <1>1, <2>1, <2>2
    <2>. HIDE DEF assigned
    <2>4. attachments'.assigned = assigned /\ attachments'.views = views
      BY <1>3
    <2>5. index = Len(attachments.views) + 1
      BY <2>1
    <2>. QED
      BY <1>2, <2>3, <2>4, <2>5 DEF Assigns, assigned
  <1>. QED
    BY <1>4, <1>5

\* Every step leaves the attachments alone or assigns one.
LEMMA AttachmentsStep ==
    ASSUME Inv, [Next]_vars
    PROVE  \/ attachments' = attachments /\ Spawned \subseteq Spawned'
           \/ \E index : Assigns(index)
  <1>1. ASSUME NEW call, NEW source, NEW purpose, NEW format, NEW range, NEW mode,
               UseTexture(call, source, purpose, format, range, mode)
        PROVE  \/ attachments' = attachments /\ Spawned \subseteq Spawned'
               \/ \E index : Assigns(index)
    <2>1. spawned' = spawned /\ setup # NoPass
      BY <1>1 DEF UseTexture, InSetup
    <2>2. \/ attachments' = attachments
          \/ \E list \in {"color", "depth", "input"} : \E image, view :
                attachments' = Attached(list, setup, image, view)
      BY <1>1 DEF UseTexture
    <2>. QED
      BY <2>1, <2>2, AttachedAssigns DEF Spawned
  <1>2. ASSUME NEW call, NEW source, NEW format, NEW range, NEW mode,
               PassOn(call, source, format, range, mode)
        PROVE  attachments' = attachments /\ Spawned \subseteq Spawned'
    BY <1>2 DEF PassOn, Spawned
  <1>3. CASE SpawnPass
    <2>1. spawned \in Nat
      BY PassFacts DEF Inv, SetupOK
    <2>. QED
      BY <1>3, <2>1 DEF SpawnPass, setupVars, Spawned
  <1>4. ASSUME Build, ~ SpawnPass
        PROVE  \/ attachments' = attachments /\ Spawned \subseteq Spawned'
               \/ \E index : Assigns(index)
    BY <1>1, <1>2, <1>4
       DEF Build, FinishSetup, FailSetup, CreateTexture, RegisterTexture,
           RegisterRenderables, UseMesh, UseMaterial, RegisterOpaque, WriteColor, WriteDepth,
           ReadAttachment, ReadTexture, ForwardTexture, AcceptTexture, CreatePassDependency,
           setupVars, Spawned
  <1>5. ASSUME \/ Compile \/ CompileStep \/ Built \/ UNCHANGED vars
        PROVE  attachments' = attachments /\ Spawned \subseteq Spawned'
    BY <1>5 DEF Compile, CompileStep, CollectPass, StartSort, SortStep, FinishCompile, Built,
                vars, setupVars, Spawned
  <1>. QED
    BY <1>3, <1>4, <1>5 DEF Next

LEMMA NumberedStart == Init => NumberedAsAsked
  <1>. SUFFICES ASSUME Init PROVE NumberedAsAsked
    OBVIOUS
  <1>1. /\ attachments.views = <<>> /\ \A p \in Pass : attachments.assigned[p] = <<>>
    BY DEF Init, NoAttachments
  <1>. QED
    BY <1>1 DEF NumberedAsAsked

LEMMA NumberedStep == Inv /\ NumberedAsAsked /\ [Next]_vars => NumberedAsAsked'
  <1>. SUFFICES ASSUME Inv, NumberedAsAsked, [Next]_vars PROVE NumberedAsAsked'
    OBVIOUS
  <1>1. CASE attachments' = attachments /\ Spawned \subseteq Spawned'
    BY <1>1 DEF NumberedAsAsked
  <1>2. ASSUME NEW index, Assigns(index) PROVE NumberedAsAsked'
    <2>. DEFINE old == attachments.assigned
                new == attachments'.assigned
    <2>1. /\ old \in [Pass -> Seq(Nat)] /\ Len(attachments.views) \in Nat
          /\ setup \in Pass /\ setup = spawned - 1 /\ spawned \in Nat
          /\ index \in Nat /\ Spawned' = Spawned /\ setup \in Spawned
      BY <1>2, PassFacts, LenProperties DEF Inv, AttachmentsOK, Assigns, SetupOK, Spawned
    <2>2. /\ \A p \in Pass : p # setup => new[p] = old[p]
          /\ new[setup] = Append(old[setup], index)
      BY <1>2, <2>1 DEF Assigns
    <2>. HIDE DEF old, new
    <2>3. /\ Len(old[setup]) \in Nat /\ Len(new[setup]) = Len(old[setup]) + 1
          /\ \A n \in 1..Len(old[setup]) : new[setup][n] = old[setup][n]
          /\ new[setup][Len(old[setup]) + 1] = index
          /\ Elements(new[setup]) = Elements(old[setup]) \cup {index}
      BY <2>1, <2>2, AppendFacts
    <2>4. \A p \in Pass : Elements(old[p]) \subseteq Elements(new[p])
      BY <2>2, <2>3
    <2>5. \A i \in 1..Len(attachments'.views) : i \in 1..Len(attachments.views) \/ i = index
      BY <1>2, <2>1 DEF Assigns
    <2>6. \A i \in 1..Len(attachments'.views) : \E p \in Pass : i \in Elements(new[p])
      <3>1. \A i \in 1..Len(attachments.views) : \E p \in Pass : i \in Elements(old[p])
        BY DEF NumberedAsAsked, old
      <3>2. index \in Elements(new[setup])
        BY <2>3
      <3>. QED
        BY <2>1, <2>4, <2>5, <3>1, <3>2
    <2>7. \A p \in Pass : new[p] # <<>> => p \in Spawned'
      BY <2>1, <2>2 DEF NumberedAsAsked, old
    <2>8. ASSUME NEW p \in Pass, NEW n \in 1..Len(new[p]), NEW i \in 1..(new[p][n] - 1)
          PROVE  AskedBefore(new, p, n, i)
      <3>1. CASE p # setup \/ n \in 1..Len(old[p])
        <4>1. n \in 1..Len(old[p]) /\ new[p][n] = old[p][n]
          BY <2>2, <2>3, <2>8, <3>1
        <4>2. AskedBefore(old, p, n, i)
          BY <2>8, <4>1 DEF NumberedAsAsked, old
        <4>3. ASSUME NEW m \in 1..(n - 1), old[p][m] = i PROVE new[p][m] = i
          <5>1. Len(old[p]) \in Nat
            BY <2>1, LenProperties
          <5>2. m \in 1..Len(old[p])
            BY <4>1, <5>1
          <5>. QED
            BY <2>2, <2>3, <4>3, <5>2
        <4>. QED
          BY <2>4, <4>2, <4>3 DEF AskedBefore
      <3>2. CASE p = setup /\ n = Len(old[p]) + 1
        <4>1. i \in 1..Len(attachments.views)
          BY <1>2, <2>1, <2>3, <2>8, <3>2 DEF Assigns
        <4>2. PICK q \in Pass : i \in Elements(old[q])
          BY <4>1 DEF NumberedAsAsked, old
        <4>3. old[q] # <<>>
          BY <4>2, ElementsFacts
        <4>4. q \in Spawned
          BY <4>3 DEF NumberedAsAsked, old
        <4>5. CASE q # setup
          <5>1. q < setup
            BY <2>1, <4>4, <4>5 DEF Spawned
          <5>. QED
            BY <2>4, <3>2, <4>2, <5>1 DEF AskedBefore
        <4>6. CASE q = setup
          <5>1. PICK m \in 1..Len(old[setup]) : i = old[setup][m]
            BY <4>2, <4>6 DEF Elements
          <5>2. m \in 1..(n - 1) /\ new[p][m] = i
            BY <2>3, <3>2, <5>1
          <5>. QED
            BY <5>2 DEF AskedBefore
        <4>. QED
          BY <4>5, <4>6
      <3>3. n \in 1..Len(old[p]) \/ (p = setup => n = Len(old[p]) + 1)
        BY <2>3, <2>8
      <3>. QED
        BY <3>1, <3>2, <3>3
    <2>. QED
      BY <2>6, <2>7, <2>8 DEF NumberedAsAsked, new
  <1>. QED
    BY <1>1, <1>2, AttachmentsStep
\* WithViews adds the views one after another.
LEMMA WithViewsRecursion ==
    ASSUME NEW S, NEW list \in Seq(S), NEW views \in Seq(S)
    PROVE  \E f \in [0..Len(views) -> Seq(S)] :
              /\ f[0] = list /\ f[Len(views)] = WithViews(list, views)
              /\ \A n \in 1..Len(views) : f[n] = WithView(f[n - 1], views[n])
  <1>. DEFINE L == Len(views)
              T == Seq(S)
              F(f) == [n \in 0..L |-> IF n = 0 THEN list ELSE WithView(f[n - 1], views[n])]
              g == [n \in 1..L |-> [l \in T |-> WithView(l, views[n])]]
              unfolded == CHOOSE f : f = F(f)
  <1>1. L \in Nat
    BY LenProperties
  <1>2. ASSUME NEW n \in 1..L, NEW l \in T PROVE WithView(l, views[n]) \in T
    <2>1. views[n] \in S
      BY ElementOfSeq
    <2>2. Append(l, views[n]) \in T
      BY <2>1, AppendFacts
    <2>. QED
      BY <2>2 DEF WithView
  <1>3. g \in Stages(L, T)
    BY <1>2 DEF Stages
  <1>4. \A n \in 1..L, l \in T : g[n][l] = WithView(l, views[n])
    OBVIOUS
  <1>5. list \in T
    OBVIOUS
  <1>6. WithViews(list, views) = unfolded[L]
    BY DEF WithViews
  <1>. HIDE DEF g, T, L
  <1>7. PICK f : Unfolds(f, L, T, list, g)
    BY <1>1, <1>3, <1>5, RecursionExists
  <1>8. /\ f \in [0..L -> T] /\ f[0] = list
        /\ \A n \in 1..L : f[n] = WithView(f[n - 1], views[n])
    <2>1. \A n \in 1..L : n - 1 \in 0..L
      BY <1>1
    <2>. QED
      BY <1>4, <1>7, <2>1 DEF Unfolds
  <1>9. f = F(f)
    <2>1. \A n \in 0..L : f[n] = IF n = 0 THEN list ELSE WithView(f[n - 1], views[n])
      BY <1>1, <1>8
    <2>. QED
      BY <1>8, <2>1
  <1>10. unfolded = F(unfolded)
    <2>. HIDE DEF F
    <2>. QED
      BY <1>9, Zenon
  <1>11. \A n \in 0..L : unfolded[n] = IF n = 0 THEN list ELSE WithView(unfolded[n - 1], views[n])
    <2>. HIDE DEF unfolded
    <2>. DEFINE G(n) == IF n = 0 THEN list ELSE WithView(unfolded[n - 1], views[n])
    <2>1. unfolded = [n \in 0..L |-> G(n)]
      BY <1>10
    <2>. HIDE DEF G
    <2>2. \A n \in 0..L : unfolded[n] = G(n)
      BY <2>1, Zenon
    <2>. QED
      BY <2>2 DEF G
  <1>. HIDE DEF unfolded
  <1>12. f = unfolded
    <2>. DEFINE D == {n \in 0..L : f[n] # unfolded[n]}
    <2>1. D = {}
      <3>. SUFFICES ASSUME D # {} PROVE FALSE
        OBVIOUS
      <3>1. D \in SUBSET Nat
        OBVIOUS
      <3>2. PICK n \in D : \A k \in D : n <= k
        BY <3>1, SmallestExists
      <3>3. 0 \in 0..L /\ f[0] = unfolded[0]
        BY <1>1, <1>8, <1>11
      <3>4. n \in 1..L
        BY <3>2, <3>3
      <3>5. n - 1 \in 0..L /\ n - 1 \notin D
        <4>. HIDE DEF D
        <4>1. n \in Nat /\ n - 1 \in 0..L /\ ~ n <= n - 1
          BY <1>1, <3>4
        <4>. QED
          BY <3>2, <4>1
      <3>6. f[n - 1] = unfolded[n - 1]
        BY <3>5
      <3>. QED
        BY <1>8, <1>11, <3>2, <3>4, <3>6
    <2>2. \A n \in 0..L : f[n] = unfolded[n]
      BY <2>1
    <2>3. unfolded = [n \in 0..L |-> unfolded[n]]
      BY <1>10
    <2>. QED
      BY <1>8, <2>2, <2>3
  <1>13. L \in 0..L
    BY <1>1
  <1>. QED
    BY <1>6, <1>8, <1>12 DEF L, T

\* BoundUpTo is what its recursion says.
LEMMA BoundRecursion ==
    ASSUME Inv, phase = "compiled"
    PROVE  /\ BoundUpTo[0] = <<>>
           /\ \A k \in 1..Len(order) : BoundUpTo[k] = WithViews(BoundUpTo[k - 1], AttachedViews(k))
  <1>. DEFINE L == Len(order)
              T == Seq(Views)
              none == <<>>
              F(f) == [k \in 0..L |-> IF k = 0 THEN none ELSE WithViews(f[k - 1], AttachedViews(k))]
              g == [k \in 1..L |-> [l \in T |-> WithViews(l, AttachedViews(k))]]
  <1>1. L \in Nat
    BY OrderFacts
  <1>2. ASSUME NEW k \in 1..L, NEW l \in T PROVE WithViews(l, AttachedViews(k)) \in T
    <2>1. AttachedViews(k) \in Seq(Views) /\ Len(AttachedViews(k)) \in Nat
      BY AttachedViewsSeq
    <2>2. PICK f \in [0..Len(AttachedViews(k)) -> T] :
                  f[Len(AttachedViews(k))] = WithViews(l, AttachedViews(k))
      BY <2>1, WithViewsRecursion
    <2>3. Len(AttachedViews(k)) \in 0..Len(AttachedViews(k))
      BY <2>1
    <2>. QED
      BY <2>2, <2>3
  <1>3. g \in Stages(L, T)
    BY <1>2 DEF Stages
  <1>4. \A k \in 1..L, l \in T : g[k][l] = WithViews(l, AttachedViews(k))
    OBVIOUS
  <1>5. none \in T
    OBVIOUS
  <1>6. BoundUpTo = CHOOSE f : f = F(f)
    BY DEF BoundUpTo
  <1>. HIDE DEF g, T, L, none
  <1>7. PICK f : Unfolds(f, L, T, none, g)
    BY <1>1, <1>3, <1>5, RecursionExists
  <1>8. /\ f \in [0..L -> T] /\ f[0] = none
        /\ \A k \in 1..L : f[k] = WithViews(f[k - 1], AttachedViews(k))
    <2>1. \A k \in 1..L : k - 1 \in 0..L
      BY <1>1
    <2>. QED
      BY <1>4, <1>7, <2>1 DEF Unfolds
  <1>9. f = F(f)
    <2>1. \A k \in 0..L : f[k] = IF k = 0 THEN none ELSE WithViews(f[k - 1], AttachedViews(k))
      BY <1>1, <1>8
    <2>. QED
      BY <1>8, <2>1
  <1>10. BoundUpTo = F(BoundUpTo)
    <2>. HIDE DEF F
    <2>. QED
      BY <1>6, <1>9, Zenon
  <1>11. \A k \in 0..L : BoundUpTo[k] =
             IF k = 0 THEN none ELSE WithViews(BoundUpTo[k - 1], AttachedViews(k))
    <2>. DEFINE G(k) == IF k = 0 THEN none ELSE WithViews(BoundUpTo[k - 1], AttachedViews(k))
    <2>1. BoundUpTo = [k \in 0..L |-> G(k)]
      BY <1>10
    <2>. HIDE DEF G
    <2>2. \A k \in 0..L : BoundUpTo[k] = G(k)
      BY <2>1, Zenon
    <2>. QED
      BY <2>2 DEF G
  <1>12. 0 \in 0..L /\ \A k \in 1..L : k \in 0..L /\ k # 0
    BY <1>1
  <1>. QED
    BY <1>11, <1>12 DEF L, none
\* A list begins like the attached views.
Agrees(list) ==
    /\ list \in Seq(Views)
    /\ Len(list) <= Len(attachments.views)
    /\ \A i \in 1..Len(list) : list[i] = attachments.views[i]

\* It has what the first k passes of the execution order attached.
Covers(list, k) ==
    \A j \in 1..k : \A i \in Elements(attachments.assigned[ExecutionOrder[j]]) : i <= Len(list)

\* A view that is listed is found at its number, and one that is not listed gets it.
LEMMA WithViewAgrees ==
    ASSUME Inv, NEW list, Agrees(list), NEW index \in 1..Len(attachments.views),
           index <= Len(list) + 1
    PROVE  LET longer == WithView(list, attachments.views[index])
           IN  Agrees(longer) /\ Len(list) <= Len(longer) /\ index <= Len(longer)
  <1>. DEFINE view == attachments.views[index]
  <1>1. view \in Views /\ list \in Seq(Views) /\ Len(list) \in Nat
    BY AttachedViewFacts, LenProperties DEF Agrees
  <1>2. CASE view \in Elements(list)
    <2>1. PICK i \in 1..Len(list) : list[i] = view
      BY <1>2 DEF Elements
    <2>2. i \in 1..Len(attachments.views) /\ attachments.views[i] = view
      BY <1>1, <2>1 DEF Agrees, Inv, AttachmentsOK
    <2>3. i = index
      BY <2>2 DEF Inv, AttachmentsOK
    <2>. QED
      BY <1>1, <1>2, <2>1, <2>3 DEF WithView
  <1>3. CASE view \notin Elements(list)
    <2>1. index \notin 1..Len(list)
      BY <1>3 DEF Agrees, Elements
    <2>2. index = Len(list) + 1
      BY <1>1, <2>1
    <2>. DEFINE longer == Append(list, view)
    <2>3. /\ longer \in Seq(Views) /\ Len(longer) = Len(list) + 1
          /\ \A i \in 1..Len(list) : longer[i] = list[i]
          /\ longer[Len(list) + 1] = view
      BY <1>1, AppendFacts
    <2>4. WithView(list, view) = longer
      BY <1>3 DEF WithView
    <2>. HIDE DEF longer
    <2>5. \A i \in 1..Len(longer) : longer[i] = attachments.views[i]
      BY <1>1, <2>2, <2>3 DEF Agrees
    <2>6. Agrees(longer)
      BY <2>2, <2>3, <2>5 DEF Agrees
    <2>. QED
      BY <1>1, <2>2, <2>3, <2>4, <2>6
  <1>. QED
    BY <1>2, <1>3

\* Passes run as they were spawned, and all that attach something run.
RunAsSpawned ==
    /\ \A j, k \in DOMAIN ExecutionOrder : j < k => ExecutionOrder[j] < ExecutionOrder[k]
    /\ \A p \in DOMAIN attachments.assigned :
          attachments.assigned[p] # <<>> => p \in Elements(ExecutionOrder)

\* Whatever has a smaller number than an attachment of a subpass was attached by an
\* earlier one, or before by the same.
LEMMA SmallerNumbers ==
    ASSUME Inv, NumberedAsAsked, phase = "compiled", RunAsSpawned,
           NEW k \in 1..Len(order), NEW n \in 1..Len(attachments.assigned[ExecutionOrder[k]]),
           NEW i \in 1..(attachments.assigned[ExecutionOrder[k]][n] - 1)
    PROVE  \/ \E j \in 1..(k - 1) : i \in Elements(attachments.assigned[ExecutionOrder[j]])
           \/ \E m \in 1..(n - 1) : attachments.assigned[ExecutionOrder[k]][m] = i
  <1>. DEFINE p == ExecutionOrder[k]
  <1>1. /\ p \in Pass /\ DOMAIN ExecutionOrder = 1..Len(order) /\ Len(order) \in Nat
        /\ DOMAIN attachments.assigned = Pass
    BY ExecutionFacts, OrderFacts, PassFacts DEF Inv, AttachmentsOK
  <1>2. AskedBefore(attachments.assigned, p, n, i)
    BY <1>1 DEF NumberedAsAsked
  <1>3. ASSUME NEW q \in Pass, q < p, i \in Elements(attachments.assigned[q])
        PROVE  \E j \in 1..(k - 1) : i \in Elements(attachments.assigned[ExecutionOrder[j]])
    <2>1. attachments.assigned[q] # <<>>
      BY <1>3, ElementsFacts
    <2>2. q \in Elements(ExecutionOrder)
      BY <1>1, <2>1 DEF RunAsSpawned
    <2>3. Len(ExecutionOrder) = Len(order)
      BY ExecutionFacts
    <2>4. PICK j \in 1..Len(order) : q = ExecutionOrder[j]
      BY <2>2, <2>3 DEF Elements
    <2>5. j < k
      <3>1. q \in Nat /\ p \in Nat
        BY <1>1 DEF Pass
      <3>2. j # k
        BY <1>3, <2>4, <3>1
      <3>3. ~ k < j
        BY <1>1, <1>3, <2>4, <3>1 DEF RunAsSpawned
      <3>. QED
        BY <1>1, <3>2, <3>3
    <2>. QED
      BY <1>1, <1>3, <2>4, <2>5
  <1>. QED
    BY <1>2, <1>3 DEF AskedBefore

\* The views of a subpass are bound at the numbers they were attached with.
LEMMA SubpassAgrees ==
    ASSUME Inv, NumberedAsAsked, phase = "compiled", RunAsSpawned,
           NEW k \in 1..Len(order), NEW list, Agrees(list), Covers(list, k - 1)
    PROVE  LET longer == WithViews(list, AttachedViews(k))
           IN  Agrees(longer) /\ Covers(longer, k)
  <1>. DEFINE assigned == attachments.assigned[ExecutionOrder[k]]
              L == Len(AttachedViews(k))
  <1>1. /\ L \in Nat /\ L = Len(assigned)
        /\ AttachedViews(k) \in Seq(Views)
        /\ \A n \in 1..L : /\ assigned[n] \in 1..Len(attachments.views)
                           /\ AttachedViews(k)[n] = attachments.views[assigned[n]]
    BY AttachedViewsFacts, AttachedViewsSeq
  <1>2. list \in Seq(Views) /\ Len(list) \in Nat
    BY LenProperties DEF Agrees
  <1>3. \E f \in [0..L -> Seq(Views)] :
              /\ f[0] = list /\ f[L] = WithViews(list, AttachedViews(k))
              /\ \A n \in 1..L : f[n] = WithView(f[n - 1], AttachedViews(k)[n])
    <2>. DEFINE views == AttachedViews(k)
                S == Views
    <2>1. views \in Seq(S) /\ list \in Seq(S)
      BY <1>1, <1>2
    <2>. HIDE DEF views, S
    <2>2. \E f \in [0..Len(views) -> Seq(S)] :
              /\ f[0] = list /\ f[Len(views)] = WithViews(list, views)
              /\ \A n \in 1..Len(views) : f[n] = WithView(f[n - 1], views[n])
      BY <2>1, WithViewsRecursion
    <2>. QED
      BY <2>2 DEF views, S
  <1>4. PICK f \in [0..L -> Seq(Views)] :
              /\ f[0] = list /\ f[L] = WithViews(list, AttachedViews(k))
              /\ \A n \in 1..L : f[n] = WithView(f[n - 1], AttachedViews(k)[n])
    BY <1>3
  <1>. DEFINE C(n) == /\ Agrees(f[n]) /\ Len(list) <= Len(f[n])
                      /\ \A m \in 1..n : assigned[m] <= Len(f[n])
              T == {n \in 0..L : ~ C(n)}
  <1>5. C(0)
    BY <1>2, <1>4
  <1>6. ASSUME NEW n \in 1..L, C(n - 1) PROVE C(n)
    <2>. DEFINE before == f[n - 1]
                index == assigned[n]
    <2>1. Agrees(before) /\ before \in Seq(Views) /\ Len(before) \in Nat
      BY <1>6, LenProperties DEF Agrees
    <2>2. index \in 1..Len(attachments.views) /\ index \in Nat
      BY <1>1
    <2>3. f[n] = WithView(before, attachments.views[index])
      BY <1>1, <1>4
    <2>4. \A m \in 1..(n - 1) : assigned[m] <= Len(before)
      BY <1>6
    <2>5. Len(list) <= Len(before)
      BY <1>6
    <2>. HIDE DEF before
    <2>6. index <= Len(before) + 1
      <3>. SUFFICES ASSUME ~ index <= Len(before) + 1 PROVE FALSE
        OBVIOUS
      <3>. DEFINE i == Len(before) + 1
      <3>1. i \in 1..(assigned[n] - 1) /\ n \in 1..Len(assigned) /\ ~ i <= Len(before)
        BY <1>1, <2>1, <2>2
      <3>. HIDE DEF i
      <3>2. \/ \E j \in 1..(k - 1) : i \in Elements(attachments.assigned[ExecutionOrder[j]])
            \/ \E m \in 1..(n - 1) : assigned[m] = i
        BY <3>1, SmallerNumbers
      <3>3. ASSUME NEW j \in 1..(k - 1), i \in Elements(attachments.assigned[ExecutionOrder[j]])
            PROVE  FALSE
        <4>1. i <= Len(list)
          BY <3>3 DEF Covers
        <4>. QED
          BY <1>2, <2>1, <2>5, <3>1, <4>1
      <3>. QED
        BY <2>4, <3>1, <3>2, <3>3
    <2>7. Agrees(f[n]) /\ Len(before) <= Len(f[n]) /\ index <= Len(f[n])
      BY <2>1, <2>2, <2>3, <2>6, WithViewAgrees
    <2>8. Len(f[n]) \in Nat /\ n \in 0..L
      BY <2>7, LenProperties DEF Agrees
    <2>9. ASSUME NEW m \in 1..n PROVE assigned[m] <= Len(f[n])
      <3>1. CASE m = n
        BY <2>7, <3>1
      <3>2. CASE m # n
        <4>1. m \in 1..(n - 1) /\ m \in 1..L
          BY <1>1, <3>2
        <4>2. assigned[m] <= Len(before) /\ assigned[m] \in Nat
          BY <1>1, <2>4, <4>1
        <4>. QED
          BY <2>1, <2>7, <2>8, <4>2
      <3>. QED
        BY <3>1, <3>2
    <2>. QED
      BY <1>2, <2>1, <2>5, <2>7, <2>8, <2>9
  <1>. HIDE DEF C
  <1>7. T = {}
    <2>. SUFFICES ASSUME T # {} PROVE FALSE
      OBVIOUS
    <2>1. T \in SUBSET Nat
      OBVIOUS
    <2>2. PICK n \in T : \A m \in T : n <= m
      BY <2>1, SmallestExists
    <2>3. n \in 1..L /\ ~ C(n)
      BY <1>5, <2>2
    <2>4. n - 1 \in 0..L /\ ~ n <= n - 1
      BY <1>1, <2>3
    <2>5. C(n - 1)
      BY <2>2, <2>4
    <2>. QED
      BY <1>6, <2>3, <2>5
  <1>8. C(L)
    BY <1>1, <1>7
  <1>9. Agrees(f[L]) /\ Len(list) <= Len(f[L]) /\ \A m \in 1..L : assigned[m] <= Len(f[L])
    BY <1>8 DEF C
  <1>10. Len(f[L]) \in Nat
    BY <1>9, LenProperties DEF Agrees
  <1>11. ASSUME NEW j \in 1..k, NEW i \in Elements(attachments.assigned[ExecutionOrder[j]])
         PROVE  i <= Len(f[L])
    <2>1. CASE j = k
      <3>1. PICK m \in 1..L : i = assigned[m]
        BY <1>1, <1>11, <2>1 DEF Elements
      <3>. QED
        BY <1>9, <3>1
    <2>2. CASE j # k
      <3>1. j \in 1..(k - 1) /\ j \in 1..Len(order)
        BY <2>2, OrderFacts
      <3>2. i <= Len(list)
        BY <1>11, <3>1 DEF Covers
      <3>3. i \in Nat
        BY <3>1, <1>11, AttachedViewsFacts DEF Elements
      <3>. QED
        BY <1>2, <1>9, <1>10, <3>2, <3>3
    <2>. QED
      BY <2>1, <2>2
  <1>. QED
    BY <1>4, <1>9, <1>11 DEF Covers

LEMMA BoundAgrees ==
    ASSUME Inv, NumberedAsAsked, phase = "compiled", RunAsSpawned
    PROVE  Agrees(FrameBufferViews) /\ Covers(FrameBufferViews, Len(order))
  <1>. DEFINE C(k) == Agrees(BoundUpTo[k]) /\ Covers(BoundUpTo[k], k)
              T == {k \in 0..Len(order) : ~ C(k)}
  <1>1. Len(order) \in Nat /\ Len(attachments.views) \in Nat
    BY OrderFacts, LenProperties DEF Inv, AttachmentsOK
  <1>2. C(0)
    <2>. DEFINE none == BoundUpTo[0]
    <2>1. none = <<>>
      BY BoundRecursion
    <2>2. none \in Seq(Views) /\ Len(none) = 0
      BY <2>1
    <2>. HIDE DEF none
    <2>3. Agrees(none) /\ Covers(none, 0)
      BY <1>1, <2>2 DEF Agrees, Covers
    <2>. QED
      BY <2>3 DEF none
  <1>3. ASSUME NEW k \in 1..Len(order), C(k - 1) PROVE C(k)
    BY <1>3, BoundRecursion, SubpassAgrees
  <1>. HIDE DEF C
  <1>4. T = {}
    <2>. SUFFICES ASSUME T # {} PROVE FALSE
      OBVIOUS
    <2>1. T \in SUBSET Nat
      OBVIOUS
    <2>2. PICK k \in T : \A m \in T : k <= m
      BY <2>1, SmallestExists
    <2>3. k \in 1..Len(order) /\ ~ C(k)
      BY <1>2, <2>2
    <2>4. k - 1 \in 0..Len(order) /\ ~ k <= k - 1
      BY <1>1, <2>3
    <2>5. C(k - 1)
      BY <2>2, <2>4
    <2>. QED
      BY <1>3, <2>3, <2>5
  <1>5. C(Len(order))
    BY <1>1, <1>4
  <1>. QED
    BY <1>5 DEF C, FrameBufferViews

LEMMA InvAttachmentsNumberedAlike == Inv /\ NumberedAsAsked => AttachmentsNumberedAlike
  <1>. SUFFICES ASSUME Inv, NumberedAsAsked, RenderPassDerived, RunAsSpawned,
                       NEW k \in DOMAIN ExecutionOrder,
                       NEW kind \in {"color", "depth", "input"},
                       NEW i \in SubpassDescription(k)[kind]
                PROVE  i <= Len(FrameBufferViews) /\ FrameBufferViews[i] = attachments.views[i]
    BY DEF AttachmentsNumberedAlike, RunAsSpawned
  <1>1. phase = "compiled" /\ k \in 1..Len(order) /\ Len(order) \in Nat
    BY ExecutionFacts, OrderFacts DEF RenderPassDerived
  <1>2. i \in Elements(attachments.assigned[ExecutionOrder[k]])
    BY DEF SubpassDescription
  <1>3. i \in 1..Len(attachments.views)
    BY <1>1, <1>2, AttachedViewsFacts DEF Elements
  <1>4. Agrees(FrameBufferViews) /\ Covers(FrameBufferViews, Len(order))
    BY <1>1, BoundAgrees
  <1>5. i <= Len(FrameBufferViews)
    BY <1>1, <1>2, <1>4 DEF Covers
  <1>6. Len(FrameBufferViews) \in Nat
    BY <1>4, LenProperties DEF Agrees
  <1>. QED
    BY <1>3, <1>4, <1>5, <1>6 DEF Agrees

\* However views are shared: when passes run as they were spawned and none that attaches
\* something is left out, the attachment a subpass refers to is the view its pass asked for.
THEOREM AttachmentsNumberedAlikeInvariance == Spec => []AttachmentsNumberedAlike
  <1>1. Init => NumberedAsAsked
    BY NumberedStart
  <1>2. Inv /\ NumberedAsAsked /\ [Next]_vars => NumberedAsAsked'
    BY NumberedStep
  <1>3. Inv /\ NumberedAsAsked => AttachmentsNumberedAlike
    BY InvAttachmentsNumberedAlike
  <1>. QED
    BY <1>1, <1>2, <1>3, BuilderInvariance, PTL DEF Spec
==============================================================================
