-------------------------- MODULE FrameGraphBuilder --------------------------
(***************************************************************************)
(* CGraphBuilder and CPassBuilder: the passes of a frame are spawned one   *)
(* after another; the setup function of a pass creates textures and asks   *)
(* for views of textures and of other views; compile turns the views into  *)
(* edges between passes and sorts the passes into an execution order.      *)
(*                                                                         *)
(* A pass is its uid, and its name is taken to be unique.  A subresource   *)
(* range is one range of slices: array slices and mip levels go through    *)
(* the same computations.  Errors of collectPass cannot occur here, since  *)
(* every id a pass references was handed out by the resource registry.     *)
(***************************************************************************)
EXTENDS Naturals, Sequences, FiniteSets

CONSTANTS
    MaxPass,                \* bound on the pass uids
    MaxResource,            \* bound on the resource ids
    MaxReferences,          \* bound on the references of one pass
    MaxDependency,          \* bound on the dependencies asked for by name
    Calls,                  \* the builder operations the passes make use of
    Sizes,                  \* slices of the textures that are created
    Ranges,                 \* ranges of slices that are asked for
    Formats,                \* formats of the textures that are created
    Requested,              \* formats that are asked for
    FormatClass,            \* nearestPowerOf2Ceil of the value of each format
    Permitted,              \* the permitted usages textures are created with
    Validating              \* SHIRABE_DEBUG or SHIRABE_TEST is defined

AllCalls ==
    {"createTexture", "importTexture", "registerTexture", "registerRenderables",
     "writeColor", "writeDepth", "readAttachment", "readTexture",
     "forwardTexture", "acceptTexture", "useMesh", "useMaterial",
     "createPassDependency", "failSetup"}

\* No image can be viewed in one of these.
Indefinite == {"Undefined", "Structured", "Automatic"}

Usages == {"InputAttachment", "ColorAttachment", "DepthAttachment", "SampledImage"}

ASSUME BoundsAssumption ==
    /\ MaxPass \in Nat /\ MaxResource \in Nat /\ MaxReferences \in Nat
    /\ MaxDependency \in Nat
ASSUME CallsAssumption == Calls \subseteq AllCalls /\ Validating \in BOOLEAN
ASSUME DataAssumption ==
    /\ Sizes \subseteq Nat \ {0}
    /\ Ranges \subseteq [offset : Nat, length : Nat]
    /\ Formats \cap Indefinite = {}
    /\ \A f \in Formats \cup (Requested \ Indefinite) : FormatClass[f] \in Nat
    /\ \A u \in Permitted : u \subseteq Usages

Pass == 0..MaxPass
PseudoPass == 0                 \* spawned by initialize, always succeeds
NoPass == MaxPass + 1           \* no setup function is running
NoResource == 0                 \* SHIRABE_FRAMEGRAPH_UNDEFINED_RESOURCE

VARIABLES
    spawned,                    \* number of passes added to the graph so far
    named,                      \* mPasses of the builder: passes found by name
    setup,                      \* the pass whose setup function is running
    phase,                      \* where the build of the frame stands
    resources,                  \* mResourceData: the resource with id i is resources[i]
    references,                 \* mResourceReferences of each pass
    attachments,                \* SFrameGraphAttachmentCollection
    collected,                  \* passes collectPass has processed
    adjacency,                  \* mPassAdjacency
    pending, frames, visited, order,    \* topologicalSort
    dependencies                \* history: dependencies asked for by name

sortVars == <<pending, frames, visited, order>>
setupVars == <<resources, references, attachments>>
vars == <<spawned, named, setup, phase, setupVars, collected, adjacency, sortVars,
          dependencies>>

Sort == INSTANCE TopologicalSort WITH Adjacencies <- {}

Spawned == 0..(spawned - 1)
Elements(s) == {s[i] : i \in 1..Len(s)}
Ids == 1..Len(resources)
Textures == {r \in Ids : resources[r].kind = "Texture"}
Views == {r \in Ids : resources[r].kind = "TextureView"}
NewId == Len(resources) + 1

-----------------------------------------------------------------------------
(***************************************************************************)
(* Resources.                                                              *)
(***************************************************************************)

Texture(id, p, size, format, permitted, external) ==
    [kind |-> "Texture", pass |-> p, parent |-> NoResource, subjacent |-> id,
     referenceCount |-> 0, external |-> external, size |-> size, format |-> format,
     permitted |-> permitted, requested |-> {}]

View(p, source, subjacent, range, format, purpose, mode) ==
    [kind |-> "TextureView", pass |-> p, parent |-> source, subjacent |-> subjacent,
     referenceCount |-> 1, range |-> range, format |-> format, purpose |-> purpose,
     mode |-> mode]

\* Renderable lists, meshes and materials.
Opaque(kind, p, external) ==
    [kind |-> kind, pass |-> p, parent |-> NoResource, subjacent |-> NoResource,
     referenceCount |-> 0, external |-> external]

\* Mutant: a view over a view takes the view for its texture.
SubjacentParent(source) ==
    IF resources[source].kind = "Texture" THEN source ELSE resources[source].parent

\* The texture a request on a texture or a view is about.
Subjacent(source) ==
    IF resources[source].kind = "Texture" THEN source ELSE resources[source].subjacent

\* findSubjacentResource: follow the parents to the resource without one.
Root ==
    LET root[r \in Ids] ==
            IF resources[r].parent = NoResource THEN r ELSE root[resources[r].parent]
    IN  root

\* adjustArrayAndMipSliceRanges: a range on a view starts at the view's first
\* slice. Ranges out of bounds are only reported; no caller looks at the result.
Adjusted(source, range) ==
    IF resources[source].kind = "TextureView"
    THEN [range EXCEPT !.offset = @ + resources[source].range.offset]
    ELSE range

\* findDuplicateTextureView: the views a request can be answered with. Only a
\* request on a view is looked up.
Duplicates(source, format, purpose, range, mode) ==
    {v \in Views :
        /\ resources[source].kind = "TextureView"
        /\ resources[v].range = range
        /\ format = "Automatic" \/ resources[v].format = format
        /\ resources[v].purpose = purpose
        /\ resources[v].mode = mode
        /\ resources[v].subjacent = Subjacent(source)}

Oldest(S) == CHOOSE v \in S : \A w \in S : v <= w

\* The usage a view asks of its texture.
UsageOf(purpose) == IF purpose = "ShaderInput" THEN "SampledImage" ELSE purpose

-----------------------------------------------------------------------------
(***************************************************************************)
(* Attachments: parallel lists of views and of their images, lists of      *)
(* positions in them per kind of attachment, and per pass.                 *)
(***************************************************************************)

NoAttachments ==
    [views |-> <<>>, images |-> <<>>, assigned |-> [p \in Pass |-> <<>>],
     color |-> <<>>, depth |-> <<>>, input |-> <<>>]

\* Mutant: the image is listed again when the view is known already.
AttachedTwice(list, p, image, view) ==
    LET known == \E i \in 1..Len(attachments.views) : attachments.views[i] = view
        index == IF known
                 THEN CHOOSE i \in 1..Len(attachments.views) : attachments.views[i] = view
                 ELSE Len(attachments.views) + 1
    IN  [attachments EXCEPT !.views = IF known THEN @ ELSE Append(@, view),
                            !.images = Append(@, image),
                            !.assigned[p] = Append(@, index),
                            ![list] = Append(@, index)]

\* addAttachment, and the list of the kind of attachment.
Attached(list, p, image, view) ==
    LET known == \E i \in 1..Len(attachments.views) : attachments.views[i] = view
        index == IF known
                 THEN CHOOSE i \in 1..Len(attachments.views) : attachments.views[i] = view
                 ELSE Len(attachments.views) + 1
        added == [attachments EXCEPT !.views = IF known THEN @ ELSE Append(@, view),
                                     !.images = IF known THEN @ ELSE Append(@, image),
                                     !.assigned[p] = Append(@, index)]
    IN  [added EXCEPT ![list] = Append(@, index)]

-----------------------------------------------------------------------------
(***************************************************************************)
(* Building: passes and their setup functions.                             *)
(***************************************************************************)

\* CGraphBuilder after initialize.
Init ==
    /\ spawned = 1
    /\ named = {PseudoPass}
    /\ setup = NoPass
    /\ phase = "building"
    /\ resources = <<>>
    /\ references = [p \in Pass |-> <<>>]
    /\ attachments = NoAttachments
    /\ collected = {}
    /\ adjacency = <<>>
    /\ pending = {} /\ frames = <<>> /\ visited = {} /\ order = <<>>
    /\ dependencies = {}

Idle == phase = "building" /\ setup = NoPass
InSetup(call) == phase = "building" /\ setup # NoPass /\ call \in Calls

\* spawnPass: the pass is part of the graph before its setup function is called.
SpawnPass ==
    /\ Idle
    /\ spawned <= MaxPass
    /\ spawned' = spawned + 1
    /\ setup' = spawned
    /\ UNCHANGED <<named, phase, setupVars, collected, adjacency, sortVars, dependencies>>

\* setup returns Ok: the builder knows the pass from now on.
FinishSetup ==
    /\ phase = "building" /\ setup # NoPass
    /\ named' = named \cup {setup}
    /\ setup' = NoPass
    /\ UNCHANGED <<spawned, phase, setupVars, collected, adjacency, sortVars, dependencies>>

\* setup returns an error or throws: spawnPass returns without taking anything back.
FailSetup ==
    /\ InSetup("failSetup")
    /\ setup' = NoPass
    /\ UNCHANGED <<spawned, named, phase, setupVars, collected, adjacency, sortVars,
                   dependencies>>

\* registerResource of the pass.
Reference(p, r) ==
    /\ Len(references[p]) < MaxReferences
    /\ references' = [references EXCEPT ![p] = Append(@, r)]

\* createTexture, and importTexture when external.
CreateTexture(size, format, permitted, external) ==
    /\ InSetup(IF external THEN "importTexture" ELSE "createTexture")
    /\ NewId <= MaxResource
    /\ resources' = Append(resources, Texture(NewId, setup, size, format, permitted, external))
    /\ Reference(setup, NewId)
    /\ UNCHANGED <<spawned, named, setup, phase, attachments, collected, adjacency,
                   sortVars, dependencies>>

\* registerTexture: the external texture belongs to the pseudo pass. Its subjacent
\* resource keeps the default of SFrameGraphResource.
RegisterTexture(size, format, permitted) ==
    /\ Idle /\ "registerTexture" \in Calls
    /\ NewId <= MaxResource
    /\ resources' = Append(resources,
                           [Texture(NewId, PseudoPass, size, format, permitted, TRUE)
                               EXCEPT !.subjacent = NoResource])
    /\ Reference(PseudoPass, NewId)
    /\ UNCHANGED <<spawned, named, setup, phase, attachments, collected, adjacency,
                   sortVars, dependencies>>

\* registerRenderables, useMesh and useMaterial: no pass references the resource.
RegisterOpaque(call, kind, p, external) ==
    /\ IF call = "registerRenderables" THEN Idle /\ call \in Calls ELSE InSetup(call)
    /\ NewId <= MaxResource
    /\ resources' = Append(resources, Opaque(kind, p, external))
    /\ UNCHANGED <<spawned, named, setup, phase, references, attachments, collected,
                   adjacency, sortVars, dependencies>>

RegisterRenderables == RegisterOpaque("registerRenderables", "RenderableList", PseudoPass, TRUE)
UseMesh == RegisterOpaque("useMesh", "Mesh", setup, FALSE)
UseMaterial == RegisterOpaque("useMaterial", "Material", setup, FALSE)

\* Mutant: the texture is not told of its view.
SpawnViewUncounted(subjacent, usage, view) ==
    resources' = Append([resources EXCEPT ![subjacent].requested = @ \cup usage], view)

\* A new view counts as one more reference of its texture.
SpawnView(subjacent, usage, view) ==
    resources' = Append([resources EXCEPT ![subjacent].referenceCount = @ + 1,
                                          ![subjacent].requested = @ \cup usage],
                        view)

\* useTexture: an equal view is shared when the request is on a view, and then
\* stays assigned to the pass that asked first. The overlap checks of
\* validateArrayAndMipSliceRanges only report (see SubresourceChecks).
UseTexture(call, source, purpose, format, range, mode) ==
    LET adjusted == Adjusted(source, range)
        twins == Duplicates(source, format, purpose, adjusted, mode)
        view == IF twins = {} THEN NewId ELSE Oldest(twins)
    IN  /\ InSetup(call)
        /\ Reference(setup, view)
        /\ \/ /\ twins # {}
              /\ resources' = [resources EXCEPT ![view].referenceCount = @ + 1]
           \/ /\ twins = {}
              /\ NewId <= MaxResource
              /\ SpawnView(Subjacent(source), {UsageOf(purpose)},
                           View(setup, source, Subjacent(source), adjusted, format,
                                purpose, mode))
        /\ attachments' =
               CASE call = "writeColor" -> Attached("color", setup, Subjacent(source), view)
                 [] call = "writeDepth" -> Attached("depth", setup, Subjacent(source), view)
                 [] call = "readAttachment" -> Attached("input", setup, Subjacent(source), view)
                 [] OTHER -> attachments
        /\ UNCHANGED <<spawned, named, setup, phase, collected, adjacency, sortVars,
                       dependencies>>

WriteColor(source, format, range) ==
    UseTexture("writeColor", source, "ColorAttachment", format, range, "Write")

WriteDepth(source, format, range) ==
    UseTexture("writeDepth", source, "DepthAttachment", format, range, "Write")
ReadAttachment(source, format, range) ==
    UseTexture("readAttachment", source, "InputAttachment", format, range, "Read")
ReadTexture(source, format, range) ==
    UseTexture("readTexture", source, "ShaderInput", format, range, "Read")

\* forwardTexture and acceptTexture: when an equal view exists its status is taken
\* for an error and the call returns having done nothing.
PassOn(call, source, format, range, mode) ==
    LET adjusted == Adjusted(source, range)
    IN  /\ InSetup(call)
        /\ NewId <= MaxResource
        /\ Duplicates(source, format, "Undefined", adjusted, mode) = {}
        /\ Reference(setup, NewId)
        /\ SpawnView(Subjacent(source), {},
                     View(setup, source, Subjacent(source), adjusted, format, "Undefined", mode))
        /\ UNCHANGED <<spawned, named, setup, phase, attachments, collected, adjacency,
                       sortVars, dependencies>>

ForwardTexture(source, format, range) ==
    PassOn("forwardTexture", source, format, range, "Forward")

\* A pass accepts a view that was forwarded to it, with the format and range of the view.
AcceptTexture(source) ==
    /\ source \in Views
    /\ PassOn("acceptTexture", source, resources[source].format, resources[source].range,
              "Accept")

\* createPassDependencyByUID: the edge is added unless the list has it already.
WithEdge(edges, p, q) ==
    LET targets == IF p \in DOMAIN edges THEN edges[p] ELSE <<>>
        extended == IF q \in Elements(targets) THEN targets ELSE Append(targets, q)
    IN  [s \in DOMAIN edges \cup {p} |-> IF s = p THEN extended ELSE edges[s]]

\* createPassDependency: both passes must be known by name.
CreatePassDependency(p, q) ==
    /\ Idle /\ "createPassDependency" \in Calls
    /\ p \in named /\ q \in named
    /\ Cardinality(dependencies) < MaxDependency
    /\ adjacency' = WithEdge(adjacency, p, q)
    /\ dependencies' = dependencies \cup {<<p, q>>}
    /\ UNCHANGED <<spawned, named, setup, phase, setupVars, collected, sortVars>>

-----------------------------------------------------------------------------
(***************************************************************************)
(* compile.                                                                *)
(***************************************************************************)

Compile ==
    /\ Idle
    /\ phase' = "collecting"
    /\ UNCHANGED <<spawned, named, setup, setupVars, collected, adjacency, sortVars,
                   dependencies>>

ReferencedViews(p) == {r \in Elements(references[p]) : resources[r].parent # NoResource}

\* Mutant: the pass that made the texture, not the one that made the parent.
SourcesOfTexture(p) ==
    {resources[resources[r].subjacent].pass : r \in ReferencedViews(p)} \ {p}

\* The passes that own what the views of p were derived from.
Sources(p) ==
    {resources[resources[r].parent].pass : r \in ReferencedViews(p)} \ {p}

\* Mutant: the edges lead from the pass to what it depends on.
CollectPassReversed(p) ==
    /\ phase = "collecting"
    /\ p \in Spawned \ collected
    /\ collected' = collected \cup {p}
    /\ \E list \in [1..Cardinality(Sources(p)) -> Sources(p)] :
          /\ Elements(list) = Sources(p)
          /\ adjacency' = IF list = <<>> THEN adjacency
                          ELSE [s \in DOMAIN adjacency \cup {p} |->
                                   IF s = p THEN list ELSE adjacency[s]]
    /\ UNCHANGED <<spawned, named, setup, phase, setupVars, sortVars, dependencies>>

\* Mutant: the edges of a source begin anew.
CollectPassForgetsEdges(p) ==
    /\ phase = "collecting"
    /\ p \in Spawned \ collected
    /\ collected' = collected \cup {p}
    /\ adjacency' =
          [s \in DOMAIN adjacency \cup Sources(p) |->
              IF s \in Sources(p) THEN <<p>> ELSE adjacency[s]]
    /\ UNCHANGED <<spawned, named, setup, phase, setupVars, sortVars, dependencies>>

\* collectPass, in any order of the pass map: edges from the owners of the parent
\* resources, and the format of the texture for views that left it open.
CollectPass(p) ==
    /\ phase = "collecting"
    /\ p \in Spawned \ collected
    /\ collected' = collected \cup {p}
    /\ adjacency' =
          [s \in DOMAIN adjacency \cup Sources(p) |->
              IF s \in Sources(p) THEN WithEdge(adjacency, s, p)[s] ELSE adjacency[s]]
    /\ resources' =
          [r \in Ids |->
              IF /\ r \in ReferencedViews(p)
                 /\ resources[r].format = "Automatic"
              THEN [resources[r] EXCEPT !.format = resources[resources[r].subjacent].format]
              ELSE resources[r]]
    /\ UNCHANGED <<spawned, named, setup, phase, references, attachments, sortVars,
                   dependencies>>

\* All passes are collected: topologicalSort begins.
StartSort ==
    /\ phase = "collecting"
    /\ collected = Spawned
    /\ phase' = "sorting"
    /\ pending' = DOMAIN adjacency
    /\ UNCHANGED <<spawned, named, setup, setupVars, collected, adjacency, frames, visited,
                   order, dependencies>>

\* Mutant: a visited dependent leaves the loop over the edges at the same edge.
SortStepStuck ==
    /\ phase = "sorting"
    /\ (\E p \in Pass : Sort!VisitRoot(p)) \/ Sort!FollowEdgeStuck \/ Sort!PushVertex
    /\ UNCHANGED <<spawned, named, setup, phase, setupVars, collected, dependencies>>

\* One step of topologicalSort.
SortStep ==
    /\ phase = "sorting"
    /\ Sort!Step
    /\ UNCHANGED <<spawned, named, setup, phase, setupVars, collected, dependencies>>

\* Mutant: the end of the range is not looked at.
ValidViewStart(v) ==
    LET view == resources[v]
        texture == resources[view.subjacent]
    IN  /\ texture.requested \subseteq texture.permitted
        /\ view.format \notin Indefinite
        /\ FormatClass[view.format] = FormatClass[texture.format]
        /\ view.range.offset < texture.size

\* validateTextureView: usage, format and range of a view against its texture.
ValidView(v) ==
    LET view == resources[v]
        texture == resources[view.subjacent]
    IN  /\ texture.requested \subseteq texture.permitted
        /\ view.format \notin Indefinite
        /\ FormatClass[view.format] = FormatClass[texture.format]
        /\ view.range.offset < texture.size
        /\ view.range.offset + view.range.length <= texture.size

\* After the sort: validate, and hand everything over to the graph.
FinishCompile ==
    /\ phase = "sorting"
    /\ Sort!Sorted
    /\ phase' = IF Validating => \A v \in Views : ValidView(v) THEN "compiled" ELSE "failed"
    /\ UNCHANGED <<spawned, named, setup, setupVars, collected, adjacency, sortVars,
                   dependencies>>

\* The renderer makes a new builder for the next frame.
Built == phase \in {"compiled", "failed"} /\ UNCHANGED vars

Build ==
    \/ SpawnPass \/ FinishSetup \/ FailSetup
    \/ \E size \in Sizes, format \in Formats, permitted \in Permitted :
          \/ \E external \in BOOLEAN : CreateTexture(size, format, permitted, external)
          \/ RegisterTexture(size, format, permitted)
    \/ RegisterRenderables \/ UseMesh \/ UseMaterial
    \/ \E source \in Textures \cup Views, format \in Requested,
           range \in Ranges :
          \/ WriteColor(source, format, range) \/ WriteDepth(source, format, range)
          \/ ReadAttachment(source, format, range) \/ ReadTexture(source, format, range)
          \/ ForwardTexture(source, format, range)
    \/ \E source \in Views : AcceptTexture(source)
    \/ \E p, q \in Pass : CreatePassDependency(p, q)

CompileStep ==
    (\E p \in Pass : CollectPass(p)) \/ StartSort \/ SortStep \/ FinishCompile

Next == Build \/ Compile \/ CompileStep \/ Built

Spec == Init /\ [][Next]_vars

\* compile is one call: it runs to its end.
FairSpec == Spec /\ WF_vars(CompileStep)
-----------------------------------------------------------------------------
(***************************************************************************)
(* Properties.                                                             *)
(***************************************************************************)

ResourceOK(r) ==
    /\ resources[r].kind \in {"Texture", "TextureView", "RenderableList", "Mesh", "Material"}
    /\ resources[r].pass \in Spawned
    /\ resources[r].parent \in 0..(r - 1)
    /\ resources[r].subjacent \in 0..r
    /\ resources[r].referenceCount \in Nat

TypeOK ==
    /\ spawned \in 1..(MaxPass + 1)
    /\ named \subseteq Spawned
    /\ setup \in Spawned \cup {NoPass}
    /\ phase \in {"building", "collecting", "sorting", "compiled", "failed"}
    /\ Len(resources) <= MaxResource
    /\ \A r \in Ids : ResourceOK(r)
    /\ references \in [Pass -> Seq(Ids)]
    /\ attachments.views \in Seq(Views)
    /\ attachments.images \in Seq(Textures)
    /\ collected \subseteq Spawned
    /\ Sort!TypeOK
    /\ Elements(order) \subseteq Spawned

\* The field subjacentResource, which a view copies from what it is derived
\* from, is the resource that following the parents leads to: the shortcut the
\* builder takes everywhere agrees with findSubjacentResource.
SubjacentIsRoot ==
    \A v \in Views :
        /\ resources[v].subjacent = Root[v]
        /\ Root[v] \in Textures

\* An edge that was not asked for by name leads from a pass to one that was
\* spawned later. The data flow of a frame alone can therefore never make a
\* cycle, in whatever order the passes are collected.
EdgesFollowSpawning ==
    \A p \in DOMAIN adjacency :
        \A q \in Elements(adjacency[p]) : p < q \/ <<p, q>> \in dependencies

\* Popping the order runs p before q.
RunsBefore(p, q) ==
    \E i, j \in 1..Len(order) : j < i /\ order[i] = p /\ order[j] = q

\* In a compiled graph the pass that owns what a referenced view was derived
\* from runs before the pass that references the view, when the dependencies
\* asked for by name do not contradict each other or the data flow.
SourcesRunFirst ==
    phase = "compiled" /\ Sort!Acyclic =>
        \A p \in Spawned :
            \A v \in ReferencedViews(p) :
                LET owner == resources[resources[v].parent].pass
                IN  owner # p => RunsBefore(owner, p)

\* A pass that is never executed is one that neither reads from nor is read by another,
\* and that no dependency was asked for by name.
OnlyIsolatedOmitted ==
    phase \in {"compiled", "failed"} =>
        \A p \in Spawned \ Elements(order) :
            /\ Sources(p) = {}
            /\ \A q \in Spawned : p \notin Sources(q) /\ {<<p, q>>, <<q, p>>} \cap dependencies = {}

\* The attachment lists stay parallel while passes share views: an index of a
\* pass denotes a view the pass references, at the position of its own image,
\* and a view sits in one list per kind only, the one its purpose names.
AttachmentsConsistent ==
    LET views == attachments.views
    IN  /\ Len(attachments.images) = Len(views)
        /\ \A i, j \in 1..Len(views) : views[i] = views[j] => i = j
        /\ \A i \in 1..Len(views) : attachments.images[i] = Root[views[i]]
        /\ \A p \in Pass :
              \A i \in Elements(attachments.assigned[p]) :
                  i \in 1..Len(views) /\ views[i] \in Elements(references[p])
        /\ \A i \in Elements(attachments.color) :
              resources[views[i]].purpose = "ColorAttachment"
        /\ \A i \in Elements(attachments.depth) :
              resources[views[i]].purpose = "DepthAttachment"
        /\ \A i \in Elements(attachments.input) :
              resources[views[i]].purpose = "InputAttachment"

\* The reference counts the graph releases resources by: a texture is counted
\* once for each view over it, a view once for each time a pass was given it.
ReferenceCounts ==
    /\ \A t \in Textures :
          resources[t].referenceCount = Cardinality({v \in Views : Root[v] = t})
    /\ \A v \in Views :
          resources[v].referenceCount =
              Cardinality({use \in Pass \X (1..MaxReferences) :
                               use[2] <= Len(references[use[1]]) /\ references[use[1]][use[2]] = v})

\* A compiled graph holds no view whose format was left open, whoever asked for
\* it; and in a validating build no view reaches beyond its texture or asks for a
\* usage the texture was not created for.
CompiledViewsUsable ==
    phase = "compiled" =>
        \A v \in Views :
            LET texture == resources[Root[v]]
            IN  /\ resources[v].format # "Automatic"
                /\ Validating =>
                      /\ resources[v].range.offset + resources[v].range.length <= texture.size
                      /\ resources[v].purpose # "Undefined" =>
                            UsageOf(resources[v].purpose) \in texture.permitted

\* A call of compile returns: with a graph, or with the failed validation.
CompileReturns == phase = "collecting" ~> phase \in {"compiled", "failed"}
==============================================================================
