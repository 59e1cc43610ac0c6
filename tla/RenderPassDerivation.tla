------------------------- MODULE RenderPassDerivation -------------------------
(***************************************************************************)
(* initializeResources, createRenderPass and bindRenderPass: what execute  *)
(* and the render context make of a compiled graph.  Each pass of the      *)
(* execution order becomes a subpass of one render pass; the attachments   *)
(* of the render pass are the attached views, and the frame buffer is the  *)
(* list of views bound to them.                                            *)
(*                                                                         *)
(* Subpasses and attachments are counted from 1. A stage with its access   *)
(* is named by the kind of attachment that is accessed there. All textures *)
(* of a graph have one width and height here, so that of the dimensions of *)
(* an attachment only its number of layers can differ.                     *)
(***************************************************************************)
EXTENDS FrameGraphBuilder
Seqs == INSTANCE SequencesExt

\* VK_SUBPASS_EXTERNAL is the number before that of the first subpass.
External == 0

\* execute: the passes from the top of mPassExecutionOrder.
ExecutionOrder == Seqs!Reverse(order)

AttachedViews(k) ==
    [i \in DOMAIN attachments.assigned[ExecutionOrder[k]] |->
        attachments.views[attachments.assigned[ExecutionOrder[k]][i]]]

\* Where the search for a pass in the order ends: behind it if it is not there.
SubpassOf(p) ==
    IF p \in Elements(order)
    THEN CHOOSE k \in DOMAIN ExecutionOrder : ExecutionOrder[k] = p
    ELSE Len(order) + 1

-----------------------------------------------------------------------------
(***************************************************************************)
(* initializeResources: the attached views and their textures are made in  *)
(* the graphics API before the render pass is.                             *)
(***************************************************************************)

\* A texture is made on demand, unless it is external; the view is then noted twice.
InstantiatedWith(made, view) ==
    LET texture == resources[view].subjacent
        onDemand == ~ resources[texture].external /\ texture \notin Elements(made)
    IN  IF view \in Elements(made) THEN made
        ELSE IF onDemand THEN made \o <<texture, view, view>> ELSE Append(made, view)

\* initializeTextureView: nothing is made for a view that passes a view on.
Made(view) == view \in Views /\ resources[view].mode \notin {"Forward", "Accept"}

\* mInstantiatedResources of a graph, which is new in every frame: with the first n of
\* the attached views, and with all of them.
InstantiatedUpTo ==
    LET made[n \in 0..Len(attachments.views)] ==
            IF n = 0 THEN <<>> ELSE InstantiatedWith(made[n - 1], attachments.views[n])
    IN  made
Instantiated == InstantiatedUpTo[Len(attachments.views)]

\* Mutant: depth attachments are forgotten.
BindingsWithoutDepth(texture) ==
    resources[texture].requested \cap {"ColorAttachment", "InputAttachment"}

\* createTexture: the texture can be bound as what was asked of it while the graph
\* was built.
Bindings(texture) ==
    resources[texture].requested \cap {"ColorAttachment", "DepthAttachment", "InputAttachment"}

-----------------------------------------------------------------------------
(***************************************************************************)
(* createRenderPass.                                                       *)
(***************************************************************************)

\* findAttachmentRelationFn: the view is on one of the lists of indices.
Listed(list, view) ==
    \E i \in Elements(list) : i <= Len(attachments.views) /\ attachments.views[i] = view

Kind(view) ==
    IF Listed(attachments.color, view) THEN "color"
    ELSE IF Listed(attachments.depth, view) THEN "depth"
    ELSE IF Listed(attachments.input, view) THEN "input" ELSE "none"

Layers(view) == resources[view].range.length

\* Every pass has attachments, or the lookup of its list throws; and all attachments
\* have the layers of the first one, which is not empty, or an error is returned.
Derivable ==
    /\ \A k \in DOMAIN ExecutionOrder : AttachedViews(k) # <<>>
    /\ \A k \in DOMAIN ExecutionOrder : \A view \in Elements(AttachedViews(k)) :
          Layers(view) > 0 /\ Layers(view) = Layers(AttachedViews(1)[1])

\* Mutant: the pass before is waited for, whichever pass the parent is from.
WaitedForPrevious(k, view) ==
    LET parent == resources[view].parent
    IN  IF resources[parent].kind = "TextureView"
        THEN [src |-> k - 1, after |-> Kind(parent)]
        ELSE [src |-> External, after |-> "memory"]

\* What the subpass waits for before it accesses a view: the subpass that owns the
\* view it was derived from, or what happened to its texture before the render pass.
WaitedFor(k, view) ==
    LET parent == resources[view].parent
    IN  IF resources[parent].kind = "TextureView"
        THEN [src |-> SubpassOf(resources[parent].pass), after |-> Kind(parent)]
        ELSE [src |-> External, after |-> "memory"]

\* The dependency of a subpass for one of its views.
Dependency(k, view) ==
    [src |-> WaitedFor(k, view).src, after |-> WaitedFor(k, view).after,
     dst |-> k, before |-> Kind(view)]

\* addIfNotAddedYet makes a set of the list. The first subpass waits for nothing but
\* the initial dependencies; without passes the last subpass is External.
SubpassDependencies ==
    [src : {External}, after : {"memory"}, dst : {1}, before : {"color", "depth"}]
    \cup (UNION {{Dependency(k, view) : view \in Elements(AttachedViews(k))} :
                    k \in DOMAIN ExecutionOrder \ {1}})
    \cup [src : {Len(order)}, after : {"color", "depth"}, dst : {External},
          before : {"memory"}]

\* The references of a subpass: an attachment is the position of the view's image.
SubpassDescription(k) ==
    [kind \in {"color", "depth", "input"} |->
        {i \in Elements(attachments.assigned[ExecutionOrder[k]]) :
            Kind(attachments.views[i]) = kind}]

-----------------------------------------------------------------------------
(***************************************************************************)
(* bindRenderPass.                                                         *)
(***************************************************************************)

\* Mutant: a view is bound for each pass that uses it.
FrameBufferViewsRepeated == Seqs!FlattenSeq([k \in DOMAIN ExecutionOrder |-> AttachedViews(k)])

\* A list with a view that is added unless it is there, and with the views of a pass.
WithView(list, view) == IF view \in Elements(list) THEN list ELSE Append(list, view)
WithViews(list, views) ==
    LET bound[n \in 0..Len(views)] ==
            IF n = 0 THEN list ELSE WithView(bound[n - 1], views[n])
    IN  bound[Len(views)]

\* The views bound to the frame buffer, each when it is met first: after the first k
\* passes, and in the end.
BoundUpTo ==
    LET bound[k \in 0..Len(order)] ==
            IF k = 0 THEN <<>> ELSE WithViews(bound[k - 1], AttachedViews(k))
    IN  bound
FrameBufferViews == BoundUpTo[Len(order)]

-----------------------------------------------------------------------------
(***************************************************************************)
(* Properties.                                                             *)
(***************************************************************************)

RenderPassDerived == phase = "compiled" /\ Sort!Acyclic /\ Derivable

\* createTextureView takes the texture of a view from the used resources without
\* looking whether it is there: in whatever order passes attached views of the same
\* texture and whichever they shared, a texture that is not external is made once,
\* before its first view, and for the kind of attachment of every view; and no attached
\* view is one of those that only pass a view on, for which nothing is made.
TexturesReadyForViews ==
    phase = "compiled" =>
        \A view \in Elements(attachments.views) :
            LET texture == Root[view]
                made == {i \in DOMAIN Instantiated : Instantiated[i] = texture}
            IN  /\ view \in Elements(Instantiated) /\ Made(view)
                /\ ~ resources[texture].external =>
                      /\ Cardinality(made) = 1
                      /\ \A i \in made, j \in DOMAIN Instantiated :
                            Instantiated[j] = view => i < j
                      /\ UsageOf(resources[view].purpose) \in Bindings(texture)

\* The subpasses are synchronized as the views were derived from each other,
\* though views are shared, passes are ordered by a search over edges and the
\* dependencies are read off the views: no dependency names a missing or a
\* later subpass, and a subpass that accesses a view derived from an attachment
\* of another pass waits for that pass's access to it.
SubpassesSynchronized ==
    RenderPassDerived =>
        /\ \A d \in SubpassDependencies :
              d.src <= Len(order) /\ (d.dst # External => d.src <= d.dst)
        /\ \A k \in DOMAIN ExecutionOrder :
              \A view \in Elements(AttachedViews(k)) :
                  LET parent == resources[view].parent
                      owner == resources[parent].pass
                  IN  parent \in Views /\ owner # ExecutionOrder[k] =>
                         \E d \in SubpassDependencies :
                            /\ d.dst = k /\ d.before = Kind(view)
                            /\ d.src \in DOMAIN ExecutionOrder
                            /\ ExecutionOrder[d.src] = owner
                            /\ d.after = Kind(parent)

\* bindRenderPass and createRenderPass number the attachments of one render pass by
\* themselves, in the order of execution and in the order in which passes asked for them.
\* When passes run as they were spawned and none that attaches something is left out,
\* the two agree, whichever views are shared: behind each attachment a subpass refers
\* to is the view its pass asked for.
AttachmentsNumberedAlike ==
    (/\ RenderPassDerived
     /\ \A j, k \in DOMAIN ExecutionOrder : j < k => ExecutionOrder[j] < ExecutionOrder[k]
     /\ \A p \in DOMAIN attachments.assigned :
           attachments.assigned[p] # <<>> => p \in Elements(ExecutionOrder)) =>
        \A k \in DOMAIN ExecutionOrder :
            \A kind \in {"color", "depth", "input"} :
                \A i \in SubpassDescription(k)[kind] :
                    /\ i <= Len(FrameBufferViews)
                    /\ FrameBufferViews[i] = attachments.views[i]
==============================================================================
