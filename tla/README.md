# ShirabeEngine: TLA+ specifications

This directory specifies the part of ShirabeEngine that decides what the GPU is
asked to do, and in which order (the frame graph, the resource manager and the
frame loop over the Vulkan swap chain), and the two programs beside the engine that
edit and replicate properties over a network. The specifications are checked with TLC
on small instances; the theorems in the `*_proofs` modules are checked with
TLAPS for every value of the constants.

Paths are relative to `src/shirabeengine/shirabeengine/modules/` unless they
begin with another directory; `renderer/` abbreviates
`rendering/code/source/renderer/` and its headers.

## 1. The system

### 1.1 A frame

`CRenderer::renderScene` makes a new graph for every frame:

1. a `CGraphBuilder` **spawns passes** one after another. The setup function of a
   pass is handed a `CPassBuilder`, with which it creates textures and asks for
   *views*: of a texture, or of the view another pass made. A handle a pass gets
   is a resource id, and views are shared: a request equal to an earlier one is
   answered with the earlier view;
2. `compile` turns the views into **edges between passes** (who reads what was made
   by whom), **sorts** the passes and, in debug and test builds, validates them;
3. `CGraph::execute` **acquires** a swap chain image, has the render context make (or
   find) one render pass and one frame buffer, **records** every pass in order as
   a subpass, **submits** two command buffers and **presents**;
4. everything the graph needs in the graphics API is a **resource** known to
   `CResourceManager` by name. A logical object wraps five operations
   (initialize, load, transfer, unload, deinitialize) with a set of state flags
   and a tree of dependencies between resources.

All of this runs in one thread; what is concurrent is the device: it executes the
queues while the next frame is recorded, and the host is kept apart from it by
semaphores, by the wait at the end of a frame, and by taking command buffers
by image index. The difficulty of the sequential part is that of long protocols:
state that was decided in one call (an edge, a flag, an index) is used many calls later,
after other passes, frames, failures and recreated swap chains.

### 1.2 Properties over the network

`src/integrate` holds a property server and its client:

1. **objects** own **properties**; every value index of a property has a subject with
   observers. `CMetaSystem::registerProperty` adds an observer that calls the
   replication handlers registered under the UID of the property. Properties are
   copied a lot (`clone`, object-typed values, maps), and observers with them;
2. `CState` **reads a document** into objects, compiles a map from paths to properties and registers
   a handler for each;
3. the **server** waits for one client, makes a handler factory with its session and writes
   the state; handlers and commands write further messages;
4. a **session** frames messages as a header with a length and a body, written and read by
   chains of asynchronous operations.

In each process a main thread takes commands and a network thread runs all handlers of the
`asio` context. Posting a function is the only synchronised step between them: the session
pointer and the flag that announces it are shared without a lock. The other difficulty is identity: an
observer is a reference to a property, a UID is copied, and neither follows when objects are cloned or end.

### 1.3 Inventory

| component | state | operations | interacts with | what makes it correct | modelled by |
|---|---|---|---|---|---|
| pass ordering, `graphbuilder.h:400-464` | adjacency map, recursion, visited map, order | `topologicalSort`, `DSFi_fn` | called by `compile`; its order is walked by `execute` | returns on any map; every linked pass once; a pass before its dependents, for any iteration order of the unordered maps | `TopologicalSort`, `PassOrder` |
| frame graph builder, `graphbuilder.{h,cpp}`, `passbuilder.cpp`, `framegraphdata.*`, `pass.*` | passes, resources, references, attachment lists, adjacency | spawnPass, create/import/register, write/read/forward/accept, useMesh/useMaterial, createPassDependency, compile | setup callbacks; hands the graph to `execute` | source before reader, parallel attachment lists, reference counts, views fit their textures | `FrameGraphBuilder`, `SubresourceChecks` |
| graph execution, `framegraph.cpp:258-369`, `framegraphrendercontext.cpp` | graph, bound render pass, subpass counter | execute, bindRenderPass, executePass, present | resource manager, Vulkan context | subpass bookkeeping agrees, every path ends the frame, subpasses are synchronized as views were derived | `FrameExecution`, `RenderPassDerivation` |
| Vulkan environment and context, `vulkanenvironment.cpp`, `vulkanrendercontext.cpp` | swap chain, rotating semaphores, command buffers per image, frame context | begin/endGraphicsFrame, bindSwapChain, createSwapChain, recreateSwapChain, begin/commitFrameCommandBuffers, present | device queues, presentation engine | no object is used while in use; the acquired image is presented; no frame hangs | `FrameExecution` |
| resource manager, `cresourcemanager.{h,cpp}`, factories, storage | known objects, flags, dependency tree, GPU objects | use(Dynamic/Asset)Resource, discardResource, initialize, load, transfer, unload, deinitialize | render context, asset loader, Vulkan resource types | flags tell the truth about the GPU object, tree is current, API protocol is kept | `ResourceManager`, `GpuObjectProtocol` |
| renderer and its graph modules, `renderer.cpp`, `framegraph/modules` | none between frames | fixed sequences of builder calls | builder | - | inputs of `FrameGraphBuilder` |
| frame graph serialization | text | accept | builder | - | no: output only |
| Vulkan resource types | handles | create, load, transfer, destroy | resource manager | - | by success, failure and handle in `ResourceManager` |
| TCP session, `tcp_server_client/source/shared/*` | socket, pending read and writes, posted functions | start, stop, writeMessage and the completion handlers | asio, the peer | a message arrives once, whole and in order; no read waits forever | `TcpSession`, `MessageChannel` |
| property server and client, `sr_server.cpp`, `sr_client.cpp`, both `sr_main.cpp` | two threads, session pointer, flag, acceptor | accept, refuse, connect, commands, exit | session, state | the session is there when used, one client is served, processes end | `PropertyServer` |
| property system, `property_system/*`, `sr_state.cpp` | objects, properties, subjects, handlers, UIDs, path map | create, addProperty, removeProperty, clone, setCapacity, setValue, registerReplicationCallback, serialize, deserialize, initialize | handlers write to the session | a change reaches the handlers of the property once; what is written can be read; paths lead to the leaves | `PropertyReplication`, `PropertyState` |
| looper, observer, adjacency tree, bit field | containers | - | - | - | where used; `CLooper` is instantiated nowhere |
| engine start-up and main loop | - | - | renderer | - | outermost action of `FrameExecution` |
| buildingblocks, ecws, math | cameras, transforms | arithmetic over reals | - | - | no: out of a model checker's reach |
| asset, mesh, material, textures, resource compiler, crc32 generator | files | load, convert | - | - | no: sequential I/O before the first frame |
| graphicsapi, old resource backend, directx | - | - | - | - | no: descriptions, and code that is not used or not built |
| wsi, os, platform, log, base, utility | - | - | - | - | no: I/O and definitions |

`PROJECT.json` has the same list with the reason for every part left out, the
line range each definition models (`map`) and the hazards with the properties that
cover them.

## 2. Modules

```
PassOrder  <-- implemented by --  TopologicalSort  <-- INSTANCE --  FrameGraphBuilder
                                        |                               |
                              TopologicalSort_proofs          RenderPassDerivation
                              MCTopologicalSort               |         |
                                             MCFrameGraphBuilder    FrameGraphBuilder_proofs (INSTANCE TopologicalSort_proofs)

SubresourceChecks -- MCSubresourceChecks, SubresourceChecks_proofs

GpuObjectProtocol  <-- implemented by --  ResourceManager -- MCResourceManager
                                                          -- ResourceManager_proofs
FrameExecution (render pass bookkeeping relies on what ResourceManager shows)
   -- FrameExecution_proofs

MessageChannel  <-- implemented by --  TcpSession -- MCTcpSession
                                                  -- TcpSession_proofs
PropertyServer -- PropertyServer_proofs  (messages travel as TcpSession shows)

PropertyReplication  <-- EXTENDS --  PropertyState -- MCPropertyState
                                                  -- PropertyState_proofs
```

**`PassOrder`** is the promise of the sort: a stack to which one pass is pushed at a
time, only when every dependent is on it or leads back to the pass in a cycle.

**`TopologicalSort`** is `topologicalSort` with the recursion of `DSFi_fn` made explicit:
a frame per active call holds the vertex and the position in its edge list. The
outer loop takes the keys in *any* order, since `mPassAdjacency` is an unordered
map. `FollowEdge` is one turn of the loop over the edges, `PushVertex` its end.

**`FrameGraphBuilder`** is `CGraphBuilder` and `CPassBuilder`. A step is one call: of
`spawnPass` (split where it calls the setup function, so that the calls of the
setup function lie between `SpawnPass` and `FinishSetup` or `FailSetup`), of a builder
operation, or of a part of `compile` (`CollectPass` for each pass of the unordered
pass map, a step of the sort, `FinishCompile` with the validation). A resource is
a record in `resources` at its id. A texture has `size` slices, and a range is one
range of slices: array slices and mip levels pass through the same computations
twice. Formats are names with a class, which is what the validation compares
(`nearestPowerOf2Ceil` of the enum value). Which calls the setup functions make is the constant
`Calls`: every configuration explores all sequences of its calls. `dependencies` is a
history variable: the code does not read it.

**`RenderPassDerivation`** is what `execute` and the render context compute from a compiled graph
(`initializeResources`, `createTexture`, `createRenderPass`, the view list of `bindRenderPass`): pure
operators over the builder's variables, evaluated in every state that `compile` can end in, so
that the derivation is checked against everything passes can have asked for and every order they can have been sorted into.
Subpasses and attachments are counted from 1, which makes `VK_SUBPASS_EXTERNAL` (the number
before the first, `~0U`) 0. A pipeline stage with its access mask is named by the kind of
attachment accessed there. All textures have one width and height, so that of the sizes `createRenderPass`
compares only the number of layers can differ. Clear values, layouts and load operations of the
attachments are left out.

**`SubresourceChecks`** is the check for conflicting writes that `useTexture` makes before it
makes a view, with the real interval comparison (`CRange::overlapsWith`) and two
ranges, of array slices and mip levels. The answer is only logged, so the check is
modelled beside the builder and not in it.

**`ResourceManager`** is `useDynamicResource`, the five operations and their flags, and
the tree. `handle[r]` is what became of the GPU object: `live`, `stale`
(destroyed, but the logical object still holds the handle), `lost` (another object was
made over a live one) or `freedTwice`. `InitializeFails` is the refusal of the graphics
API, `InitializeThrows` the exception for a dependency nobody made known.
**`GpuObjectProtocol`** is what the API may be asked for: create when there is none,
stage and transfer when there is one, destroy once.

**`FrameExecution`** is `execute` and everything it calls per frame, as a program counter
(`phase`), against a device with three queues. Semaphores go `unsignaled -> pending
-> signaled -> unsignaled`; command buffers go `ready -> recording -> executable ->
pending -> ready`; the history variable `misused` records the kind of an object used out of its
protocol. The render pass is the one of the first frame (`described`), as
`ResourceManager` shows: `useDynamicResource` answers a known id with the object it has.

**`MessageChannel`** is what the ends of a session are promised: the messages written are handed over
once, whole and in order, until the direction is broken.

**`TcpSession`** is `CTCPSession` at both ends of one connection. A message is a header and as many body units as its
length, the wire holds `Capacity` units, and an action is one handler (`WriteMessageHeader`
is the posted function, `WriteMessageBody` the completion of the header, and so on).
Since nothing serialises `writeMessage`, the header of one message may be written between header and body of
another; since the message lives in the function that starts a write, what cannot be sent before
that returns is `Garbage` later: what finds no room, and what is beyond the `Chunk` units one operation writes at once (64 KB in `asio`), even if there is room. Both end the promise for that direction: the history
variable `intact` says that neither has happened. The lengths of the messages the main threads write
are constants; a unit read as a length that is none gives `Endless`, more than ever arrives.

**`PropertyServer`** is the programs around the session: the server's main thread (`main`), its network thread
(`net`), what they share, the connections as the kernel of the server sees them (`tcp`), and the
two threads of each client. The steps of the accept handler between which the main thread may look (`Accept`, `Announce`,
`HandOver`, which starts the session's read and the next accept) are actions of their own; a posted message is counted, and how it travels is `TcpSession`'s part.

**`PropertyReplication`** is the heap of objects and properties: a property is known by its *place* (object and key),
which is what the reference in an observer refers to, and a place whose property has been destroyed is `Destroyed`
wherever it is still referred to. Of values only objects matter, which the property owns. `setValue` with an object stores a clone of it (`SetObject`), with a null one nothing (`ClearObject`). `CloneObject` follows
`clone`, the copy constructor and `assign` through every level, with the local map
and its objects that end on the way: a function of the depth gives what `clone` does at each level from what it does one level
further in. Addresses are finite, and `operator new` that finds none left ends a clone like the exception of `at` does. `origin` and `kept` are history: which registered properties a
property was copied from, and how many of its indices it has had since it was registered. (One that was read and never registered observes nothing,
so no copy can lead to it.)

**`PropertyState`** adds the documents (`Written` is the serializer, `ReadObject` the deserializer with its stack and
adjacency lists), the path map, and `CState::initialize`. What goes down from object to object is a function of the depth here too, and a
document is no deeper than there are objects; memory suffices for it, which is a guard of `Initialize` and says so. The file is one of `Documents`; a missing or
unreadable file ends `initialize` before anything else and is left out.

## 3. What is checked

Every property of a passing run has a mutant in the module it is about: an operator
beside the original that changes it as a plausible bug would, and under which the
run fails. Violation runs show a disagreement between the code and what its
documentation says; each is a finding in `PROJECT.json`.

| run | question | bounds | states |
|---|---|---|---|
| `sort` | does the sort return, push each linked pass once, and each above its dependents? Does it implement `PassOrder`? | all maps over 3 passes with lists in all orders, self edges and cycles; all upward maps over 4 | 192 183 |
| `builder_graphs` | views shared between passes, next to named dependencies, cycles and failing setup functions: order, omitted passes, reference counts, attachment lists, root texture; the render pass made of it: are subpasses synchronized, attachments and frame buffer numbered alike? | 3 passes, 5 resources, 2 references each, 2 named dependencies; `MCBound` | 1 443 185 |
| `builder_views` | with all kinds of views and resources, ranges, formats and usages: what does compile let through, and are textures made for what views need? | 2 passes, 3 resources, 3 ranges over 3 slices, 2+1 formats | 933 596 |
| `subresource_checks` | is a write conflict reported exactly? | 3 passes, 2 views, 4 ranges in both dimensions | 13 915 |
| `resource_manager` | flags, tree, answers and GPU objects over any order of operations with failing creation | texture, view, frame buffer, asset with an image | 85 998 |
| `frame_loop` | are semaphores and command buffers ever used while in use? Do the subpass counters agree? | 3 images, 2 passes, 2 recreations; bind, pass and wait may fail | 152 433 |
| `frame_failing` | what is presented, and does every frame end? | 1-2 images, 1-2 passes, bind/pass/output fail, suboptimal on both ends | 24 142 |
| `tcp_session` | framing over overlapping, waiting and failing writes; refinement of `MessageChannel`; delivery | 2 peers, messages of 2, 0 and 3 units one way and 1 back, two units written at a time, room for 3 | 64 449 |
| `property_server` | sessions, refusals, posted messages, shutdown of both programs | 3 clients, 1 command | 208 478 |
| `keeps_accepting` | violation | 2 clients, 1 command | - |
| `property_state` | observers and handlers over copies; documents and paths | 4 objects, 6 UIDs, capacity 2, 1 handler per UID; 240 documents | 88 579 |
| `replicates_changes` | violation | as `property_state` | - |

### Why the bounds are enough

* *Sort.* A wrong order needs a dependent reached from a second root, or a back edge to an
  active call; three passes with every map have both, four give a diamond and a chain
  across two roots. The proofs lift the bound.
* *Builder.* The shared view is the interesting case: one pass makes a texture and
  a view of it, a second makes a view of the view, a third asks for the same and is
  answered with the second's. That takes pass uids 1 to 3 and four resources. Pass 0
  is the pseudo pass of `initialize`. Named dependencies go against data flow as soon as there is any: frames that attach
  views have one, up to three resources (a texture, a view, a view of it); with two, to close cycles of their own, registered textures and
  views to sample them are data flow enough. This is `MCBound`, and `compile` changes nothing it looks at, so it cuts off no
  step of `compile` and `CompileReturns` is about whole calls. Three resources suffice for a chain texture -
  view - derived view with every call, and the ranges are chosen so that a derived
  range is shifted, nested, adjacent, and beyond the texture.
* *Resource manager.* Two levels of dependencies, a resource with alternative lists
  of dependencies and an asset that makes known a part of its own. Flags are
  per resource, so nothing needs two textures but the tree, which has them (`texture`, `image`).
* *Frames.* Frames repeat: the state graph is finite without a bound on their number,
  and only recreations are counted. Three images make the rotation of semaphores
  and the free choice of the image by the driver differ.

* *Session.* Three messages of one peer, one of them empty, show every overlap: header between
  header and body, body after a later header, and a message that is empty and therefore has no body to tell it by. The last is longer than
  what one operation writes, though there is room for it.
  The other direction needs one message, to be closed at. The proofs lift the bounds.
* *Server.* One client is served, one is refused and one is left in the backlog, and each of them may leave first. The state and one
  more message are posted, so that one may be sent and the other wait when something ends.
* *Properties.* A clone of an object in an object takes four objects alive at once and five UIDs. `MCBound` keeps the run
  small: what starts from a nested document leaves other modes, capacities and properties aside, which the flat document
  and the objects of callers have. All documents are read; the run goes on with two of them.

Deadlock is checked in all runs but these: `subresource_checks`, `property_state` and `replicates_changes`, whose bounds end them, and
`tcp_session`, `property_server` and `keeps_accepting`, where connections are closed and processes end.

### The properties

Type invariants are proved, for every module that models code, and take no part in the runs.

*Pass order.* `ImplementsPassOrder` and `AllLinkedPushed` are what `execute` relies on: each pass once, above its dependents,
and none forgotten. `PushedOnce` and `DependentsBelow`, which follow from the refinement, and the inductive
strengthening `SearchInvariant` are proved and have no place in the run.
`Terminates` covers cyclic maps: `createPassDependency` accepts cycles.

*Builder.* `SourcesRunFirst`: the pass that owns what a view was derived from runs first, in
whatever order passes were collected and roots taken. `EdgesFollowSpawning`: data
flow alone can make no cycle. `OnlyIsolatedOmitted`: a pass that is left out of the order, and so of every frame, has nothing to do with
another, so no edge is lost between the views, the names and the sort. `AttachmentsConsistent`: four kinds of index lists into two
parallel lists stay right while views are shared. `ReferenceCounts`, `SubjacentIsRoot`,
`CompiledViewsUsable`, `CompileReturns` are described at their definitions. All of them but the last are
proved as well, and so are those of the render pass (section 4).

*Render pass.* `SubpassesSynchronized`: a dependency never leads from a missing or later subpass,
and a subpass that accesses a view derived from another pass's attachment waits for that
pass's access, of that kind. It relates four computations (the sort, the sharing of
views, the index lists, the search for the parent's pass in the order) none of which reads another's
result. It is stated for acyclic graphs: with a cycle by named dependencies there is no order to
speak of. `TexturesReadyForViews`: `createTextureView` dereferences the texture without
looking, so it has to be made before; it is made once, from what was asked of it during *all* setups.

*Resource manager.* `FlagsTellObject` bounds what can be wrong after failures: a live object is
always known as created and none is ever lost. `EdgesAreCurrent`: initialize adds
edges and deinitialize removes those of the *remembered* dependencies; over any number of
lives the tree has neither old nor missing edges. `CreatedFromKnown`, `ImplementsProtocol`.

*Frames.* `SemaphoresAlternate` and `BuffersNotInUse` hold even when the wait at the end
of a frame is skipped (`"wait" \in Failures`): the wait, called a temporary
workaround in the code, is not what keeps semaphores and buffers apart, the rotation by image
count and the image indices are. `SubpassesAgree` relates the counter of the render
context, the command buffer and the passes executed, though the render pass may be missing and a pass may fail. `PresentsWhatItAcquired` over retries and
recreations. `FrameReturns`: no wait for a signal that never comes. The first two, `SubpassesAgree` and `PresentsWhatItAcquired` are
proved as well (section 4).

*Render pass.* `AttachmentsNumberedAlike`: two functions number the same attachments, one by the order in which views
were made, one by the order in which passes run; they agree when the passes run in the order in which they
were spawned and none that attaches something is left out.

*Resources.* `OkIsLive`: of a resource whose creation cannot fail, Ok means an object, or one that was destroyed since, or an
exception before that left the resource in the making.

*Session.* `StreamInOrder` relates four places in two processes (delivered, being read, on the wire, still to write): they are consecutive
pieces of one stream. `ImplementsChannel` is the promise. `WrittenIsDelivered` is its liveness.

*Server.* `ServerHasSession` is about the two variables shared without a lock: by the order of
the handler's steps the main thread finds the session in the server set, for good; but its copy
may still be null, never another one. `OneClientServed`: what happens to others, refused, gone or waiting, closes no connection but their
own, and the first client keeps its session. It does not say what becomes of clients after a refusal: that they
are not answered is the disagreement `keeps_accepting` shows. `RunsWhileServing`: `run` returns when no operation is pending,
and after a refusal no accept is; the read started for the session is then what keeps the network thread in it, though nobody
waits for that thread before `exit`. So it may end by itself only when the client it served has ended. `PostedIsSent` is what this is for: a message
the main thread posts is sent, whenever it comes and however long nothing was to be done before. The exception is a client that has ended, after which
messages may stay in the queue for good. `StateReachesClient` and `ExitReturns` are the liveness of both programs.

*Properties.* `ObservesItself` says which indices of a property it observes after any copying and resizing, `ObserversAreOrigins` which others
its subjects lead to. From these: `CalledOnce` and `CallsOwnOrOrigins`, what a change calls. They speak of subjects that
lead to no destroyed property: such an observer reads freed memory, and the model lets it call anything. `WrittenIsRead`
is the round trip of the serializer over every object that can come to be. All five are
proved as well (section 4). `PathsLeadToLeaves` compares the search
of `compilePathMap`, with its visited marks and node counts, with a definition that walks the objects.

### Fairness

`TopologicalSort` and `FrameGraphBuilder`: weak fairness of the steps *inside* one call
(`Step`, `CompileStep`): a single-threaded function that has been called keeps running.
Nothing says that a pass is ever spawned or a frame ever begun. `FrameExecution`: weak
fairness of the steps of a frame that has begun, and of the device: queues
are worked off in order and the presentation engine releases images, which
is what Vulkan guarantees for a valid use. The number of suboptimal or
out-of-date answers is bounded by `MaxRecreations`: with a driver that answers so
forever the loop of `bindSwapChain` would not end, and `FrameReturns` assumes
it does not. `TcpSession`: weak fairness of the steps of each peer's network thread, which goes on running ready handlers; nothing
says that a message is ever written or an end closed. `PropertyServer`: weak fairness of the network thread, of the
steps of the main thread that wait for nobody's input, and of each client's threads. What is typed is not fair.

## 4. What is proved

For every value of the constants that satisfies the named assumptions.

**`TopologicalSort_proofs`** (assumption: the maps are maps from passes to lists of
passes). The inductive invariant is `SearchInvariant`: types; the visited passes are exactly those active or
pushed, and no pass is both or active twice (`SearchPartition`); edges already
followed, edges of pushed passes and keys already taken lead to visited passes
(`SearchProgress`); outer calls reach inner ones (`SearchPath`). None of the
properties is inductive alone: that a pass is pushed once needs that the
top of the stack is not in the order, which is the partition. From it: `PushedOnceInvariance`, `DependentsBelowInvariance`,
`AllLinkedPushedInvariance`, and the refinement `SortImplementsPassOrder`, for *all* maps: when a
pass is pushed, a dependent not on the order is still active, hence by `SearchPath`
leads to the pass. `Reaches` is defined by closed sets rather than by paths,
so that its transitivity is first-order and needs no induction.

**`FrameGraphBuilder_proofs`** (`BoundsAssumption`, `CallsAssumption` and `DataAssumption`: bounds are naturals, passes make known
calls, textures have slices and definite formats). For frames of any size, whatever the setup functions ask for and however often
they fail: `TypeInvariance` and the seven invariants of the builder. They rest on one inductive invariant, `Inv`. That a source runs before
its reader needs three things to meet: the edges are there once a pass is collected (`EdgesCollected`), the sort started from these edges and
nothing else touches its variables (`PhaseOK`, which holds the invariants of `TopologicalSort_proofs` for the builder's own
sort), and an edge's ends are linked. That edges follow spawning needs that a view belongs to no earlier pass than its parent (`Derived`) and that a
pass references nothing of a later one (`ReferencesOK`). A compiled view has a format because every view is referenced by the pass that made
it (`ReferencesOK`) and collecting that pass resolved it (`FormatsResolved`). `Root` is recursive over parents: a parent is older
than its view, so the function `RootFacts` gives in closed form satisfies the recursion, and no other does, as the least id where two differed would show.
That no pass with an edge is omitted needs, besides, that named edges stay
(`NamedEdgesKept`). The counts need another invariant, `CountsOK`, with the sets that are counted and that they are finite.

The same module goes on with the three invariants of the render pass of `RenderPassDerivation`, for frames of any size, on top of
`Inv` of the builder and without a further assumption:

* `SubpassesSynchronizedInvariance` combines `SourcesRunFirst` with the facts that the order holds each pass once (`OrderFacts`) and is
  executed from its top (`ExecutionFacts`): the owner of the parent of a view runs earlier, hence is an earlier subpass (`OwnerIsEarlier`),
  hence the search of `SubpassOf` finds it, and there is a dependency on it.
* `TexturesReadyForViewsInvariance`: `MadeOK` says of the list of what has been made for the first n attached views that it has these views, no texture twice
  and a texture before each of its views; one turn of the loop of `initializeResources` keeps it (`AppendedMade`, `AppendedMadeOnDemand`). That the texture was asked for
  what the view needs, and that no attached view is one nothing is made for, are parts of the builder's `Inv` (`Derived`, `AttachmentsOK`).
* `AttachmentsNumberedAlikeInvariance` needs another inductive invariant of the builder, `NumberedAsAsked`: every attachment was asked for by a pass, only passes
  that were spawned ask, and whatever has a smaller number than an attachment of a pass was asked for before by the same pass, or by an earlier one.
  Then, walking over the passes in the order in which they run and over the attachments of each, the list of `bindRenderPass` always begins like the list of attached views (`Agrees`)
  and reaches at least as far as the numbers met (`Covers`): the number of the next attachment is at most one more than its length (`SmallerNumbers`), and so a view is
  found at its number or gets it (`WithViewAgrees`).

The lists the last two speak of are defined by recursion over positions. That such a function exists is `RecursionExists`, and what holds of all its values is shown by the
least position where it would fail, which is first-order; the induction theorems of the library are not needed.

**`ResourceManager_proofs`** (assumptions: the types of `Parts`, `Given`, `Loadable`, `CanFail`). The
invariant is `Inv`, the conjunction of `TypeOK` (with `FlagsOK`, the possible sets of flags), `FlagsTellObject`,
`EdgesAreCurrent` and `CreatedFromKnown`, and `OkIsLive` for the answers: the tree is right after initialize only because a resource that is
not created has no edges, and flags tell the object only because the
flags are of the few shapes in `FlagsOK`. `ManagerImplementsProtocol` is
the refinement of `GpuObjectProtocol` for the resources whose creation cannot fail, whatever
fails for the others. For a resource whose creation can fail it does not hold (section 5).

**`SubresourceChecks_proofs`**: `OverlapIsSharing`, that the interval comparison decides
whether two ranges share a slice, for all ranges; `TypeInvariance`; and `WriteConflictsInvariance`.

**`FrameExecution_proofs`** (assumptions: numbers of images and passes are at least one, answers and failures are among those
the calls have). `TypeInvariance`, and with `HostAgrees`, which says in which phases there is a frame context, that it names the slot at the back and the
acquired image, and which images are acquired: `PresentsWhatItAcquiredInvariance`, over any number of recreations, answers and
failures. `SubpassesAgreeInvariance` assumes that every frame has the same number of passes (the render pass is that of the
first frame); without that it does not hold (section 5). Whatever fails, the counter is right: `PassesAgree` adds that nothing has moved it before there is a render pass
and that none is active when it is missing.

Its second part is about synchronization (`Undisturbed`: a swap chain is recreated with as many images, is not suboptimal
on acquisition, and the output of the graph exists; the first two are disagreements of section 5, the third an early return that
leaves the command buffers recording). The argument for `SemaphoresInvariance` and `BuffersInvariance`, for any number of images
and with a wait at the end of a frame that may fail: a frame is told by its *age*, how many frames have been begun
after it. The queues hold consecutive ages, and older ones from the transfer to the present queue (`QueuesOrdered`, `QueuesAligned`); a slot is that of its
frame's age (`At`), so no two of a number of consecutive ages share one; the states of a slot's semaphores (`StageOf`) and of an image's command
buffers (`BuffersAligned`) follow from the age. A frame is never begun on a slot still in use because images in flight are all different
(`ImagesApart`) and one was free: there are fewer than slots (`RoomForFrame`). That is the property of `vkAcquireNextImageKHR` on which the safety of the code rests, and not the wait.

**`TcpSession_proofs`** (assumptions: every peer has another, and lengths are naturals). The invariant is `TypeOK` with
`StreamInOrder`: reading, wire and writing ends agree on the unit each expects, for any lengths, empty
messages included, which are why `Expected` and `ToSend` have cases. `SessionImplementsChannel` follows: an
intact direction hands over the body `Len(delivered) + 1`, and a broken one may do anything.

**`PropertyServer_proofs`** (assumption: `None` is no client). An invariant relates where the network thread is (`net`) to what
has been set by then (`mSession`, `connected`, `session`, `accepting`), to the connections as the kernel sees them, and to what is pending: from the step that starts
the session until the end of its client, a read (`active`). `RunsWhileServingInvariance` follows, for `run` returns only without one.

**`PropertyState_proofs`** (assumptions: objects and keys are finite sets of numbers, every capacity is positive, the UIDs
generated are among those there are, `None` is nothing else, and documents are no deeper than there are objects). For any objects, any maps they are created with, clones of objects in objects to
any depth and exceptions on the way: `TypeInvariance`, `ObservesItselfInvariance`, `ObserversAreOriginsInvariance`,
`CalledOnceInvariance` and `CallsOwnOrOriginsInvariance`, for `Spec`, whose callers create every object, and the same five with `State` before their names for `StateSpec`, where `CState::initialize`
reads any document first. They rest on one inductive invariant, `IInv`:

* `HeldOnce`: the objects in objects are a forest, an object is held in one place at most, and what is held is alive. The destruction of
  a tree (`Tree`, `DropsGood`) must not take what somebody else holds, and what a clone makes must be held by nothing else; neither of the
  properties says so, and none is inductive without it.
* `PropertyOK`: the registered properties something was copied from are alive, and *their UIDs are smaller*. This is where documents come in: their UIDs need not be
  below the counter, and a copy of a property that was read may well have a smaller one; but such a property is not registered, observes nothing, and is no origin. `CalledOnce` needs that a property and those
  it shares observers with have different UIDs; in the middle of a clone they have not, for the local map has the UIDs of the original until
  `setPropertyUID`. So the invariant has a parameter, the set `X` of the objects for which that is still to come, which is empty between two steps.
* `Observed`: in each subject the property itself once where it is kept, and each of its origins once at most.
* `HandlersOK`, and `Reported`: what is reported is a call of `setValue` on the property as it is now, since whatever else happens takes the report away.

`ClonedOK` is the proof of one level of `clone`: from that the clones one level further in leave an orderly heap, only add objects, and
return one nothing holds (`GoesOn`), the same for this level, through copying the map (`CopyMapOK`, over the values in any order), the new UIDs
(`RenumberedOK`), the registration (`RegisterAllOK`) and the end of the local map (`LocalFreed`); `CloneObjectOK` is the induction over the depth, over a set of
numbers. Reading goes the same way: `ReadObjectOK` is the induction over the depth of the document, `ReadMapOK`, `ReadPropertyOK` and `ValueAppended` are the levels in between, and
all of them keep an orderly heap in which only the object being read has changed (`Orderly`, `GoesOn`). The search of `compilePathMap` finds properties that were read and no others (`PathMapOK`),
so that the handlers `initialize` registers are those of properties that exist. How many calls a report has comes from `FlattenSeq` and is settled by `ConcatOnce` and `FlattenFacts`: in a concatenation an element is
once if it is once in one of the parts and in no other.

`WrittenIsReadInvariance` is the round trip for every object, of any depth, with any properties, if its document is
regular; `RegularIsInitialized` is what the same argument says of `CState::initialize` and any regular document. `IInv` is all they need of the state; the rest is about reading from it, for as long as memory suffices:

* What has been read stays what it was. An object in the one being read is referred to by nothing else (`Fresh`), so that reading goes
  on without touching it: `Closed` and `Alike` say when two heaps write an object the same (`WrittenAlike`), and `HoldingStays`, that
  they do from any point of the reading to a later one. This is where the forest is needed: if objects that exist could share some of their values,
  writing to one would change what is written of the other.
* `Between` is the invariant of the loop over the properties, `Halfway` that of the loop over the values in one: the properties and values before
  are written as they are in the document, those after are empty, and the stack of the deserializer has the nodes on the way down.
  `HalfwayFurther`, `BetweenFurther` and `MapRead` are their steps, `DocumentReadOK` goes from one depth to the next, and `DocumentsReadOK` is the induction.
* `compilePathMap` throws at a node without adjacent ones that is no property. `Pending` says of all edges that were added since that they lead to nodes which are
  settled (they have adjacent ones, or are referred to) or still in work; when an object is done, nothing of it is in work (`PendingSettled`: its properties are
  referred to by different UIDs, and the object itself leads to one). This is why a regular document has no object without properties.

### Only model-checked

Liveness (`Terminates`, `CompileReturns`, `FrameReturns`, `WrittenIsDelivered`, `StateReachesClient`, `PostedIsSent`, `ExitReturns`): the prover does not do liveness under
fairness. `PathsLeadToLeaves`, of the safety properties: that the search throws at nothing in what was read from a regular document, and that it
finds nothing but properties of it, is proved, but not that it finds each leaf along one path, which compares two recursions that go different ways, over nodes in the order
they were added and over objects.

## 5. Disagreements

Two have a run and are findings. `KeepsAccepting`: after one refused connection no other is answered (`sr_server.cpp:72`), though `:90` says "Accept more
connections.": the handler returns before it calls `accept` again. And `ReplicatesChanges`: `registerProperty` looks at the mode once, and a property read from a document
is registered before it has its mode, so its handlers are never called; `sr_meta_system.h:118` says the handler
is "to be forwarded to on value change, if the property was to be replicated". In `property_server` that is every
property, and only `write_property` commands send anything.

These were met while modelling and are kept without a run. In the engine:

* `validate` ignores the pass order it is given (`graphbuilder.cpp:505`), though `graphbuilder.h:248` says "Validate the pass order and data flow
  dependencies of a sorted list of passes.": a pass that writes through a view it shares with an earlier pass does not own the view, so a
  reader depends on the pass that asked for the view first and may run before the writer. Two variants: a pass that has
  read the texture and then asks for the written view is answered with the old one and gets no edge; and so is a
  second writer of the same view.
* `initialize` sets `Created` whatever the GPU operation returned (`cresourcemanager.h:264`), so the next one answers Ok
  without an object; `framegraphrendercontext.cpp:698` goes by the answer. `OkIsLive` leaves resources that can fail out for this.
* After a suboptimal acquisition the semaphore it has signaled is given to the next one
  (`vulkanenvironment.cpp:1187`, `:1225`).
* `bindRenderPass` lists the views of the frame buffer by the order of execution (`framegraphrendercontext.cpp:694`),
  `createRenderPass` numbers them by the order of creation: a pass left out or moved shifts them. `AttachmentsNumberedAlike` has the condition.
* `createPassDependencyByUID` (`renderer/framegraph/graphbuilder.cpp:191`) accepts edges that
  close a cycle; `graphbuilder.h:149` promises "to enforce execution of source
  before target", and one of the two is not enforced.
* A pass no edge touches is no key of the map `topologicalSort` starts from
  (`graphbuilder.h:447`): it is collected and never executed.
* `acceptTexture` (`passbuilder.cpp:371`) shifts the range of the forwarded view, which is
  absolute already, by its own offset again (`:146`).
* A derived range is bounded by the size of the texture, not by the parent view (`passbuilder.cpp:152`).
* The read check (`passbuilder.cpp:766-783`) skips every view but the source itself, and those whose mip levels *do*
  overlap; the write check (`:824-830`) compares with the pass that made the source, not the
  one that is set up. `WriteConflictsReported` says what is left.
* `recreateCommandBuffers` is commented out (`vulkanenvironment.cpp:744`), so a recreated swap chain with
  more images has fewer command buffers than images, and `.at` throws (`Acquire` has the branch).
* The requested size and format are stored, then overwritten by the assignment at
  `vulkanenvironment.cpp:741`, and read by `recreateSwapChain` (`:759-761`).
* `execute` returns Ok after a pass failed (`framegraph.cpp:317-322`, `:368`).
* Render pass and frame buffer are known by fixed names and never discarded, so that of the first frame
  is used for every later graph (`framegraphrendercontext.cpp:584`, documented at `:262` as created
  for the attachments that are given).
* An ordered pass without attachments makes `.at` throw (`framegraphrendercontext.cpp:366`), and an
  error that `createRenderPass` returns is printed and dropped (`framegraph.cpp:495-496`).
* External textures are never made, although `framegraph.cpp:487` says "Make sure that all texture views and their subjacent
  textures are created upfront!", and `createTextureView` dereferences them
  (`framegraphrendercontext.cpp:881-882`).
* A view derived from an accepted view waits for the pass that accepted it, usually its
  own subpass, and not for the one that forwarded it (`framegraphrendercontext.cpp:450-485`).
* A view whose texture is made on demand is noted twice in `mInstantiatedResources` (`framegraph.cpp:444`, `:458`).

In `src/integrate`:

* `writeMessage` may be called while a message is being written (`sr_session.cpp:66-73`), and header and body of the two then mix;
  the buffer of each write is freed when the function that starts it returns (`:97`, `:128`).
* A session that has ended still counts (`sr_server.cpp:72`), so that the server serves one client in its life; and once a connection has been
  refused, `run` returns when it ends: what is posted from then on is never sent.
* `connected` is set before `session` (`property_server/source/sr_main.cpp:39-40`): the handler factory may hold a null session.
* A port that cannot be bound leaves the main thread of the server waiting forever (`:57`), a document that cannot be parsed
  leaves it in the destructor of the future (`:55`, `:119`), and the end of the input repeats the last command forever (`:77`).
* A client command before the connection is made uses a null session (`property_client/source/sr_main.cpp:84`).
* A copy of a property shares the observers of the original (`sr_meta_property.cpp:51`): setting its value calls the handlers of
  the original; once the original is destroyed, it reads freed memory. A clone of an object in an object is in that state at once (`sr_meta_object.cpp:363-374`).
* `setReplicationMode` after the registration has no effect (`sr_meta_property.cpp:486`, "TBDone: Unregister from CMetaSystem."),
  and indices `setCapacity` adds are not observed.
* A handler for any type but `int8_t` is dropped, and true is returned (`sr_meta_system.cpp:149-153`).
* A property read with a capacity above one has one subject: setting a later index throws after the value was stored (`sr_meta_property.cpp:345`), and so does a clone.
* "It is valid to not have properties!" (`sr_property_json_de_serializer.cpp:573`), but an object without them fails the document (`:712`), and one
  with none in its list makes `compilePathMap` throw (`:1048`), as a property with the UID 0 does.
* The index in a path counts adjacent nodes and not values (`:1062-1069`): a null before an object shifts it.

## 6. Plan

Done: the modules above, and the proofs of section 4: every safety invariant of the runs has a theorem. Left, in this order:

1. The reuse of names between frames: a view is known as "TextureView ID N", and a later graph that gives
   the number to another texture finds the old view; `RenderPassDerivation` over two graphs, composed with `ResourceManager`.
2. An abstract swap chain specification (an image is acquired, drawn, presented, shown; at
   most one by the host) that `FrameExecution` refines.
3. Prototypes and the static mode of the deserializer.

## 7. Not modelled, and why

Contents of images, meshes, shaders and materials: no control depends on them. The
description structures of the graphics API: data. Instance, device, surface and
pool creation: straight-line start-up code. Failing submission (`vulkanrendercontext.cpp:665`): it ends
the program like the failures of `Acquire`, which are modelled. Undefined results: `load`, `unload` and `transfer` end without a
return statement, but no caller of the engine looks at them, so the model has no answer for them.
`Buffer` resources exist in the builder's collections but no operation makes one.
Pass names are taken to be unique.

Of the property system: prototypes and the static mode of the deserializer, which nothing in `property_server` uses; assignment between
properties and the move overload of `setValue` for objects, which no caller uses; the values of leaf properties; a second use of one deserializer.
Of the programs: what messages say, and the end of the input.

## 8. Running

`tlc -config <cfg> <module>` with the pairs in `PROJECT.json`, `tlapm <module>` for the
modules named `*_proofs`.
