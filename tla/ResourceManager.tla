--------------------------- MODULE ResourceManager ---------------------------
(***************************************************************************)
(* CResourceManager: resources are made once per id, and the operations of *)
(* a resource (initialize, load, transfer, unload, deinitialize) wrap the  *)
(* operations of its object in the graphics API with a set of state flags  *)
(* and with the tree of the dependencies between resources.                *)
(*                                                                         *)
(* All operations are called by the one render thread and run to their end.*)
(* The functions load, unload and transfer have no return statement, so    *)
(* the status they answer with is arbitrary; no caller looks at it.        *)
(***************************************************************************)
EXTENDS FiniteSets

CONSTANTS
    Dynamic,                    \* ids of resources with an object of the graphics API
    Assets,                     \* ids of resources that are loaded from an asset
    Parts,                      \* the dynamic resources the loader makes for an asset
    Given,                      \* the lists of dependencies a resource may be given
    Loadable,                   \* textures: their objects implement load and transfer
    CanFail                     \* resources whose creation the graphics API may refuse

Id == Dynamic \cup Assets

ASSUME PartsAssumption == Parts \in [Assets -> SUBSET Dynamic]
ASSUME GivenAssumption == Given \in [Dynamic -> SUBSET SUBSET Id]
ASSUME SubsetAssumption == Loadable \subseteq Dynamic /\ CanFail \subseteq Dynamic

\* EGpuApiResourceState, without the members nothing sets.
Flag == {"Creating", "Created", "Loading", "Loaded", "Transferring", "Transferred",
         "Unloading", "Unloaded", "Discarding", "Discarded"}

VARIABLES
    stored,                     \* mResourceObjects: the ids that are known
    states,                     \* mGpuApiResourceStates
    current,                    \* mDependencies of each resource: a set with at most one list
    edges,                      \* mResourceTree
    handle,                     \* the object of the graphics API the resource holds
    staged, filled,             \* what was written to its memory
    answer                      \* history: what the last initialize answered

vars == <<stored, states, current, edges, handle, staged, filled, answer>>

DependenciesOf(r) == {d \in Id : <<r, d>> \in edges}

\* The manager without resources.
Init ==
    /\ stored = {}
    /\ states = [r \in Dynamic |-> {}]
    /\ current = [r \in Dynamic |-> {}]
    /\ edges = {}
    /\ handle = [r \in Dynamic |-> "null"]
    /\ staged = {} /\ filled = {}
    /\ answer = [r \in Dynamic |-> "none"]

-----------------------------------------------------------------------------
(***************************************************************************)
(* The graphics API. An object that was destroyed leaves its handle behind.*)
(* Making an object over a live one loses the old one, and destroying a    *)
(* handle left behind frees it a second time.                              *)
(***************************************************************************)

GpuCreate(r) ==
    handle' = [handle EXCEPT ![r] = IF @ \in {"live", "lost"} THEN "lost" ELSE "live"]

GpuDestroy(r) ==
    /\ handle' = [handle EXCEPT ![r] = IF @ = "live" THEN "stale"
                                       ELSE IF @ = "stale" THEN "freedTwice" ELSE @]
    /\ staged' = staged \ {r}
    /\ filled' = filled \ {r}

-----------------------------------------------------------------------------
(***************************************************************************)
(* Making resources.                                                       *)
(***************************************************************************)

\* useDynamicResource: an id that is known answers with the object made first.
UseDynamicResource(r) ==
    /\ stored' = stored \cup {r}
    /\ UNCHANGED <<states, current, edges, handle, staged, filled, answer>>

\* useAssetResource: the loader makes the parts before the resource itself. An
\* asset that cannot be loaded leaves nothing behind.
UseAssetResource(a) ==
    /\ a \notin stored
    /\ stored' = stored \cup {a} \cup Parts[a]
    /\ UNCHANGED <<states, current, edges, handle, staged, filled, answer>>

\* discardResource returns before it does anything.
DiscardResource(r) == r \in stored /\ UNCHANGED vars

-----------------------------------------------------------------------------
(***************************************************************************)
(* Operations of a resource. A call the flags do not allow, or that they   *)
(* say is done already, answers at once and changes nothing: a stuttering  *)
(* step. Callers load and transfer textures only.                          *)
(***************************************************************************)

\* Mutant: the dependencies are remembered before the flags are looked at.
InitializeAgainRemembers(r) ==
    /\ r \in stored
    /\ states[r] \cap {"Creating", "Created"} # {}
    /\ \E dependencies \in Given[r] : current' = [current EXCEPT ![r] = {dependencies}]
    /\ answer' = [answer EXCEPT ![r] = "Ok"]
    /\ UNCHANGED <<stored, states, edges, handle, staged, filled>>

\* initialize, when the flags say that the object exists or is being made.
InitializeAgain(r) ==
    /\ r \in stored
    /\ states[r] \cap {"Creating", "Created"} # {}
    /\ answer' = [answer EXCEPT ![r] = "Ok"]
    /\ UNCHANGED <<stored, states, current, edges, handle, staged, filled>>

\* initialize, up to the call into the graphics API: remember the dependencies and
\* connect the resource to them in the tree.
Resolve(r, dependencies) ==
    /\ r \in stored
    /\ states[r] \cap {"Creating", "Created"} = {}
    /\ dependencies \in Given[r]
    /\ current' = [current EXCEPT ![r] = {dependencies}]
    /\ edges' = edges \cup ({r} \X dependencies)

\* Mutant: the flags are not looked at.
InitializeCreatesAnew(r, dependencies) ==
    /\ r \in stored
    /\ dependencies \in Given[r]
    /\ dependencies \subseteq stored
    /\ current' = [current EXCEPT ![r] = {dependencies}]
    /\ edges' = edges \cup ({r} \X dependencies)
    /\ GpuCreate(r)
    /\ states' = [states EXCEPT ![r] = {"Created"}]
    /\ answer' = [answer EXCEPT ![r] = "Ok"]
    /\ UNCHANGED <<stored, staged, filled>>

\* Mutant: dependencies that are not known are left out.
InitializeCreatesPartly(r, dependencies) ==
    /\ Resolve(r, dependencies)
    /\ GpuCreate(r)
    /\ states' = [states EXCEPT ![r] = {"Created"}]
    /\ answer' = [answer EXCEPT ![r] = "Ok"]
    /\ UNCHANGED <<stored, staged, filled>>

\* The graphics API makes the object.
InitializeCreates(r, dependencies) ==
    /\ Resolve(r, dependencies)
    /\ DependenciesOf(r) \cup dependencies \subseteq stored
    /\ GpuCreate(r)
    /\ states' = [states EXCEPT ![r] = {"Created"}]
    /\ answer' = [answer EXCEPT ![r] = "Ok"]
    /\ UNCHANGED <<stored, staged, filled>>

\* The graphics API refuses: the flags are set as after a success.
InitializeFails(r, dependencies) ==
    /\ r \in CanFail
    /\ Resolve(r, dependencies)
    /\ DependenciesOf(r) \cup dependencies \subseteq stored
    /\ states' = [states EXCEPT ![r] = {"Created"}]
    /\ answer' = [answer EXCEPT ![r] = "Error"]
    /\ UNCHANGED <<stored, handle, staged, filled>>

\* Mutant: the flag says Created before the dependencies are fetched.
InitializeThrowsDone(r, dependencies) ==
    /\ Resolve(r, dependencies)
    /\ ~ (DependenciesOf(r) \cup dependencies \subseteq stored)
    /\ states' = [states EXCEPT ![r] = {"Created"}]
    /\ answer' = [answer EXCEPT ![r] = "threw"]
    /\ UNCHANGED <<stored, handle, staged, filled>>

\* A dependency is not known: the exception leaves initialize in the middle.
InitializeThrows(r, dependencies) ==
    /\ Resolve(r, dependencies)
    /\ ~ (DependenciesOf(r) \cup dependencies \subseteq stored)
    /\ states' = [states EXCEPT ![r] = @ \cup {"Creating"}]
    /\ answer' = [answer EXCEPT ![r] = "threw"]
    /\ UNCHANGED <<stored, handle, staged, filled>>

\* load: the data is written to the staging memory of the object.
Load(r) ==
    /\ r \in Loadable \cap stored
    /\ "Created" \in states[r]
    /\ states[r] \cap {"Loading", "Loaded"} = {}
    /\ staged' = staged \cup {r}
    /\ states' = [states EXCEPT ![r] = @ \cup {"Loaded"}]
    /\ UNCHANGED <<stored, current, edges, handle, filled, answer>>

\* Mutant: whether the data was loaded is not looked at.
TransferUnloaded(r) ==
    /\ r \in Loadable \cap stored
    /\ "Created" \in states[r]
    /\ states[r] \cap {"Transferring", "Transferred"} = {}
    /\ filled' = filled \cup {r}
    /\ states' = [states EXCEPT ![r] = @ \cup {"Transferred"}]
    /\ UNCHANGED <<stored, current, edges, handle, staged, answer>>

\* transfer: the command that copies the staged data is recorded once.
Transfer(r) ==
    /\ r \in Loadable \cap stored
    /\ "Loaded" \in states[r]
    /\ states[r] \cap {"Transferring", "Transferred"} = {}
    /\ filled' = filled \cup {r}
    /\ states' = [states EXCEPT ![r] = @ \cup {"Transferred"}]
    /\ UNCHANGED <<stored, current, edges, handle, staged, answer>>

\* unload: nothing happens in the graphics API.
Unload(r) ==
    /\ r \in Loadable \cap stored
    /\ "Loaded" \in states[r]
    /\ states[r] \cap {"Unloading", "Unloaded"} = {}
    /\ states' = [states EXCEPT ![r] = (@ \ {"Loading", "Loaded"}) \cup {"Unloaded"}]
    /\ UNCHANGED <<stored, current, edges, handle, staged, filled, answer>>

\* deinitialize, with the dependencies the resource was initialized with.
Deinitialize(r) ==
    /\ r \in stored
    /\ "Unloaded" \in states[r]
    /\ states[r] \cap {"Discarding", "Discarded"} = {}
    /\ GpuDestroy(r)
    /\ edges' = edges \ ({r} \X UNION current[r])
    /\ states' = [states EXCEPT ![r] = {"Discarded"}]
    /\ UNCHANGED <<stored, current, answer>>

Next ==
    \/ \E r \in Dynamic :
          \/ UseDynamicResource(r)
          \/ InitializeAgain(r)
          \/ \E dependencies \in Given[r] :
                \/ InitializeCreates(r, dependencies)
                \/ InitializeFails(r, dependencies)
                \/ InitializeThrows(r, dependencies)
          \/ Load(r) \/ Transfer(r) \/ Unload(r) \/ Deinitialize(r)
    \/ \E a \in Assets : UseAssetResource(a)
    \/ \E r \in Id : DiscardResource(r)

Spec == Init /\ [][Next]_vars

-----------------------------------------------------------------------------
(***************************************************************************)
(* Properties.                                                             *)
(***************************************************************************)

\* The sets of flags a resource can have between two calls: none of the flags
\* of an operation under way, but Creating, which an exception leaves behind.
FlagsOK(r) ==
    \/ states[r] \subseteq {"Creating", "Discarded"}
    \/ "Created" \in states[r] /\ states[r] \subseteq {"Created", "Loaded", "Transferred", "Unloaded"}

TypeOK ==
    /\ stored \subseteq Id
    /\ states \in [Dynamic -> SUBSET Flag]
    /\ \A r \in Dynamic : FlagsOK(r)
    /\ current \in [Dynamic -> SUBSET SUBSET Id]
    /\ \A r \in Dynamic : current[r] = {} \/ \E d \in Given[r] : current[r] = {d}
    /\ edges \subseteq Dynamic \X Id
    /\ handle \in [Dynamic -> {"null", "live", "stale", "lost", "freedTwice"}]
    /\ staged \subseteq Loadable /\ filled \subseteq Loadable
    /\ answer \in [Dynamic -> {"none", "Ok", "Error", "threw"}]

\* The flags of a resource tell what the graphics API holds for it, however
\* its operations are ordered and repeated and whatever creation fails: no
\* object is lost by making another one over it, a live one is known as created,
\* and when creation cannot fail, a created one is live, loaded data is staged
\* and transferred data has arrived.
FlagsTellObject ==
    \A r \in Dynamic :
        /\ handle[r] # "lost"
        /\ handle[r] = "live" => "Created" \in states[r]
        /\ r \notin CanFail =>
              /\ handle[r] # "freedTwice"
              /\ "Created" \in states[r] => handle[r] = "live"
              /\ "Loaded" \in states[r] => r \in staged
              /\ "Transferred" \in states[r] => r \in filled

\* The tree connects a resource to the dependencies it was last initialized with,
\* from the initialization to the deinitialization: what initialize hands to the
\* graphics API is what the caller named, whatever the resource was connected
\* to in an earlier life.
EdgesAreCurrent ==
    \A r \in Dynamic :
        DependenciesOf(r) =
            IF states[r] \cap {"Creating", "Created"} = {} THEN {} ELSE UNION current[r]

\* Everything a created resource was made from is known to the manager.
CreatedFromKnown ==
    \A r \in Dynamic : "Created" \in states[r] => DependenciesOf(r) \subseteq stored

\* When initialize answers Ok, and creation cannot fail, there is an object or there was
\* one and it has been destroyed since; or initialize had thrown before and left the
\* resource being made. Who goes by the answer, as bindRenderPass does, errs only then.
OkIsLive ==
    \A r \in Dynamic \ CanFail :
        answer[r] = "Ok" => handle[r] \in {"live", "stale"} \/ "Creating" \in states[r]

\* Of the objects whose creation cannot fail the graphics API is only asked for
\* what its protocol allows, whatever becomes of the others.
Object(h) ==
    CASE h \in {"null", "stale"} -> "none"
      [] h = "live" -> "live"
      [] OTHER -> "broken"

Protocol ==
    INSTANCE GpuObjectProtocol
        WITH Dynamic <- Dynamic \ CanFail,
             object <- [r \in Dynamic \ CanFail |-> Object(handle[r])],
             staged <- staged \ CanFail,
             filled <- filled \ CanFail

ImplementsProtocol == Protocol!Spec
==============================================================================
