----------------------- MODULE ResourceManager_proofs -----------------------
(***************************************************************************)
(* Proofs about ResourceManager, for every set of resources, of assets and *)
(* of dependencies.                                                        *)
(***************************************************************************)
EXTENDS ResourceManager, TLAPS

\* The conjuncts support each other: the sets of flags that TypeOK admits make
\* Unloaded and Loaded imply Created, which the other conjuncts speak of.
Inv == TypeOK /\ FlagsTellObject /\ EdgesAreCurrent /\ CreatedFromKnown

-----------------------------------------------------------------------------
(***************************************************************************)
(* The initial state, and the steps that only make resources known.        *)
(***************************************************************************)

LEMMA InitInv == Init => Inv
  <1>. SUFFICES ASSUME Init PROVE Inv
    OBVIOUS
  <1>1. TypeOK
    BY DEF Init, TypeOK, FlagsOK, Flag
  <1>2. FlagsTellObject /\ EdgesAreCurrent /\ CreatedFromKnown
    BY DEF Init, FlagsTellObject, EdgesAreCurrent, CreatedFromKnown, DependenciesOf
  <1>. QED
    BY <1>1, <1>2 DEF Inv

\* A larger set of known ids disturbs nothing.
LEMMA StoredGrows ==
    ASSUME Inv, stored \subseteq stored', stored' \subseteq Id,
           UNCHANGED <<states, current, edges, handle, staged, filled>>,
           answer' \in [Dynamic -> {"none", "Ok", "Error", "threw"}]
    PROVE  Inv'
  BY DEF Inv, TypeOK, FlagsOK, FlagsTellObject, EdgesAreCurrent, CreatedFromKnown, DependenciesOf

-----------------------------------------------------------------------------
(***************************************************************************)
(* Initialization.                                                         *)
(***************************************************************************)

\* A resource that is neither created nor being created has no edges, and
\* connecting it makes its edges the dependencies it is given.
LEMMA ResolveConnects ==
    ASSUME Inv, NEW r \in Dynamic, NEW dependencies \in Given[r], Resolve(r, dependencies)
    PROVE  /\ DependenciesOf(r) = {}
           /\ DependenciesOf(r)' = dependencies
           /\ \A s \in Dynamic \ {r} : DependenciesOf(s)' = DependenciesOf(s)
           /\ current' = [current EXCEPT ![r] = {dependencies}]
           /\ current' \in [Dynamic -> SUBSET SUBSET Id]
           /\ edges' \subseteq Dynamic \X Id
           /\ \A s \in Dynamic : current'[s] = {} \/ \E d \in Given[s] : current'[s] = {d}
  <1>1. DependenciesOf(r) = {}
    BY DEF Resolve, Inv, EdgesAreCurrent
  <1>2. dependencies \subseteq Id
    BY GivenAssumption
  <1>3. DependenciesOf(r)' = dependencies
    BY <1>1, <1>2 DEF Resolve, DependenciesOf
  <1>4. \A s \in Dynamic \ {r} : DependenciesOf(s)' = DependenciesOf(s)
    BY DEF Resolve, DependenciesOf
  <1>5. edges' \subseteq Dynamic \X Id
    BY <1>2 DEF Resolve, Inv, TypeOK
  <1>6. current' = [current EXCEPT ![r] = {dependencies}]
    BY DEF Resolve
  <1>8. current' \in [Dynamic -> SUBSET SUBSET Id]
    BY <1>2, <1>6 DEF Inv, TypeOK
  <1>7. \A s \in Dynamic : current'[s] = {} \/ \E d \in Given[s] : current'[s] = {d}
    BY <1>6 DEF Inv, TypeOK
  <1>. QED
    BY <1>1, <1>3, <1>4, <1>5, <1>6, <1>7, <1>8

\* What initialize establishes, whichever way it ends: the flags become Created, or
\* Creating is added to flags that tell of nothing.
LEMMA InitializeInv ==
    ASSUME Inv, NEW r \in Dynamic, NEW dependencies \in Given[r], Resolve(r, dependencies),
           NEW flags, states' = [states EXCEPT ![r] = flags],
           \/ /\ flags = {"Created"}
              /\ dependencies \subseteq stored
              /\ \/ GpuCreate(r)
                 \/ r \in CanFail /\ UNCHANGED handle
           \/ flags = states[r] \cup {"Creating"} /\ UNCHANGED handle,
           answer' \in [Dynamic -> {"none", "Ok", "Error", "threw"}],
           UNCHANGED <<stored, staged, filled>>
    PROVE  Inv'
  <1>1. /\ states \in [Dynamic -> SUBSET Flag] /\ FlagsOK(r)
        /\ states[r] \cap {"Creating", "Created"} = {}
        /\ handle \in [Dynamic -> {"null", "live", "stale", "lost", "freedTwice"}]
    BY DEF Inv, TypeOK, Resolve
  <1>2. states[r] \subseteq {"Discarded"} /\ handle[r] \notin {"live", "lost"}
    BY <1>1 DEF FlagsOK, Inv, FlagsTellObject
  <1>3. states'[r] = flags /\ \A s \in Dynamic \ {r} : states'[s] = states[s]
    BY <1>1
  <1>4. /\ handle'[r] \in {"live", handle[r]}
        /\ \A s \in Dynamic \ {r} : handle'[s] = handle[s]
        /\ handle' \in [Dynamic -> {"null", "live", "stale", "lost", "freedTwice"}]
        /\ handle'[r] = "live" \/ flags # {"Created"} \/ r \in CanFail
        /\ handle'[r] = "live" => flags = {"Created"}
    BY <1>1, <1>2 DEF GpuCreate
  <1>5. TypeOK'
    <2>1. states' \in [Dynamic -> SUBSET Flag]
      BY <1>1 DEF Flag
    <2>2. \A s \in Dynamic : FlagsOK(s)'
      BY <1>2, <1>3 DEF FlagsOK, Inv, TypeOK
    <2>. QED
      BY <2>1, <2>2, <1>4, ResolveConnects DEF TypeOK, Inv
  <1>6. FlagsTellObject'
    BY <1>2, <1>3, <1>4 DEF Inv, FlagsTellObject
  <1>7. EdgesAreCurrent'
    <2>1. current'[r] = {dependencies} /\ \A s \in Dynamic \ {r} : current'[s] = current[s]
      BY ResolveConnects DEF Inv, TypeOK
    <2>2. states'[r] \cap {"Creating", "Created"} # {}
      BY <1>3
    <2>. QED
      BY <2>1, <2>2, <1>3, ResolveConnects DEF Inv, EdgesAreCurrent
  <1>8. CreatedFromKnown'
    <2>1. "Created" \in states'[r] => dependencies \subseteq stored
      BY <1>2, <1>3
    <2>. QED
      BY <2>1, <1>3, ResolveConnects DEF Inv, CreatedFromKnown
  <1>. QED
    BY <1>5, <1>6, <1>7, <1>8 DEF Inv

-----------------------------------------------------------------------------
(***************************************************************************)
(* The operations on an initialized resource.                              *)
(***************************************************************************)

\* load, transfer and unload exchange flags of a created resource.
LEMMA FlagsInv ==
    ASSUME Inv, NEW r \in Dynamic, Load(r) \/ Transfer(r) \/ Unload(r)
    PROVE  Inv'
  <1>1. states \in [Dynamic -> SUBSET Flag] /\ FlagsOK(r)
    BY DEF Inv, TypeOK
  <1>2. "Created" \in states[r] /\ states[r] \subseteq {"Created", "Loaded", "Transferred", "Unloaded"}
    BY <1>1 DEF FlagsOK, Load, Transfer, Unload
  <1>3. /\ "Created" \in states'[r]
        /\ states'[r] \subseteq {"Created", "Loaded", "Transferred", "Unloaded"}
        /\ \A s \in Dynamic \ {r} : states'[s] = states[s]
        /\ states' \in [Dynamic -> SUBSET Flag]
    BY <1>1, <1>2 DEF Load, Transfer, Unload, Flag
  <1>4. TypeOK'
    <2>1. \A s \in Dynamic : FlagsOK(s)'
      BY <1>3 DEF FlagsOK, Inv, TypeOK
    <2>. QED
      BY <2>1, <1>3 DEF Inv, TypeOK, Load, Transfer, Unload
  <1>5. FlagsTellObject'
    BY <1>1, <1>2, <1>3 DEF Inv, FlagsTellObject, Load, Transfer, Unload
  <1>6. \A s \in Dynamic : DependenciesOf(s)' = DependenciesOf(s) /\ UNCHANGED <<current, stored>>
    BY DEF DependenciesOf, Load, Transfer, Unload
  <1>7. EdgesAreCurrent' /\ CreatedFromKnown'
    BY <1>2, <1>3, <1>6 DEF Inv, EdgesAreCurrent, CreatedFromKnown
  <1>. QED
    BY <1>4, <1>5, <1>7 DEF Inv

\* deinitialize destroys a live object, or one whose creation failed, and
\* disconnects the resource from everything it was connected to.
LEMMA DeinitializeInv ==
    ASSUME Inv, NEW r \in Dynamic, Deinitialize(r)
    PROVE  Inv'
  <1>1. /\ states \in [Dynamic -> SUBSET Flag] /\ FlagsOK(r)
        /\ handle \in [Dynamic -> {"null", "live", "stale", "lost", "freedTwice"}]
    BY DEF Inv, TypeOK
  <1>2. "Created" \in states[r]
    BY <1>1 DEF FlagsOK, Deinitialize
  <1>3. /\ states'[r] = {"Discarded"}
        /\ \A s \in Dynamic \ {r} : states'[s] = states[s]
        /\ states' \in [Dynamic -> SUBSET Flag]
    BY <1>1 DEF Deinitialize, Flag
  <1>4. /\ handle'[r] \in {"null", "stale", "freedTwice"}
        /\ r \notin CanFail => handle'[r] = "stale"
        /\ \A s \in Dynamic \ {r} : handle'[s] = handle[s]
        /\ handle' \in [Dynamic -> {"null", "live", "stale", "lost", "freedTwice"}]
        /\ staged' = staged \ {r} /\ filled' = filled \ {r}
    BY <1>1, <1>2 DEF Deinitialize, GpuDestroy, Inv, FlagsTellObject
  <1>5. TypeOK'
    <2>1. \A s \in Dynamic : FlagsOK(s)'
      BY <1>3 DEF FlagsOK, Inv, TypeOK
    <2>. QED
      BY <2>1, <1>3, <1>4 DEF Inv, TypeOK, Deinitialize
  <1>6. FlagsTellObject'
    BY <1>3, <1>4 DEF Inv, FlagsTellObject
  <1>7. DependenciesOf(r)' = {}
    BY <1>2 DEF Inv, EdgesAreCurrent, DependenciesOf, Deinitialize
  <1>8. \A s \in Dynamic \ {r} : DependenciesOf(s)' = DependenciesOf(s)
    BY DEF DependenciesOf, Deinitialize
  <1>9. EdgesAreCurrent' /\ CreatedFromKnown'
    BY <1>3, <1>7, <1>8 DEF Inv, EdgesAreCurrent, CreatedFromKnown, Deinitialize
  <1>. QED
    BY <1>5, <1>6, <1>9 DEF Inv

-----------------------------------------------------------------------------
(***************************************************************************)
(* The invariant holds in every state.                                     *)
(***************************************************************************)

LEMMA NextInv == Inv /\ [Next]_vars => Inv'
  <1>. SUFFICES ASSUME Inv, [Next]_vars PROVE Inv'
    OBVIOUS
  <1>1. answer \in [Dynamic -> {"none", "Ok", "Error", "threw"}] /\ stored \subseteq Id
    BY DEF Inv, TypeOK
  <1>2. ASSUME NEW r \in Dynamic, UseDynamicResource(r) PROVE Inv'
    <2>. r \in Id
      BY DEF Id
    <2>. QED
      BY <1>1, <1>2, StoredGrows DEF UseDynamicResource
  <1>3. ASSUME NEW a \in Assets, UseAssetResource(a) PROVE Inv'
    <2>. a \in Id /\ Parts[a] \subseteq Id
      BY PartsAssumption DEF Id
    <2>. QED
      BY <1>1, <1>3, StoredGrows DEF UseAssetResource
  <1>4. ASSUME NEW r \in Dynamic, InitializeAgain(r) PROVE Inv'
    BY <1>1, <1>4, StoredGrows DEF InitializeAgain
  <1>5. ASSUME NEW r \in Dynamic, NEW dependencies \in Given[r], InitializeCreates(r, dependencies)
        PROVE  Inv'
    BY <1>1, <1>5, InitializeInv DEF InitializeCreates
  <1>6. ASSUME NEW r \in Dynamic, NEW dependencies \in Given[r], InitializeFails(r, dependencies)
        PROVE  Inv'
    BY <1>1, <1>6, InitializeInv DEF InitializeFails
  <1>7. ASSUME NEW r \in Dynamic, NEW dependencies \in Given[r], InitializeThrows(r, dependencies)
        PROVE  Inv'
    BY <1>1, <1>7, InitializeInv DEF InitializeThrows
  <1>8. CASE UNCHANGED vars
    BY <1>1, <1>8, StoredGrows DEF vars
  <1>9. ASSUME NEW r \in Id, DiscardResource(r) PROVE Inv'
    BY <1>8, <1>9 DEF DiscardResource
  <1>. QED
    BY <1>2, <1>3, <1>4, <1>5, <1>6, <1>7, <1>8, <1>9, FlagsInv, DeinitializeInv DEF Next

LEMMA Invariance == Spec => []Inv
  <1>. QED
    BY InitInv, NextInv, PTL DEF Spec

\* Type correctness: between two calls the flags of a resource form one of the
\* sets the operations are written for.
THEOREM TypeInvariance == Spec => []TypeOK
  <1>1. Inv => TypeOK
    BY DEF Inv
  <1>. QED
    BY <1>1, Invariance, PTL

\* The flags tell what the graphics API holds, in every order of the calls.
THEOREM FlagsTellObjectInvariance == Spec => []FlagsTellObject
  <1>1. Inv => FlagsTellObject
    BY DEF Inv
  <1>. QED
    BY <1>1, Invariance, PTL

\* The tree holds the dependencies of the current life of each resource.
THEOREM EdgesAreCurrentInvariance == Spec => []EdgesAreCurrent
  <1>1. Inv => EdgesAreCurrent
    BY DEF Inv
  <1>. QED
    BY <1>1, Invariance, PTL

\* A created resource depends on known resources only.
THEOREM CreatedFromKnownInvariance == Spec => []CreatedFromKnown
  <1>1. Inv => CreatedFromKnown
    BY DEF Inv
  <1>. QED
    BY <1>1, Invariance, PTL

-----------------------------------------------------------------------------
(***************************************************************************)
(* What the answer Ok is worth.                                            *)
(***************************************************************************)

\* An object that was made once is live or destroyed ever after, and a resource
\* whose initialize threw is being made ever after.
LEMMA OkIsLiveStep == Inv /\ OkIsLive /\ [Next]_vars => OkIsLive'
  <1>. SUFFICES ASSUME Inv, OkIsLive, [Next]_vars, NEW s \in Dynamic \ CanFail, answer'[s] = "Ok"
                PROVE  handle'[s] \in {"live", "stale"} \/ "Creating" \in states'[s]
    BY DEF OkIsLive
  <1>1. /\ states \in [Dynamic -> SUBSET Flag] /\ FlagsOK(s)
        /\ handle \in [Dynamic -> {"null", "live", "stale", "lost", "freedTwice"}]
        /\ answer \in [Dynamic -> {"none", "Ok", "Error", "threw"}]
    BY DEF Inv, TypeOK
  <1>2. answer[s] = "Ok" => handle[s] \in {"live", "stale"} \/ "Creating" \in states[s]
    BY DEF OkIsLive
  <1>3. "Created" \in states[s] => handle[s] = "live"
    BY DEF Inv, FlagsTellObject
  <1>4. CASE UNCHANGED <<states, handle, answer>>
    BY <1>2, <1>4
  <1>5. ASSUME NEW r \in Dynamic, InitializeAgain(r)
        PROVE  handle'[s] \in {"live", "stale"} \/ "Creating" \in states'[s]
    <2>1. CASE r = s
      BY <1>3, <1>5, <2>1 DEF InitializeAgain
    <2>2. CASE r # s
      BY <1>1, <1>2, <1>5, <2>2 DEF InitializeAgain
    <2>. QED
      BY <2>1, <2>2
  <1>6. ASSUME NEW r \in Dynamic, NEW dependencies \in Given[r],
               \/ InitializeCreates(r, dependencies)
               \/ InitializeFails(r, dependencies)
               \/ InitializeThrows(r, dependencies)
        PROVE  handle'[s] \in {"live", "stale"} \/ "Creating" \in states'[s]
    <2>1. CASE r = s
      <3>1. handle[s] \notin {"live", "lost"}
        BY <1>1, <1>6, <2>1 DEF Resolve, FlagsOK, Inv, FlagsTellObject, InitializeCreates,
                                InitializeFails, InitializeThrows
      <3>. QED
        BY <1>1, <1>6, <2>1, <3>1 DEF InitializeCreates, InitializeFails, InitializeThrows, GpuCreate
    <2>2. CASE r # s
      <3>1. answer'[s] = answer[s] /\ handle'[s] = handle[s] /\ states'[s] = states[s]
        BY <1>1, <1>6, <2>2 DEF InitializeCreates, InitializeFails, InitializeThrows, GpuCreate
      <3>. QED
        BY <1>2, <3>1
    <2>. QED
      BY <2>1, <2>2
  <1>7. ASSUME NEW r \in Dynamic, Load(r) \/ Transfer(r) \/ Unload(r)
        PROVE  handle'[s] \in {"live", "stale"} \/ "Creating" \in states'[s]
    <2>1. /\ answer' = answer /\ handle' = handle
          /\ "Creating" \in states[s] => "Creating" \in states'[s]
      BY <1>1, <1>7 DEF Load, Transfer, Unload
    <2>. QED
      BY <1>2, <2>1
  <1>8. ASSUME NEW r \in Dynamic, Deinitialize(r)
        PROVE  handle'[s] \in {"live", "stale"} \/ "Creating" \in states'[s]
    <2>1. CASE r = s
      BY <1>1, <1>3, <1>8, <2>1 DEF Deinitialize, GpuDestroy, FlagsOK
    <2>2. CASE r # s
      BY <1>1, <1>2, <1>8, <2>2 DEF Deinitialize, GpuDestroy
    <2>. QED
      BY <2>1, <2>2
  <1>. QED
    BY <1>4, <1>5, <1>6, <1>7, <1>8
       DEF Next, vars, UseDynamicResource, UseAssetResource, DiscardResource

\* The answer Ok of a resource whose creation cannot fail tells of an object, but for
\* one whose initialize has thrown.
THEOREM OkIsLiveInvariance == Spec => []OkIsLive
  <1>1. Init => OkIsLive
    BY DEF Init, OkIsLive
  <1>. QED
    BY <1>1, OkIsLiveStep, Invariance, PTL DEF Spec

-----------------------------------------------------------------------------
(***************************************************************************)
(* The manager keeps to the protocol of the graphics API.                  *)
(***************************************************************************)

Safe == Dynamic \ CanFail

LEMMA InitImplements == Init => Protocol!Init
  BY DEF Init, Protocol!Init, Object

\* What initialize, load, transfer and deinitialize ask of the graphics API for a
\* resource whose creation cannot fail.
LEMMA SafeStepImplements ==
    ASSUME Inv, NEW r \in Safe
    PROVE  /\ \A dependencies \in Given[r] :
                 InitializeCreates(r, dependencies) => Protocol!Create(r)
           /\ Load(r) => Protocol!Stage(r)
           /\ Transfer(r) => Protocol!Transfer(r)
           /\ Deinitialize(r) => Protocol!Destroy(r)
  <1>. DEFINE object == [s \in Safe |-> Object(handle[s])]
  <1>. USE DEF Safe
  <1>1. /\ handle \in [Dynamic -> {"null", "live", "stale", "lost", "freedTwice"}]
        /\ FlagsOK(r)
    BY DEF Inv, TypeOK
  <1>2. ASSUME "Created" \in states[r] PROVE handle[r] = "live" /\ object[r] = "live"
    BY <1>2 DEF Inv, FlagsTellObject, Object
  <1>3. ASSUME NEW dependencies \in Given[r], InitializeCreates(r, dependencies)
        PROVE  Protocol!Create(r)
    <2>1. handle[r] \notin {"lost", "live", "freedTwice"}
      BY <1>3 DEF InitializeCreates, Resolve, Inv, FlagsTellObject
    <2>2. handle' = [handle EXCEPT ![r] = "live"]
      BY <1>3, <2>1 DEF InitializeCreates, GpuCreate
    <2>3. object[r] = "none"
      BY <1>1, <2>1 DEF Object
    <2>4. object' = [object EXCEPT ![r] = "live"]
      BY <1>1, <2>2 DEF Object
    <2>. QED
      BY <1>3, <2>3, <2>4 DEF InitializeCreates, Protocol!Create
  <1>4. ASSUME Load(r) PROVE Protocol!Stage(r)
    <2>1. object[r] = "live"
      BY <1>2, <1>4 DEF Load
    <2>2. (staged \ CanFail)' = (staged \ CanFail) \cup {r}
      BY <1>4 DEF Load
    <2>. QED
      BY <1>4, <2>1, <2>2 DEF Load, Protocol!Stage
  <1>5. ASSUME Transfer(r) PROVE Protocol!Transfer(r)
    <2>1. "Created" \in states[r] /\ "Loaded" \in states[r]
      BY <1>1, <1>5 DEF FlagsOK, Transfer
    <2>2. object[r] = "live" /\ r \in staged
      BY <1>2, <2>1 DEF Inv, FlagsTellObject
    <2>3. (filled \ CanFail)' = (filled \ CanFail) \cup {r}
      BY <1>5 DEF Transfer
    <2>. QED
      BY <1>5, <2>2, <2>3 DEF Transfer, Protocol!Transfer
  <1>6. ASSUME Deinitialize(r) PROVE Protocol!Destroy(r)
    <2>1. "Created" \in states[r]
      BY <1>1, <1>6 DEF FlagsOK, Deinitialize
    <2>2. handle[r] = "live" /\ handle' = [handle EXCEPT ![r] = "stale"]
      BY <1>2, <1>6, <2>1 DEF Deinitialize, GpuDestroy
    <2>3. object[r] = "live" /\ object' = [object EXCEPT ![r] = "none"]
      BY <1>1, <2>2 DEF Object
    <2>4. /\ (staged \ CanFail)' = (staged \ CanFail) \ {r}
          /\ (filled \ CanFail)' = (filled \ CanFail) \ {r}
      BY <1>6 DEF Deinitialize, GpuDestroy
    <2>. QED
      BY <2>3, <2>4 DEF Protocol!Destroy
  <1>. QED
    BY <1>3, <1>4, <1>5, <1>6

\* What is done to a resource whose creation can fail the protocol does not see.
LEMMA UnsafeStepUnseen ==
    ASSUME Inv, NEW r \in Dynamic \cap CanFail,
           \/ \E dependencies \in Given[r] :
                 InitializeCreates(r, dependencies) \/ InitializeFails(r, dependencies)
           \/ Load(r) \/ Transfer(r) \/ Deinitialize(r)
    PROVE  UNCHANGED Protocol!vars
  <1>1. /\ \A s \in Safe : handle'[s] = handle[s]
        /\ (staged \ CanFail)' = staged \ CanFail
        /\ (filled \ CanFail)' = filled \ CanFail
    BY DEF InitializeCreates, InitializeFails, Load, Transfer, Deinitialize,
           GpuCreate, GpuDestroy, Inv, TypeOK, Safe
  <1>. QED
    BY <1>1 DEF Protocol!vars, Safe, Object

LEMMA StepImplements ==
    ASSUME Inv, Next
    PROVE  [Protocol!Next]_Protocol!vars
  <1>1. ASSUME UNCHANGED <<handle, staged, filled>> PROVE UNCHANGED Protocol!vars
    BY <1>1 DEF Protocol!vars
  <1>2. ASSUME NEW r \in Dynamic,
               \/ \E dependencies \in Given[r] :
                     InitializeCreates(r, dependencies) \/ InitializeFails(r, dependencies)
               \/ Load(r) \/ Transfer(r) \/ Deinitialize(r)
        PROVE  [Protocol!Next]_Protocol!vars
    <2>1. CASE r \in CanFail
      BY <1>2, <2>1, UnsafeStepUnseen
    <2>2. CASE r \in Safe
      <3>1. \A dependencies \in Given[r] : ~ InitializeFails(r, dependencies)
        BY <2>2 DEF InitializeFails, Safe
      <3>. QED
        BY <1>2, <2>2, <3>1, SafeStepImplements DEF Protocol!Next, Safe
    <2>. QED
      BY <2>1, <2>2 DEF Safe
  <1>3. ASSUME NEW r \in Dynamic, NEW dependencies \in Given[r], InitializeThrows(r, dependencies)
        PROVE  UNCHANGED Protocol!vars
    BY <1>1, <1>3 DEF InitializeThrows
  <1>4. ASSUME NEW r \in Dynamic, UseDynamicResource(r) \/ InitializeAgain(r) \/ Unload(r)
        PROVE  UNCHANGED Protocol!vars
    BY <1>1, <1>4 DEF UseDynamicResource, InitializeAgain, Unload
  <1>5. ASSUME NEW r \in Id, (r \in Assets /\ UseAssetResource(r)) \/ DiscardResource(r)
        PROVE  UNCHANGED Protocol!vars
    BY <1>1, <1>5 DEF UseAssetResource, DiscardResource, vars
  <1>6. Assets \subseteq Id
    BY DEF Id
  <1>. QED
    BY <1>2, <1>3, <1>4, <1>5, <1>6 DEF Next

\* For the resources whose creation cannot fail every behaviour of the manager is
\* one of the protocol: nothing is created twice, destroyed twice, or touched when
\* it is not there, however often and in whatever order the operations are called
\* and whatever fails for the other resources.
THEOREM ManagerImplementsProtocol == Spec => ImplementsProtocol
  <1>1. Inv /\ [Next]_vars => [Protocol!Next]_Protocol!vars
    <2>1. UNCHANGED vars => UNCHANGED Protocol!vars
      BY DEF vars, Protocol!vars
    <2>. QED
      BY <2>1, StepImplements
  <1>. QED
    BY <1>1, InitImplements, Invariance, PTL DEF Spec, ImplementsProtocol, Protocol!Spec
==============================================================================
