----------------------- MODULE FrameExecution_proofs -----------------------
(***************************************************************************)
(* What holds of a frame for every number of images, passes and recreated  *)
(* swap chains and for all failures: types, that the frame works on the    *)
(* image it has acquired, and that nothing is used while it is in use.     *)
(***************************************************************************)
EXTENDS FrameExecution, FiniteSetTheorems, SequenceTheorems, TLAPS

BatchType == [slot : Slot, wait : Kinds, signal : Kinds, buffer : Slot]
PresentType == [slot : Slot, image : Nat]

\* The phases in which the frame holds an image.
Holding == {"preparing", "binding", "recording", "finishing", "submitting",
            "submittingGraphics", "presenting"}

\* The strengthening: where the frame context and the acquired images are.
HostAgrees ==
    /\ context \subseteq {[slot |-> back, buffer |-> imageIndex]}
    /\ phase \in {"acquiring", "reacquiring"} => context = {}
    /\ phase \in Holding \cup {"repairing", "waiting"} => context # {}
    /\ phase \in Holding => acquired = {imageIndex}
    /\ phase = "idle" /\ context # {} => acquired = {imageIndex}
    /\ phase = "idle" /\ context = {} => acquired = {}
    /\ phase \in {"acquiring", "repairing", "waiting"} => acquired = {}
    /\ phase \in {"reacquiring", "repairing"} => recreations < MaxRecreations

\* The lists rotate within the slots.
LEMMA Rotation ==
    ASSUME NEW n \in Nat \ {0}, NEW k \in 0..(n - 1)
    PROVE  (k + 1) % n = IF k = n - 1 THEN 0 ELSE k + 1
  OBVIOUS

\* The context of the frame, where there is one.
LEMMA CurrentContext ==
    ASSUME HostAgrees, context # {}
    PROVE  Current = [slot |-> back, buffer |-> imageIndex] /\ Current \in context
  BY DEF HostAgrees, Current

LEMMA NoTwoContexts ==
    ASSUME NEW C, NEW c, C \subseteq {c}
    PROVE  Cardinality(C) <= 1
  <1>1. IsFiniteSet({c}) /\ Cardinality({c}) = 1
    BY FS_Singleton
  <1>2. Cardinality(C) <= Cardinality({c})
    BY <1>1, FS_Subset
  <1>. QED
    BY <1>1, <1>2

\* Conjuncts of TypeOK by the part of the state they are about.
EnvironmentOK ==
    /\ slots \in ImageCounts /\ images \in ImageCounts
    /\ back \in Slot /\ imageIndex \in Nat
    /\ context \subseteq [slot : Slot, buffer : Slot] /\ Cardinality(context) <= 1
    /\ recreations \in 0..MaxRecreations

PhaseOK ==
    phase \in {"idle", "acquiring", "reacquiring", "preparing", "binding", "recording",
               "finishing", "submitting", "submittingGraphics", "presenting",
               "repairing", "waiting", "terminated"}

PassesOK ==
    /\ {passes, described} \subseteq PassCounts \cup {0} /\ done \in Nat
    /\ renderPass \in {"none", "made", "missing"} /\ active \in BOOLEAN
    /\ subpass \in Nat /\ recorded \in Nat

DeviceOK ==
    /\ semaphore \in [Kinds \X Slot -> {"unsignaled", "pending", "signaled"}]
    /\ buffer \in [{"transfer", "graphics"} \X Slot ->
                      {"ready", "recording", "executable", "pending"}]
    /\ misused \subseteq {"semaphore", "buffer"}
    /\ transferQueue \in Seq(BatchType) /\ graphicsQueue \in Seq(BatchType)

ImagesOK ==
    /\ acquired \subseteq Nat /\ acquired \cap Queued = {}
    /\ presentQueue \in Seq(PresentType)

LEMMA TypeParts ==
    TypeOK <=> EnvironmentOK /\ PhaseOK /\ PassesOK /\ DeviceOK /\ ImagesOK
  BY DEF TypeOK, EnvironmentOK, PhaseOK, PassesOK, DeviceOK, ImagesOK, BatchType, PresentType

LEMMA TypePartsNext ==
    TypeOK' <=> EnvironmentOK' /\ PhaseOK' /\ PassesOK' /\ DeviceOK' /\ ImagesOK'
  BY DEF TypeOK, EnvironmentOK, PhaseOK, PassesOK, DeviceOK, ImagesOK, BatchType,
         PresentType, Slot, Queued

\* What is left alone keeps its type.
LEMMA EnvironmentKept ==
    EnvironmentOK /\ UNCHANGED environmentVars => EnvironmentOK' /\ slots' = slots
  BY DEF EnvironmentOK, environmentVars, Slot

LEMMA PassesKept == PassesOK /\ UNCHANGED passVars => PassesOK'
  BY DEF PassesOK, passVars

LEMMA DeviceKept ==
    /\ DeviceOK /\ slots' = slots
    /\ UNCHANGED <<semaphore, buffer, misused, transferQueue, graphicsQueue>>
    => DeviceOK'
  BY DEF DeviceOK, Slot, BatchType

LEMMA ImagesKept ==
    ImagesOK /\ slots' = slots /\ UNCHANGED <<acquired, presentQueue>> => ImagesOK'
  BY DEF ImagesOK, Queued, Slot, PresentType

\* The semaphores and buffers keep their types whatever is done to them.
LEMMA SignalKeeps ==
    ASSUME semaphore \in [Kinds \X Slot -> {"unsignaled", "pending", "signaled"}],
           misused \subseteq {"semaphore", "buffer"}, NEW s, Signal(s)
    PROVE  /\ semaphore' \in [Kinds \X Slot -> {"unsignaled", "pending", "signaled"}]
           /\ misused' \subseteq {"semaphore", "buffer"}
  BY DEF Signal

LEMMA MoveKeeps ==
    ASSUME buffer \in [{"transfer", "graphics"} \X Slot ->
                          {"ready", "recording", "executable", "pending"}],
           misused \subseteq {"semaphore", "buffer"},
           NEW S, NEW from, NEW to \in {"ready", "recording", "executable", "pending"},
           Move(S, from, to)
    PROVE  /\ buffer' \in [{"transfer", "graphics"} \X Slot ->
                               {"ready", "recording", "executable", "pending"}]
           /\ misused' \subseteq {"semaphore", "buffer"}
  BY DEF Move

LEMMA SubmitKeeps ==
    ASSUME semaphore \in [Kinds \X Slot -> {"unsignaled", "pending", "signaled"}],
           buffer \in [{"transfer", "graphics"} \X Slot ->
                          {"ready", "recording", "executable", "pending"}],
           misused \subseteq {"semaphore", "buffer"}, NEW kind, NEW signal,
           Submit(kind, signal)
    PROVE  /\ semaphore' \in [Kinds \X Slot -> {"unsignaled", "pending", "signaled"}]
           /\ buffer' \in [{"transfer", "graphics"} \X Slot ->
                               {"ready", "recording", "executable", "pending"}]
           /\ misused' \subseteq {"semaphore", "buffer"}
  BY DEF Submit

LEMMA ExecutedKeeps ==
    ASSUME semaphore \in [Kinds \X Slot -> {"unsignaled", "pending", "signaled"}],
           buffer \in [{"transfer", "graphics"} \X Slot ->
                          {"ready", "recording", "executable", "pending"}],
           misused \subseteq {"semaphore", "buffer"}, NEW batch, NEW kind,
           Executed(batch, kind)
    PROVE  /\ semaphore' \in [Kinds \X Slot -> {"unsignaled", "pending", "signaled"}]
           /\ buffer' \in [{"transfer", "graphics"} \X Slot ->
                               {"ready", "recording", "executable", "pending"}]
           /\ misused' \subseteq {"semaphore", "buffer"}
  <1>1. semaphore' \in [Kinds \X Slot -> {"unsignaled", "pending", "signaled"}]
    BY DEF Executed
  <1>2. Move({<<kind, batch.buffer>>}, "pending", "ready")
    BY DEF Executed
  <1>. QED
    BY <1>1, <1>2, MoveKeeps

\* The batch a frame submits.
LEMMA BatchTyped ==
    ASSUME EnvironmentOK, HostAgrees, context # {}, NEW wait \in Kinds, NEW signal \in Kinds
    PROVE  Batch(wait, signal) \in BatchType
  BY CurrentContext DEF EnvironmentOK, Batch, BatchType

\* The images the presentation engine holds.
LEMMA PresentedIsQueued ==
    ASSUME presentQueue \in Seq(PresentType), NEW e \in PresentType,
           presentQueue' = Append(presentQueue, e)
    PROVE  Queued' = Queued \cup {e.image} /\ presentQueue' \in Seq(PresentType)
  <1>1. /\ presentQueue' \in Seq(PresentType)
        /\ Len(presentQueue') = Len(presentQueue) + 1 /\ Len(presentQueue) \in Nat
        /\ \A i \in 1..Len(presentQueue) : presentQueue'[i] = presentQueue[i]
        /\ presentQueue'[Len(presentQueue) + 1] = e
    BY AppendProperties, LenProperties
  <1>. QED
    BY <1>1 DEF Queued

LEMMA ShownIsReleased ==
    ASSUME presentQueue \in Seq(PresentType), presentQueue # <<>>,
           presentQueue' = Tail(presentQueue)
    PROVE  Queued' \subseteq Queued /\ presentQueue' \in Seq(PresentType)
  <1>1. /\ presentQueue' \in Seq(PresentType)
        /\ Len(presentQueue') = Len(presentQueue) - 1 /\ Len(presentQueue) \in Nat
        /\ \A i \in 1..Len(presentQueue') : presentQueue'[i] = presentQueue[i + 1]
    BY HeadTailProperties, LenProperties
  <1>. QED
    BY <1>1 DEF Queued

\* The invariant holds to begin with.
LEMMA HostInit == Init => TypeOK /\ HostAgrees
  <1>. SUFFICES ASSUME Init PROVE TypeOK /\ HostAgrees
    OBVIOUS
  <1>1. slots \in Nat \ {0} /\ back \in Slot
    BY CountsAssumption DEF Init, Slot
  <1>2. EnvironmentOK
    <2>1. Cardinality(context) <= 1
      BY NoTwoContexts DEF Init
    <2>2. recreations \in 0..MaxRecreations
      BY CountsAssumption DEF Init
    <2>. QED
      BY <1>1, <2>1, <2>2 DEF Init, EnvironmentOK
  <1>3. PassesOK
    BY DEF Init, PassesOK
  <1>4. DeviceOK
    BY DEF Init, DeviceOK
  <1>5. ImagesOK
    BY DEF Init, ImagesOK, Queued
  <1>6. PhaseOK
    BY DEF Init, PhaseOK
  <1>. QED
    BY <1>2, <1>3, <1>4, <1>5, <1>6, TypeParts DEF Init, HostAgrees, Holding

LEMMA HostStep == TypeOK /\ HostAgrees /\ [Next]_vars => TypeOK' /\ HostAgrees'
  <1>. SUFFICES ASSUME TypeOK, HostAgrees, [Next]_vars PROVE TypeOK' /\ HostAgrees'
    OBVIOUS
  <1>. EnvironmentOK /\ PhaseOK /\ PassesOK /\ DeviceOK /\ ImagesOK
    BY TypeParts
  <1>. USE DEF environmentVars, passVars, queueVars, deviceVars
  <1>1. CASE BeginFrame
    <2>1. EnvironmentOK' /\ slots' = slots
      BY <1>1, CountsAssumption DEF BeginFrame, EnvironmentOK, Slot
    <2>2. PhaseOK'
      BY <1>1 DEF BeginFrame, PhaseOK
    <2>3. PassesOK'
      BY <1>1, <2>1 DEF BeginFrame, PassesOK
    <2>4. DeviceOK'
      BY <1>1, <2>1, DeviceKept DEF BeginFrame
    <2>5. ImagesOK'
      BY <1>1, <2>1, ImagesKept DEF BeginFrame
    <2>6. HostAgrees'
      BY <1>1 DEF BeginFrame, HostAgrees, Holding
    <2>. QED
      BY <2>1, <2>2, <2>3, <2>4, <2>5, <2>6, TypePartsNext
  <1>2. CASE ContinueFrame
    <2>1. EnvironmentOK' /\ slots' = slots
      BY <1>2, EnvironmentKept DEF ContinueFrame
    <2>2. PhaseOK'
      BY <1>2 DEF ContinueFrame, PhaseOK
    <2>3. PassesOK'
      BY <1>2, <2>1 DEF ContinueFrame, PassesOK
    <2>4. DeviceOK'
      BY <1>2, <2>1, DeviceKept DEF ContinueFrame
    <2>5. ImagesOK'
      BY <1>2, <2>1, ImagesKept DEF ContinueFrame
    <2>6. HostAgrees'
      BY <1>2 DEF ContinueFrame, HostAgrees, Holding
    <2>. QED
      BY <2>1, <2>2, <2>3, <2>4, <2>5, <2>6, TypePartsNext
  <1>3. CASE Acquire
    <2>1. EnvironmentOK' /\ slots' = slots
      <3>1. PICK i \in Free : imageIndex' = i /\ context' \subseteq {[slot |-> back, buffer |-> i]}
                              /\ (context' # {} => i < slots)
        BY <1>3 DEF Acquire, HostAgrees
      <3>2. i \in Nat /\ slots \in Nat \ {0}
        BY <3>1, CountsAssumption DEF Free, EnvironmentOK
      <3>3. Cardinality(context') <= 1
        BY <3>1, NoTwoContexts
      <3>4. context' \subseteq [slot : Slot, buffer : Slot]
        BY <3>1, <3>2 DEF EnvironmentOK, Slot
      <3>. QED
        BY <1>3, <3>1, <3>2, <3>3, <3>4 DEF Acquire, EnvironmentOK, Slot
    <2>2. PhaseOK'
      BY <1>3 DEF Acquire, PhaseOK
    <2>3. PassesOK'
      BY <1>3, <2>1, PassesKept DEF Acquire
    <2>4. DeviceOK'
      <3>1. Signal(<<"imageAvailable", back>>)
        BY <1>3 DEF Acquire
      <3>. QED
        BY <1>3, <2>1, <3>1, SignalKeeps DEF Acquire, DeviceOK, Slot, BatchType
    <2>5. ImagesOK'
      <3>1. PICK i \in Free : acquired' = acquired \cup {i} /\ presentQueue' = presentQueue
        BY <1>3 DEF Acquire
      <3>. QED
        BY <2>1, <3>1 DEF ImagesOK, Free, Queued, Slot, PresentType
    <2>6. HostAgrees'
      BY <1>3 DEF Acquire, HostAgrees, Holding
    <2>. QED
      BY <2>1, <2>2, <2>3, <2>4, <2>5, <2>6, TypePartsNext
  <1>4. CASE AcquireSuboptimal
    <2>1. EnvironmentOK' /\ slots' = slots
      BY <1>4, EnvironmentKept DEF AcquireSuboptimal
    <2>2. PhaseOK'
      BY <1>4 DEF AcquireSuboptimal, PhaseOK
    <2>3. PassesOK'
      BY <1>4, <2>1, PassesKept DEF AcquireSuboptimal
    <2>4. DeviceOK'
      <3>1. Signal(<<"imageAvailable", back>>)
        BY <1>4 DEF AcquireSuboptimal
      <3>. QED
        BY <1>4, <2>1, <3>1, SignalKeeps DEF AcquireSuboptimal, DeviceOK, Slot, BatchType
    <2>5. ImagesOK'
      <3>1. PICK i \in Free : acquired' = acquired \cup {i} /\ presentQueue' = presentQueue
        BY <1>4 DEF AcquireSuboptimal
      <3>. QED
        BY <2>1, <3>1 DEF ImagesOK, Free, Queued, Slot, PresentType
    <2>6. HostAgrees'
      BY <1>4 DEF AcquireSuboptimal, HostAgrees, Holding
    <2>. QED
      BY <2>1, <2>2, <2>3, <2>4, <2>5, <2>6, TypePartsNext
  <1>5. CASE AcquireOutOfDate
    <2>1. EnvironmentOK' /\ slots' = slots
      BY <1>5, EnvironmentKept DEF AcquireOutOfDate
    <2>2. PhaseOK'
      BY <1>5 DEF AcquireOutOfDate, PhaseOK
    <2>3. PassesOK'
      BY <1>5, <2>1, PassesKept DEF AcquireOutOfDate
    <2>4. DeviceOK'
      BY <1>5, <2>1, DeviceKept DEF AcquireOutOfDate
    <2>5. ImagesOK'
      BY <1>5, <2>1, ImagesKept DEF AcquireOutOfDate
    <2>6. HostAgrees'
      BY <1>5 DEF AcquireOutOfDate, HostAgrees, Holding
    <2>. QED
      BY <2>1, <2>2, <2>3, <2>4, <2>5, <2>6, TypePartsNext
  <1>6. CASE AcquireThrows
    <2>1. EnvironmentOK' /\ slots' = slots
      BY <1>6, EnvironmentKept DEF AcquireThrows
    <2>2. PhaseOK'
      BY <1>6 DEF AcquireThrows, PhaseOK
    <2>3. PassesOK'
      BY <1>6, <2>1, PassesKept DEF AcquireThrows
    <2>4. DeviceOK'
      BY <1>6, <2>1, DeviceKept DEF AcquireThrows
    <2>5. ImagesOK'
      BY <1>6, <2>1, ImagesKept DEF AcquireThrows
    <2>6. HostAgrees'
      BY <1>6 DEF AcquireThrows, HostAgrees, Holding
    <2>. QED
      BY <2>1, <2>2, <2>3, <2>4, <2>5, <2>6, TypePartsNext
  <1>7. CASE RecreateSwapChain
    <2>1. EnvironmentOK' /\ slots' = slots
      <3>1. recreations < MaxRecreations
        BY <1>7 DEF RecreateSwapChain, HostAgrees
      <3>2. recreations' \in 0..MaxRecreations
        BY <1>7, <3>1, CountsAssumption DEF RecreateSwapChain, MakeSwapChain, EnvironmentOK
      <3>. QED
        BY <1>7, <3>2 DEF RecreateSwapChain, MakeSwapChain, EnvironmentOK, Slot
    <2>2. PhaseOK'
      BY <1>7 DEF RecreateSwapChain, PhaseOK
    <2>3. PassesOK'
      BY <1>7, <2>1, PassesKept DEF RecreateSwapChain
    <2>4. DeviceOK'
      BY <1>7, <2>1, DeviceKept DEF RecreateSwapChain
    <2>5. ImagesOK'
      BY <1>7, <2>1 DEF RecreateSwapChain, ImagesOK, Slot, PresentType
    <2>6. HostAgrees'
      BY <1>7 DEF RecreateSwapChain, HostAgrees, Holding
    <2>. QED
      BY <2>1, <2>2, <2>3, <2>4, <2>5, <2>6, TypePartsNext
  <1>8. CASE PrepareFrame
    <2>1. EnvironmentOK' /\ slots' = slots
      BY <1>8, EnvironmentKept DEF PrepareFrame
    <2>2. PhaseOK'
      BY <1>8 DEF PrepareFrame, PhaseOK
    <2>3. PassesOK'
      BY <1>8 DEF PrepareFrame, Describe, PassesOK
    <2>4. DeviceOK'
      <3>1. Move(Buffers, "ready", "recording")
        BY <1>8 DEF PrepareFrame
      <3>. QED
        BY <1>8, <2>1, <3>1, MoveKeeps DEF PrepareFrame, DeviceOK, Slot, BatchType
    <2>5. ImagesOK'
      BY <1>8, <2>1, ImagesKept DEF PrepareFrame
    <2>6. HostAgrees'
      BY <1>8 DEF PrepareFrame, HostAgrees, Holding
    <2>. QED
      BY <2>1, <2>2, <2>3, <2>4, <2>5, <2>6, TypePartsNext
  <1>9. CASE BindRenderPass
    <2>1. EnvironmentOK' /\ slots' = slots
      BY <1>9, EnvironmentKept DEF BindRenderPass
    <2>2. PhaseOK'
      BY <1>9 DEF BindRenderPass, PhaseOK
    <2>3. PassesOK'
      BY <1>9, <2>1 DEF BindRenderPass, PassesOK
    <2>4. DeviceOK'
      BY <1>9, <2>1, DeviceKept DEF BindRenderPass
    <2>5. ImagesOK'
      BY <1>9, <2>1, ImagesKept DEF BindRenderPass
    <2>6. HostAgrees'
      BY <1>9 DEF BindRenderPass, HostAgrees, Holding
    <2>. QED
      BY <2>1, <2>2, <2>3, <2>4, <2>5, <2>6, TypePartsNext
  <1>10. CASE BindFails
    <2>1. EnvironmentOK' /\ slots' = slots
      BY <1>10, EnvironmentKept DEF BindFails
    <2>2. PhaseOK'
      BY <1>10 DEF BindFails, PhaseOK
    <2>3. PassesOK'
      BY <1>10, <2>1 DEF BindFails, PassesOK
    <2>4. DeviceOK'
      BY <1>10, <2>1, DeviceKept DEF BindFails
    <2>5. ImagesOK'
      BY <1>10, <2>1, ImagesKept DEF BindFails
    <2>6. HostAgrees'
      BY <1>10 DEF BindFails, HostAgrees, Holding
    <2>. QED
      BY <2>1, <2>2, <2>3, <2>4, <2>5, <2>6, TypePartsNext
  <1>11. CASE BindMissing
    <2>1. EnvironmentOK' /\ slots' = slots
      BY <1>11, EnvironmentKept DEF BindMissing
    <2>2. PhaseOK'
      BY <1>11 DEF BindMissing, PhaseOK
    <2>3. PassesOK'
      BY <1>11, <2>1 DEF BindMissing, PassesOK
    <2>4. DeviceOK'
      BY <1>11, <2>1, DeviceKept DEF BindMissing
    <2>5. ImagesOK'
      BY <1>11, <2>1, ImagesKept DEF BindMissing
    <2>6. HostAgrees'
      BY <1>11 DEF BindMissing, HostAgrees, Holding
    <2>. QED
      BY <2>1, <2>2, <2>3, <2>4, <2>5, <2>6, TypePartsNext
  <1>12. CASE ExecutePass
    <2>1. EnvironmentOK' /\ slots' = slots
      BY <1>12, EnvironmentKept DEF ExecutePass
    <2>2. PhaseOK'
      BY <1>12 DEF ExecutePass, PhaseOK
    <2>3. PassesOK'
      BY <1>12, <2>1 DEF ExecutePass, PassesOK
    <2>4. DeviceOK'
      BY <1>12, <2>1, DeviceKept DEF ExecutePass
    <2>5. ImagesOK'
      BY <1>12, <2>1, ImagesKept DEF ExecutePass
    <2>6. HostAgrees'
      BY <1>12 DEF ExecutePass, HostAgrees, Holding
    <2>. QED
      BY <2>1, <2>2, <2>3, <2>4, <2>5, <2>6, TypePartsNext
  <1>13. CASE PassFails
    <2>1. EnvironmentOK' /\ slots' = slots
      BY <1>13, EnvironmentKept DEF PassFails
    <2>2. PhaseOK'
      BY <1>13 DEF PassFails, PhaseOK
    <2>3. PassesOK'
      BY <1>13, <2>1, PassesKept DEF PassFails
    <2>4. DeviceOK'
      BY <1>13, <2>1, DeviceKept DEF PassFails
    <2>5. ImagesOK'
      BY <1>13, <2>1, ImagesKept DEF PassFails
    <2>6. HostAgrees'
      BY <1>13 DEF PassFails, HostAgrees, Holding
    <2>. QED
      BY <2>1, <2>2, <2>3, <2>4, <2>5, <2>6, TypePartsNext
  <1>14. CASE FinishRecording
    <2>1. EnvironmentOK' /\ slots' = slots
      BY <1>14, EnvironmentKept DEF FinishRecording
    <2>2. PhaseOK'
      BY <1>14 DEF FinishRecording, PhaseOK
    <2>3. PassesOK'
      BY <1>14, <2>1 DEF FinishRecording, PassesOK
    <2>4. DeviceOK'
      <3>1. Move(Buffers, "recording", "executable")
        BY <1>14 DEF FinishRecording
      <3>. QED
        BY <1>14, <2>1, <3>1, MoveKeeps DEF FinishRecording, DeviceOK, Slot, BatchType
    <2>5. ImagesOK'
      BY <1>14, <2>1, ImagesKept DEF FinishRecording
    <2>6. HostAgrees'
      BY <1>14 DEF FinishRecording, HostAgrees, Holding
    <2>. QED
      BY <2>1, <2>2, <2>3, <2>4, <2>5, <2>6, TypePartsNext
  <1>15. CASE OutputMissing
    <2>1. EnvironmentOK' /\ slots' = slots
      BY <1>15, EnvironmentKept DEF OutputMissing
    <2>2. PhaseOK'
      BY <1>15 DEF OutputMissing, PhaseOK
    <2>3. PassesOK'
      BY <1>15, <2>1 DEF OutputMissing, PassesOK
    <2>4. DeviceOK'
      BY <1>15, <2>1, DeviceKept DEF OutputMissing
    <2>5. ImagesOK'
      BY <1>15, <2>1, ImagesKept DEF OutputMissing
    <2>6. HostAgrees'
      BY <1>15 DEF OutputMissing, HostAgrees, Holding
    <2>. QED
      BY <2>1, <2>2, <2>3, <2>4, <2>5, <2>6, TypePartsNext
  <1>16. CASE SubmitTransfer
    <2>1. EnvironmentOK' /\ slots' = slots
      BY <1>16, EnvironmentKept DEF SubmitTransfer
    <2>2. PhaseOK'
      BY <1>16 DEF SubmitTransfer, PhaseOK
    <2>3. PassesOK'
      BY <1>16, <2>1, PassesKept DEF SubmitTransfer
    <2>4. DeviceOK'
      <3>1. Batch("imageAvailable", "transferCompleted") \in BatchType
        BY <1>16, BatchTyped DEF SubmitTransfer, HostAgrees, Holding, Kinds
      <3>2. transferQueue' \in Seq(BatchType)
        BY <1>16, <3>1, AppendProperties DEF SubmitTransfer, DeviceOK
      <3>3. Submit("transfer", "transferCompleted")
        BY <1>16 DEF SubmitTransfer
      <3>. QED
        BY <1>16, <2>1, <3>2, <3>3, SubmitKeeps DEF SubmitTransfer, DeviceOK, Slot, BatchType
    <2>5. ImagesOK'
      BY <1>16, <2>1, ImagesKept DEF SubmitTransfer
    <2>6. HostAgrees'
      BY <1>16 DEF SubmitTransfer, HostAgrees, Holding
    <2>. QED
      BY <2>1, <2>2, <2>3, <2>4, <2>5, <2>6, TypePartsNext
  <1>17. CASE SubmitGraphics
    <2>1. EnvironmentOK' /\ slots' = slots
      BY <1>17, EnvironmentKept DEF SubmitGraphics
    <2>2. PhaseOK'
      BY <1>17 DEF SubmitGraphics, PhaseOK
    <2>3. PassesOK'
      BY <1>17, <2>1, PassesKept DEF SubmitGraphics
    <2>4. DeviceOK'
      <3>1. Batch("transferCompleted", "renderCompleted") \in BatchType
        BY <1>17, BatchTyped DEF SubmitGraphics, HostAgrees, Holding, Kinds
      <3>2. graphicsQueue' \in Seq(BatchType)
        BY <1>17, <3>1, AppendProperties DEF SubmitGraphics, DeviceOK
      <3>3. Submit("graphics", "renderCompleted")
        BY <1>17 DEF SubmitGraphics
      <3>. QED
        BY <1>17, <2>1, <3>2, <3>3, SubmitKeeps DEF SubmitGraphics, DeviceOK, Slot, BatchType
    <2>5. ImagesOK'
      BY <1>17, <2>1, ImagesKept DEF SubmitGraphics
    <2>6. HostAgrees'
      BY <1>17 DEF SubmitGraphics, HostAgrees, Holding
    <2>. QED
      BY <2>1, <2>2, <2>3, <2>4, <2>5, <2>6, TypePartsNext
  <1>18. CASE Present
    <2>1. EnvironmentOK' /\ slots' = slots
      BY <1>18, EnvironmentKept DEF Present
    <2>2. PhaseOK'
      BY <1>18 DEF Present, PhaseOK
    <2>3. PassesOK'
      BY <1>18, <2>1, PassesKept DEF Present
    <2>4. DeviceOK'
      BY <1>18, <2>1, DeviceKept DEF Present
    <2>5. ImagesOK'
      <3>. DEFINE e == [slot |-> Current.slot, image |-> imageIndex]
      <3>1. e \in PresentType
        BY <1>18, CurrentContext DEF Present, HostAgrees, Holding, EnvironmentOK, PresentType
      <3>2. presentQueue' = Append(presentQueue, e)
        BY <1>18 DEF Present
      <3>. HIDE DEF e
      <3>3. Queued' = Queued \cup {e.image} /\ presentQueue' \in Seq(PresentType)
        BY <3>1, <3>2, PresentedIsQueued DEF ImagesOK
      <3>4. e.image = imageIndex
        BY DEF e
      <3>. QED
        BY <1>18, <2>1, <3>3, <3>4 DEF Present, ImagesOK, Slot, PresentType
    <2>6. HostAgrees'
      BY <1>18 DEF Present, HostAgrees, Holding
    <2>. QED
      BY <2>1, <2>2, <2>3, <2>4, <2>5, <2>6, TypePartsNext
  <1>19. CASE EndFrame
    <2>1. EnvironmentOK' /\ slots' = slots
      <3>1. Cardinality({}) <= 1
        BY FS_EmptySet
      <3>. QED
        BY <1>19, <3>1 DEF EndFrame, EnvironmentOK, Slot
    <2>2. PhaseOK'
      BY <1>19 DEF EndFrame, PhaseOK
    <2>3. PassesOK'
      BY <1>19, <2>1, PassesKept DEF EndFrame
    <2>4. DeviceOK'
      BY <1>19, <2>1, DeviceKept DEF EndFrame
    <2>5. ImagesOK'
      BY <1>19, <2>1, ImagesKept DEF EndFrame
    <2>6. HostAgrees'
      BY <1>19 DEF EndFrame, HostAgrees, Holding
    <2>. QED
      BY <2>1, <2>2, <2>3, <2>4, <2>5, <2>6, TypePartsNext
  <1>20. ASSUME NEW k \in Slot, SignalImageAvailable(k) PROVE TypeOK' /\ HostAgrees'
    <2>1. EnvironmentOK' /\ slots' = slots
      BY <1>20, EnvironmentKept DEF SignalImageAvailable
    <2>2. PhaseOK'
      BY <1>20 DEF SignalImageAvailable, PhaseOK
    <2>3. PassesOK'
      BY <1>20, <2>1, PassesKept DEF SignalImageAvailable
    <2>4. DeviceOK'
      BY <1>20, <2>1 DEF SignalImageAvailable, DeviceOK, Slot, BatchType
    <2>5. ImagesOK'
      BY <1>20, <2>1, ImagesKept DEF SignalImageAvailable
    <2>6. HostAgrees'
      BY <1>20 DEF SignalImageAvailable, HostAgrees, Holding
    <2>. QED
      BY <2>1, <2>2, <2>3, <2>4, <2>5, <2>6, TypePartsNext
  <1>21. CASE ExecuteTransfer
    <2>1. EnvironmentOK' /\ slots' = slots
      BY <1>21, EnvironmentKept DEF ExecuteTransfer
    <2>2. PhaseOK'
      BY <1>21 DEF ExecuteTransfer, PhaseOK
    <2>3. PassesOK'
      BY <1>21, <2>1, PassesKept DEF ExecuteTransfer
    <2>4. DeviceOK'
      <3>1. transferQueue' \in Seq(BatchType)
        BY <1>21, HeadTailProperties DEF ExecuteTransfer, DeviceOK
      <3>2. Executed(Head(transferQueue), "transfer")
        BY <1>21 DEF ExecuteTransfer
      <3>. QED
        BY <1>21, <2>1, <3>1, <3>2, ExecutedKeeps DEF ExecuteTransfer, DeviceOK, Slot, BatchType
    <2>5. ImagesOK'
      BY <1>21, <2>1, ImagesKept DEF ExecuteTransfer
    <2>6. HostAgrees'
      BY <1>21 DEF ExecuteTransfer, HostAgrees, Holding
    <2>. QED
      BY <2>1, <2>2, <2>3, <2>4, <2>5, <2>6, TypePartsNext
  <1>22. CASE ExecuteGraphics
    <2>1. EnvironmentOK' /\ slots' = slots
      BY <1>22, EnvironmentKept DEF ExecuteGraphics
    <2>2. PhaseOK'
      BY <1>22 DEF ExecuteGraphics, PhaseOK
    <2>3. PassesOK'
      BY <1>22, <2>1, PassesKept DEF ExecuteGraphics
    <2>4. DeviceOK'
      <3>1. graphicsQueue' \in Seq(BatchType)
        BY <1>22, HeadTailProperties DEF ExecuteGraphics, DeviceOK
      <3>2. Executed(Head(graphicsQueue), "graphics")
        BY <1>22 DEF ExecuteGraphics
      <3>. QED
        BY <1>22, <2>1, <3>1, <3>2, ExecutedKeeps DEF ExecuteGraphics, DeviceOK, Slot, BatchType
    <2>5. ImagesOK'
      BY <1>22, <2>1, ImagesKept DEF ExecuteGraphics
    <2>6. HostAgrees'
      BY <1>22 DEF ExecuteGraphics, HostAgrees, Holding
    <2>. QED
      BY <2>1, <2>2, <2>3, <2>4, <2>5, <2>6, TypePartsNext
  <1>23. CASE ExecutePresent
    <2>1. EnvironmentOK' /\ slots' = slots
      BY <1>23, EnvironmentKept DEF ExecutePresent
    <2>2. PhaseOK'
      BY <1>23 DEF ExecutePresent, PhaseOK
    <2>3. PassesOK'
      BY <1>23, <2>1, PassesKept DEF ExecutePresent
    <2>4. DeviceOK'
      BY <1>23, <2>1 DEF ExecutePresent, DeviceOK, Slot, BatchType
    <2>5. ImagesOK'
      <3>1. Queued' \subseteq Queued /\ presentQueue' \in Seq(PresentType)
        BY <1>23, ShownIsReleased DEF ExecutePresent, ImagesOK
      <3>. QED
        BY <1>23, <2>1, <3>1 DEF ExecutePresent, ImagesOK, Slot, PresentType
    <2>6. HostAgrees'
      BY <1>23 DEF ExecutePresent, HostAgrees, Holding
    <2>. QED
      BY <2>1, <2>2, <2>3, <2>4, <2>5, <2>6, TypePartsNext
  <1>24. CASE UNCHANGED vars
    BY <1>24, EnvironmentKept, PassesKept, DeviceKept, ImagesKept, TypePartsNext
       DEF vars, PhaseOK, HostAgrees, Holding
  <1>. QED
    BY <1>1, <1>2, <1>3, <1>4, <1>5, <1>6, <1>7, <1>8, <1>9, <1>10, <1>11, <1>12, <1>13, <1>14, <1>15, <1>16, <1>17, <1>18, <1>19, <1>20, <1>21, <1>22, <1>23, <1>24
       DEF Next, FrameStep, DeviceStep, Terminated

\* Types, whatever the swap chain and the passes do.
THEOREM TypeInvariance == Spec => []TypeOK
  <1>. QED
    BY HostInit, HostStep, PTL DEF Spec

LEMMA HostInvariance == Spec => [](TypeOK /\ HostAgrees)
  <1>. QED
    BY HostInit, HostStep, PTL DEF Spec

\* A frame copies to and presents the image it has acquired, over any number of
\* repeated acquisitions, recreated swap chains and frames left early.
THEOREM PresentsWhatItAcquiredInvariance == Spec => []PresentsWhatItAcquired
  <1>1. HostAgrees => PresentsWhatItAcquired
    <2>. SUFFICES ASSUME HostAgrees, phase \in Holding
                  PROVE  acquired = {imageIndex} /\ Current.buffer = imageIndex
      BY DEF PresentsWhatItAcquired, Holding
    <2>1. acquired = {imageIndex} /\ context # {}
      BY DEF HostAgrees
    <2>. QED
      BY <2>1, CurrentContext
  <1>. QED
    BY <1>1, HostInvariance, PTL

-----------------------------------------------------------------------------
\* The strengthening of SubpassesAgree: how far the frame is with its passes. Before the
\* first frame has bound its render pass the counter has its initial value.
PassesAgree ==
    /\ renderPass = "none" => subpass = 0
    /\ renderPass # "made" => ~ active
    /\ phase \in {"acquiring", "reacquiring", "preparing", "binding", "recording", "finishing"}
          => passes \in PassCounts
    /\ phase \in {"binding", "recording", "finishing"} => described \in PassCounts
    /\ phase = "recording" => done < passes /\ renderPass # "none"
    /\ SubpassesAgree

\* The subpass the passes are cleared for is the one the command buffer is in, and the
\* render pass ends in its last or in that of the pass that failed, as long as every
\* frame has as many passes as the first, whatever fails: a pass, or the making of the
\* render pass.
THEOREM SubpassesAgreeInvariance ==
    ASSUME NEW n, PassCounts = {n}
    PROVE  Spec => []SubpassesAgree
  <1>. n \in Nat \ {0}
    BY CountsAssumption
  <1>1. Init => PassesAgree
    BY DEF Init, PassesAgree, SubpassesAgree
  <1>2. TypeOK /\ PassesAgree /\ [Next]_vars => PassesAgree'
    <2>. SUFFICES ASSUME PassesOK, PassesAgree, [Next]_vars PROVE PassesAgree'
      BY TypeParts
    <2>. USE DEF PassesAgree, SubpassesAgree, PassesOK, environmentVars, passVars, queueVars, deviceVars
    <2>1. CASE BeginFrame
      BY <2>1 DEF BeginFrame
    <2>2. CASE ContinueFrame
      BY <2>2 DEF ContinueFrame
    <2>3. CASE Acquire
      BY <2>3 DEF Acquire
    <2>4. CASE AcquireSuboptimal
      BY <2>4 DEF AcquireSuboptimal
    <2>5. CASE AcquireOutOfDate
      BY <2>5 DEF AcquireOutOfDate
    <2>6. CASE AcquireThrows
      BY <2>6 DEF AcquireThrows
    <2>7. CASE RecreateSwapChain
      BY <2>7 DEF RecreateSwapChain
    <2>8. CASE PrepareFrame
      BY <2>8 DEF PrepareFrame, Describe
    <2>9. CASE BindRenderPass
      BY <2>9 DEF BindRenderPass
    <2>10. CASE BindFails
      BY <2>10 DEF BindFails
    <2>11. CASE BindMissing
      BY <2>11 DEF BindMissing
    <2>12. CASE ExecutePass
      BY <2>12 DEF ExecutePass
    <2>13. CASE PassFails
      BY <2>13 DEF PassFails
    <2>14. CASE FinishRecording
      BY <2>14 DEF FinishRecording
    <2>15. CASE OutputMissing
      BY <2>15 DEF OutputMissing
    <2>16. CASE SubmitTransfer
      BY <2>16 DEF SubmitTransfer
    <2>17. CASE SubmitGraphics
      BY <2>17 DEF SubmitGraphics
    <2>18. CASE Present
      BY <2>18 DEF Present
    <2>19. CASE EndFrame
      BY <2>19 DEF EndFrame
    <2>20. CASE ExecuteTransfer
      BY <2>20 DEF ExecuteTransfer
    <2>21. CASE ExecuteGraphics
      BY <2>21 DEF ExecuteGraphics
    <2>22. CASE ExecutePresent
      BY <2>22 DEF ExecutePresent
    <2>23. ASSUME NEW k \in Slot, SignalImageAvailable(k) PROVE PassesAgree'
      BY <2>23 DEF SignalImageAvailable
    <2>24. CASE UNCHANGED vars
      BY <2>24 DEF vars
    <2>. QED
      BY <2>1, <2>2, <2>3, <2>4, <2>5, <2>6, <2>7, <2>8, <2>9, <2>10, <2>11, <2>12, <2>13, <2>14, <2>15, <2>16, <2>17, <2>18, <2>19, <2>20, <2>21, <2>22, <2>23, <2>24
         DEF Next, FrameStep, DeviceStep, Terminated
  <1>3. PassesAgree => SubpassesAgree
    BY DEF PassesAgree
  <1>. QED
    BY <1>1, <1>2, <1>3, TypeInvariance, PTL DEF Spec

-----------------------------------------------------------------------------
(***************************************************************************)
(* Why nothing is used while it is in use, for any number of images,       *)
(* although a frame may not wait for the device: the frames the device     *)
(* still has to do with are consecutive, and each has a slot and an image  *)
(* of its own.                                                             *)
(*                                                                         *)
(* A frame is told by its age: the one begun last is 0 (or 1 is the age    *)
(* of the one before it while no image is acquired), and its slot lies     *)
(* that far behind the back of the rotating lists.  The queues hold        *)
(* ranges of ages, each the older end of the one before it in the order    *)
(* transfer, graphics, present; the stage of a frame, and so the state of  *)
(* its semaphores and command buffers, follows from its age.               *)
(***************************************************************************)

\* The slot of the frame of an age, with n slots and the lists at b.
At(b, n, age) == IF age <= b THEN b - age ELSE b + n - age

\* The image of the frame of an age: the younger frames than p are not presented.
ImageAt(queue, index, p, age) ==
    IF age < p THEN index ELSE queue[p + Len(queue) - age].image

\* The youngest ages that have an image (a), are submitted for transfer (t), for
\* graphics (g) and presented (p), by the phase of the frame.
YoungestAges(a, t, g, p) ==
    /\ {a, t, g, p} \subseteq 0..1 /\ a <= t /\ t <= g /\ g <= p
    /\ phase \in {"acquiring", "reacquiring"} => a = 1
    /\ phase \in {"preparing", "binding", "recording", "finishing", "submitting"}
          => a < t
    /\ phase = "submittingGraphics" => t < g
    /\ phase = "presenting" => g < p
    /\ phase \in {"idle", "waiting", "repairing"} => p = 0

\* No frame is done with a queue before it is done with the one before, and a slot
\* is not reached again by a younger frame.
QueuesOrdered(a, t, g, p) ==
    /\ t + Len(transferQueue) <= g + Len(graphicsQueue)
    /\ g + Len(graphicsQueue) <= p + Len(presentQueue)
    /\ p + Len(presentQueue) <= a + slots

\* Each queue holds consecutive frames, each with its slot and its image.
QueuesAligned(t, g, p) ==
    /\ \A j \in 1..Len(transferQueue) :
          LET age == t + Len(transferQueue) - j
          IN  transferQueue[j] =
                 [slot |-> At(back, slots, age), wait |-> "imageAvailable",
                  signal |-> "transferCompleted",
                  buffer |-> ImageAt(presentQueue, imageIndex, p, age)]
    /\ \A j \in 1..Len(graphicsQueue) :
          LET age == g + Len(graphicsQueue) - j
          IN  graphicsQueue[j] =
                 [slot |-> At(back, slots, age), wait |-> "transferCompleted",
                  signal |-> "renderCompleted",
                  buffer |-> ImageAt(presentQueue, imageIndex, p, age)]
    /\ \A j \in 1..Len(presentQueue) :
          presentQueue[j].slot = At(back, slots, p + Len(presentQueue) - j)

\* The semaphores of a slot are in the states of the stage of its frame: from the
\* ages t and g on frames have been submitted, from the oldest ages on they are
\* done with a queue.
StageOf(state, slot, age, t, oldestT, g, oldestG, oldestP) ==
    /\ state[<<"imageAvailable", slot>>] = "unsignaled" <=> age >= oldestT
    /\ state[<<"transferCompleted", slot>>] =
          IF age < t \/ age >= oldestG THEN "unsignaled"
          ELSE IF age < oldestT THEN "pending" ELSE "signaled"
    /\ state[<<"renderCompleted", slot>>] =
          IF age < g \/ age >= oldestP THEN "unsignaled"
          ELSE IF age < oldestG THEN "pending" ELSE "signaled"

SemaphoresAligned(a, t, g, p) ==
    \A age \in a..(a + slots - 1) :
        StageOf(semaphore, At(back, slots, age), age, t, t + Len(transferQueue),
                g, g + Len(graphicsQueue), p + Len(presentQueue))

\* A frame that is not the one executed keeps its stage: its semaphores keep their
\* states, and it lies on the same side of every end of a queue.
LEMMA StageKept ==
    ASSUME NEW before, NEW after, NEW slot, NEW age \in Int,
           NEW t \in Int, NEW oldestT \in Int, NEW newT \in Int,
           NEW g \in Int, NEW oldestG \in Int, NEW newG \in Int,
           NEW oldestP \in Int, NEW newP \in Int,
           StageOf(before, slot, age, t, oldestT, g, oldestG, oldestP),
           \A c \in Kinds : after[<<c, slot>>] = before[<<c, slot>>],
           age >= newT <=> age >= oldestT,
           age >= newG <=> age >= oldestG,
           age >= newP <=> age >= oldestP
    PROVE  StageOf(after, slot, age, t, newT, g, newG, newP)
  <1>1. /\ after[<<"imageAvailable", slot>>] = before[<<"imageAvailable", slot>>]
        /\ after[<<"transferCompleted", slot>>] = before[<<"transferCompleted", slot>>]
        /\ after[<<"renderCompleted", slot>>] = before[<<"renderCompleted", slot>>]
    BY DEF Kinds
  <1>2. (age < newT <=> age < oldestT) /\ (age < newG <=> age < oldestG)
    OBVIOUS
  <1>. QED
    BY <1>1, <1>2 DEF StageOf

\* The frames with an image have different ones.
ImagesApart(a, p) ==
    \A x, y \in a..(p + Len(presentQueue) - 1) :
        /\ ImageAt(presentQueue, imageIndex, p, x) \in Slot
        /\ ImageAt(presentQueue, imageIndex, p, x) = ImageAt(presentQueue, imageIndex, p, y)
              => x = y

\* The buffers of an image are in the states of the stage of its frame, and ready
\* when no frame has the image.
BuffersAligned(a, t, g, p) ==
    /\ \A age \in t..(p + Len(presentQueue) - 1) :
          buffer[<<"transfer", ImageAt(presentQueue, imageIndex, p, age)>>] =
             IF age < t + Len(transferQueue) THEN "pending" ELSE "ready"
    /\ \A age \in g..(p + Len(presentQueue) - 1) :
          buffer[<<"graphics", ImageAt(presentQueue, imageIndex, p, age)>>] =
             IF age < g + Len(graphicsQueue) THEN "pending" ELSE "ready"
    /\ \A k \in Slot :
          (\A age \in a..(p + Len(presentQueue) - 1) :
               k # ImageAt(presentQueue, imageIndex, p, age))
          => buffer[<<"transfer", k>>] = "ready" /\ buffer[<<"graphics", k>>] = "ready"

\* Those of the frame that is recorded, by its phase.
Recorded == CASE phase = "preparing" -> "ready"
              [] phase \in {"binding", "recording", "finishing", "terminated"} -> "recording"
              [] OTHER -> "executable"

RecordingAligned(a, t, g) ==
    /\ a < t => buffer[<<"transfer", imageIndex>>] = Recorded
    /\ a < g => buffer[<<"graphics", imageIndex>>] = Recorded

Aligned(a, t, g, p) ==
    /\ YoungestAges(a, t, g, p) /\ QueuesOrdered(a, t, g, p) /\ QueuesAligned(t, g, p)
    /\ SemaphoresAligned(a, t, g, p) /\ ImagesApart(a, p)
    /\ BuffersAligned(a, t, g, p) /\ RecordingAligned(a, t, g)

InStep == \E a, t, g, p \in 0..1 : Aligned(a, t, g, p)

Synchronized == misused = {} /\ (phase = "idle" => context = {}) /\ InStep

\* The swap chain is made again with as many images as before, is never
\* suboptimal when an image is acquired, and the output of the graph is there.
Undisturbed ==
    /\ \A m, n \in ImageCounts : m = n
    /\ "SUBOPTIMAL" \notin AcquireResults
    /\ "output" \notin Failures

-----------------------------------------------------------------------------
(***************************************************************************)
(* Ages and slots.                                                         *)
(***************************************************************************)

LEMMA AtIsSlot ==
    ASSUME NEW n \in Nat \ {0}, NEW b \in 0..(n - 1), NEW x \in 0..n
    PROVE  /\ At(b, n, x) \in 0..(n - 1)
           /\ At(b, n, 0) = b /\ At(b, n, n) = b
  BY DEF At

\* Over n consecutive ages no slot is met twice.
LEMMA AtDiffers ==
    ASSUME NEW n \in Nat \ {0}, NEW b \in 0..(n - 1), NEW a \in 0..1,
           NEW x \in a..(a + n - 1), NEW y \in a..(a + n - 1),
           At(b, n, x) = At(b, n, y)
    PROVE  x = y
  BY DEF At

\* When the lists rotate all frames grow older.
LEMMA AtRotates ==
    ASSUME NEW n \in Nat \ {0}, NEW b \in 0..(n - 1), NEW x \in 0..(n - 1)
    PROVE  At((b + 1) % n, n, x + 1) = At(b, n, x)
  <1>1. CASE b = n - 1
    <2>1. (b + 1) % n = 0
      BY <1>1, Rotation
    <2>. QED
      BY <1>1, <2>1 DEF At
  <1>2. CASE b # n - 1
    <2>1. (b + 1) % n = b + 1
      BY <1>2, Rotation
    <2>. QED
      BY <1>2, <2>1 DEF At
  <1>. QED
    BY <1>1, <1>2

-----------------------------------------------------------------------------
(***************************************************************************)
(* Steps that leave semaphores, buffers and queues alone.                  *)
(***************************************************************************)

LEMMA Basics ==
    ASSUME TypeOK, Undisturbed
    PROVE  /\ slots \in Nat \ {0} /\ back \in 0..(slots - 1) /\ images = slots
           /\ transferQueue \in Seq(BatchType) /\ Len(transferQueue) \in Nat
           /\ graphicsQueue \in Seq(BatchType) /\ Len(graphicsQueue) \in Nat
           /\ presentQueue \in Seq(PresentType) /\ Len(presentQueue) \in Nat
           /\ semaphore \in [Kinds \X Slot -> {"unsignaled", "pending", "signaled"}]
           /\ buffer \in [{"transfer", "graphics"} \X Slot ->
                             {"ready", "recording", "executable", "pending"}]
  <1>1. /\ transferQueue \in Seq(BatchType) /\ graphicsQueue \in Seq(BatchType)
        /\ presentQueue \in Seq(PresentType)
    BY TypeParts DEF DeviceOK, ImagesOK
  <1>2. /\ Len(transferQueue) \in Nat /\ Len(graphicsQueue) \in Nat
        /\ Len(presentQueue) \in Nat
    BY <1>1, LenProperties
  <1>3. slots \in Nat \ {0} /\ back \in 0..(slots - 1) /\ images = slots
    BY TypeParts, CountsAssumption DEF EnvironmentOK, Slot, Undisturbed
  <1>. QED
    BY <1>1, <1>2, <1>3, TypeParts DEF DeviceOK

\* A step of the frame that goes on recording or waits for the device.
LEMMA PhaseKeepsStep ==
    ASSUME NEW a, NEW t, NEW g, NEW p, Aligned(a, t, g, p),
           YoungestAges(a, t, g, p)', RecordingAligned(a, t, g)',
           UNCHANGED <<slots, back, imageIndex, semaphore, buffer, transferQueue,
                       graphicsQueue, presentQueue>>
    PROVE  Aligned(a, t, g, p)'
  BY DEF Aligned, QueuesOrdered, QueuesAligned, SemaphoresAligned, StageOf,
         ImagesApart, BuffersAligned, Slot

LEMMA StageShifts ==
    ASSUME NEW state, NEW slot, NEW age \in Nat, NEW oT \in Nat, NEW oG \in Nat,
           NEW oP \in Nat, StageOf(state, slot, age, 0, 0 + oT, 0, 0 + oG, 0 + oP)
    PROVE  StageOf(state, slot, age + 1, 1, 1 + oT, 1, 1 + oG, 1 + oP)
  BY DEF StageOf

\* The lists rotate: what was of an age is one older.
LEMMA BeginFrameKeepsStep ==
    ASSUME TypeOK, Undisturbed, NEW a \in 0..1, NEW t \in 0..1, NEW g \in 0..1,
           NEW p \in 0..1, Aligned(a, t, g, p), BeginFrame
    PROVE  Aligned(1, 1, 1, 1)'
  <1>. /\ slots \in Nat \ {0} /\ back \in 0..(slots - 1)
       /\ Len(transferQueue) \in Nat /\ Len(graphicsQueue) \in Nat
       /\ Len(presentQueue) \in Nat
    BY Basics
  <1>1. a = 0 /\ t = 0 /\ g = 0 /\ p = 0
    BY DEF Aligned, YoungestAges, BeginFrame
  <1>2. /\ back' = (back + 1) % slots /\ phase' = "acquiring"
        /\ UNCHANGED <<slots, imageIndex, semaphore, buffer, transferQueue,
                       graphicsQueue, presentQueue>>
    BY DEF BeginFrame, deviceVars, queueVars
  <1>3. \A x \in 0..(slots - 1) : At(back', slots', x + 1) = At(back, slots, x)
    BY <1>2, AtRotates
  <1>4. \A x \in Nat : ImageAt(presentQueue', imageIndex', 1, x + 1)
                           = ImageAt(presentQueue, imageIndex, 0, x)
    BY <1>2 DEF ImageAt
  <1>5. QueuesOrdered(0, 0, 0, 0) /\ QueuesAligned(0, 0, 0)
        /\ SemaphoresAligned(0, 0, 0, 0) /\ ImagesApart(0, 0) /\ BuffersAligned(0, 0, 0, 0)
    BY <1>1 DEF Aligned
  <1>6. YoungestAges(1, 1, 1, 1)'
    BY <1>2 DEF YoungestAges
  <1>7. QueuesOrdered(1, 1, 1, 1)'
    BY <1>2, <1>5 DEF QueuesOrdered
  <1>8. QueuesAligned(1, 1, 1)'
    <2>1. ASSUME NEW L \in Nat, L <= slots, NEW j \in 1..L
          PROVE  /\ At(back', slots', 1 + L - j) = At(back, slots, 0 + L - j)
                 /\ ImageAt(presentQueue', imageIndex', 1, 1 + L - j)
                       = ImageAt(presentQueue, imageIndex, 0, 0 + L - j)
      <3>1. 0 + L - j \in 0..(slots - 1) /\ 1 + L - j = (0 + L - j) + 1
        BY <2>1
      <3>2. At(back', slots', (0 + L - j) + 1) = At(back, slots, 0 + L - j)
        BY <3>1, <1>3
      <3>3. ImageAt(presentQueue', imageIndex', 1, (0 + L - j) + 1)
              = ImageAt(presentQueue, imageIndex, 0, 0 + L - j)
        BY <3>1, <1>4
      <3>. QED
        BY <3>1, <3>2, <3>3
    <2>2. /\ Len(transferQueue) <= slots /\ Len(graphicsQueue) <= slots
          /\ Len(presentQueue) <= slots
      BY <1>5 DEF QueuesOrdered
    <2>. QED
      BY <1>2, <1>5, <2>1, <2>2 DEF QueuesAligned
  <1>9. SemaphoresAligned(1, 1, 1, 1)'
    <2>1. ASSUME NEW age \in 1..(1 + slots - 1)
          PROVE  StageOf(semaphore, At(back', slots', age), age, 1, 1 + Len(transferQueue),
                         1, 1 + Len(graphicsQueue), 1 + Len(presentQueue))
      <3>1. age - 1 \in 0..(0 + slots - 1) /\ age = (age - 1) + 1
        OBVIOUS
      <3>2. At(back', slots', age) = At(back, slots, age - 1)
        BY <3>1, <1>3
      <3>3. StageOf(semaphore, At(back, slots, age - 1), age - 1, 0,
                    0 + Len(transferQueue), 0, 0 + Len(graphicsQueue),
                    0 + Len(presentQueue))
        BY <3>1, <1>5 DEF SemaphoresAligned
      <3>. QED
        BY <3>1, <3>2, <3>3, StageShifts
    <2>. QED
      BY <1>2, <2>1 DEF SemaphoresAligned
  <1>10. ImagesApart(1, 1)' /\ BuffersAligned(1, 1, 1, 1)'
    <2>1. \A age \in 1..(1 + Len(presentQueue) - 1) :
             /\ age - 1 \in 0..(0 + Len(presentQueue) - 1)
             /\ ImageAt(presentQueue', imageIndex', 1, age)
                   = ImageAt(presentQueue, imageIndex, 0, age - 1)
      BY <1>4
    <2>2. ImagesApart(1, 1)'
      BY <1>2, <1>5, <2>1 DEF ImagesApart, Slot
    <2>3. \A x \in 0..(0 + Len(presentQueue) - 1) :
             /\ x + 1 \in 1..(1 + Len(presentQueue) - 1)
             /\ ImageAt(presentQueue', imageIndex', 1, x + 1)
                   = ImageAt(presentQueue, imageIndex, 0, x)
      BY <1>4
    <2>4. BuffersAligned(1, 1, 1, 1)'
      BY <1>2, <1>5, <2>1, <2>3 DEF BuffersAligned, Slot
    <2>. QED
      BY <2>2, <2>4
  <1>11. RecordingAligned(1, 1, 1)'
    BY DEF RecordingAligned
  <1>. QED
    BY <1>6, <1>7, <1>8, <1>9, <1>10, <1>11 DEF Aligned

-----------------------------------------------------------------------------
(***************************************************************************)
(* Acquiring.                                                              *)
(***************************************************************************)

\* The images presented and not yet shown, and one that may be acquired, are
\* different: there are fewer of the former than slots.
LEMMA RoomForFrame ==
    ASSUME TypeOK, Undisturbed, ImagesApart(1, 1), NEW i \in Free
    PROVE  Len(presentQueue) < slots /\ i \in Slot /\ i \notin Queued
  <1>. DEFINE N == Len(presentQueue)
              f == [j \in 1..N |-> presentQueue[j].image]
  <1>1. slots \in Nat \ {0} /\ N \in Nat /\ images = slots
    BY Basics
  <1>2. i \in Slot /\ i \notin Queued
    BY <1>1 DEF Free, Slot
  <1>3. ASSUME NEW j \in 1..N
        PROVE  /\ presentQueue[j].image \in Slot \ {i}
               /\ presentQueue[j].image = ImageAt(presentQueue, imageIndex, 1, 1 + N - j)
               /\ 1 + N - j \in 1..(1 + N - 1)
    <2>1. presentQueue[j].image = ImageAt(presentQueue, imageIndex, 1, 1 + N - j)
      BY <1>1 DEF ImageAt
    <2>2. 1 + N - j \in 1..(1 + N - 1)
      BY <1>1
    <2>3. presentQueue[j].image \in Slot
      BY <2>1, <2>2 DEF ImagesApart
    <2>4. presentQueue[j].image # i
      BY <1>2 DEF Queued
    <2>. QED
      BY <2>1, <2>2, <2>3, <2>4
  <1>4. \A x, y \in 1..N : presentQueue[x].image = presentQueue[y].image => x = y
    <2>. SUFFICES ASSUME NEW x \in 1..N, NEW y \in 1..N,
                         presentQueue[x].image = presentQueue[y].image
                  PROVE  x = y
      OBVIOUS
    <2>1. 1 + N - x = 1 + N - y
      BY <1>3 DEF ImagesApart
    <2>. QED
      BY <2>1, <1>1
  <1>5. f \in Injection(1..N, Slot \ {i})
    <2>1. f \in [1..N -> Slot \ {i}]
      BY <1>3
    <2>2. \A x, y \in 1..N : f[x] = f[y] => x = y
      BY <1>4
    <2>. QED
      BY <2>1, <2>2 DEF Injection, IsInjective
  <1>6. IsFiniteSet(Slot) /\ Cardinality(Slot) = slots
    BY <1>1, FS_Interval DEF Slot
  <1>7. IsFiniteSet(Slot \ {i}) /\ Cardinality(Slot \ {i}) = slots - 1
    BY <1>2, <1>6, FS_RemoveElement
  <1>8. Cardinality(1..N) <= slots - 1 /\ Cardinality(1..N) = N
    <2>1. Cardinality(1..N) <= Cardinality(Slot \ {i})
      BY <1>5, <1>7, FS_Injection
    <2>2. 1 \in Int /\ N \in Int
      BY <1>1
    <2>3. Cardinality(1..N) = IF 1 > N THEN 0 ELSE N - 1 + 1
      BY <2>2, FS_Interval
    <2>. QED
      BY <1>1, <1>7, <2>1, <2>3
  <1>. QED
    BY <1>1, <1>2, <1>8

\* The slot at the back is of the youngest frame alone.
LEMMA BackIsYoungest ==
    ASSUME TypeOK, Undisturbed, NEW age \in 0..(slots - 1)
    PROVE  At(back, slots, age) = back <=> age = 0
  <1>1. slots \in Nat \ {0} /\ back \in 0..(slots - 1)
    BY Basics
  <1>. QED
    BY <1>1 DEF At

LEMMA AcquireKeepsStep ==
    ASSUME TypeOK, HostAgrees, Undisturbed, misused = {}, Aligned(1, 1, 1, 1), Acquire
    PROVE  misused' = {} /\ Aligned(0, 1, 1, 1)'
  <1>. /\ slots \in Nat \ {0} /\ back \in 0..(slots - 1)
       /\ Len(transferQueue) \in Nat /\ Len(graphicsQueue) \in Nat
       /\ Len(presentQueue) \in Nat
       /\ semaphore \in [Kinds \X Slot -> {"unsignaled", "pending", "signaled"}]
    BY Basics
  <1>1. QueuesOrdered(1, 1, 1, 1) /\ QueuesAligned(1, 1, 1)
        /\ SemaphoresAligned(1, 1, 1, 1) /\ ImagesApart(1, 1) /\ BuffersAligned(1, 1, 1, 1)
    BY DEF Aligned
  <1>2. PICK i \in Free : imageIndex' = i /\ (i < slots => phase' = "preparing")
    BY DEF Acquire
  <1>3. Len(presentQueue) < slots /\ i \in Slot /\ i \notin Queued
    BY <1>1, RoomForFrame
  <1>4. /\ phase' = "preparing" /\ Signal(<<"imageAvailable", back>>)
        /\ UNCHANGED <<slots, back, buffer, transferQueue, graphicsQueue, presentQueue>>
    BY <1>2, <1>3 DEF Acquire, queueVars, Slot
  <1>5. /\ semaphore[<<"imageAvailable", back>>] = "unsignaled"
        /\ semaphore[<<"transferCompleted", back>>] = "unsignaled"
        /\ semaphore[<<"renderCompleted", back>>] = "unsignaled"
    <2>1. StageOf(semaphore, At(back, slots, slots), slots, 1, 1 + Len(transferQueue), 1,
                  1 + Len(graphicsQueue), 1 + Len(presentQueue))
      BY <1>1 DEF SemaphoresAligned
    <2>2. At(back, slots, slots) = back
      BY AtIsSlot
    <2>. QED
      BY <2>1, <2>2, <1>1, <1>3 DEF StageOf, QueuesOrdered
  <1>6. misused' = {}
    BY <1>4, <1>5 DEF Signal
  <1>7. \A age \in 1..(1 + Len(presentQueue) - 1) :
           /\ ImageAt(presentQueue', imageIndex', 1, age)
                = ImageAt(presentQueue, imageIndex, 1, age)
           /\ ImageAt(presentQueue, imageIndex, 1, age) \in Queued
    BY <1>4 DEF ImageAt, Queued
  <1>8. ImageAt(presentQueue', imageIndex', 1, 0) = i
    BY <1>2 DEF ImageAt
  <1>9. YoungestAges(0, 1, 1, 1)'
    BY <1>4 DEF YoungestAges
  <1>10. QueuesOrdered(0, 1, 1, 1)'
    BY <1>1, <1>3, <1>4 DEF QueuesOrdered
  <1>11. QueuesAligned(1, 1, 1)'
    <2>1. ASSUME NEW L \in Nat, 1 + L <= 1 + Len(presentQueue), NEW j \in 1..L
          PROVE  ImageAt(presentQueue', imageIndex', 1, 1 + L - j)
                   = ImageAt(presentQueue, imageIndex, 1, 1 + L - j)
      BY <2>1, <1>7
    <2>2. /\ 1 + Len(transferQueue) <= 1 + Len(presentQueue)
          /\ 1 + Len(graphicsQueue) <= 1 + Len(presentQueue)
      BY <1>1 DEF QueuesOrdered
    <2>. QED
      BY <1>1, <1>4, <2>1, <2>2 DEF QueuesAligned
  <1>12. SemaphoresAligned(0, 1, 1, 1)'
    <2>1. ASSUME NEW age \in 0..(0 + slots - 1)
          PROVE  StageOf(semaphore', At(back, slots, age), age, 1, 1 + Len(transferQueue),
                         1, 1 + Len(graphicsQueue), 1 + Len(presentQueue))
      <3>1. CASE age = 0
        <4>1. semaphore' = [semaphore EXCEPT ![<<"imageAvailable", back>>] = "pending"]
          BY <1>4 DEF Signal
        <4>2. At(back, slots, age) = back /\ <<"imageAvailable", back>> \in Kinds \X Slot
          BY <3>1, BackIsYoungest DEF Kinds, Slot
        <4>3. /\ semaphore'[<<"imageAvailable", back>>] = "pending"
              /\ semaphore'[<<"transferCompleted", back>>] = "unsignaled"
              /\ semaphore'[<<"renderCompleted", back>>] = "unsignaled"
          BY <4>1, <4>2, <1>5
        <4>. QED
          BY <3>1, <4>2, <4>3 DEF StageOf
      <3>2. CASE age # 0
        <4>1. At(back, slots, age) # back
          BY <3>2, BackIsYoungest
        <4>2. \A kind \in Kinds : semaphore'[<<kind, At(back, slots, age)>>]
                                    = semaphore[<<kind, At(back, slots, age)>>]
          <5>1. At(back, slots, age) \in Slot
            BY AtIsSlot DEF Slot
          <5>. QED
            BY <1>4, <4>1, <5>1 DEF Signal
        <4>3. StageOf(semaphore, At(back, slots, age), age, 1, 1 + Len(transferQueue), 1,
                      1 + Len(graphicsQueue), 1 + Len(presentQueue))
          BY <1>1, <3>2 DEF SemaphoresAligned
        <4>. QED
          BY <4>2, <4>3 DEF StageOf, Kinds
      <3>. QED
        BY <3>1, <3>2
    <2>. QED
      BY <1>4, <2>1 DEF SemaphoresAligned
  <1>13. ImagesApart(0, 1)'
    BY <1>1, <1>3, <1>4, <1>7, <1>8 DEF ImagesApart, Slot
  <1>14. BuffersAligned(0, 1, 1, 1)'
    BY <1>1, <1>4, <1>7 DEF BuffersAligned, Slot
  <1>15. RecordingAligned(0, 1, 1)'
    <2>1. buffer[<<"transfer", i>>] = "ready" /\ buffer[<<"graphics", i>>] = "ready"
      BY <1>1, <1>3, <1>7 DEF BuffersAligned
    <2>. QED
      BY <1>2, <1>4, <2>1 DEF RecordingAligned, Recorded
  <1>. QED
    BY <1>6, <1>9, <1>10, <1>11, <1>12, <1>13, <1>14, <1>15 DEF Aligned

-----------------------------------------------------------------------------
(***************************************************************************)
(* Recording and submission.                                               *)
(***************************************************************************)

\* The command buffers of the frame are those of its image, of no other frame.
LEMMA RecordingKeepsStep ==
    ASSUME TypeOK, HostAgrees, Undisturbed, misused = {}, Aligned(0, 1, 1, 1),
           context # {}, NEW to, Move(Buffers, Recorded, to),
           YoungestAges(0, 1, 1, 1)', to = Recorded',
           UNCHANGED <<slots, back, imageIndex, semaphore, transferQueue, graphicsQueue,
                       presentQueue>>
    PROVE  misused' = {} /\ Aligned(0, 1, 1, 1)'
  <1>. /\ slots \in Nat \ {0} /\ Len(presentQueue) \in Nat
       /\ buffer \in [{"transfer", "graphics"} \X Slot ->
                         {"ready", "recording", "executable", "pending"}]
    BY Basics
  <1>1. Buffers = {<<"transfer", imageIndex>>, <<"graphics", imageIndex>>}
    BY CurrentContext DEF Buffers
  <1>2. QueuesOrdered(0, 1, 1, 1) /\ QueuesAligned(1, 1, 1)
        /\ SemaphoresAligned(0, 1, 1, 1) /\ ImagesApart(0, 1) /\ BuffersAligned(0, 1, 1, 1)
        /\ RecordingAligned(0, 1, 1)
    BY DEF Aligned
  <1>3. ImageAt(presentQueue, imageIndex, 1, 0) = imageIndex
    BY DEF ImageAt
  <1>4. imageIndex \in Slot
    BY <1>2, <1>3 DEF ImagesApart
  <1>5. misused' = {}
    BY <1>1, <1>2 DEF Move, RecordingAligned
  <1>6. /\ buffer'[<<"transfer", imageIndex>>] = to
        /\ buffer'[<<"graphics", imageIndex>>] = to
    BY <1>1, <1>4 DEF Move
  <1>7. \A k \in Slot : k # imageIndex =>
           /\ buffer'[<<"transfer", k>>] = buffer[<<"transfer", k>>]
           /\ buffer'[<<"graphics", k>>] = buffer[<<"graphics", k>>]
    BY <1>1 DEF Move
  <1>8. \A age \in 1..(1 + Len(presentQueue) - 1) :
           /\ ImageAt(presentQueue, imageIndex, 1, age) # imageIndex
           /\ ImageAt(presentQueue, imageIndex, 1, age) \in Slot
    BY <1>2, <1>3 DEF ImagesApart
  <1>9. QueuesOrdered(0, 1, 1, 1)' /\ QueuesAligned(1, 1, 1)' /\ ImagesApart(0, 1)'
    BY <1>2 DEF QueuesOrdered, QueuesAligned, ImagesApart, Slot
  <1>10. SemaphoresAligned(0, 1, 1, 1)'
    BY <1>2 DEF SemaphoresAligned
  <1>11. BuffersAligned(0, 1, 1, 1)'
    <2>1. \A k \in Slot :
             (\A age \in 0..(1 + Len(presentQueue) - 1) :
                  k # ImageAt(presentQueue, imageIndex, 1, age)) => k # imageIndex
      BY <1>3
    <2>. QED
      BY <1>2, <1>7, <1>8, <2>1 DEF BuffersAligned, Slot
  <1>12. RecordingAligned(0, 1, 1)'
    BY <1>6 DEF RecordingAligned
  <1>. QED
    BY <1>5, <1>9, <1>10, <1>11, <1>12 DEF Aligned

\* What a batch the frame submits does to semaphores and buffers.
LEMMA SubmitEffect ==
    ASSUME TypeOK, HostAgrees, Undisturbed, ImagesApart(0, 1), context # {},
           misused = {}, NEW kind \in {"transfer", "graphics"}, NEW signal \in Kinds,
           Submit(kind, signal),
           buffer[<<kind, imageIndex>>] = "executable",
           semaphore[<<signal, back>>] = "unsignaled"
    PROVE  /\ misused' = {}
           /\ buffer'[<<kind, imageIndex>>] = "pending"
           /\ semaphore'[<<signal, back>>] = "pending"
           /\ \A c \in {"transfer", "graphics"}, k \in Slot : <<c, k>> # <<kind, imageIndex>> =>
                 buffer'[<<c, k>>] = buffer[<<c, k>>]
           /\ \A c \in Kinds, k \in Slot : <<c, k>> # <<signal, back>> =>
                 semaphore'[<<c, k>>] = semaphore[<<c, k>>]
           /\ imageIndex \in Slot /\ back \in Slot
  <1>1. /\ slots \in Nat \ {0} /\ back \in Slot /\ Len(presentQueue) \in Nat
        /\ semaphore \in [Kinds \X Slot -> {"unsignaled", "pending", "signaled"}]
        /\ buffer \in [{"transfer", "graphics"} \X Slot ->
                          {"ready", "recording", "executable", "pending"}]
    BY Basics DEF Slot
  <1>2. Current = [slot |-> back, buffer |-> imageIndex]
    BY CurrentContext
  <1>3. imageIndex \in Slot
    BY <1>1 DEF ImagesApart, ImageAt
  <1>4. /\ buffer' = [buffer EXCEPT ![<<kind, imageIndex>>] = "pending"]
        /\ semaphore' = [semaphore EXCEPT ![<<signal, back>>] = "pending"]
        /\ misused' = {}
    BY <1>2 DEF Submit
  <1>. QED
    BY <1>1, <1>3, <1>4

LEMMA SubmitTransferKeepsStep ==
    ASSUME TypeOK, HostAgrees, Undisturbed, misused = {}, Aligned(0, 1, 1, 1),
           SubmitTransfer
    PROVE  misused' = {} /\ Aligned(0, 0, 1, 1)'
  <1>. /\ slots \in Nat \ {0} /\ back \in 0..(slots - 1)
       /\ Len(transferQueue) \in Nat /\ Len(graphicsQueue) \in Nat
       /\ Len(presentQueue) \in Nat
    BY Basics
  <1>1. /\ phase = "submitting" /\ phase' = "submittingGraphics"
        /\ UNCHANGED <<slots, back, imageIndex, graphicsQueue, presentQueue>>
        /\ context # {}
    BY DEF SubmitTransfer, environmentVars, HostAgrees, Holding
  <1>2. QueuesOrdered(0, 1, 1, 1) /\ QueuesAligned(1, 1, 1)
        /\ SemaphoresAligned(0, 1, 1, 1) /\ ImagesApart(0, 1) /\ BuffersAligned(0, 1, 1, 1)
        /\ RecordingAligned(0, 1, 1)
    BY DEF Aligned
  <1>3. Batch("imageAvailable", "transferCompleted") =
           [slot |-> back, wait |-> "imageAvailable", signal |-> "transferCompleted",
            buffer |-> imageIndex]
    BY <1>1, CurrentContext DEF Batch
  <1>4. /\ Len(transferQueue') = Len(transferQueue) + 1
        /\ \A j \in 1..Len(transferQueue) : transferQueue'[j] = transferQueue[j]
        /\ transferQueue'[Len(transferQueue) + 1] = Batch("imageAvailable", "transferCompleted")
    <2>1. Batch("imageAvailable", "transferCompleted") \in BatchType
      BY <1>1, BatchTyped, TypeParts DEF Kinds
    <2>2. transferQueue' = Append(transferQueue, Batch("imageAvailable", "transferCompleted"))
      BY DEF SubmitTransfer
    <2>. QED
      BY <2>1, <2>2, Basics, AppendProperties
  <1>5. StageOf(semaphore, back, 0, 1, 1 + Len(transferQueue), 1, 1 + Len(graphicsQueue),
                1 + Len(presentQueue))
    BY <1>2, BackIsYoungest DEF SemaphoresAligned
  <1>6. /\ buffer[<<"transfer", imageIndex>>] = "executable"
        /\ buffer[<<"graphics", imageIndex>>] = "executable"
    BY <1>1, <1>2 DEF RecordingAligned, Recorded
  <1>7. semaphore[<<"transferCompleted", back>>] = "unsignaled"
    BY <1>5 DEF StageOf
  <1>8. /\ misused' = {}
        /\ buffer'[<<"transfer", imageIndex>>] = "pending"
        /\ semaphore'[<<"transferCompleted", back>>] = "pending"
        /\ \A k \in Slot : k # imageIndex =>
              buffer'[<<"transfer", k>>] = buffer[<<"transfer", k>>]
        /\ \A k \in Slot : buffer'[<<"graphics", k>>] = buffer[<<"graphics", k>>]
        /\ \A c \in Kinds, k \in Slot : <<c, k>> # <<"transferCompleted", back>> =>
              semaphore'[<<c, k>>] = semaphore[<<c, k>>]
        /\ imageIndex \in Slot /\ back \in Slot
    <2>1. "transferCompleted" \in Kinds
      BY DEF Kinds
    <2>2. Submit("transfer", "transferCompleted")
      BY DEF SubmitTransfer
    <2>. QED
      BY <1>1, <1>2, <1>6, <1>7, <2>1, <2>2, SubmitEffect
  <1>9. ImageAt(presentQueue, imageIndex, 1, 0) = imageIndex
    BY DEF ImageAt
  <1>10. \A age \in 1..(1 + Len(presentQueue) - 1) :
            /\ ImageAt(presentQueue, imageIndex, 1, age) # imageIndex
            /\ ImageAt(presentQueue, imageIndex, 1, age) \in Slot
    BY <1>2, <1>9 DEF ImagesApart
  <1>11. YoungestAges(0, 0, 1, 1)'
    BY <1>1 DEF YoungestAges
  <1>12. QueuesOrdered(0, 0, 1, 1)'
    BY <1>1, <1>2, <1>4 DEF QueuesOrdered
  <1>13. QueuesAligned(0, 1, 1)'
    <2>1. ASSUME NEW j \in 1..Len(transferQueue')
          PROVE  transferQueue'[j] =
                   [slot |-> At(back, slots, 0 + Len(transferQueue') - j),
                    wait |-> "imageAvailable", signal |-> "transferCompleted",
                    buffer |-> ImageAt(presentQueue, imageIndex, 1,
                                       0 + Len(transferQueue') - j)]
      <3>1. CASE j = Len(transferQueue) + 1
        BY <1>3, <1>4, <1>9, <3>1, BackIsYoungest
      <3>2. CASE j # Len(transferQueue) + 1
        <4>1. j \in 1..Len(transferQueue)
              /\ 0 + Len(transferQueue') - j = 1 + Len(transferQueue) - j
          BY <1>4, <3>2
        <4>. QED
          BY <1>2, <1>4, <4>1 DEF QueuesAligned
      <3>. QED
        BY <3>1, <3>2
    <2>. QED
      BY <1>1, <1>2, <2>1 DEF QueuesAligned
  <1>14. SemaphoresAligned(0, 0, 1, 1)'
    <2>1. ASSUME NEW age \in 0..(0 + slots - 1)
          PROVE  StageOf(semaphore', At(back, slots, age), age, 0, 0 + Len(transferQueue'),
                         1, 1 + Len(graphicsQueue), 1 + Len(presentQueue))
      <3>1. StageOf(semaphore, At(back, slots, age), age, 1, 1 + Len(transferQueue), 1,
                    1 + Len(graphicsQueue), 1 + Len(presentQueue))
        BY <1>2 DEF SemaphoresAligned
      <3>2. At(back, slots, age) \in Slot
        BY AtIsSlot DEF Slot
      <3>3. CASE age = 0
        <4>1. At(back, slots, age) = back
          BY <3>3, BackIsYoungest
        <4>. QED
          BY <1>4, <1>8, <3>1, <3>3, <4>1 DEF StageOf, Kinds
      <3>4. CASE age # 0
        <4>1. At(back, slots, age) # back
          BY <3>4, BackIsYoungest
        <4>2. \A c \in Kinds : semaphore'[<<c, At(back, slots, age)>>]
                                 = semaphore[<<c, At(back, slots, age)>>]
          BY <1>8, <3>2, <4>1
        <4>3. 0 + Len(transferQueue') = 1 + Len(transferQueue) /\ age \in Nat
          BY <1>4
        <4>. QED
          BY <3>1, <3>4, <4>2, <4>3 DEF StageOf, Kinds
      <3>. QED
        BY <3>3, <3>4
    <2>. QED
      BY <1>1, <2>1 DEF SemaphoresAligned
  <1>15. ImagesApart(0, 1)'
    BY <1>1, <1>2 DEF ImagesApart, Slot
  <1>16. BuffersAligned(0, 0, 1, 1)'
    <2>1. ASSUME NEW age \in 0..(1 + Len(presentQueue) - 1)
          PROVE  buffer'[<<"transfer", ImageAt(presentQueue, imageIndex, 1, age)>>] =
                    IF age < 0 + Len(transferQueue') THEN "pending" ELSE "ready"
      BY <1>2, <1>4, <1>8, <1>9, <1>10 DEF BuffersAligned
    <2>2. ASSUME NEW k \in Slot,
                 \A age \in 0..(1 + Len(presentQueue) - 1) :
                    k # ImageAt(presentQueue, imageIndex, 1, age)
          PROVE  buffer'[<<"transfer", k>>] = "ready" /\ buffer'[<<"graphics", k>>] = "ready"
      <3>1. k # imageIndex
        BY <1>9, <2>2
      <3>2. buffer[<<"transfer", k>>] = "ready" /\ buffer[<<"graphics", k>>] = "ready"
        BY <1>2, <2>2 DEF BuffersAligned
      <3>. QED
        BY <1>8, <3>1, <3>2
    <2>3. \A age \in 1..(1 + Len(presentQueue) - 1) :
             buffer'[<<"graphics", ImageAt(presentQueue, imageIndex, 1, age)>>] =
                IF age < 1 + Len(graphicsQueue) THEN "pending" ELSE "ready"
      BY <1>2, <1>8, <1>10 DEF BuffersAligned
    <2>. QED
      BY <1>1, <2>1, <2>2, <2>3 DEF BuffersAligned, Slot
  <1>17. RecordingAligned(0, 0, 1)'
    BY <1>1, <1>6, <1>8 DEF RecordingAligned, Recorded
  <1>. QED
    BY <1>8, <1>11, <1>12, <1>13, <1>14, <1>15, <1>16, <1>17 DEF Aligned

LEMMA SubmitGraphicsKeepsStep ==
    ASSUME TypeOK, HostAgrees, Undisturbed, misused = {}, Aligned(0, 0, 1, 1),
           SubmitGraphics
    PROVE  misused' = {} /\ Aligned(0, 0, 0, 1)'
  <1>. /\ slots \in Nat \ {0} /\ back \in 0..(slots - 1)
       /\ Len(transferQueue) \in Nat /\ Len(graphicsQueue) \in Nat
       /\ Len(presentQueue) \in Nat
    BY Basics
  <1>1. /\ phase = "submittingGraphics" /\ phase' = "presenting"
        /\ UNCHANGED <<slots, back, imageIndex, transferQueue, presentQueue>>
        /\ context # {}
    BY DEF SubmitGraphics, environmentVars, HostAgrees, Holding
  <1>2. QueuesOrdered(0, 0, 1, 1) /\ QueuesAligned(0, 1, 1)
        /\ SemaphoresAligned(0, 0, 1, 1) /\ ImagesApart(0, 1) /\ BuffersAligned(0, 0, 1, 1)
        /\ RecordingAligned(0, 0, 1)
    BY DEF Aligned
  <1>3. Batch("transferCompleted", "renderCompleted") =
           [slot |-> back, wait |-> "transferCompleted", signal |-> "renderCompleted",
            buffer |-> imageIndex]
    BY <1>1, CurrentContext DEF Batch
  <1>4. /\ Len(graphicsQueue') = Len(graphicsQueue) + 1
        /\ \A j \in 1..Len(graphicsQueue) : graphicsQueue'[j] = graphicsQueue[j]
        /\ graphicsQueue'[Len(graphicsQueue) + 1] = Batch("transferCompleted", "renderCompleted")
    <2>1. Batch("transferCompleted", "renderCompleted") \in BatchType
      BY <1>1, BatchTyped, TypeParts DEF Kinds
    <2>2. graphicsQueue' = Append(graphicsQueue, Batch("transferCompleted", "renderCompleted"))
      BY DEF SubmitGraphics
    <2>. QED
      BY <2>1, <2>2, Basics, AppendProperties
  <1>5. StageOf(semaphore, back, 0, 0, 0 + Len(transferQueue), 1, 1 + Len(graphicsQueue),
                1 + Len(presentQueue))
    BY <1>2, BackIsYoungest DEF SemaphoresAligned
  <1>6. buffer[<<"graphics", imageIndex>>] = "executable"
    BY <1>1, <1>2 DEF RecordingAligned, Recorded
  <1>7. semaphore[<<"renderCompleted", back>>] = "unsignaled"
    BY <1>5 DEF StageOf
  <1>8. /\ misused' = {}
        /\ buffer'[<<"graphics", imageIndex>>] = "pending"
        /\ semaphore'[<<"renderCompleted", back>>] = "pending"
        /\ \A k \in Slot : k # imageIndex =>
              buffer'[<<"graphics", k>>] = buffer[<<"graphics", k>>]
        /\ \A k \in Slot : buffer'[<<"transfer", k>>] = buffer[<<"transfer", k>>]
        /\ \A c \in Kinds, k \in Slot : <<c, k>> # <<"renderCompleted", back>> =>
              semaphore'[<<c, k>>] = semaphore[<<c, k>>]
        /\ imageIndex \in Slot /\ back \in Slot
    <2>1. "renderCompleted" \in Kinds
      BY DEF Kinds
    <2>2. Submit("graphics", "renderCompleted")
      BY DEF SubmitGraphics
    <2>. QED
      BY <1>1, <1>2, <1>6, <1>7, <2>1, <2>2, SubmitEffect
  <1>9. ImageAt(presentQueue, imageIndex, 1, 0) = imageIndex
    BY DEF ImageAt
  <1>10. \A age \in 1..(1 + Len(presentQueue) - 1) :
            /\ ImageAt(presentQueue, imageIndex, 1, age) # imageIndex
            /\ ImageAt(presentQueue, imageIndex, 1, age) \in Slot
    BY <1>2, <1>9 DEF ImagesApart
  <1>11. YoungestAges(0, 0, 0, 1)'
    BY <1>1 DEF YoungestAges
  <1>12. QueuesOrdered(0, 0, 0, 1)'
    BY <1>1, <1>2, <1>4 DEF QueuesOrdered
  <1>13. QueuesAligned(0, 0, 1)'
    <2>1. ASSUME NEW j \in 1..Len(graphicsQueue')
          PROVE  graphicsQueue'[j] =
                   [slot |-> At(back, slots, 0 + Len(graphicsQueue') - j),
                    wait |-> "transferCompleted", signal |-> "renderCompleted",
                    buffer |-> ImageAt(presentQueue, imageIndex, 1,
                                       0 + Len(graphicsQueue') - j)]
      <3>1. CASE j = Len(graphicsQueue) + 1
        BY <1>3, <1>4, <1>9, <3>1, BackIsYoungest
      <3>2. CASE j # Len(graphicsQueue) + 1
        <4>1. j \in 1..Len(graphicsQueue)
              /\ 0 + Len(graphicsQueue') - j = 1 + Len(graphicsQueue) - j
          BY <1>4, <3>2
        <4>. QED
          BY <1>2, <1>4, <4>1 DEF QueuesAligned
      <3>. QED
        BY <3>1, <3>2
    <2>. QED
      BY <1>1, <1>2, <2>1 DEF QueuesAligned
  <1>14. SemaphoresAligned(0, 0, 0, 1)'
    <2>1. ASSUME NEW age \in 0..(0 + slots - 1)
          PROVE  StageOf(semaphore', At(back, slots, age), age, 0, 0 + Len(transferQueue),
                         0, 0 + Len(graphicsQueue'), 1 + Len(presentQueue))
      <3>1. StageOf(semaphore, At(back, slots, age), age, 0, 0 + Len(transferQueue), 1,
                    1 + Len(graphicsQueue), 1 + Len(presentQueue))
        BY <1>2 DEF SemaphoresAligned
      <3>2. At(back, slots, age) \in Slot
        BY AtIsSlot DEF Slot
      <3>3. CASE age = 0
        <4>1. At(back, slots, age) = back
          BY <3>3, BackIsYoungest
        <4>2. /\ semaphore'[<<"imageAvailable", back>>] = semaphore[<<"imageAvailable", back>>]
              /\ semaphore'[<<"transferCompleted", back>>]
                    = semaphore[<<"transferCompleted", back>>]
          BY <1>8 DEF Kinds
        <4>3. 0 + Len(graphicsQueue') = 1 + Len(graphicsQueue)
          BY <1>4
        <4>. QED
          BY <1>8, <3>1, <3>3, <4>1, <4>2, <4>3 DEF StageOf
      <3>4. CASE age # 0
        <4>1. At(back, slots, age) # back
          BY <3>4, BackIsYoungest
        <4>2. \A c \in Kinds : semaphore'[<<c, At(back, slots, age)>>]
                                 = semaphore[<<c, At(back, slots, age)>>]
          BY <1>8, <3>2, <4>1
        <4>3. 0 + Len(graphicsQueue') = 1 + Len(graphicsQueue) /\ age \in Nat
          BY <1>4
        <4>. QED
          BY <3>1, <3>4, <4>2, <4>3 DEF StageOf, Kinds
      <3>. QED
        BY <3>3, <3>4
    <2>. QED
      BY <1>1, <2>1 DEF SemaphoresAligned
  <1>15. ImagesApart(0, 1)'
    BY <1>1, <1>2 DEF ImagesApart, Slot
  <1>16. BuffersAligned(0, 0, 0, 1)'
    <2>1. ASSUME NEW age \in 0..(1 + Len(presentQueue) - 1)
          PROVE  buffer'[<<"graphics", ImageAt(presentQueue, imageIndex, 1, age)>>] =
                    IF age < 0 + Len(graphicsQueue') THEN "pending" ELSE "ready"
      BY <1>2, <1>4, <1>8, <1>9, <1>10 DEF BuffersAligned
    <2>2. ASSUME NEW k \in Slot,
                 \A age \in 0..(1 + Len(presentQueue) - 1) :
                    k # ImageAt(presentQueue, imageIndex, 1, age)
          PROVE  buffer'[<<"transfer", k>>] = "ready" /\ buffer'[<<"graphics", k>>] = "ready"
      <3>1. k # imageIndex
        BY <1>9, <2>2
      <3>2. buffer[<<"transfer", k>>] = "ready" /\ buffer[<<"graphics", k>>] = "ready"
        BY <1>2, <2>2 DEF BuffersAligned
      <3>. QED
        BY <1>8, <3>1, <3>2
    <2>3. \A age \in 0..(1 + Len(presentQueue) - 1) :
             buffer'[<<"transfer", ImageAt(presentQueue, imageIndex, 1, age)>>] =
                IF age < 0 + Len(transferQueue) THEN "pending" ELSE "ready"
      BY <1>2, <1>8, <1>9, <1>10 DEF BuffersAligned
    <2>. QED
      BY <1>1, <2>1, <2>2, <2>3 DEF BuffersAligned, Slot
  <1>17. RecordingAligned(0, 0, 0)'
    BY DEF RecordingAligned
  <1>. QED
    BY <1>8, <1>11, <1>12, <1>13, <1>14, <1>15, <1>16, <1>17 DEF Aligned

LEMMA PresentKeepsStep ==
    ASSUME TypeOK, HostAgrees, Undisturbed, misused = {}, Aligned(0, 0, 0, 1), Present
    PROVE  misused' = {} /\ Aligned(0, 0, 0, 0)'
  <1>. DEFINE L == Len(presentQueue)
              e == [slot |-> back, image |-> imageIndex]
  <1>. /\ slots \in Nat \ {0} /\ back \in 0..(slots - 1)
       /\ Len(transferQueue) \in Nat /\ Len(graphicsQueue) \in Nat
       /\ Len(presentQueue) \in Nat
    BY Basics
  <1>1. /\ phase = "presenting" /\ phase' \in {"waiting", "repairing", "terminated"}
        /\ misused' = {} /\ context # {}
        /\ UNCHANGED <<slots, back, imageIndex, transferQueue, graphicsQueue, semaphore,
                       buffer>>
    BY DEF Present, environmentVars, HostAgrees, Holding
  <1>2. QueuesOrdered(0, 0, 0, 1) /\ QueuesAligned(0, 0, 1)
        /\ SemaphoresAligned(0, 0, 0, 1) /\ ImagesApart(0, 1) /\ BuffersAligned(0, 0, 0, 1)
    BY DEF Aligned
  <1>3. /\ Len(presentQueue') = L + 1
        /\ \A j \in 1..L : presentQueue'[j] = presentQueue[j]
        /\ presentQueue'[L + 1] = e
    <2>1. Current.slot = back
      BY <1>1, CurrentContext
    <2>2. presentQueue' = Append(presentQueue, e)
      BY <2>1 DEF Present
    <2>3. e \in PresentType
      BY TypeParts DEF EnvironmentOK, PresentType
    <2>. QED
      BY <2>2, <2>3, Basics, AppendProperties
  <1>4. \A age \in 0..L : ImageAt(presentQueue', imageIndex', 0, age)
                             = ImageAt(presentQueue, imageIndex, 1, age)
    <2>. SUFFICES ASSUME NEW age \in 0..L
                  PROVE  ImageAt(presentQueue', imageIndex', 0, age)
                            = ImageAt(presentQueue, imageIndex, 1, age)
      OBVIOUS
    <2>1. ImageAt(presentQueue', imageIndex', 0, age) = presentQueue'[L + 1 - age].image
      BY <1>3 DEF ImageAt
    <2>2. CASE age = 0
      BY <1>3, <2>1, <2>2 DEF ImageAt
    <2>3. CASE age # 0
      <3>1. L + 1 - age \in 1..L /\ 1 + L - age = L + 1 - age
        BY <2>3
      <3>. QED
        BY <1>3, <2>1, <2>3, <3>1 DEF ImageAt
    <2>. QED
      BY <2>2, <2>3
  <1>5. YoungestAges(0, 0, 0, 0)'
    BY <1>1 DEF YoungestAges
  <1>6. QueuesOrdered(0, 0, 0, 0)'
    BY <1>1, <1>2, <1>3 DEF QueuesOrdered
  <1>7. QueuesAligned(0, 0, 0)'
    <2>1. ASSUME NEW N \in Nat, 0 + N <= 1 + L, NEW j \in 1..N
          PROVE  ImageAt(presentQueue', imageIndex', 0, 0 + N - j)
                   = ImageAt(presentQueue, imageIndex, 1, 0 + N - j)
      BY <2>1, <1>4
    <2>2. 0 + Len(transferQueue) <= 1 + L /\ 0 + Len(graphicsQueue) <= 1 + L
      BY <1>2 DEF QueuesOrdered
    <2>3. ASSUME NEW j \in 1..Len(presentQueue')
          PROVE  presentQueue'[j].slot = At(back, slots, 0 + Len(presentQueue') - j)
      <3>1. CASE j = L + 1
        BY <1>3, <3>1, BackIsYoungest
      <3>2. CASE j # L + 1
        <4>1. j \in 1..L /\ 0 + Len(presentQueue') - j = 1 + L - j
          BY <1>3, <3>2
        <4>. QED
          BY <1>2, <1>3, <4>1 DEF QueuesAligned
      <3>. QED
        BY <3>1, <3>2
    <2>. QED
      BY <1>1, <1>2, <2>1, <2>2, <2>3 DEF QueuesAligned
  <1>8. SemaphoresAligned(0, 0, 0, 0)'
    <2>1. 0 + Len(presentQueue') = 1 + L
      BY <1>3
    <2>. QED
      BY <1>1, <1>2, <2>1 DEF SemaphoresAligned
  <1>9. ImagesApart(0, 0)'
    <2>1. 0 + Len(presentQueue') - 1 = L /\ 1 + L - 1 = L
      BY <1>3
    <2>. QED
      BY <1>1, <1>2, <1>4, <2>1 DEF ImagesApart, Slot
  <1>10. BuffersAligned(0, 0, 0, 0)'
    <2>1. 0 + Len(presentQueue') - 1 = L /\ 1 + L - 1 = L
      BY <1>3
    <2>. QED
      BY <1>1, <1>2, <1>4, <2>1 DEF BuffersAligned, Slot
  <1>11. RecordingAligned(0, 0, 0)'
    BY DEF RecordingAligned
  <1>. QED
    BY <1>1, <1>5, <1>6, <1>7, <1>8, <1>9, <1>10, <1>11 DEF Aligned

-----------------------------------------------------------------------------
(***************************************************************************)
(* The device.                                                             *)
(***************************************************************************)

\* What the offsets say of the ends of the queues.
LEMMA Ends ==
    ASSUME TypeOK, Undisturbed, NEW a \in 0..1, NEW t \in 0..1, NEW g \in 0..1,
           NEW p \in 0..1, Aligned(a, t, g, p)
    PROVE  /\ a <= t /\ t <= g /\ g <= p
           /\ t + Len(transferQueue) <= g + Len(graphicsQueue)
           /\ g + Len(graphicsQueue) <= p + Len(presentQueue)
           /\ p + Len(presentQueue) <= a + slots
           /\ \A age \in a..(a + slots - 1) : At(back, slots, age) \in Slot
           /\ \A x, y \in a..(a + slots - 1) :
                 At(back, slots, x) = At(back, slots, y) => x = y
  <1>1. slots \in Nat \ {0} /\ back \in 0..(slots - 1)
    BY Basics
  <1>2. \A age \in a..(a + slots - 1) : At(back, slots, age) \in Slot
    BY <1>1 DEF At, Slot
  <1>3. \A x, y \in a..(a + slots - 1) :
           At(back, slots, x) = At(back, slots, y) => x = y
    BY <1>1, AtDiffers
  <1>. QED
    BY <1>2, <1>3 DEF Aligned, YoungestAges, QueuesOrdered

LEMMA SignalKeepsStep ==
    ASSUME TypeOK, Undisturbed, NEW a \in 0..1, NEW t \in 0..1, NEW g \in 0..1,
           NEW p \in 0..1, Aligned(a, t, g, p), NEW k \in Slot, SignalImageAvailable(k)
    PROVE  misused' = misused /\ Aligned(a, t, g, p)'
  <1>1. semaphore \in [Kinds \X Slot -> {"unsignaled", "pending", "signaled"}]
    BY Basics
  <1>2. /\ semaphore[<<"imageAvailable", k>>] = "pending"
        /\ semaphore' = [semaphore EXCEPT ![<<"imageAvailable", k>>] = "signaled"]
        /\ UNCHANGED <<slots, back, imageIndex, phase, buffer, transferQueue, graphicsQueue,
                       presentQueue, misused>>
    BY DEF SignalImageAvailable, environmentVars, queueVars
  <1>3. ASSUME NEW slot \in Slot
        PROVE  /\ semaphore'[<<"imageAvailable", slot>>] = "unsignaled"
                     <=> semaphore[<<"imageAvailable", slot>>] = "unsignaled"
               /\ semaphore'[<<"transferCompleted", slot>>]
                     = semaphore[<<"transferCompleted", slot>>]
               /\ semaphore'[<<"renderCompleted", slot>>]
                     = semaphore[<<"renderCompleted", slot>>]
    BY <1>1, <1>2 DEF Kinds
  <1>4. SemaphoresAligned(a, t, g, p)'
    <2>1. ASSUME NEW age \in a..(a + slots - 1)
          PROVE  StageOf(semaphore', At(back, slots, age), age, t, t + Len(transferQueue),
                         g, g + Len(graphicsQueue), p + Len(presentQueue))
      <3>1. StageOf(semaphore, At(back, slots, age), age, t, t + Len(transferQueue),
                    g, g + Len(graphicsQueue), p + Len(presentQueue))
        BY DEF Aligned, SemaphoresAligned
      <3>2. At(back, slots, age) \in Slot
        BY Ends
      <3>. QED
        BY <1>3, <3>1, <3>2 DEF StageOf
    <2>. QED
      BY <1>2, <2>1 DEF SemaphoresAligned
  <1>5. YoungestAges(a, t, g, p)' /\ QueuesOrdered(a, t, g, p)' /\ ImagesApart(a, p)'
    BY <1>2 DEF Aligned, YoungestAges, QueuesOrdered, ImagesApart, Slot
  <1>6. QueuesAligned(t, g, p)'
    BY <1>2 DEF Aligned, QueuesAligned
  <1>7. BuffersAligned(a, t, g, p)' /\ RecordingAligned(a, t, g)'
    BY <1>2 DEF Aligned, BuffersAligned, RecordingAligned, Recorded, Slot
  <1>. QED
    BY <1>2, <1>4, <1>5, <1>6, <1>7 DEF Aligned

\* What the execution of a batch does to semaphores and buffers.
LEMMA ExecutedEffect ==
    ASSUME TypeOK, Undisturbed, misused = {}, NEW kind \in {"transfer", "graphics"},
           NEW batch, Executed(batch, kind),
           batch.slot \in Slot, batch.buffer \in Slot, batch.wait \in Kinds,
           batch.signal \in Kinds, batch.wait # batch.signal,
           buffer[<<kind, batch.buffer>>] = "pending"
    PROVE  /\ misused' = {}
           /\ buffer'[<<kind, batch.buffer>>] = "ready"
           /\ semaphore[<<batch.wait, batch.slot>>] = "signaled"
           /\ semaphore'[<<batch.wait, batch.slot>>] = "unsignaled"
           /\ semaphore'[<<batch.signal, batch.slot>>] = "signaled"
           /\ \A c \in {"transfer", "graphics"}, k \in Slot :
                 <<c, k>> # <<kind, batch.buffer>> => buffer'[<<c, k>>] = buffer[<<c, k>>]
           /\ \A c \in Kinds, k \in Slot :
                 <<c, k>> \notin {<<batch.wait, batch.slot>>, <<batch.signal, batch.slot>>} =>
                    semaphore'[<<c, k>>] = semaphore[<<c, k>>]
  <1>1. /\ semaphore \in [Kinds \X Slot -> {"unsignaled", "pending", "signaled"}]
        /\ buffer \in [{"transfer", "graphics"} \X Slot ->
                          {"ready", "recording", "executable", "pending"}]
    BY Basics
  <1>2. /\ semaphore[<<batch.wait, batch.slot>>] = "signaled"
        /\ semaphore' = [semaphore EXCEPT ![<<batch.wait, batch.slot>>] = "unsignaled",
                                          ![<<batch.signal, batch.slot>>] = "signaled"]
    BY DEF Executed
  <1>3. /\ buffer' = [b \in DOMAIN buffer |->
                         IF b \in {<<kind, batch.buffer>>} THEN "ready" ELSE buffer[b]]
        /\ misused' = {}
    BY DEF Executed, Move
  <1>4. /\ semaphore'[<<batch.wait, batch.slot>>] = "unsignaled"
        /\ semaphore'[<<batch.signal, batch.slot>>] = "signaled"
        /\ \A c \in Kinds, k \in Slot :
              <<c, k>> \notin {<<batch.wait, batch.slot>>, <<batch.signal, batch.slot>>} =>
                 semaphore'[<<c, k>>] = semaphore[<<c, k>>]
    BY <1>1, <1>2
  <1>5. /\ buffer'[<<kind, batch.buffer>>] = "ready"
        /\ \A c \in {"transfer", "graphics"}, k \in Slot :
              <<c, k>> # <<kind, batch.buffer>> => buffer'[<<c, k>>] = buffer[<<c, k>>]
    BY <1>1, <1>3
  <1>. QED
    BY <1>2, <1>3, <1>4, <1>5

\* The oldest frame of the transfer queue goes on to the graphics queue's range.
LEMMA ExecuteTransferKeepsStep ==
    ASSUME TypeOK, HostAgrees, Undisturbed, misused = {}, NEW a \in 0..1, NEW t \in 0..1,
           NEW g \in 0..1, NEW p \in 0..1, Aligned(a, t, g, p), ExecuteTransfer
    PROVE  misused' = {} /\ Aligned(a, t, g, p)'
  <1>. DEFINE oT == t + Len(transferQueue)
              oG == g + Len(graphicsQueue)
              oP == p + Len(presentQueue)
              slot0 == At(back, slots, oT - 1)
              image0 == ImageAt(presentQueue, imageIndex, p, oT - 1)
  <1>. /\ slots \in Nat \ {0} /\ back \in 0..(slots - 1)
       /\ Len(transferQueue) \in Nat /\ Len(graphicsQueue) \in Nat
       /\ Len(presentQueue) \in Nat
    BY Basics
  <1>1. /\ UNCHANGED <<slots, back, imageIndex, phase, graphicsQueue, presentQueue>>
        /\ Executed(Head(transferQueue), "transfer")
    BY DEF ExecuteTransfer, environmentVars
  <1>2. YoungestAges(a, t, g, p) /\ QueuesOrdered(a, t, g, p) /\ QueuesAligned(t, g, p)
        /\ SemaphoresAligned(a, t, g, p) /\ ImagesApart(a, p) /\ BuffersAligned(a, t, g, p)
        /\ RecordingAligned(a, t, g)
    BY DEF Aligned
  <1>3. /\ a <= t /\ t <= g /\ g <= p /\ oT <= oG /\ oG <= oP /\ oP <= a + slots
        /\ \A age \in a..(a + slots - 1) : At(back, slots, age) \in Slot
        /\ \A x, y \in a..(a + slots - 1) : At(back, slots, x) = At(back, slots, y) => x = y
    BY Ends
  <1>4. /\ Len(transferQueue) >= 1 /\ Len(transferQueue') = Len(transferQueue) - 1
        /\ \A j \in 1..Len(transferQueue') : transferQueue'[j] = transferQueue[j + 1]
        /\ Head(transferQueue) = transferQueue[1]
    <2>1. transferQueue # <<>> /\ transferQueue' = Tail(transferQueue)
      BY DEF ExecuteTransfer
    <2>. QED
      BY <2>1, Basics, HeadTailProperties
  <1>5. /\ oT - 1 \in t..(oP - 1) /\ oT - 1 \in a..(oP - 1) /\ oT - 1 \in a..(a + slots - 1)
        /\ t + Len(transferQueue') = oT - 1
    BY <1>3, <1>4
  <1>6. Head(transferQueue) = [slot |-> slot0, wait |-> "imageAvailable",
                               signal |-> "transferCompleted", buffer |-> image0]
    <2>1. 1 \in 1..Len(transferQueue)
      BY <1>4
    <2>2. transferQueue[1] =
             [slot |-> At(back, slots, t + Len(transferQueue) - 1),
              wait |-> "imageAvailable", signal |-> "transferCompleted",
              buffer |-> ImageAt(presentQueue, imageIndex, p, t + Len(transferQueue) - 1)]
      BY <1>2, <2>1 DEF QueuesAligned
    <2>. QED
      BY <1>4, <2>2
  <1>7. slot0 \in Slot /\ image0 \in Slot
    BY <1>2, <1>3, <1>5 DEF ImagesApart
  <1>8. buffer[<<"transfer", image0>>] = "pending"
    BY <1>2, <1>5 DEF BuffersAligned
  <1>9. /\ misused' = {}
        /\ buffer'[<<"transfer", image0>>] = "ready"
        /\ semaphore'[<<"imageAvailable", slot0>>] = "unsignaled"
        /\ semaphore'[<<"transferCompleted", slot0>>] = "signaled"
        /\ \A k \in Slot : k # image0 =>
              buffer'[<<"transfer", k>>] = buffer[<<"transfer", k>>]
        /\ \A k \in Slot : buffer'[<<"graphics", k>>] = buffer[<<"graphics", k>>]
        /\ \A k \in Slot : k # slot0 =>
              \A c \in Kinds : semaphore'[<<c, k>>] = semaphore[<<c, k>>]
        /\ semaphore'[<<"renderCompleted", slot0>>] = semaphore[<<"renderCompleted", slot0>>]
    <2>1. {"imageAvailable", "transferCompleted", "renderCompleted"} = Kinds
      BY DEF Kinds
    <2>. HIDE DEF slot0, image0
    <2>2. PICK b : b = Head(transferQueue)
      OBVIOUS
    <2>3. /\ b.slot = slot0 /\ b.buffer = image0
          /\ b.wait = "imageAvailable" /\ b.signal = "transferCompleted"
      BY <1>6, <2>2
    <2>4. Executed(b, "transfer")
      BY <1>1, <2>2
    <2>5. /\ b.slot \in Slot /\ b.buffer \in Slot /\ b.wait \in Kinds
          /\ b.signal \in Kinds /\ b.wait # b.signal
          /\ buffer[<<"transfer", b.buffer>>] = "pending"
      BY <1>7, <1>8, <2>1, <2>3
    <2>6. /\ misused' = {}
          /\ buffer'[<<"transfer", b.buffer>>] = "ready"
          /\ semaphore'[<<b.wait, b.slot>>] = "unsignaled"
          /\ semaphore'[<<b.signal, b.slot>>] = "signaled"
          /\ \A c \in {"transfer", "graphics"}, k \in Slot :
                <<c, k>> # <<"transfer", b.buffer>> => buffer'[<<c, k>>] = buffer[<<c, k>>]
          /\ \A c \in Kinds, k \in Slot :
                <<c, k>> \notin {<<b.wait, b.slot>>, <<b.signal, b.slot>>} =>
                   semaphore'[<<c, k>>] = semaphore[<<c, k>>]
      BY <2>4, <2>5, ExecutedEffect
    <2>. QED
      BY <1>7, <2>1, <2>3, <2>6
  <1>10. YoungestAges(a, t, g, p)'
    BY <1>1, <1>2 DEF YoungestAges
  <1>11. QueuesOrdered(a, t, g, p)'
    BY <1>1, <1>2, <1>4 DEF QueuesOrdered
  <1>12. QueuesAligned(t, g, p)'
    <2>1. ASSUME NEW j \in 1..Len(transferQueue')
          PROVE  transferQueue'[j] =
                   [slot |-> At(back, slots, t + Len(transferQueue') - j),
                    wait |-> "imageAvailable", signal |-> "transferCompleted",
                    buffer |-> ImageAt(presentQueue, imageIndex, p,
                                       t + Len(transferQueue') - j)]
      <3>1. /\ j + 1 \in 1..Len(transferQueue)
            /\ t + Len(transferQueue') - j = t + Len(transferQueue) - (j + 1)
        BY <1>4
      <3>. QED
        BY <1>2, <1>4, <3>1 DEF QueuesAligned
    <2>. QED
      BY <1>1, <1>2, <2>1 DEF QueuesAligned
  <1>13. SemaphoresAligned(a, t, g, p)'
    <2>1. ASSUME NEW age \in a..(a + slots - 1)
          PROVE  StageOf(semaphore', At(back, slots, age), age, t, t + Len(transferQueue'),
                         g, oG, oP)
      <3>1. StageOf(semaphore, At(back, slots, age), age, t, oT, g, oG, oP)
        BY <1>2 DEF SemaphoresAligned
      <3>2. At(back, slots, age) \in Slot
        BY <1>3
      <3>3. CASE age = oT - 1
        <4>1. /\ t + Len(transferQueue') = age /\ age < oT /\ t <= age
              /\ age < oG /\ age < oP /\ age \in Int
          BY <1>3, <1>5, <3>3
        <4>2. At(back, slots, age) = slot0
          BY <3>3
        <4>. HIDE DEF slot0, oT, oG, oP
        <4>3. semaphore[<<"renderCompleted", slot0>>] =
                 IF age < g \/ age >= oP THEN "unsignaled"
                 ELSE IF age < oG THEN "pending" ELSE "signaled"
          BY <3>1, <4>2 DEF StageOf
        <4>4. /\ semaphore'[<<"imageAvailable", slot0>>] = "unsignaled"
              /\ semaphore'[<<"transferCompleted", slot0>>] = "signaled"
              /\ semaphore'[<<"renderCompleted", slot0>>] = semaphore[<<"renderCompleted", slot0>>]
          BY <1>9
        <4>5. age >= age /\ ~ age < t /\ ~ age >= oG /\ ~ age < age
          BY <4>1 DEF oG
        <4>. QED
          BY <4>1, <4>2, <4>3, <4>4, <4>5 DEF StageOf
      <3>4. CASE age # oT - 1
        <4>1. At(back, slots, age) # slot0
          BY <1>3, <1>5, <3>4
        <4>2. \A c \in Kinds : semaphore'[<<c, At(back, slots, age)>>]
                                  = semaphore[<<c, At(back, slots, age)>>]
          BY <1>9, <3>2, <4>1
        <4>3. /\ age \in Int /\ t \in Int /\ g \in Int
              /\ oT \in Int /\ oG \in Int /\ oP \in Int /\ t + Len(transferQueue') \in Int
              /\ age >= t + Len(transferQueue') <=> age >= oT
          BY <1>1, <1>3, <1>5, <3>4
        <4>. HIDE DEF oT, oG, oP
        <4>. QED
          BY <3>1, <4>2, <4>3, StageKept
      <3>. QED
        BY <3>3, <3>4
    <2>. QED
      BY <1>1, <2>1 DEF SemaphoresAligned
  <1>14. ImagesApart(a, p)'
    BY <1>1, <1>2 DEF ImagesApart, Slot
  <1>15. BuffersAligned(a, t, g, p)'
    <2>1. ASSUME NEW age \in t..(oP - 1)
          PROVE  buffer'[<<"transfer", ImageAt(presentQueue, imageIndex, p, age)>>] =
                    IF age < t + Len(transferQueue') THEN "pending" ELSE "ready"
      <3>1. age \in a..(oP - 1) /\ ImageAt(presentQueue, imageIndex, p, age) \in Slot
        BY <1>2, <1>3 DEF ImagesApart
      <3>2. CASE age = oT - 1
        BY <1>5, <1>9, <3>2
      <3>3. CASE age # oT - 1
        <4>1. ImageAt(presentQueue, imageIndex, p, age) # image0
          BY <1>2, <1>5, <3>1, <3>3 DEF ImagesApart
        <4>2. buffer[<<"transfer", ImageAt(presentQueue, imageIndex, p, age)>>] =
                 IF age < oT THEN "pending" ELSE "ready"
          BY <1>2 DEF BuffersAligned
        <4>. QED
          BY <1>5, <1>9, <3>1, <3>3, <4>1, <4>2
      <3>. QED
        BY <3>2, <3>3
    <2>2. \A age \in g..(oP - 1) :
             buffer'[<<"graphics", ImageAt(presentQueue, imageIndex, p, age)>>] =
                IF age < oG THEN "pending" ELSE "ready"
      <3>1. \A age \in g..(oP - 1) : ImageAt(presentQueue, imageIndex, p, age) \in Slot
        BY <1>2, <1>3 DEF ImagesApart
      <3>2. \A age \in g..(oP - 1) :
               buffer[<<"graphics", ImageAt(presentQueue, imageIndex, p, age)>>] =
                  IF age < oG THEN "pending" ELSE "ready"
        BY <1>2 DEF BuffersAligned
      <3>. QED
        BY <1>9, <3>1, <3>2
    <2>3. ASSUME NEW k \in Slot,
                 \A age \in a..(oP - 1) : k # ImageAt(presentQueue, imageIndex, p, age)
          PROVE  buffer'[<<"transfer", k>>] = "ready" /\ buffer'[<<"graphics", k>>] = "ready"
      <3>1. k # image0
        BY <1>5, <2>3
      <3>2. buffer[<<"transfer", k>>] = "ready" /\ buffer[<<"graphics", k>>] = "ready"
        BY <1>2, <2>3 DEF BuffersAligned
      <3>. QED
        BY <1>9, <3>1, <3>2
    <2>. QED
      BY <1>1, <2>1, <2>2, <2>3 DEF BuffersAligned, Slot
  <1>16. RecordingAligned(a, t, g)'
    <2>1. ASSUME a < g
          PROVE  /\ imageIndex \in Slot
                 /\ a < t => imageIndex # image0
      <3>1. a = 0 /\ p = 1 /\ ImageAt(presentQueue, imageIndex, p, 0) = imageIndex
        BY <1>3, <2>1 DEF ImageAt
      <3>2. 0 \in a..(oP - 1)
        BY <3>1
      <3>3. imageIndex \in Slot
        BY <1>2, <3>1, <3>2 DEF ImagesApart
      <3>4. ASSUME a < t PROVE imageIndex # image0
        <4>1. oT - 1 # 0
          BY <1>4, <3>1, <3>4
        <4>. QED
          BY <1>2, <1>5, <3>1, <3>2, <4>1 DEF ImagesApart
      <3>. QED
        BY <3>3, <3>4
    <2>2. a < t => a < g
      BY <1>3
    <2>. QED
      BY <1>1, <1>2, <1>9, <2>1, <2>2 DEF RecordingAligned, Recorded
  <1>. QED
    BY <1>9, <1>10, <1>11, <1>12, <1>13, <1>14, <1>15, <1>16 DEF Aligned

\* The oldest frame of the graphics queue has left the transfer queue, and goes on to
\* the presentation engine.
LEMMA ExecuteGraphicsKeepsStep ==
    ASSUME TypeOK, HostAgrees, Undisturbed, misused = {}, NEW a \in 0..1, NEW t \in 0..1,
           NEW g \in 0..1, NEW p \in 0..1, Aligned(a, t, g, p), ExecuteGraphics
    PROVE  misused' = {} /\ Aligned(a, t, g, p)'
  <1>. DEFINE oT == t + Len(transferQueue)
              oG == g + Len(graphicsQueue)
              oP == p + Len(presentQueue)
              slot0 == At(back, slots, oG - 1)
              image0 == ImageAt(presentQueue, imageIndex, p, oG - 1)
  <1>. /\ slots \in Nat \ {0} /\ back \in 0..(slots - 1)
       /\ Len(transferQueue) \in Nat /\ Len(graphicsQueue) \in Nat
       /\ Len(presentQueue) \in Nat
    BY Basics
  <1>1. /\ UNCHANGED <<slots, back, imageIndex, phase, transferQueue, presentQueue>>
        /\ Executed(Head(graphicsQueue), "graphics")
    BY DEF ExecuteGraphics, environmentVars
  <1>2. YoungestAges(a, t, g, p) /\ QueuesOrdered(a, t, g, p) /\ QueuesAligned(t, g, p)
        /\ SemaphoresAligned(a, t, g, p) /\ ImagesApart(a, p) /\ BuffersAligned(a, t, g, p)
        /\ RecordingAligned(a, t, g)
    BY DEF Aligned
  <1>3. /\ a <= t /\ t <= g /\ g <= p /\ oT <= oG /\ oG <= oP /\ oP <= a + slots
        /\ \A age \in a..(a + slots - 1) : At(back, slots, age) \in Slot
        /\ \A x, y \in a..(a + slots - 1) : At(back, slots, x) = At(back, slots, y) => x = y
    BY Ends
  <1>4. /\ Len(graphicsQueue) >= 1 /\ Len(graphicsQueue') = Len(graphicsQueue) - 1
        /\ \A j \in 1..Len(graphicsQueue') : graphicsQueue'[j] = graphicsQueue[j + 1]
        /\ Head(graphicsQueue) = graphicsQueue[1]
    <2>1. graphicsQueue # <<>> /\ graphicsQueue' = Tail(graphicsQueue)
      BY DEF ExecuteGraphics
    <2>. QED
      BY <2>1, Basics, HeadTailProperties
  <1>5. /\ oG - 1 \in g..(oP - 1) /\ oG - 1 \in a..(oP - 1) /\ oG - 1 \in a..(a + slots - 1)
        /\ g + Len(graphicsQueue') = oG - 1
    BY <1>3, <1>4
  <1>6. Head(graphicsQueue) = [slot |-> slot0, wait |-> "transferCompleted",
                               signal |-> "renderCompleted", buffer |-> image0]
    <2>1. 1 \in 1..Len(graphicsQueue)
      BY <1>4
    <2>2. graphicsQueue[1] =
             [slot |-> At(back, slots, g + Len(graphicsQueue) - 1),
              wait |-> "transferCompleted", signal |-> "renderCompleted",
              buffer |-> ImageAt(presentQueue, imageIndex, p, g + Len(graphicsQueue) - 1)]
      BY <1>2, <2>1 DEF QueuesAligned
    <2>. QED
      BY <1>4, <2>2
  <1>7. slot0 \in Slot /\ image0 \in Slot
    BY <1>2, <1>3, <1>5 DEF ImagesApart
  <1>8. buffer[<<"graphics", image0>>] = "pending"
    BY <1>2, <1>5 DEF BuffersAligned
  <1>9. /\ misused' = {}
        /\ buffer'[<<"graphics", image0>>] = "ready"
        /\ semaphore[<<"transferCompleted", slot0>>] = "signaled"
        /\ semaphore'[<<"transferCompleted", slot0>>] = "unsignaled"
        /\ semaphore'[<<"renderCompleted", slot0>>] = "signaled"
        /\ \A k \in Slot : k # image0 =>
              buffer'[<<"graphics", k>>] = buffer[<<"graphics", k>>]
        /\ \A k \in Slot : buffer'[<<"transfer", k>>] = buffer[<<"transfer", k>>]
        /\ \A k \in Slot : k # slot0 =>
              \A c \in Kinds : semaphore'[<<c, k>>] = semaphore[<<c, k>>]
        /\ semaphore'[<<"imageAvailable", slot0>>] = semaphore[<<"imageAvailable", slot0>>]
    <2>1. {"imageAvailable", "transferCompleted", "renderCompleted"} = Kinds
      BY DEF Kinds
    <2>. HIDE DEF slot0, image0
    <2>2. PICK b : b = Head(graphicsQueue)
      OBVIOUS
    <2>3. /\ b.slot = slot0 /\ b.buffer = image0
          /\ b.wait = "transferCompleted" /\ b.signal = "renderCompleted"
      BY <1>6, <2>2
    <2>4. Executed(b, "graphics")
      BY <1>1, <2>2
    <2>5. /\ b.slot \in Slot /\ b.buffer \in Slot /\ b.wait \in Kinds
          /\ b.signal \in Kinds /\ b.wait # b.signal
          /\ buffer[<<"graphics", b.buffer>>] = "pending"
      BY <1>7, <1>8, <2>1, <2>3
    <2>6. /\ misused' = {}
          /\ buffer'[<<"graphics", b.buffer>>] = "ready"
          /\ semaphore[<<b.wait, b.slot>>] = "signaled"
          /\ semaphore'[<<b.wait, b.slot>>] = "unsignaled"
          /\ semaphore'[<<b.signal, b.slot>>] = "signaled"
          /\ \A c \in {"transfer", "graphics"}, k \in Slot :
                <<c, k>> # <<"graphics", b.buffer>> => buffer'[<<c, k>>] = buffer[<<c, k>>]
          /\ \A c \in Kinds, k \in Slot :
                <<c, k>> \notin {<<b.wait, b.slot>>, <<b.signal, b.slot>>} =>
                   semaphore'[<<c, k>>] = semaphore[<<c, k>>]
      BY <2>4, <2>5, ExecutedEffect
    <2>. QED
      BY <1>7, <2>1, <2>3, <2>6
  <1>10. oT <= oG - 1
    <2>1. StageOf(semaphore, slot0, oG - 1, t, oT, g, oG, oP)
      BY <1>2, <1>5 DEF SemaphoresAligned
    <2>. QED
      BY <1>9, <2>1 DEF StageOf
  <1>11. YoungestAges(a, t, g, p)'
    BY <1>1, <1>2 DEF YoungestAges
  <1>12. QueuesOrdered(a, t, g, p)'
    BY <1>1, <1>2, <1>4, <1>10 DEF QueuesOrdered
  <1>13. QueuesAligned(t, g, p)'
    <2>1. ASSUME NEW j \in 1..Len(graphicsQueue')
          PROVE  graphicsQueue'[j] =
                   [slot |-> At(back, slots, g + Len(graphicsQueue') - j),
                    wait |-> "transferCompleted", signal |-> "renderCompleted",
                    buffer |-> ImageAt(presentQueue, imageIndex, p,
                                       g + Len(graphicsQueue') - j)]
      <3>1. /\ j + 1 \in 1..Len(graphicsQueue)
            /\ g + Len(graphicsQueue') - j = g + Len(graphicsQueue) - (j + 1)
        BY <1>4
      <3>. QED
        BY <1>2, <1>4, <3>1 DEF QueuesAligned
    <2>. QED
      BY <1>1, <1>2, <2>1 DEF QueuesAligned
  <1>14. SemaphoresAligned(a, t, g, p)'
    <2>1. ASSUME NEW age \in a..(a + slots - 1)
          PROVE  StageOf(semaphore', At(back, slots, age), age, t, oT,
                         g, g + Len(graphicsQueue'), oP)
      <3>1. StageOf(semaphore, At(back, slots, age), age, t, oT, g, oG, oP)
        BY <1>2 DEF SemaphoresAligned
      <3>2. At(back, slots, age) \in Slot
        BY <1>3
      <3>3. CASE age = oG - 1
        BY <1>3, <1>4, <1>5, <1>9, <1>10, <3>1, <3>3 DEF StageOf
      <3>4. CASE age # oG - 1
        <4>1. At(back, slots, age) # slot0
          BY <1>3, <1>5, <3>4
        <4>2. \A c \in Kinds : semaphore'[<<c, At(back, slots, age)>>]
                                  = semaphore[<<c, At(back, slots, age)>>]
          BY <1>9, <3>2, <4>1
        <4>3. /\ age \in Int /\ t \in Int /\ g \in Int
              /\ oT \in Int /\ oG \in Int /\ oP \in Int /\ g + Len(graphicsQueue') \in Int
              /\ age >= g + Len(graphicsQueue') <=> age >= oG
          BY <1>1, <1>3, <1>5, <3>4
        <4>. HIDE DEF oT, oG, oP
        <4>. QED
          BY <3>1, <4>2, <4>3, StageKept
      <3>. QED
        BY <3>3, <3>4
    <2>. QED
      BY <1>1, <2>1 DEF SemaphoresAligned
  <1>15. ImagesApart(a, p)'
    BY <1>1, <1>2 DEF ImagesApart, Slot
  <1>16. BuffersAligned(a, t, g, p)'
    <2>1. ASSUME NEW age \in g..(oP - 1)
          PROVE  buffer'[<<"graphics", ImageAt(presentQueue, imageIndex, p, age)>>] =
                    IF age < g + Len(graphicsQueue') THEN "pending" ELSE "ready"
      <3>1. age \in a..(oP - 1) /\ ImageAt(presentQueue, imageIndex, p, age) \in Slot
        BY <1>2, <1>3 DEF ImagesApart
      <3>2. CASE age = oG - 1
        BY <1>5, <1>9, <3>2
      <3>3. CASE age # oG - 1
        <4>1. ImageAt(presentQueue, imageIndex, p, age) # image0
          BY <1>2, <1>5, <3>1, <3>3 DEF ImagesApart
        <4>2. buffer[<<"graphics", ImageAt(presentQueue, imageIndex, p, age)>>] =
                 IF age < oG THEN "pending" ELSE "ready"
          BY <1>2 DEF BuffersAligned
        <4>. QED
          BY <1>5, <1>9, <3>1, <3>3, <4>1, <4>2
      <3>. QED
        BY <3>2, <3>3
    <2>2. \A age \in t..(oP - 1) :
             buffer'[<<"transfer", ImageAt(presentQueue, imageIndex, p, age)>>] =
                IF age < oT THEN "pending" ELSE "ready"
      <3>1. \A age \in t..(oP - 1) : ImageAt(presentQueue, imageIndex, p, age) \in Slot
        BY <1>2, <1>3 DEF ImagesApart
      <3>2. \A age \in t..(oP - 1) :
               buffer[<<"transfer", ImageAt(presentQueue, imageIndex, p, age)>>] =
                  IF age < oT THEN "pending" ELSE "ready"
        BY <1>2 DEF BuffersAligned
      <3>. QED
        BY <1>9, <3>1, <3>2
    <2>3. ASSUME NEW k \in Slot,
                 \A age \in a..(oP - 1) : k # ImageAt(presentQueue, imageIndex, p, age)
          PROVE  buffer'[<<"transfer", k>>] = "ready" /\ buffer'[<<"graphics", k>>] = "ready"
      <3>1. k # image0
        BY <1>5, <2>3
      <3>2. buffer[<<"transfer", k>>] = "ready" /\ buffer[<<"graphics", k>>] = "ready"
        BY <1>2, <2>3 DEF BuffersAligned
      <3>. QED
        BY <1>9, <3>1, <3>2
    <2>. QED
      BY <1>1, <2>1, <2>2, <2>3 DEF BuffersAligned, Slot
  <1>17. RecordingAligned(a, t, g)'
    <2>1. ASSUME a < g
          PROVE  imageIndex \in Slot /\ imageIndex # image0
      <3>1. a = 0 /\ p = 1 /\ ImageAt(presentQueue, imageIndex, p, 0) = imageIndex
        BY <1>3, <2>1 DEF ImageAt
      <3>2. 0 \in a..(oP - 1) /\ oG - 1 # 0
        BY <1>4, <2>1, <3>1
      <3>. QED
        BY <1>2, <1>5, <3>1, <3>2 DEF ImagesApart
    <2>2. a < t => a < g
      BY <1>3
    <2>. QED
      BY <1>1, <1>2, <1>9, <2>1, <2>2 DEF RecordingAligned, Recorded
  <1>. QED
    BY <1>9, <1>11, <1>12, <1>13, <1>14, <1>15, <1>16, <1>17 DEF Aligned

\* The oldest frame has left all queues: its slot and its image are free again.
LEMMA ExecutePresentKeepsStep ==
    ASSUME TypeOK, HostAgrees, Undisturbed, misused = {}, NEW a \in 0..1, NEW t \in 0..1,
           NEW g \in 0..1, NEW p \in 0..1, Aligned(a, t, g, p), ExecutePresent
    PROVE  misused' = {} /\ Aligned(a, t, g, p)'
  <1>. DEFINE oT == t + Len(transferQueue)
              oG == g + Len(graphicsQueue)
              oP == p + Len(presentQueue)
              slot0 == At(back, slots, oP - 1)
              image0 == ImageAt(presentQueue, imageIndex, p, oP - 1)
  <1>. /\ slots \in Nat \ {0} /\ back \in 0..(slots - 1)
       /\ Len(transferQueue) \in Nat /\ Len(graphicsQueue) \in Nat
       /\ Len(presentQueue) \in Nat
    BY Basics
  <1>1. UNCHANGED <<slots, back, imageIndex, phase, transferQueue, graphicsQueue, buffer,
                    misused>>
    BY DEF ExecutePresent, environmentVars
  <1>2. YoungestAges(a, t, g, p) /\ QueuesOrdered(a, t, g, p) /\ QueuesAligned(t, g, p)
        /\ SemaphoresAligned(a, t, g, p) /\ ImagesApart(a, p) /\ BuffersAligned(a, t, g, p)
        /\ RecordingAligned(a, t, g)
    BY DEF Aligned
  <1>3. /\ a <= t /\ t <= g /\ g <= p /\ oT <= oG /\ oG <= oP /\ oP <= a + slots
        /\ \A age \in a..(a + slots - 1) : At(back, slots, age) \in Slot
        /\ \A x, y \in a..(a + slots - 1) : At(back, slots, x) = At(back, slots, y) => x = y
    BY Ends
  <1>4. /\ Len(presentQueue) >= 1 /\ Len(presentQueue') = Len(presentQueue) - 1
        /\ \A j \in 1..Len(presentQueue') : presentQueue'[j] = presentQueue[j + 1]
        /\ Head(presentQueue) = presentQueue[1]
    <2>1. presentQueue # <<>> /\ presentQueue' = Tail(presentQueue)
      BY DEF ExecutePresent
    <2>. QED
      BY <2>1, Basics, HeadTailProperties
  <1>5. /\ oP - 1 \in a..(oP - 1) /\ oP - 1 \in a..(a + slots - 1)
        /\ p + Len(presentQueue') = oP - 1
    BY <1>3, <1>4
  <1>6. Head(presentQueue).slot = slot0 /\ slot0 \in Slot
    <2>1. 1 \in 1..Len(presentQueue)
      BY <1>4
    <2>2. presentQueue[1].slot = At(back, slots, p + Len(presentQueue) - 1)
      BY <1>2, <2>1 DEF QueuesAligned
    <2>. QED
      BY <1>3, <1>4, <1>5, <2>2
  <1>7. /\ semaphore[<<"renderCompleted", slot0>>] = "signaled"
        /\ semaphore' = [semaphore EXCEPT ![<<"renderCompleted", slot0>>] = "unsignaled"]
    <2>. HIDE DEF slot0
    <2>. QED
      BY <1>6 DEF ExecutePresent
  <1>8. /\ semaphore'[<<"renderCompleted", slot0>>] = "unsignaled"
        /\ \A c \in Kinds, k \in Slot : <<c, k>> # <<"renderCompleted", slot0>> =>
              semaphore'[<<c, k>>] = semaphore[<<c, k>>]
    <2>1. semaphore \in [Kinds \X Slot -> {"unsignaled", "pending", "signaled"}]
      BY Basics
    <2>2. <<"renderCompleted", slot0>> \in Kinds \X Slot
      BY <1>6 DEF Kinds
    <2>. HIDE DEF slot0
    <2>. QED
      BY <1>7, <2>1, <2>2
  <1>9. oG <= oP - 1
    <2>1. StageOf(semaphore, slot0, oP - 1, t, oT, g, oG, oP)
      BY <1>2, <1>5 DEF SemaphoresAligned
    <2>. QED
      BY <1>7, <2>1 DEF StageOf
  <1>10. \A age \in a..(oP - 2) : ImageAt(presentQueue', imageIndex', p, age)
                                     = ImageAt(presentQueue, imageIndex, p, age)
    <2>. SUFFICES ASSUME NEW age \in a..(oP - 2)
                  PROVE  ImageAt(presentQueue', imageIndex', p, age)
                            = ImageAt(presentQueue, imageIndex, p, age)
      OBVIOUS
    <2>1. CASE age < p
      BY <1>1, <2>1 DEF ImageAt
    <2>2. CASE ~(age < p)
      <3>1. /\ oP - 1 - age \in 1..Len(presentQueue')
            /\ p + Len(presentQueue') - age = oP - 1 - age
            /\ (oP - 1 - age) + 1 = oP - age
        BY <1>4, <2>2
      <3>. QED
        BY <1>4, <2>2, <3>1 DEF ImageAt
    <2>. QED
      BY <2>1, <2>2
  <1>11. YoungestAges(a, t, g, p)'
    BY <1>1, <1>2 DEF YoungestAges
  <1>12. QueuesOrdered(a, t, g, p)'
    BY <1>1, <1>2, <1>4, <1>9 DEF QueuesOrdered
  <1>13. QueuesAligned(t, g, p)'
    <2>1. ASSUME NEW first \in 0..1, a <= first, NEW N \in Nat, first + N <= oP - 1,
                 NEW j \in 1..N
          PROVE  ImageAt(presentQueue', imageIndex', p, first + N - j)
                   = ImageAt(presentQueue, imageIndex, p, first + N - j)
      BY <2>1, <1>10
    <2>2. /\ a <= t /\ t + Len(transferQueue) <= oP - 1
          /\ a <= g /\ g + Len(graphicsQueue) <= oP - 1
      BY <1>3, <1>9
    <2>3. ASSUME NEW j \in 1..Len(presentQueue')
          PROVE  presentQueue'[j].slot = At(back, slots, p + Len(presentQueue') - j)
      <3>1. /\ j + 1 \in 1..Len(presentQueue)
            /\ p + Len(presentQueue') - j = p + Len(presentQueue) - (j + 1)
        BY <1>4
      <3>. QED
        BY <1>2, <1>4, <3>1 DEF QueuesAligned
    <2>. QED
      BY <1>1, <1>2, <2>1, <2>2, <2>3 DEF QueuesAligned
  <1>14. SemaphoresAligned(a, t, g, p)'
    <2>1. ASSUME NEW age \in a..(a + slots - 1)
          PROVE  StageOf(semaphore', At(back, slots, age), age, t, oT, g, oG,
                         p + Len(presentQueue'))
      <3>1. StageOf(semaphore, At(back, slots, age), age, t, oT, g, oG, oP)
        BY <1>2 DEF SemaphoresAligned
      <3>2. At(back, slots, age) \in Slot
        BY <1>3
      <3>3. CASE age = oP - 1
        <4>1. /\ semaphore'[<<"imageAvailable", slot0>>] = semaphore[<<"imageAvailable", slot0>>]
              /\ semaphore'[<<"transferCompleted", slot0>>]
                    = semaphore[<<"transferCompleted", slot0>>]
          BY <1>6, <1>8 DEF Kinds
        <4>2. StageOf(semaphore, slot0, age, t, oT, g, oG, oP)
          BY <3>1, <3>3
        <4>3. StageOf(semaphore', slot0, age, t, oT, g, oG, p + Len(presentQueue'))
          <5>. HIDE DEF slot0, oT, oG
          <5>1. age >= p + Len(presentQueue')
            BY <1>5, <3>3
          <5>. QED
            BY <1>8, <4>1, <4>2, <5>1 DEF StageOf
        <4>. QED
          BY <3>3, <4>3
      <3>4. CASE age # oP - 1
        <4>1. At(back, slots, age) # slot0
          BY <1>3, <1>5, <3>4
        <4>2. \A c \in Kinds : semaphore'[<<c, At(back, slots, age)>>]
                                  = semaphore[<<c, At(back, slots, age)>>]
          BY <1>8, <3>2, <4>1
        <4>3. /\ age \in Int /\ t \in Int /\ g \in Int
              /\ oT \in Int /\ oG \in Int /\ oP \in Int /\ p + Len(presentQueue') \in Int
              /\ age >= p + Len(presentQueue') <=> age >= oP
          BY <1>1, <1>3, <1>5, <3>4
        <4>. HIDE DEF oT, oG, oP
        <4>. QED
          BY <3>1, <4>2, <4>3, StageKept
      <3>. QED
        BY <3>3, <3>4
    <2>. QED
      BY <1>1, <2>1 DEF SemaphoresAligned
  <1>15. ImagesApart(a, p)'
    <2>1. p + Len(presentQueue') - 1 = oP - 2
      BY <1>5
    <2>2. \A age \in a..(oP - 2) : age \in a..(oP - 1)
      OBVIOUS
    <2>3. \A x, y \in a..(oP - 2) :
             /\ ImageAt(presentQueue, imageIndex, p, x) \in Slot
             /\ ImageAt(presentQueue, imageIndex, p, x)
                   = ImageAt(presentQueue, imageIndex, p, y) => x = y
      BY <1>2, <2>2 DEF ImagesApart
    <2>4. \A x, y \in a..(oP - 2) :
             /\ ImageAt(presentQueue', imageIndex', p, x) \in Slot
             /\ ImageAt(presentQueue', imageIndex', p, x)
                   = ImageAt(presentQueue', imageIndex', p, y) => x = y
      BY <1>10, <2>3
    <2>. QED
      BY <1>1, <2>1, <2>4 DEF ImagesApart, Slot
  <1>16. BuffersAligned(a, t, g, p)'
    <2>1. p + Len(presentQueue') - 1 = oP - 2
      BY <1>5
    <2>2. \A age \in t..(oP - 2) :
             buffer'[<<"transfer", ImageAt(presentQueue', imageIndex', p, age)>>] =
                IF age < oT THEN "pending" ELSE "ready"
      <3>1. \A age \in t..(oP - 2) : age \in a..(oP - 2) /\ age \in t..(oP - 1)
        BY <1>3
      <3>. QED
        BY <1>1, <1>2, <1>10, <3>1 DEF BuffersAligned
    <2>3. \A age \in g..(oP - 2) :
             buffer'[<<"graphics", ImageAt(presentQueue', imageIndex', p, age)>>] =
                IF age < oG THEN "pending" ELSE "ready"
      <3>1. \A age \in g..(oP - 2) : age \in a..(oP - 2) /\ age \in g..(oP - 1)
        BY <1>3
      <3>. QED
        BY <1>1, <1>2, <1>10, <3>1 DEF BuffersAligned
    <2>4. ASSUME NEW k \in Slot,
                 \A age \in a..(oP - 2) : k # ImageAt(presentQueue', imageIndex', p, age)
          PROVE  buffer'[<<"transfer", k>>] = "ready" /\ buffer'[<<"graphics", k>>] = "ready"
      <3>1. CASE k = image0
        <4>1. oP - 1 \in t..(oP - 1) /\ oP - 1 \in g..(oP - 1)
              /\ ~(oP - 1 < oT) /\ ~(oP - 1 < oG)
          BY <1>3, <1>9
        <4>. QED
          BY <1>1, <1>2, <3>1, <4>1 DEF BuffersAligned
      <3>2. CASE k # image0
        <4>1. \A age \in a..(oP - 1) : age \in a..(oP - 2) \/ age = oP - 1
          OBVIOUS
        <4>2. \A age \in a..(oP - 1) : k # ImageAt(presentQueue, imageIndex, p, age)
          BY <1>10, <2>4, <3>2, <4>1
        <4>. QED
          BY <1>1, <1>2, <4>2 DEF BuffersAligned
      <3>. QED
        BY <3>1, <3>2
    <2>. QED
      BY <1>1, <2>1, <2>2, <2>3, <2>4 DEF BuffersAligned, Slot
  <1>17. RecordingAligned(a, t, g)'
    BY <1>1, <1>2 DEF RecordingAligned, Recorded
  <1>. QED
    BY <1>1, <1>11, <1>12, <1>13, <1>14, <1>15, <1>16, <1>17 DEF Aligned

-----------------------------------------------------------------------------
(***************************************************************************)
(* All steps together.                                                     *)
(***************************************************************************)

\* The phase of the frame tells the youngest ages.
LEMMA Offsets ==
    ASSUME NEW a \in 0..1, NEW t \in 0..1, NEW g \in 0..1, NEW p \in 0..1,
           YoungestAges(a, t, g, p)
    PROVE  /\ phase \in {"acquiring", "reacquiring"} => a = 1 /\ t = 1 /\ g = 1 /\ p = 1
           /\ phase \in {"preparing", "binding", "recording", "finishing", "submitting"} =>
                 a = 0 /\ t = 1 /\ g = 1 /\ p = 1
           /\ phase = "submittingGraphics" => a = 0 /\ t = 0 /\ g = 1 /\ p = 1
           /\ phase = "presenting" => a = 0 /\ t = 0 /\ g = 0 /\ p = 1
           /\ phase \in {"idle", "waiting", "repairing"} =>
                 a = 0 /\ t = 0 /\ g = 0 /\ p = 0
  BY DEF YoungestAges

LEMMA SynchronizedInit == Init => Synchronized
  <1>. SUFFICES ASSUME Init PROVE Synchronized
    OBVIOUS
  <1>1. slots \in Nat \ {0} /\ back = slots - 1
    BY CountsAssumption DEF Init
  <1>2. Len(transferQueue) = 0 /\ Len(graphicsQueue) = 0 /\ Len(presentQueue) = 0
    BY DEF Init
  <1>3. YoungestAges(0, 0, 0, 0) /\ QueuesOrdered(0, 0, 0, 0)
    BY <1>1, <1>2 DEF YoungestAges, QueuesOrdered, Init
  <1>4. QueuesAligned(0, 0, 0) /\ ImagesApart(0, 0)
    BY <1>2 DEF QueuesAligned, ImagesApart
  <1>5. SemaphoresAligned(0, 0, 0, 0)
    <2>1. ASSUME NEW age \in 0..(0 + slots - 1)
          PROVE  StageOf(semaphore, At(back, slots, age), age, 0, 0 + Len(transferQueue),
                         0, 0 + Len(graphicsQueue), 0 + Len(presentQueue))
      <3>1. At(back, slots, age) \in Slot
        BY <1>1 DEF At, Slot
      <3>2. \A c \in Kinds : semaphore[<<c, At(back, slots, age)>>] = "unsignaled"
        BY <3>1 DEF Init
      <3>. QED
        BY <1>2, <3>2 DEF StageOf, Kinds
    <2>. QED
      BY <2>1 DEF SemaphoresAligned
  <1>6. BuffersAligned(0, 0, 0, 0)
    <2>1. \A k \in Slot : buffer[<<"transfer", k>>] = "ready" /\ buffer[<<"graphics", k>>] = "ready"
      BY DEF Init
    <2>. QED
      BY <1>2, <2>1 DEF BuffersAligned
  <1>7. RecordingAligned(0, 0, 0)
    BY DEF RecordingAligned
  <1>8. InStep
    BY <1>3, <1>4, <1>5, <1>6, <1>7 DEF InStep, Aligned
  <1>. QED
    BY <1>8 DEF Synchronized, Init

LEMMA SynchronizedStep ==
    ASSUME TypeOK, HostAgrees, Undisturbed, Synchronized, [Next]_vars
    PROVE  Synchronized'
  <1>. USE DEF environmentVars, passVars, queueVars, deviceVars
  <1>1. misused = {}
    BY DEF Synchronized
  <1>2. PICK a \in 0..1, t \in 0..1, g \in 0..1, p \in 0..1 : Aligned(a, t, g, p)
    BY DEF Synchronized, InStep
  <1>3. YoungestAges(a, t, g, p) /\ RecordingAligned(a, t, g)
    BY <1>2 DEF Aligned
  <1>4. phase = "idle" => context = {}
    BY DEF Synchronized
  \* A step of the frame that leaves the device alone.
  <1>5. ASSUME UNCHANGED <<slots, back, imageIndex, semaphore, buffer, misused,
                           transferQueue, graphicsQueue, presentQueue>>,
               YoungestAges(a, t, g, p)', RecordingAligned(a, t, g)',
               phase' = "idle" => context' = {}
        PROVE  Synchronized'
    <2>1. Aligned(a, t, g, p)'
      BY <1>2, <1>5, PhaseKeepsStep
    <2>. QED
      BY <1>1, <1>5, <2>1 DEF Synchronized, InStep
  <1>6. ASSUME NEW x \in 0..1, NEW y \in 0..1, NEW z \in 0..1, NEW w \in 0..1,
               misused' = {} /\ Aligned(x, y, z, w)', phase' # "idle"
        PROVE  Synchronized'
    BY <1>6 DEF Synchronized, InStep
  <1>7. CASE BeginFrame
    <2>1. misused' = {} /\ phase' # "idle"
      BY <1>1, <1>7 DEF BeginFrame
    <2>. QED
      BY <1>2, <1>6, <1>7, <2>1, BeginFrameKeepsStep
  <1>8. CASE ContinueFrame
    BY <1>4, <1>8 DEF ContinueFrame
  <1>9. CASE Acquire
    <2>1. a = 1 /\ t = 1 /\ g = 1 /\ p = 1 /\ phase' # "idle"
      BY <1>3, <1>9, Offsets DEF Acquire
    <2>. QED
      BY <1>1, <1>2, <1>6, <1>9, <2>1, AcquireKeepsStep
  <1>10. CASE AcquireSuboptimal
    BY <1>10 DEF AcquireSuboptimal, Undisturbed
  <1>11. CASE AcquireOutOfDate
    BY <1>3, <1>5, <1>11, Offsets DEF AcquireOutOfDate, YoungestAges, RecordingAligned
  <1>12. CASE AcquireThrows
    BY <1>3, <1>5, <1>12, Offsets DEF AcquireThrows, YoungestAges, RecordingAligned
  <1>13. CASE RecreateSwapChain
    BY <1>3, <1>5, <1>13, Offsets DEF RecreateSwapChain, YoungestAges, RecordingAligned
  <1>14. CASE PrepareFrame
    <2>1. a = 0 /\ t = 1 /\ g = 1 /\ p = 1 /\ phase' # "idle"
      BY <1>3, <1>14, Offsets DEF PrepareFrame
    <2>2. context # {} /\ Recorded = "ready" /\ Recorded' = "recording"
      BY <1>14 DEF PrepareFrame, HostAgrees, Holding, Recorded
    <2>3. YoungestAges(0, 1, 1, 1)'
      BY <1>14 DEF PrepareFrame, YoungestAges
    <2>4. Move(Buffers, Recorded, "recording")
      BY <1>14, <2>2 DEF PrepareFrame
    <2>5. UNCHANGED <<slots, back, imageIndex, semaphore, transferQueue, graphicsQueue,
                      presentQueue>>
      BY <1>14 DEF PrepareFrame
    <2>. QED
      BY <1>1, <1>2, <1>6, <2>1, <2>2, <2>3, <2>4, <2>5, RecordingKeepsStep
  <1>15. CASE BindRenderPass
    BY <1>3, <1>5, <1>15, Offsets
       DEF BindRenderPass, YoungestAges, RecordingAligned, Recorded
  <1>16. CASE BindFails
    BY <1>3, <1>5, <1>16, Offsets DEF BindFails, YoungestAges, RecordingAligned, Recorded
  <1>17. CASE BindMissing
    BY <1>3, <1>5, <1>17, Offsets DEF BindMissing, YoungestAges, RecordingAligned, Recorded
  <1>18. CASE ExecutePass
    <2>1. phase = "recording" /\ phase' \in {"recording", "finishing", "terminated"}
      BY <1>18 DEF ExecutePass
    <2>2. UNCHANGED <<slots, back, imageIndex, semaphore, buffer, misused,
                      transferQueue, graphicsQueue, presentQueue>>
      BY <1>18 DEF ExecutePass
    <2>. QED
      BY <1>3, <1>5, <2>1, <2>2, Offsets DEF YoungestAges, RecordingAligned, Recorded
  <1>19. CASE PassFails
    BY <1>3, <1>5, <1>19, Offsets DEF PassFails, YoungestAges, RecordingAligned, Recorded
  <1>20. CASE FinishRecording
    <2>1. a = 0 /\ t = 1 /\ g = 1 /\ p = 1 /\ phase' # "idle"
      BY <1>3, <1>20, Offsets DEF FinishRecording
    <2>2. context # {} /\ Recorded = "recording" /\ Recorded' = "executable"
      BY <1>20 DEF FinishRecording, HostAgrees, Holding, Recorded
    <2>3. YoungestAges(0, 1, 1, 1)'
      BY <1>20 DEF FinishRecording, YoungestAges
    <2>4. Move(Buffers, Recorded, "executable")
      BY <1>20, <2>2 DEF FinishRecording
    <2>5. UNCHANGED <<slots, back, imageIndex, semaphore, transferQueue, graphicsQueue,
                      presentQueue>>
      BY <1>20 DEF FinishRecording
    <2>. QED
      BY <1>1, <1>2, <1>6, <2>1, <2>2, <2>3, <2>4, <2>5, RecordingKeepsStep
  <1>21. CASE OutputMissing
    BY <1>21 DEF OutputMissing, Undisturbed
  <1>22. CASE SubmitTransfer
    <2>1. a = 0 /\ t = 1 /\ g = 1 /\ p = 1 /\ phase' # "idle"
      BY <1>3, <1>22, Offsets DEF SubmitTransfer
    <2>. QED
      BY <1>1, <1>2, <1>6, <1>22, <2>1, SubmitTransferKeepsStep
  <1>23. CASE SubmitGraphics
    <2>1. a = 0 /\ t = 0 /\ g = 1 /\ p = 1 /\ phase' # "idle"
      BY <1>3, <1>23, Offsets DEF SubmitGraphics
    <2>. QED
      BY <1>1, <1>2, <1>6, <1>23, <2>1, SubmitGraphicsKeepsStep
  <1>24. CASE Present
    <2>1. a = 0 /\ t = 0 /\ g = 0 /\ p = 1 /\ phase' # "idle"
      BY <1>3, <1>24, Offsets DEF Present
    <2>. QED
      BY <1>1, <1>2, <1>6, <1>24, <2>1, PresentKeepsStep
  <1>25. CASE EndFrame
    BY <1>3, <1>5, <1>25, Offsets DEF EndFrame, YoungestAges, RecordingAligned
  \* A step of the device.
  <1>26. ASSUME misused' = {} /\ Aligned(a, t, g, p)', UNCHANGED <<phase, context>>
         PROVE  Synchronized'
    BY <1>4, <1>26 DEF Synchronized, InStep
  <1>27. CASE \E k \in Slot : SignalImageAvailable(k)
    <2>1. PICK k \in Slot : SignalImageAvailable(k)
      BY <1>27
    <2>2. UNCHANGED <<phase, context>>
      BY <2>1 DEF SignalImageAvailable
    <2>. QED
      BY <1>1, <1>2, <1>26, <2>1, <2>2, SignalKeepsStep
  <1>28. CASE ExecuteTransfer
    <2>1. UNCHANGED <<phase, context>>
      BY <1>28 DEF ExecuteTransfer
    <2>. QED
      BY <1>1, <1>2, <1>26, <1>28, <2>1, ExecuteTransferKeepsStep
  <1>29. CASE ExecuteGraphics
    <2>1. UNCHANGED <<phase, context>>
      BY <1>29 DEF ExecuteGraphics
    <2>. QED
      BY <1>1, <1>2, <1>26, <1>29, <2>1, ExecuteGraphicsKeepsStep
  <1>30. CASE ExecutePresent
    <2>1. UNCHANGED <<phase, context>>
      BY <1>30 DEF ExecutePresent
    <2>. QED
      BY <1>1, <1>2, <1>26, <1>30, <2>1, ExecutePresentKeepsStep
  <1>31. CASE UNCHANGED vars
    BY <1>3, <1>4, <1>5, <1>31 DEF vars, YoungestAges, RecordingAligned, Recorded
  <1>. QED
    BY <1>7, <1>8, <1>9, <1>10, <1>11, <1>12, <1>13, <1>14, <1>15, <1>16, <1>17, <1>18,
       <1>19, <1>20, <1>21, <1>22, <1>23, <1>24, <1>25, <1>27, <1>28, <1>29, <1>30, <1>31
       DEF Next, FrameStep, DeviceStep, Terminated

LEMMA SynchronizedInvariance ==
    ASSUME Undisturbed
    PROVE  Spec => [](TypeOK /\ Synchronized)
  <1>1. TypeOK /\ HostAgrees /\ Synchronized /\ [Next]_vars => Synchronized'
    BY SynchronizedStep
  <1>. QED
    BY <1>1, HostInvariance, SynchronizedInit, PTL DEF Spec

\* A semaphore gets one signal for one wait: the lists come round to a semaphore only
\* when the device is done with its last use, even when no frame waits for the device.
THEOREM SemaphoresInvariance ==
    ASSUME Undisturbed
    PROVE  Spec => []SemaphoresAlternate
  <1>1. ASSUME TypeOK, Synchronized
        PROVE  SemaphoresAlternate
    <2>1. PICK a \in 0..1, t \in 0..1, g \in 0..1, p \in 0..1 : Aligned(a, t, g, p)
      BY <1>1 DEF Synchronized, InStep
    <2>. DEFINE oT == t + Len(transferQueue)
                oG == g + Len(graphicsQueue)
                oP == p + Len(presentQueue)
    <2>2. /\ slots \in Nat \ {0} /\ back \in 0..(slots - 1)
          /\ Len(transferQueue) \in Nat /\ Len(graphicsQueue) \in Nat
          /\ Len(presentQueue) \in Nat
      BY <1>1, Basics
    <2>3. /\ a <= t /\ t <= g /\ g <= p /\ oT <= oG /\ oG <= oP /\ oP <= a + slots
          /\ \A x, y \in a..(a + slots - 1) : At(back, slots, x) = At(back, slots, y) => x = y
      BY <1>1, <2>1, Ends
    <2>4. \A age \in a..(a + slots - 1) :
             StageOf(semaphore, At(back, slots, age), age, t, oT, g, oG, oP)
      BY <2>1 DEF Aligned, SemaphoresAligned
    <2>5. ASSUME NEW j \in 1..Len(transferQueue)
          PROVE  /\ transferQueue[j].slot = At(back, slots, oT - j)
                 /\ oT - j \in a..(a + slots - 1)
                 /\ semaphore[<<transferQueue[j].wait, transferQueue[j].slot>>] # "unsignaled"
      <3>1. /\ transferQueue[j].slot = At(back, slots, oT - j)
            /\ transferQueue[j].wait = "imageAvailable"
        <4>1. transferQueue[j] =
               [slot |-> At(back, slots, t + Len(transferQueue) - j), wait |-> "imageAvailable",
                signal |-> "transferCompleted",
                buffer |-> ImageAt(presentQueue, imageIndex, p, t + Len(transferQueue) - j)]
          BY <2>1 DEF Aligned, QueuesAligned
        <4>. QED
          BY <4>1
      <3>2. oT - j \in a..(a + slots - 1) /\ oT - j < oT
        BY <2>2, <2>3
      <3>3. StageOf(semaphore, At(back, slots, oT - j), oT - j, t, oT, g, oG, oP)
        BY <2>4, <3>2
      <3>. QED
        BY <3>1, <3>2, <3>3 DEF StageOf
    <2>6. ASSUME NEW j \in 1..Len(graphicsQueue)
          PROVE  /\ graphicsQueue[j].slot = At(back, slots, oG - j)
                 /\ oG - j \in a..(a + slots - 1)
                 /\ semaphore[<<graphicsQueue[j].wait, graphicsQueue[j].slot>>] # "unsignaled"
      <3>1. /\ graphicsQueue[j].slot = At(back, slots, oG - j)
            /\ graphicsQueue[j].wait = "transferCompleted"
        <4>1. graphicsQueue[j] =
               [slot |-> At(back, slots, g + Len(graphicsQueue) - j), wait |-> "transferCompleted",
                signal |-> "renderCompleted",
                buffer |-> ImageAt(presentQueue, imageIndex, p, g + Len(graphicsQueue) - j)]
          BY <2>1 DEF Aligned, QueuesAligned
        <4>. QED
          BY <4>1
      <3>2. /\ oG - j \in a..(a + slots - 1) /\ ~(oG - j < t) /\ ~(oG - j >= oG)
        BY <2>2, <2>3
      <3>3. StageOf(semaphore, At(back, slots, oG - j), oG - j, t, oT, g, oG, oP)
        BY <2>4, <3>2
      <3>. QED
        BY <3>1, <3>2, <3>3 DEF StageOf
    <2>7. ASSUME NEW j \in 1..Len(presentQueue)
          PROVE  /\ presentQueue[j].slot = At(back, slots, oP - j)
                 /\ oP - j \in a..(a + slots - 1)
                 /\ semaphore[<<"renderCompleted", presentQueue[j].slot>>] # "unsignaled"
      <3>1. presentQueue[j].slot = At(back, slots, oP - j)
        BY <2>1 DEF Aligned, QueuesAligned
      <3>2. /\ oP - j \in a..(a + slots - 1) /\ ~(oP - j < g) /\ ~(oP - j >= oP)
        BY <2>2, <2>3
      <3>3. StageOf(semaphore, At(back, slots, oP - j), oP - j, t, oT, g, oG, oP)
        BY <2>4, <3>2
      <3>. QED
        BY <3>1, <3>2, <3>3 DEF StageOf
    <2>8. /\ \A i, j \in 1..Len(transferQueue) :
                transferQueue[i].slot = transferQueue[j].slot => i = j
          /\ \A i, j \in 1..Len(graphicsQueue) :
                graphicsQueue[i].slot = graphicsQueue[j].slot => i = j
          /\ \A i, j \in 1..Len(presentQueue) :
                presentQueue[i].slot = presentQueue[j].slot => i = j
      <3>1. ASSUME NEW i \in 1..Len(transferQueue), NEW j \in 1..Len(transferQueue),
                   transferQueue[i].slot = transferQueue[j].slot
            PROVE  i = j
        <4>1. oT - i = oT - j
          BY <2>3, <2>5, <3>1
        <4>. QED
          BY <2>2, <4>1
      <3>2. ASSUME NEW i \in 1..Len(graphicsQueue), NEW j \in 1..Len(graphicsQueue),
                   graphicsQueue[i].slot = graphicsQueue[j].slot
            PROVE  i = j
        <4>1. oG - i = oG - j
          BY <2>3, <2>6, <3>2
        <4>. QED
          BY <2>2, <4>1
      <3>3. ASSUME NEW i \in 1..Len(presentQueue), NEW j \in 1..Len(presentQueue),
                   presentQueue[i].slot = presentQueue[j].slot
            PROVE  i = j
        <4>1. oP - i = oP - j
          BY <2>3, <2>7, <3>3
        <4>. QED
          BY <2>2, <4>1
      <3>. QED
        BY <3>1, <3>2, <3>3
    <2>9. \A queue \in {transferQueue, graphicsQueue, presentQueue} :
              \A i, j \in 1..Len(queue) : queue[i].slot = queue[j].slot => i = j
      BY <2>8
    <2>10. /\ \A b \in Batches(transferQueue) : semaphore[<<b.wait, b.slot>>] # "unsignaled"
           /\ \A b \in Batches(graphicsQueue) : semaphore[<<b.wait, b.slot>>] # "unsignaled"
           /\ \A b \in Batches(presentQueue) :
                 semaphore[<<"renderCompleted", b.slot>>] # "unsignaled"
      BY <2>5, <2>6, <2>7 DEF Batches
    <2>. QED
      BY <1>1, <2>9, <2>10 DEF SemaphoresAlternate, Synchronized
  <1>. QED
    BY <1>1, SynchronizedInvariance, PTL

\* A command buffer is reused only when the device is done with it, and the device
\* holds exactly the pending ones.
THEOREM BuffersInvariance ==
    ASSUME Undisturbed
    PROVE  Spec => []BuffersNotInUse
  <1>1. ASSUME TypeOK, Synchronized
        PROVE  BuffersNotInUse
    <2>1. PICK a \in 0..1, t \in 0..1, g \in 0..1, p \in 0..1 : Aligned(a, t, g, p)
      BY <1>1 DEF Synchronized, InStep
    <2>. DEFINE oT == t + Len(transferQueue)
                oG == g + Len(graphicsQueue)
                oP == p + Len(presentQueue)
                Image(age) == ImageAt(presentQueue, imageIndex, p, age)
    <2>2. /\ Len(transferQueue) \in Nat /\ Len(graphicsQueue) \in Nat
          /\ Len(presentQueue) \in Nat
      BY <1>1, Basics
    <2>3. a <= t /\ t <= g /\ g <= p /\ oT <= oG /\ oG <= oP
      BY <1>1, <2>1, Ends
    <2>4. /\ QueuesAligned(t, g, p) /\ BuffersAligned(a, t, g, p) /\ RecordingAligned(a, t, g)
      BY <2>1 DEF Aligned
    <2>5. Recorded # "pending"
      BY DEF Recorded
    <2>6. \A age \in a..(p - 1) : Image(age) = imageIndex
      BY DEF ImageAt
    <2>7. /\ \A j \in 1..Len(transferQueue) : transferQueue[j].buffer = Image(oT - j)
          /\ \A j \in 1..Len(graphicsQueue) : graphicsQueue[j].buffer = Image(oG - j)
      <3>1. ASSUME NEW j \in 1..Len(transferQueue)
            PROVE  transferQueue[j].buffer = Image(oT - j)
        <4>1. transferQueue[j] =
               [slot |-> At(back, slots, t + Len(transferQueue) - j), wait |-> "imageAvailable",
                signal |-> "transferCompleted",
                buffer |-> ImageAt(presentQueue, imageIndex, p, t + Len(transferQueue) - j)]
          BY <2>4 DEF QueuesAligned
        <4>. QED
          BY <4>1
      <3>2. ASSUME NEW j \in 1..Len(graphicsQueue)
            PROVE  graphicsQueue[j].buffer = Image(oG - j)
        <4>1. graphicsQueue[j] =
               [slot |-> At(back, slots, g + Len(graphicsQueue) - j), wait |-> "transferCompleted",
                signal |-> "renderCompleted",
                buffer |-> ImageAt(presentQueue, imageIndex, p, g + Len(graphicsQueue) - j)]
          BY <2>4 DEF QueuesAligned
        <4>. QED
          BY <4>1
      <3>. QED
        BY <3>1, <3>2
    <2>8. \A k \in Slot : (\A age \in a..(oP - 1) : k # Image(age)) =>
             buffer[<<"transfer", k>>] = "ready" /\ buffer[<<"graphics", k>>] = "ready"
      BY <2>4 DEF BuffersAligned
    <2>9. ASSUME NEW k \in Slot
          PROVE  buffer[<<"transfer", k>>] = "pending" <=>
                    \E b \in Batches(transferQueue) : b.buffer = k
      <3>1. ASSUME NEW j \in 1..Len(transferQueue), transferQueue[j].buffer = k
            PROVE  buffer[<<"transfer", k>>] = "pending"
        <4>1. transferQueue[j].buffer = Image(oT - j)
          BY <2>7
        <4>2. oT - j \in t..(oP - 1) /\ oT - j < oT
          BY <2>2, <2>3
        <4>. QED
          BY <2>4, <3>1, <4>1, <4>2 DEF BuffersAligned
      <3>2. ASSUME buffer[<<"transfer", k>>] = "pending"
            PROVE  \E j \in 1..Len(transferQueue) : transferQueue[j].buffer = k
        <4>1. PICK age \in a..(oP - 1) : k = Image(age)
          <5>1. ASSUME \A age \in a..(oP - 1) : k # Image(age)
                PROVE  FALSE
            BY <2>8, <3>2, <5>1
          <5>. QED
            BY <5>1
        <4>2. age \in t..(oP - 1)
          <5>1. CASE age < t
            <6>1. Image(age) = imageIndex /\ a < t
              BY <2>3, <2>6, <5>1
            <6>. QED
              BY <2>4, <2>5, <3>2, <4>1, <6>1 DEF RecordingAligned
          <5>. QED
            BY <5>1
        <4>3. age < oT
          BY <2>4, <3>2, <4>1, <4>2 DEF BuffersAligned
        <4>4. oT - age \in 1..Len(transferQueue) /\ oT - (oT - age) = age
          BY <2>2, <4>2, <4>3
        <4>5. transferQueue[oT - age].buffer = Image(oT - (oT - age))
          BY <2>7, <4>4
        <4>. QED
          BY <4>1, <4>4, <4>5
      <3>. QED
        BY <3>1, <3>2 DEF Batches
    <2>10. ASSUME NEW k \in Slot
          PROVE  buffer[<<"graphics", k>>] = "pending" <=>
                    \E b \in Batches(graphicsQueue) : b.buffer = k
      <3>1. ASSUME NEW j \in 1..Len(graphicsQueue), graphicsQueue[j].buffer = k
            PROVE  buffer[<<"graphics", k>>] = "pending"
        <4>1. graphicsQueue[j].buffer = Image(oG - j)
          BY <2>7
        <4>2. oG - j \in g..(oP - 1) /\ oG - j < oG
          BY <2>2, <2>3
        <4>. QED
          BY <2>4, <3>1, <4>1, <4>2 DEF BuffersAligned
      <3>2. ASSUME buffer[<<"graphics", k>>] = "pending"
            PROVE  \E j \in 1..Len(graphicsQueue) : graphicsQueue[j].buffer = k
        <4>1. PICK age \in a..(oP - 1) : k = Image(age)
          <5>1. ASSUME \A age \in a..(oP - 1) : k # Image(age)
                PROVE  FALSE
            BY <2>8, <3>2, <5>1
          <5>. QED
            BY <5>1
        <4>2. age \in g..(oP - 1)
          <5>1. CASE age < g
            <6>1. Image(age) = imageIndex /\ a < g
              BY <2>3, <2>6, <5>1
            <6>. QED
              BY <2>4, <2>5, <3>2, <4>1, <6>1 DEF RecordingAligned
          <5>. QED
            BY <5>1
        <4>3. age < oG
          BY <2>4, <3>2, <4>1, <4>2 DEF BuffersAligned
        <4>4. oG - age \in 1..Len(graphicsQueue) /\ oG - (oG - age) = age
          BY <2>2, <4>2, <4>3
        <4>5. graphicsQueue[oG - age].buffer = Image(oG - (oG - age))
          BY <2>7, <4>4
        <4>. QED
          BY <4>1, <4>4, <4>5
      <3>. QED
        BY <3>1, <3>2 DEF Batches
    <2>. QED
      BY <1>1, <2>9, <2>10 DEF BuffersNotInUse, Synchronized
  <1>. QED
    BY <1>1, SynchronizedInvariance, PTL
=============================================================================
