---------------------------- MODULE FrameExecution ----------------------------
(***************************************************************************)
(* One frame after another: CGraph::execute acquires an image of the swap  *)
(* chain, records the passes as subpasses of one render pass, submits a    *)
(* transfer and a graphics command buffer, presents the image and waits,   *)
(* while the queues of the device work asynchronously.                     *)
(*                                                                         *)
(* Semaphores are taken from lists that rotate with every frame, command   *)
(* buffers by the index of the acquired image; there is one of each per    *)
(* image of the first swap chain. The render pass is made by the first     *)
(* frame and kept (see ResourceManager). A state in which the process has  *)
(* ended by an exception nobody catches is "terminated".                   *)
(***************************************************************************)
EXTENDS Naturals, Sequences, FiniteSets

CONSTANTS
    ImageCounts,                \* numbers of images a swap chain may be made with
    PassCounts,                 \* numbers of passes a frame may have
    MaxRecreations,             \* bound on how often the swap chain is made anew
    AcquireResults,             \* answers of vkAcquireNextImageKHR
    PresentResults,             \* answers of vkQueuePresentKHR
    Failures                    \* which calls of a frame may fail

Answers == {"SUCCESS", "SUBOPTIMAL", "OUT_OF_DATE", "ERROR"}
AllFailures == {"bind", "pass", "output", "wait"}

ASSUME CountsAssumption ==
    /\ ImageCounts \subseteq Nat \ {0} /\ PassCounts \subseteq Nat \ {0}
    /\ MaxRecreations \in Nat
ASSUME OutcomesAssumption ==
    /\ AcquireResults \subseteq Answers /\ PresentResults \subseteq Answers
    /\ Failures \subseteq AllFailures

VARIABLES
    \* CVulkanEnvironment
    slots,                      \* semaphores of a kind, and command buffers of a kind
    back,                       \* the slot at the back of the rotating lists
    images,                     \* number of images of the swap chain
    imageIndex,                 \* currentSwapChainImageIndex
    context,                    \* mCurrentFrameContext: a set with at most one context
    recreations,
    \* CGraph and CFrameGraphRenderContext
    phase,                      \* where the frame stands
    passes, done,               \* passes of the frame, and how many were executed
    renderPass, described,      \* the render pass, and the subpasses it was made with
    subpass,                    \* mCurrentSubpass
    active, recorded,           \* a render pass begun in the buffer, and its subpass there
    \* the device
    semaphore,                  \* state of the semaphore of a kind in a slot
    buffer,                     \* state of the command buffer of a kind for an image
    misused,                    \* history: kinds of objects used against their protocol
    acquired,                   \* images acquired and not yet given to the present queue
    transferQueue, graphicsQueue, presentQueue

environmentVars == <<slots, back, images, imageIndex, context, recreations>>
passVars == <<passes, done, renderPass, described, subpass, active, recorded>>
queueVars == <<transferQueue, graphicsQueue, presentQueue>>
deviceVars == <<semaphore, buffer, misused, acquired, queueVars>>
vars == <<environmentVars, phase, passVars, deviceVars>>

Slot == 0..(slots - 1)
Current == CHOOSE c \in context : TRUE

Kinds == {"imageAvailable", "transferCompleted", "renderCompleted"}
Queued == {presentQueue[i].image : i \in 1..Len(presentQueue)}
Free == (0..(images - 1)) \ (acquired \cup Queued)
DeviceIdle == transferQueue = <<>> /\ graphicsQueue = <<>> /\ presentQueue = <<>>

\* A signal operation on a semaphore is asked for. A semaphore takes one at a time.
Signal(s) ==
    /\ semaphore' = [semaphore EXCEPT ![s] = "pending"]
    /\ misused' = IF semaphore[s] = "unsignaled" THEN misused ELSE misused \cup {"semaphore"}

\* The command buffers of a set move from one state to the next.
Move(set, from, to) ==
    /\ buffer' = [b \in DOMAIN buffer |-> IF b \in set THEN to ELSE buffer[b]]
    /\ misused' = IF \A b \in set : buffer[b] = from THEN misused
                  ELSE misused \cup {"buffer"}

Init ==
    /\ images \in ImageCounts
    /\ slots = images
    /\ back = slots - 1
    /\ imageIndex = 0
    /\ context = {}
    /\ recreations = 0
    /\ phase = "idle"
    /\ passes = 0 /\ done = 0
    /\ renderPass = "none" /\ described = 0
    /\ subpass = 0 /\ active = FALSE /\ recorded = 0
    /\ semaphore = [s \in Kinds \X Slot |-> "unsignaled"]
    /\ buffer = [b \in {"transfer", "graphics"} \X Slot |-> "ready"]
    /\ misused = {} /\ acquired = {}
    /\ transferQueue = <<>> /\ graphicsQueue = <<>> /\ presentQueue = <<>>

-----------------------------------------------------------------------------
(***************************************************************************)
(* beginGraphicsFrame and bindSwapChain.                                   *)
(***************************************************************************)

\* Mutant: the lists do not rotate.
BeginFrameInPlace ==
    /\ phase = "idle" /\ context = {}
    /\ passes' \in PassCounts
    /\ phase' = "acquiring"
    /\ UNCHANGED <<environmentVars, done, renderPass, described, subpass, active, recorded,
                   deviceVars>>

\* A frame begins: the lists of semaphores rotate.
BeginFrame ==
    /\ phase = "idle" /\ context = {}
    /\ passes' \in PassCounts
    /\ back' = (back + 1) % slots
    /\ phase' = "acquiring"
    /\ UNCHANGED <<slots, images, imageIndex, context, recreations,
                   done, renderPass, described, subpass, active, recorded, deviceVars>>

\* The frame before was left by an early return: beginGraphicsFrame answers with
\* an error nobody looks at, and the frame goes on with the context that is there.
ContinueFrame ==
    /\ phase = "idle" /\ context # {}
    /\ passes' \in PassCounts
    /\ phase' = "preparing"
    /\ UNCHANGED <<environmentVars, done, renderPass, described, subpass, active, recorded,
                   deviceVars>>

\* Mutant: the index of the acquired image is not stored.
AcquireKeepsIndex ==
    /\ phase = "acquiring" /\ "SUCCESS" \in AcquireResults
    /\ \E i \in Free :
          /\ acquired' = acquired \cup {i}
          /\ Signal(<<"imageAvailable", back>>)
          /\ IF imageIndex < slots
             THEN /\ context' = {[slot |-> back, buffer |-> imageIndex]}
                  /\ phase' = "preparing"
             ELSE /\ phase' = "terminated"
                  /\ UNCHANGED context
    /\ UNCHANGED <<slots, back, images, imageIndex, recreations,
                   passVars, buffer, queueVars>>

\* An image is acquired; its semaphore is signaled later. An image beyond the
\* number of command buffers makes at() throw.
Acquire ==
    /\ phase = "acquiring" /\ "SUCCESS" \in AcquireResults
    /\ \E i \in Free :
          /\ acquired' = acquired \cup {i}
          /\ Signal(<<"imageAvailable", back>>)
          /\ imageIndex' = i
          /\ IF i < slots
             THEN /\ context' = {[slot |-> back, buffer |-> i]}
                  /\ phase' = "preparing"
             ELSE /\ phase' = "terminated"
                  /\ UNCHANGED context
    /\ UNCHANGED <<slots, back, images, recreations, passVars,
                   buffer, queueVars>>

\* An image is acquired from a swap chain that no longer fits: the chain is made
\* anew and the call is repeated with the same semaphore.
AcquireSuboptimal ==
    /\ phase = "acquiring" /\ "SUBOPTIMAL" \in AcquireResults
    /\ recreations < MaxRecreations
    /\ \E i \in Free : acquired' = acquired \cup {i}
    /\ Signal(<<"imageAvailable", back>>)
    /\ phase' = "reacquiring"
    /\ UNCHANGED <<environmentVars, passVars, buffer, queueVars>>

AcquireOutOfDate ==
    /\ phase = "acquiring" /\ "OUT_OF_DATE" \in AcquireResults
    /\ recreations < MaxRecreations
    /\ phase' = "reacquiring"
    /\ UNCHANGED <<environmentVars, passVars, deviceVars>>

\* Any other result is thrown.
AcquireThrows ==
    /\ phase = "acquiring" /\ "ERROR" \in AcquireResults
    /\ phase' = "terminated"
    /\ UNCHANGED <<environmentVars, passVars, deviceVars>>

\* createSwapChain, with as many images as the driver likes; recreateCommandBuffers
\* is not called, so the number of slots stays.
MakeSwapChain ==
    /\ images' \in ImageCounts
    /\ recreations' = recreations + 1

\* Mutant: the swap chain is made anew while the device is working.
RecreateAtOnce ==
    /\ phase \in {"reacquiring", "repairing"}
    /\ MakeSwapChain
    /\ acquired' = {}
    /\ phase' = IF phase = "reacquiring" THEN "acquiring" ELSE "waiting"
    /\ presentQueue' = <<>>
    /\ UNCHANGED <<slots, back, imageIndex, context, passVars, semaphore, buffer,
                   misused, transferQueue, graphicsQueue>>

\* Mutant: asks again and again until all images that were acquired are given back.
RecreateWaitsForImages ==
    /\ phase \in {"reacquiring", "repairing"}
    /\ IF DeviceIdle /\ acquired = {}
       THEN /\ MakeSwapChain
            /\ phase' = IF phase = "reacquiring" THEN "acquiring" ELSE "waiting"
            /\ UNCHANGED <<slots, back, imageIndex, context, passVars, deviceVars>>
       ELSE UNCHANGED vars

\* recreateSwapChain, once the device is idle.
RecreateSwapChain ==
    /\ phase \in {"reacquiring", "repairing"}
    /\ DeviceIdle
    /\ MakeSwapChain
    /\ acquired' = {}
    /\ phase' = IF phase = "reacquiring" THEN "acquiring" ELSE "waiting"
    /\ UNCHANGED <<slots, back, imageIndex, context, passVars, semaphore, buffer,
                   misused, queueVars>>

-----------------------------------------------------------------------------
(***************************************************************************)
(* Recording.                                                              *)
(***************************************************************************)

\* The command buffers of the frame.
Buffers == {"transfer", "graphics"} \X {Current.buffer}

\* createRenderPass describes a subpass for every pass. The id of the render pass is
\* known after the first frame, and the new description is dropped.
Describe == described' = IF described = 0 THEN passes ELSE described

\* initializeRenderPassAndFrameBuffer, then beginFrameCommandBuffers.
PrepareFrame ==
    /\ phase = "preparing"
    /\ Describe
    /\ Move(Buffers, "ready", "recording")
    /\ phase' = "binding"
    /\ UNCHANGED <<environmentVars, passes, done, renderPass, subpass, active, recorded, semaphore, acquired, queueVars>>

\* Mutant: the subpass is not reset.
BindRenderPassStale ==
    /\ phase = "binding" /\ renderPass # "missing"
    /\ renderPass' = "made"
    /\ active' = TRUE /\ recorded' = 0
    /\ done' = 0
    /\ phase' = "recording"
    /\ UNCHANGED <<environmentVars, passes, described, subpass, deviceVars>>

\* bindRenderPass. The first frame makes the render pass.
BindRenderPass ==
    /\ phase = "binding" /\ renderPass # "missing"
    /\ renderPass' = "made"
    /\ active' = TRUE /\ recorded' = 0
    /\ subpass' = 0
    /\ done' = 0
    /\ phase' = "recording"
    /\ UNCHANGED <<environmentVars, passes, described, deviceVars>>

\* The render pass cannot be made: bindRenderPass returns before it begins one.
BindFails ==
    /\ phase = "binding" /\ "bind" \in Failures
    /\ renderPass = "none"
    /\ renderPass' = "missing"
    /\ recorded' = 0
    /\ done' = 0
    /\ phase' = "recording"
    /\ UNCHANGED <<environmentVars, passes, described, subpass, active, deviceVars>>

\* In later frames the render pass is taken for made (see ResourceManager).
BindMissing ==
    /\ phase = "binding" /\ renderPass = "missing"
    /\ subpass' = 0 /\ recorded' = 0
    /\ done' = 0
    /\ phase' = "recording"
    /\ UNCHANGED <<environmentVars, passes, renderPass, described, active, deviceVars>>

\* beginPass, clearAttachments, the pass itself, and endPass unless it is the last.
\* The subpass is looked up in the description of the render pass with at().
ExecutePass ==
    /\ phase = "recording"
    /\ IF subpass >= described
       THEN phase' = "terminated" /\ UNCHANGED <<done, subpass, recorded>>
       ELSE /\ done' = done + 1
            /\ IF done' < passes
               THEN subpass' = subpass + 1 /\ recorded' = recorded + 1 /\ UNCHANGED phase
               ELSE phase' = "finishing" /\ UNCHANGED <<subpass, recorded>>
    /\ UNCHANGED <<environmentVars, passes, renderPass, described, active, deviceVars>>

\* A pass fails or throws: the loop ends, and the frame goes on.
PassFails ==
    /\ phase = "recording" /\ subpass < described
    /\ "pass" \in Failures
    /\ phase' = "finishing"
    /\ UNCHANGED <<environmentVars, passVars, deviceVars>>

\* unbindRenderPass, copyImageToBackBuffer and commitFrameCommandBuffers.
FinishRecording ==
    /\ phase = "finishing"
    /\ active' = FALSE
    /\ Move(Buffers, "recording", "executable")
    /\ phase' = "submitting"
    /\ UNCHANGED <<environmentVars, passes, done, renderPass, described, subpass, recorded,
                   semaphore, acquired, queueVars>>

\* The output is no resource of the graph: execute returns in the middle.
OutputMissing ==
    /\ phase = "finishing" /\ "output" \in Failures
    /\ active' = FALSE
    /\ phase' = "idle"
    /\ UNCHANGED <<environmentVars, passes, done, renderPass, described, subpass, recorded,
                   deviceVars>>

-----------------------------------------------------------------------------
(***************************************************************************)
(* present and endGraphicsFrame.                                           *)
(***************************************************************************)

Batch(wait, signal) == [slot |-> Current.slot, wait |-> wait, signal |-> signal,
                        buffer |-> Current.buffer]

\* The command buffer of a kind is handed to a queue.
Submit(kind, signal) ==
    LET b == <<kind, Current.buffer>>
        s == <<signal, Current.slot>>
    IN  /\ buffer' = [buffer EXCEPT ![b] = "pending"]
        /\ semaphore' = [semaphore EXCEPT ![s] = "pending"]
        /\ misused' = misused \cup (IF buffer[b] = "executable" THEN {} ELSE {"buffer"})
                              \cup (IF semaphore[s] = "unsignaled" THEN {} ELSE {"semaphore"})

SubmitTransfer ==
    /\ phase = "submitting"
    /\ transferQueue' = Append(transferQueue, Batch("imageAvailable", "transferCompleted"))
    /\ Submit("transfer", "transferCompleted")
    /\ phase' = "submittingGraphics"
    /\ UNCHANGED <<environmentVars, passVars, acquired, graphicsQueue, presentQueue>>

SubmitGraphics ==
    /\ phase = "submittingGraphics"
    /\ graphicsQueue' = Append(graphicsQueue, Batch("transferCompleted", "renderCompleted"))
    /\ Submit("graphics", "renderCompleted")
    /\ phase' = "presenting"
    /\ UNCHANGED <<environmentVars, passVars, acquired, transferQueue, presentQueue>>

\* vkQueuePresentKHR waits for the semaphore whatever it answers.
Present ==
    /\ phase = "presenting"
    /\ presentQueue' = Append(presentQueue, [slot |-> Current.slot, image |-> imageIndex])
    /\ acquired' = acquired \ {imageIndex}
    /\ \/ "SUCCESS" \in PresentResults /\ phase' = "waiting"
       \/ /\ PresentResults \cap {"SUBOPTIMAL", "OUT_OF_DATE"} # {}
          /\ recreations < MaxRecreations
          /\ phase' = "repairing"
       \/ "ERROR" \in PresentResults /\ phase' = "terminated"
    /\ UNCHANGED <<environmentVars, passVars, semaphore, buffer, misused,
                   transferQueue, graphicsQueue>>

\* vkQueueWaitIdle, whose failure is ignored, and endGraphicsFrame. What follows
\* in execute destroys nothing (see ResourceManager).
EndFrame ==
    /\ phase = "waiting"
    /\ presentQueue = <<>> \/ "wait" \in Failures
    /\ context' = {}
    /\ phase' = "idle"
    /\ UNCHANGED <<slots, back, images, imageIndex, recreations,
                   passVars, deviceVars>>

-----------------------------------------------------------------------------
(***************************************************************************)
(* The device and the presentation engine.                                 *)
(***************************************************************************)

\* The presentation engine is done with an acquired image.
SignalImageAvailable(k) ==
    /\ semaphore[<<"imageAvailable", k>>] = "pending"
    /\ semaphore' = [semaphore EXCEPT ![<<"imageAvailable", k>>] = "signaled"]
    /\ UNCHANGED <<environmentVars, phase, passVars, buffer, misused, acquired,
                   queueVars>>

\* The batch at the head of a queue executes: its wait is over, its signal given.
Executed(batch, kind) ==
    /\ semaphore[<<batch.wait, batch.slot>>] = "signaled"
    /\ semaphore' = [semaphore EXCEPT ![<<batch.wait, batch.slot>>] = "unsignaled",
                                      ![<<batch.signal, batch.slot>>] = "signaled"]
    /\ Move({<<kind, batch.buffer>>}, "pending", "ready")

ExecuteTransfer ==
    /\ transferQueue # <<>>
    /\ Executed(Head(transferQueue), "transfer")
    /\ transferQueue' = Tail(transferQueue)
    /\ UNCHANGED <<environmentVars, phase, passVars, acquired, graphicsQueue,
                   presentQueue>>

ExecuteGraphics ==
    /\ graphicsQueue # <<>>
    /\ Executed(Head(graphicsQueue), "graphics")
    /\ graphicsQueue' = Tail(graphicsQueue)
    /\ UNCHANGED <<environmentVars, phase, passVars, acquired, transferQueue,
                   presentQueue>>

\* The image is shown, and may be acquired again.
ExecutePresent ==
    /\ presentQueue # <<>>
    /\ LET s == <<"renderCompleted", Head(presentQueue).slot>>
       IN  /\ semaphore[s] = "signaled"
           /\ semaphore' = [semaphore EXCEPT ![s] = "unsignaled"]
    /\ presentQueue' = Tail(presentQueue)
    /\ UNCHANGED <<environmentVars, phase, passVars, buffer, misused, acquired,
                   transferQueue, graphicsQueue>>

\* The steps of a frame that has begun.
FrameStep ==
    \/ Acquire \/ AcquireSuboptimal \/ AcquireOutOfDate \/ AcquireThrows \/ RecreateSwapChain
    \/ PrepareFrame \/ BindRenderPass \/ BindFails \/ BindMissing
    \/ ExecutePass \/ PassFails \/ FinishRecording \/ OutputMissing
    \/ SubmitTransfer \/ SubmitGraphics \/ Present \/ EndFrame

DeviceStep ==
    \/ \E k \in Slot : SignalImageAvailable(k)
    \/ ExecuteTransfer \/ ExecuteGraphics \/ ExecutePresent

Terminated == phase = "terminated" /\ UNCHANGED vars

Next == BeginFrame \/ ContinueFrame \/ FrameStep \/ DeviceStep \/ Terminated

Spec == Init /\ [][Next]_vars

\* execute is one call and runs on; the device works off its queues and the
\* presentation engine releases its images.
FairSpec ==
    /\ Spec
    /\ WF_vars(FrameStep)
    /\ WF_vars(\E k \in Slot : SignalImageAvailable(k))
    /\ WF_vars(ExecuteTransfer) /\ WF_vars(ExecuteGraphics) /\ WF_vars(ExecutePresent)

-----------------------------------------------------------------------------
(***************************************************************************)
(* Properties.                                                             *)
(***************************************************************************)

Batches(queue) == {queue[i] : i \in 1..Len(queue)}

TypeOK ==
    /\ slots \in ImageCounts /\ images \in ImageCounts
    /\ back \in Slot /\ imageIndex \in Nat
    /\ context \subseteq [slot : Slot, buffer : Slot] /\ Cardinality(context) <= 1
    /\ recreations \in 0..MaxRecreations
    /\ phase \in {"idle", "acquiring", "reacquiring", "preparing", "binding", "recording",
                  "finishing", "submitting", "submittingGraphics", "presenting", "repairing", "waiting",
                  "terminated"}
    /\ {passes, described} \subseteq PassCounts \cup {0} /\ done \in Nat
    /\ renderPass \in {"none", "made", "missing"} /\ active \in BOOLEAN
    /\ subpass \in Nat /\ recorded \in Nat
    /\ semaphore \in [Kinds \X Slot -> {"unsignaled", "pending", "signaled"}]
    /\ buffer \in [{"transfer", "graphics"} \X Slot ->
                      {"ready", "recording", "executable", "pending"}]
    /\ misused \subseteq {"semaphore", "buffer"}
    /\ acquired \subseteq Nat /\ acquired \cap Queued = {}
    /\ {transferQueue, graphicsQueue} \subseteq
          Seq([slot : Slot, wait : Kinds, signal : Kinds, buffer : Slot])
    /\ presentQueue \in Seq([slot : Slot, image : Nat])

\* A semaphore is given one signal for one wait, in this order, over all frames
\* and even when the wait at the end of a frame fails: rotating the lists never
\* reaches a semaphore that is still in use, and no queue waits for a signal
\* that nobody will give or that another wait takes.
SemaphoresAlternate ==
    /\ "semaphore" \notin misused
    /\ \A b \in Batches(transferQueue) \cup Batches(graphicsQueue) :
          semaphore[<<b.wait, b.slot>>] # "unsignaled"
    /\ \A p \in Batches(presentQueue) : semaphore[<<"renderCompleted", p.slot>>] # "unsignaled"
    /\ \A queue \in {transferQueue, graphicsQueue, presentQueue} :
          \A i, j \in 1..Len(queue) : queue[i].slot = queue[j].slot => i = j

\* A command buffer is begun, ended and submitted only when the device is done with
\* its last use, and the device holds exactly the pending ones: taking the
\* buffers by the index of the acquired image is enough.
BuffersNotInUse ==
    /\ "buffer" \notin misused
    /\ \A k \in Slot :
          /\ buffer[<<"transfer", k>>] = "pending" <=>
                \E b \in Batches(transferQueue) : b.buffer = k
          /\ buffer[<<"graphics", k>>] = "pending" <=>
                \E b \in Batches(graphicsQueue) : b.buffer = k

\* Between acquiring and presenting, the image the frame copies to and presents is
\* the one it acquired, its buffers are those of this image, and no other image
\* is held back from the presentation engine.
PresentsWhatItAcquired ==
    phase \in {"preparing", "binding", "recording", "finishing", "submitting",
               "submittingGraphics", "presenting"} =>
        /\ acquired = {imageIndex}
        /\ Current.buffer = imageIndex

\* The subpass attachments are cleared for, the subpass the command buffer is in
\* and the number of passes executed agree, whether or not the render pass could be
\* made and whichever pass fails, and commands are recorded within a render pass if
\* there is one. It ends in its last subpass, or in that of the pass that failed.
SubpassesAgree ==
    phase \in {"recording", "finishing"} =>
        /\ active <=> renderPass = "made"
        /\ subpass = recorded
        /\ subpass = IF done = passes THEN described - 1 ELSE done

\* A frame that was begun comes to its end, whatever the swap chain does and whatever
\* fails: no queue and no acquire waits for something that never comes.
FrameReturns == phase # "idle" ~> phase \in {"idle", "terminated"}
==============================================================================
