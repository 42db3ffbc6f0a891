---------------------------- MODULE D3D12Frames ----------------------------
(***************************************************************************)
(* render_d3d12.cpp: how the CPU hands frames and uploads to the GPU, and  *)
(* when it may reuse or release the memory they read.                      *)
(*                                                                         *)
(* One thread calls the renderer; the GPU executes what was submitted      *)
(* later and reports progress through one fence.  FRAME_RESOURCE_COUNT     *)
(* frame slots are used in turn, each with a command allocator, a slice of *)
(* the descriptor heaps and upload buffers that the frame's draws read; a  *)
(* slot may be written again only when the GPU is done with its last use.  *)
(* An object destroyed while the GPU may still read it goes to a list,     *)
(* tagged with the fence after which it can be released, or with 0 while   *)
(* the frame that reads it has no fence yet.                               *)
(*                                                                         *)
(* Objects are ID3D12Resources and other COM objects the GPU reads.  The   *)
(* three upload buffers of a slot are one, the back buffers of the window  *)
(* are one, and "the GPU reads o" is a set: what a command list does with  *)
(* o is left out.                                                          *)
(***************************************************************************)
EXTENDS Integers, FiniteSets

CONSTANTS
  Objects,   \* the COM objects; one released and created again is a new one
  None,      \* no object
  SlotCount, \* FRAME_RESOURCE_COUNT
  MaxFence   \* bound: fence values signalled in a behaviour

ASSUME NoneAssumption == None \notin Objects
ASSUME SlotAssumption == SlotCount \in Nat \ {0}
ASSUME FenceAssumption == MaxFence \in Nat

VARIABLES
  completed,    \* fence->GetCompletedValue()
  submitted,    \* submitted_fence_value; next_fence_value is one more
  inFlight,     \* what the list signalled with a fence value reads
  recorded,     \* what the open command list reads
  frameActive,  \* frame_active
  activeSlot,   \* active_frame_resource_index
  nextSlot,     \* next_frame_resource_index
  slotFence,    \* fence_value of each frame resource
  slotLastUse,  \* history: the fence of the last list made with the slot
  slotBuffer,   \* the upload buffer of each frame resource
  live,         \* the caller's buffers, textures and pipelines
  target,       \* the window's back buffers
  garbage,      \* deferred_releases by fence value; 0: none assigned yet
  cpu,          \* idle, uploading (waiting for an upload) or destroyed
  staging,      \* the upload buffer the upload reads
  created       \* the object it initialises, when the call creates it

vars == <<completed, submitted, inFlight, recorded, frameActive, activeSlot,
          nextSlot, slotFence, slotLastUse, slotBuffer, live, target, garbage,
          cpu, staging, created>>
gpuVars == <<completed, submitted, inFlight>>
slotVars == <<activeSlot, nextSlot, slotFence, slotLastUse, slotBuffer>>
uploadVars == <<cpu, staging, created>>

\* Each definition named Bad... is a plausible mistake in the definition it
\* precedes (a mutant); nothing else uses it.
Slots == 0..(SlotCount - 1)
Fences == 0..MaxFence

Owned == live \cup {slotBuffer[f] : f \in Slots} \cup {target} \cup staging \cup created
Free == {o \in Objects \ Owned : \A v \in Fences : o \notin garbage[v]}

Init == /\ completed = 0 /\ submitted = 0
        /\ inFlight = [v \in Fences |-> {}] /\ recorded = {}
        /\ frameActive = FALSE /\ activeSlot = 0 /\ nextSlot = 0
        /\ slotFence = [f \in Slots |-> 0] /\ slotLastUse = [f \in Slots |-> 0]
        /\ slotBuffer = [f \in Slots |-> None]
        /\ live = {} /\ target = None
        /\ garbage = [v \in Fences |-> {}]
        /\ cpu = "idle" /\ staging = {} /\ created = {}

-----------------------------------------------------------------------------
(* The helpers every entry point is built from *)

\* release_completed_deferred, applied to the list g.
ReleaseCompleted(g) ==
  [v \in Fences |-> IF v # 0 /\ v <= completed THEN {} ELSE g[v]]

BadDeferRelease(g, S) ==  \* as if no frame were being recorded
  IF submitted # 0 /\ completed >= submitted THEN g
                                             ELSE [g EXCEPT ![submitted] = @ \cup S]

\* defer_release of the objects S: at once when the GPU has caught up with
\* the last submission, else behind the fence that covers the last reader.
DeferRelease(g, S) ==
  LET fence == IF frameActive THEN 0 ELSE submitted
  IN  IF fence # 0 /\ completed >= fence
        THEN g
        ELSE [g EXCEPT ![fence] = @ \cup S]

\* mark_frame_deferred_releases: the frame's garbage gets the frame's fence.
MarkDeferred(g, fence) == [g EXCEPT ![fence] = @ \cup g[0], ![0] = {}]

\* ExecuteCommandLists of a list that reads S, then signal_gpu.
Submit(S, g) ==
  /\ submitted < MaxFence
  /\ submitted' = submitted + 1
  /\ inFlight' = [inFlight EXCEPT ![submitted + 1] = S]
  /\ garbage' = MarkDeferred(g, submitted + 1)
  /\ UNCHANGED completed

\* wait_for_gpu returns: guard of the step that follows it.
GpuIdle == completed = submitted

Idle == cpu = "idle" /\ ~frameActive
InFrame == cpu = "idle" /\ frameActive

-----------------------------------------------------------------------------
(* Creating, updating and destroying the caller's objects *)

\* create_buffer (DYNAMIC), create_texture without pixels, create_pipeline.
Create(o) ==
  /\ cpu = "idle" /\ o \in Free
  /\ live' = live \cup {o}
  /\ UNCHANGED <<gpuVars, recorded, frameActive, slotVars, target, garbage, uploadVars>>

\* create_buffer or create_texture inside a frame: the copy is recorded in
\* the frame's list.  A render target whose view heap cannot be created is
\* destroyed again, but the recorded copy still writes it.
CreateInFrame(o, u) ==
  /\ InFrame /\ {o, u} \subseteq Free /\ o # u
  /\ recorded' = recorded \cup {o, u}
  /\ \/ /\ live' = live \cup {o}
        /\ garbage' = DeferRelease(garbage, {u})
     \/ /\ garbage' = DeferRelease(garbage, {o, u})
        /\ UNCHANGED live
  /\ UNCHANGED <<gpuVars, frameActive, slotVars, target, uploadVars>>

\* Outside a frame the upload has a list of its own: wait, reset the upload
\* allocator, record, execute, signal, and wait again.  new is {o} when the
\* call creates o, {} when update_texture writes a live texture.
UploadBegin(o, u, new) ==
  /\ Idle /\ GpuIdle
  /\ u \in Free \ {o}
  /\ IF new = {} THEN o \in live ELSE o \in Free
  /\ Submit({o, u}, ReleaseCompleted(garbage))
  /\ cpu' = "uploading" /\ staging' = {u} /\ created' = new
  /\ UNCHANGED <<recorded, frameActive, slotVars, live, target>>

\* A Reset or Close fails: nothing is executed, both objects are deferred.
UploadFails(o, u, new) ==
  /\ Idle /\ GpuIdle
  /\ u \in Free \ {o}
  /\ IF new = {} THEN o \in live ELSE o \in Free
  /\ garbage' = DeferRelease(ReleaseCompleted(garbage), new \cup {u})
  /\ UNCHANGED <<gpuVars, recorded, frameActive, slotVars, live, target, uploadVars>>

\* The second wait ends; the upload buffer is released.  A render target
\* whose view heap cannot be created is released directly.
UploadEnd ==
  /\ cpu = "uploading" /\ GpuIdle
  /\ garbage' = DeferRelease(ReleaseCompleted(garbage), staging)
  /\ \/ live' = live \cup created
     \/ created # {} /\ UNCHANGED live
  /\ cpu' = "idle" /\ staging' = {} /\ created' = {}
  /\ UNCHANGED <<gpuVars, recorded, frameActive, slotVars, target>>

\* destroy_buffer, destroy_texture, destroy_pipeline: at any time.
Destroy(o) ==
  /\ cpu = "idle" /\ o \in live
  /\ live' = live \ {o}
  /\ garbage' = DeferRelease(garbage, {o})
  /\ UNCHANGED <<gpuVars, recorded, frameActive, slotVars, target, uploadVars>>

-----------------------------------------------------------------------------
(* A frame *)

BadBeginFrame ==  \* no wait for the slot's fence
  /\ Idle
  /\ slotFence' = [slotFence EXCEPT ![nextSlot] = 0]
  /\ activeSlot' = nextSlot /\ nextSlot' = (nextSlot + 1) % SlotCount
  /\ frameActive' = TRUE /\ recorded' = {}
  /\ UNCHANGED <<gpuVars, slotLastUse, slotBuffer, live, target, garbage, uploadVars>>

\* begin_frame: wait for the slot, release what that wait allows, reset the
\* slot's allocator, descriptors and buffers.
BeginFrame ==
  /\ Idle
  /\ completed >= slotFence[nextSlot]
  /\ garbage' = ReleaseCompleted(garbage)
  /\ slotFence' = [slotFence EXCEPT ![nextSlot] = 0]
  /\ activeSlot' = nextSlot
  /\ nextSlot' = (nextSlot + 1) % SlotCount
  /\ frameActive' = TRUE
  /\ recorded' = {}
  /\ UNCHANGED <<gpuVars, slotLastUse, slotBuffer, live, target, uploadVars>>

\* Binding and drawing with o, or copying into it.
Draw(o) ==
  /\ InFrame /\ o \in live
  /\ recorded' = recorded \cup {o}
  /\ UNCHANGED <<gpuVars, frameActive, slotVars, live, target, garbage, uploadVars>>

\* begin_render_pass on the window.
RenderPass ==
  /\ InFrame /\ target # None
  /\ recorded' = recorded \cup {target}
  /\ UNCHANGED <<gpuVars, frameActive, slotVars, live, target, garbage, uploadVars>>

\* allocate_frame_buffer: the slot's buffer has room.
AllocateFits ==
  /\ InFrame /\ slotBuffer[activeSlot] # None
  /\ recorded' = recorded \cup {slotBuffer[activeSlot]}
  /\ UNCHANGED <<gpuVars, frameActive, slotVars, live, target, garbage, uploadVars>>

\* allocate_frame_buffer: ensure_frame_buffer replaces it by a larger one.
AllocateGrows(n) ==
  /\ InFrame /\ n \in Free
  /\ garbage' = DeferRelease(garbage, {slotBuffer[activeSlot]} \ {None})
  /\ slotBuffer' = [slotBuffer EXCEPT ![activeSlot] = n]
  /\ recorded' = recorded \cup {n}
  /\ UNCHANGED <<gpuVars, frameActive, activeSlot, nextSlot, slotFence, slotLastUse,
                 live, target, uploadVars>>

BadPresent ==  \* the slot does not learn its fence
  /\ InFrame /\ target # None
  /\ Submit(recorded \cup {target}, garbage)
  /\ slotLastUse' = [slotLastUse EXCEPT ![activeSlot] = submitted + 1]
  /\ frameActive' = FALSE /\ recorded' = {}
  /\ UNCHANGED <<activeSlot, nextSlot, slotFence, slotBuffer, live, target, uploadVars>>

\* present_window.  Present may fail or report occlusion: the list has been
\* executed and the fence signalled all the same.
Present ==
  /\ InFrame /\ target # None
  /\ Submit(recorded \cup {target}, garbage)
  /\ slotFence' = [slotFence EXCEPT ![activeSlot] = submitted + 1]
  /\ slotLastUse' = [slotLastUse EXCEPT ![activeSlot] = submitted + 1]
  /\ frameActive' = FALSE
  /\ recorded' = {}
  /\ UNCHANGED <<activeSlot, nextSlot, slotBuffer, live, target, uploadVars>>

\* present_window when Close fails: the frame is dropped without a fence,
\* and what it deferred waits for the next signal.
PresentCloseFails ==
  /\ InFrame /\ target # None
  /\ frameActive' = FALSE
  /\ recorded' = {}
  /\ UNCHANGED <<gpuVars, slotVars, live, target, garbage, uploadVars>>

-----------------------------------------------------------------------------
(* The window, the end of the context, and the GPU *)

\* create_window, and resize_window of a window that lost its back buffers.
CreateWindow(n) ==
  /\ Idle /\ target = None /\ n \in Free
  /\ target' = n
  /\ UNCHANGED <<gpuVars, recorded, frameActive, slotVars, live, garbage, uploadVars>>

\* resize_window and destroy_window: the back buffers are released outright,
\* after wait_for_gpu.  n is None when the window is destroyed or when
\* ResizeBuffers fails.  The hosts destroy a window between frames only.
ReplaceTarget(n) ==
  /\ Idle /\ GpuIdle /\ target # None
  /\ target' = n
  /\ garbage' = ReleaseCompleted(garbage)
  /\ UNCHANGED <<gpuVars, recorded, frameActive, slotVars, live, uploadVars>>

\* destroy_context: wait, defer the slots' buffers, release every entry.
DestroyContext ==
  /\ Idle /\ GpuIdle
  /\ cpu' = "destroyed"
  /\ slotBuffer' = [f \in Slots |-> None]
  /\ garbage' = [v \in Fences |-> {}]
  /\ UNCHANGED <<gpuVars, recorded, frameActive, activeSlot, nextSlot, slotFence,
                 slotLastUse, live, target, staging, created>>

\* The GPU finishes the oldest submission and signals its fence.
GpuCompletes ==
  /\ completed < submitted
  /\ completed' = completed + 1
  /\ inFlight' = [inFlight EXCEPT ![completed + 1] = {}]
  /\ UNCHANGED <<submitted, recorded, frameActive, slotVars, live, target, garbage, uploadVars>>

Next ==
  \/ \E o \in Objects : Create(o) \/ Destroy(o) \/ Draw(o) \/ AllocateGrows(o) \/ CreateWindow(o)
  \/ \E o, u \in Objects : CreateInFrame(o, u)
  \/ \E o, u \in Objects : \E new \in {{}, {o}} :
       UploadBegin(o, u, new) \/ UploadFails(o, u, new)
  \/ UploadEnd
  \/ BeginFrame \/ RenderPass \/ AllocateFits \/ Present \/ PresentCloseFails
  \/ \E n \in Free \cup {None} : ReplaceTarget(n)
  \/ DestroyContext
  \/ GpuCompletes

Spec == Init /\ [][Next]_vars

-----------------------------------------------------------------------------
(* Properties *)

TypeOK ==
  /\ completed \in Fences /\ submitted \in Fences /\ completed <= submitted
  /\ inFlight \in [Fences -> SUBSET Objects] /\ recorded \subseteq Objects
  /\ frameActive \in BOOLEAN /\ activeSlot \in Slots /\ nextSlot \in Slots
  /\ slotFence \in [Slots -> Fences] /\ slotLastUse \in [Slots -> Fences]
  /\ slotBuffer \in [Slots -> Objects \cup {None}]
  /\ live \subseteq Objects /\ target \in Objects \cup {None}
  /\ garbage \in [Fences -> SUBSET Objects]
  /\ cpu \in {"idle", "uploading", "destroyed"}
  /\ staging \subseteq Objects /\ created \subseteq Objects

\* The inductive invariant, in parts.

\* Only submissions the GPU has not finished read anything.
InFlightIsPending ==
  \A v \in Fences : inFlight[v] # {} => completed < v /\ v <= submitted

\* Whatever a submission reads is owned, or deferred behind its fence or a
\* later one, or behind the fence of the open frame.
ReadersAreCovered ==
  /\ \A v \in Fences : \A o \in inFlight[v] :
       o \in Owned \/ \E w \in Fences : o \in garbage[w] /\ (w = 0 \/ w >= v)
  /\ \A o \in recorded : o \in Owned \cup garbage[0]

\* Frames and uploads exclude each other.
PhasesAreExclusive ==
  /\ cpu # "idle" => ~frameActive
  /\ cpu # "uploading" => staging = {} /\ created = {}
  /\ ~frameActive => recorded = {}

\* A slot's fence covers every pending use of the slot.
SlotFencesCoverUses ==
  /\ \A f \in Slots : /\ slotLastUse[f] <= completed \/ slotFence[f] = slotLastUse[f]
                      /\ slotLastUse[f] <= submitted
                      /\ slotFence[f] <= submitted
  /\ frameActive => slotLastUse[activeSlot] <= completed
  /\ \A f \in Slots, v \in Fences :
       slotBuffer[f] # None /\ slotBuffer[f] \in inFlight[v] => v <= slotLastUse[f]
  /\ \A f \in Slots : slotBuffer[f] # None /\ slotBuffer[f] \in recorded => f = activeSlot

\* The last submission is complete or some slot waits for it.
LastFenceIsAwaited ==
  /\ \A v \in Fences : garbage[v] # {} => v <= submitted
  /\ cpu = "idle" => submitted <= completed \/ \E f \in Slots : slotFence[f] = submitted

\* Nothing the GPU still reads, or will read once the open list is executed,
\* has been released (defer_release, release_completed_deferred, and the
\* direct releases of resize_window and destroy_context).
NoUseAfterRelease ==
  /\ recorded \cap Free = {}
  /\ \A v \in Fences : inFlight[v] \cap Free = {}

\* While a frame writes its slot (command allocator, descriptors, upload
\* buffer), no submission that the GPU has not finished reads that slot.
FrameMemoryExclusive ==
  frameActive => /\ slotLastUse[activeSlot] <= completed
                 /\ \A v \in Fences : slotBuffer[activeSlot] \notin inFlight[v]

\* An object has one owner: it is not released twice, nor kept in use by a
\* slot or the caller while it waits in the deferred list.
SingleOwner ==
  /\ \A o \in Objects : \A v \in Fences : o \in garbage[v] =>
       /\ o \notin Owned
       /\ \A w \in Fences : o \in garbage[w] => w = v
  /\ \A o \in live : o \notin staging /\ o \notin created /\ o # target
  /\ \A o \in staging : o \notin created /\ o # target
  /\ target \notin created
  /\ \A f \in Slots : slotBuffer[f] # None =>
       /\ slotBuffer[f] \notin live /\ slotBuffer[f] \notin staging
       /\ slotBuffer[f] \notin created /\ slotBuffer[f] # target
       /\ \A g \in Slots : slotBuffer[f] = slotBuffer[g] => f = g

\* Between calls, a deferred object's fence is one that a frame slot still
\* has to wait for: begin_frame releases it within SlotCount frames, and it
\* cannot pile up until the deferred list is full.
GarbageTiedToFrame ==
  cpu = "idle" =>
    \A v \in Fences \ {0} : garbage[v] # {} =>
      \/ v <= completed
      \/ \E f \in Slots : slotFence[f] >= v

Inv == /\ TypeOK /\ SingleOwner /\ PhasesAreExclusive
       /\ InFlightIsPending /\ ReadersAreCovered
       /\ SlotFencesCoverUses /\ LastFenceIsAwaited
=============================================================================
