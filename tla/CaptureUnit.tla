------------------------------ MODULE CaptureUnit ------------------------------
(***************************************************************************)
(* The ISYS buffer cycle of src/core/CaptureUnit.cpp and DeviceBase.cpp:   *)
(* raw buffers wait in mPendingBuffers, are put into the driver and listed *)
(* in mBuffersInDevice, are taken out by the poll thread, go through the   *)
(* processing unit and come back by qbuf.  Everyone who adds a buffer or   *)
(* makes room for one also queues what is pending (processPendingBuffers), *)
(* so several threads do it at once; there is one device, as createDevices *)
(* makes one.                                                              *)
(*                                                                         *)
(* One action is one section of mBufferLock with what the thread reads     *)
(* right after it, or one call of the driver.  The numbers of the buffers  *)
(* stand for the buffers: a session allocates new ones with the same       *)
(* V4L2 indices.                                                           *)
(***************************************************************************)
EXTENDS Integers, Sequences, FiniteSets, TLC

CONSTANTS
    NumBuffers,            \* raw buffers the processing unit allocates
    mMaxBuffersInDevice,   \* exposure lag + 1, at least 2
    Returners,             \* threads of the processing unit that call qbuf
    main, poll,            \* the thread of the application, the poll thread
    InitialSkip,           \* frames to skip after stream on
    MaxStops,              \* bound: calls of stop
    MaxPutFails,           \* bound: PutFrame calls that fail for no reason
    MaxBadFrames           \* bound: frames with V4L2_BUF_FLAG_ERROR

Buffers == 1 .. NumBuffers
Threads == Returners \cup {main, poll}

ASSUME BuffersAssumption == NumBuffers \in Nat \ {0}
ASSUME DeviceAssumption == mMaxBuffersInDevice \in Nat /\ mMaxBuffersInDevice >= 2
ASSUME ThreadAssumption ==
    main # poll /\ main \notin Returners /\ poll \notin Returners
ASSUME FiniteAssumption == IsFiniteSet(Returners)
ASSUME BoundAssumption ==
    InitialSkip \in Nat /\ MaxStops \in Nat /\ MaxPutFails \in Nat /\ MaxBadFrames \in Nat

VARIABLES
    mState,            \* of the CaptureUnit
    mExitPending,
    flush,             \* a byte is in the flush pipe
    mPendingBuffers,
    mBuffersInDevice,
    mBufferQueuing,
    mFrameSkipNum,
    driver,            \* buffers the driver has, in order
    done,              \* how many of them are filled
    streaming,         \* the V4L2 node is started
    out,               \* buffers with the pipeline or just allocated
    pc,                \* where each thread is
    held,              \* buffer each thread is queueing
    failed,            \* ... and whether that failed
    grabbed,           \* camBuffer of dequeueBuffer
    mNeedSkipFrame,
    ctl,               \* where start and stop of the CameraDevice are
    stops, putFails, badFrames,
    late               \* a session left something behind (see Joined)

lists == <<mPendingBuffers, mBuffersInDevice, mBufferQueuing>>
kernel == <<driver, done, streaming>>
unit == <<mState, mExitPending, flush, ctl, stops, late>>
dequeue == <<grabbed, mNeedSkipFrame, mFrameSkipNum, badFrames>>
vars == <<lists, kernel, unit, dequeue, out, pc, held, failed, putFails>>

Init ==
    /\ mState = "CONFIGURE" /\ mExitPending = FALSE /\ flush = FALSE
    /\ mPendingBuffers = <<>> /\ mBuffersInDevice = <<>> /\ mBufferQueuing = FALSE
    /\ mFrameSkipNum = InitialSkip
    /\ driver = <<>> /\ done = 0 /\ streaming = FALSE
    /\ out = {}
    /\ pc = [t \in Threads |-> IF t = poll THEN "exited" ELSE "idle"]
    /\ held = [t \in Threads |-> 0] /\ failed = [t \in Threads |-> FALSE]
    /\ grabbed = 0 /\ mNeedSkipFrame = FALSE
    /\ ctl = "stopped" /\ stops = 0 /\ putFails = 0 /\ badFrames = 0
    /\ late = FALSE

Goto(t, label) == pc' = [pc EXCEPT ![t] = label]

(* Where processPendingBuffers returns to.                                 *)
Return(t) == IF t = poll THEN "deliver" ELSE "idle"

-----------------------------------------------------------------------------
(* qbuf and processPendingBuffers.                                         *)

(* qbuf: the processing unit gives a buffer back, or, while start runs,    *)
(* allocProducerBuffers its new ones in their order.                       *)
AddPending(t, b) ==
    /\ pc[t] = "idle" /\ b \in out /\ (t = main <=> ctl = "alloc")
    /\ t = main => \A c \in out : b <= c
    /\ out' = out \ {b}
    /\ mPendingBuffers' = Append(mPendingBuffers, b)
    /\ Goto(t, "size")
    /\ UNCHANGED <<mBuffersInDevice, mBufferQueuing, kernel, unit, dequeue, held, failed,
                   putFails>>

HasRoomLoose == Len(mBuffersInDevice) <= mMaxBuffersInDevice   \* mutated form

HasRoom == Len(mBuffersInDevice) < mMaxBuffersInDevice

(* The condition of the loop, in a lock section of its own.                *)
TestSize(t) ==
    /\ pc[t] = "size"
    /\ Goto(t, IF HasRoom THEN "pending" ELSE Return(t))
    /\ UNCHANGED <<lists, kernel, unit, dequeue, out, held, failed, putFails>>

(* hasPendingBuffer, and mExitPending at the start of queueAllBuffers.     *)
TestPending(t) ==
    /\ pc[t] = "pending"
    /\ Goto(t, IF mPendingBuffers = <<>> \/ mExitPending THEN Return(t) ELSE "front")
    /\ UNCHANGED <<lists, kernel, unit, dequeue, out, held, failed, putFails>>

MayQueue == ~mBufferQueuing   \* not DEV_BUSY

(* The first section of queueBuffer.                                       *)
TakeFront(t) ==
    /\ pc[t] = "front"
    /\ CASE ~MayQueue ->
              /\ Goto(t, Return(t))
              /\ UNCHANGED <<mBufferQueuing, held>>
         [] MayQueue /\ mPendingBuffers = <<>> ->
              /\ Goto(t, "next")
              /\ UNCHANGED <<mBufferQueuing, held>>
         [] OTHER ->
              /\ held' = [held EXCEPT ![t] = Head(mPendingBuffers)]
              /\ mBufferQueuing' = TRUE
              /\ Goto(t, "put")
    /\ failed' = [failed EXCEPT ![t] = FALSE]
    /\ UNCHANGED <<mPendingBuffers, mBuffersInDevice, kernel, unit, dequeue, out, putFails>>

InDriver(b) == \E i \in DOMAIN driver : driver[i] = b

(* PutFrame.  The driver takes buffers whether it streams or not, but not  *)
(* one it has already; any other failure is counted.                       *)
PutFrame(t) ==
    /\ pc[t] = "put" /\ ~InDriver(held[t])
    /\ driver' = Append(driver, held[t])
    /\ Goto(t, "move")
    /\ UNCHANGED <<lists, done, streaming, unit, dequeue, out, held, failed, putFails>>

PutFrameFails(t) ==
    /\ pc[t] = "put"
    /\ \/ InDriver(held[t]) /\ UNCHANGED putFails
       \/ ~InDriver(held[t]) /\ putFails < MaxPutFails /\ putFails' = putFails + 1
    /\ failed' = [failed EXCEPT ![t] = TRUE]
    /\ Goto(t, "clear")
    /\ UNCHANGED <<lists, kernel, unit, dequeue, out, held>>

(* Mutated form of the next: pushed to the wrong end.                      *)
MoveToDeviceFront(t) ==
    /\ pc[t] = "move" /\ mPendingBuffers # <<>>
    /\ mPendingBuffers' = Tail(mPendingBuffers)
    /\ mBuffersInDevice' = <<held[t]>> \o mBuffersInDevice
    /\ Goto(t, "clear")
    /\ UNCHANGED <<mBufferQueuing, kernel, unit, dequeue, out, held, failed, putFails>>

(* The second section: whatever is in front now leaves mPendingBuffers.    *)
MoveToDevice(t) ==
    /\ pc[t] = "move"
    /\ mPendingBuffers # <<>>
    /\ mPendingBuffers' = Tail(mPendingBuffers)
    /\ mBuffersInDevice' = Append(mBuffersInDevice, held[t])
    /\ Goto(t, "clear")
    /\ UNCHANGED <<mBufferQueuing, kernel, unit, dequeue, out, held, failed, putFails>>

(* pop_front of the empty list is undefined.  As built it frees the list's *)
(* own head: the process aborts and the kernel closes the device.          *)
Abort(t) ==
    /\ pc[t] = "move" /\ mPendingBuffers = <<>>
    /\ pc' = [u \in Threads |-> "dead"] /\ ctl' = "dead"
    /\ driver' = <<>> /\ done' = 0 /\ streaming' = FALSE
    /\ UNCHANGED <<lists, mState, mExitPending, flush, stops, late, dequeue, out, held, failed,
                   putFails>>

(* Mutated form of the next: the flag is left set.                         *)
ClearQueuingForgotten(t) ==
    /\ pc[t] = "clear"
    /\ held' = [held EXCEPT ![t] = 0]
    /\ Goto(t, "next")
    /\ UNCHANGED <<lists, kernel, unit, dequeue, out, failed, putFails>>

ClearQueuing(t) ==
    /\ pc[t] = "clear"
    /\ mBufferQueuing' = FALSE
    /\ held' = [held EXCEPT ![t] = 0]
    /\ Goto(t, "next")
    /\ UNCHANGED <<mPendingBuffers, mBuffersInDevice, kernel, unit, dequeue, out, failed,
                   putFails>>

(* Mutated form of the next: no further turn of the loop.                  *)
AgainNever(t) == FALSE

(* The tests after queueBuffer in queueAllBuffers and its caller.          *)
Again(t) == ~mExitPending /\ ~failed[t]

NextTurn(t) ==
    /\ pc[t] = "next"
    /\ Goto(t, IF Again(t) THEN "size" ELSE Return(t))
    /\ UNCHANGED <<lists, kernel, unit, dequeue, out, held, failed, putFails>>

ProcessPendingBuffers(t) ==
    \/ TestSize(t) \/ TestPending(t) \/ TakeFront(t) \/ PutFrame(t) \/ PutFrameFails(t)
    \/ MoveToDevice(t) \/ Abort(t) \/ ClearQueuing(t) \/ NextTurn(t)

-----------------------------------------------------------------------------
(* The poll thread.                                                        *)

(* The tests at the start of poll; another result than 0 ends the thread.  *)
PollEnter ==
    /\ pc[poll] = "enter"
    /\ Goto(poll, IF mState \in {"CONFIGURE", "START"} /\ ~mExitPending
                  THEN "wait" ELSE "exited")
    /\ UNCHANGED <<lists, kernel, unit, dequeue, out, held, failed, putFails>>

Filled == streaming /\ done > 0

PollWakesOnFrameOnly == Filled   \* mutated form of the next
PollWakes == Filled \/ flush

(* Poll returns: on the flush pipe no device is ready.                     *)
PollReturns ==
    /\ pc[poll] = "wait" /\ PollWakes
    /\ Goto(poll, IF mExitPending THEN "exited" ELSE IF flush THEN "enter" ELSE "first")
    /\ UNCHANGED <<lists, kernel, unit, dequeue, out, held, failed, putFails>>

(* Ten timeouts: recovery is left to the next call.                        *)
PollTimeout ==
    /\ pc[poll] = "wait" /\ ~PollWakes
    /\ Goto(poll, IF mExitPending THEN "exited" ELSE "enter")
    /\ UNCHANGED <<lists, kernel, unit, dequeue, out, held, failed, putFails>>

(* getFirstDeviceBuffer.  The driver may be done with a buffer that its    *)
(* queuer has not put into mBuffersInDevice yet: UNKNOWN_ERROR.            *)
GetFirstDeviceBuffer ==
    /\ pc[poll] = "first"
    /\ IF mBuffersInDevice = <<>>
       THEN Goto(poll, "enter") /\ UNCHANGED grabbed
       ELSE Goto(poll, "grab") /\ grabbed' = Head(mBuffersInDevice)
    /\ UNCHANGED <<lists, kernel, unit, mNeedSkipFrame, mFrameSkipNum, badFrames, out, held,
                   failed, putFails>>

(* GrabFrame and needQueueBack; it fails after stream off.                 *)
GrabFrame ==
    /\ pc[poll] = "grab" /\ Filled
    /\ driver' = Tail(driver) /\ done' = done - 1
    /\ \E bad \in BOOLEAN :
          /\ bad => badFrames < MaxBadFrames
          /\ badFrames' = badFrames + (IF bad THEN 1 ELSE 0)
          /\ mNeedSkipFrame' = (bad \/ mFrameSkipNum > 0)
    /\ Goto(poll, "pop")
    /\ UNCHANGED <<lists, streaming, unit, grabbed, mFrameSkipNum, out, held, failed, putFails>>

GrabFrameFails ==
    /\ pc[poll] = "grab" /\ ~Filled
    /\ grabbed' = 0
    /\ Goto(poll, "enter")
    /\ UNCHANGED <<lists, kernel, unit, mNeedSkipFrame, mFrameSkipNum, badFrames, out, held,
                   failed, putFails>>

(* Mutated form of the next: a skipped frame's buffer is forgotten.        *)
PushBackNever == <<>>

PushBack == IF mNeedSkipFrame THEN <<Head(mBuffersInDevice)>> ELSE <<>>

(* popBufferFromDevice; then onDequeueBuffer queues what is pending.       *)
PopBufferFromDevice ==
    /\ pc[poll] = "pop"
    /\ IF mBuffersInDevice = <<>>
       THEN UNCHANGED <<mPendingBuffers, mBuffersInDevice>>
       ELSE /\ mBuffersInDevice' = Tail(mBuffersInDevice)
            /\ mPendingBuffers' = mPendingBuffers \o PushBack
    /\ Goto(poll, "size")
    /\ UNCHANGED <<mBufferQueuing, kernel, unit, dequeue, out, held, failed, putFails>>

SkipLeftUnguarded == mFrameSkipNum - 1   \* mutated form
SkipLeft == IF mFrameSkipNum > 0 THEN mFrameSkipNum - 1 ELSE 0

(* onBufferAvailable unless the frame is skipped, and the end of poll.     *)
Deliver ==
    /\ pc[poll] = "deliver"
    /\ out' = IF mNeedSkipFrame THEN out ELSE out \cup {grabbed}
    /\ grabbed' = 0 /\ mNeedSkipFrame' = FALSE
    /\ mFrameSkipNum' = SkipLeft
    /\ Goto(poll, IF mExitPending THEN "exited" ELSE "enter")
    /\ UNCHANGED <<lists, kernel, unit, badFrames, held, failed, putFails>>

PollStep ==
    \/ PollEnter \/ PollReturns \/ GetFirstDeviceBuffer \/ GrabFrame \/ GrabFrameFails
    \/ PopBufferFromDevice \/ Deliver

(* The driver fills a buffer.                                              *)
FrameDone ==
    /\ streaming /\ done < Len(driver)
    /\ done' = done + 1
    /\ UNCHANGED <<lists, driver, streaming, unit, dequeue, out, pc, held, failed, putFails>>

-----------------------------------------------------------------------------
(* start, stop and configure, as CameraDevice calls them.                  *)

(* ProcessingUnit::start allocates the buffers, main calls qbuf for each.  *)
Alloc ==
    /\ ctl = "stopped"
    /\ out' = Buffers /\ ctl' = "alloc"
    /\ UNCHANGED <<lists, kernel, mState, mExitPending, flush, stops, late, dequeue, pc, held,
                   failed, putFails>>

(* CaptureUnit::start up to the start of the thread; it empties the pipe.  *)
Start ==
    /\ ctl = "alloc" /\ out = {} /\ pc[main] = "idle"
    /\ streaming' = TRUE /\ mFrameSkipNum' = InitialSkip
    /\ flush' = FALSE /\ mExitPending' = FALSE
    /\ Goto(poll, "enter")
    /\ ctl' = "starting"
    /\ UNCHANGED <<lists, driver, done, mState, stops, late, grabbed, mNeedSkipFrame, badFrames,
                   out, held, failed, putFails>>

Started ==
    /\ ctl = "starting"
    /\ mState' = "START" /\ ctl' = "started"
    /\ UNCHANGED <<lists, kernel, mExitPending, flush, stops, late, dequeue, out, pc, held,
                   failed, putFails>>

Stop ==
    /\ ctl = "started" /\ stops < MaxStops
    /\ mExitPending' = TRUE /\ flush' = TRUE
    /\ ctl' = "exit" /\ stops' = stops + 1
    /\ UNCHANGED <<lists, kernel, mState, late, dequeue, out, pc, held, failed, putFails>>

StreamOff ==
    /\ ctl = "exit"
    /\ streaming' = FALSE /\ driver' = <<>> /\ done' = 0
    /\ ctl' = "wait"
    /\ UNCHANGED <<lists, mState, mExitPending, flush, stops, late, dequeue, out, pc, held,
                   failed, putFails>>

Queuing == {t \in Threads : pc[t] \in {"put", "move", "clear"}}

(* The poll thread has ended: resetBuffers, whoever is in queueBuffer.     *)
ResetBuffers ==
    /\ ctl = "wait" /\ pc[poll] = "exited"
    /\ mState' = "STOP"
    /\ mBuffersInDevice' = <<>> /\ mPendingBuffers' = <<>>
    /\ late' = (late \/ Queuing # {})
    /\ ctl' = "reset"
    /\ UNCHANGED <<mBufferQueuing, kernel, mExitPending, flush, stops, dequeue, out, pc, held,
                   failed, putFails>>

StopReturns ==
    /\ ctl = "reset"
    /\ mExitPending' = FALSE /\ ctl' = "joining"
    /\ UNCHANGED <<lists, kernel, mState, flush, stops, late, dequeue, out, pc, held, failed,
                   putFails>>

(* ProcessingUnit::stop and CameraScheduler::stop: its threads are done.   *)
Joined ==
    /\ ctl = "joining" /\ \A t \in Returners : pc[t] = "idle"
    /\ out' = {} /\ ctl' = "stopped"
    /\ late' = (late \/ mPendingBuffers # <<>> \/ driver # <<>>)
    /\ UNCHANGED <<lists, kernel, mState, mExitPending, flush, stops, dequeue, pc, held, failed,
                   putFails>>

(* createDevices makes a new device.                                       *)
Configure ==
    /\ ctl = "stopped" /\ mState = "STOP"
    /\ mState' = "CONFIGURE" /\ mExitPending' = FALSE
    /\ mPendingBuffers' = <<>> /\ mBuffersInDevice' = <<>> /\ mBufferQueuing' = FALSE
    /\ driver' = <<>> /\ done' = 0 /\ streaming' = FALSE /\ late' = FALSE
    /\ UNCHANGED <<flush, ctl, stops, dequeue, out, pc, held, failed, putFails>>

Control ==
    \/ Alloc \/ Start \/ Started \/ Stop \/ StreamOff \/ ResetBuffers \/ StopReturns
    \/ Joined \/ Configure

Next ==
    \/ \E t \in Threads : ProcessPendingBuffers(t)
    \/ \E t \in Threads, b \in Buffers : AddPending(t, b)
    \/ PollStep \/ PollTimeout \/ FrameDone \/ Control

Spec == Init /\ [][Next]_vars

(* Every thread goes on, the driver fills the buffers it has, the pipeline *)
(* gives every buffer back, and whoever is in start or stop comes to its   *)
(* end.  Nobody has to call them, and no timeout is assumed to help.       *)
FairSpec ==
    /\ Spec
    /\ \A t \in Threads : WF_vars(ProcessPendingBuffers(t))
    /\ \A t \in Threads \ {poll} :
          WF_vars(\E b \in Buffers : AddPending(t, b))
    /\ WF_vars(PollStep)
    /\ WF_vars(FrameDone)
    /\ WF_vars(Start \/ Started \/ StreamOff \/ ResetBuffers \/ StopReturns \/ Joined)

-----------------------------------------------------------------------------
Labels == {"idle", "size", "pending", "front", "put", "move", "clear", "next", "exited",
           "enter", "wait", "first", "grab", "pop", "deliver", "dead"}

TypeOK ==
    /\ mState \in {"CONFIGURE", "START", "STOP"}
    /\ mExitPending \in BOOLEAN /\ flush \in BOOLEAN
    /\ mPendingBuffers \in Seq(Buffers) /\ mBuffersInDevice \in Seq(Buffers)
    /\ mBufferQueuing \in BOOLEAN
    /\ mFrameSkipNum \in 0 .. InitialSkip
    /\ driver \in Seq(Buffers) /\ done \in 0 .. Len(driver) /\ streaming \in BOOLEAN
    /\ out \subseteq Buffers
    /\ pc \in [Threads -> Labels]
    /\ held \in [Threads -> 0 .. NumBuffers] /\ failed \in [Threads -> BOOLEAN]
    /\ grabbed \in 0 .. NumBuffers /\ mNeedSkipFrame \in BOOLEAN
    /\ ctl \in {"stopped", "alloc", "starting", "started", "exit", "wait", "reset", "joining",
               "dead"}
    /\ stops \in 0 .. MaxStops /\ putFails \in 0 .. MaxPutFails
    /\ badFrames \in 0 .. MaxBadFrames
    /\ late \in BOOLEAN

Running == mState = "START" /\ ~mExitPending

(* The test of the size and the put are lock sections apart, so the device *)
(* can have more than the mMaxBuffersInDevice that CaptureUnit.h says "to   *)
(* control the number of buffers enqueued, for per-frame control", but at   *)
(* most one more per thread of the processing unit.                        *)
DeviceBounded ==
    Len(mBuffersInDevice) <= mMaxBuffersInDevice + Cardinality(Returners)

(* mBuffersInDevice lists what the driver has, in the driver's order, but  *)
(* for a buffer one thread has just put and one the poll thread has just   *)
(* grabbed: so the buffer dequeueBuffer hands out is the one that was      *)
(* filled.                                                                 *)
Putting ==
    LET moving == {t \in Threads : pc[t] = "move"}
    IN  IF moving = {} THEN <<>> ELSE <<held[CHOOSE t \in moving : TRUE]>>

DriverAgrees ==
    ~late /\ mState # "STOP" /\ ctl \notin {"wait", "reset", "dead"} =>
        mBuffersInDevice \o Putting
            = (IF pc[poll] = "pop" THEN <<grabbed>> ELSE <<>>) \o driver

(* Within a session every buffer is in exactly one place.                  *)
Places(b) ==
    Cardinality({i \in DOMAIN mPendingBuffers : mPendingBuffers[i] = b})
      + Cardinality({i \in DOMAIN mBuffersInDevice : mBuffersInDevice[i] = b})
      + (IF b \in out THEN 1 ELSE 0)
      + (IF /\ grabbed = b /\ ~mNeedSkipFrame
            /\ pc[poll] \in {"size", "pending", "front", "put", "move", "clear", "next",
                             "deliver"}
         THEN 1 ELSE 0)

NoBufferLost ==
    ~late /\ ctl \in {"alloc", "starting", "started"} => \A b \in Buffers : Places(b) = 1

(* Nobody sleeps on work: with no thread in processPendingBuffers and none *)
(* that failed there, a pending buffer is one the device has no room for.  *)
Busy == \E t \in Threads : pc[t] \in {"size", "pending", "front", "put", "move", "clear", "next"}

NoLostKick ==
    Running /\ ~late /\ putFails = 0 /\ ~Busy => mPendingBuffers = <<>> \/ ~HasRoom

(* CaptureUnit.h of start: "2. Running the pool Thread".                   *)
PollThreadRuns == Running => pc[poll] # "exited"

(* DeviceBase.h: "Buffer to be queued into drive comes from                *)
(* mPendingBuffers": what leaves the list is what was put.                 *)
PoppedIsPut ==
    \A t \in Threads :
        pc[t] = "move" => mPendingBuffers # <<>> /\ Head(mPendingBuffers) = held[t]

(* While the poll thread lives frames keep coming, whatever was skipped.   *)
CaptureGoesOn ==
    []<>(\/ pc[poll] = "deliver" \/ pc[poll] = "exited" \/ ~Running
         \/ late \/ putFails > 0)

(* stop comes to its end, with or without frames, for the flush pipe wakes *)
(* the poll thread.                                                        *)
StopTerminates == ctl \in {"exit", "wait"} ~> ctl \in {"reset", "dead"}
=============================================================================
