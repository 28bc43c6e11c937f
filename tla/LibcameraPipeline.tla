--------------------------- MODULE LibcameraPipeline ---------------------------
(***************************************************************************)
(* The libcamera pipeline handler (libcamera/ipu7.cpp) with the pool of    *)
(* request records (Frames.cpp) and the source of black frames that takes  *)
(* the sensor's place while the privacy shutter is closed                  *)
(* (PrivacyControl.cpp, HwPrivacyControl.cpp).                             *)
(*                                                                         *)
(* The capture thread of libcamera hands in requests and stops the camera. *)
(* The result thread is sent the events of the source (shutter, metadata,  *)
(* buffer) and completes the requests, and it queues requests too, those   *)
(* that found no free record.  The source is the device (RequestThread and *)
(* ProcessingUnit, here only as far as it can be seen from the handler) or *)
(* the thread of PrivacyControl.                                           *)
(***************************************************************************)
EXTENDS Integers, Sequences, FiniteSets, SequencesExt, FiniteSetsExt

CONSTANTS
    NumStreams,             \* configured streams
    kMaxProcessingRequest,  \* records in the pool
    MaxOutstanding,         \* requests the application has queued at once
    Wants,                  \* bound: the sets of streams requests ask for
    Scenarios,              \* bound: [moves: of the privacy shutter,
                            \*         stops: is the camera stopped]
    MaxRequests             \* bound: requests

Streams == 1 .. NumStreams
Ids     == 1 .. MaxRequests
Infos   == 1 .. kMaxProcessingRequest
None    == 0

ASSUME PipelineAssumption ==
    /\ NumStreams \in Nat \ {0} /\ kMaxProcessingRequest \in Nat \ {0}
    /\ MaxOutstanding \in Nat \ {0} /\ MaxRequests \in Nat
    /\ Wants \subseteq (SUBSET Streams) \ {{}}
    /\ \A c \in Scenarios : c.moves \in Nat /\ c.stops \in BOOLEAN

VARIABLES
    scenario, moved,        \* what happens to the camera; shutter moves so far
    requests,               \* the streams each request wants, in order
    \* IPU7CameraData
    mPendingRequests, mRequestInProgress, mCameraStarted, mPrivacyStarted,
    mMutex,                 \* who holds it, and where processNewRequest is
    capture,                \* the capture thread
    result, events,         \* the result thread and its queue
    \* IPUFrames
    mAvailableRequestBuffers, mProcessingRequests, infos,
    \* the device: requests it has, is the handler bound to it, the frames
    \* that wait for dqbuf
    device, mOutputFrames,
    \* PrivacyControl (what it has still to tell, and to fill), HwPrivacyControl
    privacy, mCaptureRequest, mStreamQueueMap, hw,
    \* the application: what it was told of each request, those completed
    told, completed

handler == <<mPendingRequests, mRequestInProgress, mCameraStarted, mPrivacyStarted, mMutex>>
pool    == <<mAvailableRequestBuffers, mProcessingRequests, infos>>
sensor  == <<device, mOutputFrames>>
black   == <<privacy, mCaptureRequest, mStreamQueueMap, hw>>
app     == <<scenario, moved, requests, told, completed>>
vars    == <<app, handler, capture, result, events, pool, sensor, black>>

Unlocked == [by |-> "none", pc |-> "none", info |-> None]
Resting  == [pc |-> "idle", stream |-> None, id |-> None]

Init ==
    /\ scenario \in Scenarios /\ moved = 0
    /\ requests = <<>>
    /\ mPendingRequests = <<>>
    /\ mRequestInProgress = [s \in Streams |-> 0]
    /\ mCameraStarted = FALSE
    /\ mPrivacyStarted \in BOOLEAN
    /\ mMutex = Unlocked
    /\ capture = [pc |-> "idle", task |-> "none", stream |-> None]
    /\ result = Resting /\ events = <<>>
    /\ mAvailableRequestBuffers = [i \in Infos |-> i]
    /\ mProcessingRequests = [r \in Ids |-> None]
    /\ infos = [i \in Infos |-> [id |-> None, out |-> {}, meta |-> FALSE, shutter |-> FALSE]]
    /\ device = [on |-> FALSE, exit |-> FALSE, bound |-> TRUE, requests |-> <<>>]
    /\ mOutputFrames = [s \in Streams |-> <<>>]
    /\ privacy = [running |-> FALSE, alive |-> FALSE, tell |-> <<>>, job |-> <<>>]
    /\ mCaptureRequest = <<>>
    /\ mStreamQueueMap = [s \in Streams |-> <<>>]
    /\ hw = [running |-> FALSE, state |-> mPrivacyStarted]
    /\ told = [r \in Ids |-> [bufs |-> {}, ran |-> "none", read |-> "none"]]
    /\ completed = <<>>

Source == IF mPrivacyStarted THEN "privacy" ELSE "device"

-----------------------------------------------------------------------------
(* The capture thread: handleNewRequest with processPrivacySwitch, stop.   *)

(* Mutated form: the switch does not wait.                                 *)
BusyNever(from) == {}

(* Streams, from the one waitAllRequestsDone has come to, with a buffer    *)
(* that is not dequeued.                                                   *)
Busy(from) == {s \in from .. NumStreams : mRequestInProgress[s] > 0}

(* waitAllRequestsDone up to its first wait, and from each wait to the     *)
(* next, is one section of mLock.                                          *)
WaitFrom(s) ==
    IF Busy(s) = {}
    THEN [pc |-> "halt", task |-> "switch", stream |-> None]
    ELSE [pc |-> "wait", task |-> "switch", stream |-> Min(Busy(s))]

HandleNewRequest ==
    /\ capture.pc = "idle"
    /\ Len(requests) < MaxRequests
    /\ Len(requests) - Len(completed) < MaxOutstanding
    /\ \E w \in Wants : requests' = Append(requests, w)
    /\ capture' = IF mPrivacyStarted # hw.state THEN WaitFrom(1)
                  ELSE [capture EXCEPT !.pc = "push"]
    /\ UNCHANGED <<scenario, moved, told, completed, handler, result, events, pool,
                   sensor, black>>

WaitAllRequestsDone ==
    /\ capture.pc = "wait"
    /\ mRequestInProgress[capture.stream] = 0
    /\ capture' = WaitFrom(capture.stream)
    /\ UNCHANGED <<app, handler, result, events, pool, sensor, black>>

AfterHalt == [capture EXCEPT !.pc = IF capture.task = "switch" THEN "clear" ELSE "exit"]

(* PrivacyControl::stop, its section of mLock.                             *)
StopPrivacy ==
    /\ capture.pc = "halt" /\ mPrivacyStarted
    /\ privacy' = [privacy EXCEPT !.running = FALSE]
    /\ mCaptureRequest' = <<>>
    /\ capture' = [capture EXCEPT !.pc = "join"]
    /\ UNCHANGED <<app, handler, result, events, pool, sensor, mStreamQueueMap, hw>>

(* Mutated form: PrivacyControl::stop does not wait for its thread.        *)
PrivacyEndedAssumed == TRUE

PrivacyEnded == ~privacy.alive

JoinPrivacy ==
    /\ capture.pc = "join" /\ PrivacyEnded
    /\ capture' = AfterHalt
    /\ UNCHANGED <<app, handler, result, events, pool, sensor, black>>

(* stopStream: clearRequests drops frames and the requests that the        *)
(* processing unit has not seen.                                           *)
ClearRequests ==
    /\ capture.pc = "halt" /\ ~mPrivacyStarted
    /\ mOutputFrames' = [s \in Streams |-> <<>>]
    /\ \E k \in 0 .. Len(device.requests) :
         /\ \A j \in DOMAIN device.requests : j > k => device.requests[j].at = "queued"
         /\ device' = [device EXCEPT !.requests = SubSeq(@, 1, k)]
    /\ capture' = [capture EXCEPT !.pc = "halting"]
    /\ UNCHANGED <<app, handler, result, events, pool, black>>

(* The rest of it stops the threads of the device: a request whose task    *)
(* was dispatched has its metadata sent before.                            *)
StopStream ==
    /\ capture.pc = "halting"
    /\ \A j \in DOMAIN device.requests : device.requests[j].at # "dispatched"
    /\ device' = [device EXCEPT !.on = FALSE, !.requests = <<>>]
    /\ capture' = [capture EXCEPT !.pc = IF capture.task = "switch" THEN "configure" ELSE "exit"]
    /\ UNCHANGED <<app, handler, result, events, pool, mOutputFrames, black>>

(* deviceConfigure makes a new ProcessingUnit and new executors.  The      *)
(* listeners were bound to the old one and the executors started in start, *)
(* which is not called again.                                              *)
DeviceConfigure ==
    /\ capture.pc = "configure"
    /\ device' = [device EXCEPT !.bound = FALSE]
    /\ capture' = [capture EXCEPT !.pc = "clear"]
    /\ UNCHANGED <<app, handler, result, events, pool, mOutputFrames, black>>

(* Mutated form: the new source is taken for started.                      *)
StartedAfterSwitchKept == mCameraStarted

StartedAfterSwitch == FALSE

ClearStarted ==
    /\ capture.pc = "clear"
    /\ mCameraStarted' = StartedAfterSwitch
    /\ capture' = [capture EXCEPT !.pc = "flip"]
    /\ UNCHANGED <<app, mPendingRequests, mRequestInProgress, mPrivacyStarted, mMutex,
                   result, events, pool, sensor, black>>

FlipPrivacy ==
    /\ capture.pc = "flip"
    /\ mPrivacyStarted' = ~mPrivacyStarted
    /\ capture' = [capture EXCEPT !.pc = "push", !.task = "none"]
    /\ UNCHANGED <<app, mPendingRequests, mRequestInProgress, mCameraStarted, mMutex,
                   result, events, pool, sensor, black>>

PushRequest ==
    /\ capture.pc = "push" /\ mMutex = Unlocked
    /\ mPendingRequests' = Append(mPendingRequests, Len(requests))
    /\ capture' = [capture EXCEPT !.pc = "process"]
    /\ UNCHANGED <<app, mRequestInProgress, mCameraStarted, mPrivacyStarted, mMutex,
                   result, events, pool, sensor, black>>

(* stop does nothing if no request has started the camera: the threads run *)
(* on.                                                                     *)
Stop ==
    /\ capture.pc = "idle" /\ scenario.stops
    /\ mCameraStarted' = FALSE
    /\ capture' = IF mCameraStarted THEN [capture EXCEPT !.pc = "halt", !.task = "stop"]
                  ELSE [capture EXCEPT !.pc = "closed"]
    /\ UNCHANGED <<app, mPendingRequests, mRequestInProgress, mPrivacyStarted, mMutex,
                   result, events, pool, sensor, black>>

(* RequestThread::requestStop sets EXIT and empties the output queues;     *)
(* waitFrame gives up from now on.                                         *)
ExitThreads ==
    /\ capture.pc = "exit"
    /\ device' = [device EXCEPT !.exit = TRUE, !.requests = <<>>]
    /\ mOutputFrames' = [s \in Streams |-> <<>>]
    /\ capture' = [capture EXCEPT !.pc = "ending"]
    /\ UNCHANGED <<app, handler, result, events, pool, black>>

(* The result thread ends between two events.                              *)
JoinResult ==
    /\ capture.pc = "ending" /\ result.pc = "idle"
    /\ result' = [result EXCEPT !.pc = "ended"]
    /\ capture' = [capture EXCEPT !.pc = "closed"]
    /\ UNCHANGED <<app, handler, events, pool, sensor, black>>

-----------------------------------------------------------------------------
(* processNewRequest, by the capture thread after a request, by the result *)
(* thread after it completed one: [t] is the thread.                       *)

Processing(t) == IF t = "capture" THEN capture.pc = "process" ELSE result.pc = "process"

Return(t) ==
    IF t = "capture"
    THEN capture' = [capture EXCEPT !.pc = "idle"] /\ UNCHANGED result
    ELSE result' = Resting /\ UNCHANGED capture

Wanted(r) == requests[r]

NothingToProcess(t) ==
    /\ Processing(t) /\ mMutex = Unlocked
    /\ mPendingRequests = <<>> \/ mAvailableRequestBuffers = <<>>
    /\ Return(t)
    /\ UNCHANGED <<app, handler, events, pool, sensor, black>>

(* IPUFrames::create, and getBuffer for every stream.                      *)
CreateInfo(t) ==
    /\ Processing(t) /\ mMutex = Unlocked
    /\ mPendingRequests # <<>> /\ mAvailableRequestBuffers # <<>>
    /\ LET i == Head(mAvailableRequestBuffers)
           r == Head(mPendingRequests)
       IN
       /\ mMutex' = [by |-> t, pc |-> "count", info |-> i]
       /\ infos' = [infos EXCEPT ![i] =
            [id |-> r, out |-> @.out \cup Wanted(r), meta |-> FALSE, shutter |-> FALSE]]
       /\ mProcessingRequests' = [mProcessingRequests EXCEPT ![r] = i]
    /\ mAvailableRequestBuffers' = Tail(mAvailableRequestBuffers)
    /\ UNCHANGED <<app, mPendingRequests, mRequestInProgress, mCameraStarted, mPrivacyStarted,
                   capture, result, events, sensor, black>>

(* Mutated form: one stream is counted for all.                            *)
CountedFirst(r) ==
    [mRequestInProgress EXCEPT ![Min(Wanted(r))] = @ + 1]

Counted(r) ==
    [s \in Streams |-> mRequestInProgress[s] + IF s \in Wanted(r) THEN 1 ELSE 0]

(* qbuf up to the end of its section of mLock.                             *)
CountBuffers ==
    /\ mMutex.pc = "count"
    /\ mRequestInProgress' = Counted(infos[mMutex.info].id)
    /\ mMutex' = [mMutex EXCEPT !.pc = "queue"]
    /\ UNCHANGED <<app, mPendingRequests, mCameraStarted, mPrivacyStarted, capture, result,
                   events, pool, sensor, black>>

QueueBuffers ==
    /\ mMutex.pc = "queue"
    /\ LET r == infos[mMutex.info].id IN
       IF mPrivacyStarted
       THEN /\ mCaptureRequest' = Append(mCaptureRequest, r)
            /\ UNCHANGED device
       ELSE /\ device' = [device EXCEPT !.exit = FALSE, !.requests =
                Append(@, [id |-> r, at |-> "queued", left |-> Wanted(r)])]
            /\ UNCHANGED mCaptureRequest
    /\ told' = [told EXCEPT ![infos[mMutex.info].id].ran = Source]
    /\ mMutex' = [mMutex EXCEPT !.pc = "start"]
    /\ UNCHANGED <<scenario, moved, requests, completed, mPendingRequests,
                   mRequestInProgress, mCameraStarted, mPrivacyStarted, capture, result,
                   events, pool, mOutputFrames, privacy, mStreamQueueMap, hw>>

(* The first buffer of a session starts its source.  HwPrivacyControl      *)
(* follows the shutter once PrivacyControl was started.                    *)
StartSource ==
    /\ mMutex.pc = "start" /\ ~mCameraStarted
    /\ IF mPrivacyStarted
       THEN /\ mStreamQueueMap' = [s \in Streams |-> <<>>]
            /\ privacy' = [privacy EXCEPT !.running = TRUE, !.alive = TRUE]
            /\ hw' = [hw EXCEPT !.running = TRUE]
            /\ UNCHANGED device
       ELSE /\ device' = [device EXCEPT !.on = TRUE]
            /\ UNCHANGED <<mStreamQueueMap, privacy, hw>>
    /\ mMutex' = [mMutex EXCEPT !.pc = "started"]
    /\ UNCHANGED <<app, mPendingRequests, mRequestInProgress, mCameraStarted,
                   mPrivacyStarted, capture, result, events, pool, mOutputFrames,
                   mCaptureRequest>>

PopPending ==
    /\ (mMutex.pc = "start" /\ mCameraStarted) \/ mMutex.pc = "started"
    /\ mCameraStarted' = TRUE
    /\ mPendingRequests' = Tail(mPendingRequests)
    /\ mMutex' = Unlocked
    /\ Return(mMutex.by)
    /\ UNCHANGED <<app, mRequestInProgress, mPrivacyStarted, events, pool, sensor, black>>

ProcessNewRequest ==
    \/ CountBuffers \/ QueueBuffers \/ StartSource \/ PopPending

-----------------------------------------------------------------------------
(* The result thread.                                                      *)

(* An event is handled to its end before the next one is taken.            *)
Takes(kind) == result.pc = "idle" /\ events # <<>> /\ Head(events).kind = kind

ShutterReady ==
    /\ Takes("shutter")
    /\ LET i == mProcessingRequests[Head(events).id] IN
       infos' = IF i = None THEN infos ELSE [infos EXCEPT ![i].shutter = TRUE]
    /\ events' = Tail(events)
    /\ UNCHANGED <<app, handler, capture, result, mAvailableRequestBuffers,
                   mProcessingRequests, sensor, black>>

(* updateMetadataResult asks the source that is the current one.           *)
MetadataReady ==
    /\ Takes("metadata")
    /\ LET r == Head(events).id
           i == mProcessingRequests[r]
       IN
       /\ infos' = IF i = None THEN infos ELSE [infos EXCEPT ![i].meta = TRUE]
       /\ told' = IF i = None THEN told ELSE [told EXCEPT ![r].read = Source]
       /\ result' = [Resting EXCEPT !.pc = "done", !.id = r]
    /\ events' = Tail(events)
    /\ UNCHANGED <<scenario, moved, requests, completed, handler, capture,
                   mAvailableRequestBuffers, mProcessingRequests, sensor, black>>

(* bufferReady, dqbuf up to its section of mLock: a frame of the source,   *)
(* or none.  waitFrame waits for one.                                      *)
DequeuePrivacy ==
    /\ Takes("buffer") /\ mPrivacyStarted
    /\ LET s == Head(events).id
           q == mStreamQueueMap[s]
       IN
       /\ result' = [pc |-> "dequeued", stream |-> s, id |-> IF q = <<>> THEN None ELSE Head(q)]
       /\ mStreamQueueMap' = [mStreamQueueMap EXCEPT ![s] = IF q = <<>> THEN q ELSE Tail(q)]
    /\ events' = Tail(events)
    /\ UNCHANGED <<app, handler, capture, pool, sensor, privacy, mCaptureRequest, hw>>

DequeueDevice ==
    /\ Takes("buffer") /\ ~mPrivacyStarted
    /\ LET s == Head(events).id
           q == mOutputFrames[s]
       IN
       /\ device.exit \/ q # <<>>
       /\ result' = [pc |-> "dequeued", stream |-> s, id |-> IF device.exit THEN None ELSE Head(q)]
       /\ mOutputFrames' = [mOutputFrames EXCEPT ![s] = IF device.exit THEN q ELSE Tail(q)]
    /\ events' = Tail(events)
    /\ UNCHANGED <<app, handler, capture, pool, device, black>>

Dequeued ==
    /\ result.pc = "dequeued"
    /\ mRequestInProgress' = [mRequestInProgress EXCEPT ![result.stream] = @ - 1]
    /\ result' = IF result.id = None THEN Resting ELSE [result EXCEPT !.pc = "buffer"]
    /\ UNCHANGED <<app, mPendingRequests, mCameraStarted, mPrivacyStarted, mMutex, capture,
                   events, pool, sensor, black>>

CompleteBuffer ==
    /\ result.pc = "buffer"
    /\ LET i == mProcessingRequests[result.id]
           s == result.stream
       IN IF i # None /\ s \in infos[i].out
          THEN /\ infos' = [infos EXCEPT ![i].out = @ \ {s}]
               /\ told' = [told EXCEPT ![infos[i].id].bufs = @ \cup {s}]
               /\ result' = [result EXCEPT !.pc = "done"]
          ELSE UNCHANGED <<infos, told>> /\ result' = Resting
    /\ UNCHANGED <<scenario, moved, requests, completed, handler, capture, events,
                   mAvailableRequestBuffers, mProcessingRequests, sensor, black>>

(* Mutated form: the metadata is not waited for.                           *)
RequestCompleteEarly(i) == infos[i].shutter /\ infos[i].out = {}

RequestComplete(i) == infos[i].shutter /\ infos[i].meta /\ infos[i].out = {}

(* Mutated form: the record stays in the map.                              *)
ErasedNever(r) == mProcessingRequests

Erased(r) == [mProcessingRequests EXCEPT ![r] = None]

(* returnRequestDone: the record is free again before the request it holds *)
(* is completed.                                                           *)
Recycle ==
    /\ result.pc = "done"
    /\ LET i == mProcessingRequests[result.id] IN
       IF i # None /\ RequestComplete(i)
       THEN /\ mAvailableRequestBuffers' = Append(mAvailableRequestBuffers, i)
            /\ mProcessingRequests' = Erased(infos[i].id)
            /\ result' = [Resting EXCEPT !.pc = "complete", !.id = i]
       ELSE /\ result' = Resting
            /\ UNCHANGED <<mAvailableRequestBuffers, mProcessingRequests>>
    /\ UNCHANGED <<app, handler, capture, events, infos, sensor, black>>

CompleteRequest ==
    /\ result.pc = "complete"
    /\ completed' = Append(completed, infos[result.id].id)
    /\ result' = [Resting EXCEPT !.pc = "process"]
    /\ UNCHANGED <<scenario, moved, requests, told, handler, capture, events, pool,
                   sensor, black>>

-----------------------------------------------------------------------------
(* The device: it runs requests in order, a frame each.  Unless the        *)
(* handler is bound to it no event is sent and no executor runs a task.    *)

Event(kind, x) == [kind |-> kind, id |-> x]

Notify(event) == IF device.bound THEN Append(events, event) ELSE events

(* prepareTask sends the shutter event and dispatches the task.            *)
DispatchTask ==
    /\ device.on
    /\ \E j \in DOMAIN device.requests :
         /\ device.requests[j].at = "queued"
         /\ \A k \in 1 .. j - 1 : device.requests[k].at = "told"
         /\ device' = [device EXCEPT !.requests[j].at = "dispatched"]
         /\ events' = Notify(Event("shutter", device.requests[j].id))
    /\ UNCHANGED <<app, handler, capture, result, pool, mOutputFrames, black>>

(* A request is gone from the device with its metadata and its frames: the *)
(* j-th, if that was the last of them.                                     *)
Running(rs, j) == IF rs[j].at = "told" /\ rs[j].left = {} THEN RemoveAt(rs, j) ELSE rs

(* The metadata event follows the dispatch.  Frames do not wait for it.    *)
(* (That it waits for the statistics instead is never configured:          *)
(* AiqSetting.cpp:94 is the only place that sets callbackRgbs.)            *)
SendMetadata ==
    /\ device.on
    /\ \E j \in DOMAIN device.requests :
         /\ device.requests[j].at = "dispatched"
         /\ device' = [device EXCEPT !.requests = Running([@ EXCEPT ![j].at = "told"], j)]
         /\ events' = Notify(Event("metadata", device.requests[j].id))
    /\ UNCHANGED <<app, handler, capture, result, pool, mOutputFrames, black>>

(* A frame is done: RequestThread keeps it for dqbuf, and the handler is   *)
(* told.                                                                   *)
FrameAvailable ==
    /\ device.on /\ device.bound
    /\ \E j \in DOMAIN device.requests : \E s \in device.requests[j].left :
         /\ device.requests[j].at # "queued"
         /\ \A k \in 1 .. j - 1 : s \notin device.requests[k].left
         /\ device' = [device EXCEPT !.requests =
                Running([device.requests EXCEPT ![j].left = @ \ {s}], j)]
         /\ mOutputFrames' = [mOutputFrames EXCEPT ![s] = Append(@, device.requests[j].id)]
         /\ events' = Append(events, Event("buffer", s))
    /\ UNCHANGED <<app, handler, capture, result, pool, black>>

-----------------------------------------------------------------------------
(* PrivacyControl::run, HwPrivacyControl::run.                             *)

TakeCaptureRequest ==
    /\ privacy.alive /\ privacy.job = <<>>
    /\ IF ~privacy.running
       THEN /\ privacy' = [privacy EXCEPT !.alive = FALSE]
            /\ UNCHANGED mCaptureRequest
       ELSE /\ mCaptureRequest # <<>>
            /\ LET r == Head(mCaptureRequest) IN
               privacy' = [privacy EXCEPT
                   !.tell = <<Event("shutter", r), Event("metadata", r)>>,
                   !.job  = SetToSeq({<<r, s>> : s \in Wanted(r)})]
            /\ mCaptureRequest' = Tail(mCaptureRequest)
    /\ UNCHANGED <<app, handler, capture, result, events, pool, sensor, mStreamQueueMap, hw>>

(* The buffers are blackened, and their shutter and metadata events sent,  *)
(* without mLock.                                                          *)
PrivacyTell ==
    /\ privacy.tell # <<>>
    /\ events' = Append(events, Head(privacy.tell))
    /\ privacy' = [privacy EXCEPT !.tell = Tail(@)]
    /\ UNCHANGED <<app, handler, capture, result, pool, sensor, mCaptureRequest,
                   mStreamQueueMap, hw>>

PrivacyFrame ==
    /\ privacy.tell = <<>> /\ privacy.job # <<>>
    /\ LET r == Head(privacy.job)[1]
           s == Head(privacy.job)[2]
       IN
       /\ mStreamQueueMap' = [mStreamQueueMap EXCEPT ![s] = Append(@, r)]
       /\ events' = Append(events, Event("buffer", s))
    /\ privacy' = [privacy EXCEPT !.job = Tail(@)]
    /\ UNCHANGED <<app, handler, capture, result, pool, sensor, mCaptureRequest, hw>>

MoveShutter ==
    /\ hw.running /\ moved < scenario.moves
    /\ hw' = [hw EXCEPT !.state = ~@]
    /\ moved' = moved + 1
    /\ UNCHANGED <<scenario, requests, told, completed, handler, capture, result, events,
                   pool, sensor, privacy, mCaptureRequest, mStreamQueueMap>>

-----------------------------------------------------------------------------
Enter(t) == NothingToProcess(t) \/ CreateInfo(t)

CaptureThread ==
    \/ WaitAllRequestsDone \/ StopPrivacy \/ JoinPrivacy \/ ClearRequests \/ StopStream
    \/ DeviceConfigure \/ ClearStarted \/ FlipPrivacy \/ PushRequest \/ ExitThreads \/ JoinResult
    \/ Enter("capture")

ResultThread ==
    \/ ShutterReady \/ MetadataReady \/ DequeuePrivacy \/ DequeueDevice \/ Dequeued
    \/ CompleteBuffer \/ Recycle \/ CompleteRequest
    \/ Enter("result")

Device == DispatchTask \/ SendMetadata \/ FrameAvailable

PrivacyThread == TakeCaptureRequest \/ PrivacyTell \/ PrivacyFrame

Next ==
    \/ HandleNewRequest \/ Stop \/ MoveShutter
    \/ CaptureThread \/ ResultThread \/ ProcessNewRequest
    \/ Device \/ PrivacyThread

Spec == Init /\ [][Next]_vars

Fairness ==
    /\ WF_vars(CaptureThread) /\ WF_vars(ResultThread) /\ WF_vars(ProcessNewRequest)
    /\ WF_vars(Device) /\ WF_vars(PrivacyThread)

FairSpec == Spec /\ Fairness

-----------------------------------------------------------------------------
(* Properties.                                                             *)

TypeOK ==
    /\ mPendingRequests \in Seq(Ids) /\ mCaptureRequest \in Seq(Ids)
    /\ mRequestInProgress \in [Streams -> Nat]
    /\ mCameraStarted \in BOOLEAN /\ mPrivacyStarted \in BOOLEAN
    /\ mMutex.info \in Infos \cup {None}
    /\ mAvailableRequestBuffers \in Seq(Infos)
    /\ mProcessingRequests \in [Ids -> Infos \cup {None}]
    /\ infos \in [Infos -> [id : Ids \cup {None}, out : SUBSET Streams,
                            meta : BOOLEAN, shutter : BOOLEAN]]
    /\ \A s \in Streams : mOutputFrames[s] \in Seq(Ids) /\ mStreamQueueMap[s] \in Seq(Ids)

(* A record is free or holds one request in process, never both and never  *)
(* neither: none is lost, however the two threads alternate.               *)
RecordsAccounted ==
    \A i \in Infos :
        Cardinality({k \in DOMAIN mAvailableRequestBuffers : mAvailableRequestBuffers[k] = i})
        + Cardinality({r \in Ids : mProcessingRequests[r] = i}) = 1

(* A request is completed once, after the application was given its        *)
(* metadata and every one of its buffers.                                  *)
CompletedInFull ==
    \A k \in DOMAIN completed :
        /\ told[completed[k]].bufs = Wanted(completed[k])
        /\ told[completed[k]].read # "none"
        /\ \A j \in 1 .. k - 1 : completed[j] # completed[k]

HaltingFor(task) == capture.task = task \/ capture.pc = "closed"

Has(s) == {r \in DOMAIN requests : s \in Wanted(r)}

(* Buffers of a stream that the current source has, to be run, and to be   *)
(* dequeued.                                                               *)
ToRun(s) ==
    IF mPrivacyStarted
    THEN Cardinality({k \in DOMAIN mCaptureRequest : mCaptureRequest[k] \in Has(s)})
         + Cardinality({k \in DOMAIN privacy.job : privacy.job[k][2] = s})
    ELSE Cardinality({k \in DOMAIN device.requests : s \in device.requests[k].left})

ToDequeue(s) == IF mPrivacyStarted THEN Len(mStreamQueueMap[s]) ELSE Len(mOutputFrames[s])

(* The counters that a switch of the source waits for are exact: each      *)
(* counts the buffers between qbuf and dqbuf, wherever they are.           *)
InProgressExact ==
    ~HaltingFor("stop") => \A s \in Streams :
        mRequestInProgress[s] =
            ToRun(s) + ToDequeue(s)
            + (IF result.pc = "dequeued" /\ result.stream = s THEN 1 ELSE 0)
            + (IF mMutex.pc = "queue" /\ s \in Wanted(infos[mMutex.info].id) THEN 1 ELSE 0)

(* A buffer event finds its buffer at the source that is the current one   *)
(* when the event is handled, although the source is switched in between.  *)
BuffersInSource ==
    ~HaltingFor("stop") => \A s \in Streams :
        Cardinality({k \in DOMAIN events : events[k] = Event("buffer", s)}) = ToDequeue(s)

(* The source is only changed when no buffer is at the old one: "all       *)
(* requests dqbuf are done".                                               *)
SwitchedQuiet ==
    [][mPrivacyStarted' # mPrivacyStarted =>
        \A s \in Streams : ToRun(s) + ToDequeue(s) = 0]_vars

(* Once stop is done no source runs and none is started again, and the     *)
(* result thread has ended.  (A stop that finds the camera not started     *)
(* returns at once and ends no thread.)                                    *)
StopIsFinal ==
    capture.pc = "closed" =>
        /\ ~device.on /\ ~privacy.alive
        /\ mCameraStarted = FALSE
        /\ capture.task = "stop" => result.pc = "ended"

AllCompleted == Len(completed) = Len(requests)

(* Requests are completed, and stop ends, unless the device is the source  *)
(* again after it was configured anew (see ServedAfterReturn).             *)
AllServed ==
    []<>(\/ capture.pc = "closed"
         \/ /\ capture.task # "stop"
            /\ AllCompleted \/ ~(mPrivacyStarted \/ device.bound))

(* CameraScheduler.h:33-39: after configure and registerNode executeNode   *)
(* runs the nodes, in a loop.  A request is completed whatever the         *)
(* switches before it.                                                     *)
ServedAfterReturn ==
    []<>(capture.pc = "closed" \/ (capture.task # "stop" /\ AllCompleted))

(* ipu7.cpp:360: "mCameraStarted is accessed only in capture thread".      *)
StartedByCapture == mMutex.pc = "started" => mMutex.by = "capture"

(* The metadata of a request is read from the source that ran it: the      *)
(* comment at mPrivacyStarted says that no lock is needed for it.          *)
MetadataFromSource ==
    \A r \in Ids : told[r].read \in {"none", told[r].ran}

=============================================================================
