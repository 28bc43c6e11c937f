---------------------------- MODULE RequestThread ----------------------------
(***************************************************************************)
(* The request scheduler of one camera (src/core/RequestThread.cpp) with   *)
(* the calls CameraDevice makes on it.                                     *)
(*                                                                         *)
(* Three kinds of threads meet here.  The request thread runs              *)
(* threadLoop().  A client thread calls CameraDevice::qbuf, start, stop,   *)
(* configure and deinit, one at a time.  Event threads (SOF source,        *)
(* capture unit, processing unit) call handleEvent().  The queues of       *)
(* finished buffers that dqbuf waits on are in OutputFrames.tla: the two   *)
(* halves share nothing but mState.                                        *)
(*                                                                         *)
(* One action is one critical section of the code; what lies between two   *)
(* sections is a value of pc (the request thread) or client.  The image    *)
(* pipeline below the streams is the environment: inFlight holds, for      *)
(* every request handed to the streams, the events it still owes.          *)
(***************************************************************************)
EXTENDS Integers, Sequences, FiniteSets

CONSTANTS
    PerFrameControl,      \* mPerframeControlSupport
    StatsWithFakes,       \* mGet3AStatWithFakeRequest
    EnableAiq,            \* PlatformData::isEnableAIQ
    MaxRequestsInflight,  \* PlatformData::getMaxRequestsInflight
    ExposureLag,          \* PlatformData::getExposureLag
    QueuedExposures,      \* sizes of SensorManager's mExposureDataMap
    Streams,              \* the configured streams, all part of every request
    FakeStream,           \* the stream mFakeReqBuf belongs to
    Kinds,                \* the kinds of request the client queues
    MaxRequests,          \* bound: requests the client queues
    MaxSof,               \* bound: the frame number from which on the model
                          \* no longer tells frames apart
    MaxFakes,             \* bound: fake requests inserted
    MaxStops,             \* bound: calls of CameraDevice::stop
    MayClose              \* does the client call deinit?

ASSUME ConfigAssumption ==
    /\ PerFrameControl \in BOOLEAN /\ StatsWithFakes \in BOOLEAN
    /\ EnableAiq \in BOOLEAN /\ MayClose \in BOOLEAN
    /\ StatsWithFakes => PerFrameControl
    /\ MaxRequestsInflight \in Nat \ {0}
    /\ ExposureLag \in Nat /\ QueuedExposures \subseteq Nat
    /\ FakeStream \in Streams
    /\ Kinds \subseteq {"video", "still", "reprocess"}
    /\ MaxRequests \in Nat /\ MaxSof \in Nat /\ MaxFakes \in Nat /\ MaxStops \in Nat

ASSUME StreamAssumption == {"stats", "frame"} \cap Streams = {}

VARIABLES
    mState, mPendingRequests, mRequestsInProcessing, mRequestTriggerEvent,
    mLastCcaId, mLastEffectSeq, mLastAppliedSeq, mLastSofSeq, mBlockRequest,
    mFirstRequest,
    pc,              \* where the request thread is
    request,         \* its local copy of the request being handled
    applyingSeq, effectSeq,
    client,          \* where the client thread is
    device,          \* CameraDevice::mState
    closing,         \* the clearRequests under way belongs to requestStop
    aiqStarted,      \* AiqUnit is in AIQ_UNIT_START
    aiqSeq,          \* sequence of the latest AiqResult
    sensorSof,       \* SensorManager::mLastSofSequence
    streaming, sof, sofOwed, isysFrames, inFlight, fakeChecks,
    accepted, fakes, \* requests queued, fake requests inserted
    stops,           \* clearRequests completed
    sessionBase,     \* last id given out before the last clearRequests
    firstDone,       \* a request of this session was handed to the streams
    straddled,       \* clearRequests has run while a request was being handled
    dispatched       \* id of the last request handed to the streams

ctl     == <<mState, mLastCcaId, mLastEffectSeq, mLastAppliedSeq, mLastSofSeq>>
queue   == <<mPendingRequests, mRequestsInProcessing, mRequestTriggerEvent,
             mBlockRequest, mFirstRequest>>
thread  == <<request, applyingSeq, effectSeq>>
user    == <<client, device, closing>>
aiq     == <<aiqStarted, aiqSeq, sensorSof>>
sources == <<streaming, sof, sofOwed, isysFrames>>
pipe    == <<inFlight, fakeChecks>>
ghosts  == <<accepted, fakes, stops, sessionBase, firstDone, straddled, dispatched>>
vars    == <<ctl, queue, pc, thread, user, aiq, sources, pipe, ghosts>>

NoRequest == [id |-> 0, kind |-> "none"]
Request   == [id : 1 .. MaxRequests + MaxFakes, kind : Kinds \cup {"fake"}]
Triggers  == {"request", "frame", "stats", "sof"}

(* The points of threadLoop and handleRequest between two lock sections.   *)
Handling == {"seq", "cca", "run3A", "settle", "notify", "first", "clear"}
Places   == {"top", "lock", "waiting", "woken", "fetch", "exited"} \cup Handling

(* Mutated forms, to see which property notices: a notify_one left out, a  *)
(* frame event not counted or counted below zero, the newest request taken *)
(* first, a sequence too far ahead, an off-by-one in the limit.            *)
WokenNobody        == pc
FrameDoneIgnored(n) == n
FrameDoneUnguarded(n) == n - 1
NextRequestNewest  == mPendingRequests[Len(mPendingRequests)]
NextSeqSkipping    == mLastSofSeq + 2
LimitReachedLate   == mRequestsInProcessing > MaxRequestsInflight

(* notify_one on mRequestSignal: only the request thread waits on it.      *)
Woken == IF pc = "waiting" THEN "woken" ELSE pc

(* A request has left the HAL.                                             *)
FrameDone(n) == IF n > 0 THEN n - 1 ELSE 0

NextRequest == Head(mPendingRequests)

(* The frame after the one the sensor is exposing.                         *)
NextSeq == mLastSofSeq + 1

LimitReached == mRequestsInProcessing >= MaxRequestsInflight

blockRequest ==
    \/ mPendingRequests = <<>>
    \/ mBlockRequest /\ mLastCcaId >= 0
    \/ LimitReached
    \/ PerFrameControl /\ mRequestTriggerEvent = {}

Init ==
    /\ mState = "START" /\ mPendingRequests = <<>> /\ mRequestsInProcessing = 0
    /\ mRequestTriggerEvent = {} /\ mFirstRequest = TRUE
    /\ mBlockRequest = EnableAiq
    /\ mLastCcaId = -1 /\ mLastEffectSeq = -1
    /\ mLastAppliedSeq = -1 /\ mLastSofSeq = -1
    /\ pc = "top" /\ request = NoRequest /\ applyingSeq = -1 /\ effectSeq = 0
    /\ client = "idle" /\ device = "CONFIGURE" /\ closing = FALSE
    /\ aiqStarted = FALSE /\ aiqSeq = -1 /\ sensorSof = -1
    /\ streaming = FALSE /\ sof = -1 /\ sofOwed = {} /\ isysFrames = 0
    /\ inFlight = {} /\ fakeChecks = {}
    /\ accepted = 0 /\ fakes = 0 /\ stops = 0 /\ sessionBase = 0
    /\ firstDone = FALSE /\ straddled = FALSE /\ dispatched = 0

-----------------------------------------------------------------------------
(* The request thread.                                                     *)

(* Mutated form: the EXIT test left out.                                   *)
TopWithoutExit ==
    /\ pc = "top"
    /\ pc' = "lock"
    /\ UNCHANGED <<ctl, queue, thread, user, aiq, sources, pipe, ghosts>>

Top ==
    /\ pc = "top"
    /\ pc' = IF mState = "EXIT" THEN "exited" ELSE "lock"
    /\ UNCHANGED <<ctl, queue, thread, user, aiq, sources, pipe, ghosts>>

(* The lock section that decides whether a request is processed now.  With *)
(* per-frame control one of three rules names the sequence that the 3A     *)
(* results of the request will be applied to.                              *)
SofRuleStale == "sof" \in mRequestTriggerEvent   \* mutated form: sequence not compared
SofRule   == "sof" \in mRequestTriggerEvent /\ mLastSofSeq > mLastAppliedSeq
StatsRule == ~SofRule /\ "stats" \in mRequestTriggerEvent
                      /\ mLastSofSeq >= mLastAppliedSeq
IdleRule  == /\ ~SofRule /\ ~StatsRule
             /\ mRequestTriggerEvent \cap {"request", "frame"} # {}
             /\ mRequestsInProcessing = 0

PickFor(seq) ==
    /\ mLastAppliedSeq' = seq
    /\ IF seq + ExposureLag <= mLastEffectSeq
       THEN /\ mRequestTriggerEvent' = {} /\ pc' = "top"
            /\ UNCHANGED applyingSeq
       ELSE /\ applyingSeq' = seq /\ pc' = "fetch"
            /\ UNCHANGED mRequestTriggerEvent

Pick ==
    /\ \/ /\ ~PerFrameControl \/ mRequestTriggerEvent = {}
          /\ applyingSeq' = -1 /\ pc' = "fetch"
          /\ UNCHANGED <<mLastAppliedSeq, mRequestTriggerEvent>>
       \/ /\ PerFrameControl /\ SofRule
          /\ PickFor(mLastSofSeq)
       \/ /\ PerFrameControl /\ (StatsRule \/ IdleRule)
          /\ PickFor(NextSeq)
       \/ /\ PerFrameControl /\ mRequestTriggerEvent # {}
          /\ ~SofRule /\ ~StatsRule /\ ~IdleRule
          /\ mRequestTriggerEvent' = {} /\ pc' = "top"
          /\ UNCHANGED <<mLastAppliedSeq, applyingSeq>>
    /\ UNCHANGED <<mState, mLastCcaId, mLastEffectSeq, mLastSofSeq>>
    /\ UNCHANGED <<mPendingRequests, mRequestsInProcessing, mBlockRequest, mFirstRequest>>
    /\ UNCHANGED <<request, effectSeq, user, aiq, sources, pipe, ghosts>>

Block ==
    /\ pc = "lock" /\ blockRequest
    /\ pc' = "waiting"
    /\ UNCHANGED <<ctl, queue, thread, user, aiq, sources, pipe, ghosts>>

PickAtOnce == pc = "lock" /\ ~blockRequest /\ Pick

(* wait_for returns: by its 2 s timeout, or spuriously.                    *)
WaitTimeout ==
    /\ pc = "waiting"
    /\ pc' = "top"
    /\ UNCHANGED <<ctl, queue, thread, user, aiq, sources, pipe, ghosts>>

SpuriousWakeup ==
    /\ pc = "waiting"
    /\ pc' = "woken"
    /\ UNCHANGED <<ctl, queue, thread, user, aiq, sources, pipe, ghosts>>

StillBlocked ==
    /\ pc = "woken" /\ blockRequest
    /\ mRequestTriggerEvent' = {} /\ pc' = "top"
    /\ UNCHANGED <<mPendingRequests, mRequestsInProcessing, mBlockRequest, mFirstRequest>>
    /\ UNCHANGED <<ctl, thread, user, aiq, sources, pipe, ghosts>>

PickAfterWait == pc = "woken" /\ ~blockRequest /\ Pick

(* The second EXIT test and fetchNextRequest, a lock section of its own.   *)
Fetch ==
    /\ pc = "fetch"
    /\ IF mState = "EXIT"
       THEN pc' = "exited" /\ UNCHANGED <<mPendingRequests, mRequestsInProcessing, request>>
       ELSE IF mPendingRequests = <<>>
       THEN pc' = "top" /\ UNCHANGED <<mPendingRequests, mRequestsInProcessing, request>>
       ELSE /\ request' = NextRequest
            /\ mPendingRequests' = Tail(mPendingRequests)
            /\ mRequestsInProcessing' = mRequestsInProcessing + 1
            /\ pc' = "seq"
    /\ UNCHANGED <<mRequestTriggerEvent, mBlockRequest, mFirstRequest>>
    /\ UNCHANGED <<ctl, applyingSeq, effectSeq, user, aiq, sources, pipe, ghosts>>

(* handleRequest.  A reprocessing request carries the sequence of the frame *)
(* it reprocesses: an earlier one, here the first.                          *)
HandleSeq ==
    /\ pc = "seq"
    /\ IF request.kind = "reprocess"
       THEN effectSeq' = 0 /\ pc' = "notify"
       ELSE effectSeq' = mLastEffectSeq + 1 /\ pc' = "cca"
    /\ UNCHANGED <<ctl, queue, request, applyingSeq, user, aiq, sources, pipe, ghosts>>

HandleCca ==
    /\ pc = "cca"
    /\ IF mState = "EXIT"
       THEN pc' = "settle" /\ UNCHANGED mLastCcaId
       ELSE mLastCcaId' = mLastCcaId + 1 /\ pc' = "run3A"
    /\ UNCHANGED <<mState, mLastEffectSeq, mLastAppliedSeq, mLastSofSeq>>
    /\ UNCHANGED <<queue, thread, user, aiq, sources, pipe, ghosts>>

(* AiqUnit::run3A.  Not started: an error, effectSeq is left alone.  Else   *)
(* the sequence of the latest AiqResult, a new one computed by             *)
(* SensorManager::updateSensorExposure or the one before.  mSofEnabled is  *)
(* true, as it is with every source of frames but injected files: only     *)
(* without it handleRequest keeps its own count instead of this result.    *)
Run3A ==
    /\ pc = "run3A"
    /\ IF ~aiqStarted
       THEN UNCHANGED <<effectSeq, aiqSeq>>
       ELSE /\ aiqSeq' \in {aiqSeq} \cup
                   (IF sensorSof < 0 THEN {0}
                    ELSE {sensorSof + ExposureLag + n : n \in QueuedExposures})
            /\ effectSeq' = aiqSeq'
    /\ pc' = "settle"
    /\ UNCHANGED <<ctl, queue, request, applyingSeq, user>>
    /\ UNCHANGED <<aiqStarted, sensorSof, sources, pipe, ghosts>>

HandleSettle ==
    /\ pc = "settle"
    /\ IF mState = "EXIT"
       THEN pc' = "clear" /\ UNCHANGED mLastEffectSeq
       ELSE pc' = "notify" /\ mLastEffectSeq' = effectSeq
    /\ UNCHANGED <<mState, mLastCcaId, mLastAppliedSeq, mLastSofSeq>>
    /\ UNCHANGED <<queue, thread, user, aiq, sources, pipe, ghosts>>

(* EVENT_PROCESS_REQUEST: CameraDevice::handleQueueBuffer queues a buffer   *)
(* to every stream.  The pipeline then owes the statistics for a request    *)
(* with a video buffer, the frame event when it is the registered one, and  *)
(* the buffers, which matter here only as the moments to insert a fake.     *)
Owed(r) == (IF ~StatsWithFakes THEN {} ELSE IF r.kind = "fake" THEN {FakeStream} ELSE Streams)
           \cup (IF EnableAiq /\ r.kind \in {"video", "fake"} THEN {"stats"} ELSE {})
           \cup (IF PerFrameControl THEN {"frame"} ELSE {})

HandleNotify ==
    /\ pc = "notify"
    /\ inFlight' = inFlight \cup
          {[id |-> request.id, kind |-> request.kind, seq |-> effectSeq, owed |-> Owed(request)]}
    /\ dispatched' = request.id
    /\ pc' = "first"
    /\ UNCHANGED <<ctl, queue, thread, user, aiq, sources, fakeChecks>>
    /\ UNCHANGED <<accepted, fakes, stops, sessionBase, firstDone, straddled>>

HandleFirst ==
    /\ pc = "first"
    /\ mFirstRequest' = FALSE
    /\ client' = IF mFirstRequest /\ client = "wait1st" THEN "wait1stDone" ELSE client
    /\ firstDone' = (firstDone \/ request.id > sessionBase)
    /\ pc' = "clear"
    /\ UNCHANGED <<mPendingRequests, mRequestsInProcessing, mRequestTriggerEvent, mBlockRequest>>
    /\ UNCHANGED <<ctl, thread, device, closing, aiq, sources, pipe>>
    /\ UNCHANGED <<accepted, fakes, stops, sessionBase, straddled, dispatched>>

ClearTrigger ==
    /\ pc = "clear"
    /\ mRequestTriggerEvent' = {}
    /\ request' = NoRequest
    /\ pc' = "top"
    /\ UNCHANGED <<mPendingRequests, mRequestsInProcessing, mBlockRequest, mFirstRequest>>
    /\ UNCHANGED <<ctl, applyingSeq, effectSeq, user, aiq, sources, pipe, ghosts>>

RequestThreadStep ==
    \/ Top \/ Block \/ PickAtOnce \/ WaitTimeout \/ SpuriousWakeup \/ StillBlocked
    \/ PickAfterWait \/ Fetch \/ HandleSeq \/ HandleCca \/ Run3A \/ HandleSettle
    \/ HandleNotify \/ HandleFirst \/ ClearTrigger

-----------------------------------------------------------------------------
(* The client thread, in CameraDevice.                                     *)

(* qbuf starts 3A for the first request, then processRequest queues it.    *)
Qbuf(kind) ==
    /\ client = "idle" /\ device # "UNINIT" /\ accepted < MaxRequests
    /\ IF device \in {"CONFIGURE", "STOP"}
       THEN device' = "BUFFER_READY" /\ aiqStarted' = TRUE /\ sensorSof' = -1
       ELSE UNCHANGED <<device, aiqStarted, sensorSof>>
    /\ accepted' = accepted + 1
    /\ mPendingRequests' = Append(mPendingRequests,
          [id |-> accepted + fakes + 1, kind |-> kind])
    /\ mBlockRequest' = (mBlockRequest /\ ~(mFirstRequest /\ kind # "video"))
    /\ mState' = "PROCESSING"
    /\ mRequestTriggerEvent' = mRequestTriggerEvent \cup {"request"}
    /\ pc' = Woken
    /\ UNCHANGED <<mRequestsInProcessing, mFirstRequest>>
    /\ UNCHANGED <<mLastCcaId, mLastEffectSeq, mLastAppliedSeq, mLastSofSeq>>
    /\ UNCHANGED <<thread, client, closing, aiqSeq, sources, pipe>>
    /\ UNCHANGED <<fakes, stops, sessionBase, firstDone, straddled, dispatched>>

(* start: wait1stRequestDone, then under the device lock startLocked.      *)
StartWait ==
    /\ client = "idle" /\ device = "BUFFER_READY"
    /\ client' = IF mFirstRequest THEN "wait1st" ELSE "wait1stDone"
    /\ UNCHANGED <<ctl, queue, pc, thread, device, closing, aiq, sources, pipe, ghosts>>

StartWaitTimeout ==
    /\ client = "wait1st"
    /\ client' = "start"
    /\ UNCHANGED <<ctl, queue, pc, thread, device, closing, aiq, sources, pipe, ghosts>>

StartLocked ==
    /\ client \in {"wait1stDone", "start"}
    /\ client' = "idle" /\ device' = "START"
    /\ streaming' = TRUE /\ sof' = -1 /\ isysFrames' = 0
    /\ UNCHANGED <<ctl, queue, pc, thread, closing, aiq, sofOwed, pipe, ghosts>>

(* clearRequests, its lock section of mPendingReqLock.                     *)
ResetSequences ==
    /\ mLastCcaId' = -1 /\ mLastEffectSeq' = -1
    /\ mLastAppliedSeq' = -1 /\ mLastSofSeq' = -1

ClearPending ==
    /\ client = "clearPending"
    /\ mPendingRequests' = <<>> /\ mRequestsInProcessing' = 0
    /\ ResetSequences
    /\ mFirstRequest' = TRUE /\ mBlockRequest' = TRUE
    /\ client' = IF closing THEN "notify" ELSE "stopAiq"
    /\ stops' = stops + 1 /\ sessionBase' = accepted + fakes /\ firstDone' = FALSE
    /\ straddled' = (straddled \/ pc \in Handling \cup {"fetch"})
    /\ UNCHANGED <<mState, mRequestTriggerEvent, pc, thread, device, closing>>
    /\ UNCHANGED <<aiq, sources, pipe, accepted, fakes, dispatched>>

(* AiqUnit::stop.                                                          *)
StopAiq ==
    /\ client = "stopAiq"
    /\ aiqStarted' = FALSE
    /\ client' = "stopSources"
    /\ UNCHANGED <<ctl, queue, pc, thread, device, closing, aiqSeq, sensorSof>>
    /\ UNCHANGED <<sources, pipe, ghosts>>

(* stopLocked: every event source is stopped and its thread joined, the    *)
(* processing unit drops what it holds.                                    *)
SourcesJoined == sofOwed = {} /\ fakeChecks = {}

StopSources ==
    /\ client = "stopSources" /\ SourcesJoined
    /\ streaming' = FALSE
    /\ inFlight' = IF streaming THEN {} ELSE inFlight
    /\ client' = IF closing THEN "exit" ELSE "idle"
    /\ device' = IF closing THEN device ELSE "STOP"
    /\ UNCHANGED <<ctl, queue, pc, thread, closing, aiq, sof, sofOwed, isysFrames>>
    /\ UNCHANGED <<fakeChecks, ghosts>>

(* stop clears the requests first, deinit stops everything else before.    *)
Stop ==
    /\ client = "idle" /\ device # "UNINIT" /\ stops < MaxStops
    /\ client' = "clearPending"
    /\ UNCHANGED <<ctl, queue, pc, thread, device, closing, aiq, sources, pipe, ghosts>>

Close ==
    /\ MayClose /\ client = "idle" /\ device # "UNINIT"
    /\ client' = "stopAiq" /\ closing' = TRUE
    /\ UNCHANGED <<ctl, queue, pc, thread, device, aiq, sources, pipe, ghosts>>

(* configure deletes the streams and the processing unit and sets          *)
(* mBlockRequest anew; here the streams are preview or video streams.      *)
Configure ==
    /\ client = "idle" /\ device = "STOP"
    /\ device' = "CONFIGURE"
    /\ mBlockRequest' = EnableAiq
    /\ inFlight' = {}
    /\ UNCHANGED <<mPendingRequests, mRequestsInProcessing, mRequestTriggerEvent, mFirstRequest>>
    /\ UNCHANGED <<ctl, pc, thread, client, closing, aiq, sources, fakeChecks, ghosts>>

(* requestStop: the flag, clearRequests, notify_one, and the join.         *)
SetExit ==
    /\ client = "exit"
    /\ mState' = "EXIT"
    /\ client' = "clearPending"
    /\ UNCHANGED <<mLastCcaId, mLastEffectSeq, mLastAppliedSeq, mLastSofSeq, queue>>
    /\ UNCHANGED <<pc, thread, device, closing, aiq, sources, pipe, ghosts>>

NotifyExit ==
    /\ client = "notify"
    /\ pc' = Woken
    /\ client' = "join"
    /\ UNCHANGED <<ctl, queue, thread, device, closing, aiq, sources, pipe, ghosts>>

Join ==
    /\ client = "join" /\ pc = "exited"
    /\ client' = "closed" /\ device' = "UNINIT"
    /\ UNCHANGED <<ctl, queue, pc, thread, closing, aiq, sources, pipe, ghosts>>

ClientStep ==
    \/ \E kind \in Kinds : Qbuf(kind)
    \/ StartWait \/ StartWaitTimeout \/ StartLocked
    \/ Stop \/ Close \/ StopAiq \/ StopSources \/ Configure
    \/ SetExit \/ ClearPending \/ NotifyExit \/ Join

-----------------------------------------------------------------------------
(* The event threads.                                                      *)

(* A frame starts: SofSource notifies its listeners, 3A and this thread,   *)
(* one after the other in an order the set of pointers decides.            *)
SofStart ==
    /\ streaming /\ sofOwed = {}
    /\ \/ sof < MaxSof /\ sof' = sof + 1
       \/ sof = MaxSof /\ ~PerFrameControl /\ sof' = sof
    /\ sofOwed' = {"aiq", "request"}
    /\ UNCHANGED <<ctl, queue, pc, thread, user, aiq, streaming, isysFrames, pipe, ghosts>>

SofToAiq ==
    /\ "aiq" \in sofOwed
    /\ sensorSof' = sof /\ sofOwed' = sofOwed \ {"aiq"}
    /\ UNCHANGED <<ctl, queue, pc, thread, user, aiqStarted, aiqSeq>>
    /\ UNCHANGED <<streaming, sof, isysFrames, pipe, ghosts>>

HandleSof ==
    /\ "request" \in sofOwed
    /\ sofOwed' = sofOwed \ {"request"}
    /\ mLastSofSeq' = sof
    /\ mRequestTriggerEvent' = mRequestTriggerEvent \cup {"sof"}
    /\ pc' = Woken
    /\ UNCHANGED <<mState, mLastCcaId, mLastEffectSeq, mLastAppliedSeq>>
    /\ UNCHANGED <<mPendingRequests, mRequestsInProcessing, mBlockRequest, mFirstRequest>>
    /\ UNCHANGED <<thread, user, aiq, streaming, sof, isysFrames, pipe, ghosts>>

(* EVENT_ISYS_FRAME or EVENT_PSYS_FRAME, whichever is registered.          *)
FrameEvent ==
    /\ mRequestsInProcessing' = FrameDone(mRequestsInProcessing)
    /\ IF mPendingRequests # <<>>
       THEN mRequestTriggerEvent' = mRequestTriggerEvent \cup {"frame"} /\ pc' = Woken
       ELSE UNCHANGED <<mRequestTriggerEvent, pc>>
    /\ UNCHANGED <<mPendingRequests, mBlockRequest, mFirstRequest>>
    /\ UNCHANGED <<ctl, thread, user, aiq, ghosts>>

HandleIsysFrame ==
    /\ streaming /\ ~PerFrameControl
    /\ \/ isysFrames <= sof /\ isysFrames' = isysFrames + 1
       \/ sof = MaxSof /\ UNCHANGED isysFrames
    /\ FrameEvent
    /\ UNCHANGED <<streaming, sof, sofOwed, pipe>>

(* The pipeline works on a dispatched request once its frame has started,  *)
(* and delivers one of the events it owes for it.                          *)
Deliver(f, e) ==
    /\ streaming /\ e \in f.owed
    /\ f.kind = "reprocess" \/ f.seq <= sof \/ sof = MaxSof
    /\ inFlight' = (inFlight \ {f}) \cup
          (IF f.owed = {e} THEN {} ELSE {[f EXCEPT !.owed = @ \ {e}]})
    /\ UNCHANGED sources

HandlePsysFrame(f) ==
    /\ Deliver(f, "frame")
    /\ FrameEvent
    /\ UNCHANGED fakeChecks

HandleStats(f) ==
    /\ Deliver(f, "stats")
    /\ mBlockRequest' = FALSE
    /\ mRequestTriggerEvent' = mRequestTriggerEvent \cup {"stats"}
    /\ pc' = Woken
    /\ UNCHANGED <<mPendingRequests, mRequestsInProcessing, mFirstRequest>>
    /\ UNCHANGED <<ctl, thread, user, aiq, fakeChecks, ghosts>>

(* EVENT_FRAME_AVAILABLE, its first section (the rest of it is in          *)
(* OutputFrames).  The buffer carries the sequence of the frame it was     *)
(* made from: the one the settings are for or, with that lost, a later.    *)
HandleFrameAvailable(f, s) ==
    /\ Deliver(f, s)
    /\ \E seq \in {f.seq} \cup f.seq .. sof :
          fakeChecks' = fakeChecks \cup {[id |-> f.id, stream |-> s, seq |-> seq]}
    /\ UNCHANGED <<ctl, queue, pc, thread, user, aiq, ghosts>>

(* Its second section: insert a fake request when none is pending.         *)
FakeNeeded(c) == c.seq >= mLastEffectSeq /\ mPendingRequests = <<>>

InsertFake(c) ==
    /\ c \in fakeChecks
    /\ fakeChecks' = fakeChecks \ {c}
    /\ IF FakeNeeded(c) /\ fakes < MaxFakes
       THEN /\ mPendingRequests' = <<[id |-> accepted + fakes + 1, kind |-> "fake"]>>
            /\ fakes' = fakes + 1
            /\ mRequestTriggerEvent' = mRequestTriggerEvent \cup {"request"}
            /\ pc' = Woken
       ELSE UNCHANGED <<mPendingRequests, fakes, mRequestTriggerEvent, pc>>
    /\ UNCHANGED <<mRequestsInProcessing, mBlockRequest, mFirstRequest>>
    /\ UNCHANGED <<ctl, thread, user, aiq, sources, inFlight>>
    /\ UNCHANGED <<accepted, stops, sessionBase, firstDone, straddled, dispatched>>

EventStep ==
    \/ SofStart \/ SofToAiq \/ HandleSof \/ HandleIsysFrame
    \/ \E f \in inFlight : HandlePsysFrame(f) \/ HandleStats(f)
    \/ \E f \in inFlight, s \in Streams : HandleFrameAvailable(f, s)
    \/ \E c \in fakeChecks : InsertFake(c)

Next == RequestThreadStep \/ ClientStep \/ EventStep

Spec == Init /\ [][Next]_vars

(* Threads run, timeouts expire, the client starts and finishes what it    *)
(* began, and the sensor and the pipeline keep delivering.  stopLocked     *)
(* ends even if another SOF comes while it waits: the source is told to    *)
(* end before it is joined, hence the strong fairness.                     *)
FairSpec ==
    /\ Spec
    /\ WF_vars(RequestThreadStep)
    /\ WF_vars(StartWait) /\ WF_vars(StartWaitTimeout) /\ WF_vars(StartLocked)
    /\ WF_vars(StopAiq) /\ SF_vars(StopSources) /\ WF_vars(SetExit)
    /\ WF_vars(ClearPending) /\ WF_vars(NotifyExit) /\ WF_vars(Join)
    /\ WF_vars(SofStart) /\ WF_vars(SofToAiq) /\ WF_vars(HandleSof)
    /\ WF_vars(HandleIsysFrame)
    /\ WF_vars(\E f \in inFlight : HandlePsysFrame(f))
    /\ WF_vars(\E f \in inFlight : HandleStats(f))

-----------------------------------------------------------------------------
(* Properties.                                                             *)

SeqNum == Nat \cup {-1}

QueueTypeOK ==
    /\ mPendingRequests \in Seq(Request)
    /\ mRequestsInProcessing \in Nat
    /\ mRequestTriggerEvent \in SUBSET Triggers
    /\ mBlockRequest \in BOOLEAN /\ mFirstRequest \in BOOLEAN
    /\ accepted \in 0 .. MaxRequests /\ fakes \in 0 .. MaxFakes

ThreadTypeOK ==
    /\ mState \in {"START", "PROCESSING", "EXIT"}
    /\ mLastCcaId \in SeqNum /\ mLastEffectSeq \in SeqNum
    /\ mLastAppliedSeq \in SeqNum /\ mLastSofSeq \in SeqNum
    /\ pc \in Places
    /\ request \in Request \cup {NoRequest}
    /\ applyingSeq \in SeqNum /\ effectSeq \in SeqNum
    /\ dispatched \in Nat

OutsideTypeOK ==
    /\ client \in {"idle", "wait1st", "wait1stDone", "start", "clearPending", "stopAiq",
                   "stopSources", "exit", "notify", "join", "closed"}
    /\ device \in {"CONFIGURE", "BUFFER_READY", "START", "STOP", "UNINIT"}
    /\ closing \in BOOLEAN
    /\ aiqStarted \in BOOLEAN /\ aiqSeq \in SeqNum /\ sensorSof \in SeqNum
    /\ streaming \in BOOLEAN /\ sof \in SeqNum
    /\ sofOwed \in SUBSET {"aiq", "request"} /\ isysFrames \in Nat
    /\ stops \in Nat /\ sessionBase \in Nat
    /\ firstDone \in BOOLEAN /\ straddled \in BOOLEAN

TypeOK == QueueTypeOK /\ ThreadTypeOK /\ OutsideTypeOK

(* The limit on requests in flight holds although blockRequest() tests it  *)
(* in one lock section and fetchNextRequest() counts in a later one.       *)
InFlightBounded == mRequestsInProcessing <= MaxRequestsInflight

(* With per-frame control the counter is the number of requests really in  *)
(* the HAL, as long as no clearRequests fell into the handling of one: the *)
(* saturating decrement of handleEvent never hides a miscount.             *)
InFlightExact ==
    PerFrameControl /\ ~straddled /\ client \in {"idle", "wait1st", "wait1stDone", "start"} =>
        mRequestsInProcessing = Cardinality({f \in inFlight : "frame" \in f.owed})
                              + (IF pc \in {"seq", "cca", "run3A", "settle", "notify"} THEN 1 ELSE 0)

(* No lost wakeup: whenever the request thread sleeps in wait_for, a       *)
(* request could not be processed; everything that ends this notifies.     *)
NoLostWakeup == pc = "waiting" => blockRequest

(* Requests leave in the order they came, none skipped, none twice: what   *)
(* is pending or being handled is exactly what was accepted since the last *)
(* clearRequests and not yet handed to the streams.                        *)
NextId == IF dispatched > sessionBase THEN dispatched + 1 ELSE sessionBase + 1

Undispatched ==
    (IF pc \in Handling \ {"first", "clear"} /\ request.id > sessionBase THEN <<request.id>> ELSE <<>>)
      \o [i \in 1 .. Len(mPendingRequests) |-> mPendingRequests[i].id]

InOrderNoLoss ==
    mState # "EXIT" =>
        Undispatched = [i \in 1 .. accepted + fakes + 1 - NextId |-> NextId + i - 1]

(* With per-frame control each request's 3A results go to a later frame    *)
(* than those of the request before it, whatever the order of the SOF,     *)
(* statistics, frame and request triggers; two go to the same frame only   *)
(* when nothing is left in the pipeline.                                   *)
OneRequestPerSof ==
    [][PerFrameControl /\ pc # "fetch" /\ pc' = "fetch" =>
         \/ mLastAppliedSeq' > mLastAppliedSeq
         \/ mLastAppliedSeq' = mLastAppliedSeq /\ mRequestsInProcessing = 0]_vars

(* RequestThread.cpp:390: "for new SOF, processes request for current      *)
(* sequence if no request processed for it".  The test that implements it, *)
(* mLastSofSeq > mLastAppliedSeq, is right only if a new SOF never finds   *)
(* mLastAppliedSeq ahead of it.                                            *)
NewSofServed ==
    [][mLastSofSeq' # mLastSofSeq /\ mLastSofSeq' >= 0 => mLastSofSeq' >= mLastAppliedSeq]_vars

(* Every accepted request is eventually handed to the streams or dropped   *)
(* by clearRequests.                                                       *)
RequestsServed ==
    \A i \in 1 .. MaxRequests :
        accepted + fakes >= i ~> (dispatched >= i \/ sessionBase >= i)

(* deinit terminates: whatever the request thread is doing or waiting for  *)
(* when EXIT is set, it leaves its loop and can be joined.                 *)
StopTerminates == closing ~> client = "closed"

(* RequestThread.cpp:176: mBlockRequest blocks "except the 1st request".   *)
(* A request of the session before that takes its 3A run number after      *)
(* clearRequests has reset it makes the first one block all the same.      *)
FirstRequestNotBlocked ==
    mPendingRequests # <<>> /\ mPendingRequests[1].id = sessionBase + 1
      /\ client \in {"idle", "wait1st", "wait1stDone", "start"}
        => ~(mBlockRequest /\ mLastCcaId >= 0)

(* RequestThread.h: wait1stRequestDone is to "Block the caller until the   *)
(* first request is processed."                                            *)
FirstRequestDone == client = "wait1stDone" => firstDone

(* RequestThread.cpp:133: "Don't block request handling if no 3A stats".   *)
NoStatsNoBlock ==
    ~EnableAiq /\ mPendingRequests # <<>> => ~(mBlockRequest /\ mLastCcaId >= 0)

(* RequestThread.cpp:324: a fake request goes in "if no any request in the *)
(* HAL"; all fakes share the one mFakeReqBuf.                              *)
OneFake ==
    Cardinality({f.id : f \in {g \in inFlight : g.kind = "fake"}}
      \cup (IF request.kind = "fake" THEN {request.id} ELSE {})
      \cup {mPendingRequests[i].id : i \in {j \in DOMAIN mPendingRequests :
                                             mPendingRequests[j].kind = "fake"}}) <= 1
=============================================================================
