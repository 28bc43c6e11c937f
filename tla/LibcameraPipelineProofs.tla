----------------------- MODULE LibcameraPipelineProofs -----------------------
(***************************************************************************)
(* The libcamera handler's records of requests, what an application was    *)
(* told of a request when it is completed, where the buffers of a stream   *)
(* are when the source is switched, and what stop leaves, proved for every *)
(* number of streams, records and requests, and however often the privacy  *)
(* shutter moves.                                                          *)
(***************************************************************************)
EXTENDS LibcameraPipeline, SequenceTheorems, FiniteSetTheorems, WellFoundedInduction,
        NaturalsInduction, TLAPS

USE DEF handler, pool, sensor, black, app

-----------------------------------------------------------------------------
(* Types.  A list of requests names requests that were handed in.          *)

Known == 1 .. Len(requests)

Runs      == [id : Ids, at : {"queued", "dispatched", "told"}, left : SUBSET Streams]
TellSet   == [kind : {"shutter", "metadata"}, id : Ids]
EventSet  == TellSet \cup [kind : {"buffer"}, id : Streams]
Locked    == mMutex.pc # "none"

ListTypes ==
    /\ requests \in Seq(Wants) /\ Len(requests) \in 0 .. MaxRequests
    /\ mPendingRequests \in Seq(Known) /\ mCaptureRequest \in Seq(Known)
    /\ completed \in Seq(Known)

PoolTypes ==
    /\ mAvailableRequestBuffers \in Seq(Infos)
    /\ mProcessingRequests \in [Ids -> Infos \cup {None}]
    /\ infos \in [Infos -> [id : Known \cup {None}, out : SUBSET Streams,
                            meta : BOOLEAN, shutter : BOOLEAN]]
    /\ \A r \in Ids : mProcessingRequests[r] # None =>
                         infos[mProcessingRequests[r]].id \in Known

DeviceTypes ==
    /\ device \in [on : BOOLEAN, exit : BOOLEAN, bound : BOOLEAN, requests : Seq(Runs)]
    /\ mOutputFrames \in [Streams -> Seq(Ids)]

BlackTypes ==
    /\ privacy \in [running : BOOLEAN, alive : BOOLEAN, tell : Seq(TellSet),
                   job : Seq(Ids \X Streams)]
    /\ mStreamQueueMap \in [Streams -> Seq(Ids)]

EventTypes == events \in Seq(EventSet)

(* A request has been handed in, but is not yet pushed.                    *)
Handing == capture.task = "switch" \/ capture.pc = "push"

CaptureShape ==
    DOMAIN capture = {"pc", "task", "stream"} /\ capture = [x \in DOMAIN capture |-> capture[x]]

CaptureTypes ==
    /\ CaptureShape
    /\ capture.task \in {"none", "switch", "stop"}
    /\ capture.task = "none" => capture.pc \in {"idle", "push", "process", "closed"}
    /\ capture.task = "switch" =>
          capture.pc \in {"wait", "halt", "join", "halting", "configure", "clear", "flip"}
    /\ capture.task = "stop" =>
          capture.pc \in {"halt", "join", "halting", "exit", "ending", "closed"}
    /\ Handing => Len(requests) > 0

ResultTypes ==
    /\ DOMAIN result = {"pc", "stream", "id"} /\ result = [x \in DOMAIN result |-> result[x]]
    /\ result.pc \in {"dequeued", "buffer", "done"} => result.id \in Ids \cup {None}
    /\ result.pc \in {"buffer", "done"} => result.id # None
    /\ result.pc = "complete" => result.id \in Infos /\ infos[result.id].id \in Known

MutexTypes ==
    /\ DOMAIN mMutex = {"by", "pc", "info"} /\ mMutex = [x \in DOMAIN mMutex |-> mMutex[x]]
    /\ Locked => /\ mMutex.by \in {"capture", "result"}
                 /\ mMutex.info \in Infos /\ infos[mMutex.info].id \in Known

(* Who holds mMutex is in processNewRequest, for the request in front.     *)
HeldBy == Locked => Processing(mMutex.by) /\ mPendingRequests # <<>>

ToldTypes == told \in [Ids -> [bufs : SUBSET Streams, ran : {"none", "device", "privacy"},
                               read : {"none", "device", "privacy"}]]

Types ==
    /\ ListTypes /\ PoolTypes /\ DeviceTypes /\ BlackTypes /\ EventTypes
    /\ CaptureTypes /\ ResultTypes /\ MutexTypes /\ ToldTypes /\ HeldBy

(* What only grows keeps the types of the lists.                           *)
LEMMA KnownTyped ==
    ASSUME ListTypes
    PROVE  /\ Known \subseteq Ids /\ Len(requests) \in Nat
           /\ \A r \in Known : Wanted(r) \in SUBSET Streams /\ Wanted(r) # {}
<1>1. Len(requests) \in 0 .. MaxRequests /\ MaxRequests \in Nat
  BY PipelineAssumption DEF ListTypes
<1>2. Known \subseteq Ids /\ Len(requests) \in Nat
  BY <1>1 DEF Known, Ids
<1>3. ASSUME NEW r \in Known PROVE Wanted(r) \in SUBSET Streams /\ Wanted(r) # {}
  <2>1. requests[r] \in Wants
    BY ElementOfSeq DEF ListTypes, Known
  <2>2. QED
    BY <2>1, PipelineAssumption DEF Wanted
<1>4. QED
  BY <1>2, <1>3

LEMMA SeqGrows ==
    ASSUME NEW S, NEW T, S \subseteq T, NEW s \in Seq(S)
    PROVE  s \in Seq(T)
<1>1. s \in [1 .. Len(s) -> S] /\ Len(s) \in Nat
  BY LenProperties
<1>2. s \in [1 .. Len(s) -> T]
  BY <1>1
<1>3. QED
  BY <1>1, <1>2, SeqDef

LEMMA TypesInit == Init => Types
<1> SUFFICES ASSUME Init PROVE Types
  OBVIOUS
<1>1. kMaxProcessingRequest \in Nat \ {0} /\ MaxRequests \in Nat
  BY PipelineAssumption
<1>2. ListTypes
  BY <1>1 DEF Init, ListTypes, Known
<1>3. PoolTypes
  <2>1. mAvailableRequestBuffers = [i \in 1 .. kMaxProcessingRequest |-> i]
    BY DEF Init, Infos
  <2>2. mAvailableRequestBuffers \in [1 .. kMaxProcessingRequest -> Infos]
    BY <2>1 DEF Infos
  <2>3. mAvailableRequestBuffers \in Seq(Infos)
    BY <1>1, <2>2, SeqDef
  <2>4. QED
    BY <2>3 DEF Init, PoolTypes, Infos, None
<1>4. DeviceTypes /\ BlackTypes /\ EventTypes
  BY DEF Init, DeviceTypes, BlackTypes, EventTypes
<1>5. CaptureTypes /\ ResultTypes /\ MutexTypes /\ ToldTypes /\ HeldBy
  BY DEF Init, CaptureTypes, CaptureShape, Handing, ResultTypes, MutexTypes, ToldTypes, HeldBy,
         Resting, Unlocked, Locked
<1>6. QED
  BY <1>2, <1>3, <1>4, <1>5 DEF Types

(* What an action leaves alone keeps its type.                             *)
LEMMA TypesSame ==
    ASSUME Types, UNCHANGED requests
    PROVE  /\ UNCHANGED <<mPendingRequests, mCaptureRequest, completed>> => ListTypes'
           /\ UNCHANGED pool => PoolTypes'
           /\ UNCHANGED sensor => DeviceTypes'
           /\ UNCHANGED <<privacy, mStreamQueueMap>> => BlackTypes'
           /\ UNCHANGED events => EventTypes'
           /\ UNCHANGED capture => CaptureTypes'
           /\ UNCHANGED <<result, infos>> => ResultTypes'
           /\ UNCHANGED <<mMutex, infos>> => MutexTypes'
           /\ UNCHANGED told => ToldTypes'
           /\ UNCHANGED <<mMutex, mPendingRequests, capture, result>> => HeldBy'
<1>1. UNCHANGED Known
  BY DEF Known
<1>2. UNCHANGED <<mPendingRequests, mCaptureRequest, completed>> => ListTypes'
  BY <1>1 DEF Types, ListTypes
<1>3. UNCHANGED pool => PoolTypes'
  BY <1>1 DEF Types, PoolTypes
<1>4. /\ UNCHANGED sensor => DeviceTypes'
      /\ UNCHANGED <<privacy, mStreamQueueMap>> => BlackTypes'
      /\ UNCHANGED events => EventTypes'
      /\ UNCHANGED told => ToldTypes'
  BY DEF Types, DeviceTypes, BlackTypes, EventTypes, ToldTypes
<1>5. UNCHANGED capture => CaptureTypes'
  BY DEF Types, CaptureTypes, CaptureShape, Handing
<1>6. /\ UNCHANGED <<result, infos>> => ResultTypes'
      /\ UNCHANGED <<mMutex, infos>> => MutexTypes'
      /\ UNCHANGED <<mMutex, mPendingRequests, capture, result>> => HeldBy'
  BY <1>1 DEF Types, ResultTypes, MutexTypes, HeldBy, Processing, Locked
<1>7. QED
  BY <1>2, <1>3, <1>4, <1>5, <1>6

LEMMA StillHeld ==
    ASSUME Types, UNCHANGED mMutex, mPendingRequests # <<>> => mPendingRequests' # <<>>,
           capture.pc = "process" => UNCHANGED capture, result.pc = "process" => UNCHANGED result
    PROVE  HeldBy'
BY DEF Types, HeldBy, Processing, Locked

LEMMA CaptureGoes ==
    ASSUME CaptureShape, NEW x, NEW y,
           \/ capture' = [capture EXCEPT !.pc = x] /\ y = capture.task
           \/ capture' = [capture EXCEPT !.pc = x, !.task = y]
    PROVE  CaptureShape' /\ capture'.pc = x /\ capture'.task = y
BY DEF CaptureShape

LEMMA CaptureWaits ==
    ASSUME NEW s, capture' = WaitFrom(s)
    PROVE  CaptureShape' /\ capture'.pc \in {"wait", "halt"} /\ capture'.task = "switch"
<1>1. CASE Busy(s) = {}
  <2>1. capture' = [pc |-> "halt", task |-> "switch", stream |-> None]
    BY <1>1 DEF WaitFrom
  <2>2. QED
    BY <2>1 DEF CaptureShape
<1>2. CASE Busy(s) # {}
  <2>1. capture' = [pc |-> "wait", task |-> "switch", stream |-> Min(Busy(s))]
    BY <1>2 DEF WaitFrom
  <2>2. QED
    BY <2>1 DEF CaptureShape
<1>3. QED
  BY <1>1, <1>2

(* Where the capture thread is after each of its steps.                    *)
LEMMA CaptureSteps ==
    ASSUME CaptureTypes
    PROVE  /\ HandleNewRequest => /\ CaptureShape' /\ capture.pc = "idle" /\ capture.task = "none"
                                  /\ \/ capture'.pc \in {"wait", "halt"} /\ capture'.task = "switch"
                                     \/ capture'.pc = "push" /\ capture'.task = "none"
           /\ WaitAllRequestsDone => /\ CaptureShape' /\ capture.task = "switch"
                                     /\ capture'.pc \in {"wait", "halt"} /\ capture'.task = "switch"
           /\ StopPrivacy => CaptureShape' /\ capture'.pc = "join" /\ capture'.task = capture.task
           /\ ClearRequests => CaptureShape' /\ capture'.pc = "halting" /\ capture'.task = capture.task
           /\ JoinPrivacy =>
                /\ CaptureShape' /\ capture'.task = capture.task
                /\ capture'.pc = IF capture.task = "switch" THEN "clear" ELSE "exit"
           /\ StopStream =>
                /\ CaptureShape' /\ capture'.task = capture.task
                /\ capture'.pc = IF capture.task = "switch" THEN "configure" ELSE "exit"
           /\ DeviceConfigure => CaptureShape' /\ capture'.pc = "clear" /\ capture'.task = capture.task
           /\ ClearStarted => CaptureShape' /\ capture'.pc = "flip" /\ capture'.task = capture.task
           /\ FlipPrivacy => CaptureShape' /\ capture'.pc = "push" /\ capture'.task = "none"
           /\ PushRequest => CaptureShape' /\ capture'.pc = "process" /\ capture'.task = capture.task
           /\ Stop => /\ CaptureShape' /\ capture.task = "none"
                      /\ IF mCameraStarted
                         THEN capture'.pc = "halt" /\ capture'.task = "stop"
                         ELSE capture'.pc = "closed" /\ capture'.task = "none"
           /\ ExitThreads => CaptureShape' /\ capture'.pc = "ending" /\ capture'.task = capture.task
           /\ JoinResult => CaptureShape' /\ capture'.pc = "closed" /\ capture'.task = capture.task
<1>1. CaptureShape
  BY DEF CaptureTypes
<1>2. capture.pc = "idle" => capture.task = "none"
  BY DEF CaptureTypes
<1>3. capture.pc = "wait" => capture.task = "switch"
  BY DEF CaptureTypes
<1>4. ASSUME HandleNewRequest
      PROVE  /\ CaptureShape' /\ capture.pc = "idle" /\ capture.task = "none"
             /\ \/ capture'.pc \in {"wait", "halt"} /\ capture'.task = "switch"
                \/ capture'.pc = "push" /\ capture'.task = "none"
  BY <1>1, <1>2, <1>4, CaptureGoes, CaptureWaits DEF HandleNewRequest
<1>5. ASSUME WaitAllRequestsDone
      PROVE  /\ CaptureShape' /\ capture.task = "switch"
             /\ capture'.pc \in {"wait", "halt"} /\ capture'.task = "switch"
  BY <1>1, <1>3, <1>5, CaptureWaits DEF WaitAllRequestsDone
<1>6. /\ JoinPrivacy =>
           /\ CaptureShape' /\ capture'.task = capture.task
           /\ capture'.pc = IF capture.task = "switch" THEN "clear" ELSE "exit"
      /\ StopStream =>
           /\ CaptureShape' /\ capture'.task = capture.task
           /\ capture'.pc = IF capture.task = "switch" THEN "configure" ELSE "exit"
  BY <1>1, CaptureGoes DEF JoinPrivacy, StopStream, AfterHalt
<1>7. ASSUME Stop
      PROVE  /\ CaptureShape' /\ capture.task = "none"
             /\ IF mCameraStarted
                THEN capture'.pc = "halt" /\ capture'.task = "stop"
                ELSE capture'.pc = "closed" /\ capture'.task = "none"
  BY <1>1, <1>2, <1>7, CaptureGoes DEF Stop
<1>8. QED
  BY <1>1, <1>4, <1>5, <1>6, <1>7, CaptureGoes
     DEF StopPrivacy, ClearRequests, DeviceConfigure, ClearStarted, FlipPrivacy, PushRequest,
         ExitThreads, JoinResult

LEMMA ResultGoes ==
    ASSUME ResultTypes, NEW x, result' = [result EXCEPT !.pc = x]
    PROVE  /\ DOMAIN result' = {"pc", "stream", "id"} /\ result' = [y \in DOMAIN result' |-> result'[y]]
           /\ result'.pc = x /\ result'.id = result.id
BY DEF ResultTypes

LEMMA ResultRests ==
    ASSUME result' = Resting \/ result' = [Resting EXCEPT !.pc = "process"]
    PROVE  ResultTypes' /\ result'.pc \in {"idle", "process"}
BY DEF ResultTypes, Resting

LEMMA MutexGoes ==
    ASSUME MutexTypes, NEW x, mMutex' = [mMutex EXCEPT !.pc = x]
    PROVE  /\ DOMAIN mMutex' = {"by", "pc", "info"} /\ mMutex' = [y \in DOMAIN mMutex' |-> mMutex'[y]]
           /\ mMutex'.pc = x /\ mMutex'.by = mMutex.by /\ mMutex'.info = mMutex.info
BY DEF MutexTypes

LEMMA ReturnTypes ==
    ASSUME Types, NEW t, Return(t), UNCHANGED <<requests, infos>>,
           t = "capture" => capture.pc = "process"
    PROVE  CaptureTypes' /\ ResultTypes'
<1>1. CASE t = "capture"
  <2>1. CaptureShape' /\ capture'.pc = "idle" /\ capture'.task = capture.task
    BY <1>1, CaptureGoes DEF Return, Types, CaptureTypes
  <2>2. capture.task = "none"
    BY <1>1 DEF Types, CaptureTypes
  <2>3. CaptureTypes'
    BY <2>1, <2>2 DEF CaptureTypes, Handing
  <2>4. QED
    BY <1>1, <2>3, TypesSame DEF Return
<1>2. CASE t # "capture"
  BY <1>2, TypesSame, ResultRests DEF Return, Types
<1>3. QED
  BY <1>1, <1>2

-----------------------------------------------------------------------------
LEMMA TypesNewRequest == Types /\ HandleNewRequest => Types'
<1> SUFFICES ASSUME Types, HandleNewRequest PROVE Types'
  OBVIOUS
<1>1. PICK w \in Wants : requests' = Append(requests, w)
  BY DEF HandleNewRequest
<1>2. requests \in Seq(Wants) /\ Len(requests) \in Nat /\ Len(requests) + 1 <= MaxRequests
  BY PipelineAssumption, LenProperties DEF Types, ListTypes, HandleNewRequest
<1>3. requests' \in Seq(Wants) /\ Len(requests') = Len(requests) + 1
  BY <1>1, <1>2
<1>4. Known \subseteq Known'
  BY <1>2, <1>3 DEF Known
<1>5. ListTypes'
  <2>1. mPendingRequests \in Seq(Known') /\ mCaptureRequest \in Seq(Known') /\ completed \in Seq(Known')
    BY <1>4, SeqGrows DEF Types, ListTypes
  <2>2. Len(requests') \in 0 .. MaxRequests
    BY <1>2, <1>3, PipelineAssumption
  <2>3. QED
    BY <1>3, <2>1, <2>2 DEF ListTypes, HandleNewRequest
<1>6. PoolTypes'
  BY <1>4 DEF Types, PoolTypes, HandleNewRequest
<1>7. ResultTypes' /\ MutexTypes'
  BY <1>4 DEF Types, ResultTypes, MutexTypes, HandleNewRequest, Locked
<1>8. CaptureTypes'
  <2>1. CaptureTypes /\ Len(requests') > 0
    BY <1>2, <1>3 DEF Types
  <2>2. QED
    BY <2>1, CaptureSteps DEF CaptureTypes, Handing
<1>9. DeviceTypes' /\ BlackTypes' /\ EventTypes' /\ ToldTypes' /\ HeldBy'
  BY StillHeld DEF Types, DeviceTypes, BlackTypes, EventTypes, ToldTypes, HandleNewRequest
<1>10. QED
  BY <1>5, <1>6, <1>7, <1>8, <1>9 DEF Types

LEMMA TypesCapture ==
    ASSUME Types, \/ WaitAllRequestsDone \/ StopPrivacy \/ JoinPrivacy \/ ClearStarted
                  \/ FlipPrivacy \/ PushRequest \/ Stop
    PROVE  Types'
<1>1. UNCHANGED <<requests, completed, pool, sensor, mStreamQueueMap, events, result, told>>
  BY DEF WaitAllRequestsDone, StopPrivacy, JoinPrivacy, ClearStarted, FlipPrivacy, PushRequest, Stop
<1>2. UNCHANGED mMutex
  BY DEF WaitAllRequestsDone, StopPrivacy, JoinPrivacy, ClearStarted, FlipPrivacy, PushRequest, Stop
<1>3. PoolTypes' /\ DeviceTypes' /\ EventTypes' /\ ResultTypes' /\ MutexTypes' /\ ToldTypes'
  BY <1>1, <1>2, TypesSame
<1>4. CaptureTypes'
  <2>1. CaptureTypes
    BY DEF Types
  <2>2. CASE WaitAllRequestsDone
    BY <1>1, <2>1, <2>2, CaptureSteps DEF CaptureTypes, Handing
  <2>3. CASE StopPrivacy
    BY <1>1, <2>1, <2>3, CaptureSteps DEF CaptureTypes, Handing, StopPrivacy
  <2>4. CASE JoinPrivacy
    BY <1>1, <2>1, <2>4, CaptureSteps DEF CaptureTypes, Handing, JoinPrivacy
  <2>5. CASE ClearStarted \/ FlipPrivacy
    BY <1>1, <2>1, <2>5, CaptureSteps DEF CaptureTypes, Handing, ClearStarted, FlipPrivacy
  <2>6. CASE PushRequest \/ Stop
    BY <1>1, <2>1, <2>6, CaptureSteps DEF CaptureTypes, Handing, PushRequest
  <2>7. QED
    BY <2>2, <2>3, <2>4, <2>5, <2>6
<1>5. BlackTypes'
  <2>1. CASE StopPrivacy
    BY <2>1 DEF StopPrivacy, Types, BlackTypes
  <2>2. CASE ~StopPrivacy
    <3>1. UNCHANGED privacy
      BY <2>2 DEF WaitAllRequestsDone, JoinPrivacy, ClearStarted, FlipPrivacy, PushRequest, Stop
    <3>2. QED
      BY <1>1, <3>1, TypesSame
  <2>3. QED
    BY <2>1, <2>2
<1>6. ListTypes'
  <2>1. CASE PushRequest
    <3>1. Len(requests) \in Known
      BY <2>1, KnownTyped DEF PushRequest, Types, CaptureTypes, Handing, Known
    <3>2. mPendingRequests' \in Seq(Known) /\ UNCHANGED mCaptureRequest
      BY <2>1, <3>1 DEF PushRequest, Types, ListTypes
    <3>3. QED
      BY <1>1, <3>2 DEF Types, ListTypes, Known
  <2>2. CASE StopPrivacy
    BY <1>1, <2>2 DEF StopPrivacy, Types, ListTypes, Known
  <2>3. CASE WaitAllRequestsDone \/ JoinPrivacy \/ ClearStarted \/ FlipPrivacy \/ Stop
    <3>1. UNCHANGED <<mPendingRequests, mCaptureRequest>>
      BY <2>3 DEF WaitAllRequestsDone, JoinPrivacy, ClearStarted, FlipPrivacy, Stop
    <3>2. QED
      BY <1>1, <3>1, TypesSame
  <2>4. QED
    BY <2>1, <2>2, <2>3
<1>7. HeldBy'
  <2>1. mPendingRequests # <<>> => mPendingRequests' # <<>>
    BY <1>6 DEF WaitAllRequestsDone, StopPrivacy, JoinPrivacy, ClearStarted, FlipPrivacy,
                PushRequest, Stop, Types, ListTypes
  <2>2. capture.pc # "process"
    BY DEF WaitAllRequestsDone, StopPrivacy, JoinPrivacy, ClearStarted, FlipPrivacy, PushRequest, Stop
  <2>3. QED
    BY <1>1, <1>2, <2>1, <2>2, StillHeld
<1>8. QED
  BY <1>3, <1>4, <1>5, <1>6, <1>7 DEF Types

(* The steps that stop a device.                                           *)
LEMMA RunsDropped ==
    ASSUME NEW rs \in Seq(Runs), NEW k \in 0 .. Len(rs)
    PROVE  SubSeq(rs, 1, k) \in Seq(Runs)
BY SubSeqProperties

LEMMA TypesHalt ==
    ASSUME Types, ClearRequests \/ StopStream \/ DeviceConfigure \/ ExitThreads \/ JoinResult
    PROVE  Types'
<1>1. UNCHANGED <<requests, completed, mPendingRequests, mCaptureRequest, pool, privacy,
                  mStreamQueueMap, events, mMutex, told>>
  BY DEF ClearRequests, StopStream, DeviceConfigure, ExitThreads, JoinResult
<1>2. /\ PoolTypes' /\ BlackTypes' /\ EventTypes' /\ MutexTypes' /\ ToldTypes'
      /\ ListTypes'
  BY <1>1, TypesSame
<1>3. CaptureTypes'
  <2>1. CaptureTypes
    BY DEF Types
  <2>2. CASE ClearRequests
    BY <1>1, <2>1, <2>2, CaptureSteps DEF CaptureTypes, Handing, ClearRequests
  <2>3. CASE StopStream
    BY <1>1, <2>1, <2>3, CaptureSteps DEF CaptureTypes, Handing, StopStream
  <2>4. CASE ExitThreads
    BY <1>1, <2>1, <2>4, CaptureSteps DEF CaptureTypes, Handing, ExitThreads
  <2>5. CASE JoinResult
    BY <1>1, <2>1, <2>5, CaptureSteps DEF CaptureTypes, Handing, JoinResult
  <2>6. CASE DeviceConfigure
    BY <1>1, <2>1, <2>6, CaptureSteps DEF CaptureTypes, Handing, DeviceConfigure
  <2>7. QED
    BY <2>2, <2>3, <2>4, <2>5, <2>6
<1>4. ResultTypes'
  <2>1. CASE JoinResult
    BY <2>1, <1>1, ResultGoes DEF JoinResult, Types, ResultTypes
  <2>2. CASE ~JoinResult
    <3>1. UNCHANGED result
      BY <2>2 DEF ClearRequests, StopStream, DeviceConfigure, ExitThreads
    <3>2. QED
      BY <1>1, <3>1, TypesSame
  <2>3. QED
    BY <2>1, <2>2
<1>5. DeviceTypes'
  <2>1. DeviceTypes
    BY DEF Types
  <2>2. [s \in Streams |-> <<>>] \in [Streams -> Seq(Ids)]
    OBVIOUS
  <2>3. CASE ClearRequests
    <3>1. PICK k \in 0 .. Len(device.requests) :
            device' = [device EXCEPT !.requests = SubSeq(@, 1, k)]
      BY <2>3 DEF ClearRequests
    <3>2. SubSeq(device.requests, 1, k) \in Seq(Runs)
      BY <2>1, RunsDropped DEF DeviceTypes
    <3>3. QED
      BY <2>1, <2>2, <2>3, <3>1, <3>2 DEF DeviceTypes, ClearRequests
  <2>4. CASE StopStream
    <3>1. device' = [on |-> FALSE, exit |-> device.exit, bound |-> device.bound, requests |-> <<>>]
      BY <2>1, <2>4 DEF DeviceTypes, StopStream
    <3>2. device' \in [on : BOOLEAN, exit : BOOLEAN, bound : BOOLEAN, requests : Seq(Runs)]
      <4>1. <<>> \in Seq(Runs)
        OBVIOUS
      <4>2. QED
        BY <2>1, <3>1, <4>1 DEF DeviceTypes
    <3>3. QED
      BY <2>1, <2>4, <3>2 DEF DeviceTypes, StopStream
  <2>5. CASE ExitThreads
    <3>1. device' = [on |-> device.on, exit |-> TRUE, bound |-> device.bound, requests |-> <<>>]
      BY <2>1, <2>5 DEF DeviceTypes, ExitThreads
    <3>2. device' \in [on : BOOLEAN, exit : BOOLEAN, bound : BOOLEAN, requests : Seq(Runs)]
      <4>1. <<>> \in Seq(Runs)
        OBVIOUS
      <4>2. QED
        BY <2>1, <3>1, <4>1 DEF DeviceTypes
    <3>3. QED
      BY <2>2, <2>5, <3>2 DEF DeviceTypes, ExitThreads
  <2>6. CASE JoinResult
    BY <2>1, <2>6, TypesSame DEF JoinResult
  <2>7. CASE DeviceConfigure
    BY <2>1, <2>7 DEF DeviceTypes, DeviceConfigure
  <2>8. QED
    BY <2>3, <2>4, <2>5, <2>6, <2>7
<1>6. HeldBy'
  BY <1>1, StillHeld DEF ClearRequests, StopStream, DeviceConfigure, ExitThreads, JoinResult
<1>7. QED
  BY <1>2, <1>3, <1>4, <1>5, <1>6 DEF Types

-----------------------------------------------------------------------------
(* processNewRequest.                                                      *)

LEMMA TypesNothing ==
    ASSUME Types, NEW t \in {"capture", "result"}, NothingToProcess(t)
    PROVE  Types'
<1>1. UNCHANGED <<requests, completed, mPendingRequests, mCaptureRequest, pool, sensor, privacy,
                  mStreamQueueMap, events, mMutex, told>>
  BY DEF NothingToProcess
<1>2. /\ PoolTypes' /\ DeviceTypes' /\ BlackTypes' /\ EventTypes' /\ MutexTypes' /\ ToldTypes'
      /\ ListTypes'
  BY <1>1, TypesSame
<1>3. CaptureTypes' /\ ResultTypes'
  BY <1>1, ReturnTypes DEF NothingToProcess, Processing
<1>4. HeldBy'
  BY <1>1 DEF NothingToProcess, HeldBy, Locked, Unlocked
<1>5. QED
  BY <1>2, <1>3, <1>4 DEF Types

(* The record that create takes, and the request it is for.                *)
NextInfo    == Head(mAvailableRequestBuffers)
NextRequest == Head(mPendingRequests)

LEMMA CreateTakes ==
    ASSUME Types, NEW t \in {"capture", "result"}, CreateInfo(t)
    PROVE  /\ NextInfo \in Infos /\ NextRequest \in Known /\ NextRequest \in Ids
           /\ NextInfo = mAvailableRequestBuffers[1] /\ NextRequest = mPendingRequests[1]
           /\ mMutex = Unlocked
           /\ mMutex' = [by |-> t, pc |-> "count", info |-> NextInfo]
           /\ infos' = [infos EXCEPT ![NextInfo] =
                [id |-> NextRequest, out |-> infos[NextInfo].out \cup Wanted(NextRequest),
                 meta |-> FALSE, shutter |-> FALSE]]
           /\ mProcessingRequests' = [mProcessingRequests EXCEPT ![NextRequest] = NextInfo]
           /\ infos[NextInfo].out \in SUBSET Streams /\ Wanted(NextRequest) \in SUBSET Streams
<1>1. mPendingRequests # <<>> /\ mAvailableRequestBuffers # <<>>
  BY DEF CreateInfo
<1>2. NextInfo \in Infos /\ NextInfo = mAvailableRequestBuffers[1]
  BY <1>1, HeadTailProperties DEF NextInfo, Types, PoolTypes
<1>3. NextRequest \in Known /\ NextRequest = mPendingRequests[1]
  BY <1>1, HeadTailProperties DEF NextRequest, Types, ListTypes
<1>4. NextRequest \in Ids /\ Wanted(NextRequest) \in SUBSET Streams
  BY <1>3, KnownTyped DEF Types
<1>5. infos[NextInfo].out \in SUBSET Streams
  BY <1>2 DEF Types, PoolTypes
<1>6. QED
  BY <1>2, <1>3, <1>4, <1>5 DEF CreateInfo, NextInfo, NextRequest

LEMMA TypesCreate ==
    ASSUME Types, NEW t \in {"capture", "result"}, CreateInfo(t)
    PROVE  Types'
<1> DEFINE i == NextInfo
           r == NextRequest
<1>1. /\ i \in Infos /\ r \in Known /\ r \in Ids
      /\ mMutex' = [by |-> t, pc |-> "count", info |-> i]
      /\ infos' = [infos EXCEPT ![i] = [id |-> r, out |-> infos[i].out \cup Wanted(r),
                                        meta |-> FALSE, shutter |-> FALSE]]
      /\ mProcessingRequests' = [mProcessingRequests EXCEPT ![r] = i]
      /\ infos[i].out \in SUBSET Streams /\ Wanted(r) \in SUBSET Streams
  BY CreateTakes
<1> HIDE DEF i, r
<1>2. UNCHANGED <<requests, completed, mPendingRequests, mCaptureRequest, sensor, privacy,
                  mStreamQueueMap, events, result, capture, told, Known>>
  BY DEF CreateInfo, Known
<1>3. /\ DeviceTypes' /\ BlackTypes' /\ EventTypes' /\ ToldTypes' /\ ListTypes' /\ CaptureTypes'
  BY <1>2, TypesSame
<1>4. infos' \in [Infos -> [id : Known \cup {None}, out : SUBSET Streams,
                            meta : BOOLEAN, shutter : BOOLEAN]]
      /\ infos'[i].id = r /\ \A j \in Infos \ {i} : infos'[j] = infos[j]
  BY <1>1 DEF Types, PoolTypes
<1>5. PoolTypes'
  <2>1. mAvailableRequestBuffers' \in Seq(Infos)
    BY HeadTailProperties DEF CreateInfo, Types, PoolTypes
  <2>2. mProcessingRequests' \in [Ids -> Infos \cup {None}]
    BY <1>1 DEF Types, PoolTypes
  <2>3. \A q \in Ids : mProcessingRequests'[q] # None =>
                          infos'[mProcessingRequests'[q]].id \in Known
    BY <1>1, <1>4 DEF Types, PoolTypes
  <2>4. QED
    BY <1>2, <1>4, <2>1, <2>2, <2>3 DEF PoolTypes
<1>6. ResultTypes'
  <2>1. result.pc = "complete" => infos'[result.id].id \in Known
    BY <1>1, <1>4 DEF Types, ResultTypes
  <2>2. QED
    BY <1>2, <2>1 DEF Types, ResultTypes
<1>7. MutexTypes' /\ HeldBy'
  BY <1>1, <1>2, <1>4 DEF MutexTypes, HeldBy, CreateInfo, Processing
<1>8. QED
  BY <1>3, <1>5, <1>6, <1>7 DEF Types

LEMMA TypesProcess ==
    ASSUME Types, ProcessNewRequest
    PROVE  Types'
<1>1. UNCHANGED <<requests, completed, pool, events, Known>>
  BY DEF ProcessNewRequest, CountBuffers, QueueBuffers, StartSource, PopPending, Known
<1>2. PoolTypes' /\ EventTypes'
  BY <1>1, TypesSame
<1>3. mMutex.pc \in {"count", "queue", "start", "started"}
  BY DEF ProcessNewRequest, CountBuffers, QueueBuffers, StartSource, PopPending
<1>4. /\ mMutex.by \in {"capture", "result"} /\ mMutex.info \in Infos
      /\ infos[mMutex.info].id \in Known
  BY <1>3 DEF Types, MutexTypes, Locked
<1>5. CASE CountBuffers
  <2>1. UNCHANGED <<mPendingRequests, mCaptureRequest, sensor, privacy, mStreamQueueMap,
                    capture, result, told>>
    BY <1>5 DEF CountBuffers
  <2>2. /\ ListTypes' /\ DeviceTypes' /\ BlackTypes' /\ CaptureTypes' /\ ResultTypes' /\ ToldTypes'
    BY <1>1, <2>1, TypesSame
  <2>3. MutexTypes' /\ HeldBy'
    BY <1>1, <1>3, <1>4, <1>5, MutexGoes DEF CountBuffers, Types, MutexTypes, HeldBy, Processing, Locked
  <2>4. QED
    BY <1>2, <2>2, <2>3 DEF Types
<1>6. CASE QueueBuffers
  <2> DEFINE r == infos[mMutex.info].id
  <2>1. r \in Known /\ r \in Ids /\ Wanted(r) \in SUBSET Streams
    BY <1>4, KnownTyped DEF Types
  <2>2. UNCHANGED <<mPendingRequests, mOutputFrames, privacy, mStreamQueueMap, capture, result>>
    BY <1>6 DEF QueueBuffers
  <2>3. BlackTypes' /\ CaptureTypes' /\ ResultTypes'
    BY <1>1, <2>2, TypesSame
  <2>4. MutexTypes' /\ HeldBy'
    BY <1>1, <1>3, <1>4, <1>6, MutexGoes DEF QueueBuffers, Types, MutexTypes, HeldBy, Processing, Locked
  <2>5. ToldTypes'
    BY <1>6, <2>1 DEF QueueBuffers, Source, Types, ToldTypes
  <2>6. ListTypes'
    <3>1. mCaptureRequest' = Append(mCaptureRequest, r) \/ UNCHANGED mCaptureRequest
      BY <1>6 DEF QueueBuffers
    <3> HIDE DEF r
    <3>2. mCaptureRequest \in Seq(Known)
      BY DEF Types, ListTypes
    <3>3. Append(mCaptureRequest, r) \in Seq(Known)
      BY <2>1, <3>2
    <3>4. QED
      BY <1>1, <2>2, <3>1, <3>2, <3>3 DEF Types, ListTypes
  <2>7. DeviceTypes'
    <3> DEFINE new == [id |-> r, at |-> "queued", left |-> Wanted(r)]
    <3>1. \/ UNCHANGED device
          \/ device' = [device EXCEPT !.exit = FALSE, !.requests = Append(@, new)]
      BY <1>6 DEF QueueBuffers
    <3>2. new \in Runs
      BY <2>1 DEF Runs
    <3>3. Append(device.requests, new) \in Seq(Runs)
      BY <3>2 DEF Types, DeviceTypes
    <3> HIDE DEF new
    <3>4. QED
      BY <2>2, <3>1, <3>3 DEF Types, DeviceTypes
  <2>8. QED
    BY <1>2, <2>3, <2>4, <2>5, <2>6, <2>7 DEF Types
<1>7. CASE StartSource
  <2>1. UNCHANGED <<mPendingRequests, mCaptureRequest, mOutputFrames, capture, result, told>>
    BY <1>7 DEF StartSource
  <2>2. ListTypes' /\ CaptureTypes' /\ ResultTypes' /\ ToldTypes'
    BY <1>1, <2>1, TypesSame
  <2>3. MutexTypes' /\ HeldBy'
    BY <1>1, <1>3, <1>4, <1>7, MutexGoes DEF StartSource, Types, MutexTypes, HeldBy, Processing, Locked
  <2>4. DeviceTypes'
    BY <1>7, <2>1 DEF StartSource, Types, DeviceTypes
  <2>5. BlackTypes'
    <3>1. \/ UNCHANGED <<privacy, mStreamQueueMap>>
          \/ /\ mStreamQueueMap' = [s \in Streams |-> <<>>]
             /\ privacy' = [privacy EXCEPT !.running = TRUE, !.alive = TRUE]
      BY <1>7 DEF StartSource
    <3>2. [s \in Streams |-> <<>>] \in [Streams -> Seq(Ids)]
      OBVIOUS
    <3>3. privacy' \in [running : BOOLEAN, alive : BOOLEAN, tell : Seq(TellSet),
                         job : Seq(Ids \X Streams)]
      BY <3>1 DEF Types, BlackTypes
    <3>4. mStreamQueueMap' \in [Streams -> Seq(Ids)]
      BY <3>1, <3>2 DEF Types, BlackTypes
    <3>5. QED
      BY <3>3, <3>4 DEF BlackTypes
  <2>6. QED
    BY <1>2, <2>2, <2>3, <2>4, <2>5 DEF Types
<1>8. CASE PopPending
  <2>1. UNCHANGED <<mCaptureRequest, sensor, privacy, mStreamQueueMap, told>>
    BY <1>8 DEF PopPending
  <2>2. DeviceTypes' /\ BlackTypes' /\ ToldTypes'
    BY <1>1, <2>1, TypesSame
  <2>3. MutexTypes' /\ HeldBy'
    BY <1>8 DEF PopPending, MutexTypes, HeldBy, Unlocked, Locked
  <2>4. CaptureTypes' /\ ResultTypes'
    <3>1. mMutex.by = "capture" => capture.pc = "process"
      BY <1>3 DEF Types, HeldBy, Locked, Processing
    <3>2. Return(mMutex.by) /\ UNCHANGED <<requests, infos>>
      BY <1>8 DEF PopPending
    <3>3. QED
      BY <3>1, <3>2, ReturnTypes
  <2>5. ListTypes'
    <3>1. mPendingRequests # <<>>
      BY <1>3 DEF Types, HeldBy, Locked
    <3>2. mPendingRequests' \in Seq(Known)
      BY <1>8, <3>1, HeadTailProperties DEF PopPending, Types, ListTypes
    <3>3. QED
      BY <1>1, <2>1, <3>2 DEF Types, ListTypes
  <2>6. QED
    BY <1>2, <2>2, <2>3, <2>4, <2>5 DEF Types
<1>9. QED
  BY <1>5, <1>6, <1>7, <1>8 DEF ProcessNewRequest

-----------------------------------------------------------------------------
(* The result thread.                                                      *)

LEMMA EventTyped ==
    ASSUME Types, NEW kind, Takes(kind)
    PROVE  /\ Tail(events) \in Seq(EventSet)
           /\ kind = "buffer" => Head(events).id \in Streams
           /\ kind \in {"shutter", "metadata"} => Head(events).id \in Ids
<1>1. events \in Seq(EventSet) /\ events # <<>>
  BY DEF Types, EventTypes, Takes
<1>2. Head(events) \in EventSet /\ Tail(events) \in Seq(EventSet)
  BY <1>1, HeadTailProperties
<1>3. Head(events).kind = kind
  BY DEF Takes
<1>4. QED
  BY <1>2, <1>3 DEF EventSet, TellSet

(* A change of a record that keeps its request.                            *)
LEMMA RecordKept ==
    ASSUME Types, NEW i \in Infos,
           UNCHANGED <<requests, mAvailableRequestBuffers, mProcessingRequests>>,
           \/ infos' = [infos EXCEPT ![i].shutter = TRUE]
           \/ infos' = [infos EXCEPT ![i].meta = TRUE]
           \/ \E s \in Streams : infos' = [infos EXCEPT ![i].out = @ \ {s}]
    PROVE  PoolTypes' /\ \A j \in Infos : infos'[j].id = infos[j].id
<1>1. UNCHANGED Known
  BY DEF Known
<1>2. /\ infos' \in [Infos -> [id : Known \cup {None}, out : SUBSET Streams,
                               meta : BOOLEAN, shutter : BOOLEAN]]
      /\ \A j \in Infos : infos'[j].id = infos[j].id
  <2>1. infos \in [Infos -> [id : Known \cup {None}, out : SUBSET Streams,
                             meta : BOOLEAN, shutter : BOOLEAN]]
    BY DEF Types, PoolTypes
  <2>2. CASE infos' = [infos EXCEPT ![i].shutter = TRUE]
    <3>0. infos[i] \in [id : {infos[i].id}, out : SUBSET Streams, meta : BOOLEAN,
                        shutter : BOOLEAN]
      BY <2>1
    <3>1. [infos[i] EXCEPT !.shutter = TRUE] \in
            [id : {infos[i].id}, out : SUBSET Streams, meta : BOOLEAN, shutter : BOOLEAN]
      BY <3>0
    <3>2. infos' = [infos EXCEPT ![i] = [infos[i] EXCEPT !.shutter = TRUE]]
      BY <2>2
    <3>3. QED
      BY <2>1, <3>1, <3>2
  <2>3. CASE infos' = [infos EXCEPT ![i].meta = TRUE]
    <3>0. infos[i] \in [id : {infos[i].id}, out : SUBSET Streams, meta : BOOLEAN,
                        shutter : BOOLEAN]
      BY <2>1
    <3>1. [infos[i] EXCEPT !.meta = TRUE] \in
            [id : {infos[i].id}, out : SUBSET Streams, meta : BOOLEAN, shutter : BOOLEAN]
      BY <3>0
    <3>2. infos' = [infos EXCEPT ![i] = [infos[i] EXCEPT !.meta = TRUE]]
      BY <2>3
    <3>3. QED
      BY <2>1, <3>1, <3>2
  <2>4. ASSUME NEW s \in Streams, infos' = [infos EXCEPT ![i].out = @ \ {s}]
        PROVE  /\ infos' \in [Infos -> [id : Known \cup {None}, out : SUBSET Streams,
                                        meta : BOOLEAN, shutter : BOOLEAN]]
               /\ \A j \in Infos : infos'[j].id = infos[j].id
    BY <2>1, <2>4
  <2>5. QED
    BY <2>2, <2>3, <2>4
<1>3. \A r \in Ids : mProcessingRequests[r] # None => mProcessingRequests[r] \in Infos
  BY DEF Types, PoolTypes
<1>4. QED
  BY <1>1, <1>2, <1>3 DEF Types, PoolTypes

LEMMA SameRequests ==
    ASSUME Types, \A j \in Infos : infos'[j].id = infos[j].id, UNCHANGED <<requests, mMutex>>
    PROVE  MutexTypes'
BY DEF Types, MutexTypes, Locked, Known

LEMMA TypesResult ==
    ASSUME Types, \/ ShutterReady \/ MetadataReady \/ DequeuePrivacy \/ DequeueDevice
                  \/ Dequeued \/ CompleteBuffer \/ Recycle \/ CompleteRequest
    PROVE  Types'
<1>1. UNCHANGED <<requests, mPendingRequests, mCaptureRequest, mMutex, capture, device, privacy,
                  Known>>
  BY DEF ShutterReady, MetadataReady, DequeuePrivacy, DequeueDevice, Dequeued, CompleteBuffer,
         Recycle, CompleteRequest, Known
<1>2. CaptureTypes'
  BY <1>1, TypesSame
<1>3. HeldBy'
  BY <1>1, StillHeld DEF ShutterReady, MetadataReady, DequeuePrivacy, DequeueDevice, Dequeued,
                         CompleteBuffer, Recycle, CompleteRequest, Takes
<1>4. EventTypes'
  <2>1. CASE ShutterReady \/ MetadataReady \/ DequeuePrivacy \/ DequeueDevice
    BY <2>1, EventTyped DEF ShutterReady, MetadataReady, DequeuePrivacy, DequeueDevice, EventTypes
  <2>2. CASE Dequeued \/ CompleteBuffer \/ Recycle \/ CompleteRequest
    <3>1. UNCHANGED events
      BY <2>2 DEF Dequeued, CompleteBuffer, Recycle, CompleteRequest
    <3>2. QED
      BY <1>1, <3>1, TypesSame
  <2>3. QED
    BY <2>1, <2>2
<1>5. CASE ShutterReady
  <2>1. UNCHANGED <<completed, mAvailableRequestBuffers, mProcessingRequests, sensor,
                    mStreamQueueMap, result, told>>
    BY <1>5 DEF ShutterReady
  <2>2. ListTypes' /\ DeviceTypes' /\ BlackTypes' /\ ToldTypes'
    BY <1>1, <2>1, TypesSame
  <2>3. PoolTypes' /\ \A j \in Infos : infos'[j].id = infos[j].id
    <3> DEFINE i == mProcessingRequests[Head(events).id]
    <3>1. i \in Infos \cup {None}
      BY <1>5, EventTyped DEF ShutterReady, Types, PoolTypes
    <3>2. infos' = IF i = None THEN infos ELSE [infos EXCEPT ![i].shutter = TRUE]
      BY <1>5 DEF ShutterReady
    <3> HIDE DEF i
    <3>3. CASE i = None
      BY <1>1, <2>1, <3>2, <3>3, TypesSame
    <3>4. CASE i # None
      BY <1>1, <2>1, <3>1, <3>2, <3>4, RecordKept
    <3>5. QED
      BY <3>3, <3>4
  <2>4. MutexTypes'
    BY <1>1, <2>3, SameRequests
  <2>5. ResultTypes'
    BY <1>1, <2>1, <2>3, <1>5 DEF Types, ResultTypes, ShutterReady, Takes
  <2>6. QED
    BY <1>2, <1>3, <1>4, <2>2, <2>3, <2>4, <2>5 DEF Types
<1>6. CASE MetadataReady
  <2>1. UNCHANGED <<completed, mAvailableRequestBuffers, mProcessingRequests, sensor,
                    mStreamQueueMap>>
    BY <1>6 DEF MetadataReady
  <2>2. ListTypes' /\ DeviceTypes' /\ BlackTypes'
    BY <1>1, <2>1, TypesSame
  <2> DEFINE r == Head(events).id
             i == mProcessingRequests[r]
  <2>3. r \in Ids /\ i \in Infos \cup {None}
    BY <1>6, EventTyped DEF MetadataReady, Types, PoolTypes
  <2>4. /\ infos' = IF i = None THEN infos ELSE [infos EXCEPT ![i].meta = TRUE]
        /\ told' = IF i = None THEN told ELSE [told EXCEPT ![r].read = Source]
        /\ result' = [Resting EXCEPT !.pc = "done", !.id = r]
    BY <1>6 DEF MetadataReady
  <2> HIDE DEF r, i
  <2>5. PoolTypes' /\ \A j \in Infos : infos'[j].id = infos[j].id
    <3>1. CASE i = None
      BY <1>1, <2>1, <2>4, <3>1, TypesSame
    <3>2. CASE i # None
      BY <1>1, <2>1, <2>3, <2>4, <3>2, RecordKept
    <3>3. QED
      BY <3>1, <3>2
  <2>6. MutexTypes'
    BY <1>1, <2>5, SameRequests
  <2>7. ResultTypes'
    <3>1. r # None
      BY <2>3 DEF Ids, None
    <3>2. QED
      BY <2>3, <2>4, <3>1 DEF ResultTypes, Resting
  <2>8. ToldTypes'
    BY <2>3, <2>4 DEF Types, ToldTypes, Source
  <2>9. QED
    BY <1>2, <1>3, <1>4, <2>2, <2>5, <2>6, <2>7, <2>8 DEF Types
<1>7. CASE DequeuePrivacy \/ DequeueDevice
  <2>1. UNCHANGED <<completed, pool, told>>
    BY <1>7 DEF DequeuePrivacy, DequeueDevice
  <2>2. ListTypes' /\ PoolTypes' /\ MutexTypes' /\ ToldTypes'
    BY <1>1, <2>1, TypesSame
  <2> DEFINE s == Head(events).id
  <2>3. s \in Streams
    BY <1>7, EventTyped DEF DequeuePrivacy, DequeueDevice
  <2>4. mStreamQueueMap[s] \in Seq(Ids) /\ mOutputFrames[s] \in Seq(Ids)
    BY <2>3 DEF Types, DeviceTypes, BlackTypes
  <2>5. CASE DequeuePrivacy
    <3> DEFINE q == mStreamQueueMap[s]
    <3>1. /\ result' = [pc |-> "dequeued", stream |-> s, id |-> IF q = <<>> THEN None ELSE Head(q)]
          /\ mStreamQueueMap' = [mStreamQueueMap EXCEPT ![s] = IF q = <<>> THEN q ELSE Tail(q)]
          /\ UNCHANGED sensor
      BY <2>5 DEF DequeuePrivacy
    <3>2. q # <<>> => Head(q) \in Ids /\ Tail(q) \in Seq(Ids)
      BY <2>4, HeadTailProperties
    <3> HIDE DEF q, s
    <3>3. ResultTypes'
      BY <3>1, <3>2 DEF ResultTypes
    <3>4. BlackTypes'
      <4>1. (IF q = <<>> THEN q ELSE Tail(q)) \in Seq(Ids)
        BY <2>4, <3>2 DEF q
      <4>2. mStreamQueueMap' \in [Streams -> Seq(Ids)]
        BY <2>3, <3>1, <4>1 DEF Types, BlackTypes
      <4>3. QED
        BY <1>1, <4>2 DEF Types, BlackTypes
    <3>5. DeviceTypes'
      BY <1>1, <3>1, TypesSame
    <3>6. QED
      BY <1>2, <1>3, <1>4, <2>2, <3>3, <3>4, <3>5 DEF Types
  <2>6. CASE DequeueDevice
    <3> DEFINE q == mOutputFrames[s]
    <3>1. /\ result' = [pc |-> "dequeued", stream |-> s,
                        id |-> IF device.exit THEN None ELSE Head(q)]
          /\ mOutputFrames' = [mOutputFrames EXCEPT ![s] = IF device.exit THEN q ELSE Tail(q)]
          /\ device.exit \/ q # <<>>
          /\ UNCHANGED black
      BY <2>6 DEF DequeueDevice
    <3>2. q # <<>> => Head(q) \in Ids /\ Tail(q) \in Seq(Ids)
      BY <2>4, HeadTailProperties
    <3> HIDE DEF q, s
    <3>3. ResultTypes'
      BY <3>1, <3>2 DEF ResultTypes
    <3>4. DeviceTypes'
      <4>1. (IF device.exit THEN q ELSE Tail(q)) \in Seq(Ids)
        BY <2>4, <3>1, <3>2 DEF q
      <4>2. mOutputFrames' \in [Streams -> Seq(Ids)]
        BY <2>3, <3>1, <4>1 DEF Types, DeviceTypes
      <4>3. QED
        BY <1>1, <4>2 DEF Types, DeviceTypes
    <3>5. BlackTypes'
      BY <1>1, <3>1, TypesSame
    <3>6. QED
      BY <1>2, <1>3, <1>4, <2>2, <3>3, <3>4, <3>5 DEF Types
  <2>7. QED
    BY <1>7, <2>5, <2>6
<1>8. CASE Dequeued
  <2>1. UNCHANGED <<completed, pool, sensor, mStreamQueueMap, told>>
    BY <1>8 DEF Dequeued
  <2>2. ListTypes' /\ PoolTypes' /\ DeviceTypes' /\ BlackTypes' /\ MutexTypes' /\ ToldTypes'
    BY <1>1, <2>1, TypesSame
  <2>3. ResultTypes'
    <3>1. CASE result.id = None
      BY <1>8, <3>1, ResultRests DEF Dequeued
    <3>2. CASE result.id # None
      <4>1. result' = [result EXCEPT !.pc = "buffer"] /\ result.id \in Ids
        BY <1>8, <3>2 DEF Dequeued, Types, ResultTypes
      <4>2. QED
        BY <3>2, <4>1, ResultGoes DEF Types, ResultTypes
    <3>3. QED
      BY <3>1, <3>2
  <2>4. QED
    BY <1>2, <1>3, <1>4, <2>2, <2>3 DEF Types
<1>9. CASE CompleteBuffer
  <2>1. UNCHANGED <<completed, mAvailableRequestBuffers, mProcessingRequests, sensor,
                    mStreamQueueMap>>
    BY <1>9 DEF CompleteBuffer
  <2>2. ListTypes' /\ DeviceTypes' /\ BlackTypes'
    BY <1>1, <2>1, TypesSame
  <2> DEFINE i == mProcessingRequests[result.id]
             s == result.stream
  <2>3. i \in Infos \cup {None} /\ result.id \in Ids
    BY <1>9 DEF CompleteBuffer, Types, PoolTypes, ResultTypes
  <2>4. \/ UNCHANGED <<infos, told>> /\ result' = Resting
        \/ /\ i # None /\ s \in infos[i].out
           /\ infos' = [infos EXCEPT ![i].out = @ \ {s}]
           /\ told' = [told EXCEPT ![infos[i].id].bufs = @ \cup {s}]
           /\ result' = [result EXCEPT !.pc = "done"]
    BY <1>9 DEF CompleteBuffer
  <2> HIDE DEF i, s
  <2>5. CASE UNCHANGED <<infos, told>> /\ result' = Resting
    BY <1>1, <1>2, <1>3, <1>4, <2>1, <2>2, <2>5, TypesSame, ResultRests DEF Types
  <2>6. CASE /\ i # None /\ s \in infos[i].out
             /\ infos' = [infos EXCEPT ![i].out = @ \ {s}]
             /\ told' = [told EXCEPT ![infos[i].id].bufs = @ \cup {s}]
             /\ result' = [result EXCEPT !.pc = "done"]
    <3>1. i \in Infos /\ s \in Streams
      BY <2>3, <2>6 DEF Types, PoolTypes
    <3>2. PoolTypes' /\ \A j \in Infos : infos'[j].id = infos[j].id
      BY <1>1, <2>1, <2>6, <3>1, RecordKept
    <3>3. MutexTypes'
      BY <1>1, <3>2, SameRequests
    <3>4. ResultTypes'
      BY <1>9, <2>6, ResultGoes DEF CompleteBuffer, Types, ResultTypes
    <3>5. ToldTypes'
      <4>1. told \in [Ids -> [bufs : SUBSET Streams, ran : {"none", "device", "privacy"},
                              read : {"none", "device", "privacy"}]]
        BY DEF Types, ToldTypes
      <4>2. told' \in [Ids -> [bufs : SUBSET Streams, ran : {"none", "device", "privacy"},
                               read : {"none", "device", "privacy"}]]
        <5>1. CASE infos[i].id \in Ids
          <6>1. told[infos[i].id].bufs \cup {s} \in SUBSET Streams
            BY <3>1, <4>1, <5>1
          <6>2. QED
            BY <2>6, <4>1, <5>1, <6>1
        <5>2. CASE infos[i].id \notin Ids
          <6>1. told' = told
            BY <2>6, <4>1, <5>2
          <6>2. QED
            BY <4>1, <6>1
        <5>3. QED
          BY <5>1, <5>2
      <4>3. QED
        BY <4>2 DEF ToldTypes
    <3>6. QED
      BY <1>2, <1>3, <1>4, <2>2, <3>2, <3>3, <3>4, <3>5 DEF Types
  <2>7. QED
    BY <2>4, <2>5, <2>6
<1>10. CASE Recycle
  <2>1. UNCHANGED <<completed, infos, sensor, mStreamQueueMap, told>>
    BY <1>10 DEF Recycle
  <2>2. ListTypes' /\ DeviceTypes' /\ BlackTypes' /\ MutexTypes' /\ ToldTypes'
    BY <1>1, <2>1, TypesSame
  <2> DEFINE i == mProcessingRequests[result.id]
  <2>3. i \in Infos \cup {None} /\ (i # None => infos[i].id \in Known)
    BY <1>10 DEF Recycle, Types, PoolTypes, ResultTypes
  <2>4. \/ result' = Resting /\ UNCHANGED <<mAvailableRequestBuffers, mProcessingRequests>>
        \/ /\ i # None
           /\ mAvailableRequestBuffers' = Append(mAvailableRequestBuffers, i)
           /\ mProcessingRequests' = Erased(infos[i].id)
           /\ result' = [Resting EXCEPT !.pc = "complete", !.id = i]
    BY <1>10 DEF Recycle
  <2> HIDE DEF i
  <2>5. CASE result' = Resting /\ UNCHANGED <<mAvailableRequestBuffers, mProcessingRequests>>
    BY <1>1, <1>2, <1>3, <1>4, <2>1, <2>2, <2>5, TypesSame, ResultRests DEF Types
  <2>6. CASE /\ i # None
             /\ mAvailableRequestBuffers' = Append(mAvailableRequestBuffers, i)
             /\ mProcessingRequests' = Erased(infos[i].id)
             /\ result' = [Resting EXCEPT !.pc = "complete", !.id = i]
    <3>1. i \in Infos /\ infos[i].id \in Known
      BY <2>3, <2>6
    <3>2. mAvailableRequestBuffers' \in Seq(Infos)
      BY <2>6, <3>1 DEF Types, PoolTypes
    <3>3. /\ mProcessingRequests' \in [Ids -> Infos \cup {None}]
          /\ \A r \in Ids : mProcessingRequests'[r] \in {mProcessingRequests[r], None}
      BY <2>6 DEF Erased, Types, PoolTypes
    <3>4. PoolTypes'
      BY <1>1, <2>1, <3>2, <3>3 DEF Types, PoolTypes
    <3>5. ResultTypes'
      BY <1>1, <2>1, <2>6, <3>1 DEF ResultTypes, Resting
    <3>6. QED
      BY <1>2, <1>3, <1>4, <2>2, <3>4, <3>5 DEF Types
  <2>7. QED
    BY <2>4, <2>5, <2>6
<1>11. CASE CompleteRequest
  <2>1. UNCHANGED <<pool, sensor, mStreamQueueMap, told>>
    BY <1>11 DEF CompleteRequest
  <2>2. PoolTypes' /\ DeviceTypes' /\ BlackTypes' /\ MutexTypes' /\ ToldTypes'
    BY <1>1, <2>1, TypesSame
  <2>3. completed' \in Seq(Known)
    BY <1>11 DEF CompleteRequest, Types, ListTypes, ResultTypes
  <2>4. ListTypes'
    BY <1>1, <2>3 DEF Types, ListTypes
  <2>5. ResultTypes'
    BY <1>11, ResultRests DEF CompleteRequest
  <2>6. QED
    BY <1>2, <1>3, <1>4, <2>2, <2>4, <2>5 DEF Types
<1>12. QED
  BY <1>5, <1>6, <1>7, <1>8, <1>9, <1>10, <1>11

-----------------------------------------------------------------------------
(* The sources.                                                            *)

LEMMA RemoveAtTyped ==
    ASSUME NEW S, NEW s \in Seq(S), NEW i \in 1 .. Len(s)
    PROVE  RemoveAt(s, i) \in Seq(S)
<1>1. SubSeq(s, 1, i - 1) \in Seq(S) /\ SubSeq(s, i + 1, Len(s)) \in Seq(S)
  BY SubSeqProperties
<1>2. QED
  BY <1>1, ConcatProperties DEF RemoveAt

LEMMA RunningTyped ==
    ASSUME NEW rs \in Seq(Runs), NEW j \in DOMAIN rs
    PROVE  Running(rs, j) \in Seq(Runs)
<1>1. j \in 1 .. Len(rs)
  BY LenProperties
<1>2. QED
  BY <1>1, RemoveAtTyped DEF Running

LEMMA TypesDevice ==
    ASSUME Types, Device
    PROVE  Types'
<1>1. UNCHANGED <<requests, completed, mPendingRequests, mCaptureRequest, mMutex, capture, result,
                  pool, privacy, mStreamQueueMap, told>>
  BY DEF Device, DispatchTask, SendMetadata, FrameAvailable
<1>2. /\ ListTypes' /\ PoolTypes' /\ BlackTypes' /\ CaptureTypes' /\ ResultTypes' /\ MutexTypes'
      /\ ToldTypes' /\ HeldBy'
  BY <1>1, TypesSame
<1> DEFINE rs == device.requests
<1>3. /\ rs \in Seq(Runs)
      /\ device \in [on : BOOLEAN, exit : BOOLEAN, bound : BOOLEAN, requests : Seq(Runs)]
  BY DEF Types, DeviceTypes
<1>4. \A j \in DOMAIN rs : rs[j] \in Runs /\ rs[j].id \in Ids
  <2>1. ASSUME NEW j \in DOMAIN rs PROVE rs[j] \in Runs
    BY <1>3, LenProperties, ElementOfSeq
  <2>2. QED
    BY <2>1 DEF Runs
<1>5. events \in Seq(EventSet) /\ mOutputFrames \in [Streams -> Seq(Ids)]
  BY DEF Types, EventTypes, DeviceTypes
<1>6. CASE DispatchTask
  <2>1. PICK j \in DOMAIN rs :
          /\ device' = [device EXCEPT !.requests[j].at = "dispatched"]
          /\ events' = Notify(Event("shutter", rs[j].id))
          /\ UNCHANGED mOutputFrames
    BY <1>6 DEF DispatchTask
  <2>2. [rs EXCEPT ![j].at = "dispatched"] \in Seq(Runs)
    BY <1>3, <1>4 DEF Runs
  <2>3. Event("shutter", rs[j].id) \in EventSet
    BY <1>4 DEF Event, EventSet, TellSet
  <2>4. device'.requests = [rs EXCEPT ![j].at = "dispatched"]
        /\ device' = [device EXCEPT !.requests = [rs EXCEPT ![j].at = "dispatched"]]
    BY <1>3, <2>1
  <2>5. device' \in [on : BOOLEAN, exit : BOOLEAN, bound : BOOLEAN, requests : Seq(Runs)]
    BY <1>3, <2>2, <2>4
  <2>6. DeviceTypes' /\ EventTypes'
    BY <1>5, <2>1, <2>3, <2>5 DEF DeviceTypes, EventTypes, Notify
  <2>7. QED
    BY <1>2, <2>6 DEF Types
<1>7. CASE SendMetadata
  <2>1. PICK j \in DOMAIN rs :
          /\ device' = [device EXCEPT !.requests = Running([rs EXCEPT ![j].at = "told"], j)]
          /\ events' = Notify(Event("metadata", rs[j].id))
          /\ UNCHANGED mOutputFrames
    BY <1>7 DEF SendMetadata
  <2>2. [rs EXCEPT ![j].at = "told"] \in Seq(Runs) /\ j \in DOMAIN [rs EXCEPT ![j].at = "told"]
    BY <1>3, <1>4 DEF Runs
  <2>3. Event("metadata", rs[j].id) \in EventSet
    BY <1>4 DEF Event, EventSet, TellSet
  <2>4. Running([rs EXCEPT ![j].at = "told"], j) \in Seq(Runs)
    BY <2>2, RunningTyped
  <2>5. device' \in [on : BOOLEAN, exit : BOOLEAN, bound : BOOLEAN, requests : Seq(Runs)]
    BY <1>3, <2>1, <2>4
  <2>6. DeviceTypes' /\ EventTypes'
    BY <1>5, <2>1, <2>3, <2>5 DEF DeviceTypes, EventTypes, Notify
  <2>7. QED
    BY <1>2, <2>6 DEF Types
<1>8. CASE FrameAvailable
  <2>1. \E j \in DOMAIN rs : \E s \in rs[j].left :
          /\ device' = [device EXCEPT !.requests = Running([rs EXCEPT ![j].left = @ \ {s}], j)]
          /\ mOutputFrames' = [mOutputFrames EXCEPT ![s] = Append(@, rs[j].id)]
          /\ events' = Append(events, Event("buffer", s))
    BY <1>8 DEF FrameAvailable
  <2>2. PICK j \in DOMAIN rs, s \in Streams :
          /\ s \in rs[j].left
          /\ device' = [device EXCEPT !.requests = Running([rs EXCEPT ![j].left = @ \ {s}], j)]
          /\ mOutputFrames' = [mOutputFrames EXCEPT ![s] = Append(@, rs[j].id)]
          /\ events' = Append(events, Event("buffer", s))
    BY <1>4, <2>1 DEF Runs
  <2>3. s \in Streams
    OBVIOUS
  <2>4. /\ [rs EXCEPT ![j].left = @ \ {s}] \in Seq(Runs)
        /\ j \in DOMAIN [rs EXCEPT ![j].left = @ \ {s}]
    BY <1>3, <1>4 DEF Runs
  <2>5. Event("buffer", s) \in EventSet
    BY <2>3 DEF Event, EventSet
  <2> DEFINE later == Running([rs EXCEPT ![j].left = @ \ {s}], j)
  <2>6. later \in Seq(Runs)
    BY <2>4, RunningTyped
  <2>7. device' = [device EXCEPT !.requests = later]
    BY <2>2
  <2> HIDE DEF later
  <2>8. device' \in [on : BOOLEAN, exit : BOOLEAN, bound : BOOLEAN, requests : Seq(Runs)]
    BY <1>3, <2>6, <2>7
  <2>9. mOutputFrames' \in [Streams -> Seq(Ids)]
    BY <1>4, <1>5, <2>2, <2>3
  <2>10. DeviceTypes' /\ EventTypes'
    <3>1. events' \in Seq(EventSet)
      BY <1>5, <2>2, <2>5
    <3>2. QED
      BY <2>8, <2>9, <3>1 DEF DeviceTypes, EventTypes
  <2>11. QED
    BY <1>2, <2>10 DEF Types
<1>9. QED
  BY <1>6, <1>7, <1>8 DEF Device

(* The order in which the black frames of a request are filled.            *)
LEMMA JobTyped ==
    ASSUME NEW T, IsFiniteSet(T)
    PROVE  SetToSeq(T) \in Seq(T)
<1> DEFINE n == Cardinality(T)
           P(f) == f \in [1 .. n -> T] /\ IsInjective(f)
<1>1. n \in Nat /\ ExistsBijection(1 .. n, T)
  BY FS_CardinalityType
<1>2. \E f : P(f)
  BY <1>1 DEF ExistsBijection, Bijection, Injection, IsInjective
<1>3. P(CHOOSE f : P(f))
  BY <1>2
<1>4. SetToSeq(T) \in [1 .. n -> T]
  BY <1>3 DEF SetToSeq
<1>5. QED
  BY <1>1, <1>4, SeqDef

LEMMA TypesPrivacy ==
    ASSUME Types, PrivacyThread
    PROVE  Types'
<1>1. UNCHANGED <<requests, completed, mPendingRequests, mMutex, capture, result, pool, sensor,
                  told, Known>>
  BY DEF PrivacyThread, TakeCaptureRequest, PrivacyTell, PrivacyFrame, Known
<1>2. /\ PoolTypes' /\ DeviceTypes' /\ CaptureTypes' /\ ResultTypes' /\ MutexTypes'
      /\ ToldTypes' /\ HeldBy'
  BY <1>1, TypesSame
<1>3. /\ events \in Seq(EventSet) /\ mStreamQueueMap \in [Streams -> Seq(Ids)]
      /\ privacy \in [running : BOOLEAN, alive : BOOLEAN, tell : Seq(TellSet),
                     job : Seq(Ids \X Streams)]
  BY DEF Types, EventTypes, BlackTypes
<1>4. CASE TakeCaptureRequest
  <2>1. CASE ~privacy.running
    <3>1. UNCHANGED <<mCaptureRequest, events, mStreamQueueMap>>
          /\ privacy' = [privacy EXCEPT !.alive = FALSE]
      BY <1>4, <2>1 DEF TakeCaptureRequest
    <3>2. BlackTypes'
      BY <3>1, <1>3 DEF BlackTypes
    <3>3. ListTypes' /\ EventTypes'
      BY <1>1, <3>1, TypesSame
    <3>4. QED
      BY <1>2, <3>2, <3>3 DEF Types
  <2>2. CASE privacy.running
    <3> DEFINE r == Head(mCaptureRequest)
               T == {<<r, s>> : s \in Wanted(r)}
    <3>1. /\ mCaptureRequest # <<>>
          /\ privacy' = [privacy EXCEPT !.tell = <<Event("shutter", r), Event("metadata", r)>>,
                                        !.job = SetToSeq(T)]
          /\ mCaptureRequest' = Tail(mCaptureRequest)
          /\ UNCHANGED <<events, mStreamQueueMap>>
      BY <1>4, <2>2 DEF TakeCaptureRequest
    <3>2. r \in Known /\ Tail(mCaptureRequest) \in Seq(Known)
      BY <3>1, HeadTailProperties DEF Types, ListTypes
    <3>3. r \in Ids /\ Wanted(r) \in SUBSET Streams
      BY <3>2, KnownTyped DEF Types
    <3> HIDE DEF r
    <3>4. IsFiniteSet(T)
      <4>1. IsFiniteSet(Streams) /\ IsFiniteSet(Ids)
        BY PipelineAssumption, FS_Interval DEF Streams, Ids
      <4>2. IsFiniteSet(Ids \X Streams)
        BY <4>1, FS_Product
      <4>3. T \in SUBSET (Ids \X Streams)
        BY <3>3
      <4>4. QED
        BY <4>2, <4>3, FS_Subset
    <3>5. T \subseteq Ids \X Streams
      BY <3>3
    <3> HIDE DEF T
    <3>6. SetToSeq(T) \in Seq(Ids \X Streams)
      BY <3>4, <3>5, JobTyped, SeqGrows
    <3>7. BlackTypes'
      <4>1. Event("shutter", r) \in TellSet /\ Event("metadata", r) \in TellSet
        BY <3>3 DEF Event, TellSet
      <4>2. <<Event("shutter", r), Event("metadata", r)>> \in Seq(TellSet)
        BY <4>1
      <4>3. QED
        BY <1>3, <3>1, <3>6, <4>2 DEF BlackTypes
    <3>8. EventTypes'
      BY <1>1, <3>1, TypesSame
    <3>9. ListTypes'
      BY <1>1, <3>1, <3>2 DEF Types, ListTypes
    <3>10. QED
      BY <1>2, <3>7, <3>8, <3>9 DEF Types
  <2>3. QED
    BY <2>1, <2>2
<1>5. CASE PrivacyFrame
  <2> DEFINE r == Head(privacy.job)[1]
             s == Head(privacy.job)[2]
  <2>1. /\ mStreamQueueMap' = [mStreamQueueMap EXCEPT ![s] = Append(@, r)]
        /\ events' = Append(events, Event("buffer", s))
        /\ privacy' = [privacy EXCEPT !.job = Tail(@)]
        /\ privacy.job # <<>> /\ UNCHANGED mCaptureRequest
    BY <1>5 DEF PrivacyFrame
  <2>2. Head(privacy.job) \in Ids \X Streams /\ Tail(privacy.job) \in Seq(Ids \X Streams)
    BY <1>3, <2>1, HeadTailProperties
  <2>3. r \in Ids /\ s \in Streams
    BY <2>2
  <2> HIDE DEF r, s
  <2>4. mStreamQueueMap' \in [Streams -> Seq(Ids)]
    BY <1>3, <2>1, <2>3
  <2>5. privacy' \in [running : BOOLEAN, alive : BOOLEAN, tell : Seq(TellSet),
                      job : Seq(Ids \X Streams)]
    BY <1>3, <2>1, <2>2
  <2>6. Event("buffer", s) \in EventSet
    BY <2>3 DEF Event, EventSet
  <2>7. EventTypes'
    BY <1>3, <2>1, <2>6 DEF EventTypes
  <2>8. ListTypes'
    BY <1>1, <2>1, TypesSame
  <2>9. QED
    BY <1>2, <2>4, <2>5, <2>7, <2>8 DEF Types, BlackTypes
<1>6. CASE PrivacyTell
  <2>1. /\ privacy.tell # <<>> /\ UNCHANGED <<mCaptureRequest, mStreamQueueMap>>
        /\ events' = Append(events, Head(privacy.tell))
        /\ privacy' = [privacy EXCEPT !.tell = Tail(@)]
    BY <1>6 DEF PrivacyTell
  <2>2. Head(privacy.tell) \in TellSet /\ Tail(privacy.tell) \in Seq(TellSet)
    BY <1>3, <2>1, HeadTailProperties
  <2>3. privacy' \in [running : BOOLEAN, alive : BOOLEAN, tell : Seq(TellSet),
                      job : Seq(Ids \X Streams)]
    BY <1>3, <2>1, <2>2
  <2>4. EventTypes'
    BY <1>3, <2>1, <2>2 DEF EventTypes, EventSet
  <2>5. ListTypes'
    BY <1>1, <2>1, TypesSame
  <2>6. QED
    BY <1>2, <1>3, <2>1, <2>3, <2>4, <2>5 DEF Types, BlackTypes
<1>7. QED
  BY <1>4, <1>5, <1>6 DEF PrivacyThread

LEMMA TypesStep == Types /\ [Next]_vars => Types'
<1> SUFFICES ASSUME Types, [Next]_vars PROVE Types'
  OBVIOUS
<1>1. CASE HandleNewRequest
  BY <1>1, TypesNewRequest
<1>2. CASE WaitAllRequestsDone \/ StopPrivacy \/ JoinPrivacy \/ ClearStarted \/ FlipPrivacy
           \/ PushRequest \/ Stop
  BY <1>2, TypesCapture
<1>3. CASE ClearRequests \/ StopStream \/ DeviceConfigure \/ ExitThreads \/ JoinResult
  BY <1>3, TypesHalt
<1>4. CASE Enter("capture") \/ Enter("result")
  BY <1>4, TypesNothing, TypesCreate DEF Enter
<1>5. CASE ProcessNewRequest
  BY <1>5, TypesProcess
<1>6. CASE ShutterReady \/ MetadataReady \/ DequeuePrivacy \/ DequeueDevice \/ Dequeued
           \/ CompleteBuffer \/ Recycle \/ CompleteRequest
  BY <1>6, TypesResult
<1>7. CASE Device \/ PrivacyThread
  BY <1>7, TypesDevice, TypesPrivacy
<1>8. CASE MoveShutter \/ UNCHANGED vars
  <2>1. UNCHANGED <<requests, completed, mPendingRequests, mCaptureRequest, mMutex, capture, result,
                    events, pool, sensor, privacy, mStreamQueueMap, told>>
    BY <1>8 DEF MoveShutter, vars
  <2>2. QED
    BY <2>1, TypesSame DEF Types
<1>9. QED
  BY <1>1, <1>2, <1>3, <1>4, <1>5, <1>6, <1>7, <1>8 DEF Next, CaptureThread, ResultThread

-----------------------------------------------------------------------------
(* Records.                                                                *)

(* The requests up to this one have been pushed.                           *)
Pushed == Len(requests) - (IF Handing THEN 1 ELSE 0)

(* Pending requests are in order, and none has a record but the one that   *)
(* is being queued.                                                        *)
PendingInv ==
    /\ \A k \in 1 .. Len(mPendingRequests) : mPendingRequests[k] <= Pushed
    /\ \A j, k \in 1 .. Len(mPendingRequests) :
          j < k => mPendingRequests[j] < mPendingRequests[k]
    /\ \A k \in 1 .. Len(mPendingRequests) :
          mProcessingRequests[mPendingRequests[k]] # None => Locked /\ k = 1

Free(i) == \E k \in 1 .. Len(mAvailableRequestBuffers) : mAvailableRequestBuffers[k] = i
Used(i) == \E r \in Ids : mProcessingRequests[r] = i

(* A record is listed once if it is free, and if not it holds the request  *)
(* that the map has it for.                                                *)
RecordInv ==
    /\ \A r \in Ids : mProcessingRequests[r] # None =>
          r <= Pushed /\ infos[mProcessingRequests[r]].id = r
    /\ \A j, k \in 1 .. Len(mAvailableRequestBuffers) :
          mAvailableRequestBuffers[j] = mAvailableRequestBuffers[k] => j = k
    /\ \A i \in Infos : Free(i) <=> ~Used(i)

PoolInv == Types /\ PendingInv /\ RecordInv

LEMMA PoolInit == Init => PendingInv /\ RecordInv
<1> SUFFICES ASSUME Init PROVE PendingInv /\ RecordInv
  OBVIOUS
<1>1. mPendingRequests = <<>> /\ \A r \in Ids : mProcessingRequests[r] = None
  BY DEF Init
<1>2. kMaxProcessingRequest \in Nat
  BY PipelineAssumption
<1>3. mAvailableRequestBuffers = [i \in 1 .. kMaxProcessingRequest |-> i]
  BY DEF Init, Infos
<1>4. Len(mAvailableRequestBuffers) = kMaxProcessingRequest
  BY <1>2, <1>3
<1>5. PendingInv
  BY <1>1 DEF PendingInv
<1>6. RecordInv
  BY <1>1, <1>2, <1>3, <1>4 DEF RecordInv, Free, Used, Infos, None
<1>7. QED
  BY <1>5, <1>6

(* Only pushRequest makes one more of the requests a pushed one.           *)
LEMMA PushedSame ==
    ASSUME Types, [Next]_vars
    PROVE  /\ ~PushRequest => Pushed' = Pushed
           /\ PushRequest => Pushed' = Len(requests) /\ Pushed = Len(requests) - 1
<1>1. Len(requests) \in Nat
  BY KnownTyped DEF Types
<1>2. CaptureTypes
  BY DEF Types
<1>3. CASE HandleNewRequest
  <2>1. Len(requests') = Len(requests) + 1
    <3>1. PICK w \in Wants : requests' = Append(requests, w)
      BY <1>3 DEF HandleNewRequest
    <3>2. requests \in Seq(Wants)
      BY DEF Types, ListTypes
    <3>3. QED
      BY <3>1, <3>2
  <2>2. ~Handing /\ Handing'
    BY <1>2, <1>3, CaptureSteps DEF Handing
  <2>3. ~PushRequest
    BY <1>3 DEF HandleNewRequest, PushRequest
  <2>4. QED
    BY <1>1, <2>1, <2>2, <2>3 DEF Pushed
<1>4. CASE PushRequest
  <2>1. Handing /\ ~Handing' /\ UNCHANGED requests
    BY <1>2, <1>4, CaptureSteps DEF Handing, CaptureTypes, PushRequest
  <2>2. QED
    BY <1>1, <1>4, <2>1 DEF Pushed
<1>5. CASE ~HandleNewRequest /\ ~PushRequest
  <2>1. UNCHANGED requests
    BY <1>5 DEF Next, Stop, MoveShutter, CaptureThread, ResultThread, ProcessNewRequest, Device,
                PrivacyThread, vars, WaitAllRequestsDone, StopPrivacy, JoinPrivacy, ClearRequests,
                StopStream, DeviceConfigure, ClearStarted, FlipPrivacy, ExitThreads, JoinResult,
                Enter, NothingToProcess, CreateInfo, CountBuffers, QueueBuffers, StartSource, PopPending,
                ShutterReady, MetadataReady, DequeuePrivacy, DequeueDevice, Dequeued,
                CompleteBuffer, Recycle, CompleteRequest, DispatchTask, SendMetadata,
                FrameAvailable, TakeCaptureRequest, PrivacyTell, PrivacyFrame
  <2>2. Handing' <=> Handing
    <3>1. CASE WaitAllRequestsDone \/ ClearStarted \/ FlipPrivacy
      BY <1>2, <3>1, CaptureSteps DEF Handing, CaptureTypes, ClearStarted, FlipPrivacy
    <3>2. CASE StopPrivacy \/ JoinPrivacy
      BY <1>2, <3>2, CaptureSteps DEF Handing, StopPrivacy, JoinPrivacy
    <3>3. CASE ClearRequests \/ StopStream \/ DeviceConfigure
      BY <1>2, <3>3, CaptureSteps DEF Handing, ClearRequests, StopStream, DeviceConfigure
    <3>4. CASE ExitThreads \/ JoinResult
      BY <1>2, <3>4, CaptureSteps DEF Handing, ExitThreads, JoinResult
    <3>5. CASE Stop
      BY <1>2, <3>5, CaptureSteps DEF Handing, Stop
    <3>6. ASSUME NEW t, Return(t), t = "capture" => capture.pc = "process"
          PROVE  Handing' <=> Handing
      <4>1. CASE t = "capture"
        <5>1. capture'.pc = "idle" /\ capture'.task = capture.task
          BY <1>2, <3>6, <4>1, CaptureGoes DEF Return, CaptureTypes
        <5>2. QED
          BY <3>6, <4>1, <5>1 DEF Handing
      <4>2. CASE t # "capture"
        BY <3>6, <4>2 DEF Return, Handing
      <4>3. QED
        BY <4>1, <4>2
    <3>7. ASSUME NEW t \in {"capture", "result"}, Enter(t) PROVE Handing' <=> Handing
      BY <3>6, <3>7 DEF Enter, NothingToProcess, Processing, CreateInfo, Handing
    <3>8. CASE PopPending
      <4>1. mMutex.by = "capture" => capture.pc = "process"
        BY <3>8 DEF PopPending, Types, HeldBy, Locked, Processing
      <4>2. QED
        BY <3>6, <3>8, <4>1 DEF PopPending
    <3>9. CASE CountBuffers \/ QueueBuffers \/ StartSource \/ MoveShutter \/ UNCHANGED vars
      BY <3>9 DEF CountBuffers, QueueBuffers, StartSource, MoveShutter, vars, Handing
    <3>10. CASE \/ ShutterReady \/ MetadataReady \/ DequeuePrivacy \/ DequeueDevice \/ Dequeued
                \/ CompleteBuffer \/ Recycle \/ CompleteRequest
      BY <3>10 DEF ShutterReady, MetadataReady, DequeuePrivacy, DequeueDevice, Dequeued,
                   CompleteBuffer, Recycle, CompleteRequest, Handing
    <3>11. CASE Device \/ PrivacyThread
      BY <3>11 DEF Device, DispatchTask, SendMetadata, FrameAvailable, PrivacyThread,
                   TakeCaptureRequest, PrivacyTell, PrivacyFrame, Handing
    <3>12. QED
      BY <1>5, <3>1, <3>2, <3>3, <3>4, <3>5, <3>7, <3>8, <3>9, <3>10, <3>11
         DEF Next, CaptureThread, ResultThread, ProcessNewRequest
  <2>3. QED
    BY <1>5, <2>1, <2>2 DEF Pushed
<1>6. QED
  BY <1>3, <1>4, <1>5

(* What changes neither the lists nor the map.                             *)
LEMMA PoolSame ==
    ASSUME PendingInv, RecordInv, Pushed' = Pushed,
           UNCHANGED <<mPendingRequests, mAvailableRequestBuffers, mProcessingRequests, mMutex>>,
           \A r \in Ids : mProcessingRequests[r] # None =>
               infos'[mProcessingRequests[r]].id = infos[mProcessingRequests[r]].id
    PROVE  PendingInv' /\ RecordInv'
BY DEF PendingInv, RecordInv, Free, Used, Locked

LEMMA PoolStep == PoolInv /\ [Next]_vars => PendingInv' /\ RecordInv'
<1> SUFFICES ASSUME PoolInv, [Next]_vars PROVE PendingInv' /\ RecordInv'
  OBVIOUS
<1>1. Types /\ PendingInv /\ RecordInv
  BY DEF PoolInv
<1>2. /\ mPendingRequests \in Seq(Known) /\ Len(mPendingRequests) \in Nat
      /\ mAvailableRequestBuffers \in Seq(Infos) /\ Len(mAvailableRequestBuffers) \in Nat
      /\ Known \subseteq Ids /\ Pushed \in Int /\ None \notin Infos
      /\ mProcessingRequests \in [Ids -> Infos \cup {None}]
  BY <1>1, KnownTyped, LenProperties
     DEF Types, ListTypes, PoolTypes, Pushed, Infos, None
<1>3. CASE PushRequest
  <2>1. Pushed' = Len(requests) /\ Pushed = Len(requests) - 1
    BY <1>1, <1>3, PushedSame
  <2>2. /\ mPendingRequests' = Append(mPendingRequests, Len(requests))
        /\ UNCHANGED <<pool, mMutex>> /\ mMutex = Unlocked
    BY <1>3 DEF PushRequest
  <2>3. Len(requests) \in Ids
    <3>1. Len(requests) > 0 /\ Len(requests) \in 0 .. MaxRequests
      BY <1>1, <1>3 DEF PushRequest, Types, CaptureTypes, Handing, ListTypes
    <3>2. QED
      BY <3>1, PipelineAssumption DEF Ids
  <2>4. mProcessingRequests[Len(requests)] = None
    BY <1>1, <2>1, <2>3 DEF RecordInv, Ids
  <2>5. /\ Len(mPendingRequests') = Len(mPendingRequests) + 1
        /\ mPendingRequests'[Len(mPendingRequests) + 1] = Len(requests)
        /\ \A k \in 1 .. Len(mPendingRequests) : mPendingRequests'[k] = mPendingRequests[k]
    BY <1>2, <2>2
  <2>6. PendingInv'
    <3>1. ASSUME NEW k \in 1 .. Len(mPendingRequests)
          PROVE  /\ mPendingRequests'[k] <= Pushed' /\ mPendingRequests'[k] < Len(requests)
                 /\ mProcessingRequests'[mPendingRequests'[k]] = None
      <4>1. mPendingRequests[k] <= Pushed /\ mPendingRequests[k] \in Known
        BY <1>1, <1>2, ElementOfSeq DEF PendingInv
      <4>2. mProcessingRequests[mPendingRequests[k]] = None
        BY <1>1, <2>2 DEF PendingInv, Locked, Unlocked
      <4>3. QED
        BY <1>2, <2>1, <2>2, <2>5, <4>1, <4>2 DEF Known
    <3>2. QED
      BY <1>1, <1>2, <2>1, <2>2, <2>4, <2>5, <3>1 DEF PendingInv
  <2>7. RecordInv'
    <3>1. \A r \in Ids : r <= Pushed => r <= Pushed'
      BY <1>1, <2>1, KnownTyped DEF Ids, Types
    <3>2. QED
      BY <1>1, <2>2, <3>1 DEF RecordInv, Free, Used
  <2>8. QED
    BY <2>6, <2>7
<1>4. ASSUME ~PushRequest PROVE Pushed' = Pushed
  BY <1>1, <1>4, PushedSame
<1>12. UNCHANGED capture => ~PushRequest
  <2>1. PushRequest => capture'.pc = "process" /\ capture.pc = "push"
    BY <1>1, CaptureSteps DEF Types, PushRequest
  <2>2. QED
    BY <2>1
<1>5. ASSUME NEW t \in {"capture", "result"}, CreateInfo(t)
      PROVE  PendingInv' /\ RecordInv'
  <2> DEFINE i == NextInfo
             r == NextRequest
  <2>1. /\ i \in Infos /\ r \in Ids
        /\ i = mAvailableRequestBuffers[1] /\ r = mPendingRequests[1]
        /\ mMutex = Unlocked
        /\ mMutex' = [by |-> t, pc |-> "count", info |-> i]
        /\ infos' = [infos EXCEPT ![i] = [id |-> r, out |-> infos[i].out \cup Wanted(r),
                                          meta |-> FALSE, shutter |-> FALSE]]
        /\ mProcessingRequests' = [mProcessingRequests EXCEPT ![r] = i]
    <3>1. Types
      BY <1>1
    <3>2. QED
      BY <1>5, <3>1, CreateTakes
  <2>2. /\ mPendingRequests # <<>> /\ mAvailableRequestBuffers # <<>> /\ ~PushRequest
        /\ mAvailableRequestBuffers' = Tail(mAvailableRequestBuffers)
        /\ UNCHANGED mPendingRequests
    BY <1>5 DEF CreateInfo, PushRequest, Processing
  <2> HIDE DEF i, r
  <2>3. /\ Len(mPendingRequests) >= 1 /\ Len(mAvailableRequestBuffers) >= 1
        /\ Len(mAvailableRequestBuffers') = Len(mAvailableRequestBuffers) - 1
        /\ \A k \in 1 .. Len(mAvailableRequestBuffers) - 1 :
              mAvailableRequestBuffers'[k] = mAvailableRequestBuffers[k + 1]
    BY <1>2, <2>2, HeadTailProperties, EmptySeq
  <2>4. \A q \in Ids : mProcessingRequests[q] # i
    <3>1. Free(i)
      BY <2>1, <2>3 DEF Free
    <3>2. QED
      BY <1>1, <2>1, <3>1 DEF RecordInv, Used
  <2>5. r <= Pushed /\ mProcessingRequests[r] = None
    BY <1>1, <2>1, <2>3 DEF PendingInv, Locked, Unlocked
  <2>6. \A k \in 1 .. Len(mPendingRequests) : mPendingRequests[k] \in Ids
    BY <1>2, ElementOfSeq
  <2>7. PendingInv'
    <3>1. ASSUME NEW k \in 1 .. Len(mPendingRequests), mProcessingRequests'[mPendingRequests[k]] # None
          PROVE  k = 1
      <4>1. mProcessingRequests[mPendingRequests[k]] = None
        BY <1>1, <2>1 DEF PendingInv, Locked, Unlocked
      <4>2. mPendingRequests[k] = r
        BY <1>2, <2>1, <2>6, <3>1, <4>1
      <4>3. ~(1 < k)
        <5>1. 1 < k => mPendingRequests[1] < mPendingRequests[k]
          BY <1>1, <2>3 DEF PendingInv
        <5>2. QED
          BY <2>1, <4>2, <5>1 DEF Ids
      <4>4. QED
        BY <4>3
    <3>2. Locked'
      BY <2>1 DEF Locked
    <3>3. QED
      BY <1>1, <1>4, <2>2, <3>1, <3>2 DEF PendingInv
  <2>8. RecordInv'
    <3>1. ASSUME NEW q \in Ids, mProcessingRequests'[q] # None
          PROVE  q <= Pushed' /\ infos'[mProcessingRequests'[q]].id = q
      <4>1. CASE q = r
        BY <1>1, <1>2, <1>4, <2>1, <2>2, <2>5, <4>1 DEF Types, PoolTypes
      <4>2. CASE q # r
        <5>1. mProcessingRequests'[q] = mProcessingRequests[q] /\ mProcessingRequests[q] # i
          BY <1>2, <2>1, <2>4, <4>2
        <5>2. infos'[mProcessingRequests[q]] = infos[mProcessingRequests[q]]
          BY <1>1, <1>2, <2>1, <3>1, <5>1 DEF Types, PoolTypes
        <5>3. QED
          BY <1>1, <1>4, <2>2, <3>1, <5>1, <5>2 DEF RecordInv
      <4>3. QED
        BY <4>1, <4>2
    <3>2. ASSUME NEW j \in 1 .. Len(mAvailableRequestBuffers'),
                 NEW k \in 1 .. Len(mAvailableRequestBuffers'),
                 mAvailableRequestBuffers'[j] = mAvailableRequestBuffers'[k]
          PROVE  j = k
      BY <1>1, <1>2, <2>3, <3>2 DEF RecordInv
    <3>3. ASSUME NEW m \in Infos PROVE Free(m)' <=> ~Used(m)'
      <4>1. CASE m = i
        <5>1. Used(m)'
          BY <1>2, <2>1, <4>1 DEF Used
        <5>2. ASSUME NEW k \in 1 .. Len(mAvailableRequestBuffers'),
                     mAvailableRequestBuffers'[k] = i
              PROVE  FALSE
          BY <1>1, <1>2, <2>1, <2>3, <5>2 DEF RecordInv
        <5>3. QED
          BY <4>1, <5>1, <5>2 DEF Free
      <4>2. CASE m # i
        <5>1. Used(m)' <=> Used(m)
          <6>1. \A q \in Ids : mProcessingRequests'[q] = m <=> mProcessingRequests[q] = m
            BY <1>2, <2>1, <2>5, <4>2
          <6>2. QED
            BY <6>1 DEF Used
        <5>2. Free(m)' => Free(m)
          BY <1>2, <2>3 DEF Free
        <5>3. Free(m) => Free(m)'
          <6>1. ASSUME NEW k \in 1 .. Len(mAvailableRequestBuffers), mAvailableRequestBuffers[k] = m
                PROVE  Free(m)'
            <7>1. k # 1
              BY <2>1, <4>2, <6>1
            <7>2. k - 1 \in 1 .. Len(mAvailableRequestBuffers') /\ mAvailableRequestBuffers'[k - 1] = m
              BY <1>2, <2>3, <6>1, <7>1
            <7>3. QED
              BY <7>2 DEF Free
          <6>2. QED
            BY <6>1 DEF Free
        <5>4. QED
          BY <1>1, <5>1, <5>2, <5>3 DEF RecordInv
      <4>3. QED
        BY <4>1, <4>2
    <3>4. QED
      BY <3>1, <3>2, <3>3 DEF RecordInv
  <2>9. QED
    BY <2>7, <2>8
<1>6. CASE PopPending
  <2>1. /\ mPendingRequests' = Tail(mPendingRequests) /\ mPendingRequests # <<>>
        /\ UNCHANGED pool /\ ~PushRequest /\ Locked /\ mMutex' = Unlocked
    <3>1. Locked
      BY <1>6 DEF PopPending, Locked
    <3>2. mPendingRequests # <<>>
      BY <1>1, <3>1 DEF Types, HeldBy
    <3>3. ~PushRequest
      BY <3>1 DEF PushRequest, Locked, Unlocked
    <3>4. QED
      BY <1>6, <3>1, <3>2, <3>3 DEF PopPending
  <2>2. /\ Len(mPendingRequests') = Len(mPendingRequests) - 1 /\ Len(mPendingRequests) >= 1
        /\ \A k \in 1 .. Len(mPendingRequests) - 1 : mPendingRequests'[k] = mPendingRequests[k + 1]
    BY <1>2, <2>1, HeadTailProperties, EmptySeq
  <2>3. PendingInv'
    <3>1. ASSUME NEW k \in 1 .. Len(mPendingRequests')
          PROVE  /\ mPendingRequests'[k] <= Pushed'
                 /\ mProcessingRequests'[mPendingRequests'[k]] = None
      BY <1>1, <1>2, <1>4, <2>1, <2>2 DEF PendingInv
    <3>2. ASSUME NEW j \in 1 .. Len(mPendingRequests'), NEW k \in 1 .. Len(mPendingRequests'), j < k
          PROVE  mPendingRequests'[j] < mPendingRequests'[k]
      BY <1>1, <1>2, <2>2, <3>2 DEF PendingInv
    <3>3. QED
      BY <3>1, <3>2 DEF PendingInv
  <2>4. RecordInv'
    BY <1>1, <1>4, <2>1 DEF RecordInv, Free, Used
  <2>5. QED
    BY <2>3, <2>4
<1>7. CASE Recycle
  <2> DEFINE i == mProcessingRequests[result.id]
  <2>1. result.id \in Ids /\ ~PushRequest /\ UNCHANGED <<mPendingRequests, infos, mMutex>>
    BY <1>1, <1>7 DEF Recycle, Types, ResultTypes, PushRequest
  <2>2. \/ UNCHANGED <<mAvailableRequestBuffers, mProcessingRequests>>
        \/ /\ i # None
           /\ mAvailableRequestBuffers' = Append(mAvailableRequestBuffers, i)
           /\ mProcessingRequests' = Erased(infos[i].id)
    BY <1>7 DEF Recycle
  <2>3. CASE UNCHANGED <<mAvailableRequestBuffers, mProcessingRequests>>
    BY <1>1, <1>4, <2>1, <2>3, PoolSame
  <2>4. CASE /\ i # None
             /\ mAvailableRequestBuffers' = Append(mAvailableRequestBuffers, i)
             /\ mProcessingRequests' = Erased(infos[i].id)
    <3>1. i \in Infos /\ infos[i].id = result.id
      BY <1>1, <1>2, <2>1, <2>4 DEF RecordInv
    <3>2. mProcessingRequests' = [mProcessingRequests EXCEPT ![result.id] = None]
      BY <2>4, <3>1 DEF Erased
    <3>3. /\ Len(mAvailableRequestBuffers') = Len(mAvailableRequestBuffers) + 1
          /\ mAvailableRequestBuffers'[Len(mAvailableRequestBuffers) + 1] = i
          /\ \A k \in 1 .. Len(mAvailableRequestBuffers) :
                mAvailableRequestBuffers'[k] = mAvailableRequestBuffers[k]
      BY <1>2, <2>4, <3>1
    <3>4. \A k \in 1 .. Len(mAvailableRequestBuffers) : mAvailableRequestBuffers[k] # i
      <4>1. Used(i)
        BY <2>1 DEF Used
      <4>2. QED
        BY <1>1, <3>1, <4>1 DEF RecordInv, Free
    <3> HIDE DEF i
    <3>5. \A k \in 1 .. Len(mPendingRequests) : mPendingRequests[k] \in Ids
      BY <1>2, ElementOfSeq
    <3>6. \A q \in Ids : mProcessingRequests'[q] = IF q = result.id THEN None ELSE mProcessingRequests[q]
      BY <1>2, <3>2
    <3>7. PendingInv'
      BY <1>1, <1>4, <2>1, <3>5, <3>6 DEF PendingInv, Locked
    <3>8. ASSUME NEW q \in Ids, mProcessingRequests'[q] # None
          PROVE  q <= Pushed' /\ infos'[mProcessingRequests'[q]].id = q /\ mProcessingRequests'[q] # i
      <4>1. q # result.id /\ mProcessingRequests'[q] = mProcessingRequests[q]
        BY <3>6, <3>8
      <4>2. infos[mProcessingRequests[q]].id = q /\ q <= Pushed
        BY <1>1, <3>8, <4>1 DEF RecordInv
      <4>3. QED
        BY <1>4, <2>1, <3>1, <4>1, <4>2
    <3>9. ASSUME NEW j \in 1 .. Len(mAvailableRequestBuffers'),
                 NEW k \in 1 .. Len(mAvailableRequestBuffers'),
                 mAvailableRequestBuffers'[j] = mAvailableRequestBuffers'[k]
          PROVE  j = k
      BY <1>1, <1>2, <3>3, <3>4, <3>9 DEF RecordInv
    <3>10. ASSUME NEW m \in Infos PROVE Free(m)' <=> ~Used(m)'
      <4>1. CASE m = i
        <5>1. Free(m)'
          BY <1>2, <3>3, <4>1 DEF Free
        <5>2. ~Used(m)'
          BY <1>2, <3>8, <4>1 DEF Used
        <5>3. QED
          BY <5>1, <5>2
      <4>2. CASE m # i
        <5>1. Free(m)' <=> Free(m)
          BY <1>2, <3>3, <4>2 DEF Free
        <5>2. Used(m)' <=> Used(m)
          <6>1. \A q \in Ids : mProcessingRequests'[q] = m <=> mProcessingRequests[q] = m
            BY <1>2, <3>6, <4>2 DEF i
          <6>2. QED
            BY <6>1 DEF Used
        <5>3. QED
          BY <1>1, <5>1, <5>2 DEF RecordInv
      <4>3. QED
        BY <4>1, <4>2
    <3>11. QED
      BY <3>7, <3>8, <3>9, <3>10 DEF RecordInv
  <2>5. QED
    BY <2>2, <2>3, <2>4
<1>8. CASE \/ \E t \in {"capture", "result"} : NothingToProcess(t)
           \/ HandleNewRequest \/ Stop \/ MoveShutter \/ WaitAllRequestsDone \/ StopPrivacy
           \/ JoinPrivacy \/ ClearRequests \/ StopStream \/ DeviceConfigure \/ ClearStarted
           \/ FlipPrivacy \/ ExitThreads \/ JoinResult \/ DequeuePrivacy \/ DequeueDevice \/ Dequeued
           \/ CompleteRequest \/ Device \/ PrivacyThread \/ UNCHANGED vars
  <2>1. UNCHANGED <<mPendingRequests, pool, mMutex>>
    BY <1>8 DEF NothingToProcess, HandleNewRequest, Stop, MoveShutter, WaitAllRequestsDone,
                StopPrivacy, JoinPrivacy, ClearRequests, StopStream, DeviceConfigure,
                ClearStarted, FlipPrivacy, ExitThreads, JoinResult, DequeuePrivacy,
                DequeueDevice, Dequeued, CompleteRequest,
                Device, DispatchTask, SendMetadata, FrameAvailable, PrivacyThread,
                TakeCaptureRequest, PrivacyTell, PrivacyFrame, vars
  <2>2. QED
    BY <1>1, <1>3, <1>4, <2>1, PoolSame
<1>9. CASE CountBuffers \/ QueueBuffers \/ StartSource
  <2>1. UNCHANGED <<mPendingRequests, pool>> /\ ~PushRequest /\ Locked /\ Locked'
    BY <1>1, <1>9, MutexGoes DEF CountBuffers, QueueBuffers, StartSource, PushRequest, Unlocked,
                                 Locked, Types
  <2>2. QED
    BY <1>1, <1>4, <2>1 DEF PendingInv, RecordInv, Free, Used
<1>10. CASE ShutterReady \/ MetadataReady \/ CompleteBuffer
  <2>1. UNCHANGED <<mPendingRequests, mAvailableRequestBuffers, mProcessingRequests, mMutex, requests,
                     capture>>
    BY <1>10 DEF ShutterReady, MetadataReady, CompleteBuffer, PushRequest
  <2>2. \A j \in Infos : infos'[j].id = infos[j].id
    <3>1. CASE UNCHANGED infos
      BY <3>1
    <3>2. CASE ShutterReady /\ ~UNCHANGED infos
      <4>1. mProcessingRequests[Head(events).id] \in Infos
        BY <1>1, <1>2, <3>2, EventTyped DEF ShutterReady
      <4>2. QED
        BY <1>1, <2>1, <3>2, <4>1, RecordKept DEF ShutterReady
    <3>3. CASE MetadataReady /\ ~UNCHANGED infos
      <4>1. mProcessingRequests[Head(events).id] \in Infos
        BY <1>1, <1>2, <3>3, EventTyped DEF MetadataReady
      <4>2. QED
        BY <1>1, <2>1, <3>3, <4>1, RecordKept DEF MetadataReady
    <3>4. CASE CompleteBuffer /\ ~UNCHANGED infos
      <4>1. mProcessingRequests[result.id] \in Infos
        BY <1>1, <1>2, <3>4 DEF CompleteBuffer, Types, ResultTypes
      <4>2. result.stream \in Streams
        BY <1>1, <3>4, <4>1 DEF CompleteBuffer, Types, PoolTypes
      <4>3. QED
        BY <1>1, <2>1, <3>4, <4>1, <4>2, RecordKept DEF CompleteBuffer
    <3>5. QED
      BY <1>10, <3>1, <3>2, <3>3, <3>4
  <2>3. \A q \in Ids : mProcessingRequests[q] # None => mProcessingRequests[q] \in Infos
    BY <1>2
  <2>4. QED
    BY <1>1, <1>4, <1>12, <2>1, <2>2, <2>3, PoolSame
<1>11. QED
  BY <1>3, <1>5, <1>6, <1>7, <1>8, <1>9, <1>10
     DEF Next, CaptureThread, ResultThread, ProcessNewRequest, Enter

LEMMA PoolInductive == Spec => []PoolInv
<1>1. Init => PoolInv
  BY TypesInit, PoolInit DEF PoolInv
<1>2. PoolInv /\ [Next]_vars => PoolInv'
  BY TypesStep, PoolStep DEF PoolInv
<1>3. QED
  BY <1>1, <1>2, PTL DEF Spec

(* A record is free or holds one request in process, never both and never  *)
(* neither, whatever the two threads do and however many requests wait.    *)
THEOREM RecordsKept == Spec => []RecordsAccounted
<1>1. PoolInv => RecordsAccounted
  <2> SUFFICES ASSUME PoolInv, NEW i \in Infos
               PROVE  Cardinality({k \in DOMAIN mAvailableRequestBuffers :
                                     mAvailableRequestBuffers[k] = i})
                      + Cardinality({r \in Ids : mProcessingRequests[r] = i}) = 1
    BY DEF RecordsAccounted
  <2> DEFINE K == {k \in DOMAIN mAvailableRequestBuffers : mAvailableRequestBuffers[k] = i}
             R == {r \in Ids : mProcessingRequests[r] = i}
  <2>1. DOMAIN mAvailableRequestBuffers = 1 .. Len(mAvailableRequestBuffers)
    BY LenProperties DEF PoolInv, Types, PoolTypes
  <2>2. i # None
    BY DEF Infos, None
  <2>3. CASE Free(i)
    <3>1. PICK k \in 1 .. Len(mAvailableRequestBuffers) : mAvailableRequestBuffers[k] = i
      BY <2>3 DEF Free
    <3>2. K = {k}
      BY <2>1, <3>1 DEF PoolInv, RecordInv
    <3>3. R = {}
      BY <2>3 DEF PoolInv, RecordInv, Used
    <3>4. Cardinality(K) = 1 /\ Cardinality(R) = 0
      BY <3>2, <3>3, FS_EmptySet, FS_Singleton
    <3>5. QED
      BY <3>4
  <2>4. CASE ~Free(i)
    <3>1. Used(i)
      BY <2>4 DEF PoolInv, RecordInv
    <3>2. PICK r \in Ids : mProcessingRequests[r] = i
      BY <3>1 DEF Used
    <3>3. R = {r}
      BY <2>2, <3>2 DEF PoolInv, RecordInv
    <3>4. K = {}
      BY <2>1, <2>4 DEF Free
    <3>5. Cardinality(K) = 0 /\ Cardinality(R) = 1
      BY <3>3, <3>4, FS_EmptySet, FS_Singleton
    <3>6. QED
      BY <3>5
  <2>5. QED
    BY <2>3, <2>4
<1>2. QED
  BY <1>1, PoolInductive, PTL

-----------------------------------------------------------------------------
(* Counts: where the requests are that were pushed.                        *)

Completing == result.pc = "complete"
InProcess  == {r \in Ids : mProcessingRequests[r] # None}

NumRequests  == Len(requests)
NumWaiting   == Len(mPendingRequests)
NumFree      == Len(mAvailableRequestBuffers)
NumInProcess == Cardinality(InProcess)
NumCompleted == Len(completed)
Held         == IF Locked THEN 1 ELSE 0
Ending       == IF Completing THEN 1 ELSE 0

CountInv ==
    /\ NumFree + NumInProcess = kMaxProcessingRequest
    /\ Pushed + Held = NumWaiting + NumInProcess + Ending + NumCompleted
    /\ NumRequests - NumCompleted <= MaxOutstanding

LEMMA CountTypes ==
    ASSUME Types
    PROVE  /\ NumFree \in Nat /\ NumWaiting \in Nat /\ NumCompleted \in Nat /\ NumRequests \in Nat
           /\ Pushed \in Int /\ Pushed <= NumRequests /\ Pushed >= NumRequests - 1
           /\ IsFiniteSet(InProcess) /\ NumInProcess \in Nat
<1>1. NumFree \in Nat /\ NumWaiting \in Nat /\ NumCompleted \in Nat /\ NumRequests \in Nat
  BY KnownTyped, LenProperties
     DEF Types, ListTypes, PoolTypes, NumFree, NumWaiting, NumCompleted, NumRequests
<1>2. Pushed \in Int /\ Pushed <= NumRequests /\ Pushed >= NumRequests - 1
  BY <1>1 DEF Pushed, NumRequests
<1>3. IsFiniteSet(Ids)
  BY PipelineAssumption, FS_Interval DEF Ids
<1>4. IsFiniteSet(InProcess)
  BY <1>3, FS_Subset DEF InProcess
<1>5. QED
  BY <1>1, <1>2, <1>4, FS_CardinalityType DEF NumInProcess

LEMMA OneEach ==
    /\ Held \in {0, 1} /\ Ending \in {0, 1} /\ (Locked <=> Held = 1) /\ (Completing <=> Ending = 1)
    /\ Held' \in {0, 1} /\ Ending' \in {0, 1}
    /\ (Locked' <=> Held' = 1) /\ (Completing' <=> Ending' = 1)
BY DEF Held, Ending

(* What an action leaves alone counts the same.                            *)
LEMMA CountSame ==
    /\ UNCHANGED requests => NumRequests' = NumRequests
    /\ UNCHANGED mPendingRequests => NumWaiting' = NumWaiting
    /\ UNCHANGED mAvailableRequestBuffers => NumFree' = NumFree
    /\ UNCHANGED mProcessingRequests => NumInProcess' = NumInProcess
    /\ UNCHANGED completed => NumCompleted' = NumCompleted
    /\ UNCHANGED mMutex => Held' = Held
    /\ UNCHANGED result => Ending' = Ending
BY DEF NumRequests, NumWaiting, NumFree, NumInProcess, InProcess, NumCompleted, Held, Locked, Ending,
       Completing

(* Steps that move no request from one of these places to another.         *)
Moves ==
    \/ HandleNewRequest \/ PushRequest \/ CreateInfo("capture") \/ CreateInfo("result")
    \/ PopPending \/ Recycle \/ CompleteRequest

LEMMA OtherSteps ==
    ASSUME Types, [Next]_vars, ~Moves
    PROVE  /\ UNCHANGED <<requests, mPendingRequests, mAvailableRequestBuffers,
                          mProcessingRequests, completed>>
           /\ Locked' <=> Locked
           /\ Completing' <=> Completing
<1>1. CASE CountBuffers \/ QueueBuffers \/ StartSource
  <2>1. Locked /\ Locked'
    BY <1>1, MutexGoes DEF CountBuffers, QueueBuffers, StartSource, Types, Locked
  <2>2. QED
    BY <1>1, <2>1 DEF CountBuffers, QueueBuffers, StartSource, Completing
<1>2. CASE ShutterReady \/ MetadataReady \/ DequeuePrivacy \/ DequeueDevice
  <2>1. CASE ShutterReady
    BY <2>1 DEF ShutterReady, Takes, Locked, Completing
  <2>2. CASE MetadataReady
    BY <2>2 DEF MetadataReady, Takes, Locked, Completing, Resting
  <2>3. CASE DequeuePrivacy
    BY <2>3 DEF DequeuePrivacy, Takes, Locked, Completing
  <2>4. CASE DequeueDevice
    BY <2>4 DEF DequeueDevice, Takes, Locked, Completing
  <2>5. QED
    BY <1>2, <2>1, <2>2, <2>3, <2>4
<1>3. CASE Dequeued \/ CompleteBuffer \/ JoinResult
  <2>1. ResultTypes
    BY DEF Types
  <2>2. Resting.pc # "complete"
    BY DEF Resting
  <2>3. CASE Dequeued
    <3>1. /\ UNCHANGED <<requests, mPendingRequests, pool, completed, mMutex>>
          /\ result.pc = "dequeued"
          /\ result' = Resting \/ result' = [result EXCEPT !.pc = "buffer"]
      BY <2>3 DEF Dequeued
    <3>2. QED
      BY <2>1, <2>2, <3>1, ResultGoes DEF Locked, Completing
  <2>4. CASE CompleteBuffer
    <3>1. /\ UNCHANGED <<requests, mPendingRequests, mAvailableRequestBuffers, mProcessingRequests,
                          completed, mMutex>>
          /\ result.pc = "buffer"
      BY <2>4 DEF CompleteBuffer
    <3>2. result' = Resting \/ result' = [result EXCEPT !.pc = "done"]
      BY <2>4 DEF CompleteBuffer
    <3>3. QED
      BY <2>1, <2>2, <3>1, <3>2, ResultGoes DEF Locked, Completing
  <2>5. CASE JoinResult
    <3>1. /\ UNCHANGED <<requests, mPendingRequests, pool, completed, mMutex>>
          /\ result.pc = "idle" /\ result' = [result EXCEPT !.pc = "ended"]
      BY <2>5 DEF JoinResult
    <3>2. QED
      BY <2>1, <3>1, ResultGoes DEF Locked, Completing
  <2>6. QED
    BY <1>3, <2>3, <2>4, <2>5
<1>4. ASSUME NEW t \in {"capture", "result"}, NothingToProcess(t)
      PROVE  /\ UNCHANGED <<requests, mPendingRequests, mAvailableRequestBuffers,
                            mProcessingRequests, completed, mMutex>>
             /\ Completing' <=> Completing
  BY <1>4 DEF NothingToProcess, Return, Processing, Completing, Resting
<1>5. CASE \/ WaitAllRequestsDone \/ StopPrivacy \/ JoinPrivacy \/ ClearRequests \/ StopStream
           \/ DeviceConfigure \/ ClearStarted \/ FlipPrivacy \/ ExitThreads \/ Stop \/ MoveShutter
           \/ Device \/ PrivacyThread \/ UNCHANGED vars
  <2>1. UNCHANGED <<requests, mPendingRequests, mAvailableRequestBuffers, mProcessingRequests,
                    completed, mMutex, result>>
    <3>1. CASE \/ WaitAllRequestsDone \/ StopPrivacy \/ JoinPrivacy \/ ClearRequests \/ StopStream
               \/ DeviceConfigure
      BY <3>1 DEF WaitAllRequestsDone, StopPrivacy, JoinPrivacy, ClearRequests, StopStream,
                  DeviceConfigure
    <3>2. CASE ClearStarted \/ FlipPrivacy \/ ExitThreads \/ Stop \/ MoveShutter
      <4>1. CASE Stop
        BY <4>1 DEF Stop
      <4>2. CASE ClearStarted \/ FlipPrivacy \/ ExitThreads \/ MoveShutter
        BY <4>2 DEF ClearStarted, FlipPrivacy, ExitThreads, MoveShutter
      <4>3. QED
        BY <3>2, <4>1, <4>2
    <3>3. CASE Device
      BY <3>3 DEF Device, DispatchTask, SendMetadata, FrameAvailable
    <3>4. CASE PrivacyThread \/ UNCHANGED vars
      BY <3>4 DEF PrivacyThread, TakeCaptureRequest, PrivacyTell, PrivacyFrame, vars
    <3>5. QED
      BY <1>5, <3>1, <3>2, <3>3, <3>4
  <2>2. QED
    BY <2>1 DEF Locked, Completing
<1>6. QED
  BY <1>1, <1>2, <1>3, <1>4, <1>5
     DEF Next, CaptureThread, ResultThread, ProcessNewRequest, Enter, Moves, Locked

(* What a completed or recycled request leaves behind.                     *)
LEMMA RecycleTakes ==
    ASSUME PoolInv, Recycle
    PROVE  \/ /\ result' = Resting /\ ~Completing /\ ~Completing'
              /\ UNCHANGED <<mAvailableRequestBuffers, mProcessingRequests>>
           \/ /\ result.id \in Ids /\ mProcessingRequests[result.id] \in Infos
              /\ infos[mProcessingRequests[result.id]].id = result.id
              /\ RequestComplete(mProcessingRequests[result.id])
              /\ mAvailableRequestBuffers' =
                   Append(mAvailableRequestBuffers, mProcessingRequests[result.id])
              /\ mProcessingRequests' = [mProcessingRequests EXCEPT ![result.id] = None]
              /\ ~Completing /\ Completing' /\ result'.id = mProcessingRequests[result.id]
<1> DEFINE i == mProcessingRequests[result.id]
<1>1. result.id \in Ids /\ i \in Infos \cup {None} /\ ~Completing
  BY DEF Recycle, PoolInv, Types, PoolTypes, ResultTypes, Completing
<1>2. i # None => i \in Infos /\ infos[i].id = result.id
  BY <1>1 DEF PoolInv, RecordInv
<1>3. CASE i # None /\ RequestComplete(i)
  BY <1>1, <1>2, <1>3 DEF Recycle, Erased, Completing, Resting
<1>4. CASE ~(i # None /\ RequestComplete(i))
  BY <1>1, <1>4 DEF Recycle, Completing, Resting
<1>5. QED
  BY <1>3, <1>4

LEMMA CountInit == Init => CountInv
<1> SUFFICES ASSUME Init PROVE CountInv
  OBVIOUS
<1>1. InProcess = {} /\ ~Completing /\ ~Locked /\ ~Handing
  BY DEF Init, InProcess, Completing, Locked, Handing, Resting, Unlocked
<1>2. NumInProcess = 0 /\ Held = 0 /\ Ending = 0
  BY <1>1, FS_EmptySet DEF NumInProcess, Held, Ending
<1>3. NumWaiting = 0 /\ NumCompleted = 0 /\ NumRequests = 0
  BY DEF Init, NumWaiting, NumCompleted, NumRequests
<1>4. NumFree = kMaxProcessingRequest
  BY PipelineAssumption DEF Init, Infos, NumFree
<1>5. Pushed = 0
  <2>1. Handing = FALSE
    BY DEF Init, Handing
  <2>2. Pushed = NumRequests - 0
    BY <2>1 DEF Pushed, NumRequests
  <2>3. QED
    BY <1>3, <2>2
<1>6. QED
  BY <1>2, <1>3, <1>4, <1>5, PipelineAssumption DEF CountInv

LEMMA CountStep == PoolInv /\ CountInv /\ [Next]_vars => CountInv'
<1> SUFFICES ASSUME PoolInv, CountInv, [Next]_vars PROVE CountInv'
  OBVIOUS
<1>0. Types /\ PendingInv /\ RecordInv
  BY DEF PoolInv
<1>1. /\ NumFree \in Nat /\ NumWaiting \in Nat /\ NumCompleted \in Nat /\ NumRequests \in Nat
      /\ Pushed \in Int /\ Pushed <= NumRequests /\ NumInProcess \in Nat
      /\ kMaxProcessingRequest \in Nat /\ MaxOutstanding \in Nat
  BY <1>0, CountTypes, PipelineAssumption
<1>2. IsFiniteSet(InProcess) /\ mProcessingRequests \in [Ids -> Infos \cup {None}]
  BY <1>0, CountTypes DEF Types, PoolTypes
<1>3. ~PushRequest => Pushed' = Pushed
  BY <1>0, PushedSame
<1>4. /\ mPendingRequests \in Seq(Known) /\ mAvailableRequestBuffers \in Seq(Infos)
      /\ completed \in Seq(Known) /\ requests \in Seq(Wants)
  BY <1>0 DEF Types, ListTypes, PoolTypes
<1>5. capture.pc # "push" \/ UNCHANGED capture => ~PushRequest
  <2>1. PushRequest => capture.pc = "push"
    BY DEF PushRequest
  <2>2. PushRequest => capture'.pc = "process"
    BY <1>0, CaptureSteps DEF Types
  <2>3. QED
    BY <2>1, <2>2
<1>6. CASE HandleNewRequest
  <2>1. PICK w \in Wants : requests' = Append(requests, w)
    BY <1>6 DEF HandleNewRequest
  <2>2. NumRequests' = NumRequests + 1
    BY <1>4, <2>1 DEF NumRequests
  <2>3. /\ UNCHANGED <<mPendingRequests, pool, completed, result, mMutex>>
        /\ NumRequests - NumCompleted < MaxOutstanding /\ capture.pc = "idle"
    BY <1>6 DEF HandleNewRequest, NumRequests, NumCompleted
  <2>4. /\ NumWaiting' = NumWaiting /\ NumFree' = NumFree /\ NumInProcess' = NumInProcess
        /\ NumCompleted' = NumCompleted /\ Held' = Held /\ Ending' = Ending /\ Pushed' = Pushed
        /\ NumRequests - NumCompleted < MaxOutstanding
    BY <1>3, <1>5, <2>3, CountSame
  <2>5. QED
    BY <1>1, <2>2, <2>4 DEF CountInv
<1>7. CASE PushRequest
  <2>1. Pushed' = Pushed + 1
    BY <1>0, <1>4, <1>7, PushedSame
  <2>2. /\ mPendingRequests' = Append(mPendingRequests, Len(requests))
        /\ UNCHANGED <<requests, pool, completed, result, mMutex>>
    BY <1>7 DEF PushRequest
  <2>3. NumWaiting' = NumWaiting + 1
    <3>1. Len(requests) \in Known
      BY <1>0, <1>1, <1>7 DEF PushRequest, Types, CaptureTypes, Handing, Known, NumRequests
    <3>2. QED
      BY <1>4, <2>2, <3>1 DEF NumWaiting
  <2>4. /\ NumFree' = NumFree /\ NumInProcess' = NumInProcess /\ NumRequests' = NumRequests
        /\ NumCompleted' = NumCompleted /\ Held' = Held /\ Ending' = Ending
    BY <2>2, CountSame
  <2>5. QED
    BY <1>1, <2>1, <2>3, <2>4, OneEach DEF CountInv
<1>8. ASSUME NEW t \in {"capture", "result"}, CreateInfo(t) PROVE CountInv'
  <2>1. /\ NextInfo \in Infos /\ NextRequest \in Ids /\ NextRequest = mPendingRequests[1]
        /\ mMutex = Unlocked /\ mMutex' = [by |-> t, pc |-> "count", info |-> NextInfo]
        /\ mProcessingRequests' = [mProcessingRequests EXCEPT ![NextRequest] = NextInfo]
    BY <1>0, <1>8, CreateTakes
  <2>2. /\ mPendingRequests # <<>> /\ mAvailableRequestBuffers # <<>>
        /\ mAvailableRequestBuffers' = Tail(mAvailableRequestBuffers)
        /\ UNCHANGED <<mPendingRequests, result, requests, completed, capture>>
    BY <1>8 DEF CreateInfo
  <2>3. NumFree' = NumFree - 1 /\ NumWaiting >= 1
    BY <1>1, <1>4, <2>2, HeadTailProperties, EmptySeq DEF NumFree, NumWaiting
  <2>4. mProcessingRequests[NextRequest] = None
    BY <1>0, <1>1, <2>1, <2>3 DEF PendingInv, Locked, Unlocked, NumWaiting
  <2>5. InProcess' = InProcess \cup {NextRequest} /\ NextRequest \notin InProcess
    <3>1. NextInfo # None
      BY <2>1 DEF Infos, None
    <3>2. QED
      BY <1>2, <2>1, <2>4, <3>1 DEF InProcess
  <2>6. NumInProcess' = NumInProcess + 1
    BY <1>2, <2>5, FS_AddElement DEF NumInProcess
  <2>7. Held = 0 /\ Held' = 1
    BY <2>1 DEF Held, Locked, Unlocked
  <2>8. /\ NumWaiting' = NumWaiting /\ NumRequests' = NumRequests
        /\ NumCompleted' = NumCompleted /\ Ending' = Ending /\ Pushed' = Pushed
    BY <1>3, <1>5, <2>2, CountSame
  <2>9. QED
    BY <1>1, <2>3, <2>6, <2>7, <2>8, OneEach DEF CountInv
<1>9. CASE PopPending
  <2>1. Locked /\ mMutex' = Unlocked
    BY <1>9 DEF PopPending, Locked
  <2>2. mPendingRequests # <<>> /\ ~PushRequest
    BY <1>0, <2>1 DEF Types, HeldBy, PushRequest, Locked, Unlocked
  <2>3. /\ mPendingRequests' = Tail(mPendingRequests)
        /\ UNCHANGED <<requests, pool, completed>>
    BY <1>9 DEF PopPending
  <2>4. NumWaiting' = NumWaiting - 1
    BY <1>4, <2>2, <2>3, HeadTailProperties DEF NumWaiting
  <2>5. Ending' = Ending
    <3>1. mMutex.by = "capture" \/ result.pc = "process"
      BY <1>0, <2>1 DEF Types, HeldBy, Processing, MutexTypes
    <3>2. UNCHANGED result \/ (result' = Resting /\ result.pc = "process")
      BY <1>9, <3>1 DEF PopPending, Return
    <3>3. QED
      BY <3>2 DEF Ending, Completing, Resting
  <2>6. Held = 1 /\ Held' = 0
    BY <2>1 DEF Held, Locked, Unlocked
  <2>7. /\ NumFree' = NumFree /\ NumInProcess' = NumInProcess /\ NumRequests' = NumRequests
        /\ NumCompleted' = NumCompleted /\ Pushed' = Pushed
    BY <1>3, <2>2, <2>3, CountSame
  <2>8. QED
    BY <1>1, <2>4, <2>5, <2>6, <2>7, OneEach DEF CountInv
<1>10. CASE Recycle
  <2>1. UNCHANGED <<requests, mPendingRequests, completed, mMutex, capture>>
    BY <1>10 DEF Recycle
  <2>2. /\ NumWaiting' = NumWaiting /\ NumRequests' = NumRequests
        /\ NumCompleted' = NumCompleted /\ Held' = Held /\ Pushed' = Pushed
    BY <1>3, <1>5, <2>1, CountSame
  <2>3. CASE /\ ~Completing /\ ~Completing'
             /\ UNCHANGED <<mAvailableRequestBuffers, mProcessingRequests>>
    <3>1. NumFree' = NumFree /\ NumInProcess' = NumInProcess /\ Ending' = Ending
      BY <2>3, CountSame DEF Ending
    <3>2. QED
      BY <2>2, <3>1 DEF CountInv
  <2>4. CASE /\ result.id \in Ids /\ mProcessingRequests[result.id] \in Infos
             /\ mAvailableRequestBuffers' =
                  Append(mAvailableRequestBuffers, mProcessingRequests[result.id])
             /\ mProcessingRequests' = [mProcessingRequests EXCEPT ![result.id] = None]
             /\ ~Completing /\ Completing'
    <3>1. NumFree' = NumFree + 1
      BY <1>4, <2>4 DEF NumFree
    <3>2. InProcess' = InProcess \ {result.id} /\ result.id \in InProcess
      <4>1. mProcessingRequests[result.id] # None
        BY <2>4 DEF Infos, None
      <4>2. QED
        BY <1>2, <2>4, <4>1 DEF InProcess
    <3>3. NumInProcess' = NumInProcess - 1
      BY <1>2, <3>2, FS_RemoveElement DEF NumInProcess
    <3>4. Ending = 0 /\ Ending' = 1
      BY <2>4 DEF Ending
    <3>5. QED
      BY <1>1, <2>2, <3>1, <3>3, <3>4, OneEach DEF CountInv
  <2>5. QED
    BY <1>10, <2>3, <2>4, RecycleTakes
<1>11. CASE CompleteRequest
  <2>1. /\ UNCHANGED <<requests, mPendingRequests, pool, mMutex, capture>> /\ Completing
        /\ completed' = Append(completed, infos[result.id].id)
        /\ result' = [Resting EXCEPT !.pc = "process"]
    BY <1>11 DEF CompleteRequest, Completing
  <2>2. NumCompleted' = NumCompleted + 1
    BY <1>0, <1>4, <2>1 DEF Types, ResultTypes, Completing, NumCompleted
  <2>3. Ending = 1 /\ Ending' = 0
    BY <2>1 DEF Ending, Completing, Resting
  <2>4. /\ NumWaiting' = NumWaiting /\ NumRequests' = NumRequests /\ Held' = Held
        /\ Pushed' = Pushed /\ NumFree' = NumFree /\ NumInProcess' = NumInProcess
    BY <1>3, <1>5, <2>1, CountSame
  <2>5. QED
    BY <1>1, <2>2, <2>3, <2>4, OneEach DEF CountInv
<1>12. CASE ~Moves
  <2>1. /\ UNCHANGED <<requests, mPendingRequests, mAvailableRequestBuffers,
                       mProcessingRequests, completed>>
        /\ Locked' <=> Locked
        /\ Completing' <=> Completing
    BY <1>0, <1>12, OtherSteps
  <2>2. /\ NumRequests' = NumRequests /\ NumWaiting' = NumWaiting /\ NumFree' = NumFree
        /\ NumInProcess' = NumInProcess /\ NumCompleted' = NumCompleted
        /\ Held' = Held /\ Ending' = Ending
    BY <2>1, CountSame, OneEach DEF Held, Ending
  <2>3. Pushed' = Pushed
    BY <1>3, <1>12 DEF Moves
  <2>4. QED
    BY <2>2, <2>3 DEF CountInv
<1>13. QED
  BY <1>6, <1>7, <1>8, <1>9, <1>10, <1>11, <1>12 DEF Moves

-----------------------------------------------------------------------------
(* With a record for every request the application may have queued, no     *)
(* request waits for one: requests are queued by the capture thread that   *)
(* pushed them, or by the result thread while the capture thread waits.    *)

EnoughRecords == MaxOutstanding <= kMaxProcessingRequest

CalmInv == mPendingRequests # <<>> => capture.pc = "process" /\ NumWaiting = 1

(* From "process" the capture thread goes on by returning.                 *)
LEMMA ProcessStays ==
    ASSUME Types, [Next]_vars, capture.pc = "process", ~NothingToProcess("capture"), ~PopPending
    PROVE  UNCHANGED capture
<1>1. CASE CreateInfo("capture") \/ CreateInfo("result")
  BY <1>1 DEF CreateInfo
<1>2. CASE NothingToProcess("result")
  BY <1>2 DEF NothingToProcess, Return
<1>3. CASE CountBuffers \/ QueueBuffers \/ StartSource
  BY <1>3 DEF CountBuffers, QueueBuffers, StartSource
<1>4. CASE ShutterReady \/ MetadataReady \/ DequeuePrivacy \/ DequeueDevice
  BY <1>4 DEF ShutterReady, MetadataReady, DequeuePrivacy, DequeueDevice
<1>5. CASE Dequeued \/ CompleteBuffer \/ Recycle \/ CompleteRequest
  <2>1. CASE Dequeued
    BY <2>1 DEF Dequeued
  <2>2. CASE CompleteBuffer
    BY <2>2 DEF CompleteBuffer
  <2>3. CASE Recycle \/ CompleteRequest
    BY <2>3 DEF Recycle, CompleteRequest
  <2>4. QED
    BY <1>5, <2>1, <2>2, <2>3
<1>6. CASE Device \/ PrivacyThread \/ MoveShutter \/ UNCHANGED vars
  <2>1. CASE Device
    BY <2>1 DEF Device, DispatchTask, SendMetadata, FrameAvailable
  <2>2. CASE PrivacyThread \/ MoveShutter \/ UNCHANGED vars
    BY <2>2 DEF PrivacyThread, TakeCaptureRequest, PrivacyTell, PrivacyFrame, MoveShutter, vars
  <2>3. QED
    BY <1>6, <2>1, <2>2
<1>7. ~HandleNewRequest /\ ~Stop
  BY DEF HandleNewRequest, Stop
<1>8. ~WaitAllRequestsDone /\ ~StopPrivacy /\ ~JoinPrivacy /\ ~ClearRequests /\ ~StopStream
      /\ ~DeviceConfigure
  BY DEF WaitAllRequestsDone, StopPrivacy, JoinPrivacy, ClearRequests, StopStream, DeviceConfigure
<1>9. ~ClearStarted /\ ~FlipPrivacy /\ ~PushRequest /\ ~ExitThreads /\ ~JoinResult
  BY DEF ClearStarted, FlipPrivacy, PushRequest, ExitThreads, JoinResult
<1>10. QED
  BY <1>1, <1>2, <1>3, <1>4, <1>5, <1>6, <1>7, <1>8, <1>9
     DEF Next, CaptureThread, ResultThread, ProcessNewRequest, Enter

(* Only pushRequest and the pop change the pending requests.               *)
LEMMA PendingSame ==
    ASSUME Types, [Next]_vars, ~PushRequest, ~PopPending
    PROVE  UNCHANGED mPendingRequests
<1>1. CASE ~Moves
  BY <1>1, OtherSteps
<1>2. CASE Moves
  BY <1>2 DEF Moves, HandleNewRequest, CreateInfo, Recycle, CompleteRequest
<1>3. QED
  BY <1>1, <1>2

(* A request that waits finds a record.                                    *)
LEMMA RecordFound ==
    ASSUME PoolInv, CountInv, EnoughRecords, mPendingRequests # <<>>, mMutex = Unlocked
    PROVE  NumFree >= 1 + Ending
<1>1. /\ NumFree \in Nat /\ NumWaiting \in Nat /\ NumCompleted \in Nat /\ NumRequests \in Nat
      /\ Pushed \in Int /\ Pushed <= NumRequests /\ NumInProcess \in Nat
      /\ kMaxProcessingRequest \in Nat /\ MaxOutstanding \in Nat
  BY CountTypes, PipelineAssumption DEF PoolInv
<1>2. NumWaiting >= 1
  BY <1>1, EmptySeq DEF PoolInv, Types, ListTypes, NumWaiting
<1>3. Held = 0
  BY DEF Held, Locked, Unlocked
<1>4. QED
  BY <1>1, <1>2, <1>3, OneEach DEF CountInv, EnoughRecords

LEMMA CalmStep ==
    ASSUME PoolInv, CountInv, CalmInv, EnoughRecords, [Next]_vars
    PROVE  CalmInv'
<1>1. Types
  BY DEF PoolInv
<1>2. mPendingRequests \in Seq(Known)
  BY <1>1 DEF Types, ListTypes
<1>3. CASE PushRequest
  <2>1. capture.pc = "push" /\ mPendingRequests' = Append(mPendingRequests, Len(requests))
    BY <1>3 DEF PushRequest
  <2>2. mPendingRequests = <<>>
    BY <2>1 DEF CalmInv
  <2>3. mPendingRequests' = <<Len(requests)>>
    BY <2>1, <2>2
  <2>4. NumWaiting' = 1
    BY <2>3 DEF NumWaiting
  <2>5. capture'.pc = "process"
    BY <1>1, <1>3, CaptureSteps DEF Types
  <2>6. QED
    BY <2>4, <2>5 DEF CalmInv
<1>4. CASE PopPending
  <2>1. mPendingRequests # <<>>
    BY <1>1, <1>4 DEF PopPending, Types, HeldBy, Locked
  <2>2. NumWaiting = 1 /\ mPendingRequests' = Tail(mPendingRequests)
    BY <1>4, <2>1 DEF CalmInv, PopPending
  <2>3. mPendingRequests' = <<>>
    BY <1>2, <2>1, <2>2, HeadTailProperties, EmptySeq DEF NumWaiting
  <2>4. QED
    BY <2>3 DEF CalmInv
<1>5. CASE ~PushRequest /\ ~PopPending
  <2>1. UNCHANGED mPendingRequests /\ NumWaiting' = NumWaiting
    BY <1>1, <1>5, PendingSame, CountSame
  <2>2. CASE mPendingRequests = <<>>
    BY <2>1, <2>2 DEF CalmInv
  <2>3. CASE mPendingRequests # <<>>
    <3>1. capture.pc = "process" /\ NumWaiting = 1
      BY <2>3 DEF CalmInv
    <3>2. ~NothingToProcess("capture")
      <4>1. SUFFICES ASSUME NothingToProcess("capture") PROVE FALSE
        OBVIOUS
      <4>2. mMutex = Unlocked /\ mAvailableRequestBuffers = <<>>
        BY <2>3, <4>1 DEF NothingToProcess
      <4>3. NumFree = 0
        BY <4>2 DEF NumFree
      <4>4. QED
        BY <2>3, <4>2, <4>3, RecordFound, OneEach
    <3>3. UNCHANGED capture
      BY <1>1, <1>5, <3>1, <3>2, ProcessStays
    <3>4. QED
      BY <2>1, <3>1, <3>3 DEF CalmInv
  <2>4. QED
    BY <2>2, <2>3
<1>6. QED
  BY <1>3, <1>4, <1>5

LEMMA CalmInit == Init => CalmInv
BY DEF Init, CalmInv

-----------------------------------------------------------------------------
(* Which sources run.                                                      *)

BothOff == ~device.on /\ ~privacy.alive

(* Nothing has been started, or what was has been stopped.                 *)
NoneStarted ==
    \/ capture.pc \in {"configure", "clear", "flip", "exit", "ending", "closed"}
    \/ /\ ~mCameraStarted /\ mMutex.pc # "started"
       /\ capture.pc \notin {"halt", "join", "halting"}

(* Only the current source runs, and none if none was started.             *)
OffInv ==
    /\ mPrivacyStarted \in BOOLEAN /\ mCameraStarted \in BOOLEAN
    /\ mPrivacyStarted => ~device.on
    /\ ~mPrivacyStarted => ~privacy.alive
    /\ capture.pc = "join" => mPrivacyStarted
    /\ capture.pc = "halting" => ~mPrivacyStarted
    /\ NoneStarted => BothOff
    /\ capture.task = "stop" \/ capture.pc = "closed" => ~mCameraStarted

LEMMA OffInit == Init => OffInv
<1> SUFFICES ASSUME Init PROVE OffInv
  OBVIOUS
<1>1. device.on = FALSE /\ privacy.alive = FALSE
  BY DEF Init
<1>2. capture.pc = "idle" /\ capture.task = "none"
  BY DEF Init
<1>3. mPrivacyStarted \in BOOLEAN /\ mCameraStarted = FALSE
  BY DEF Init
<1>4. QED
  BY <1>1, <1>2, <1>3 DEF OffInv, BothOff

(* No step but startSource turns a source on.                              *)
LEMMA SourcesStop ==
    ASSUME Types, [Next]_vars, ~StartSource
    PROVE  (device'.on => device.on) /\ (privacy'.alive => privacy.alive)
<1>1. /\ device \in [on : BOOLEAN, exit : BOOLEAN, bound : BOOLEAN, requests : Seq(Runs)]
      /\ privacy \in [running : BOOLEAN, alive : BOOLEAN, tell : Seq(TellSet),
                     job : Seq(Ids \X Streams)]
  BY DEF Types, DeviceTypes, BlackTypes
<1>2. CASE \/ HandleNewRequest \/ Stop \/ MoveShutter \/ WaitAllRequestsDone \/ JoinPrivacy
           \/ ClearStarted \/ FlipPrivacy \/ PushRequest \/ JoinResult
           \/ ShutterReady \/ MetadataReady \/ CompleteRequest \/ CountBuffers \/ UNCHANGED vars
  <2>1. UNCHANGED <<device, privacy>>
    BY <1>2 DEF HandleNewRequest, Stop, MoveShutter, WaitAllRequestsDone, JoinPrivacy,
                ClearStarted, FlipPrivacy, PushRequest, JoinResult, ShutterReady, MetadataReady,
                CompleteRequest, CountBuffers, vars
  <2>2. QED
    BY <2>1
<1>3. CASE PopPending \/ Recycle \/ DequeuePrivacy \/ DequeueDevice \/ Dequeued \/ CompleteBuffer
  <2>1. CASE PopPending \/ Recycle
    BY <2>1 DEF PopPending, Recycle
  <2>2. CASE DequeuePrivacy \/ DequeueDevice
    BY <2>2 DEF DequeuePrivacy, DequeueDevice
  <2>3. CASE Dequeued \/ CompleteBuffer
    BY <2>3 DEF Dequeued, CompleteBuffer
  <2>4. QED
    BY <1>3, <2>1, <2>2, <2>3
<1>4. CASE Enter("capture") \/ Enter("result")
  BY <1>4 DEF Enter, NothingToProcess, CreateInfo
<1>5. CASE QueueBuffers
  <2>1. /\ \/ device' = [device EXCEPT !.exit = FALSE, !.requests =
                Append(@, [id |-> infos[mMutex.info].id, at |-> "queued",
                           left |-> Wanted(infos[mMutex.info].id)])]
           \/ UNCHANGED device
        /\ UNCHANGED privacy
    BY <1>5 DEF QueueBuffers
  <2>2. QED
    BY <1>1, <2>1
<1>6. CASE StopPrivacy \/ PrivacyTell \/ PrivacyFrame
  BY <1>1, <1>6 DEF StopPrivacy, PrivacyTell, PrivacyFrame
<1>7. CASE TakeCaptureRequest
  BY <1>1, <1>7 DEF TakeCaptureRequest
<1>8. CASE ClearRequests \/ StopStream \/ DeviceConfigure \/ ExitThreads
  <2>1. CASE ClearRequests
    <3>1. PICK k \in 0 .. Len(device.requests) :
            device' = [device EXCEPT !.requests = SubSeq(@, 1, k)]
      BY <2>1 DEF ClearRequests
    <3>2. QED
      BY <1>1, <2>1, <3>1 DEF ClearRequests
  <2>2. CASE StopStream \/ DeviceConfigure \/ ExitThreads
    BY <1>1, <2>2 DEF StopStream, DeviceConfigure, ExitThreads
  <2>3. QED
    BY <1>8, <2>1, <2>2
<1>9. CASE Device
  <2>1. device.on /\ UNCHANGED privacy
    BY <1>9 DEF Device, DispatchTask, SendMetadata, FrameAvailable
  <2>2. QED
    BY <2>1
<1>10. QED
  BY <1>2, <1>3, <1>4, <1>5, <1>6, <1>7, <1>8, <1>9
     DEF Next, CaptureThread, ResultThread, ProcessNewRequest, PrivacyThread

(* A step that changes neither the source nor whether it was started.      *)
LEMMA OffKept ==
    ASSUME OffInv, UNCHANGED <<mPrivacyStarted, mCameraStarted>>,
           device'.on => device.on, privacy'.alive => privacy.alive,
           NoneStarted' => NoneStarted \/ BothOff',
           capture'.pc = "join" => capture.pc = "join" \/ mPrivacyStarted,
           capture'.pc = "halting" => capture.pc = "halting" \/ ~mPrivacyStarted,
           capture'.task = "stop" \/ capture'.pc = "closed" =>
              capture.task = "stop" \/ capture.pc = "closed"
    PROVE  OffInv'
<1>1. BothOff => BothOff'
  BY DEF BothOff
<1>2. QED
  BY <1>1 DEF OffInv

(* The capture thread, up to where it changes the source.                  *)
LEMMA OffCapture ==
    ASSUME Types, OffInv, [Next]_vars,
           \/ HandleNewRequest \/ WaitAllRequestsDone \/ StopPrivacy \/ JoinPrivacy
           \/ ClearRequests \/ StopStream \/ DeviceConfigure \/ PushRequest \/ ExitThreads
           \/ JoinResult
    PROVE  OffInv'
<1>1. CaptureTypes /\ MutexTypes
  BY DEF Types
<1>2. UNCHANGED <<mMutex, mPrivacyStarted, mCameraStarted>>
  <2>1. CASE HandleNewRequest \/ WaitAllRequestsDone \/ StopPrivacy \/ JoinPrivacy
    BY <2>1 DEF HandleNewRequest, WaitAllRequestsDone, StopPrivacy, JoinPrivacy
  <2>2. CASE ClearRequests \/ StopStream \/ DeviceConfigure \/ PushRequest \/ ExitThreads
             \/ JoinResult
    BY <2>2 DEF ClearRequests, StopStream, DeviceConfigure, PushRequest, ExitThreads, JoinResult
  <2>3. QED
    BY <2>1, <2>2
<1>3. ~StartSource
  <2>1. StartSource => mMutex.pc = "start" /\ mMutex' = [mMutex EXCEPT !.pc = "started"]
    BY DEF StartSource
  <2>2. QED
    BY <1>1, <1>2, <2>1, MutexGoes
<1>4. (device'.on => device.on) /\ (privacy'.alive => privacy.alive)
  BY <1>3, SourcesStop
<1>5. CASE HandleNewRequest \/ WaitAllRequestsDone
  <2>1. capture.pc \in {"idle", "wait"} /\ capture'.pc \in {"wait", "halt", "push"}
        /\ capture'.task # "stop"
    BY <1>1, <1>5, CaptureSteps DEF WaitAllRequestsDone
  <2>2. NoneStarted' => NoneStarted
    BY <1>2, <2>1 DEF NoneStarted
  <2>3. QED
    BY <1>2, <1>4, <2>1, <2>2, OffKept
<1>6. CASE StopPrivacy \/ ClearRequests
  <2>1. capture.pc = "halt" /\ capture'.task = capture.task
    BY <1>1, <1>6, CaptureSteps DEF StopPrivacy, ClearRequests
  <2>2. \/ capture'.pc = "join" /\ mPrivacyStarted
        \/ capture'.pc = "halting" /\ ~mPrivacyStarted
    BY <1>1, <1>6, CaptureSteps DEF StopPrivacy, ClearRequests
  <2>3. ~NoneStarted'
    BY <2>2 DEF NoneStarted
  <2>4. QED
    BY <1>2, <1>4, <2>1, <2>2, <2>3, OffKept
<1>7. CASE JoinPrivacy \/ StopStream
  <2>1. capture'.pc \in {"configure", "clear", "exit"} /\ capture'.task = capture.task
    BY <1>1, <1>7, CaptureSteps
  <2>2. BothOff'
    <3>1. CASE JoinPrivacy
      <4>1. capture.pc = "join" /\ ~privacy.alive
        BY <3>1 DEF JoinPrivacy, PrivacyEnded
      <4>2. ~device.on
        BY <4>1 DEF OffInv
      <4>3. QED
        BY <1>4, <4>1, <4>2 DEF BothOff
    <3>2. CASE StopStream
      <4>1. capture.pc = "halting"
        BY <3>2 DEF StopStream
      <4>2. ~privacy.alive
        BY <4>1 DEF OffInv
      <4>3. device'.on = FALSE
        BY <3>2 DEF StopStream, Types, DeviceTypes
      <4>4. QED
        BY <1>4, <4>2, <4>3 DEF BothOff
    <3>3. QED
      BY <1>7, <3>1, <3>2
  <2>3. QED
    BY <1>2, <1>4, <2>1, <2>2, OffKept
<1>8. CASE PushRequest
  <2>1. capture.pc = "push" /\ capture'.pc = "process" /\ capture'.task = capture.task
    BY <1>1, <1>8, CaptureSteps DEF PushRequest
  <2>2. NoneStarted' => NoneStarted
    BY <1>2, <2>1 DEF NoneStarted
  <2>3. QED
    BY <1>2, <1>4, <2>1, <2>2, OffKept
<1>9. CASE ExitThreads \/ JoinResult
  <2>1. capture.pc \in {"exit", "ending"} /\ capture'.pc \in {"ending", "closed"}
        /\ capture'.task = capture.task
    BY <1>1, <1>9, CaptureSteps DEF ExitThreads, JoinResult
  <2>2. capture.task = "stop" /\ NoneStarted
    BY <1>1, <2>1 DEF CaptureTypes, NoneStarted
  <2>3. QED
    BY <1>2, <1>4, <2>1, <2>2, OffKept
<1>10. CASE DeviceConfigure
  <2>1. capture.pc = "configure" /\ capture'.pc = "clear" /\ capture'.task = capture.task
    BY <1>1, <1>10, CaptureSteps DEF DeviceConfigure
  <2>2. NoneStarted
    BY <2>1 DEF NoneStarted
  <2>3. QED
    BY <1>2, <1>4, <2>1, <2>2, OffKept
<1>11. QED
  BY <1>5, <1>6, <1>7, <1>8, <1>9, <1>10

LEMMA CaptureReturns ==
    ASSUME CaptureShape, capture' = [capture EXCEPT !.pc = "idle"]
    PROVE  capture'.pc = "idle" /\ capture'.task = capture.task
BY DEF CaptureShape

(* The steps that change the source, or whether it has been started.       *)
LEMMA OffSwitch ==
    ASSUME Types, CalmInv, OffInv, [Next]_vars,
           ClearStarted \/ FlipPrivacy \/ Stop \/ StartSource \/ PopPending
    PROVE  OffInv'
<1>0. CaptureShape
  BY DEF Types, CaptureTypes
<1>1. CaptureTypes /\ MutexTypes /\ HeldBy
  BY DEF Types
<1>2. CASE ClearStarted \/ FlipPrivacy
  <2>1. capture.pc \in {"clear", "flip"} /\ UNCHANGED <<device, privacy>>
    BY <1>2 DEF ClearStarted, FlipPrivacy
  <2>2. BothOff /\ BothOff'
    BY <2>1 DEF OffInv, NoneStarted, BothOff
  <2>3. capture'.pc \in {"flip", "push"} /\ capture'.task # "stop"
    BY <1>1, <1>2, CaptureSteps DEF CaptureTypes, ClearStarted
  <2>4. mPrivacyStarted' \in BOOLEAN /\ mCameraStarted' \in BOOLEAN
    BY <1>2 DEF ClearStarted, FlipPrivacy, StartedAfterSwitch, OffInv
  <2>5. QED
    BY <2>2, <2>3, <2>4 DEF OffInv, BothOff
<1>3. CASE Stop
  <2>1. /\ capture.pc = "idle" /\ mCameraStarted' = FALSE
        /\ UNCHANGED <<device, privacy, mPrivacyStarted, mMutex>>
    BY <1>3 DEF Stop
  <2>2. CASE mCameraStarted
    <3>1. capture'.pc = "halt"
      BY <1>1, <1>3, <2>2, CaptureSteps
    <3>2. ~NoneStarted'
      BY <3>1 DEF NoneStarted
    <3>3. QED
      BY <2>1, <3>1, <3>2 DEF OffInv
  <2>3. CASE ~mCameraStarted
    <3>1. mMutex.pc # "started"
      BY <1>1, <2>1 DEF CalmInv, HeldBy, Locked
    <3>2. BothOff
      BY <2>1, <2>3, <3>1 DEF OffInv, NoneStarted
    <3>3. BothOff' /\ capture'.pc = "closed"
      BY <1>1, <1>3, <2>1, <2>3, <3>2, CaptureSteps DEF BothOff
    <3>4. QED
      BY <2>1, <3>3 DEF OffInv, BothOff
  <2>4. QED
    BY <2>2, <2>3
<1>4. CASE StartSource \/ PopPending
  <2>1. Locked
    BY <1>4 DEF StartSource, PopPending, Locked
  <2>2. capture.pc = "process" /\ capture.task = "none"
    BY <1>1, <2>1 DEF HeldBy, CalmInv, CaptureTypes
  <2>3. CASE StartSource
    <3>1. /\ mMutex.pc = "start" /\ mCameraStarted = FALSE
          /\ UNCHANGED <<mPrivacyStarted, mCameraStarted, capture>>
          /\ mMutex' = [mMutex EXCEPT !.pc = "started"]
      BY <2>3 DEF StartSource, OffInv
    <3>2. BothOff
      BY <2>2, <3>1 DEF OffInv, NoneStarted
    <3>3. /\ mPrivacyStarted => ~device'.on
          /\ ~mPrivacyStarted => ~privacy'.alive
      BY <2>3, <3>2 DEF StartSource, BothOff
    <3>4. ~NoneStarted'
      BY <1>1, <2>2, <3>1, MutexGoes DEF NoneStarted
    <3>5. QED
      BY <2>2, <3>1, <3>3, <3>4 DEF OffInv
  <2>4. CASE PopPending
    <3>1. mCameraStarted' = TRUE /\ UNCHANGED <<device, privacy, mPrivacyStarted>>
      BY <2>4 DEF PopPending
    <3>2. capture'.pc \in {"idle", "process"} /\ capture'.task = "none"
      <4>1. CASE mMutex.by = "capture"
        <5>1. capture' = [capture EXCEPT !.pc = "idle"]
          BY <2>4, <4>1 DEF PopPending, Return
        <5>2. capture'.pc = "idle" /\ capture'.task = capture.task
          BY <1>0, <5>1, CaptureReturns
        <5>3. QED
          BY <2>2, <5>2
      <4>2. CASE mMutex.by # "capture"
        BY <2>2, <2>4, <4>2 DEF PopPending, Return
      <4>3. QED
        BY <4>1, <4>2
    <3>3. ~NoneStarted'
      BY <3>1, <3>2 DEF NoneStarted
    <3>4. QED
      BY <3>1, <3>2, <3>3 DEF OffInv
  <2>5. QED
    BY <1>4, <2>3, <2>4
<1>5. QED
  BY <1>2, <1>3, <1>4

LEMMA OffStep ==
    ASSUME Types, CalmInv, OffInv, [Next]_vars
    PROVE  OffInv'
<1>0. CaptureShape
  BY DEF Types, CaptureTypes
<1>1. CaptureTypes /\ MutexTypes
  BY DEF Types
<1>2. CASE \/ HandleNewRequest \/ WaitAllRequestsDone \/ StopPrivacy \/ JoinPrivacy
           \/ ClearRequests \/ StopStream \/ DeviceConfigure \/ PushRequest \/ ExitThreads
           \/ JoinResult
  BY <1>2, OffCapture
<1>3. CASE ClearStarted \/ FlipPrivacy \/ Stop \/ StartSource \/ PopPending
  BY <1>3, OffSwitch
<1>4. CASE NothingToProcess("capture")
  <2>1. /\ capture' = [capture EXCEPT !.pc = "idle"] /\ capture.pc = "process"
        /\ UNCHANGED <<device, privacy, mPrivacyStarted, mCameraStarted, mMutex>>
    BY <1>4 DEF NothingToProcess, Return, Processing
  <2>2. capture'.pc = "idle" /\ capture'.task = capture.task
    BY <1>0, <2>1, CaptureReturns
  <2>3. NoneStarted' => NoneStarted
    BY <2>1, <2>2 DEF NoneStarted
  <2>4. QED
    BY <2>1, <2>2, <2>3, OffKept
<1>5. CASE \/ \E t \in {"capture", "result"} : CreateInfo(t)
           \/ NothingToProcess("result") \/ CountBuffers \/ QueueBuffers
           \/ ResultThread \/ Device \/ PrivacyThread \/ MoveShutter \/ UNCHANGED vars
  <2>1. /\ UNCHANGED <<capture, mPrivacyStarted, mCameraStarted>>
        /\ mMutex.pc = "started" => mMutex'.pc = "started"
        /\ mMutex.pc # "start" \/ UNCHANGED mMutex
    <3>1. CASE \E t \in {"capture", "result"} : CreateInfo(t)
      BY <3>1 DEF CreateInfo, Unlocked
    <3>2. CASE NothingToProcess("result")
      BY <3>2 DEF NothingToProcess, Return
    <3>3. CASE CountBuffers \/ QueueBuffers
      BY <3>3 DEF CountBuffers, QueueBuffers
    <3>4. CASE ShutterReady \/ MetadataReady \/ DequeuePrivacy \/ DequeueDevice
      BY <3>4 DEF ShutterReady, MetadataReady, DequeuePrivacy, DequeueDevice
    <3>5. CASE Dequeued \/ CompleteRequest
      BY <3>5 DEF Dequeued, CompleteRequest
    <3>6. CASE CompleteBuffer \/ Recycle
      <4>1. CASE CompleteBuffer
        BY <4>1 DEF CompleteBuffer
      <4>2. CASE Recycle
        BY <4>2 DEF Recycle
      <4>3. QED
        BY <3>6, <4>1, <4>2
    <3>7. CASE Device \/ PrivacyThread \/ MoveShutter \/ UNCHANGED vars
      <4>1. CASE Device
        BY <4>1 DEF Device, DispatchTask, SendMetadata, FrameAvailable
      <4>2. CASE PrivacyThread \/ MoveShutter \/ UNCHANGED vars
        BY <4>2 DEF PrivacyThread, TakeCaptureRequest, PrivacyTell, PrivacyFrame, MoveShutter, vars
      <4>3. QED
        BY <3>7, <4>1, <4>2
    <3>8. QED
      BY <1>5, <3>1, <3>2, <3>3, <3>4, <3>5, <3>6, <3>7 DEF ResultThread, Enter
  <2>2. (device'.on => device.on) /\ (privacy'.alive => privacy.alive)
    <3>1. StartSource => mMutex.pc = "start" /\ mMutex' = [mMutex EXCEPT !.pc = "started"]
      BY DEF StartSource
    <3>2. ~StartSource
      BY <1>1, <2>1, <3>1, MutexGoes
    <3>3. QED
      BY <3>2, SourcesStop
  <2>3. NoneStarted' => NoneStarted
    BY <2>1 DEF NoneStarted
  <2>4. QED
    BY <2>1, <2>2, <2>3, OffKept
<1>6. QED
  BY <1>2, <1>3, <1>4, <1>5 DEF Next, CaptureThread, ResultThread, ProcessNewRequest, Enter

-----------------------------------------------------------------------------
(* The steps of the capture thread, and what the others do to it.          *)
CaptureActs ==
    \/ HandleNewRequest \/ WaitAllRequestsDone \/ StopPrivacy \/ JoinPrivacy \/ ClearRequests
    \/ StopStream \/ DeviceConfigure \/ ClearStarted \/ FlipPrivacy \/ PushRequest \/ Stop
    \/ ExitThreads \/ JoinResult

CaptureBack == capture.pc = "process" /\ capture'.pc = "idle" /\ capture'.task = capture.task

LEMMA OthersCapture ==
    ASSUME Types, [Next]_vars, ~CaptureActs
    PROVE  UNCHANGED capture \/ CaptureBack
<1>0. CaptureShape /\ HeldBy
  BY DEF Types, CaptureTypes
<1>1. CASE NothingToProcess("capture") \/ NothingToProcess("result")
  BY <1>0, <1>1, CaptureReturns DEF NothingToProcess, Return, CaptureBack, Processing
<1>2. CASE PopPending
  <2>1. Locked
    BY <1>2 DEF PopPending, Locked
  <2>2. CASE mMutex.by = "capture"
    <3>1. capture.pc = "process"
      BY <1>0, <2>1, <2>2 DEF HeldBy, Processing
    <3>2. capture' = [capture EXCEPT !.pc = "idle"]
      BY <1>2, <2>2 DEF PopPending, Return
    <3>3. QED
      BY <1>0, <3>1, <3>2, CaptureReturns DEF CaptureBack
  <2>3. CASE mMutex.by # "capture"
    BY <1>2, <2>3 DEF PopPending, Return
  <2>4. QED
    BY <2>2, <2>3
<1>3. CASE CreateInfo("capture") \/ CreateInfo("result")
  BY <1>3 DEF CreateInfo
<1>4. CASE CountBuffers \/ QueueBuffers \/ StartSource
  BY <1>4 DEF CountBuffers, QueueBuffers, StartSource
<1>5. CASE ShutterReady \/ MetadataReady \/ DequeuePrivacy \/ DequeueDevice
  BY <1>5 DEF ShutterReady, MetadataReady, DequeuePrivacy, DequeueDevice
<1>6. CASE Dequeued
  BY <1>6 DEF Dequeued
<1>7. CASE CompleteBuffer
  BY <1>7 DEF CompleteBuffer
<1>8. CASE Recycle \/ CompleteRequest
  BY <1>8 DEF Recycle, CompleteRequest
<1>9. CASE Device
  BY <1>9 DEF Device, DispatchTask, SendMetadata, FrameAvailable
<1>10. CASE PrivacyThread \/ MoveShutter \/ UNCHANGED vars
  BY <1>10 DEF PrivacyThread, TakeCaptureRequest, PrivacyTell, PrivacyFrame, MoveShutter, vars
<1>11. QED
  BY <1>1, <1>2, <1>3, <1>4, <1>5, <1>6, <1>7, <1>8, <1>9, <1>10
     DEF Next, CaptureThread, ResultThread, ProcessNewRequest, Enter, CaptureActs

-----------------------------------------------------------------------------
(* stop waits for the result thread.                                       *)

JoinedInv == capture.pc = "closed" /\ capture.task = "stop" => result.pc = "ended"

(* The result thread does nothing once it has ended.                       *)
LEMMA JoinedStays ==
    ASSUME Types, [Next]_vars, result.pc = "ended"
    PROVE  result'.pc = "ended"
<1>1. HeldBy
  BY DEF Types
<1>2. CASE ResultThread
  <2>1. ~(ShutterReady \/ MetadataReady \/ DequeuePrivacy \/ DequeueDevice)
    BY DEF ShutterReady, MetadataReady, DequeuePrivacy, DequeueDevice, Takes
  <2>2. ~(Dequeued \/ CompleteBuffer \/ Recycle \/ CompleteRequest)
    BY DEF Dequeued, CompleteBuffer, Recycle, CompleteRequest
  <2>3. ~Enter("result")
    BY DEF Enter, NothingToProcess, CreateInfo, Processing
  <2>4. QED
    BY <1>2, <2>1, <2>2, <2>3 DEF ResultThread
<1>3. CASE PopPending
  <2>1. mMutex.by # "result"
    BY <1>1, <1>3 DEF PopPending, HeldBy, Locked, Processing
  <2>2. mMutex.by = "capture"
    BY <1>3, <2>1 DEF PopPending, Types, MutexTypes, Locked
  <2>3. QED
    BY <1>3, <2>2 DEF PopPending, Return
<1>4. CASE CountBuffers \/ QueueBuffers \/ StartSource
  BY <1>4 DEF CountBuffers, QueueBuffers, StartSource
<1>5. CASE JoinResult
  BY <1>5 DEF JoinResult
<1>6. CASE CaptureActs /\ ~JoinResult
  <2>1. CASE HandleNewRequest \/ WaitAllRequestsDone \/ StopPrivacy \/ JoinPrivacy \/ ClearRequests
    BY <2>1 DEF HandleNewRequest, WaitAllRequestsDone, StopPrivacy, JoinPrivacy, ClearRequests
  <2>2. CASE StopStream \/ DeviceConfigure \/ ClearStarted \/ FlipPrivacy \/ PushRequest
    BY <2>2 DEF StopStream, DeviceConfigure, ClearStarted, FlipPrivacy, PushRequest
  <2>3. CASE Stop \/ ExitThreads
    BY <2>3 DEF Stop, ExitThreads
  <2>4. QED
    BY <1>6, <2>1, <2>2, <2>3 DEF CaptureActs
<1>7. CASE Enter("capture")
  BY <1>7 DEF Enter, NothingToProcess, CreateInfo, Return
<1>8. CASE Device
  BY <1>8 DEF Device, DispatchTask, SendMetadata, FrameAvailable
<1>9. CASE PrivacyThread \/ MoveShutter \/ UNCHANGED vars
  BY <1>9 DEF PrivacyThread, TakeCaptureRequest, PrivacyTell, PrivacyFrame, MoveShutter, vars
<1>10. QED
  BY <1>2, <1>3, <1>4, <1>5, <1>6, <1>7, <1>8, <1>9
     DEF Next, CaptureThread, ProcessNewRequest, CaptureActs

LEMMA JoinedStep ==
    ASSUME Types, JoinedInv, [Next]_vars
    PROVE  JoinedInv'
<1>1. CaptureTypes /\ ResultTypes
  BY DEF Types
<1>2. CASE JoinResult
  <2>1. result' = [result EXCEPT !.pc = "ended"]
    BY <1>2 DEF JoinResult
  <2>2. QED
    BY <1>1, <2>1, ResultGoes DEF JoinedInv
<1>3. CASE CaptureActs /\ ~JoinResult
  <2>1. ~(capture'.pc = "closed" /\ capture'.task = "stop")
    BY <1>1, <1>3, CaptureSteps DEF CaptureActs
  <2>2. QED
    BY <2>1 DEF JoinedInv
<1>4. CASE ~CaptureActs
  <2>1. CASE UNCHANGED capture
    BY <2>1, JoinedStays DEF JoinedInv
  <2>2. CASE CaptureBack
    BY <2>2 DEF CaptureBack, JoinedInv
  <2>3. QED
    BY <1>4, <2>1, <2>2, OthersCapture
<1>5. QED
  BY <1>2, <1>3, <1>4

-----------------------------------------------------------------------------
(* What the application was told of a request when it is completed.        *)

(* A request that is completed, or about to be.                            *)
Ended(r) ==
    \/ \E k \in 1 .. Len(completed) : completed[k] = r
    \/ Completing /\ infos[result.id].id = r

(* A request that no record has been made for.                             *)
Fresh(r) ==
    \/ r > Pushed
    \/ ~Locked /\ \E k \in 1 .. Len(mPendingRequests) : mPendingRequests[k] = r

FreshInv == \A r \in Ids : Fresh(r) => told[r].bufs = {} /\ ~Ended(r)

(* What was given back of a request and what its record still expects make *)
(* up what the request wants.                                              *)
SharedInv ==
    \A r \in Ids : mProcessingRequests[r] # None =>
        /\ told[r].bufs \cup infos[mProcessingRequests[r]].out = Wanted(r)
        /\ infos[mProcessingRequests[r]].meta => told[r].read # "none"
        /\ ~Ended(r)

EndedInv ==
    \A r \in Ids : Ended(r) =>
        r \in Known /\ told[r].bufs = Wanted(r) /\ told[r].read # "none"

FreeInv == \A i \in Infos : Free(i) => infos[i].out = {}

(* The record of a request that is about to be completed is the last of    *)
(* the free ones.                                                          *)
LastInv ==
    Completing =>
        /\ Len(mAvailableRequestBuffers) > 0
        /\ mAvailableRequestBuffers[Len(mAvailableRequestBuffers)] = result.id
        /\ \A k \in 1 .. Len(completed) : completed[k] # infos[result.id].id

OnceInv == \A j, k \in 1 .. Len(completed) : completed[j] = completed[k] => j = k

FullInv == FreshInv /\ SharedInv /\ EndedInv /\ FreeInv /\ LastInv /\ OnceInv

LEMMA FullInit == Init => FullInv
<1> SUFFICES ASSUME Init PROVE FullInv
  OBVIOUS
<1>1. completed = <<>> /\ ~Completing
  BY DEF Init, Completing, Resting
<1>2. \A r \in Ids : ~Ended(r) /\ told[r].bufs = {} /\ mProcessingRequests[r] = None
  BY <1>1 DEF Init, Ended
<1>3. \A i \in Infos : infos[i].out = {}
  BY DEF Init
<1>4. QED
  BY <1>1, <1>2, <1>3
     DEF FullInv, FreshInv, SharedInv, EndedInv, FreeInv, LastInv, OnceInv

(* A step that makes no request fresh, that ends none, and that changes    *)
(* neither a record nor what was told.                                     *)
LEMMA FullSame ==
    ASSUME PoolInv, FullInv,
           UNCHANGED <<mAvailableRequestBuffers, mProcessingRequests, completed>>,
           Completing' <=> Completing, Completing => UNCHANGED result,
           \A i \in Infos : /\ infos'[i].id = infos[i].id /\ infos'[i].out = infos[i].out
                            /\ infos'[i].meta = infos[i].meta,
           \A r \in Ids : told'[r].bufs = told[r].bufs /\ told'[r].read = told[r].read,
           \A r \in Known : r \in Known' /\ Wanted(r)' = Wanted(r),
           \A r \in Ids : Fresh(r)' => Fresh(r)
    PROVE  FullInv'
<1>1. /\ mProcessingRequests \in [Ids -> Infos \cup {None}]
      /\ \A r \in Ids : mProcessingRequests[r] # None => r \in Known
      /\ Completing => result.id \in Infos
  BY DEF PoolInv, RecordInv, Types, PoolTypes, ResultTypes, Completing
<1>2. \A r \in Ids : Ended(r)' <=> Ended(r)
  BY <1>1 DEF Ended
<1>3. FreshInv'
  BY <1>2 DEF FullInv, FreshInv
<1>4. SharedInv'
  <2> SUFFICES ASSUME NEW r \in Ids, mProcessingRequests[r] # None
               PROVE  /\ told[r].bufs \cup infos[mProcessingRequests[r]].out = Wanted(r)'
                      /\ infos[mProcessingRequests[r]].meta => told[r].read # "none"
                      /\ ~Ended(r)'
    BY <1>1 DEF SharedInv
  <2>1. r \in Known
    BY <1>1
  <2>2. QED
    BY <1>2, <2>1 DEF FullInv, SharedInv
<1>5. EndedInv'
  BY <1>2 DEF FullInv, EndedInv
<1>6. FreeInv'
  BY DEF FullInv, FreeInv, Free
<1>7. LastInv' /\ OnceInv'
  BY <1>1 DEF FullInv, LastInv, OnceInv
<1>8. QED
  BY <1>3, <1>4, <1>5, <1>6, <1>7 DEF FullInv

(* A request with a record was pushed and is not fresh.                    *)
LEMMA RecordNotFresh ==
    ASSUME PoolInv, NEW r \in Ids, mProcessingRequests[r] # None
    PROVE  ~Fresh(r) /\ r \in Known /\ mProcessingRequests[r] \in Infos
           /\ infos[mProcessingRequests[r]].id = r
<1>1. Pushed \in Int /\ r <= Pushed /\ r \in Int
  BY CountTypes DEF PoolInv, RecordInv, Ids
<1>2. ~(r > Pushed)
  BY <1>1
<1>3. \A k \in 1 .. Len(mPendingRequests) : mPendingRequests[k] = r => Locked
  BY DEF PoolInv, PendingInv
<1>4. r \in Known /\ mProcessingRequests[r] \in Infos /\ infos[mProcessingRequests[r]].id = r
  BY DEF PoolInv, RecordInv, Types, PoolTypes
<1>5. QED
  BY <1>2, <1>3, <1>4 DEF Fresh

LEMMA FullMetadata ==
    ASSUME PoolInv, FullInv, MetadataReady, [Next]_vars
    PROVE  FullInv'
<1>1. /\ told \in [Ids -> [bufs : SUBSET Streams, ran : {"none", "device", "privacy"},
                           read : {"none", "device", "privacy"}]]
      /\ infos \in [Infos -> [id : Known \cup {None}, out : SUBSET Streams,
                              meta : BOOLEAN, shutter : BOOLEAN]]
      /\ mProcessingRequests \in [Ids -> Infos \cup {None}]
  BY DEF PoolInv, Types, ToldTypes, PoolTypes
<1> DEFINE r == Head(events).id
           i == mProcessingRequests[r]
<1>2. /\ UNCHANGED <<requests, mAvailableRequestBuffers, mProcessingRequests, completed, mMutex,
                     mPendingRequests, capture>>
      /\ infos' = IF i = None THEN infos ELSE [infos EXCEPT ![i].meta = TRUE]
      /\ told' = IF i = None THEN told ELSE [told EXCEPT ![r].read = Source]
      /\ result' = [Resting EXCEPT !.pc = "done", !.id = r]
      /\ result.pc = "idle"
  BY DEF MetadataReady, Takes
<1>3. ~Completing /\ ~Completing'
  BY <1>2 DEF Completing, Resting
<1>4. r \in Ids
  BY EventTyped DEF MetadataReady, PoolInv, Types
<1>5. /\ UNCHANGED Known /\ \A q \in Ids : Wanted(q)' = Wanted(q)
      /\ Pushed' = Pushed
  BY <1>2 DEF Known, Wanted, Pushed, Handing
<1>6. \A q \in Ids : Fresh(q)' <=> Fresh(q)
  BY <1>2, <1>5 DEF Fresh, Locked
<1>7. \A q \in Ids : Ended(q)' <=> Ended(q)
  BY <1>2, <1>3 DEF Ended
<1>8. /\ \A q \in Ids : told'[q].bufs = told[q].bufs
                        /\ (told[q].read # "none" => told'[q].read # "none")
      /\ i # None => told'[r].read # "none"
      /\ \A j \in Infos : infos'[j].out = infos[j].out
                          /\ (j # i => infos'[j].meta = infos[j].meta)
  <2>1. CASE i = None
    BY <1>2, <2>1
  <2>2. CASE i # None
    <3>1. i \in Infos /\ Source \in {"device", "privacy"}
      BY <1>1, <1>4, <2>2 DEF Source
    <3>2. infos' = [infos EXCEPT ![i].meta = TRUE] /\ told' = [told EXCEPT ![r].read = Source]
      BY <1>2, <2>2
    <3> HIDE DEF i, r
    <3>3. \A j \in Infos : infos'[j].out = infos[j].out /\ (j # i => infos'[j].meta = infos[j].meta)
      BY <1>1, <3>1, <3>2
    <3>4. /\ \A q \in Ids : q # r => told'[q] = told[q]
          /\ told'[r].bufs = told[r].bufs /\ told'[r].read = Source
      BY <1>1, <1>4, <3>2
    <3>5. QED
      BY <3>1, <3>3, <3>4
  <2>3. QED
    BY <2>1, <2>2
<1> HIDE DEF i, r
<1>9. SharedInv'
  <2> SUFFICES ASSUME NEW q \in Ids, mProcessingRequests[q] # None
               PROVE  /\ told'[q].bufs \cup infos'[mProcessingRequests[q]].out = Wanted(q)
                      /\ infos'[mProcessingRequests[q]].meta => told'[q].read # "none"
                      /\ ~Ended(q)
    BY <1>2, <1>5, <1>7 DEF SharedInv
  <2>1. mProcessingRequests[q] \in Infos /\ infos[mProcessingRequests[q]].id = q
    BY RecordNotFresh
  <2>2. mProcessingRequests[q] = i => q = r /\ i # None
    BY <1>4, <2>1, RecordNotFresh DEF i
  <2>3. QED
    BY <1>8, <2>1, <2>2 DEF FullInv, SharedInv
<1>10. FreshInv' /\ EndedInv'
  BY <1>5, <1>6, <1>7, <1>8 DEF FullInv, FreshInv, EndedInv
<1>11. FreeInv' /\ LastInv' /\ OnceInv'
  BY <1>2, <1>3, <1>8 DEF FullInv, FreeInv, Free, LastInv, OnceInv
<1>12. QED
  BY <1>9, <1>10, <1>11 DEF FullInv

LEMMA FullBuffer ==
    ASSUME PoolInv, FullInv, CompleteBuffer
    PROVE  FullInv'
<1>1. /\ told \in [Ids -> [bufs : SUBSET Streams, ran : {"none", "device", "privacy"},
                           read : {"none", "device", "privacy"}]]
      /\ infos \in [Infos -> [id : Known \cup {None}, out : SUBSET Streams,
                              meta : BOOLEAN, shutter : BOOLEAN]]
      /\ mProcessingRequests \in [Ids -> Infos \cup {None}]
  BY DEF PoolInv, Types, ToldTypes, PoolTypes
<1> DEFINE r == result.id
           i == mProcessingRequests[r]
           s == result.stream
<1>2. /\ UNCHANGED <<requests, mAvailableRequestBuffers, mProcessingRequests, completed, mMutex,
                     mPendingRequests, capture>>
      /\ result.pc = "buffer"
  BY DEF CompleteBuffer
<1>3. /\ r \in Ids /\ ResultTypes
      /\ result' = Resting \/ result' = [result EXCEPT !.pc = "done"]
  BY DEF CompleteBuffer, PoolInv, Types, ResultTypes
<1>4. ~Completing /\ ~Completing'
  BY <1>2, <1>3, ResultGoes DEF Completing, Resting
<1>5. /\ UNCHANGED Known /\ \A q \in Ids : Wanted(q)' = Wanted(q)
      /\ Pushed' = Pushed
  BY <1>2 DEF Known, Wanted, Pushed, Handing
<1>6. \A q \in Ids : Fresh(q)' <=> Fresh(q)
  BY <1>2, <1>5 DEF Fresh, Locked
<1>7. \A q \in Ids : Ended(q)' <=> Ended(q)
  BY <1>2, <1>4 DEF Ended
<1>8. CASE i # None /\ s \in infos[i].out
  <2>1. i \in Infos /\ infos[i].id = r /\ ~Fresh(r) /\ ~Ended(r)
    BY <1>3, <1>8, RecordNotFresh DEF FullInv, SharedInv
  <2>2. /\ infos' = [infos EXCEPT ![i].out = @ \ {s}]
        /\ told' = [told EXCEPT ![r].bufs = @ \cup {s}]
    BY <1>8, <2>1 DEF CompleteBuffer
  <2>3. /\ infos'[i].out = infos[i].out \ {s} /\ infos'[i].meta = infos[i].meta
        /\ \A j \in Infos : j # i => infos'[j] = infos[j]
        /\ told'[r].bufs = told[r].bufs \cup {s} /\ told'[r].read = told[r].read
        /\ \A q \in Ids : q # r => told'[q] = told[q]
    BY <1>1, <1>3, <2>1, <2>2
  <2>4. told'[r].bufs \cup infos'[i].out = told[r].bufs \cup infos[i].out
    BY <1>8, <2>3
  <2>5. Used(i)
    BY <1>3 DEF Used
  <2> HIDE DEF i, r, s
  <2>6. SharedInv'
    <3> SUFFICES ASSUME NEW q \in Ids, mProcessingRequests[q] # None
                 PROVE  /\ told'[q].bufs \cup infos'[mProcessingRequests[q]].out = Wanted(q)
                        /\ infos'[mProcessingRequests[q]].meta => told'[q].read # "none"
                        /\ ~Ended(q)
      BY <1>2, <1>5, <1>7 DEF SharedInv
    <3>1. mProcessingRequests[q] \in Infos /\ infos[mProcessingRequests[q]].id = q
      BY RecordNotFresh
    <3>2. CASE q = r
      BY <2>3, <2>4, <3>2 DEF i, FullInv, SharedInv
    <3>3. CASE q # r
      <4>1. mProcessingRequests[q] # i
        BY <2>1, <3>1, <3>3
      <4>2. QED
        BY <2>3, <3>1, <3>3, <4>1 DEF FullInv, SharedInv
    <3>4. QED
      BY <3>2, <3>3
  <2>7. FreshInv'
    BY <1>6, <1>7, <2>1, <2>3 DEF FullInv, FreshInv
  <2>8. EndedInv'
    BY <1>5, <1>7, <2>1, <2>3 DEF FullInv, EndedInv
  <2>9. FreeInv'
    <3>1. ~Free(i)
      BY <2>1, <2>5 DEF PoolInv, RecordInv
    <3>2. QED
      BY <1>2, <2>3, <3>1 DEF FullInv, FreeInv, Free
  <2>10. LastInv' /\ OnceInv'
    BY <1>2, <1>4 DEF FullInv, LastInv, OnceInv
  <2>11. QED
    BY <2>6, <2>7, <2>8, <2>9, <2>10 DEF FullInv
<1>9. CASE ~(i # None /\ s \in infos[i].out)
  <2>1. UNCHANGED <<infos, told>>
    BY <1>9 DEF CompleteBuffer
  <2>2. QED
    BY <1>2, <1>4, <1>5, <1>6, <2>1, FullSame DEF PoolInv, Types, ListTypes, Known, Wanted
<1>10. QED
  BY <1>8, <1>9

LEMMA FullRecycle ==
    ASSUME PoolInv, FullInv, Recycle, RecordInv'
    PROVE  FullInv'
<1> DEFINE r == result.id
           i == mProcessingRequests[r]
<1>1. /\ UNCHANGED <<requests, infos, told, completed, mMutex, mPendingRequests, capture>>
      /\ mProcessingRequests \in [Ids -> Infos \cup {None}]
  BY DEF Recycle, PoolInv, Types, PoolTypes
<1>2. /\ UNCHANGED Known /\ \A q \in Ids : Wanted(q)' = Wanted(q)
      /\ Pushed' = Pushed
  BY <1>1 DEF Known, Wanted, Pushed, Handing
<1>3. \A q \in Ids : Fresh(q)' <=> Fresh(q)
  BY <1>1, <1>2 DEF Fresh, Locked
<1>4. CASE /\ result' = Resting /\ ~Completing /\ ~Completing'
           /\ UNCHANGED <<mAvailableRequestBuffers, mProcessingRequests>>
  <2>1. \A q \in Known : q \in Known' /\ Wanted(q)' = Wanted(q)
    BY <1>1 DEF Known, Wanted
  <2>2. QED
    BY <1>1, <1>3, <1>4, <2>1, FullSame
<1>5. CASE /\ r \in Ids /\ i \in Infos
           /\ infos[i].id = r
           /\ RequestComplete(i)
           /\ mAvailableRequestBuffers' = Append(mAvailableRequestBuffers, i)
           /\ mProcessingRequests' = [mProcessingRequests EXCEPT ![r] = None]
           /\ ~Completing /\ Completing' /\ result'.id = i
  <2>1. i # None /\ infos[i].out = {} /\ infos[i].meta
    BY <1>5 DEF Infos, None, RequestComplete
  <2>2. ~Fresh(r) /\ r \in Known
    BY <1>5, <2>1, RecordNotFresh
  <2>3. ~Ended(r) /\ told[r].bufs = Wanted(r) /\ told[r].read # "none"
    BY <1>5, <2>1 DEF FullInv, SharedInv
  <2>4. /\ Len(mAvailableRequestBuffers') = Len(mAvailableRequestBuffers) + 1
        /\ Len(mAvailableRequestBuffers) \in Nat
        /\ mAvailableRequestBuffers'[Len(mAvailableRequestBuffers) + 1] = i
        /\ \A k \in 1 .. Len(mAvailableRequestBuffers) :
              mAvailableRequestBuffers'[k] = mAvailableRequestBuffers[k]
    BY <1>5 DEF PoolInv, Types, PoolTypes
  <2>5. \A q \in Ids : mProcessingRequests'[q] = IF q = r THEN None ELSE mProcessingRequests[q]
    BY <1>1, <1>5
  <2> HIDE DEF i, r
  <2>6. \A q \in Ids : Ended(q)' <=> Ended(q) \/ q = r
    BY <1>1, <1>5 DEF Ended
  <2>7. FreshInv'
    BY <1>1, <1>3, <2>2, <2>6 DEF FullInv, FreshInv
  <2>8. SharedInv'
    <3> SUFFICES ASSUME NEW q \in Ids, mProcessingRequests'[q] # None
                 PROVE  /\ told[q].bufs \cup infos[mProcessingRequests'[q]].out = Wanted(q)
                        /\ infos[mProcessingRequests'[q]].meta => told[q].read # "none"
                        /\ ~Ended(q)'
      BY <1>1, <1>2 DEF SharedInv
    <3>1. q # r /\ mProcessingRequests'[q] = mProcessingRequests[q]
      BY <2>5
    <3>2. QED
      BY <2>6, <3>1 DEF FullInv, SharedInv
  <2>9. EndedInv'
    BY <1>1, <1>2, <2>2, <2>3, <2>6 DEF FullInv, EndedInv
  <2>10. FreeInv'
    <3>1. \A j \in Infos : Free(j)' => Free(j) \/ j = i
      BY <2>4 DEF Free
    <3>2. QED
      BY <1>1, <2>1, <3>1 DEF FullInv, FreeInv
  <2>11. LastInv' /\ OnceInv'
    <3>1. \A k \in 1 .. Len(completed) : completed[k] # r
      BY <2>3 DEF Ended
    <3>2. QED
      BY <1>1, <1>5, <2>4, <3>1 DEF FullInv, LastInv, OnceInv
  <2>12. QED
    BY <2>7, <2>8, <2>9, <2>10, <2>11 DEF FullInv
<1>6. QED
  BY <1>4, <1>5, RecycleTakes

LEMMA FullComplete ==
    ASSUME PoolInv, FullInv, CompleteRequest
    PROVE  FullInv'
<1> DEFINE r == infos[result.id].id
<1>1. /\ UNCHANGED <<requests, infos, told, mMutex, mPendingRequests, capture,
                     mAvailableRequestBuffers, mProcessingRequests>>
      /\ completed' = Append(completed, r)
      /\ result' = [Resting EXCEPT !.pc = "process"]
      /\ Completing
  BY DEF CompleteRequest, Completing
<1>2. ~Completing'
  BY <1>1 DEF Completing, Resting
<1>3. r \in Known
  BY <1>1 DEF PoolInv, Types, ResultTypes, Completing
<1>4. /\ UNCHANGED Known /\ \A q \in Ids : Wanted(q)' = Wanted(q)
      /\ Pushed' = Pushed
  BY <1>1 DEF Known, Wanted, Pushed, Handing
<1>5. \A q \in Ids : Fresh(q)' <=> Fresh(q)
  BY <1>1, <1>4 DEF Fresh, Locked
<1>6. /\ Len(completed) \in Nat /\ Len(completed') = Len(completed) + 1
      /\ completed'[Len(completed) + 1] = r
      /\ \A k \in 1 .. Len(completed) : completed'[k] = completed[k]
  BY <1>1, <1>3 DEF PoolInv, Types, ListTypes
<1>7. \A q \in Ids : Ended(q)' <=> Ended(q)
  <2> SUFFICES ASSUME NEW q \in Ids PROVE Ended(q)' <=> Ended(q)
    OBVIOUS
  <2>1. Ended(q) <=> q = r \/ \E k \in 1 .. Len(completed) : completed[k] = q
    BY <1>1 DEF Ended
  <2>2. Ended(q)' <=> \E k \in 1 .. Len(completed') : completed'[k] = q
    BY <1>2 DEF Ended
  <2> HIDE DEF r
  <2>3. (\E k \in 1 .. Len(completed') : completed'[k] = q)
        <=> (q = r \/ \E k \in 1 .. Len(completed) : completed[k] = q)
    BY <1>6
  <2>4. QED
    BY <2>1, <2>2, <2>3
<1>8. OnceInv'
  <2>1. \A k \in 1 .. Len(completed) : completed[k] # r
    BY <1>1 DEF FullInv, LastInv
  <2> HIDE DEF r
  <2>2. QED
    BY <1>6, <2>1 DEF FullInv, OnceInv
<1>9. FreshInv' /\ SharedInv' /\ EndedInv'
  BY <1>1, <1>4, <1>5, <1>7 DEF FullInv, FreshInv, SharedInv, EndedInv
<1>10. FreeInv' /\ LastInv'
  BY <1>1, <1>2 DEF FullInv, FreeInv, Free, LastInv
<1>11. QED
  BY <1>8, <1>9, <1>10 DEF FullInv

LEMMA FullCreate ==
    ASSUME PoolInv, CountInv, FullInv, EnoughRecords,
           NEW t \in {"capture", "result"}, CreateInfo(t), RecordInv', Pushed' = Pushed
    PROVE  FullInv'
<1> DEFINE r == NextRequest
           i == NextInfo
           n == Len(mAvailableRequestBuffers)
<1>0. Types
  BY DEF PoolInv
<1>1. /\ i \in Infos /\ r \in Known /\ r \in Ids
      /\ i = mAvailableRequestBuffers[1] /\ r = mPendingRequests[1]
      /\ mMutex = Unlocked
      /\ mMutex' = [by |-> t, pc |-> "count", info |-> i]
      /\ infos' = [infos EXCEPT ![i] =
           [id |-> r, out |-> infos[i].out \cup Wanted(r), meta |-> FALSE, shutter |-> FALSE]]
      /\ mProcessingRequests' = [mProcessingRequests EXCEPT ![r] = i]
  BY <1>0, CreateTakes
<1>2. /\ UNCHANGED <<requests, told, completed, mPendingRequests, capture, result>>
      /\ mPendingRequests # <<>> /\ mAvailableRequestBuffers # <<>>
      /\ mAvailableRequestBuffers' = Tail(mAvailableRequestBuffers)
  BY DEF CreateInfo
<1>3. /\ mAvailableRequestBuffers \in Seq(Infos) /\ mPendingRequests \in Seq(Known)
      /\ infos \in [Infos -> [id : Known \cup {None}, out : SUBSET Streams,
                              meta : BOOLEAN, shutter : BOOLEAN]]
      /\ mProcessingRequests \in [Ids -> Infos \cup {None}]
  BY <1>0 DEF Types, ListTypes, PoolTypes
<1>4. /\ n \in Nat /\ n >= 1 /\ Len(mPendingRequests) >= 1 /\ Len(mPendingRequests) \in Nat
  BY <1>2, <1>3, LenProperties, EmptySeq
<1>5. /\ Len(mAvailableRequestBuffers') = n - 1
      /\ \A k \in 1 .. n - 1 : mAvailableRequestBuffers'[k] = mAvailableRequestBuffers[k + 1]
  BY <1>2, <1>3, HeadTailProperties
<1>6. ~Locked /\ Locked'
  BY <1>1 DEF Locked, Unlocked
<1>7. Completing => n >= 2
  <2>1. NumFree >= 1 + Ending
    BY <1>1, <1>2, RecordFound
  <2>2. QED
    BY <1>4, <2>1, OneEach DEF NumFree
<1>8. Completing <=> Completing'
  BY <1>2 DEF Completing
<1>9. UNCHANGED Known /\ \A q \in Ids : Wanted(q)' = Wanted(q)
  BY <1>2 DEF Known, Wanted
<1>10. Fresh(r)
  BY <1>1, <1>4, <1>6 DEF Fresh
<1>11. told[r].bufs = {} /\ ~Ended(r)
  BY <1>1, <1>10 DEF FullInv, FreshInv
<1>12. Free(i) /\ infos[i].out = {}
  <2>1. Free(i)
    BY <1>1, <1>4 DEF Free
  <2>2. QED
    BY <1>1, <2>1 DEF FullInv, FreeInv
<1>13. /\ infos'[i].id = r /\ infos'[i].out = Wanted(r) /\ infos'[i].meta = FALSE
       /\ \A j \in Infos : j # i => infos'[j] = infos[j]
       /\ mProcessingRequests'[r] = i
       /\ \A q \in Ids : q # r => mProcessingRequests'[q] = mProcessingRequests[q]
  BY <1>1, <1>3, <1>12
<1>14. Completing => result.id \in Infos /\ result.id # i /\ mAvailableRequestBuffers[n] = result.id
  <2> SUFFICES ASSUME Completing
               PROVE  result.id \in Infos /\ result.id # i /\ mAvailableRequestBuffers[n] = result.id
    OBVIOUS
  <2>1. result.id \in Infos
    BY <1>0 DEF Types, ResultTypes, Completing
  <2>2. mAvailableRequestBuffers[n] = result.id
    BY DEF FullInv, LastInv
  <2>3. n >= 2
    BY <1>7
  <2>4. mAvailableRequestBuffers[1] # mAvailableRequestBuffers[n]
    BY <1>4, <2>3 DEF PoolInv, RecordInv
  <2>5. QED
    BY <1>1, <2>1, <2>2, <2>4
<1> HIDE DEF i, r, n
<1>15. \A q \in Ids : Ended(q)' <=> Ended(q)
  BY <1>2, <1>8, <1>13, <1>14 DEF Ended
<1>16. \A q \in Ids : Fresh(q)' => Fresh(q)
  BY <1>6 DEF Fresh
<1>17. FreshInv' /\ EndedInv' /\ OnceInv'
  BY <1>2, <1>9, <1>15, <1>16 DEF FullInv, FreshInv, EndedInv, OnceInv
<1>18. SharedInv'
  <2> SUFFICES ASSUME NEW q \in Ids, mProcessingRequests'[q] # None
               PROVE  /\ told[q].bufs \cup infos'[mProcessingRequests'[q]].out = Wanted(q)
                      /\ infos'[mProcessingRequests'[q]].meta => told[q].read # "none"
                      /\ ~Ended(q)
    BY <1>2, <1>9, <1>15 DEF SharedInv
  <2>1. CASE q = r
    BY <1>11, <1>13, <2>1
  <2>2. CASE q # r
    <3>1. mProcessingRequests'[q] = mProcessingRequests[q]
      BY <1>13, <2>2
    <3>2. mProcessingRequests[q] \in Infos /\ mProcessingRequests[q] # i
      <4>1. Used(mProcessingRequests[q]) /\ mProcessingRequests[q] \in Infos
        BY <3>1, RecordNotFresh DEF Used
      <4>2. ~Used(i)
        BY <1>1, <1>12 DEF PoolInv, RecordInv
      <4>3. QED
        BY <4>1, <4>2
    <3>3. QED
      BY <1>13, <3>1, <3>2 DEF FullInv, SharedInv
  <2>3. QED
    BY <2>1, <2>2
<1>19. FreeInv'
  <2>1. ASSUME NEW j \in Infos, Free(j)' PROVE Free(j) /\ j # i
    <3>1. \A q \in Ids : mProcessingRequests'[q] # j
      BY <2>1 DEF RecordInv, Used
    <3>2. j # i
      BY <1>1, <1>13, <3>1
    <3>3. Free(j)
      BY <1>4, <1>5, <2>1 DEF Free, n
    <3>4. QED
      BY <3>2, <3>3
  <2>2. QED
    BY <1>13, <2>1 DEF FullInv, FreeInv
<1>20. LastInv'
  <2> SUFFICES ASSUME Completing
               PROVE  /\ Len(mAvailableRequestBuffers') > 0
                      /\ mAvailableRequestBuffers'[Len(mAvailableRequestBuffers')] = result.id
                      /\ \A k \in 1 .. Len(completed) : completed[k] # infos'[result.id].id
    BY <1>2, <1>8 DEF LastInv
  <2>1. n - 1 > 0 /\ mAvailableRequestBuffers'[n - 1] = mAvailableRequestBuffers[n]
    BY <1>4, <1>5, <1>7
  <2>2. infos'[result.id].id = infos[result.id].id
    BY <1>13, <1>14
  <2>3. QED
    BY <1>5, <1>14, <2>1, <2>2 DEF FullInv, LastInv
<1>21. QED
  BY <1>17, <1>18, <1>19, <1>20 DEF FullInv

LEMMA FullStep ==
    ASSUME PoolInv, CountInv, CalmInv, FullInv, EnoughRecords, [Next]_vars, RecordInv'
    PROVE  FullInv'
<1>1. Types /\ (~PushRequest => Pushed' = Pushed) /\ Pushed \in Int /\ Pushed <= NumRequests
  BY PushedSame, CountTypes DEF PoolInv
<1>2. capture.pc # "push" \/ UNCHANGED capture => ~PushRequest
  <2>1. PushRequest => capture.pc = "push"
    BY DEF PushRequest
  <2>2. PushRequest => capture'.pc = "process"
    BY <1>1, CaptureSteps DEF Types
  <2>3. QED
    BY <2>1, <2>2
<1>3. CASE HandleNewRequest
  <2>1. PICK w \in Wants : requests' = Append(requests, w)
    BY <1>3 DEF HandleNewRequest
  <2>2. \A q \in Known : q \in Known' /\ Wanted(q)' = Wanted(q)
    BY <1>1, <2>1 DEF Types, ListTypes, Known, Wanted
  <2>3. UNCHANGED <<told, completed, pool, result, mPendingRequests, mMutex>> /\ capture.pc = "idle"
    BY <1>3 DEF HandleNewRequest
  <2>4. \A q \in Ids : Fresh(q)' => Fresh(q)
    BY <1>1, <1>2, <2>3 DEF Fresh, Locked
  <2>5. QED
    BY <2>2, <2>3, <2>4, FullSame DEF Completing
<1>4. CASE PushRequest
  <2>1. Pushed' = Len(requests) /\ Pushed = Len(requests) - 1 /\ Len(requests) \in Nat
    BY <1>1, <1>4, PushedSame, KnownTyped DEF Types
  <2>2. /\ UNCHANGED <<told, completed, pool, result, requests, mMutex>>
        /\ mPendingRequests' = Append(mPendingRequests, Len(requests))
        /\ mMutex = Unlocked /\ capture.pc = "push"
    BY <1>4 DEF PushRequest
  <2>3. \A q \in Ids : Fresh(q)' => Fresh(q)
    <3>1. mPendingRequests = <<>>
      BY <2>2 DEF CalmInv
    <3>2. mPendingRequests' = <<Len(requests)>>
      BY <2>2, <3>1
    <3>3. \A k \in 1 .. Len(mPendingRequests') : mPendingRequests'[k] = Len(requests)
      BY <3>2
    <3>4. Ids \subseteq Int
      BY DEF Ids
    <3>5. QED
      BY <2>1, <3>3, <3>4 DEF Fresh
  <2>4. \A q \in Known : q \in Known' /\ Wanted(q)' = Wanted(q)
    BY <2>2 DEF Known, Wanted
  <2>5. QED
    BY <2>2, <2>3, <2>4, FullSame DEF Completing
<1>5. CASE PopPending
  <2>1. Locked /\ mMutex.by \in {"capture", "result"} /\ mPendingRequests # <<>>
        /\ Processing(mMutex.by)
    BY <1>1, <1>5 DEF PopPending, Types, HeldBy, Locked, MutexTypes
  <2>2. /\ UNCHANGED <<told, completed, pool, requests>>
        /\ mPendingRequests' = Tail(mPendingRequests)
        /\ UNCHANGED result \/ (result' = Resting /\ result.pc = "process")
    BY <1>5, <2>1 DEF PopPending, Return, Processing
  <2>3. ~PushRequest
    BY <2>1 DEF PushRequest, Locked, Unlocked
  <2>4. mPendingRequests' = <<>>
    <3>1. mPendingRequests \in Seq(Known)
      BY <1>1 DEF Types, ListTypes
    <3>2. QED
      BY <2>1, <2>2, <3>1, HeadTailProperties, EmptySeq DEF CalmInv, NumWaiting
  <2>5. \A q \in Ids : Fresh(q)' => Fresh(q)
    BY <1>1, <2>3, <2>4 DEF Fresh
  <2>6. (Completing' <=> Completing) /\ (Completing => UNCHANGED result)
    BY <2>2 DEF Completing, Resting
  <2>7. \A q \in Known : q \in Known' /\ Wanted(q)' = Wanted(q)
    BY <2>2 DEF Known, Wanted
  <2>8. QED
    BY <2>2, <2>5, <2>6, <2>7, FullSame
<1>6. ASSUME NEW t \in {"capture", "result"}, CreateInfo(t) PROVE FullInv'
  <2>1. ~PushRequest
    BY <1>2, <1>6 DEF CreateInfo
  <2>2. QED
    BY <1>1, <1>6, <2>1, FullCreate
<1>7. CASE MetadataReady \/ CompleteBuffer \/ Recycle \/ CompleteRequest
  BY <1>7, FullMetadata, FullBuffer, FullRecycle, FullComplete
<1>8. CASE ~Moves /\ ~MetadataReady /\ ~CompleteBuffer
  <2>1. /\ UNCHANGED <<requests, mPendingRequests, mAvailableRequestBuffers,
                       mProcessingRequests, completed>>
        /\ (Locked' <=> Locked) /\ (Completing' <=> Completing)
        /\ ~PushRequest
    BY <1>1, <1>8, OtherSteps DEF Moves
  <2>2. \A q \in Known : q \in Known' /\ Wanted(q)' = Wanted(q)
    BY <2>1 DEF Known, Wanted
  <2>3. \A q \in Ids : Fresh(q)' => Fresh(q)
    BY <1>1, <2>1 DEF Fresh
  <2>4. /\ \A j \in Infos : /\ infos'[j].id = infos[j].id /\ infos'[j].out = infos[j].out
                            /\ infos'[j].meta = infos[j].meta
        /\ \A q \in Ids : told'[q].bufs = told[q].bufs /\ told'[q].read = told[q].read
        /\ Completing => UNCHANGED result
    <3>1. CASE QueueBuffers
      <4>1. UNCHANGED <<infos, result>> /\ infos[mMutex.info].id \in Ids
            /\ told' = [told EXCEPT ![infos[mMutex.info].id].ran = Source]
        BY <1>1, <3>1, KnownTyped DEF QueueBuffers, Types, MutexTypes, Locked
      <4>2. QED
        BY <1>1, <4>1 DEF Types, ToldTypes
    <3>2. CASE ShutterReady
      <4>1. mProcessingRequests[Head(events).id] \in Infos \cup {None}
        BY <1>1, <3>2, EventTyped DEF ShutterReady, Types, PoolTypes
      <4>2. UNCHANGED <<told, result>>
        BY <3>2 DEF ShutterReady
      <4>3. infos' = infos \/ infos' = [infos EXCEPT ![mProcessingRequests[Head(events).id]].shutter = TRUE]
        BY <3>2 DEF ShutterReady
      <4>4. QED
        BY <1>1, <4>1, <4>2, <4>3 DEF Types, PoolTypes
    <3>3. CASE ~QueueBuffers /\ ~ShutterReady
      <4>1. UNCHANGED <<infos, told>> /\ (Completing => UNCHANGED result)
        <5>1. CASE CountBuffers \/ StartSource \/ DequeuePrivacy \/ DequeueDevice \/ JoinResult
          BY <5>1 DEF CountBuffers, StartSource, DequeuePrivacy, DequeueDevice, JoinResult, Takes,
                      Completing
        <5>2. CASE Dequeued
          BY <5>2 DEF Dequeued, Completing
        <5>3. CASE \E t \in {"capture", "result"} : NothingToProcess(t)
          BY <5>3 DEF NothingToProcess, Return, Processing, Completing
        <5>4. CASE \/ WaitAllRequestsDone \/ StopPrivacy \/ JoinPrivacy \/ ClearRequests \/ StopStream
                   \/ DeviceConfigure
          BY <5>4 DEF WaitAllRequestsDone, StopPrivacy, JoinPrivacy, ClearRequests, StopStream,
                      DeviceConfigure
        <5>5. CASE ClearStarted \/ FlipPrivacy \/ ExitThreads \/ MoveShutter
          BY <5>5 DEF ClearStarted, FlipPrivacy, ExitThreads, MoveShutter
        <5>6. CASE Stop
          BY <5>6 DEF Stop
        <5>7. CASE Device
          BY <5>7 DEF Device, DispatchTask, SendMetadata, FrameAvailable
        <5>8. CASE PrivacyThread \/ UNCHANGED vars
          BY <5>8 DEF PrivacyThread, TakeCaptureRequest, PrivacyTell, PrivacyFrame, vars
        <5>9. QED
          BY <1>8, <3>3, <5>1, <5>2, <5>3, <5>4, <5>5, <5>6, <5>7, <5>8
             DEF Next, CaptureThread, ResultThread, ProcessNewRequest, Enter, Moves
      <4>2. QED
        BY <4>1
    <3>4. QED
      BY <3>1, <3>2, <3>3
  <2>5. QED
    BY <2>1, <2>2, <2>3, <2>4, FullSame
<1>9. QED
  BY <1>3, <1>4, <1>5, <1>6, <1>7, <1>8 DEF Moves

-----------------------------------------------------------------------------
(* The inductive invariant, when there are records enough.                 *)
EnoughInv == PoolInv /\ CountInv /\ CalmInv /\ OffInv /\ JoinedInv /\ FullInv

LEMMA EnoughInductive ==
    ASSUME EnoughRecords
    PROVE  Spec => []EnoughInv
<1>1. Init => EnoughInv
  <2>1. Init => JoinedInv
    BY DEF Init, JoinedInv
  <2>2. QED
    BY <2>1, TypesInit, PoolInit, CountInit, CalmInit, OffInit, FullInit DEF EnoughInv, PoolInv
<1>2. EnoughInv /\ [Next]_vars => EnoughInv'
  <2> SUFFICES ASSUME EnoughInv, [Next]_vars PROVE EnoughInv'
    OBVIOUS
  <2>1. PoolInv /\ CountInv /\ CalmInv /\ OffInv /\ JoinedInv /\ FullInv /\ Types
    BY DEF EnoughInv, PoolInv
  <2>2. PoolInv' /\ RecordInv'
    BY <2>1, TypesStep, PoolStep DEF PoolInv
  <2>3. CountInv' /\ CalmInv'
    BY <2>1, CountStep, CalmStep
  <2>4. OffInv' /\ JoinedInv'
    BY <2>1, OffStep, JoinedStep
  <2>5. FullInv'
    BY <2>1, <2>2, FullStep
  <2>6. QED
    BY <2>2, <2>3, <2>4, <2>5 DEF EnoughInv
<1>3. QED
  BY <1>1, <1>2, PTL DEF Spec

(* A request is completed once, and only when the application was given    *)
(* its metadata and every one of its buffers, however often the shutter    *)
(* moves in between.                                                       *)
THEOREM CompletedOnceInFull ==
    ASSUME MaxOutstanding <= kMaxProcessingRequest
    PROVE  Spec => []CompletedInFull
<1>1. EnoughInv => CompletedInFull
  <2> SUFFICES ASSUME EnoughInv, NEW k \in DOMAIN completed
               PROVE  /\ told[completed[k]].bufs = Wanted(completed[k])
                      /\ told[completed[k]].read # "none"
                      /\ \A j \in 1 .. k - 1 : completed[j] # completed[k]
    BY DEF CompletedInFull
  <2>1. /\ completed \in Seq(Known) /\ EndedInv /\ OnceInv /\ Known \subseteq Ids
    BY KnownTyped DEF EnoughInv, PoolInv, Types, ListTypes, FullInv
  <2>2. /\ k \in 1 .. Len(completed) /\ Len(completed) \in Nat /\ completed[k] \in Ids
    BY <2>1, LenProperties, ElementOfSeq
  <2>3. Ended(completed[k])
    BY <2>2 DEF Ended
  <2>4. told[completed[k]].bufs = Wanted(completed[k]) /\ told[completed[k]].read # "none"
    BY <2>1, <2>2, <2>3 DEF EndedInv
  <2>5. ASSUME NEW j \in 1 .. k - 1 PROVE completed[j] # completed[k]
    BY <2>1, <2>2 DEF OnceInv
  <2>6. QED
    BY <2>4, <2>5
<1>2. QED
  BY <1>1, EnoughInductive, PTL DEF EnoughRecords

(* Once stop is done, neither the device nor the source of black frames    *)
(* runs and the camera is not started, whichever of them was the source    *)
(* and wherever a switch had come to; if it found the camera started the   *)
(* result thread has ended.                                                *)
THEOREM StoppedForGood ==
    ASSUME MaxOutstanding <= kMaxProcessingRequest
    PROVE  Spec => []StopIsFinal
<1>1. EnoughInv => StopIsFinal
  BY DEF EnoughInv, OffInv, JoinedInv, NoneStarted, BothOff, StopIsFinal
<1>2. QED
  BY <1>1, EnoughInductive, PTL DEF EnoughRecords

-----------------------------------------------------------------------------
(* How many elements of a list are in a set.                               *)

At(q, S)   == {k \in 1 .. Len(q) : q[k] \in S}
Hits(q, S) == Cardinality(At(q, S))

LEMMA HitsType ==
    ASSUME NEW T, NEW q \in Seq(T), NEW S
    PROVE  IsFiniteSet(At(q, S)) /\ Hits(q, S) \in Nat
<1>1. IsFiniteSet(1 .. Len(q))
  BY LenProperties, FS_Interval
<1>2. IsFiniteSet(At(q, S))
  BY <1>1, FS_Subset DEF At
<1>3. QED
  BY <1>2, FS_CardinalityType DEF Hits

LEMMA HitsEmpty == \A S : Hits(<<>>, S) = 0
<1>1. \A S : At(<<>>, S) = {}
  BY DEF At
<1>2. QED
  BY <1>1, FS_EmptySet DEF Hits

LEMMA HitsNone ==
    ASSUME NEW T, NEW q \in Seq(T), NEW S
    PROVE  Hits(q, S) = 0 <=> \A k \in 1 .. Len(q) : q[k] \notin S
<1>1. IsFiniteSet(At(q, S))
  BY HitsType
<1>2. Hits(q, S) = 0 <=> At(q, S) = {}
  BY <1>1, FS_EmptySet DEF Hits
<1>3. QED
  BY <1>2 DEF At

(* Lists that have elements of the set at the same places.                 *)
LEMMA HitsSame ==
    ASSUME NEW q, NEW r, NEW S, NEW R, Len(r) = Len(q),
           \A k \in 1 .. Len(q) : r[k] \in R <=> q[k] \in S
    PROVE  Hits(r, R) = Hits(q, S)
<1>1. At(r, R) = At(q, S)
  BY DEF At
<1>2. QED
  BY <1>1 DEF Hits

LEMMA HitsAppend ==
    ASSUME NEW T, NEW q \in Seq(T), NEW x, NEW S
    PROVE  Hits(Append(q, x), S) = Hits(q, S) + IF x \in S THEN 1 ELSE 0
<1>1. /\ Len(q) \in Nat /\ Len(Append(q, x)) = Len(q) + 1
      /\ \A k \in 1 .. Len(q) : Append(q, x)[k] = q[k]
      /\ Append(q, x)[Len(q) + 1] = x
  <2>1. q \in Seq(T \cup {x})
    BY SeqGrows
  <2>2. QED
    BY <2>1, LenProperties, AppendProperties
<1>2. At(Append(q, x), S) = IF x \in S THEN At(q, S) \cup {Len(q) + 1} ELSE At(q, S)
  BY <1>1 DEF At
<1>3. IsFiniteSet(At(q, S)) /\ Hits(q, S) \in Nat
  BY HitsType
<1>a. Len(q) + 1 \notin At(q, S)
  BY <1>1 DEF At
<1>4. CASE x \in S
  BY <1>2, <1>3, <1>a, <1>4, FS_AddElement DEF Hits
<1>5. CASE x \notin S
  BY <1>2, <1>3, <1>5 DEF Hits
<1>6. QED
  BY <1>4, <1>5

(* The same number of elements, at other places.                           *)
LEMMA HitsMoved ==
    ASSUME NEW A, NEW B, IsFiniteSet(A), NEW f \in [A -> B],
           \A i, j \in A : f[i] = f[j] => i = j,
           \A k \in B : \E i \in A : f[i] = k
    PROVE  IsFiniteSet(B) /\ Cardinality(B) = Cardinality(A)
<1>1. f \in Bijection(A, B)
  BY DEF Bijection, Injection, Surjection, IsInjective
<1>2. ExistsBijection(A, B)
  BY <1>1 DEF ExistsBijection
<1>3. QED
  BY <1>2, FS_Bijection

LEMMA HitsTail ==
    ASSUME NEW T, NEW q \in Seq(T), q # <<>>, NEW S
    PROVE  Hits(q, S) = Hits(Tail(q), S) + IF Head(q) \in S THEN 1 ELSE 0
<1> DEFINE Later == {k \in 2 .. Len(q) : q[k] \in S}
           f == [i \in At(Tail(q), S) |-> i + 1]
<1>1. /\ Len(q) \in Nat \ {0} /\ Len(Tail(q)) = Len(q) - 1
      /\ \A i \in 1 .. Len(q) - 1 : Tail(q)[i] = q[i + 1]
      /\ Head(q) = q[1] /\ Tail(q) \in Seq(T)
  BY LenProperties, HeadTailProperties, EmptySeq
<1>2. IsFiniteSet(At(Tail(q), S)) /\ Hits(Tail(q), S) \in Nat
  BY <1>1, HitsType
<1>3. IsFiniteSet(Later) /\ Cardinality(Later) = Hits(Tail(q), S)
  <2>1. f \in [At(Tail(q), S) -> Later]
    BY <1>1 DEF At
  <2>2. \A i, j \in At(Tail(q), S) : f[i] = f[j] => i = j
    BY DEF At
  <2>3. ASSUME NEW k \in Later PROVE \E i \in At(Tail(q), S) : f[i] = k
    <3>1. k - 1 \in At(Tail(q), S)
      BY <1>1 DEF At
    <3>2. f[k - 1] = k
      BY <1>1, <3>1
    <3>3. QED
      BY <3>1, <3>2
  <2> HIDE DEF f, Later
  <2>4. QED
    BY <1>2, <2>1, <2>2, <2>3, HitsMoved DEF Hits
<1>4. At(q, S) = IF Head(q) \in S THEN Later \cup {1} ELSE Later
  BY <1>1 DEF At
<1>5. 1 \notin Later
  OBVIOUS
<1> HIDE DEF Later
<1>6. CASE Head(q) \in S
  BY <1>2, <1>3, <1>4, <1>5, <1>6, FS_AddElement DEF Hits
<1>7. CASE Head(q) \notin S
  BY <1>2, <1>3, <1>4, <1>7 DEF Hits
<1>8. QED
  BY <1>6, <1>7

(* One element is replaced.                                                *)
LEMMA HitsReplace ==
    ASSUME NEW T, NEW q \in Seq(T), NEW j \in 1 .. Len(q), NEW x, NEW S
    PROVE  Hits([q EXCEPT ![j] = x], S)
            = Hits(q, S) - (IF q[j] \in S THEN 1 ELSE 0) + (IF x \in S THEN 1 ELSE 0)
<1> DEFINE r == [q EXCEPT ![j] = x]
           Other == At(q, S) \ {j}
<1>1. /\ Len(q) \in Nat /\ Len(r) = Len(q) /\ r[j] = x
      /\ \A k \in 1 .. Len(q) : k # j => r[k] = q[k]
  BY LenProperties
<1>2. At(r, S) = IF x \in S THEN Other \cup {j} ELSE Other
  BY <1>1 DEF At
<1> HIDE DEF r
<1>3. IsFiniteSet(At(q, S)) /\ Hits(q, S) \in Nat
  BY HitsType
<1>4. IsFiniteSet(Other) /\ Cardinality(Other) = Hits(q, S) - IF q[j] \in S THEN 1 ELSE 0
  <2>1. /\ IsFiniteSet(Other)
        /\ Cardinality(Other) = IF j \in At(q, S) THEN Hits(q, S) - 1 ELSE Hits(q, S)
    BY <1>3, FS_RemoveElement DEF Hits
  <2>2. j \in At(q, S) <=> q[j] \in S
    BY DEF At
  <2>3. QED
    BY <1>3, <2>1, <2>2
<1>5. j \notin Other /\ Cardinality(Other) \in Nat
  BY <1>4, FS_CardinalityType
<1> HIDE DEF Other
<1>6. Hits(r, S) = Cardinality(Other) + IF x \in S THEN 1 ELSE 0
  <2>1. CASE x \in S
    BY <1>2, <1>4, <1>5, <2>1, FS_AddElement DEF Hits
  <2>2. CASE x \notin S
    BY <1>2, <1>5, <2>2 DEF Hits
  <2>3. QED
    BY <2>1, <2>2
<1>7. QED
  BY <1>3, <1>4, <1>6 DEF r

(* An element that is not in the set is taken out.                         *)
LEMMA HitsRemoveAt ==
    ASSUME NEW T, NEW q \in Seq(T), NEW j \in 1 .. Len(q), NEW S, q[j] \notin S
    PROVE  Hits(RemoveAt(q, j), S) = Hits(q, S)
<1> DEFINE a == SubSeq(q, 1, j - 1)
           c == SubSeq(q, j + 1, Len(q))
           r == a \o c
<1>1. a \in Seq(T) /\ Len(a) = j - 1 /\ \A k \in 1 .. j - 1 : a[k] = q[k]
  BY SubSeqProperties
<1>2. /\ c \in Seq(T) /\ Len(c) = Len(q) - j
      /\ \A k \in 1 .. Len(q) - j : c[k] = q[j + k]
  BY SubSeqProperties
<1> HIDE DEF a, c
<1>3. /\ Len(q) \in Nat /\ Len(r) = Len(q) - 1
      /\ \A k \in 1 .. j - 1 : r[k] = q[k]
      /\ \A k \in j .. Len(q) - 1 : r[k] = q[k + 1]
  <2>0. Len(q) \in Nat
    BY LenProperties
  <2>1. /\ Len(r) = Len(a) + Len(c)
        /\ \A k \in 1 .. Len(a) + Len(c) : r[k] = IF k <= Len(a) THEN a[k] ELSE c[k - Len(a)]
    BY <1>1, <1>2, ConcatProperties
  <2> HIDE DEF r
  <2>2. \A k \in 1 .. Len(q) - 1 : r[k] = IF k <= j - 1 THEN a[k] ELSE c[k - (j - 1)]
    <3>1. Len(a) = j - 1 /\ Len(a) + Len(c) = Len(q) - 1
      BY <1>1, <1>2, <2>0
    <3>2. QED
      BY <2>1, <3>1
  <2>3. ASSUME NEW k \in j .. Len(q) - 1 PROVE r[k] = q[k + 1]
    <3>1. k \in 1 .. Len(q) - 1 /\ ~(k <= j - 1) /\ k - (j - 1) \in 1 .. Len(q) - j
      BY <2>0
    <3>2. r[k] = c[k - (j - 1)] /\ c[k - (j - 1)] = q[j + (k - (j - 1))]
      BY <1>2, <2>2, <3>1
    <3>3. QED
      BY <2>0, <3>2
  <2>4. ASSUME NEW k \in 1 .. j - 1 PROVE r[k] = q[k]
    BY <1>1, <2>0, <2>2
  <2>5. QED
    BY <1>1, <1>2, <2>0, <2>1, <2>3, <2>4
<1> HIDE DEF r
<1> DEFINE f == [k \in At(q, S) |-> IF k < j THEN k ELSE k - 1]
<1>4. IsFiniteSet(At(q, S)) /\ j \notin At(q, S)
  <2>1. IsFiniteSet(At(q, S))
    BY HitsType
  <2>2. QED
    BY <2>1 DEF At
<1>5. f \in [At(q, S) -> At(r, S)]
  <2>1. ASSUME NEW k \in At(q, S) PROVE (IF k < j THEN k ELSE k - 1) \in At(r, S)
    <3>1. k \in 1 .. Len(q) /\ k # j /\ q[k] \in S
      BY <1>4 DEF At
    <3>2. CASE k < j
      <4>1. k \in 1 .. j - 1 /\ k \in 1 .. Len(q) - 1
        BY <1>3, <3>1, <3>2
      <4>2. QED
        BY <1>3, <3>1, <3>2, <4>1 DEF At
    <3>3. CASE k > j
      <4>1. k - 1 \in j .. Len(q) - 1 /\ k - 1 \in 1 .. Len(q) - 1 /\ (k - 1) + 1 = k
        BY <1>3, <3>1, <3>3
      <4>2. r[k - 1] \in S
        BY <1>3, <3>1, <4>1
      <4>3. QED
        BY <1>3, <3>3, <4>1, <4>2 DEF At
    <3>4. QED
      BY <1>3, <3>1, <3>2, <3>3
  <2>2. QED
    BY <2>1
<1>6. \A k, l \in At(q, S) : f[k] = f[l] => k = l
  BY <1>3, <1>4 DEF At
<1>7. ASSUME NEW m \in At(r, S) PROVE \E k \in At(q, S) : f[k] = m
  <2>0. m \in 1 .. Len(q) - 1 /\ r[m] \in S
    BY <1>3 DEF At
  <2>1. CASE m < j
    <3>1. m \in At(q, S)
      BY <1>3, <2>0, <2>1 DEF At
    <3>2. QED
      BY <2>1, <3>1
  <2>2. CASE m >= j
    <3>1. m + 1 \in 1 .. Len(q) /\ m \in j .. Len(q) - 1
      BY <1>3, <2>0, <2>2
    <3>2. m + 1 \in At(q, S)
      BY <1>3, <2>0, <3>1 DEF At
    <3>3. f[m + 1] = m
      BY <1>3, <2>2, <3>1, <3>2
    <3>4. QED
      BY <3>2, <3>3
  <2>3. QED
    BY <1>3, <2>0, <2>1, <2>2
<1> HIDE DEF f
<1>8. Cardinality(At(r, S)) = Cardinality(At(q, S))
  <2> HIDE DEF At
  <2>1. IsFiniteSet(At(q, S))
    BY <1>4
  <2>2. QED
    BY <2>1, <1>5, <1>6, <1>7, HitsMoved
<1>9. QED
  BY <1>8 DEF Hits, RemoveAt, r, a, c

(* Each element of a finite set is once in the list of them.               *)
LEMMA HitsOnce ==
    ASSUME NEW T, IsFiniteSet(T), NEW S, NEW x \in T, T \cap S = {x}
    PROVE  Hits(SetToSeq(T), S) = 1
<1> DEFINE n == Cardinality(T)
           P(g) == g \in [1 .. n -> T] /\ IsInjective(g)
           f == SetToSeq(T)
<1>1. n \in Nat /\ ExistsBijection(1 .. n, T)
  BY FS_CardinalityType
<1>2. \E g : P(g)
  BY <1>1 DEF ExistsBijection, Bijection, Injection, IsInjective
<1>3. P(CHOOSE g : P(g))
  BY <1>2
<1>4. f \in [1 .. n -> T] /\ IsInjective(f)
  BY <1>3 DEF SetToSeq
<1> HIDE DEF f, n
<1>5. IsFiniteSet(1 .. n) /\ Cardinality(1 .. n) = n
  BY <1>1, FS_Interval
<1>6. f \in Surjection(1 .. n, T)
  <2>1. f \in Injection(1 .. n, T)
    BY <1>4 DEF Injection, IsInjective
  <2>2. QED
    BY <1>5, <2>1, FS_Injection DEF n
<1>7. PICK k \in 1 .. n : f[k] = x
  BY <1>6 DEF Surjection
<1>8. Len(f) = n
  BY <1>1, <1>4
<1>9. At(f, S) = {k}
  <2>1. ASSUME NEW m \in 1 .. n, f[m] \in S PROVE m = k
    <3>1. f[m] = x
      BY <1>4, <2>1
    <3>2. QED
      BY <1>4, <1>7, <3>1 DEF IsInjective
  <2>2. f[k] \in S
    BY <1>7
  <2>3. QED
    BY <1>8, <2>1, <2>2 DEF At
<1>10. QED
  BY <1>9, FS_Singleton DEF Hits, f

-----------------------------------------------------------------------------
(* Where the buffers of a stream are, from qbuf to dqbuf.                  *)

Stopping == HaltingFor("stop")

WithBuffer(s) == {x \in Runs : s \in x.left}

NumDevice(s)   == Hits(device.requests, WithBuffer(s))
NumAsked(s)    == Hits(mCaptureRequest, Has(s))
NumJob(s)      == Hits(privacy.job, Ids \X {s})
NumFrames(s)   == Len(mOutputFrames[s])
NumBlack(s)    == Len(mStreamQueueMap[s])
NumEvents(s)   == Hits(events, {Event("buffer", s)})
NumDequeued(s) == IF result.pc = "dequeued" /\ result.stream = s THEN 1 ELSE 0
NumCounted(s)  == IF mMutex.pc = "queue" /\ s \in Wanted(infos[mMutex.info].id) THEN 1 ELSE 0

NotBegun == ~mCameraStarted /\ mMutex.pc # "started"

(* A buffer is at one place, and only the source that is the current one   *)
(* has buffers; none is filled before the source is started.               *)
Ledger(s) ==
    /\ mRequestInProgress[s] = NumDevice(s) + NumAsked(s) + NumJob(s) + NumFrames(s) + NumBlack(s)
                               + NumDequeued(s) + NumCounted(s)
    /\ NumEvents(s) = NumFrames(s) + NumBlack(s)
    /\ mPrivacyStarted => NumDevice(s) = 0 /\ NumFrames(s) = 0
    /\ ~mPrivacyStarted => NumAsked(s) = 0 /\ NumJob(s) = 0 /\ NumBlack(s) = 0
    /\ NotBegun => NumBlack(s) = 0

LedgerInv == ~Stopping => \A s \in Streams : Ledger(s)

CountersInv ==
    /\ mRequestInProgress \in [Streams -> Int]
    /\ result.pc = "dequeued" => result.stream \in Streams

(* What waitAllRequestsDone has seen stays true until the source changes.  *)
QuietInv ==
    /\ capture.pc = "wait" =>
          /\ capture.stream \in Streams
          /\ \A s \in Streams : s < capture.stream => mRequestInProgress[s] = 0
    /\ capture.task = "switch" /\ capture.pc # "wait" =>
          \A s \in Streams : mRequestInProgress[s] = 0

(* waitFrame gives up, and a source ends its job, only where the code says.*)
EndsInv ==
    /\ device.exit => Stopping
    /\ privacy.job # <<>> => privacy.alive

BufferInv == CountersInv /\ LedgerInv /\ QuietInv /\ EndsInv

LEMMA NumTypes ==
    ASSUME Types, NEW s \in Streams
    PROVE  /\ NumDevice(s) \in Nat /\ NumAsked(s) \in Nat /\ NumJob(s) \in Nat
           /\ NumFrames(s) \in Nat /\ NumBlack(s) \in Nat /\ NumEvents(s) \in Nat
           /\ NumDequeued(s) \in {0, 1} /\ NumCounted(s) \in {0, 1}
<1>1. NumDevice(s) \in Nat /\ NumAsked(s) \in Nat
  <2>1. device.requests \in Seq(Runs) /\ mCaptureRequest \in Seq(Known)
    BY DEF Types, DeviceTypes, ListTypes
  <2>2. QED
    BY <2>1, HitsType DEF NumDevice, NumAsked
<1>2. NumJob(s) \in Nat /\ NumEvents(s) \in Nat
  <2>1. privacy.job \in Seq(Ids \X Streams) /\ events \in Seq(EventSet)
    BY DEF Types, BlackTypes, EventTypes
  <2>2. QED
    BY <2>1, HitsType DEF NumJob, NumEvents
<1>3. NumFrames(s) \in Nat /\ NumBlack(s) \in Nat
  BY LenProperties DEF Types, DeviceTypes, BlackTypes, NumFrames, NumBlack
<1>4. QED
  BY <1>1, <1>2, <1>3 DEF NumDequeued, NumCounted

(* What an action leaves alone counts the same.                            *)
LEMMA NumSame ==
    ASSUME NEW s
    PROVE  /\ UNCHANGED device => NumDevice(s)' = NumDevice(s)
           /\ UNCHANGED <<requests, mCaptureRequest>> => NumAsked(s)' = NumAsked(s)
           /\ UNCHANGED privacy => NumJob(s)' = NumJob(s)
           /\ UNCHANGED mOutputFrames => NumFrames(s)' = NumFrames(s)
           /\ UNCHANGED mStreamQueueMap => NumBlack(s)' = NumBlack(s)
           /\ UNCHANGED events => NumEvents(s)' = NumEvents(s)
           /\ UNCHANGED result => NumDequeued(s)' = NumDequeued(s)
           /\ result.pc # "dequeued" /\ result'.pc # "dequeued" => NumDequeued(s)' = NumDequeued(s)
           /\ UNCHANGED <<requests, mMutex, infos>> => NumCounted(s)' = NumCounted(s)
           /\ mMutex.pc # "queue" /\ mMutex'.pc # "queue" => NumCounted(s)' = NumCounted(s)
<1>1. UNCHANGED requests => Has(s)' = Has(s) /\ \A r : Wanted(r)' = Wanted(r)
  BY DEF Has, Wanted
<1>2. Event("buffer", s)' = Event("buffer", s)
  BY DEF Event
<1>3. WithBuffer(s)' = WithBuffer(s)
  BY DEF WithBuffer
<1>4. /\ UNCHANGED device => NumDevice(s)' = NumDevice(s)
      /\ UNCHANGED <<requests, mCaptureRequest>> => NumAsked(s)' = NumAsked(s)
      /\ UNCHANGED privacy => NumJob(s)' = NumJob(s)
      /\ UNCHANGED mOutputFrames => NumFrames(s)' = NumFrames(s)
      /\ UNCHANGED mStreamQueueMap => NumBlack(s)' = NumBlack(s)
      /\ UNCHANGED events => NumEvents(s)' = NumEvents(s)
  BY <1>1, <1>3 DEF NumDevice, NumAsked, NumJob, NumFrames, NumBlack, NumEvents
<1>5. /\ UNCHANGED result => NumDequeued(s)' = NumDequeued(s)
      /\ result.pc # "dequeued" /\ result'.pc # "dequeued" => NumDequeued(s)' = NumDequeued(s)
  BY DEF NumDequeued
<1>6. /\ UNCHANGED <<requests, mMutex, infos>> => NumCounted(s)' = NumCounted(s)
      /\ mMutex.pc # "queue" /\ mMutex'.pc # "queue" => NumCounted(s)' = NumCounted(s)
  BY <1>1 DEF NumCounted
<1>7. QED
  BY <1>4, <1>5, <1>6

(* A step that moves no buffer.                                            *)
LEMMA LedgerKept ==
    ASSUME NEW s, Ledger(s), UNCHANGED <<mRequestInProgress, mPrivacyStarted>>,
           NumDevice(s)' = NumDevice(s), NumAsked(s)' = NumAsked(s), NumJob(s)' = NumJob(s),
           NumFrames(s)' = NumFrames(s), NumBlack(s)' = NumBlack(s), NumEvents(s)' = NumEvents(s),
           NumDequeued(s)' = NumDequeued(s), NumCounted(s)' = NumCounted(s),
           NotBegun' => NotBegun \/ NumBlack(s) = 0
    PROVE  Ledger(s)'
BY DEF Ledger

LEMMA LedgerMade ==
    ASSUME NEW s,
           mRequestInProgress'[s]
            = NumDevice(s)' + NumAsked(s)' + NumJob(s)' + NumFrames(s)' + NumBlack(s)'
              + NumDequeued(s)' + NumCounted(s)',
           NumEvents(s)' = NumFrames(s)' + NumBlack(s)',
           mPrivacyStarted' => NumDevice(s)' = 0 /\ NumFrames(s)' = 0,
           ~mPrivacyStarted' => NumAsked(s)' = 0 /\ NumJob(s)' = 0 /\ NumBlack(s)' = 0,
           NotBegun' => NumBlack(s)' = 0
    PROVE  Ledger(s)'
BY DEF Ledger

LEMMA SumZero ==
    ASSUME NEW a \in Nat, NEW b \in Nat, NEW c \in Nat, NEW d \in Nat, NEW e \in Nat,
           NEW f \in Nat, NEW g \in Nat, NEW n, n = a + b + c + d + e + f + g
    PROVE  /\ n \in Nat
           /\ n = 0 => a = 0 /\ b = 0 /\ c = 0 /\ d = 0 /\ e = 0 /\ f = 0
OBVIOUS

(* A stream whose counter is zero has no buffer anywhere.                  *)
LEMMA LedgerZero ==
    ASSUME Types, NEW s \in Streams, Ledger(s)
    PROVE  /\ mRequestInProgress[s] \in Nat
           /\ mRequestInProgress[s] = 0 =>
                /\ NumDevice(s) = 0 /\ NumAsked(s) = 0 /\ NumJob(s) = 0
                /\ NumFrames(s) = 0 /\ NumBlack(s) = 0 /\ NumDequeued(s) = 0
<1>1. /\ NumDevice(s) \in Nat /\ NumAsked(s) \in Nat /\ NumJob(s) \in Nat
      /\ NumFrames(s) \in Nat /\ NumBlack(s) \in Nat
      /\ NumDequeued(s) \in {0, 1} /\ NumCounted(s) \in {0, 1}
  BY NumTypes
<1>2. mRequestInProgress[s]
        = NumDevice(s) + NumAsked(s) + NumJob(s) + NumFrames(s) + NumBlack(s)
          + NumDequeued(s) + NumCounted(s)
  BY DEF Ledger
<1>3. NumDequeued(s) \in Nat /\ NumCounted(s) \in Nat
  BY <1>1
<1>4. HIDE DEF NumDevice, NumAsked, NumJob, NumFrames, NumBlack, NumDequeued, NumCounted
<1>5. QED
  BY <1>1, <1>2, <1>3, SumZero

(* Once stop has begun nothing takes the capture thread back.              *)
LEMMA StoppingStays ==
    ASSUME Types, [Next]_vars, Stopping
    PROVE  Stopping'
<1>1. CaptureTypes
  BY DEF Types
<1>2. capture.task = "stop" \/ capture.pc = "closed"
  BY DEF Stopping, HaltingFor
<1>3. CASE ~CaptureActs
  <2>1. UNCHANGED capture \/ CaptureBack
    BY <1>3, OthersCapture
  <2>2. QED
    BY <1>2, <2>1 DEF CaptureBack, Stopping, HaltingFor
<1>4. CASE HandleNewRequest \/ WaitAllRequestsDone \/ ClearStarted \/ FlipPrivacy \/ PushRequest
           \/ Stop
  <2>1. capture.pc \in {"idle", "wait", "clear", "flip", "push"}
    BY <1>4 DEF HandleNewRequest, WaitAllRequestsDone, ClearStarted, FlipPrivacy, PushRequest, Stop
  <2>2. QED
    BY <1>1, <1>2, <2>1 DEF CaptureTypes
<1>5. CASE StopPrivacy \/ JoinPrivacy \/ ClearRequests \/ StopStream \/ DeviceConfigure
           \/ ExitThreads \/ JoinResult
  <2>1. capture'.task = capture.task
    BY <1>1, <1>5, CaptureSteps
  <2>2. capture.pc # "closed"
    BY <1>5 DEF StopPrivacy, JoinPrivacy, ClearRequests, StopStream, DeviceConfigure, ExitThreads,
                JoinResult
  <2>3. QED
    BY <1>2, <2>1, <2>2 DEF Stopping, HaltingFor
<1>6. QED
  BY <1>3, <1>4, <1>5 DEF CaptureActs

(* The capture thread has nothing in process while it is elsewhere.        *)
LEMMA FreeMutex ==
    ASSUME Types, CalmInv, capture.pc # "process"
    PROVE  ~Locked
BY DEF Types, CalmInv, HeldBy

-----------------------------------------------------------------------------
(* A new request wants its buffers, but has none yet.                      *)
LEMMA LedgerNewRequest ==
    ASSUME Types, HandleNewRequest, NEW s \in Streams, Ledger(s)
    PROVE  Ledger(s)'
<1>1. PICK w \in Wants : requests' = Append(requests, w)
  BY DEF HandleNewRequest
<1>2. requests \in Seq(Wants) /\ mCaptureRequest \in Seq(Known) /\ Len(requests) \in Nat
  BY LenProperties DEF Types, ListTypes
<1>3. /\ Len(requests') = Len(requests) + 1
      /\ \A r \in Known : requests'[r] = requests[r]
      /\ DOMAIN requests = Known /\ DOMAIN requests' = 1 .. Len(requests) + 1
  BY <1>1, <1>2, LenProperties, AppendProperties DEF Known
<1>4. \A r \in Known : (r \in Has(s)') <=> (r \in Has(s))
  BY <1>2, <1>3 DEF Has, Wanted, Known
<1>5. UNCHANGED <<handler, infos, sensor, black, events, result>>
  BY DEF HandleNewRequest
<1>6. NumAsked(s)' = NumAsked(s)
  <2>1. \A k \in 1 .. Len(mCaptureRequest) : mCaptureRequest[k] \in Known
    BY <1>2, ElementOfSeq
  <2>2. Hits(mCaptureRequest, Has(s)') = Hits(mCaptureRequest, Has(s))
    BY <1>4, <2>1, HitsSame
  <2>3. QED
    BY <1>5, <2>2 DEF NumAsked
<1>7. NumCounted(s)' = NumCounted(s)
  <2>1. CASE mMutex.pc = "queue"
    <3>1. infos[mMutex.info].id \in Known
      BY <2>1 DEF Types, MutexTypes, Locked
    <3>2. Wanted(infos[mMutex.info].id)' = Wanted(infos[mMutex.info].id)
      BY <1>3, <1>5, <3>1 DEF Wanted
    <3>3. QED
      BY <1>5, <3>2 DEF NumCounted
  <2>2. CASE mMutex.pc # "queue"
    BY <1>5, <2>2, NumSame
  <2>3. QED
    BY <2>1, <2>2
<1>8. /\ NumDevice(s)' = NumDevice(s) /\ NumJob(s)' = NumJob(s) /\ NumFrames(s)' = NumFrames(s)
      /\ NumBlack(s)' = NumBlack(s) /\ NumEvents(s)' = NumEvents(s)
      /\ NumDequeued(s)' = NumDequeued(s)
  BY <1>5, NumSame
<1>9. UNCHANGED NotBegun
  BY <1>5 DEF NotBegun
<1>10. QED
  BY <1>5, <1>6, <1>7, <1>8, <1>9, LedgerKept

(* Steps of the capture thread that touch neither source.                  *)
LEMMA LedgerCapture ==
    ASSUME Types, OffInv, NEW s \in Streams, Ledger(s), ~Stopping',
           capture.task = "switch" /\ capture.pc # "wait" => mRequestInProgress[s] = 0,
           \/ WaitAllRequestsDone \/ JoinPrivacy \/ ClearStarted \/ FlipPrivacy \/ PushRequest
           \/ Stop
    PROVE  Ledger(s)'
<1>1. UNCHANGED <<requests, mRequestInProgress, infos, sensor, black, events, result, mMutex>>
  BY DEF WaitAllRequestsDone, JoinPrivacy, ClearStarted, FlipPrivacy, PushRequest, Stop
<1>2. /\ NumDevice(s)' = NumDevice(s) /\ NumAsked(s)' = NumAsked(s) /\ NumJob(s)' = NumJob(s)
      /\ NumFrames(s)' = NumFrames(s) /\ NumBlack(s)' = NumBlack(s) /\ NumEvents(s)' = NumEvents(s)
      /\ NumDequeued(s)' = NumDequeued(s) /\ NumCounted(s)' = NumCounted(s)
  BY <1>1, NumSame
<1>3. CaptureTypes
  BY DEF Types
<1>4. CASE WaitAllRequestsDone \/ JoinPrivacy \/ PushRequest
  <2>1. UNCHANGED <<mCameraStarted, mPrivacyStarted>>
    BY <1>4 DEF WaitAllRequestsDone, JoinPrivacy, PushRequest
  <2>2. QED
    BY <1>1, <1>2, <2>1, LedgerKept DEF NotBegun
<1>5. CASE Stop
  <2>1. capture'.pc # "closed" /\ capture'.task # "stop"
    BY DEF Stopping, HaltingFor
  <2>2. QED
    BY <1>3, <1>5, <2>1, CaptureSteps
<1>6. CASE ClearStarted \/ FlipPrivacy
  <2>1. capture.task = "switch" /\ capture.pc # "wait"
    <3>1. capture.pc \in {"clear", "flip"}
      BY <1>6 DEF ClearStarted, FlipPrivacy
    <3>2. QED
      BY <1>3, <3>1 DEF CaptureTypes
  <2>2. mRequestInProgress[s] = 0
    BY <2>1
  <2>3. /\ NumDevice(s) = 0 /\ NumAsked(s) = 0 /\ NumJob(s) = 0
        /\ NumFrames(s) = 0 /\ NumBlack(s) = 0
    BY <2>2, LedgerZero
  <2>4. QED
    BY <1>1, <1>2, <2>3 DEF Ledger
<1>7. QED
  BY <1>4, <1>5, <1>6

(* Steps that take or give back a record, or look for one.                 *)
LEMMA LedgerRecords ==
    ASSUME Types, NEW s \in Streams, Ledger(s),
           \/ Enter("capture") \/ Enter("result") \/ PopPending \/ Recycle \/ CompleteRequest
    PROVE  Ledger(s)'
<1>1. CASE Recycle \/ CompleteRequest
  <2>1. /\ UNCHANGED <<requests, handler, infos, sensor, black, events>>
        /\ result.pc # "dequeued" /\ result'.pc # "dequeued"
    <3>1. CASE Recycle
      <4>1. UNCHANGED <<requests, handler, infos, sensor, black, events>> /\ result.pc = "done"
        BY <3>1 DEF Recycle
      <4>2. \/ result' = Resting
            \/ result' = [Resting EXCEPT !.pc = "complete", !.id = mProcessingRequests[result.id]]
        BY <3>1 DEF Recycle
      <4>3. Resting.pc = "idle" /\ [Resting EXCEPT !.pc = "complete"].pc = "complete"
        BY DEF Resting
      <4>4. result'.pc # "dequeued"
        BY <4>2, <4>3 DEF Resting
      <4>5. QED
        BY <4>1, <4>4
    <3>2. CASE CompleteRequest
      BY <3>2 DEF CompleteRequest, Resting
    <3>3. QED
      BY <1>1, <3>1, <3>2
  <2>2. /\ NumDevice(s)' = NumDevice(s) /\ NumAsked(s)' = NumAsked(s) /\ NumJob(s)' = NumJob(s)
        /\ NumFrames(s)' = NumFrames(s) /\ NumBlack(s)' = NumBlack(s)
        /\ NumEvents(s)' = NumEvents(s)
        /\ NumDequeued(s)' = NumDequeued(s) /\ NumCounted(s)' = NumCounted(s)
    BY <2>1, NumSame
  <2>3. QED
    BY <2>1, <2>2, LedgerKept DEF NotBegun
<1>2. CASE Enter("capture") \/ Enter("result")
  <2>1. /\ UNCHANGED <<requests, mRequestInProgress, mCameraStarted, mPrivacyStarted, sensor,
                       black, events>>
        /\ mMutex = Unlocked
    BY <1>2 DEF Enter, NothingToProcess, CreateInfo
  <2>2. mMutex'.pc \in {"none", "count"}
    BY <1>2, <2>1 DEF Enter, NothingToProcess, CreateInfo, Unlocked
  <2>3. mMutex.pc # "queue" /\ mMutex.pc # "started" /\ mMutex'.pc # "queue"
    BY <2>1, <2>2 DEF Unlocked
  <2>4. NumDequeued(s)' = NumDequeued(s)
    <3>1. UNCHANGED result \/ (result.pc = "process" /\ result' = Resting)
      BY <1>2 DEF Enter, NothingToProcess, CreateInfo, Return, Processing
    <3>2. QED
      BY <3>1, NumSame DEF Resting
  <2>5. /\ NumDevice(s)' = NumDevice(s) /\ NumAsked(s)' = NumAsked(s) /\ NumJob(s)' = NumJob(s)
        /\ NumFrames(s)' = NumFrames(s) /\ NumBlack(s)' = NumBlack(s)
        /\ NumEvents(s)' = NumEvents(s) /\ NumCounted(s)' = NumCounted(s)
    BY <2>1, <2>3, NumSame
  <2>6. QED
    BY <2>1, <2>3, <2>4, <2>5, LedgerKept DEF NotBegun
<1>3. CASE PopPending
  <2>1. /\ UNCHANGED <<requests, mRequestInProgress, mPrivacyStarted, sensor, black, events>>
        /\ mMutex.pc \in {"start", "started"} /\ mMutex'.pc = "none" /\ mCameraStarted' = TRUE
    BY <1>3 DEF PopPending, Unlocked
  <2>2. NumDequeued(s)' = NumDequeued(s)
    <3>1. Locked /\ HeldBy /\ mMutex.by \in {"capture", "result"}
      BY <2>1 DEF Types, MutexTypes, Locked
    <3>2. UNCHANGED result \/ (result.pc = "process" /\ result' = Resting)
      BY <1>3, <3>1 DEF PopPending, Return, HeldBy, Processing
    <3>3. QED
      BY <3>2, NumSame DEF Resting
  <2>3. /\ NumDevice(s)' = NumDevice(s) /\ NumAsked(s)' = NumAsked(s) /\ NumJob(s)' = NumJob(s)
        /\ NumFrames(s)' = NumFrames(s) /\ NumBlack(s)' = NumBlack(s)
        /\ NumEvents(s)' = NumEvents(s) /\ NumCounted(s)' = NumCounted(s)
    BY <2>1, NumSame
  <2>4. QED
    BY <2>1, <2>2, <2>3, LedgerKept DEF NotBegun
<1>4. QED
  BY <1>1, <1>2, <1>3

(* qbuf: counted, and then handed to the source.                           *)
LEMMA LedgerCount ==
    ASSUME Types, NEW s \in Streams, Ledger(s), CountersInv, CountBuffers
    PROVE  Ledger(s)'
<1>1. /\ UNCHANGED <<requests, infos, mPrivacyStarted, mCameraStarted, sensor, black, events, result>>
      /\ mRequestInProgress' = Counted(infos[mMutex.info].id)
      /\ mMutex.pc = "count" /\ mMutex'.pc = "queue" /\ mMutex'.info = mMutex.info
  BY MutexGoes DEF CountBuffers, Types
<1>2. /\ NumDevice(s)' = NumDevice(s) /\ NumAsked(s)' = NumAsked(s) /\ NumJob(s)' = NumJob(s)
      /\ NumFrames(s)' = NumFrames(s) /\ NumBlack(s)' = NumBlack(s) /\ NumEvents(s)' = NumEvents(s)
      /\ NumDequeued(s)' = NumDequeued(s)
  BY <1>1, NumSame
<1>3. NumCounted(s)' = NumCounted(s) + IF s \in Wanted(infos[mMutex.info].id) THEN 1 ELSE 0
  BY <1>1 DEF NumCounted, Wanted
<1>4. mRequestInProgress'[s] = mRequestInProgress[s]
                                + IF s \in Wanted(infos[mMutex.info].id) THEN 1 ELSE 0
  BY <1>1 DEF Counted
<1>5. /\ NumDevice(s) \in Nat /\ NumAsked(s) \in Nat /\ NumJob(s) \in Nat
      /\ NumFrames(s) \in Nat /\ NumBlack(s) \in Nat
      /\ NumDequeued(s) \in {0, 1} /\ NumCounted(s) \in {0, 1}
  BY NumTypes
<1>6. NotBegun' => NotBegun
  BY <1>1 DEF NotBegun
<1>7. QED
  BY <1>1, <1>2, <1>3, <1>4, <1>5, <1>6 DEF Ledger

LEMMA LedgerQueue ==
    ASSUME Types, NEW s \in Streams, Ledger(s), QueueBuffers
    PROVE  Ledger(s)'
<1> DEFINE r == infos[mMutex.info].id
           one == IF s \in Wanted(r) THEN 1 ELSE 0
<1>1. /\ UNCHANGED <<requests, infos, mRequestInProgress, mPrivacyStarted, mCameraStarted,
                     mOutputFrames, privacy, mStreamQueueMap, events, result>>
      /\ mMutex.pc = "queue" /\ mMutex'.pc = "start"
  BY MutexGoes DEF QueueBuffers, Types
<1>2. r \in Known /\ r \in Ids /\ Wanted(r) \in SUBSET Streams
  BY <1>1, KnownTyped DEF Types, MutexTypes, Locked
<1>3. /\ NumJob(s)' = NumJob(s) /\ NumFrames(s)' = NumFrames(s) /\ NumBlack(s)' = NumBlack(s)
      /\ NumEvents(s)' = NumEvents(s) /\ NumDequeued(s)' = NumDequeued(s)
  BY <1>1, NumSame
<1>4. NumCounted(s) = one /\ NumCounted(s)' = 0
  BY <1>1 DEF NumCounted
<1>5. /\ NumDevice(s) \in Nat /\ NumAsked(s) \in Nat /\ NumJob(s) \in Nat
      /\ NumFrames(s) \in Nat /\ NumBlack(s) \in Nat
      /\ NumDequeued(s) \in {0, 1}
  BY NumTypes
<1>6. NotBegun' => NotBegun
  BY <1>1 DEF NotBegun
<1>7. CASE mPrivacyStarted
  <2>1. mCaptureRequest' = Append(mCaptureRequest, r) /\ UNCHANGED device
    BY <1>7 DEF QueueBuffers
  <2>2. NumDevice(s)' = NumDevice(s)
    BY <2>1, NumSame
  <2>3. NumAsked(s)' = NumAsked(s) + one
    <3>1. mCaptureRequest \in Seq(Known)
      BY DEF Types, ListTypes
    <3>2. Has(s)' = Has(s)
      BY <1>1 DEF Has, Wanted
    <3>3. r \in Has(s) <=> s \in Wanted(r)
      <4>1. DOMAIN requests = Known
        BY LenProperties DEF Types, ListTypes, Known
      <4>2. QED
        BY <1>2, <4>1 DEF Has
    <3> HIDE DEF r
    <3>4. QED
      BY <2>1, <3>1, <3>2, <3>3, HitsAppend DEF NumAsked
  <2> HIDE DEF one
  <2>4. one \in {0, 1}
    BY DEF one
  <2>5. QED
    BY <1>1, <1>3, <1>4, <1>5, <1>6, <1>7, <2>2, <2>3, <2>4 DEF Ledger
<1>8. CASE ~mPrivacyStarted
  <2> DEFINE x == [id |-> r, at |-> "queued", left |-> Wanted(r)]
  <2>1. /\ device' = [device EXCEPT !.exit = FALSE, !.requests = Append(device.requests, x)]
        /\ UNCHANGED mCaptureRequest
    BY <1>8 DEF QueueBuffers
  <2>2. NumAsked(s)' = NumAsked(s)
    BY <1>1, <2>1, NumSame
  <2>3. NumDevice(s)' = NumDevice(s) + one
    <3>1. device.requests \in Seq(Runs) /\ device'.requests = Append(device.requests, x)
      BY <2>1 DEF Types, DeviceTypes
    <3>2. x \in Runs /\ x.left = Wanted(r)
      BY <1>2 DEF Runs
    <3>3. x \in WithBuffer(s) <=> s \in Wanted(r)
      BY <3>2 DEF WithBuffer
    <3>4. WithBuffer(s)' = WithBuffer(s)
      BY DEF WithBuffer
    <3> HIDE DEF x, r
    <3>5. QED
      BY <3>1, <3>3, <3>4, HitsAppend DEF NumDevice
  <2> HIDE DEF one
  <2>4. one \in {0, 1}
    BY DEF one
  <2>5. QED
    BY <1>1, <1>3, <1>4, <1>5, <1>6, <1>8, <2>2, <2>3, <2>4 DEF Ledger
<1>9. QED
  BY <1>7, <1>8

(* PrivacyControl::start empties queues that are empty.                    *)
LEMMA LedgerStart ==
    ASSUME Types, NEW s \in Streams, Ledger(s), StartSource
    PROVE  Ledger(s)'
<1>1. /\ UNCHANGED <<requests, infos, mRequestInProgress, mPrivacyStarted, mCameraStarted,
                     mOutputFrames, mCaptureRequest, events, result>>
      /\ mMutex.pc = "start" /\ mMutex'.pc = "started" /\ ~mCameraStarted
  BY MutexGoes DEF StartSource, Types
<1>2. /\ NumAsked(s)' = NumAsked(s) /\ NumFrames(s)' = NumFrames(s)
      /\ NumEvents(s)' = NumEvents(s) /\ NumDequeued(s)' = NumDequeued(s)
      /\ NumCounted(s)' = NumCounted(s)
  BY <1>1, NumSame
<1>3. NumDevice(s)' = NumDevice(s)
  <2>1. device'.requests = device.requests
    BY DEF StartSource, Types, DeviceTypes
  <2>2. QED
    BY <2>1 DEF NumDevice, WithBuffer
<1>4. NumJob(s)' = NumJob(s)
  <2>1. privacy'.job = privacy.job
    BY DEF StartSource, Types, BlackTypes
  <2>2. QED
    BY <2>1 DEF NumJob
<1>5. NumBlack(s) = 0
  BY <1>1 DEF Ledger, NotBegun
<1>6. NumBlack(s)' = 0
  <2>1. CASE mPrivacyStarted
    <3>1. mStreamQueueMap'[s] = <<>>
      BY <2>1 DEF StartSource
    <3>2. QED
      BY <3>1 DEF NumBlack
  <2>2. CASE ~mPrivacyStarted
    BY <1>5, <2>2, NumSame DEF StartSource
  <2>3. QED
    BY <2>1, <2>2
<1>7. QED
  BY <1>1, <1>2, <1>3, <1>4, <1>5, <1>6, LedgerKept

-----------------------------------------------------------------------------
(* Events that are no buffer events.                                       *)
LEMMA EventsSame ==
    ASSUME Types, NEW s \in Streams, NEW kind \in {"shutter", "metadata"}, NEW r,
           \/ Takes(kind) /\ events' = Tail(events)
           \/ events' = Append(events, Event(kind, r))
    PROVE  NumEvents(s)' = NumEvents(s)
<1>1. events \in Seq(EventSet)
  BY DEF Types, EventTypes
<1>2. CASE Takes(kind) /\ events' = Tail(events)
  <2>1. Head(events) \notin {Event("buffer", s)} /\ events # <<>>
    BY <1>2 DEF Takes, Event
  <2>2. Hits(Tail(events), {Event("buffer", s)}) \in Nat
    <3>1. Tail(events) \in Seq(EventSet)
      BY <1>1, <2>1, HeadTailProperties
    <3>2. QED
      BY <3>1, HitsType
  <2>3. Hits(events, {Event("buffer", s)}) = Hits(Tail(events), {Event("buffer", s)})
    BY <1>1, <2>1, <2>2, HitsTail
  <2>4. QED
    BY <1>2, <2>3 DEF NumEvents, Event
<1>3. CASE events' = Append(events, Event(kind, r))
  <2>1. Event(kind, r) \notin {Event("buffer", s)}
    BY DEF Event
  <2>2. Hits(Append(events, Event(kind, r)), {Event("buffer", s)}) = Hits(events, {Event("buffer", s)})
    <3>1. Hits(events, {Event("buffer", s)}) \in Nat
      BY <1>1, HitsType
    <3>2. QED
      BY <1>1, <2>1, <3>1, HitsAppend
  <2>3. QED
    BY <1>3, <2>2 DEF NumEvents, Event
<1>4. QED
  BY <1>2, <1>3

(* A buffer event of another stream, or of this one.                       *)
LEMMA EventsGo ==
    ASSUME Types, NEW s \in Streams, NEW x
    PROVE  /\ events' = Append(events, Event("buffer", x)) =>
                 NumEvents(s)' = NumEvents(s) + IF x = s THEN 1 ELSE 0
           /\ Takes("buffer") /\ events' = Tail(events) /\ x = Head(events).id =>
                 NumEvents(s) = NumEvents(s)' + IF x = s THEN 1 ELSE 0
<1>1. events \in Seq(EventSet)
  BY DEF Types, EventTypes
<1>2. Event("buffer", s)' = Event("buffer", s)
  BY DEF Event
<1>3. ASSUME events' = Append(events, Event("buffer", x))
      PROVE  NumEvents(s)' = NumEvents(s) + IF x = s THEN 1 ELSE 0
  <2>1. Event("buffer", x) \in {Event("buffer", s)} <=> x = s
    BY DEF Event
  <2>2. QED
    BY <1>1, <1>2, <1>3, <2>1, HitsAppend DEF NumEvents
<1>4. ASSUME Takes("buffer"), events' = Tail(events), x = Head(events).id
      PROVE  NumEvents(s) = NumEvents(s)' + IF x = s THEN 1 ELSE 0
  <2>1. events # <<>> /\ Head(events).kind = "buffer"
    BY <1>4 DEF Takes
  <2>2. Head(events) \in EventSet
    BY <1>1, <2>1, HeadTailProperties
  <2>3. Head(events) = Event("buffer", x)
    BY <1>4, <2>1, <2>2 DEF EventSet, TellSet, Event
  <2>4. Head(events) \in {Event("buffer", s)} <=> x = s
    BY <2>3 DEF Event
  <2>5. QED
    BY <1>1, <1>2, <1>4, <2>1, <2>4, HitsTail DEF NumEvents
<1>5. QED
  BY <1>3, <1>4

(* Events that are handled without a buffer, and the record of a buffer.   *)
LEMMA LedgerResult ==
    ASSUME Types, NEW s \in Streams, Ledger(s), ShutterReady \/ MetadataReady \/ CompleteBuffer
    PROVE  Ledger(s)'
<1>1. /\ UNCHANGED <<requests, handler, sensor, black>>
      /\ UNCHANGED <<mAvailableRequestBuffers, mProcessingRequests>>
  BY DEF ShutterReady, MetadataReady, CompleteBuffer
<1>2. \A i \in Infos : infos'[i].id = infos[i].id
  <2>0. \A r \in Ids : mProcessingRequests[r] # None => mProcessingRequests[r] \in Infos
    BY DEF Types, PoolTypes
  <2>1. CASE ShutterReady
    <3>1. Head(events).id \in Ids
      BY <2>1, EventTyped DEF ShutterReady
    <3>2. \/ UNCHANGED infos
          \/ \E i \in Infos : infos' = [infos EXCEPT ![i].shutter = TRUE]
      BY <2>0, <2>1, <3>1 DEF ShutterReady
    <3>3. QED
      BY <1>1, <3>2, RecordKept
  <2>2. CASE MetadataReady
    <3>1. Head(events).id \in Ids
      BY <2>2, EventTyped DEF MetadataReady
    <3>2. \/ UNCHANGED infos
          \/ \E i \in Infos : infos' = [infos EXCEPT ![i].meta = TRUE]
      BY <2>0, <2>2, <3>1 DEF MetadataReady
    <3>3. QED
      BY <1>1, <3>2, RecordKept
  <2>3. CASE CompleteBuffer
    <3>1. result.id \in Ids
      BY <2>3 DEF CompleteBuffer, Types, ResultTypes
    <3> DEFINE i == mProcessingRequests[result.id]
    <3>2. \/ UNCHANGED infos
          \/ /\ i # None /\ result.stream \in infos[i].out
             /\ infos' = [infos EXCEPT ![i].out = @ \ {result.stream}]
      BY <2>3 DEF CompleteBuffer
    <3>3. i # None => i \in Infos /\ infos[i].out \in SUBSET Streams
      BY <2>0, <3>1 DEF Types, PoolTypes
    <3> HIDE DEF i
    <3>4. QED
      BY <1>1, <3>2, <3>3, RecordKept
  <2>4. QED
    BY <2>1, <2>2, <2>3
<1>3. NumCounted(s)' = NumCounted(s)
  <2>1. CASE mMutex.pc = "queue"
    <3>1. mMutex.info \in Infos
      BY <2>1 DEF Types, MutexTypes, Locked
    <3>2. QED
      BY <1>1, <1>2, <3>1 DEF NumCounted, Wanted
  <2>2. CASE mMutex.pc # "queue"
    BY <1>1, <2>2, NumSame
  <2>3. QED
    BY <2>1, <2>2
<1>4. NumEvents(s)' = NumEvents(s) /\ result.pc # "dequeued" /\ result'.pc # "dequeued"
  <2>1. CASE ShutterReady
    BY <2>1, EventsSame DEF ShutterReady, Takes
  <2>2. CASE MetadataReady
    <3>1. NumEvents(s)' = NumEvents(s)
      BY <2>2, EventsSame DEF MetadataReady
    <3>2. result.pc = "idle" /\ result' = [Resting EXCEPT !.pc = "done", !.id = Head(events).id]
      BY <2>2 DEF MetadataReady, Takes
    <3>3. result'.pc # "dequeued"
      BY <3>2 DEF Resting
    <3>4. QED
      BY <3>1, <3>2, <3>3
  <2>3. CASE CompleteBuffer
    <3>1. result.pc = "buffer" /\ UNCHANGED events
      BY <2>3 DEF CompleteBuffer
    <3>2. result' = [result EXCEPT !.pc = "done"] \/ result' = Resting
      BY <2>3 DEF CompleteBuffer
    <3>3. result'.pc # "dequeued"
      BY <3>2, ResultGoes DEF Resting, Types
    <3>4. QED
      BY <3>1, <3>3, NumSame
  <2>4. QED
    BY <2>1, <2>2, <2>3
<1>5. /\ NumDevice(s)' = NumDevice(s) /\ NumAsked(s)' = NumAsked(s) /\ NumJob(s)' = NumJob(s)
      /\ NumFrames(s)' = NumFrames(s) /\ NumBlack(s)' = NumBlack(s)
      /\ NumDequeued(s)' = NumDequeued(s)
  BY <1>1, <1>4, NumSame
<1>6. QED
  BY <1>1, <1>3, <1>4, <1>5, LedgerKept DEF NotBegun

(* dqbuf takes a frame of the current source, and there is one.            *)
LEMMA LedgerDequeuePrivacy ==
    ASSUME Types, NEW s \in Streams, \A x \in Streams : Ledger(x), DequeuePrivacy
    PROVE  Ledger(s)'
<1>a. PICK x \in Streams : x = Head(events).id
  BY EventTyped DEF DequeuePrivacy
<1> DEFINE one == IF x = s THEN 1 ELSE 0
<1>1. /\ UNCHANGED <<requests, handler, infos, sensor, privacy, mCaptureRequest>>
      /\ Takes("buffer") /\ mPrivacyStarted /\ events' = Tail(events)
      /\ mStreamQueueMap' = [mStreamQueueMap EXCEPT ![x] =
            IF mStreamQueueMap[x] = <<>> THEN mStreamQueueMap[x] ELSE Tail(mStreamQueueMap[x])]
      /\ result.pc = "idle" /\ result'.pc = "dequeued" /\ result'.stream = x
  BY <1>a DEF DequeuePrivacy, Takes
<1>3. /\ NumDevice(s) \in Nat /\ NumAsked(s) \in Nat /\ NumJob(s) \in Nat
      /\ NumFrames(s) \in Nat /\ NumBlack(s) \in Nat /\ NumEvents(s) \in Nat
      /\ NumCounted(s) \in {0, 1} /\ NumEvents(x) \in Nat /\ NumBlack(x) \in Nat
  BY NumTypes
<1>4. /\ NumDevice(s)' = NumDevice(s) /\ NumAsked(s)' = NumAsked(s) /\ NumJob(s)' = NumJob(s)
      /\ NumFrames(s)' = NumFrames(s) /\ NumCounted(s)' = NumCounted(s)
  BY <1>1, NumSame
<1>5. NumDequeued(s) = 0 /\ NumDequeued(s)' = one
  BY <1>1 DEF NumDequeued
<1>6. NumEvents(s) = NumEvents(s)' + one
  BY <1>1, <1>a, EventsGo
<1>7. mStreamQueueMap[x] # <<>>
  <2>1. NumEvents(x) = NumEvents(x)' + 1
    BY <1>1, <1>a, EventsGo
  <2>2. NumEvents(x)' \in Nat
    <3>1. Tail(events) \in Seq(EventSet)
      BY <1>1, EventTyped
    <3>2. QED
      BY <1>1, <3>1, HitsType DEF NumEvents
  <2>3. NumEvents(x) = NumFrames(x) + NumBlack(x) /\ NumFrames(x) = 0
    BY <1>1 DEF Ledger
  <2>4. NumBlack(x) # 0
    BY <1>3, <2>1, <2>2, <2>3
  <2>5. QED
    BY <2>4 DEF NumBlack
<1>8. NumBlack(s) = NumBlack(s)' + one
  <2>1. mStreamQueueMap \in [Streams -> Seq(Ids)]
    BY DEF Types, BlackTypes
  <2>2. CASE x = s
    <3>1. mStreamQueueMap'[s] = Tail(mStreamQueueMap[s])
      BY <1>1, <1>7, <2>1, <2>2
    <3>2. Len(mStreamQueueMap[s]) \in Nat /\ Len(Tail(mStreamQueueMap[s])) = Len(mStreamQueueMap[s]) - 1
      BY <1>7, <2>1, <2>2, LenProperties, HeadTailProperties
    <3>3. QED
      BY <2>2, <3>1, <3>2 DEF NumBlack
  <2>3. CASE x # s
    <3>1. mStreamQueueMap'[s] = mStreamQueueMap[s]
      BY <1>1, <2>1, <2>3
    <3>2. QED
      BY <1>3, <2>3, <3>1 DEF NumBlack
  <2>4. QED
    BY <2>2, <2>3
<1>9. one \in {0, 1} /\ NumBlack(s)' \in Nat
  BY <1>3, <1>8, LenProperties DEF NumBlack
<1>10. /\ UNCHANGED <<mRequestInProgress, mPrivacyStarted>> /\ (NotBegun' <=> NotBegun)
       /\ mPrivacyStarted
  BY <1>1 DEF NotBegun
<1> HIDE DEF one
<1>11. NumEvents(s)' \in Nat
  <2>1. Tail(events) \in Seq(EventSet)
    BY <1>1, EventTyped
  <2>2. QED
    BY <1>1, <2>1, HitsType DEF NumEvents
<1>12. Ledger(s)
  OBVIOUS
<1>13. NumEvents(s)' = NumFrames(s)' + NumBlack(s)'
  <2>1. NumEvents(s) = NumFrames(s) + NumBlack(s)
    BY <1>12 DEF Ledger
  <2>2. QED
    BY <2>1, <1>3, <1>4, <1>6, <1>8, <1>9, <1>11
<1>14. mRequestInProgress'[s]
        = NumDevice(s)' + NumAsked(s)' + NumJob(s)' + NumFrames(s)' + NumBlack(s)'
          + NumDequeued(s)' + NumCounted(s)'
  <2>1. mRequestInProgress[s]
        = NumDevice(s) + NumAsked(s) + NumJob(s) + NumFrames(s) + NumBlack(s)
          + NumDequeued(s) + NumCounted(s)
    BY <1>12 DEF Ledger
  <2>2. QED
    BY <2>1, <1>3, <1>4, <1>5, <1>8, <1>9, <1>10
<1>15. NumDevice(s) = 0 /\ NumFrames(s) = 0 /\ (NotBegun => NumBlack(s) = 0)
  BY <1>10, <1>12 DEF Ledger
<1>16. QED
  <2>1. NotBegun' => NumBlack(s)' = 0
    BY <1>3, <1>8, <1>9, <1>10, <1>15
  <2>2. QED
    BY <2>1, <1>4, <1>10, <1>13, <1>14, <1>15, LedgerMade

-----------------------------------------------------------------------------
LEMMA LedgerDequeueDevice ==
    ASSUME Types, NEW s \in Streams, \A x \in Streams : Ledger(x), ~device.exit, DequeueDevice
    PROVE  Ledger(s)'
<1>a. PICK x \in Streams : x = Head(events).id
  BY EventTyped DEF DequeueDevice
<1> DEFINE one == IF x = s THEN 1 ELSE 0
<1>1. /\ UNCHANGED <<requests, handler, infos, device, black>>
      /\ Takes("buffer") /\ ~mPrivacyStarted /\ events' = Tail(events)
      /\ mOutputFrames[x] # <<>>
      /\ mOutputFrames' = [mOutputFrames EXCEPT ![x] = Tail(mOutputFrames[x])]
      /\ result.pc = "idle" /\ result'.pc = "dequeued" /\ result'.stream = x
  BY <1>a DEF DequeueDevice, Takes
<1>3. /\ NumDevice(s) \in Nat /\ NumAsked(s) \in Nat /\ NumJob(s) \in Nat
      /\ NumFrames(s) \in Nat /\ NumBlack(s) \in Nat /\ NumEvents(s) \in Nat
      /\ NumCounted(s) \in {0, 1}
  BY NumTypes
<1>4. /\ NumDevice(s)' = NumDevice(s) /\ NumAsked(s)' = NumAsked(s) /\ NumJob(s)' = NumJob(s)
      /\ NumBlack(s)' = NumBlack(s) /\ NumCounted(s)' = NumCounted(s)
  BY <1>1, NumSame
<1>5. NumDequeued(s) = 0 /\ NumDequeued(s)' = one
  BY <1>1 DEF NumDequeued
<1>6. NumEvents(s) = NumEvents(s)' + one
  BY <1>1, <1>a, EventsGo
<1>8. NumFrames(s) = NumFrames(s)' + one
  <2>1. mOutputFrames \in [Streams -> Seq(Ids)]
    BY DEF Types, DeviceTypes
  <2>2. CASE x = s
    <3>1. mOutputFrames'[s] = Tail(mOutputFrames[s])
      BY <1>1, <2>1, <2>2
    <3>2. Len(mOutputFrames[s]) \in Nat /\ Len(Tail(mOutputFrames[s])) = Len(mOutputFrames[s]) - 1
      BY <1>1, <2>1, <2>2, LenProperties, HeadTailProperties
    <3>3. QED
      BY <2>2, <3>1, <3>2 DEF NumFrames
  <2>3. CASE x # s
    <3>1. mOutputFrames'[s] = mOutputFrames[s]
      BY <1>1, <2>1, <2>3
    <3>2. QED
      BY <1>3, <2>3, <3>1 DEF NumFrames
  <2>4. QED
    BY <2>2, <2>3
<1>9. one \in {0, 1} /\ NumFrames(s)' \in Nat
  BY <1>3, <1>8, LenProperties DEF NumFrames
<1>10. UNCHANGED <<mRequestInProgress, mPrivacyStarted>> /\ (NotBegun' <=> NotBegun)
  BY <1>1 DEF NotBegun
<1> HIDE DEF one
<1>11. NumEvents(s)' \in Nat
  <2>1. Tail(events) \in Seq(EventSet)
    BY <1>1, EventTyped
  <2>2. QED
    BY <1>1, <2>1, HitsType DEF NumEvents
<1>12. Ledger(s)
  OBVIOUS
<1>13. NumEvents(s)' = NumFrames(s)' + NumBlack(s)'
  <2>1. NumEvents(s) = NumFrames(s) + NumBlack(s)
    BY <1>12 DEF Ledger
  <2>2. QED
    BY <2>1, <1>3, <1>4, <1>6, <1>8, <1>9, <1>11
<1>14. mRequestInProgress'[s]
        = NumDevice(s)' + NumAsked(s)' + NumJob(s)' + NumFrames(s)' + NumBlack(s)'
          + NumDequeued(s)' + NumCounted(s)'
  <2>1. mRequestInProgress[s]
        = NumDevice(s) + NumAsked(s) + NumJob(s) + NumFrames(s) + NumBlack(s)
          + NumDequeued(s) + NumCounted(s)
    BY <1>12 DEF Ledger
  <2>2. QED
    BY <2>1, <1>3, <1>4, <1>5, <1>8, <1>9, <1>10
<1>15. NumAsked(s) = 0 /\ NumJob(s) = 0 /\ NumBlack(s) = 0
  BY <1>1, <1>12 DEF Ledger
<1>16. QED
  BY <1>1, <1>4, <1>10, <1>13, <1>14, <1>15, LedgerMade

(* The counter follows the buffer that was taken.                          *)
LEMMA LedgerDequeued ==
    ASSUME Types, NEW s \in Streams, Ledger(s), CountersInv, Dequeued
    PROVE  Ledger(s)'
<1> DEFINE one == IF result.stream = s THEN 1 ELSE 0
<1>1. /\ UNCHANGED <<requests, infos, mPrivacyStarted, mCameraStarted, mMutex, sensor, black, events>>
      /\ mRequestInProgress' = [mRequestInProgress EXCEPT ![result.stream] = @ - 1]
      /\ result.pc = "dequeued"
      /\ result' = Resting \/ result' = [result EXCEPT !.pc = "buffer"]
  BY DEF Dequeued
<1>2. result'.pc # "dequeued"
  BY <1>1, ResultGoes DEF Resting, Types
<1>3. NumDequeued(s)' = 0 /\ NumDequeued(s) = one
  BY <1>1, <1>2 DEF NumDequeued
<1>4. /\ NumDevice(s)' = NumDevice(s) /\ NumAsked(s)' = NumAsked(s) /\ NumJob(s)' = NumJob(s)
      /\ NumFrames(s)' = NumFrames(s) /\ NumBlack(s)' = NumBlack(s) /\ NumEvents(s)' = NumEvents(s)
      /\ NumCounted(s)' = NumCounted(s)
  BY <1>1, NumSame
<1>5. mRequestInProgress'[s] = mRequestInProgress[s] - one
  <2>1. mRequestInProgress \in [Streams -> Int] /\ result.stream \in Streams
    BY <1>1 DEF CountersInv
  <2>2. QED
    BY <1>1, <2>1
<1>6. one \in {0, 1}
  OBVIOUS
<1> HIDE DEF one
<1>7. /\ NumDevice(s) \in Nat /\ NumAsked(s) \in Nat /\ NumJob(s) \in Nat
      /\ NumFrames(s) \in Nat /\ NumBlack(s) \in Nat /\ NumEvents(s) \in Nat
      /\ NumCounted(s) \in {0, 1}
  BY NumTypes
<1>8. mRequestInProgress'[s]
        = NumDevice(s)' + NumAsked(s)' + NumJob(s)' + NumFrames(s)' + NumBlack(s)'
          + NumDequeued(s)' + NumCounted(s)'
  <2>1. mRequestInProgress[s]
        = NumDevice(s) + NumAsked(s) + NumJob(s) + NumFrames(s) + NumBlack(s)
          + NumDequeued(s) + NumCounted(s)
    BY DEF Ledger
  <2>2. QED
    BY <2>1, <1>3, <1>4, <1>5, <1>6, <1>7
<1>9. UNCHANGED mPrivacyStarted /\ (NotBegun' <=> NotBegun)
  BY <1>1 DEF NotBegun
<1>10. QED
  BY <1>4, <1>8, <1>9, LedgerMade DEF Ledger

-----------------------------------------------------------------------------
(* The device.                                                             *)

(* A request that leaves the list has no buffer in it any more.            *)
LEMMA RunningHits ==
    ASSUME NEW rs \in Seq(Runs), NEW j \in DOMAIN rs, NEW s
    PROVE  Hits(Running(rs, j), WithBuffer(s)) = Hits(rs, WithBuffer(s))
<1>1. j \in 1 .. Len(rs)
  BY LenProperties
<1>2. CASE rs[j].at = "told" /\ rs[j].left = {}
  <2>1. rs[j] \notin WithBuffer(s)
    BY <1>2 DEF WithBuffer
  <2>2. QED
    BY <1>1, <1>2, <2>1, HitsRemoveAt DEF Running
<1>3. CASE ~(rs[j].at = "told" /\ rs[j].left = {})
  BY <1>3 DEF Running
<1>4. QED
  BY <1>2, <1>3

(* A request of the device goes on, with its buffers but those of one      *)
(* stream perhaps.                                                         *)
LEMMA RunHits ==
    ASSUME Types, NEW j \in DOMAIN device.requests, NEW x \in Runs, NEW s
    PROVE  /\ [device.requests EXCEPT ![j] = x] \in Seq(Runs)
           /\ j \in DOMAIN [device.requests EXCEPT ![j] = x]
           /\ Hits([device.requests EXCEPT ![j] = x], WithBuffer(s))
                = NumDevice(s) - (IF s \in device.requests[j].left THEN 1 ELSE 0)
                  + (IF s \in x.left THEN 1 ELSE 0)
<1>1. device.requests \in Seq(Runs)
  BY DEF Types, DeviceTypes
<1>2. j \in 1 .. Len(device.requests) /\ device.requests[j] \in Runs
  BY <1>1, LenProperties, ElementOfSeq
<1>3. /\ x \in WithBuffer(s) <=> s \in x.left
      /\ device.requests[j] \in WithBuffer(s) <=> s \in device.requests[j].left
  BY <1>2 DEF WithBuffer
<1>4. /\ [device.requests EXCEPT ![j] = x] \in Seq(Runs)
      /\ j \in DOMAIN [device.requests EXCEPT ![j] = x]
  BY <1>1, <1>2
<1>5. Hits([device.requests EXCEPT ![j] = x], WithBuffer(s))
        = Hits(device.requests, WithBuffer(s))
          - (IF device.requests[j] \in WithBuffer(s) THEN 1 ELSE 0)
          + (IF x \in WithBuffer(s) THEN 1 ELSE 0)
  BY <1>1, <1>2, HitsReplace
<1>6. QED
  BY <1>3, <1>4, <1>5 DEF NumDevice

LEMMA LedgerDevice ==
    ASSUME Types, NEW s \in Streams, Ledger(s), DispatchTask \/ SendMetadata
    PROVE  Ledger(s)'
<1>1. UNCHANGED <<requests, handler, infos, result, mOutputFrames, black>>
  BY DEF DispatchTask, SendMetadata
<1>2. NumDevice(s) \in Nat /\ device.requests \in Seq(Runs)
      /\ device \in [on : BOOLEAN, exit : BOOLEAN, bound : BOOLEAN, requests : Seq(Runs)]
  BY NumTypes DEF Types, DeviceTypes
<1>3. NumDevice(s)' = NumDevice(s) /\ NumEvents(s)' = NumEvents(s)
  <2>1. CASE DispatchTask
    <3>1. PICK j \in DOMAIN device.requests :
            /\ device' = [device EXCEPT !.requests[j].at = "dispatched"]
            /\ events' = Notify(Event("shutter", device.requests[j].id))
      BY <2>1 DEF DispatchTask
    <3> DEFINE x == [device.requests[j] EXCEPT !.at = "dispatched"]
    <3>2. device.requests[j] \in Runs
      BY <1>2, LenProperties, ElementOfSeq
    <3>3. x \in Runs /\ x.left = device.requests[j].left
      BY <3>2 DEF Runs
    <3>4. device'.requests = [device.requests EXCEPT ![j] = x]
      BY <1>2, <3>1
    <3> HIDE DEF x
    <3>5. NumDevice(s)' = NumDevice(s)
      <4>1. Hits([device.requests EXCEPT ![j] = x], WithBuffer(s)) = NumDevice(s)
        BY <1>2, <3>3, RunHits
      <4>2. QED
        BY <3>4, <4>1 DEF NumDevice, WithBuffer
    <3>6. QED
      BY <3>1, <3>5, EventsSame, NumSame DEF Notify
  <2>2. CASE SendMetadata
    <3>1. PICK j \in DOMAIN device.requests :
            /\ device' = [device EXCEPT !.requests = Running([@ EXCEPT ![j].at = "told"], j)]
            /\ events' = Notify(Event("metadata", device.requests[j].id))
      BY <2>2 DEF SendMetadata
    <3> DEFINE x == [device.requests[j] EXCEPT !.at = "told"]
    <3>2. device.requests[j] \in Runs
      BY <1>2, LenProperties, ElementOfSeq
    <3>3. x \in Runs /\ x.left = device.requests[j].left
      BY <3>2 DEF Runs
    <3>4. device'.requests = Running([device.requests EXCEPT ![j] = x], j)
      BY <1>2, <3>1
    <3> HIDE DEF x
    <3>5. NumDevice(s)' = NumDevice(s)
      <4>1. Hits([device.requests EXCEPT ![j] = x], WithBuffer(s)) = NumDevice(s)
        BY <1>2, <3>3, RunHits
      <4>2. Hits(Running([device.requests EXCEPT ![j] = x], j), WithBuffer(s)) = NumDevice(s)
        BY <3>3, <4>1, RunHits, RunningHits
      <4>3. QED
        BY <3>4, <4>2 DEF NumDevice, WithBuffer
    <3>6. QED
      BY <3>1, <3>5, EventsSame, NumSame DEF Notify
  <2>3. QED
    BY <2>1, <2>2
<1>4. /\ NumAsked(s)' = NumAsked(s) /\ NumJob(s)' = NumJob(s) /\ NumFrames(s)' = NumFrames(s)
      /\ NumBlack(s)' = NumBlack(s) /\ NumDequeued(s)' = NumDequeued(s)
      /\ NumCounted(s)' = NumCounted(s)
  BY <1>1, NumSame
<1>5. QED
  BY <1>1, <1>3, <1>4, LedgerKept DEF NotBegun

(* A frame moves from the request to the queue of its stream.              *)
LEMMA LedgerFrame ==
    ASSUME Types, NEW s \in Streams, \A y \in Streams : Ledger(y), FrameAvailable
    PROVE  Ledger(s)'
<1>1. UNCHANGED <<requests, handler, infos, result, black>>
  BY DEF FrameAvailable
<1>2. /\ NumDevice(s) \in Nat /\ NumAsked(s) \in Nat /\ NumJob(s) \in Nat
      /\ NumFrames(s) \in Nat /\ NumBlack(s) \in Nat /\ NumEvents(s) \in Nat
      /\ NumDequeued(s) \in {0, 1} /\ NumCounted(s) \in {0, 1}
      /\ device.requests \in Seq(Runs)
      /\ device \in [on : BOOLEAN, exit : BOOLEAN, bound : BOOLEAN, requests : Seq(Runs)]
  BY NumTypes DEF Types, DeviceTypes
<1>a. PICK j \in DOMAIN device.requests : \E t \in device.requests[j].left :
        /\ device' = [device EXCEPT !.requests =
             Running([device.requests EXCEPT ![j].left = @ \ {t}], j)]
        /\ mOutputFrames' = [mOutputFrames EXCEPT ![t] = Append(@, device.requests[j].id)]
        /\ events' = Append(events, Event("buffer", t))
  BY DEF FrameAvailable
<1>3. PICK t \in device.requests[j].left :
        /\ device' = [device EXCEPT !.requests =
             Running([device.requests EXCEPT ![j].left = @ \ {t}], j)]
        /\ mOutputFrames' = [mOutputFrames EXCEPT ![t] = Append(@, device.requests[j].id)]
        /\ events' = Append(events, Event("buffer", t))
  BY <1>a
<1> DEFINE x == [device.requests[j] EXCEPT !.left = @ \ {t}]
           one == IF t = s THEN 1 ELSE 0
<1>4. device.requests[j] \in Runs
  BY <1>2, LenProperties, ElementOfSeq
<1>5. x \in Runs /\ x.left = device.requests[j].left \ {t} /\ t \in Streams
  BY <1>4 DEF Runs
<1>6. device'.requests = Running([device.requests EXCEPT ![j] = x], j)
  BY <1>2, <1>3
<1> HIDE DEF x
<1>7. NumDevice(s)' = NumDevice(s) - one
  <2>1. /\ Hits([device.requests EXCEPT ![j] = x], WithBuffer(s))
           = NumDevice(s) - (IF s \in device.requests[j].left THEN 1 ELSE 0)
              + (IF s \in x.left THEN 1 ELSE 0)
    BY <1>5, RunHits
  <2>2. Hits([device.requests EXCEPT ![j] = x], WithBuffer(s)) = NumDevice(s) - one
    BY <1>2, <1>5, <2>1
  <2>3. Hits(Running([device.requests EXCEPT ![j] = x], j), WithBuffer(s)) = NumDevice(s) - one
    BY <1>5, <2>2, RunHits, RunningHits
  <2>4. QED
    BY <1>6, <2>3 DEF NumDevice, WithBuffer
<1>8. NumFrames(s)' = NumFrames(s) + one
  <2>1. mOutputFrames \in [Streams -> Seq(Ids)] /\ device.requests[j].id \in Ids
    BY <1>4 DEF Types, DeviceTypes, Runs
  <2>2. CASE t = s
    <3>1. mOutputFrames'[s] = Append(mOutputFrames[s], device.requests[j].id)
      BY <1>3, <2>1, <2>2
    <3>2. Len(mOutputFrames'[s]) = Len(mOutputFrames[s]) + 1
      BY <2>1, <3>1, AppendProperties
    <3>3. QED
      BY <2>2, <3>2 DEF NumFrames
  <2>3. CASE t # s
    <3>1. mOutputFrames'[s] = mOutputFrames[s]
      BY <1>3, <2>1, <2>3
    <3>2. QED
      BY <1>2, <2>3, <3>1 DEF NumFrames
  <2>4. QED
    BY <2>2, <2>3
<1>9. NumEvents(s)' = NumEvents(s) + one
  BY <1>3, EventsGo
<1>10. /\ NumAsked(s)' = NumAsked(s) /\ NumJob(s)' = NumJob(s) /\ NumBlack(s)' = NumBlack(s)
       /\ NumDequeued(s)' = NumDequeued(s) /\ NumCounted(s)' = NumCounted(s)
  BY <1>1, NumSame
<1>11. ~mPrivacyStarted
  <2>1. NumDevice(t) # 0
    <3>1. j \in 1 .. Len(device.requests) /\ device.requests[j] \in WithBuffer(t)
      BY <1>2, <1>4, LenProperties DEF WithBuffer
    <3>2. QED
      BY <1>2, <3>1, HitsNone DEF NumDevice
  <2>2. QED
    BY <1>5, <2>1 DEF Ledger
<1>12. one \in {0, 1}
  OBVIOUS
<1> HIDE DEF one
<1>13. Ledger(s)
  OBVIOUS
<1>14. NumEvents(s)' = NumFrames(s)' + NumBlack(s)'
  <2>1. NumEvents(s) = NumFrames(s) + NumBlack(s)
    BY <1>13 DEF Ledger
  <2>2. QED
    BY <2>1, <1>2, <1>8, <1>9, <1>10, <1>12
<1>15. mRequestInProgress'[s]
        = NumDevice(s)' + NumAsked(s)' + NumJob(s)' + NumFrames(s)' + NumBlack(s)'
          + NumDequeued(s)' + NumCounted(s)'
  <2>1. mRequestInProgress[s]
        = NumDevice(s) + NumAsked(s) + NumJob(s) + NumFrames(s) + NumBlack(s)
          + NumDequeued(s) + NumCounted(s)
    BY <1>13 DEF Ledger
  <2>2. UNCHANGED mRequestInProgress
    BY <1>1
  <2>3. QED
    BY <2>1, <2>2, <1>2, <1>7, <1>8, <1>10, <1>12
<1>16. NumAsked(s) = 0 /\ NumJob(s) = 0 /\ NumBlack(s) = 0
  BY <1>11, <1>13 DEF Ledger
<1>17. UNCHANGED mPrivacyStarted
  BY <1>1
<1>18. QED
  BY <1>10, <1>11, <1>14, <1>15, <1>16, <1>17, LedgerMade

-----------------------------------------------------------------------------
(* The thread of PrivacyControl.                                           *)

LEMMA LedgerTake ==
    ASSUME Types, NEW s \in Streams, \A y \in Streams : Ledger(y), TakeCaptureRequest
    PROVE  Ledger(s)'
<1>1. UNCHANGED <<requests, handler, infos, result, sensor, mStreamQueueMap, events>>
      /\ privacy.job = <<>>
  BY DEF TakeCaptureRequest
<1>2. /\ NumDevice(s) \in Nat /\ NumAsked(s) \in Nat /\ NumJob(s) \in Nat
      /\ NumFrames(s) \in Nat /\ NumBlack(s) \in Nat /\ NumEvents(s) \in Nat
      /\ NumDequeued(s) \in {0, 1} /\ NumCounted(s) \in {0, 1}
      /\ mCaptureRequest \in Seq(Known)
      /\ privacy \in [running : BOOLEAN, alive : BOOLEAN, tell : Seq(TellSet),
                     job : Seq(Ids \X Streams)]
  BY NumTypes DEF Types, ListTypes, BlackTypes
<1>3. /\ NumDevice(s)' = NumDevice(s) /\ NumFrames(s)' = NumFrames(s) /\ NumBlack(s)' = NumBlack(s)
      /\ NumDequeued(s)' = NumDequeued(s) /\ NumCounted(s)' = NumCounted(s)
  BY <1>1, NumSame
<1>4. CASE ~privacy.running
  <2>1. UNCHANGED <<mCaptureRequest, events>> /\ privacy' = [privacy EXCEPT !.alive = FALSE]
    BY <1>4 DEF TakeCaptureRequest
  <2>2. privacy'.job = privacy.job
    BY <1>2, <2>1
  <2>3. NumJob(s)' = NumJob(s) /\ NumAsked(s)' = NumAsked(s) /\ NumEvents(s)' = NumEvents(s)
    BY <1>1, <2>1, <2>2, NumSame DEF NumJob
  <2>4. QED
    BY <1>1, <1>3, <2>3, LedgerKept DEF NotBegun
<1>5. CASE privacy.running
  <2>0. PICK r : r = Head(mCaptureRequest)
    OBVIOUS
  <2> DEFINE T == {<<r, x>> : x \in Wanted(r)}
             one == IF s \in Wanted(r) THEN 1 ELSE 0
  <2>1. /\ mCaptureRequest # <<>>
        /\ \E q : privacy' = [privacy EXCEPT !.tell = q, !.job = SetToSeq(T)]
        /\ mCaptureRequest' = Tail(mCaptureRequest)
    BY <1>5, <2>0 DEF TakeCaptureRequest
  <2>2. r \in Known /\ r = mCaptureRequest[1] /\ 1 \in 1 .. Len(mCaptureRequest)
        /\ Tail(mCaptureRequest) \in Seq(Known)
    BY <1>2, <2>0, <2>1, HeadTailProperties, LenProperties, EmptySeq
  <2>3. r \in Ids /\ Wanted(r) \in SUBSET Streams /\ Wanted(r) # {}
    BY <2>2, KnownTyped DEF Types
  <2>4. \A x \in Streams : r \in Has(x) <=> x \in Wanted(r)
    <3>1. DOMAIN requests = Known
      BY LenProperties DEF Types, ListTypes, Known
    <3>2. QED
      BY <2>2, <3>1 DEF Has
  <2>5. NumAsked(s) = NumAsked(s)' + one
    <3>1. Has(s)' = Has(s)
      BY <1>1 DEF Has, Wanted
    <3>2. Hits(mCaptureRequest, Has(s)) = Hits(Tail(mCaptureRequest), Has(s))
                                           + IF Head(mCaptureRequest) \in Has(s) THEN 1 ELSE 0
      BY <1>2, <2>1, HitsTail
    <3>3. QED
      BY <2>0, <2>1, <2>4, <3>1, <3>2 DEF NumAsked
  <2>6. NumJob(s) = 0
    BY <1>1, HitsEmpty DEF NumJob
  <2>7. IsFiniteSet(T) /\ T \subseteq Ids \X Streams
    <3>1. IsFiniteSet(Streams) /\ IsFiniteSet(Ids)
      BY PipelineAssumption, FS_Interval DEF Streams, Ids
    <3>2. IsFiniteSet(Ids \X Streams)
      BY <3>1, FS_Product
    <3>3. T \in SUBSET (Ids \X Streams)
      BY <2>3
    <3>4. QED
      BY <3>2, <3>3, FS_Subset
  <2>8. NumJob(s)' = one
    <3>0. privacy'.job = SetToSeq(T)
      BY <1>2, <2>1
    <3>1. CASE s \in Wanted(r)
      <4>1. <<r, s>> \in T /\ T \cap (Ids \X {s}) = {<<r, s>>}
        BY <2>3, <3>1
      <4> HIDE DEF T
      <4>2. Hits(SetToSeq(T), Ids \X {s}) = 1
        BY <2>7, <4>1, HitsOnce
      <4>3. QED
        BY <3>0, <3>1, <4>2 DEF NumJob
    <3>2. CASE s \notin Wanted(r)
      <4>1. \A x \in T : x \notin Ids \X {s}
        BY <3>2
      <4> HIDE DEF T
      <4>2. SetToSeq(T) \in Seq(T)
        BY <2>7, JobTyped
      <4>3. \A k \in 1 .. Len(SetToSeq(T)) : SetToSeq(T)[k] \notin Ids \X {s}
        BY <4>1, <4>2, ElementOfSeq
      <4>4. Hits(SetToSeq(T), Ids \X {s}) = 0
        BY <4>2, <4>3, HitsNone
      <4>5. QED
        BY <3>0, <3>2, <4>4 DEF NumJob
    <3>3. QED
      BY <3>1, <3>2
  <2>9. NumEvents(s)' = NumEvents(s)
    BY <1>1, NumSame
  <2>10. mPrivacyStarted
    <3>1. PICK x \in Streams : x \in Wanted(r)
      BY <2>3
    <3>2. NumAsked(x) # 0
      <4>1. mCaptureRequest[1] \in Has(x)
        BY <2>2, <2>4, <3>1
      <4>2. QED
        BY <1>2, <2>2, <4>1, HitsNone DEF NumAsked
    <3>3. QED
      BY <3>2 DEF Ledger
  <2>11. one \in {0, 1}
    OBVIOUS
  <2> HIDE DEF one, T
  <2>12. NumAsked(s)' \in Nat
    BY <2>1, <2>2, HitsType DEF NumAsked
  <2>13. Ledger(s)
    OBVIOUS
  <2>14. mRequestInProgress'[s]
        = NumDevice(s)' + NumAsked(s)' + NumJob(s)' + NumFrames(s)' + NumBlack(s)'
          + NumDequeued(s)' + NumCounted(s)'
    <3>1. mRequestInProgress[s]
        = NumDevice(s) + NumAsked(s) + NumJob(s) + NumFrames(s) + NumBlack(s)
          + NumDequeued(s) + NumCounted(s)
      BY <2>13 DEF Ledger
    <3>2. UNCHANGED mRequestInProgress
      BY <1>1
    <3>3. QED
      BY <3>1, <3>2, <1>2, <1>3, <2>5, <2>6, <2>8, <2>11, <2>12
  <2>15. /\ NumEvents(s) = NumFrames(s) + NumBlack(s)
         /\ NumDevice(s) = 0 /\ NumFrames(s) = 0 /\ (NotBegun => NumBlack(s) = 0)
    BY <2>10, <2>13 DEF Ledger
  <2>16. UNCHANGED mPrivacyStarted /\ (NotBegun' <=> NotBegun)
    BY <1>1 DEF NotBegun
  <2>17. QED
    BY <1>3, <2>9, <2>10, <2>14, <2>15, <2>16, LedgerMade
<1>6. QED
  BY <1>4, <1>5

LEMMA LedgerTell ==
    ASSUME Types, NEW s \in Streams, Ledger(s), PrivacyTell
    PROVE  Ledger(s)'
<1>1. /\ UNCHANGED <<requests, handler, infos, result, sensor, mStreamQueueMap, mCaptureRequest>>
      /\ events' = Append(events, Head(privacy.tell)) /\ privacy.tell # <<>>
      /\ privacy' = [privacy EXCEPT !.tell = Tail(@)]
  BY DEF PrivacyTell
<1>2. privacy \in [running : BOOLEAN, alive : BOOLEAN, tell : Seq(TellSet), job : Seq(Ids \X Streams)]
  BY DEF Types, BlackTypes
<1>3. NumEvents(s)' = NumEvents(s)
  <2>1. Head(privacy.tell) \in TellSet
    BY <1>1, <1>2, HeadTailProperties
  <2>2. PICK kind \in {"shutter", "metadata"}, r \in Ids : Head(privacy.tell) = Event(kind, r)
    BY <2>1 DEF TellSet, Event
  <2>3. QED
    BY <1>1, <2>2, EventsSame
<1>4. NumJob(s)' = NumJob(s)
  BY <1>1, <1>2 DEF NumJob
<1>5. QED
  BY <1>1, <1>3, <1>4, NumSame, LedgerKept DEF NotBegun

LEMMA LedgerPrivacyFrame ==
    ASSUME Types, NEW s \in Streams, \A y \in Streams : Ledger(y), ~Stopping,
           OffInv, QuietInv, EndsInv, PrivacyFrame
    PROVE  Ledger(s)'
<1>1. UNCHANGED <<requests, handler, infos, result, sensor, mCaptureRequest>> /\ privacy.job # <<>>
  BY DEF PrivacyFrame
<1>2. /\ NumDevice(s) \in Nat /\ NumAsked(s) \in Nat /\ NumJob(s) \in Nat
      /\ NumFrames(s) \in Nat /\ NumBlack(s) \in Nat /\ NumEvents(s) \in Nat
      /\ NumDequeued(s) \in {0, 1} /\ NumCounted(s) \in {0, 1}
      /\ privacy \in [running : BOOLEAN, alive : BOOLEAN, tell : Seq(TellSet),
                     job : Seq(Ids \X Streams)]
      /\ mStreamQueueMap \in [Streams -> Seq(Ids)]
  BY NumTypes DEF Types, BlackTypes
<1>3. PICK r \in Ids, t \in Streams : Head(privacy.job) = <<r, t>>
  <2>1. Head(privacy.job) \in Ids \X Streams
    BY <1>1, <1>2, HeadTailProperties
  <2>2. QED
    BY <2>1
<1> DEFINE one == IF t = s THEN 1 ELSE 0
<1>4. /\ mStreamQueueMap' = [mStreamQueueMap EXCEPT ![t] = Append(@, r)]
      /\ events' = Append(events, Event("buffer", t))
      /\ privacy' = [privacy EXCEPT !.job = Tail(@)]
  <2>1. Head(privacy.job)[1] = r /\ Head(privacy.job)[2] = t
    BY <1>3
  <2>2. /\ mStreamQueueMap' = [mStreamQueueMap EXCEPT ![Head(privacy.job)[2]] =
                                 Append(@, Head(privacy.job)[1])]
        /\ events' = Append(events, Event("buffer", Head(privacy.job)[2]))
        /\ privacy' = [privacy EXCEPT !.job = Tail(@)]
    BY DEF PrivacyFrame
  <2>3. QED
    BY <2>1, <2>2
<1>5. /\ NumDevice(s)' = NumDevice(s) /\ NumAsked(s)' = NumAsked(s) /\ NumFrames(s)' = NumFrames(s)
      /\ NumDequeued(s)' = NumDequeued(s) /\ NumCounted(s)' = NumCounted(s)
  BY <1>1, NumSame
<1>6. NumJob(s) = NumJob(s)' + one
  <2>1. Hits(privacy.job, Ids \X {s})
          = Hits(Tail(privacy.job), Ids \X {s}) + IF Head(privacy.job) \in Ids \X {s} THEN 1 ELSE 0
    BY <1>1, <1>2, HitsTail
  <2>2. Head(privacy.job) \in Ids \X {s} <=> t = s
    BY <1>3
  <2>3. privacy'.job = Tail(privacy.job)
    BY <1>2, <1>4
  <2>4. QED
    BY <2>1, <2>2, <2>3 DEF NumJob
<1>7. NumBlack(s)' = NumBlack(s) + one
  <2>1. CASE t = s
    <3>1. mStreamQueueMap'[s] = Append(mStreamQueueMap[s], r)
      BY <1>2, <1>4, <2>1
    <3>2. Len(mStreamQueueMap'[s]) = Len(mStreamQueueMap[s]) + 1
      BY <1>2, <3>1, AppendProperties
    <3>3. QED
      BY <2>1, <3>2 DEF NumBlack
  <2>2. CASE t # s
    <3>1. mStreamQueueMap'[s] = mStreamQueueMap[s]
      BY <1>2, <1>4, <2>2
    <3>2. QED
      BY <1>2, <2>2, <3>1 DEF NumBlack
  <2>3. QED
    BY <2>1, <2>2
<1>8. NumEvents(s)' = NumEvents(s) + one
  BY <1>4, EventsGo
<1>9. mPrivacyStarted /\ ~NotBegun
  <2>1. privacy.alive
    BY <1>1 DEF EndsInv
  <2>2. mPrivacyStarted
    BY <2>1 DEF OffInv
  <2>3. ~NoneStarted
    BY <2>1 DEF OffInv, BothOff
  <2>4. mRequestInProgress[t] # 0
    <3>1. NumJob(t) # 0
      <4>1. privacy.job[1] \in Ids \X {t} /\ 1 \in 1 .. Len(privacy.job)
        BY <1>1, <1>2, <1>3, HeadTailProperties, EmptySeq, LenProperties
      <4>2. QED
        BY <1>2, <4>1, HitsNone DEF NumJob
    <3>2. QED
      BY <3>1, LedgerZero
  <2>5. capture.pc \notin {"halt", "join", "halting"}
    <3>1. ~(capture.task = "switch" /\ capture.pc # "wait")
      BY <2>4 DEF QuietInv
    <3>2. capture.task # "stop"
      BY DEF Stopping, HaltingFor
    <3>3. QED
      BY <3>1, <3>2 DEF Types, CaptureTypes
  <2>6. QED
    BY <2>2, <2>3, <2>5 DEF NoneStarted, NotBegun
<1>10. one \in {0, 1}
  OBVIOUS
<1> HIDE DEF one
<1>11. NumJob(s)' \in Nat
  <2>1. Tail(privacy.job) \in Seq(Ids \X Streams) /\ privacy'.job = Tail(privacy.job)
    BY <1>1, <1>2, <1>4, HeadTailProperties
  <2>2. QED
    BY <2>1, HitsType DEF NumJob
<1>12. Ledger(s)
  OBVIOUS
<1>13. mRequestInProgress'[s]
        = NumDevice(s)' + NumAsked(s)' + NumJob(s)' + NumFrames(s)' + NumBlack(s)'
          + NumDequeued(s)' + NumCounted(s)'
  <2>1. mRequestInProgress[s]
        = NumDevice(s) + NumAsked(s) + NumJob(s) + NumFrames(s) + NumBlack(s)
          + NumDequeued(s) + NumCounted(s)
    BY <1>12 DEF Ledger
  <2>2. UNCHANGED mRequestInProgress
    BY <1>1
  <2>3. /\ NumDevice(s) \in Nat /\ NumAsked(s) \in Nat /\ NumFrames(s) \in Nat
        /\ NumBlack(s) \in Nat /\ NumDequeued(s) \in Nat /\ NumCounted(s) \in Nat
        /\ NumJob(s)' \in Nat /\ one \in Nat
    BY <1>2, <1>10, <1>11
  <2>4. mRequestInProgress[s]
        = NumDevice(s) + NumAsked(s) + (NumJob(s)' + one) + NumFrames(s) + NumBlack(s)
          + NumDequeued(s) + NumCounted(s)
    BY <2>1, <1>6
  <2>5. mRequestInProgress[s]
        = NumDevice(s) + NumAsked(s) + NumJob(s)' + NumFrames(s) + (NumBlack(s) + one)
          + NumDequeued(s) + NumCounted(s)
    BY <2>3, <2>4
  <2>6. QED
    BY <2>2, <2>5, <1>5, <1>7
<1>14. NumEvents(s)' = NumFrames(s)' + NumBlack(s)'
  <2>1. NumEvents(s) = NumFrames(s) + NumBlack(s)
    BY <1>12 DEF Ledger
  <2>2. QED
    BY <2>1, <1>2, <1>5, <1>7, <1>8, <1>10
<1>15. NumDevice(s) = 0 /\ NumFrames(s) = 0
  BY <1>9, <1>12 DEF Ledger
<1>16. UNCHANGED mPrivacyStarted /\ ~NotBegun'
  BY <1>1, <1>9 DEF NotBegun
<1>17. QED
  BY <1>5, <1>9, <1>13, <1>14, <1>15, <1>16, LedgerMade

(* The source that is stopped for a switch has nothing left to drop.       *)
LEMMA LedgerHalt ==
    ASSUME Types, NEW s \in Streams, Ledger(s), mRequestInProgress[s] = 0,
           StopPrivacy \/ ClearRequests \/ StopStream \/ DeviceConfigure
    PROVE  Ledger(s)'
<1>1. UNCHANGED <<requests, handler, infos, result, events, mStreamQueueMap>>
  BY DEF StopPrivacy, ClearRequests, StopStream, DeviceConfigure
<1>2. /\ NumDevice(s) \in Nat /\ NumAsked(s) \in Nat /\ NumJob(s) \in Nat
      /\ NumFrames(s) \in Nat /\ NumBlack(s) \in Nat
      /\ NumDequeued(s) \in {0, 1} /\ NumCounted(s) \in {0, 1}
      /\ device \in [on : BOOLEAN, exit : BOOLEAN, bound : BOOLEAN, requests : Seq(Runs)]
      /\ privacy \in [running : BOOLEAN, alive : BOOLEAN, tell : Seq(TellSet),
                     job : Seq(Ids \X Streams)]
  BY NumTypes DEF Types, BlackTypes, DeviceTypes
<1>3. NumDevice(s) = 0 /\ NumAsked(s) = 0 /\ NumFrames(s) = 0
  BY LedgerZero
<1>4. /\ NumBlack(s)' = NumBlack(s) /\ NumEvents(s)' = NumEvents(s)
      /\ NumDequeued(s)' = NumDequeued(s) /\ NumCounted(s)' = NumCounted(s)
  BY <1>1, NumSame
<1>5. CASE StopPrivacy
  <2>1. UNCHANGED <<device, mOutputFrames>> /\ mCaptureRequest' = <<>>
        /\ privacy' = [privacy EXCEPT !.running = FALSE]
    BY <1>5 DEF StopPrivacy
  <2>2. NumAsked(s)' = 0
    BY <2>1, HitsEmpty DEF NumAsked
  <2>3. NumJob(s)' = NumJob(s)
    <3>1. privacy'.job = privacy.job
      BY <1>2, <2>1
    <3>2. QED
      BY <3>1 DEF NumJob
  <2>4. NumDevice(s)' = NumDevice(s) /\ NumFrames(s)' = NumFrames(s)
    BY <2>1, NumSame
  <2>5. QED
    BY <1>1, <1>3, <1>4, <2>2, <2>3, <2>4, LedgerKept DEF NotBegun
<1>6. CASE ClearRequests \/ StopStream
  <2>1. UNCHANGED <<privacy, mCaptureRequest>>
    BY <1>6 DEF ClearRequests, StopStream
  <2>2. NumAsked(s)' = NumAsked(s) /\ NumJob(s)' = NumJob(s)
    BY <1>1, <2>1, NumSame
  <2>3. NumFrames(s)' = 0
    <3>1. mOutputFrames'[s] = <<>> \/ UNCHANGED mOutputFrames
      BY <1>6 DEF ClearRequests, StopStream
    <3>2. QED
      BY <1>3, <3>1 DEF NumFrames
  <2>4. NumDevice(s)' = 0
    <3>1. CASE ClearRequests
      <4>1. PICK k \in 0 .. Len(device.requests) :
              device' = [device EXCEPT !.requests = SubSeq(@, 1, k)]
        BY <3>1 DEF ClearRequests
      <4>2. device'.requests = SubSeq(device.requests, 1, k) /\ Len(device.requests) \in Nat
            /\ device.requests \in Seq(Runs)
        BY <1>2, <4>1, LenProperties
      <4>3. /\ SubSeq(device.requests, 1, k) \in Seq(Runs)
            /\ Len(SubSeq(device.requests, 1, k)) = k
            /\ \A i \in 1 .. k : SubSeq(device.requests, 1, k)[i] = device.requests[i]
        BY <4>2, SubSeqProperties
      <4>4. \A i \in 1 .. Len(device.requests) : device.requests[i] \notin WithBuffer(s)
        BY <1>3, <4>2, HitsNone DEF NumDevice
      <4>5. \A i \in 1 .. k : SubSeq(device.requests, 1, k)[i] \notin WithBuffer(s)
        BY <4>2, <4>3, <4>4
      <4>6. Hits(SubSeq(device.requests, 1, k), WithBuffer(s)) = 0
        BY <4>3, <4>5, HitsNone
      <4>7. QED
        BY <4>2, <4>6 DEF NumDevice, WithBuffer
    <3>2. CASE StopStream
      <4>1. device'.requests = <<>>
        BY <1>2, <3>2 DEF StopStream
      <4>2. QED
        BY <4>1, HitsEmpty DEF NumDevice
    <3>3. QED
      BY <1>6, <3>1, <3>2
  <2>5. QED
    BY <1>1, <1>3, <1>4, <2>2, <2>3, <2>4, LedgerKept DEF NotBegun
<1>7. CASE DeviceConfigure
  <2>1. UNCHANGED <<privacy, mCaptureRequest, mOutputFrames>>
        /\ device' = [device EXCEPT !.bound = FALSE]
    BY <1>7 DEF DeviceConfigure
  <2>2. NumDevice(s)' = NumDevice(s)
    BY <1>2, <2>1 DEF NumDevice, WithBuffer
  <2>3. QED
    BY <1>1, <1>4, <2>1, <2>2, NumSame, LedgerKept DEF NotBegun
<1>8. QED
  BY <1>5, <1>6, <1>7

-----------------------------------------------------------------------------
(* The steps put together.                                                 *)

(* Before its first stop a halting capture thread is in a switch.          *)
LEMMA HaltsInSwitch ==
    ASSUME Types, ~Stopping, capture.pc \in {"halt", "halting", "configure", "exit", "ending"}
    PROVE  capture.task = "switch" /\ capture.pc \in {"halt", "halting", "configure"}
BY DEF Types, CaptureTypes, Stopping, HaltingFor

LEMMA LedgerStep ==
    ASSUME Types, OffInv, BufferInv, [Next]_vars
    PROVE  LedgerInv'
<1> SUFFICES ASSUME ~Stopping', NEW s \in Streams PROVE Ledger(s)'
  BY DEF LedgerInv
<1>1. ~Stopping
  BY StoppingStays
<1>2. \A y \in Streams : Ledger(y)
  BY <1>1 DEF BufferInv, LedgerInv
<1>3. Ledger(s) /\ CountersInv /\ QuietInv /\ EndsInv
  BY <1>2 DEF BufferInv
<1>4. CASE HandleNewRequest
  BY <1>3, <1>4, LedgerNewRequest
<1>5. CASE WaitAllRequestsDone \/ JoinPrivacy \/ ClearStarted \/ FlipPrivacy \/ PushRequest \/ Stop
  <2>1. capture.task = "switch" /\ capture.pc # "wait" => mRequestInProgress[s] = 0
    BY <1>3 DEF QuietInv
  <2>2. QED
    BY <1>3, <1>5, <2>1, LedgerCapture
<1>6. CASE StopPrivacy \/ ClearRequests \/ StopStream \/ DeviceConfigure \/ ExitThreads
           \/ JoinResult
  <2>1. capture.pc \in {"halt", "halting", "configure", "exit", "ending"}
    BY <1>6 DEF StopPrivacy, ClearRequests, StopStream, DeviceConfigure, ExitThreads, JoinResult
  <2>2. capture.task = "switch" /\ capture.pc \in {"halt", "halting", "configure"}
    BY <1>1, <2>1, HaltsInSwitch
  <2>3. StopPrivacy \/ ClearRequests \/ StopStream \/ DeviceConfigure
    BY <1>6, <2>2 DEF ExitThreads, JoinResult
  <2>4. mRequestInProgress[s] = 0
    BY <1>3, <2>2 DEF QuietInv
  <2>5. QED
    BY <1>3, <2>3, <2>4, LedgerHalt
<1>7. CASE Enter("capture") \/ Enter("result") \/ PopPending \/ Recycle \/ CompleteRequest
  BY <1>3, <1>7, LedgerRecords
<1>8. CASE CountBuffers
  BY <1>3, <1>8, LedgerCount
<1>9. CASE QueueBuffers
  BY <1>3, <1>9, LedgerQueue
<1>10. CASE StartSource
  BY <1>3, <1>10, LedgerStart
<1>11. CASE ShutterReady \/ MetadataReady \/ CompleteBuffer
  BY <1>3, <1>11, LedgerResult
<1>12. CASE DequeuePrivacy
  BY <1>2, <1>12, LedgerDequeuePrivacy
<1>13. CASE DequeueDevice
  <2>1. ~device.exit
    BY <1>1, <1>3 DEF EndsInv
  <2>2. QED
    BY <1>2, <1>13, <2>1, LedgerDequeueDevice
<1>14. CASE Dequeued
  BY <1>3, <1>14, LedgerDequeued
<1>15. CASE Device
  BY <1>2, <1>3, <1>15, LedgerDevice, LedgerFrame DEF Device
<1>16. CASE PrivacyThread
  BY <1>1, <1>2, <1>3, <1>16, LedgerTake, LedgerTell, LedgerPrivacyFrame DEF PrivacyThread
<1>17. CASE MoveShutter \/ UNCHANGED vars
  <2>1. UNCHANGED <<requests, handler, result, events, pool, sensor, privacy, mCaptureRequest,
                    mStreamQueueMap>>
    BY <1>17 DEF MoveShutter, vars
  <2>2. NotBegun' => NotBegun
    BY <2>1 DEF NotBegun
  <2>3. QED
    BY <1>3, <2>1, <2>2, NumSame, LedgerKept
<1>18. QED
  BY <1>4, <1>5, <1>6, <1>7, <1>8, <1>9, <1>10, <1>11, <1>12, <1>13, <1>14, <1>15, <1>16, <1>17
     DEF Next, CaptureThread, ResultThread, ProcessNewRequest

-----------------------------------------------------------------------------
(* Only qbuf and dqbuf count.                                              *)
LEMMA NotCounting ==
    ASSUME [Next]_vars, ~CountBuffers, ~Dequeued
    PROVE  UNCHANGED mRequestInProgress
<1>1. CASE HandleNewRequest \/ Stop \/ MoveShutter \/ UNCHANGED vars
  BY <1>1 DEF HandleNewRequest, Stop, MoveShutter, vars
<1>2. CASE WaitAllRequestsDone \/ StopPrivacy \/ JoinPrivacy \/ ClearRequests \/ StopStream
           \/ DeviceConfigure
  BY <1>2 DEF WaitAllRequestsDone, StopPrivacy, JoinPrivacy, ClearRequests, StopStream,
              DeviceConfigure
<1>3. CASE ClearStarted \/ FlipPrivacy \/ PushRequest \/ ExitThreads \/ JoinResult
  BY <1>3 DEF ClearStarted, FlipPrivacy, PushRequest, ExitThreads, JoinResult
<1>4. CASE Enter("capture") \/ Enter("result")
  BY <1>4 DEF Enter, NothingToProcess, CreateInfo
<1>5. CASE QueueBuffers \/ StartSource \/ PopPending
  BY <1>5 DEF QueueBuffers, StartSource, PopPending
<1>6. CASE ShutterReady \/ MetadataReady \/ DequeuePrivacy \/ DequeueDevice
  BY <1>6 DEF ShutterReady, MetadataReady, DequeuePrivacy, DequeueDevice
<1>7. CASE CompleteBuffer \/ Recycle \/ CompleteRequest
  BY <1>7 DEF CompleteBuffer, Recycle, CompleteRequest
<1>8. CASE Device \/ PrivacyThread
  BY <1>8 DEF Device, DispatchTask, SendMetadata, FrameAvailable,
              PrivacyThread, TakeCaptureRequest, PrivacyTell, PrivacyFrame
<1>9. QED
  BY <1>1, <1>2, <1>3, <1>4, <1>5, <1>6, <1>7, <1>8
     DEF Next, CaptureThread, ResultThread, ProcessNewRequest

(* The result thread has a buffer dequeued from where bufferReady took it. *)
LEMMA DequeuedTyped ==
    ASSUME Types, CountersInv, [Next]_vars, result'.pc = "dequeued"
    PROVE  result'.stream \in Streams
<1>0. ResultTypes
  BY DEF Types
<1>1. CASE DequeuePrivacy \/ DequeueDevice
  <2>1. result'.stream = Head(events).id /\ Takes("buffer")
    BY <1>1 DEF DequeuePrivacy, DequeueDevice
  <2>2. QED
    BY <2>1, EventTyped
<1>2. CASE MetadataReady \/ CompleteRequest
  <2>1. \/ \E r : result' = [Resting EXCEPT !.pc = "done", !.id = r]
        \/ result' = [Resting EXCEPT !.pc = "process"]
    BY <1>2 DEF MetadataReady, CompleteRequest
  <2>2. result'.pc # "dequeued"
    BY <2>1 DEF Resting
  <2>3. QED
    BY <2>2
<1>3. CASE Dequeued \/ CompleteBuffer \/ JoinResult
  <2>1. result' = Resting \/ \E x \in {"buffer", "done", "ended"} : result' = [result EXCEPT !.pc = x]
    <3>1. CASE Dequeued
      BY <3>1 DEF Dequeued
    <3>2. CASE CompleteBuffer
      BY <3>2 DEF CompleteBuffer
    <3>3. CASE JoinResult
      BY <3>3 DEF JoinResult
    <3>4. QED
      BY <1>3, <3>1, <3>2, <3>3
  <2>2. result'.pc # "dequeued"
    BY <1>0, <2>1, ResultGoes DEF Resting
  <2>3. QED
    BY <2>2
<1>4. CASE Recycle
  <2>1. result' = Resting \/ \E i : result' = [Resting EXCEPT !.pc = "complete", !.id = i]
    BY <1>4 DEF Recycle
  <2>2. Resting.pc # "dequeued" /\ \A i : [Resting EXCEPT !.pc = "complete", !.id = i].pc # "dequeued"
    BY DEF Resting
  <2>3. QED
    BY <2>1, <2>2
<1>5. CASE NothingToProcess("capture") \/ NothingToProcess("result") \/ PopPending
  <2>1. result' = Resting \/ UNCHANGED result
    BY <1>5 DEF NothingToProcess, PopPending, Return
  <2>2. QED
    BY <2>1 DEF Resting, CountersInv
<1>6. CASE CreateInfo("capture") \/ CreateInfo("result") \/ CountBuffers \/ QueueBuffers
           \/ StartSource \/ ShutterReady
  <2>1. UNCHANGED result
    BY <1>6 DEF CreateInfo, CountBuffers, QueueBuffers, StartSource, ShutterReady
  <2>2. QED
    BY <2>1 DEF CountersInv
<1>7. CASE \/ HandleNewRequest \/ WaitAllRequestsDone \/ StopPrivacy \/ JoinPrivacy \/ ClearRequests
           \/ StopStream \/ DeviceConfigure \/ ClearStarted \/ FlipPrivacy \/ PushRequest
           \/ Stop \/ ExitThreads
  <2>1. CASE HandleNewRequest \/ WaitAllRequestsDone \/ StopPrivacy \/ JoinPrivacy \/ ClearRequests
    BY <2>1 DEF HandleNewRequest, WaitAllRequestsDone, StopPrivacy, JoinPrivacy, ClearRequests,
                CountersInv
  <2>2. CASE StopStream \/ DeviceConfigure \/ ClearStarted \/ FlipPrivacy \/ PushRequest \/ Stop
             \/ ExitThreads
    BY <2>2 DEF StopStream, DeviceConfigure, ClearStarted, FlipPrivacy, PushRequest, Stop,
                ExitThreads, CountersInv
  <2>3. QED
    BY <1>7, <2>1, <2>2
<1>8. CASE Device \/ PrivacyThread \/ MoveShutter \/ UNCHANGED vars
  BY <1>8 DEF Device, DispatchTask, SendMetadata, FrameAvailable, PrivacyThread, TakeCaptureRequest,
              PrivacyTell, PrivacyFrame, MoveShutter, vars, CountersInv
<1>9. QED
  BY <1>1, <1>2, <1>3, <1>4, <1>5, <1>6, <1>7, <1>8
     DEF Next, CaptureThread, ResultThread, ProcessNewRequest, Enter

LEMMA CountersStep ==
    ASSUME Types, CountersInv, [Next]_vars
    PROVE  CountersInv'
<1>1. mRequestInProgress' \in [Streams -> Int]
  <2>1. CASE CountBuffers
    BY <2>1 DEF CountBuffers, Counted, CountersInv
  <2>2. CASE Dequeued
    BY <2>2 DEF Dequeued, CountersInv
  <2>3. CASE ~CountBuffers /\ ~Dequeued
    BY <2>3, NotCounting DEF CountersInv
  <2>4. QED
    BY <2>1, <2>2, <2>3
<1>2. QED
  BY <1>1, DequeuedTyped DEF CountersInv

-----------------------------------------------------------------------------
(* A counter at zero stays there while the capture thread is in a switch.  *)
LEMMA ZeroStays ==
    ASSUME Types, CalmInv, BufferInv, ~Stopping, capture.pc # "process", [Next]_vars,
           NEW s \in Streams, mRequestInProgress[s] = 0
    PROVE  mRequestInProgress'[s] = 0
<1>1. ~CountBuffers
  BY FreeMutex DEF CountBuffers, Locked
<1>2. CASE Dequeued
  <2>1. Ledger(s)
    BY DEF BufferInv, LedgerInv
  <2>2. NumDequeued(s) = 0
    BY <2>1, LedgerZero
  <2>3. result.stream # s
    BY <1>2, <2>2 DEF Dequeued, NumDequeued
  <2>4. QED
    BY <1>2, <2>3 DEF Dequeued, BufferInv, CountersInv
<1>3. CASE ~Dequeued
  BY <1>1, <1>3, NotCounting
<1>4. QED
  BY <1>2, <1>3

LEMMA LeastOf ==
    ASSUME NEW S \in SUBSET Nat, S # {}
    PROVE  Min(S) \in S /\ \A y \in S : Min(S) <= y
<1>1. IsWellFoundedOn(OpToRel(<, Nat), Nat)
  BY NatLessThanWellFounded
<1>2. PICK x \in S : \A y \in S : ~(<<y, x>> \in OpToRel(<, Nat))
  BY <1>1, WFMin
<1>3. ASSUME NEW y \in S PROVE x <= y
  <2>1. <<y, x>> \in Nat \X Nat
    OBVIOUS
  <2>2. ~(y < x)
    BY <1>2, <2>1 DEF OpToRel
  <2>3. QED
    BY <2>2
<1>4. QED
  BY <1>3 DEF Min

(* The search for a stream with buffers stops at the first one, or has     *)
(* seen all of them.                                                       *)
LEMMA WaitQuiet ==
    ASSUME Types, mRequestInProgress \in [Streams -> Nat], UNCHANGED mRequestInProgress,
           NEW k \in Streams, \A s \in Streams : s < k => mRequestInProgress[s] = 0,
           capture' = WaitFrom(k)
    PROVE  QuietInv'
<1>1. NumStreams \in Nat
  BY PipelineAssumption
<1>2. CASE Busy(k) = {}
  <2>1. capture'.pc = "halt"
    BY <1>2 DEF WaitFrom
  <2>2. \A s \in Streams : mRequestInProgress[s] = 0
    BY <1>1, <1>2 DEF Busy, Streams
  <2>3. QED
    BY <2>1, <2>2 DEF QuietInv
<1>3. CASE Busy(k) # {}
  <2>1. Busy(k) \in SUBSET Nat /\ Busy(k) \subseteq Streams
    BY <1>1 DEF Busy, Streams
  <2>2. Min(Busy(k)) \in Busy(k) /\ \A y \in Busy(k) : Min(Busy(k)) <= y
    BY <1>3, <2>1, LeastOf
  <2>3. PICK m \in Busy(k) : m = Min(Busy(k)) /\ \A y \in Busy(k) : m <= y
    BY <2>2
  <2>4. capture'.pc = "wait" /\ capture'.stream = m
    BY <1>3, <2>3 DEF WaitFrom
  <2>5. \A s \in Streams : s < m => mRequestInProgress[s] = 0
    BY <1>1, <2>1, <2>3 DEF Busy, Streams
  <2>6. QED
    BY <2>1, <2>3, <2>4, <2>5 DEF QuietInv
<1>4. QED
  BY <1>2, <1>3

LEMMA CountersNat ==
    ASSUME Types, BufferInv, ~Stopping
    PROVE  mRequestInProgress \in [Streams -> Nat]
<1>1. \A s \in Streams : mRequestInProgress[s] \in Nat
  BY LedgerZero DEF BufferInv, LedgerInv
<1>2. QED
  BY <1>1 DEF BufferInv, CountersInv

LEMMA QuietStep ==
    ASSUME Types, CalmInv, BufferInv, [Next]_vars
    PROVE  QuietInv'
<1>1. CaptureTypes /\ QuietInv
  BY DEF Types, BufferInv
<1>2. capture.task = "switch" \/ capture.pc \in {"idle", "wait"} => ~Stopping
  BY <1>1 DEF CaptureTypes, Stopping, HaltingFor
<1>3. CASE HandleNewRequest
  <2>1. capture.pc = "idle" /\ UNCHANGED mRequestInProgress
    BY <1>3 DEF HandleNewRequest
  <2>2. mRequestInProgress \in [Streams -> Nat]
    BY <1>2, <2>1, CountersNat
  <2>3. 1 \in Streams /\ \A s \in Streams : ~(s < 1)
    BY PipelineAssumption DEF Streams
  <2>4. CASE capture' = WaitFrom(1)
    BY <2>1, <2>2, <2>3, <2>4, WaitQuiet
  <2>5. CASE capture' # WaitFrom(1)
    <3>1. capture' = [capture EXCEPT !.pc = "push"]
      BY <1>3, <2>5 DEF HandleNewRequest
    <3>2. capture'.pc = "push" /\ capture'.task = capture.task
      BY <1>1, <3>1, CaptureGoes DEF CaptureTypes
    <3>3. capture.task # "switch"
      BY <1>1, <2>1 DEF CaptureTypes
    <3>4. QED
      BY <3>2, <3>3 DEF QuietInv
  <2>6. QED
    BY <2>4, <2>5
<1>4. CASE WaitAllRequestsDone
  <2>1. /\ capture.pc = "wait" /\ UNCHANGED mRequestInProgress
        /\ capture' = WaitFrom(capture.stream)
    BY <1>4 DEF WaitAllRequestsDone
  <2>2. mRequestInProgress \in [Streams -> Nat]
    BY <1>2, <2>1, CountersNat
  <2>3. PICK k \in Streams : k = capture.stream
    BY <1>1, <2>1 DEF QuietInv
  <2>4. \A s \in Streams : s < k => mRequestInProgress[s] = 0
    BY <1>1, <2>1, <2>3 DEF QuietInv
  <2>5. capture' = WaitFrom(k)
    BY <2>1, <2>3
  <2>6. QED
    BY <2>1, <2>2, <2>4, <2>5, WaitQuiet
<1>5. CASE StopPrivacy \/ JoinPrivacy \/ ClearRequests \/ StopStream \/ DeviceConfigure
           \/ ClearStarted \/ FlipPrivacy \/ PushRequest \/ Stop \/ ExitThreads \/ JoinResult
  <2>1. capture'.pc # "wait" /\ capture.pc # "wait"
    <3>1. capture'.pc # "wait"
      BY <1>1, <1>5, CaptureSteps
    <3>2. capture.pc # "wait"
      BY <1>5 DEF StopPrivacy, JoinPrivacy, ClearRequests, StopStream, DeviceConfigure,
                  ClearStarted, FlipPrivacy, PushRequest, Stop, ExitThreads, JoinResult
    <3>3. QED
      BY <3>1, <3>2
  <2>2. capture'.task = "switch" => capture.task = "switch"
    BY <1>1, <1>5, CaptureSteps
  <2>3. capture.task = "switch" => capture.pc # "process"
    BY <1>1 DEF CaptureTypes
  <2>4. QED
    BY <1>1, <1>2, <2>1, <2>2, <2>3, ZeroStays DEF QuietInv
<1>6. CASE ~CaptureActs
  <2>1. CASE UNCHANGED capture
    <3>1. capture.pc = "wait" => capture.task = "switch"
      BY <1>1 DEF CaptureTypes
    <3>2. capture.task = "switch" => capture.pc # "process"
      BY <1>1 DEF CaptureTypes
    <3>3. ASSUME capture.task = "switch", NEW s \in Streams, mRequestInProgress[s] = 0
          PROVE  mRequestInProgress'[s] = 0
      BY <1>2, <3>2, <3>3, ZeroStays
    <3>4. QED
      BY <1>1, <2>1, <3>1, <3>3 DEF QuietInv
  <2>2. CASE CaptureBack
    BY <1>1, <2>2 DEF CaptureBack, CaptureTypes, QuietInv
  <2>3. QED
    BY <1>6, <2>1, <2>2, OthersCapture
<1>7. QED
  BY <1>3, <1>4, <1>5, <1>6 DEF CaptureActs

-----------------------------------------------------------------------------
(* Only requestStop tells waitFrame to give up.                            *)
LEMMA ExitSet ==
    ASSUME Types, [Next]_vars, ~ExitThreads
    PROVE  device'.exit => device.exit
<1>0. device \in [on : BOOLEAN, exit : BOOLEAN, bound : BOOLEAN, requests : Seq(Runs)]
  BY DEF Types, DeviceTypes
<1>1. CASE HandleNewRequest \/ Stop \/ MoveShutter \/ UNCHANGED vars
  BY <1>1 DEF HandleNewRequest, Stop, MoveShutter, vars
<1>2. CASE WaitAllRequestsDone \/ StopPrivacy \/ JoinPrivacy \/ ClearRequests \/ StopStream
           \/ DeviceConfigure
  BY <1>0, <1>2 DEF WaitAllRequestsDone, StopPrivacy, JoinPrivacy, ClearRequests, StopStream,
                    DeviceConfigure
<1>3. CASE ClearStarted \/ FlipPrivacy \/ PushRequest \/ JoinResult
  BY <1>3 DEF ClearStarted, FlipPrivacy, PushRequest, JoinResult
<1>4. CASE Enter("capture") \/ Enter("result")
  BY <1>4 DEF Enter, NothingToProcess, CreateInfo
<1>5. CASE QueueBuffers
  <2>1. UNCHANGED device \/ \E q : device' = [device EXCEPT !.exit = FALSE, !.requests = q]
    BY <1>5 DEF QueueBuffers
  <2>2. QED
    BY <1>0, <2>1
<1>6. CASE StartSource \/ CountBuffers \/ PopPending
  BY <1>0, <1>6 DEF StartSource, CountBuffers, PopPending
<1>7. CASE ShutterReady \/ MetadataReady \/ DequeuePrivacy \/ DequeueDevice
  BY <1>7 DEF ShutterReady, MetadataReady, DequeuePrivacy, DequeueDevice
<1>8. CASE Dequeued \/ CompleteBuffer \/ Recycle \/ CompleteRequest
  BY <1>8 DEF Dequeued, CompleteBuffer, Recycle, CompleteRequest
<1>9. CASE Device
  <2>1. \/ \E j : device' = [device EXCEPT !.requests[j].at = "dispatched"]
        \/ \E q : device' = [device EXCEPT !.requests = q]
    BY <1>9 DEF Device, DispatchTask, SendMetadata, FrameAvailable
  <2>2. QED
    BY <1>0, <2>1
<1>10. CASE PrivacyThread
  BY <1>10 DEF PrivacyThread, TakeCaptureRequest, PrivacyTell, PrivacyFrame
<1>11. QED
  BY <1>1, <1>2, <1>3, <1>4, <1>5, <1>6, <1>7, <1>8, <1>9, <1>10
     DEF Next, CaptureThread, ResultThread, ProcessNewRequest

(* The thread of PrivacyControl ends between two jobs.                     *)
LEMMA JobEnds ==
    ASSUME Types, [Next]_vars, privacy.job # <<>> => privacy.alive
    PROVE  privacy'.job # <<>> => privacy'.alive
<1>0. privacy \in [running : BOOLEAN, alive : BOOLEAN, tell : Seq(TellSet),
             job : Seq(Ids \X Streams)]
  BY DEF Types, BlackTypes
<1>1. CASE HandleNewRequest \/ Stop \/ MoveShutter \/ UNCHANGED vars
  BY <1>1 DEF HandleNewRequest, Stop, MoveShutter, vars
<1>2. CASE WaitAllRequestsDone \/ StopPrivacy \/ JoinPrivacy \/ ClearRequests \/ StopStream
           \/ DeviceConfigure
  BY <1>0, <1>2 DEF WaitAllRequestsDone, StopPrivacy, JoinPrivacy, ClearRequests, StopStream,
                    DeviceConfigure
<1>3. CASE ClearStarted \/ FlipPrivacy \/ PushRequest \/ JoinResult \/ ExitThreads
  BY <1>3 DEF ClearStarted, FlipPrivacy, PushRequest, JoinResult, ExitThreads
<1>4. CASE Enter("capture") \/ Enter("result")
  BY <1>4 DEF Enter, NothingToProcess, CreateInfo
<1>5. CASE StartSource
  <2>1. UNCHANGED privacy \/ privacy' = [privacy EXCEPT !.running = TRUE, !.alive = TRUE]
    BY <1>5 DEF StartSource
  <2>2. QED
    BY <1>0, <2>1
<1>6. CASE CountBuffers \/ QueueBuffers \/ PopPending
  BY <1>6 DEF CountBuffers, QueueBuffers, PopPending
<1>7. CASE ShutterReady \/ MetadataReady \/ DequeuePrivacy \/ DequeueDevice
  BY <1>7 DEF ShutterReady, MetadataReady, DequeuePrivacy, DequeueDevice
<1>8. CASE Dequeued \/ CompleteBuffer \/ Recycle \/ CompleteRequest
  BY <1>8 DEF Dequeued, CompleteBuffer, Recycle, CompleteRequest
<1>9. CASE Device
  BY <1>9 DEF Device, DispatchTask, SendMetadata, FrameAvailable
<1>10. CASE TakeCaptureRequest
  <2>1. privacy.alive /\ privacy.job = <<>>
    BY <1>10 DEF TakeCaptureRequest
  <2>2. \/ privacy' = [privacy EXCEPT !.alive = FALSE]
        \/ \E q, e : privacy' = [privacy EXCEPT !.tell = e, !.job = q]
    BY <1>10 DEF TakeCaptureRequest
  <2>3. QED
    BY <1>0, <2>1, <2>2
<1>11. CASE PrivacyTell \/ PrivacyFrame
  BY <1>0, <1>11 DEF PrivacyTell, PrivacyFrame
<1>12. QED
  BY <1>1, <1>2, <1>3, <1>4, <1>5, <1>6, <1>7, <1>8, <1>9, <1>10, <1>11
     DEF Next, CaptureThread, ResultThread, ProcessNewRequest, PrivacyThread

LEMMA EndsStep ==
    ASSUME Types, EndsInv, [Next]_vars
    PROVE  EndsInv'
<1>1. device'.exit => Stopping'
  <2>1. CASE ExitThreads
    <3>1. CaptureTypes /\ capture.pc = "exit"
      BY <2>1 DEF Types, ExitThreads
    <3>2. Stopping
      BY <3>1 DEF CaptureTypes, Stopping, HaltingFor
    <3>3. QED
      BY <3>2, StoppingStays
  <2>2. CASE ~ExitThreads
    BY <2>2, ExitSet, StoppingStays DEF EndsInv
  <2>3. QED
    BY <2>1, <2>2
<1>2. privacy'.job # <<>> => privacy'.alive
  BY JobEnds DEF EndsInv
<1>3. QED
  BY <1>1, <1>2 DEF EndsInv

-----------------------------------------------------------------------------
LEMMA BufferInit == Init => BufferInv
<1> SUFFICES ASSUME Init PROVE BufferInv
  OBVIOUS
<1>1. /\ capture.pc = "idle" /\ capture.task = "none" /\ ~mCameraStarted
      /\ result.pc = "idle" /\ mMutex.pc = "none" /\ ~device.exit
  BY DEF Init, Resting, Unlocked
<1>2. mRequestInProgress = [s \in Streams |-> 0]
  BY DEF Init
<1>3. CountersInv
  BY <1>1, <1>2 DEF CountersInv
<1>4. privacy.job = <<>> /\ device.requests = <<>> /\ events = <<>> /\ mCaptureRequest = <<>>
  BY DEF Init
<1>5. QuietInv /\ EndsInv
  BY <1>1, <1>4 DEF QuietInv, EndsInv
<1>6. ASSUME NEW s \in Streams PROVE Ledger(s)
  <2>1. NumFrames(s) = 0 /\ NumBlack(s) = 0
    BY DEF Init, NumFrames, NumBlack
  <2>2. NumDevice(s) = 0 /\ NumAsked(s) = 0 /\ NumJob(s) = 0 /\ NumEvents(s) = 0
    BY <1>4, HitsEmpty DEF NumDevice, NumAsked, NumJob, NumEvents
  <2>3. NumDequeued(s) = 0 /\ NumCounted(s) = 0
    BY <1>1 DEF NumDequeued, NumCounted
  <2>4. mRequestInProgress[s] = 0
    BY <1>2
  <2>5. QED
    BY <2>1, <2>2, <2>3, <2>4 DEF Ledger
<1>7. QED
  BY <1>3, <1>5, <1>6 DEF BufferInv, LedgerInv

(* Every buffer is accounted for, when there are records enough.           *)
AccountInv == EnoughInv /\ BufferInv

LEMMA AccountInductive ==
    ASSUME EnoughRecords
    PROVE  Spec => []AccountInv
<1>1. EnoughInv /\ BufferInv /\ [Next]_vars => BufferInv'
  <2> SUFFICES ASSUME EnoughInv, BufferInv, [Next]_vars PROVE BufferInv'
    OBVIOUS
  <2>1. Types /\ CalmInv /\ OffInv
    BY DEF EnoughInv, PoolInv
  <2>2. LedgerInv'
    BY <2>1, LedgerStep
  <2>3. CountersInv'
    BY <2>1, CountersStep DEF BufferInv
  <2>4. QuietInv'
    BY <2>1, QuietStep
  <2>5. EndsInv'
    BY <2>1, EndsStep DEF BufferInv
  <2>6. QED
    BY <2>2, <2>3, <2>4, <2>5 DEF BufferInv
<1>2. QED
  BY <1>1, BufferInit, EnoughInductive, PTL DEF Spec, AccountInv

(* The sums of the properties, as counts over the lists.                   *)
LEMMA SameDomain == ASSUME NEW T, NEW q \in Seq(T) PROVE DOMAIN q = 1 .. Len(q)
BY LenProperties

LEMMA SourceSums ==
    ASSUME Types, NEW s \in Streams
    PROVE  /\ ToRun(s) = IF mPrivacyStarted THEN NumAsked(s) + NumJob(s) ELSE NumDevice(s)
           /\ ToDequeue(s) = IF mPrivacyStarted THEN NumBlack(s) ELSE NumFrames(s)
           /\ Cardinality({k \in DOMAIN events : events[k] = Event("buffer", s)}) = NumEvents(s)
<1>1. /\ mCaptureRequest \in Seq(Known) /\ privacy.job \in Seq(Ids \X Streams)
      /\ device.requests \in Seq(Runs) /\ events \in Seq(EventSet)
  BY DEF Types, ListTypes, BlackTypes, DeviceTypes, EventTypes
<1>2. {k \in DOMAIN mCaptureRequest : mCaptureRequest[k] \in Has(s)} = At(mCaptureRequest, Has(s))
  BY <1>1, SameDomain DEF At
<1>3. {k \in DOMAIN privacy.job : privacy.job[k][2] = s} = At(privacy.job, Ids \X {s})
  <2>1. DOMAIN privacy.job = 1 .. Len(privacy.job)
    BY <1>1, SameDomain
  <2>2. \A k \in 1 .. Len(privacy.job) : privacy.job[k] \in Ids \X Streams
    BY <1>1, ElementOfSeq
  <2>3. \A x \in Ids \X Streams : x[2] = s <=> x \in Ids \X {s}
    OBVIOUS
  <2>4. QED
    BY <2>1, <2>2, <2>3 DEF At
<1>4. {k \in DOMAIN device.requests : s \in device.requests[k].left}
        = At(device.requests, WithBuffer(s))
  <2>1. DOMAIN device.requests = 1 .. Len(device.requests)
    BY <1>1, SameDomain
  <2>2. \A k \in 1 .. Len(device.requests) : device.requests[k] \in Runs
    BY <1>1, ElementOfSeq
  <2>3. QED
    BY <2>1, <2>2 DEF At, WithBuffer
<1>5. {k \in DOMAIN events : events[k] = Event("buffer", s)} = At(events, {Event("buffer", s)})
  BY <1>1, SameDomain DEF At
<1>6. QED
  BY <1>2, <1>3, <1>4, <1>5
     DEF ToRun, ToDequeue, Hits, NumAsked, NumJob, NumDevice, NumBlack, NumFrames, NumEvents

(* The counter of a stream that a switch of the source waits for counts    *)
(* each buffer between qbuf and dqbuf once: with the device or the source  *)
(* of black frames, waiting to be dequeued, or in the hands of one of the  *)
(* two threads, until the camera is stopped.                               *)
THEOREM CountersExact ==
    ASSUME MaxOutstanding <= kMaxProcessingRequest
    PROVE  Spec => []InProgressExact
<1>1. AccountInv => InProgressExact
  <2> SUFFICES ASSUME AccountInv, ~HaltingFor("stop"), NEW s \in Streams
               PROVE  mRequestInProgress[s] =
                        ToRun(s) + ToDequeue(s)
                        + (IF result.pc = "dequeued" /\ result.stream = s THEN 1 ELSE 0)
                        + (IF mMutex.pc = "queue" /\ s \in Wanted(infos[mMutex.info].id)
                           THEN 1 ELSE 0)
    BY DEF InProgressExact
  <2>1. Types /\ Ledger(s)
    BY DEF AccountInv, EnoughInv, PoolInv, BufferInv, LedgerInv, Stopping
  <2>2. /\ NumDevice(s) \in Nat /\ NumAsked(s) \in Nat /\ NumJob(s) \in Nat
        /\ NumFrames(s) \in Nat /\ NumBlack(s) \in Nat
        /\ NumDequeued(s) \in {0, 1} /\ NumCounted(s) \in {0, 1}
    BY <2>1, NumTypes
  <2>3. mRequestInProgress[s] = ToRun(s) + ToDequeue(s) + NumDequeued(s) + NumCounted(s)
    <3>1. CASE mPrivacyStarted
      <4>1. ToRun(s) = NumAsked(s) + NumJob(s) /\ ToDequeue(s) = NumBlack(s)
        BY <2>1, <3>1, SourceSums
      <4>2. NumDevice(s) = 0 /\ NumFrames(s) = 0
        BY <2>1, <3>1 DEF Ledger
      <4>3. mRequestInProgress[s] = NumDevice(s) + NumAsked(s) + NumJob(s) + NumFrames(s)
                                    + NumBlack(s) + NumDequeued(s) + NumCounted(s)
        BY <2>1 DEF Ledger
      <4>4. QED
        BY <2>2, <4>1, <4>2, <4>3
    <3>2. CASE ~mPrivacyStarted
      <4>1. ToRun(s) = NumDevice(s) /\ ToDequeue(s) = NumFrames(s)
        BY <2>1, <3>2, SourceSums
      <4>2. NumAsked(s) = 0 /\ NumJob(s) = 0 /\ NumBlack(s) = 0
        BY <2>1, <3>2 DEF Ledger
      <4>3. mRequestInProgress[s] = NumDevice(s) + NumAsked(s) + NumJob(s) + NumFrames(s)
                                    + NumBlack(s) + NumDequeued(s) + NumCounted(s)
        BY <2>1 DEF Ledger
      <4>4. QED
        BY <2>2, <4>1, <4>2, <4>3
    <3>3. QED
      BY <3>1, <3>2
  <2>4. QED
    BY <2>3 DEF NumDequeued, NumCounted
<1>2. QED
  BY <1>1, AccountInductive, PTL DEF EnoughRecords

(* Each buffer event that waits for the result thread has its buffer at    *)
(* the source that is the current one, and each buffer there has its       *)
(* event, however often the source is switched between a frame and its     *)
(* event, until the camera is stopped.                                     *)
THEOREM BuffersFound ==
    ASSUME MaxOutstanding <= kMaxProcessingRequest
    PROVE  Spec => []BuffersInSource
<1>1. AccountInv => BuffersInSource
  <2> SUFFICES ASSUME AccountInv, ~HaltingFor("stop"), NEW s \in Streams
               PROVE  Cardinality({k \in DOMAIN events : events[k] = Event("buffer", s)})
                        = ToDequeue(s)
    BY DEF BuffersInSource
  <2>1. Types /\ Ledger(s)
    BY DEF AccountInv, EnoughInv, PoolInv, BufferInv, LedgerInv, Stopping
  <2>2. NumFrames(s) \in Nat /\ NumBlack(s) \in Nat /\ NumEvents(s) = NumFrames(s) + NumBlack(s)
    BY <2>1, NumTypes DEF Ledger
  <2>3. IF mPrivacyStarted THEN NumFrames(s) = 0 ELSE NumBlack(s) = 0
    BY <2>1 DEF Ledger
  <2>4. QED
    BY <2>1, <2>2, <2>3, SourceSums
<1>2. QED
  BY <1>1, AccountInductive, PTL DEF EnoughRecords

(* Only processPrivacySwitch changes the source.                           *)
LEMMA OnlyFlip ==
    ASSUME [Next]_vars, ~FlipPrivacy
    PROVE  UNCHANGED mPrivacyStarted
<1>1. CASE HandleNewRequest \/ Stop \/ MoveShutter \/ UNCHANGED vars
  BY <1>1 DEF HandleNewRequest, Stop, MoveShutter, vars
<1>2. CASE WaitAllRequestsDone \/ StopPrivacy \/ JoinPrivacy \/ ClearRequests \/ StopStream
           \/ DeviceConfigure
  BY <1>2 DEF WaitAllRequestsDone, StopPrivacy, JoinPrivacy, ClearRequests, StopStream,
              DeviceConfigure
<1>3. CASE ClearStarted \/ PushRequest \/ ExitThreads \/ JoinResult
  BY <1>3 DEF ClearStarted, PushRequest, ExitThreads, JoinResult
<1>4. CASE Enter("capture") \/ Enter("result")
  BY <1>4 DEF Enter, NothingToProcess, CreateInfo
<1>5. CASE CountBuffers \/ QueueBuffers \/ StartSource \/ PopPending
  BY <1>5 DEF CountBuffers, QueueBuffers, StartSource, PopPending
<1>6. CASE ShutterReady \/ MetadataReady \/ DequeuePrivacy \/ DequeueDevice \/ Dequeued
  BY <1>6 DEF ShutterReady, MetadataReady, DequeuePrivacy, DequeueDevice, Dequeued
<1>7. CASE CompleteBuffer \/ Recycle \/ CompleteRequest
  BY <1>7 DEF CompleteBuffer, Recycle, CompleteRequest
<1>8. CASE Device \/ PrivacyThread
  BY <1>8 DEF Device, DispatchTask, SendMetadata, FrameAvailable,
              PrivacyThread, TakeCaptureRequest, PrivacyTell, PrivacyFrame
<1>9. QED
  BY <1>1, <1>2, <1>3, <1>4, <1>5, <1>6, <1>7, <1>8
     DEF Next, CaptureThread, ResultThread, ProcessNewRequest

(* processPrivacySwitch changes the source only when the old one has no    *)
(* buffer left, to be run or to be dequeued, although the result thread    *)
(* completes and queues requests while the capture thread waits.           *)
THEOREM SwitchedWhenQuiet ==
    ASSUME MaxOutstanding <= kMaxProcessingRequest
    PROVE  Spec => SwitchedQuiet
<1>1. AccountInv /\ [Next]_vars =>
        [mPrivacyStarted' # mPrivacyStarted => \A s \in Streams : ToRun(s) + ToDequeue(s) = 0]_vars
  <2> SUFFICES ASSUME AccountInv, [Next]_vars, mPrivacyStarted' # mPrivacyStarted,
                      NEW s \in Streams
               PROVE  ToRun(s) + ToDequeue(s) = 0
    OBVIOUS
  <2>1. Types /\ LedgerInv /\ QuietInv
    BY DEF AccountInv, EnoughInv, PoolInv, BufferInv
  <2>2. capture.pc = "flip"
    BY OnlyFlip DEF FlipPrivacy
  <2>3. capture.task = "switch" /\ ~Stopping
    BY <2>1, <2>2 DEF Types, CaptureTypes, Stopping, HaltingFor
  <2>4. mRequestInProgress[s] = 0 /\ Ledger(s)
    BY <2>1, <2>2, <2>3 DEF QuietInv, LedgerInv
  <2>5. /\ NumDevice(s) = 0 /\ NumAsked(s) = 0 /\ NumJob(s) = 0
        /\ NumFrames(s) = 0 /\ NumBlack(s) = 0
    BY <2>1, <2>4, LedgerZero
  <2>6. ToRun(s) = 0 /\ ToDequeue(s) = 0
    <3>1. CASE mPrivacyStarted
      <4>1. ToRun(s) = NumAsked(s) + NumJob(s) /\ ToDequeue(s) = NumBlack(s)
        BY <2>1, <3>1, SourceSums
      <4>2. QED
        BY <2>5, <4>1
    <3>2. CASE ~mPrivacyStarted
      <4>1. ToRun(s) = NumDevice(s) /\ ToDequeue(s) = NumFrames(s)
        BY <2>1, <3>2, SourceSums
      <4>2. QED
        BY <2>5, <4>1
    <3>3. QED
      BY <3>1, <3>2
  <2>7. QED
    BY <2>6
<1>2. QED
  BY <1>1, AccountInductive, PTL DEF Spec, SwitchedQuiet, EnoughRecords

=============================================================================
