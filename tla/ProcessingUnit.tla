---------------------------- MODULE ProcessingUnit ----------------------------
(***************************************************************************)
(* src/core/ProcessingUnit.cpp with the parts it cannot be understood      *)
(* without: its BufferQueue, the PipeManager with its list of tasks, the   *)
(* stages (CBStage) behind it with their executors (CameraScheduler) and   *)
(* the poll threads of PSysDevice.                                         *)
(*                                                                         *)
(* Raw frames of the producer and the buffers of requests are paired by    *)
(* the process thread, run by one pipe per stream (video, still), and      *)
(* handed to the application; the raw buffer goes back to the producer.    *)
(* With HAL ZSL the last raw frames are kept (mRawBufferMap), and a still  *)
(* request may name one of them.                                           *)
(*                                                                         *)
(* One action is one section of a lock: mBufferQueueLock, mBufferMapLock,  *)
(* the task lock of PipeManager, the locks of a stage.                     *)
(***************************************************************************)
EXTENDS Integers, Sequences, FiniteSets, SequencesExt

CONSTANTS
    NumPorts,       \* output ports, one per stream, 1 .. NumPorts
    Pipes,          \* the pipes there may be: video, still
    StillPorts,     \* ports of still capture streams
    NumRaw,         \* raw buffers allocated for the producer
    RawHold,        \* getMaxRawDataNum - getMaxPipelineDepth
    MAX_FRAME_NUM,  \* tasks a stage gives to the hardware at once
    TnrFrames,      \* frames a still needs before its own, 0: no TNR
    Wants,          \* bound: the sets of ports requests ask for
    Scenarios,      \* bound: [zsl: is HAL ZSL supported,
                    \*         pipeOf: the pipe that writes each port, lost:
                    \*         frames, gaps: between settings, skip: sequences]
    MaxSeq,         \* bound: the last sequence of the sensor
    MaxRequests     \* bound: requests

Ports == 1 .. NumPorts
Raws  == 1 .. NumRaw
Seqs  == 0 .. MaxSeq
None  == 0                          \* nullptr: a port without a buffer

ASSUME ProcessingAssumption ==
    /\ NumPorts \in Nat \ {0} /\ NumRaw \in Nat \ {0}
    /\ \A c \in Scenarios : c.pipeOf \in [Ports -> Pipes]
    /\ StillPorts \subseteq Ports
    /\ RawHold \in Nat /\ MAX_FRAME_NUM \in Nat \ {0}
    /\ TnrFrames \in Nat
    /\ Wants \subseteq (SUBSET Ports) \ {{}}
    /\ MaxSeq \in Nat /\ MaxRequests \in Nat
ASSUME PipesAssumption == IsFiniteSet(Pipes)

VARIABLES
    scenario,       \* the platform, and what goes wrong with frames
    \* the producer (CaptureUnit), as it is used from here
    free,           \* raw buffers queued to it
    lastSeq, lost,  \* the sensor's last sequence, frames lost so far
    seqOf,          \* CameraBuffer::getSequence of each raw buffer
    captured,       \* sequences that reached the input queue
    \* requests
    requests,       \* what was asked: ports, setting sequence, reprocessing
    feeding,        \* the port handleQueueBuffer comes to next
    \* BufferQueue and ProcessingUnit
    mInputQueue, mOutputQueue, mRawBufferMap, mSequencesInflight,
    mLastStillTnrSequence,
    pt,             \* the process thread
    \* PipeManager
    mOngoingTasks,
    \* per pipe: buffers queued to the stage, tasks in the hardware, executor,
    \* poll thread
    stageQueue, mStageTaskList, executor, poll,
    \* the application
    served          \* per port, pairs of a request and a sequence: the frames
                    \* returned, and what fake tasks returned early

producer == <<free, lastSeq, lost, seqOf, captured>>
asked    == <<requests, feeding>>
pipes    == <<stageQueue, mStageTaskList, executor, poll>>
vars == <<scenario, producer, asked, mInputQueue, mOutputQueue, mRawBufferMap,
          mSequencesInflight, mLastStillTnrSequence, pt, mOngoingTasks, pipes, served>>

Idle == [pc |-> "wait", raw |-> None, dst |-> <<>>, todo |-> <<>>, src |-> None]
Asleep == [pc |-> "idle", ports |-> {}, task |-> <<>>]

Init ==
    /\ scenario \in Scenarios
    /\ free = Raws /\ lastSeq = -1 /\ lost = 0
    /\ seqOf = [b \in Raws |-> -1]
    /\ captured = {}
    /\ requests = <<>> /\ feeding = NumPorts + 1
    /\ mInputQueue = <<>>
    /\ mOutputQueue = [p \in Ports |-> <<>>]
    /\ mRawBufferMap = {}
    /\ mSequencesInflight = [s \in Seqs |-> 0]
    /\ mLastStillTnrSequence = -1
    /\ pt = Idle
    /\ mOngoingTasks = <<>>
    /\ stageQueue = [i \in Pipes |-> <<>>]
    /\ mStageTaskList = [i \in Pipes |-> <<>>]
    /\ executor = [i \in Pipes |-> "wait"]
    /\ poll = [i \in Pipes |-> Asleep]
    /\ served = [p \in Ports |-> [frames |-> <<>>, early |-> <<>>]]

-----------------------------------------------------------------------------
(* The producer and the request thread.                                    *)

(* A frame is ready.  Which buffer it is in does not matter: buffers are   *)
(* told apart by what they hold.                                           *)
Capture ==
    /\ lastSeq < MaxSeq /\ free # {}
    /\ LET b == CHOOSE b \in free : \A c \in free : b <= c IN
       /\ free' = free \ {b}
       /\ seqOf' = [seqOf EXCEPT ![b] = lastSeq + 1]
       /\ mInputQueue' = Append(mInputQueue, b)
    /\ lastSeq' = lastSeq + 1
    /\ captured' = captured \cup {lastSeq + 1}
    /\ UNCHANGED <<scenario, lost, asked, mOutputQueue, mRawBufferMap,
                   mSequencesInflight, mLastStillTnrSequence, pt, mOngoingTasks,
                   pipes, served>>

LoseFrame ==
    /\ lost < scenario.lost /\ lastSeq < MaxSeq
    /\ lastSeq' = lastSeq + 1 /\ lost' = lost + 1
    /\ UNCHANGED <<scenario, free, seqOf, captured, asked, mInputQueue, mOutputQueue,
                   mRawBufferMap, mSequencesInflight, mLastStillTnrSequence, pt, mOngoingTasks,
                   pipes, served>>

LastSetting ==
    LET normal == {r \in DOMAIN requests : ~requests[r].reprocess} IN
    IF normal = {} THEN -1
    ELSE requests[CHOOSE r \in normal : \A q \in normal : q <= r].setting

(* Frames the application knows of: their metadata is sent when their task *)
(* is dispatched.                                                          *)
Reported ==
    {t.seq : t \in ToSet(mOngoingTasks)}
      \cup {e[2] : e \in UNION {ToSet(served[p].frames \o served[p].early) : p \in Ports}}

(* handleRequest computes the setting sequence: the one its 3A run is      *)
(* effective on, or the sequence of the frame to reprocess.                *)
NewRequest ==
    /\ feeding > NumPorts
    /\ Len(requests) < MaxRequests
    /\ \E w \in Wants :
       \/ \E s \in Seqs :
            /\ s - LastSetting \in scenario.gaps
            /\ requests' = Append(requests, [wants |-> w, setting |-> s, reprocess |-> FALSE])
       \/ \E s \in Seqs \cap Reported :
            /\ scenario.zsl /\ w \cap StillPorts # {}
            /\ requests' = Append(requests, [wants |-> w, setting |-> s, reprocess |-> TRUE])
    /\ feeding' = 1
    /\ UNCHANGED <<scenario, producer, mInputQueue, mOutputQueue, mRawBufferMap,
                   mSequencesInflight, mLastStillTnrSequence, pt, mOngoingTasks,
                   pipes, served>>

(* Every stream gets a buffer, a null one if the request has none for it.  *)
EntryFor(p) == IF p \in requests[Len(requests)].wants THEN Len(requests) ELSE None

(* Mutated form: a port the request does not want gets nothing.            *)
QueuedIfWanted(p) ==
    IF EntryFor(p) = None THEN mOutputQueue[p] ELSE Append(mOutputQueue[p], EntryFor(p))

Queued(p) == Append(mOutputQueue[p], EntryFor(p))

HandleQueueBuffer ==
    /\ feeding <= NumPorts
    /\ mOutputQueue' = [mOutputQueue EXCEPT ![feeding] = Queued(feeding)]
    /\ feeding' = feeding + 1
    /\ UNCHANGED <<scenario, producer, requests, mInputQueue, mRawBufferMap,
                   mSequencesInflight, mLastStillTnrSequence, pt, mOngoingTasks,
                   pipes, served>>

-----------------------------------------------------------------------------
(* Helpers of ProcessingUnit.                                              *)

InFlight(s) == mSequencesInflight[s] > 0
AnyInFlight == \E s \in Seqs : InFlight(s)
Skips(s) == s \in scenario.skip

Setting(dst) ==
    LET some == {p \in Ports : dst[p] # None} IN
    IF some = {} THEN -1
    ELSE requests[dst[CHOOSE p \in some : \A q \in some : p <= q]].setting

(* Mutated form: the pipe runs on the exact frame only.                    *)
NeedExecutePipeExact(setting, input) == setting = -1 \/ input = setting

NeedExecutePipe(setting, input) == setting = -1 \/ input >= setting

NeedHoldOnInputFrame(setting, input) == setting # -1 /\ input > setting

Oldest == CHOOSE b \in mRawBufferMap : \A c \in mRawBufferMap : seqOf[b] <= seqOf[c]

(* Mutated forms: the frame may be in use, or nothing is given back.       *)
MayReturnOldestInUse == Cardinality(mRawBufferMap) > RawHold
MayReturnOldestNever == FALSE

(* Whether returnRawBuffer gives the oldest frame kept back.               *)
MayReturnOldest ==
    /\ Cardinality(mRawBufferMap) > RawHold
    /\ ~InFlight(seqOf[Oldest])

(* handleZslReprocessing holds mBufferMapLock until its task is added.     *)
BufferMapLocked == pt.pc = "add" /\ Head(pt.todo).kind = "zsl"

ReturnRawBuffer ==
    IF MayReturnOldest
    THEN free' = free \cup {Oldest} /\ mRawBufferMap' = mRawBufferMap \ {Oldest}
    ELSE UNCHANGED <<free, mRawBufferMap>>

-----------------------------------------------------------------------------
(* The process thread: processNewFrame, prepareTask, dispatchTask.         *)

OutputsReady == \A p \in Ports : mOutputQueue[p] # <<>>

(* processNewFrame up to the end of its first lock section.                *)
ProcessNewFrame ==
    /\ pt.pc = "wait"
    /\ mInputQueue # <<>> /\ OutputsReady
    /\ pt' = [Idle EXCEPT !.pc = IF scenario.zsl THEN "save" ELSE "pop",
                          !.raw = Head(mInputQueue),
                          !.dst = [p \in Ports |-> Head(mOutputQueue[p])]]
    /\ UNCHANGED <<scenario, producer, asked, mInputQueue, mOutputQueue, mRawBufferMap,
                   mSequencesInflight, mLastStillTnrSequence, mOngoingTasks,
                   pipes, served>>

(* No input within kQueueTimeout, or an output queue is empty: the         *)
(* scheduler is only triggered for the tasks that remain.                  *)
NothingToPrepare ==
    /\ pt.pc = "wait"
    /\ mInputQueue = <<>> \/ ~OutputsReady
    /\ AnyInFlight
    /\ pt' = [pt EXCEPT !.pc = "execute"]
    /\ UNCHANGED <<scenario, producer, asked, mInputQueue, mOutputQueue, mRawBufferMap,
                   mSequencesInflight, mLastStillTnrSequence, mOngoingTasks,
                   pipes, served>>

(* saveRawBuffer up to returnRawBuffer.                                    *)
SaveRawBuffer ==
    /\ pt.pc = "save"
    /\ mRawBufferMap' = mRawBufferMap \cup {pt.raw}
    /\ pt' = [pt EXCEPT !.pc = "trim"]
    /\ UNCHANGED <<scenario, producer, asked, mInputQueue, mOutputQueue,
                   mSequencesInflight, mLastStillTnrSequence, mOngoingTasks,
                   pipes, served>>

TrimRawBuffers ==
    /\ pt.pc = "trim"
    /\ ReturnRawBuffer
    /\ pt' = [pt EXCEPT !.pc = "pop"]
    /\ UNCHANGED <<scenario, lastSeq, lost, seqOf, captured, asked, mInputQueue,
                   mOutputQueue, mSequencesInflight, mLastStillTnrSequence, mOngoingTasks,
                   pipes, served>>

Reprocessed(dst) ==
    LET still == {p \in StillPorts : dst[p] # None} IN
    IF scenario.zsl /\ still # {} /\ \E p \in still : requests[dst[p]].reprocess
    THEN requests[dst[CHOOSE p \in still : TRUE]].setting ELSE -1

Job(kind, s, dst) == [kind |-> kind, seq |-> s, dst |-> dst]

Only(ports, dst) == [p \in Ports |-> IF p \in ports THEN dst[p] ELSE None]

StillsOf(dst) == {p \in StillPorts : dst[p] # None}

(* handleExtraTasksForTnr: earlier frames run for the TNR of a still, into *)
(* the still's own buffer.                                                 *)
TnrJobs(dst, s) ==
    LET first == IF s < TnrFrames - 1 THEN 0 ELSE s - (TnrFrames - 1) IN
    IF TnrFrames = 0 \/ StillsOf(dst) = {} \/ first <= mLastStillTnrSequence
    THEN <<>>
    ELSE [i \in 1 .. (s - first) |-> Job("fake", first + i - 1, Only(StillPorts, dst))]

(* prepareTask: which queues are popped, and the tasks to dispatch.        *)
PrepareTask ==
    /\ pt.pc = "pop"
    /\ LET s    == seqOf[pt.raw]
           set  == Setting(pt.dst)
           z    == Reprocessed(pt.dst)
           run  == NeedExecutePipe(set, s)
           hold == NeedHoldOnInputFrame(set, s)
           main == Job("main", s, pt.dst)
           at   == IF z >= 0 THEN z ELSE s
           zsl  == IF z >= 0 THEN <<Job("zsl", z, Only(StillPorts, pt.dst))>> ELSE <<>>
       IN
       /\ mOutputQueue' = IF run /\ ~Skips(s)
                          THEN [p \in Ports |-> Tail(mOutputQueue[p])] ELSE mOutputQueue
       /\ mInputQueue' = IF ~hold /\ z = -1 THEN Tail(mInputQueue) ELSE mInputQueue
       /\ free' = IF ~run /\ ~hold /\ pt.raw \notin mRawBufferMap
                  THEN free \cup {pt.raw} ELSE free
       /\ pt' = [pt EXCEPT !.pc = IF run THEN "fetch" ELSE "execute",
                           !.todo = IF run THEN TnrJobs(pt.dst, at) \o zsl \o <<main>>
                                    ELSE <<>>]
       /\ mLastStillTnrSequence' = IF run /\ TnrFrames > 0 /\ StillsOf(pt.dst) # {}
                                   THEN at ELSE mLastStillTnrSequence
    /\ UNCHANGED <<scenario, lastSeq, lost, seqOf, captured, asked, mRawBufferMap,
                   mSequencesInflight, mOngoingTasks, pipes, served>>

Kept(s) == {b \in mRawBufferMap : seqOf[b] = s}

FirstStill(p, dst) == p \in StillsOf(dst) /\ \A q \in StillsOf(dst) : p <= q

(* The task left for the current frame once the stills have their own: one *)
(* if there are other buffers, without the first still's (line 806); the   *)
(* buffer of a second still would be written again.                        *)
Rest(todo) ==
    LET dst  == Head(todo).dst
        rest == [p \in Ports |-> IF FirstStill(p, dst) THEN None ELSE dst[p]] IN
    IF \A p \in Ports \ StillPorts : dst[p] = None THEN <<>>
    ELSE <<[Head(todo) EXCEPT !.dst = rest]>>

Insert(s) == [mSequencesInflight EXCEPT ![s] = @ + 1]

(* The raw frame of the next task: the current one, or one that was kept.  *)
(* handleZslReprocessing inserts its sequence in the same section of       *)
(* mBufferMapLock, handleExtraTasksForTnr in a later one.                  *)
FetchSource ==
    /\ pt.pc = "fetch"
    /\ LET job   == Head(pt.todo)
           found == job.kind = "main" \/ Kept(job.seq) # {}
           src   == IF job.kind = "main" THEN pt.raw ELSE CHOOSE b \in Kept(job.seq) : TRUE
       IN IF ~found
          THEN /\ pt' = [pt EXCEPT !.todo = Tail(@)]
               /\ UNCHANGED mSequencesInflight
          ELSE IF job.kind = "zsl"
          THEN /\ pt' = [pt EXCEPT !.pc = "add", !.src = src,
                              !.todo = <<job>> \o Rest(Tail(@))]
               /\ mSequencesInflight' = Insert(job.seq)
          ELSE /\ pt' = [pt EXCEPT !.pc = "dispatch", !.src = src]
               /\ UNCHANGED mSequencesInflight
    /\ UNCHANGED <<scenario, producer, asked, mInputQueue, mOutputQueue, mRawBufferMap,
                   mLastStillTnrSequence, mOngoingTasks, pipes, served>>

(* dispatchTask up to the end of its lock section.                         *)
DispatchTask ==
    /\ pt.pc = "dispatch"
    /\ mSequencesInflight' = Insert(seqOf[pt.src])
    /\ pt' = [pt EXCEPT !.pc = "add"]
    /\ UNCHANGED <<scenario, producer, asked, mInputQueue, mOutputQueue, mRawBufferMap,
                   mLastStillTnrSequence, mOngoingTasks, pipes, served>>

(* mOngoingTasks is a multimap: ordered by sequence, then by insertion.    *)
InsertTask(task) ==
    LET before == {k \in DOMAIN mOngoingTasks : mOngoingTasks[k].seq <= task.seq}
    IN InsertAt(mOngoingTasks, Cardinality(before) + 1, task)

PipeOf(p) == scenario.pipeOf[p]

(* The ports a task writes, and their pipes.                               *)
Writes(task) == {p \in Ports : task.dst[p] # None}
Active(task) == {PipeOf(p) : p \in Writes(task)}

PortsOf(i) == {p \in Ports : PipeOf(p) = i}

(* addTask and queueBuffers: the task is listed, then each pipe with an    *)
(* output to write gets its buffers, the input last.                       *)
AddTask ==
    /\ pt.pc = "add"
    /\ LET job  == Head(pt.todo)
           s    == seqOf[pt.src]
           task == [raw |-> pt.src, seq |-> s, dst |-> job.dst, fake |-> job.kind = "fake",
                    left |-> Cardinality(Writes(job))]
       IN
       /\ mOngoingTasks' = InsertTask(task)
       /\ stageQueue' = [i \in Pipes |->
            IF i \in Active(task)
            THEN Append(stageQueue[i],
                        [task EXCEPT !.dst = Only(PortsOf(i), @)])
            ELSE stageQueue[i]]
    /\ pt' = [pt EXCEPT !.todo = Tail(@), !.src = None,
                        !.pc = IF Len(pt.todo) = 1 THEN "execute" ELSE "fetch"]
    /\ UNCHANGED <<scenario, producer, asked, mInputQueue, mOutputQueue, mRawBufferMap,
                   mSequencesInflight, mLastStillTnrSequence, mStageTaskList, executor,
                   poll, served>>

(* processNewFrame triggers the scheduler.  An executor that does not wait *)
(* misses the trigger.                                                     *)
ExecuteNode ==
    /\ pt.pc = "execute"
    /\ executor' = [i \in Pipes |-> IF AnyInFlight /\ PortsOf(i) # {} THEN "run" ELSE executor[i]]
    /\ pt' = Idle
    /\ UNCHANGED <<scenario, producer, asked, mInputQueue, mOutputQueue, mRawBufferMap,
                   mSequencesInflight, mLastStillTnrSequence, mOngoingTasks, stageQueue,
                   mStageTaskList, poll, served>>

-----------------------------------------------------------------------------
(* The executors and the stages.                                           *)

(* Executor::threadLoop from a trigger, or the timeout of waitTrigger,     *)
(* which it takes for one.                                                 *)
WaitTimeout(i) ==
    /\ executor[i] = "wait" /\ PortsOf(i) # {}
    /\ executor' = [executor EXCEPT ![i] = "run"]
    /\ UNCHANGED <<scenario, producer, asked, mInputQueue, mOutputQueue, mRawBufferMap,
                   mSequencesInflight, mLastStillTnrSequence, pt, mOngoingTasks,
                   stageQueue, mStageTaskList, poll, served>>

StageHasRoom(i) == Len(mStageTaskList[i]) < MAX_FRAME_NUM

(* CBStage::process and addTask.  The list is locked while bufferDone runs *)
(* the callbacks of the task at its front.                                 *)
Process(i) ==
    /\ executor[i] = "run"
    /\ poll[i].pc = "idle"
    /\ executor' = [executor EXCEPT ![i] = "wait"]
    /\ IF StageHasRoom(i) /\ stageQueue[i] # <<>>
       THEN /\ stageQueue' = [stageQueue EXCEPT ![i] = Tail(@)]
            /\ mStageTaskList' = [mStageTaskList EXCEPT ![i] = Append(@, Head(stageQueue[i]))]
       ELSE UNCHANGED <<stageQueue, mStageTaskList>>
    /\ UNCHANGED <<scenario, producer, asked, mInputQueue, mOutputQueue, mRawBufferMap,
                   mSequencesInflight, mLastStillTnrSequence, pt, mOngoingTasks, poll,
                   served>>

(* The hardware is done with the oldest task: PSysDevice::handleEvent.     *)
HandleEvent(i) ==
    /\ poll[i].pc = "idle"
    /\ mStageTaskList[i] # <<>>
    /\ poll' = [poll EXCEPT ![i] =
         [pc |-> "buffers", ports |-> Writes(Head(mStageTaskList[i])), task |-> <<>>]]
    /\ UNCHANGED <<scenario, producer, asked, mInputQueue, mOutputQueue, mRawBufferMap,
                   mSequencesInflight, mLastStillTnrSequence, pt, mOngoingTasks,
                   stageQueue, mStageTaskList, executor, served>>

(* The task an output buffer belongs to: the first one that has the same   *)
(* user buffer.                                                            *)
Matches(p, r) == {k \in DOMAIN mOngoingTasks : mOngoingTasks[k].dst[p] = r}

TaskOf(p, r) == CHOOSE k \in Matches(p, r) : \A j \in Matches(p, r) : k <= j

(* The callbacks are made in the order of the ports.                       *)
NextPort(i) == Min(poll[i].ports)

(* A buffer that a fake task wrote is given to the application as well,    *)
(* before the frame it is for is in it.                                    *)
Kind(task) == IF task.fake THEN "early" ELSE "frames"

(* PipeManager::onBufferDone, and the buffer given to the application.     *)
OnBufferDone(i) ==
    /\ poll[i].pc = "buffers" /\ poll[i].ports # {}
    /\ LET p == NextPort(i)
           job == Head(mStageTaskList[i])
           k == TaskOf(p, job.dst[p])
           task == mOngoingTasks[k]
       IN
       /\ Matches(p, job.dst[p]) # {}
       /\ served' = IF Skips(job.seq) THEN served
                    ELSE [served EXCEPT ![p][Kind(job)] = Append(@, <<job.dst[p], job.seq>>)]
       /\ IF task.left = 1
          THEN /\ mOngoingTasks' = RemoveAt(mOngoingTasks, k)
               /\ poll' = [poll EXCEPT ![i] =
                    [pc |-> "done", ports |-> @.ports \ {p}, task |-> <<task>>]]
          ELSE /\ mOngoingTasks' = [mOngoingTasks EXCEPT ![k].left = @ - 1]
               /\ poll' = [poll EXCEPT ![i].ports = @ \ {p}]
    /\ UNCHANGED <<scenario, producer, asked, mInputQueue, mOutputQueue, mRawBufferMap,
                   mSequencesInflight, mLastStillTnrSequence, pt, stageQueue,
                   mStageTaskList, executor>>

(* Mutated form: the raw buffer is left to somebody else.                  *)
GivesBackNever(task) == FALSE

(* ProcessingUnit::onTaskDone gives the raw buffer back unless it is held  *)
(* for the next request or kept for reprocessing.                          *)
GivesBack(task) ==
    /\ ~task.fake
    /\ ~NeedHoldOnInputFrame(Setting(task.dst), task.seq)
    /\ task.raw \notin mRawBufferMap

OnTaskDone(i) ==
    /\ poll[i].pc = "done"
    /\ poll[i].task[1].fake \/ ~BufferMapLocked
    /\ LET task == poll[i].task[1] IN
       free' = IF GivesBack(task) THEN free \cup {task.raw} ELSE free
    /\ poll' = [poll EXCEPT ![i].pc = "erase"]
    /\ UNCHANGED <<scenario, lastSeq, lost, seqOf, captured, asked, mInputQueue,
                   mOutputQueue, mRawBufferMap, mSequencesInflight,
                   mLastStillTnrSequence, pt, mOngoingTasks, stageQueue, mStageTaskList,
                   executor, served>>

(* Mutated form: every instance of the sequence is erased.                 *)
EraseAll(s) == [mSequencesInflight EXCEPT ![s] = 0]

Erase(s) == [mSequencesInflight EXCEPT ![s] = @ - 1]

EraseSequence(i) ==
    /\ poll[i].pc = "erase"
    /\ mSequencesInflight' = Erase(poll[i].task[1].seq)
    /\ poll' = [poll EXCEPT ![i].pc = "trim"]
    /\ UNCHANGED <<scenario, producer, asked, mInputQueue, mOutputQueue, mRawBufferMap,
                   mLastStillTnrSequence, pt, mOngoingTasks, stageQueue, mStageTaskList,
                   executor, served>>

TrimAfterTask(i) ==
    /\ poll[i].pc = "trim" /\ ~BufferMapLocked
    /\ ReturnRawBuffer
    /\ poll' = [poll EXCEPT ![i].pc = "buffers", ![i].task = <<>>]
    /\ UNCHANGED <<scenario, lastSeq, lost, seqOf, captured, asked, mInputQueue,
                   mOutputQueue, mSequencesInflight, mLastStillTnrSequence, pt,
                   mOngoingTasks, stageQueue, mStageTaskList, executor, served>>

(* The end of CBStage::bufferDone.                                         *)
PopTask(i) ==
    /\ poll[i].pc = "buffers" /\ poll[i].ports = {}
    /\ poll' = [poll EXCEPT ![i] = Asleep]
    /\ mStageTaskList' = [mStageTaskList EXCEPT ![i] = Tail(@)]
    /\ UNCHANGED <<scenario, producer, asked, mInputQueue, mOutputQueue, mRawBufferMap,
                   mSequencesInflight, mLastStillTnrSequence, pt, mOngoingTasks,
                   stageQueue, executor, served>>

-----------------------------------------------------------------------------
ProcessThread ==
    \/ ProcessNewFrame \/ NothingToPrepare \/ SaveRawBuffer \/ TrimRawBuffers
    \/ PrepareTask \/ FetchSource \/ DispatchTask \/ AddTask \/ ExecuteNode

Executor(i) == WaitTimeout(i) \/ Process(i)

PollThread(i) ==
    \/ HandleEvent(i)
    \/ OnBufferDone(i) \/ OnTaskDone(i) \/ EraseSequence(i) \/ TrimAfterTask(i) \/ PopTask(i)

Next ==
    \/ Capture \/ LoseFrame \/ NewRequest \/ HandleQueueBuffer
    \/ ProcessThread
    \/ \E i \in Pipes : Executor(i) \/ PollThread(i)

Spec == Init /\ [][Next]_vars

-----------------------------------------------------------------------------
(* Properties.                                                             *)

TypeOK ==
    /\ free \subseteq Raws /\ mRawBufferMap \subseteq Raws
    /\ captured \subseteq Seqs
    /\ seqOf \in [Raws -> Seqs \cup {-1}]
    /\ mSequencesInflight \in [Seqs -> Nat]
    /\ mInputQueue \in Seq(Raws)
    /\ \A p \in Ports : mOutputQueue[p] \in Seq(0 .. MaxRequests)
    /\ \A i \in Pipes : Len(mStageTaskList[i]) <= MAX_FRAME_NUM

(* What a pipe will read or reads.  When its poll thread runs callbacks    *)
(* the hardware is done with the first task.                               *)
Reading(i) ==
    (IF poll[i].pc = "idle" THEN mStageTaskList[i] ELSE Tail(mStageTaskList[i])) \o stageQueue[i]

InUse == {t.raw : t \in UNION {ToSet(Reading(i)) : i \in Pipes}}

(* Raw buffers of the process thread.                                      *)
InHand == IF pt.pc \in {"wait", "execute"} THEN {} ELSE {pt.raw, pt.src} \ {None}

(* A raw buffer with the producer, which the next frame may be written to, *)
(* is neither waiting for a task, nor read by one, nor kept for a still.   *)
RawSafe == free \cap (InUse \cup InHand \cup ToSet(mInputQueue) \cup mRawBufferMap) = {}

(* A raw buffer the producer does not have is on a way back to it: in the  *)
(* input queue, kept, or the input of a task that is not done.             *)
RawNotLost ==
    Raws = free \cup InHand \cup ToSet(mInputQueue) \cup mRawBufferMap
             \cup {t.raw : t \in ToSet(mOngoingTasks)}
             \cup {poll[i].task[1].raw : i \in {j \in Pipes : poll[j].pc = "done"}}

(* mSequencesInflight counts the tasks from their dispatch to their end,   *)
(* whatever number of them share a frame.                                  *)
InFlightExact == \A s \in Seqs :
    mSequencesInflight[s] =
        Cardinality({k \in DOMAIN mOngoingTasks : mOngoingTasks[k].seq = s})
        + (IF pt.pc = "add" /\ seqOf[pt.src] = s THEN 1 ELSE 0)
        + Cardinality({i \in Pipes : poll[i].pc \in {"done", "erase"} /\ poll[i].task[1].seq = s})

(* The frames kept do not starve the sensor: when nothing is in flight or  *)
(* left to pair, the producer has a buffer for the next frame.             *)
ProducerNotStarved ==
    (pt.pc = "wait" /\ mInputQueue = <<>> /\ mOngoingTasks = <<>> /\ ~AnyInFlight
        /\ \A i \in Pipes : poll[i].pc = "idle" /\ RawHold < NumRaw)
    => free # {}

(* What the application gets, without what the fake tasks of TNR write     *)
(* into its buffer before.                                                 *)
Shown == [p \in Ports |-> served[p].frames]

(* The pipeline implements the service of FrameService: every stream's     *)
(* requests are answered once and in order with the frame they are for.    *)
Service == INSTANCE FrameService WITH skip <- scenario.skip, served <- Shown

ServesFrames == Service!Spec

(* Every request is answered on every stream once its frame is taken,      *)
(* although triggers of the executors get lost.                            *)
Answers == Service!Progress

Fairness ==
    /\ WF_vars(HandleQueueBuffer) /\ WF_vars(ProcessThread)
    /\ \A i \in Pipes : WF_vars(Executor(i)) /\ WF_vars(PollThread(i))

FairSpec == Spec /\ Fairness

=============================================================================
