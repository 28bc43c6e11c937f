----------------------------- MODULE OutputFrames -----------------------------
(***************************************************************************)
(* The other half of src/core/RequestThread.cpp: the queues of finished    *)
(* buffers, one per stream, that threads of the application wait on in     *)
(* CameraDevice::dqbuf, and the way stop and deinit treat them.  With      *)
(* RequestThread.tla it shares mState only.                                *)
(*                                                                         *)
(* One action is one section of a stream's mFrameMutex.                    *)
(***************************************************************************)
EXTENDS Integers, Sequences

CONSTANTS
    NumStreams,   \* mStreamNum, streams are 0 .. NumStreams - 1
    Consumers,    \* threads of the application that call dqbuf
    StreamOf,     \* the stream each of them dequeues from
    MaxFrames,    \* bound: frames delivered
    MaxStops      \* bound: calls of stop

Streams == 0 .. NumStreams - 1

ASSUME OutputAssumption ==
    /\ NumStreams \in Nat \ {0}
    /\ StreamOf \in [Consumers -> Streams]
    /\ MaxFrames \in Nat /\ MaxStops \in Nat

VARIABLES
    mState,       \* RequestThread::mState, whether it is EXIT
    mFrameQueue,  \* per stream, the numbers of the frames queued
    dq,           \* where each consumer is
    clearing,     \* the stream clearRequests comes to next, NumStreams: done
    delivered,    \* frames delivered so far
    stops

vars == <<mState, mFrameQueue, dq, clearing, delivered, stops>>

Init ==
    /\ mState = "PROCESSING"
    /\ mFrameQueue = [s \in Streams |-> <<>>]
    /\ dq = [c \in Consumers |-> "user"]
    /\ clearing = NumStreams /\ delivered = 0 /\ stops = 0

Waiting(s) == {c \in Consumers : StreamOf[c] = s /\ dq[c] = "wait"}

(* notify_one: one of the waiting threads, if any.                         *)
NotifyOne(s) ==
    IF Waiting(s) = {} THEN dq' = dq
    ELSE \E c \in Waiting(s) : dq' = [dq EXCEPT ![c] = "woken"]

NotifyAll(s) ==
    dq' = [c \in Consumers |-> IF c \in Waiting(s) THEN "woken" ELSE dq[c]]

-----------------------------------------------------------------------------
(* dqbuf.                                                                  *)

Dqbuf(c) ==
    /\ dq[c] = "user"
    /\ dq' = [dq EXCEPT ![c] = "call"]
    /\ UNCHANGED <<mState, mFrameQueue, clearing, delivered, stops>>

(* Mutated form of the next: no test of EXIT after a wait.                 *)
ExitSeenBeforeWait(c) == mState = "EXIT" /\ dq[c] = "call"

ExitSeen(c) == mState = "EXIT"

(* waitFrame from the test of EXIT to the next wait or to its return.      *)
WaitFrame(c) ==
    LET s == StreamOf[c] IN
    /\ dq[c] \in {"call", "woken"}
    /\ IF ExitSeen(c)
       THEN dq' = [dq EXCEPT ![c] = "released"] /\ UNCHANGED mFrameQueue
       ELSE IF mFrameQueue[s] = <<>>
       THEN dq' = [dq EXCEPT ![c] = "wait"] /\ UNCHANGED mFrameQueue
       ELSE /\ dq' = [dq EXCEPT ![c] = "user"]
            /\ mFrameQueue' = [mFrameQueue EXCEPT ![s] = Tail(@)]
    /\ UNCHANGED <<mState, clearing, delivered, stops>>

SpuriousWakeup(c) ==
    /\ dq[c] = "wait"
    /\ dq' = [dq EXCEPT ![c] = "woken"]
    /\ UNCHANGED <<mState, mFrameQueue, clearing, delivered, stops>>

(* The 5 s pass.  The thread leaves the wait set at once but takes the     *)
(* lock, and looks at mState, later.                                       *)
Timeout(c) ==
    /\ dq[c] = "wait"
    /\ dq' = [dq EXCEPT ![c] = "timeout"]
    /\ UNCHANGED <<mState, mFrameQueue, clearing, delivered, stops>>

(* TIMED_OUT whatever the queue holds by now: dqbuf calls waitFrame again. *)
TimedOut(c) ==
    /\ dq[c] = "timeout"
    /\ dq' = [dq EXCEPT ![c] = IF ExitSeen(c) THEN "released" ELSE "call"]
    /\ UNCHANGED <<mState, mFrameQueue, clearing, delivered, stops>>

ConsumerStep(c) ==
    Dqbuf(c) \/ WaitFrame(c) \/ SpuriousWakeup(c) \/ Timeout(c) \/ TimedOut(c)

-----------------------------------------------------------------------------
(* handleEvent(EVENT_FRAME_AVAILABLE) for a buffer of the application.     *)
NeedSignalInverted(s) == mFrameQueue[s] # <<>>   \* mutated form

NeedSignal(s) == mFrameQueue[s] = <<>>

HandleFrameAvailable(s) ==
    /\ delivered < MaxFrames
    /\ delivered' = delivered + 1
    /\ mFrameQueue' = [mFrameQueue EXCEPT ![s] = Append(@, delivered + 1)]
    /\ IF NeedSignal(s) THEN NotifyOne(s) ELSE UNCHANGED dq
    /\ UNCHANGED <<mState, clearing, stops>>

-----------------------------------------------------------------------------
(* CameraDevice::stop and deinit.                                          *)

Stop ==
    /\ clearing = NumStreams /\ stops < MaxStops /\ mState # "EXIT"
    /\ stops' = stops + 1 /\ clearing' = 0
    /\ UNCHANGED <<mState, mFrameQueue, dq, delivered>>

(* requestStop sets mState, without any lock, and calls clearRequests.     *)
RequestStop ==
    /\ clearing = NumStreams /\ mState # "EXIT"
    /\ mState' = "EXIT" /\ clearing' = 0
    /\ UNCHANGED <<mFrameQueue, dq, delivered, stops>>

(* Mutated form of the next: only one thread notified.                     *)
ClearStreamNotifyOne ==
    /\ clearing < NumStreams
    /\ mFrameQueue' = [mFrameQueue EXCEPT ![clearing] = <<>>]
    /\ NotifyOne(clearing)
    /\ clearing' = clearing + 1
    /\ UNCHANGED <<mState, delivered, stops>>

(* clearRequests, one turn of its loop over the streams.                   *)
ClearStream ==
    /\ clearing < NumStreams
    /\ mFrameQueue' = [mFrameQueue EXCEPT ![clearing] = <<>>]
    /\ NotifyAll(clearing)
    /\ clearing' = clearing + 1
    /\ UNCHANGED <<mState, delivered, stops>>

Next ==
    \/ \E c \in Consumers : ConsumerStep(c)
    \/ \E s \in Streams : HandleFrameAvailable(s)
    \/ Stop \/ RequestStop \/ ClearStream

Spec == Init /\ [][Next]_vars

(* Threads that hold or can get a lock go on, and clearRequests comes to   *)
(* its end.  No timeout is assumed to help.                                *)
FairSpec ==
    /\ Spec
    /\ WF_vars(ClearStream)
    /\ \A c \in Consumers : WF_vars(WaitFrame(c)) /\ WF_vars(TimedOut(c))

-----------------------------------------------------------------------------
TypeOK ==
    /\ mState \in {"PROCESSING", "EXIT"}
    /\ mFrameQueue \in [Streams -> Seq(1 .. MaxFrames)]
    /\ dq \in [Consumers -> {"user", "call", "wait", "woken", "timeout", "released"}]
    /\ clearing \in 0 .. NumStreams
    /\ delivered \in 0 .. MaxFrames /\ stops \in 0 .. MaxStops

(* Signalling only on the empty queue is enough for a stream with one      *)
(* consumer: it never sleeps in waitFrame with a frame there to take.      *)
(* (With two, the second of two quick frames may find its consumer asleep.)*)
Alone(c) == \A d \in Consumers : StreamOf[d] = StreamOf[c] => d = c

ConsumerAwake ==
    \A c \in Consumers : Alone(c) /\ dq[c] = "wait" => mFrameQueue[StreamOf[c]] = <<>>

(* Once requestStop has been past a stream nobody sleeps on it, although   *)
(* mState is set outside the lock that waitFrame tests it under.           *)
ReleasedOnExit ==
    mState = "EXIT" =>
        \A c \in Consumers : StreamOf[c] < clearing => dq[c] # "wait"

(* After deinit every dqbuf returns, and without waiting for a timeout.    *)
ConsumersReleased ==
    \A c \in Consumers :
        mState = "EXIT" /\ dq[c] # "user" ~> dq[c] \in {"released", "user"}
=============================================================================
