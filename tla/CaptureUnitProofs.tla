--------------------------- MODULE CaptureUnitProofs ---------------------------
(***************************************************************************)
(* Invariants of CaptureUnit, proved for every number of buffers and of    *)
(* threads that queue them: types, sessions, the list and the driver, the  *)
(* limit of the device; then the place of every raw buffer of a session,   *)
(* and the thread that goes on to queue a pending one.                     *)
(***************************************************************************)
EXTENDS CaptureUnit, SequenceTheorems, FiniteSetTheorems, TLAPS

USE DEF lists, kernel, unit, dequeue

-----------------------------------------------------------------------------
(* Type correctness: what a thread holds while it needs it is a buffer,    *)
(* and the poll thread never calls qbuf.                                   *)

HoldsGrabbed == {"grab", "pop", "size", "pending", "front", "put", "move", "clear", "next",
                 "deliver"}

TypeInv ==
    /\ TypeOK
    /\ \A t \in Threads : pc[t] \in {"put", "move"} => held[t] \in Buffers
    /\ pc[poll] \in HoldsGrabbed => grabbed \in Buffers
    /\ pc[poll] # "idle"

(* The parts of it, so that a step need look only at those it disturbs.    *)
ListTypes ==
    /\ mPendingBuffers \in Seq(Buffers) /\ mBuffersInDevice \in Seq(Buffers)
    /\ mBufferQueuing \in BOOLEAN
    /\ out \subseteq Buffers

KernelTypes ==
    driver \in Seq(Buffers) /\ done \in 0 .. Len(driver) /\ streaming \in BOOLEAN

UnitTypes ==
    /\ mState \in {"CONFIGURE", "START", "STOP"}
    /\ mExitPending \in BOOLEAN /\ flush \in BOOLEAN
    /\ ctl \in {"stopped", "alloc", "starting", "started", "exit", "wait", "reset", "joining",
                "dead"}
    /\ stops \in 0 .. MaxStops
    /\ late \in BOOLEAN

DequeueTypes ==
    /\ mFrameSkipNum \in 0 .. InitialSkip
    /\ grabbed \in 0 .. NumBuffers /\ mNeedSkipFrame \in BOOLEAN
    /\ badFrames \in 0 .. MaxBadFrames

ThreadTypes ==
    /\ pc \in [Threads -> Labels]
    /\ held \in [Threads -> 0 .. NumBuffers] /\ failed \in [Threads -> BOOLEAN]
    /\ putFails \in 0 .. MaxPutFails
    /\ \A t \in Threads : pc[t] \in {"put", "move"} => held[t] \in Buffers

PollHolds ==
    /\ pc[poll] \in HoldsGrabbed => grabbed \in Buffers
    /\ pc[poll] # "idle"

LEMMA TypeParts ==
    TypeInv <=> ListTypes /\ KernelTypes /\ UnitTypes /\ DequeueTypes /\ ThreadTypes /\ PollHolds
BY DEF TypeInv, TypeOK, ListTypes, KernelTypes, UnitTypes, DequeueTypes, ThreadTypes, PollHolds

LEMMA TypePartsNext ==
    ASSUME ListTypes', KernelTypes', UnitTypes', DequeueTypes', ThreadTypes', PollHolds'
    PROVE  TypeInv'
BY DEF TypeInv, TypeOK, ListTypes, KernelTypes, UnitTypes, DequeueTypes, ThreadTypes, PollHolds

LEMMA TypeInit == Init => TypeInv
<1> SUFFICES ASSUME Init PROVE TypeInv
  OBVIOUS
<1> USE BuffersAssumption, BoundAssumption, ThreadAssumption
    DEF BuffersAssumption, BoundAssumption, ThreadAssumption
<1>1. ListTypes BY EmptySeq DEF Init, ListTypes
<1>2. KernelTypes
  <2>1. streaming \in BOOLEAN
    BY Zenon DEF Init
  <2> QED
    BY <2>1, EmptySeq DEF Init, KernelTypes
<1>3. UnitTypes
  <2>1. mExitPending \in BOOLEAN /\ flush \in BOOLEAN /\ late \in BOOLEAN
    BY Zenon DEF Init
  <2> QED
    BY <2>1 DEF Init, UnitTypes
<1>4. DequeueTypes
  <2>1. mNeedSkipFrame \in BOOLEAN
    BY Zenon DEF Init
  <2> QED
    BY <2>1 DEF Init, DequeueTypes
<1>5. ThreadTypes BY DEF Init, ThreadTypes, Labels
<1>6. PollHolds BY DEF Init, PollHolds, HoldsGrabbed, Threads
<1> QED
  BY <1>1, <1>2, <1>3, <1>4, <1>5, <1>6, TypeParts

(* What a step leaves alone keeps its type.                                *)
LEMMA TypeKept ==
    ASSUME TypeInv
    PROVE  /\ UNCHANGED <<mPendingBuffers, mBuffersInDevice, mBufferQueuing, out>> => ListTypes'
           /\ UNCHANGED kernel => KernelTypes'
           /\ UNCHANGED unit => UnitTypes'
           /\ UNCHANGED dequeue => DequeueTypes'
           /\ UNCHANGED <<pc, held, failed, putFails>> => ThreadTypes'
           /\ UNCHANGED <<pc, grabbed>> => PollHolds'
<1>1. UNCHANGED <<mPendingBuffers, mBuffersInDevice, mBufferQueuing, out>> => ListTypes'
  BY TypeParts DEF ListTypes
<1>2. UNCHANGED kernel => KernelTypes'
  BY TypeParts DEF KernelTypes
<1>3. UNCHANGED unit => UnitTypes'
  BY TypeParts DEF UnitTypes
<1>4. UNCHANGED dequeue => DequeueTypes'
  BY TypeParts DEF DequeueTypes
<1>5. UNCHANGED <<pc, held, failed, putFails>> => ThreadTypes'
  BY TypeParts DEF ThreadTypes
<1>6. UNCHANGED <<pc, grabbed>> => PollHolds'
  BY TypeParts DEF PollHolds
<1> QED
  BY <1>1, <1>2, <1>3, <1>4, <1>5, <1>6

(* A thread goes from one place to another and keeps what it holds.        *)
LEMMA ThreadGoto ==
    ASSUME TypeInv, NEW t \in Threads, NEW label \in Labels, Goto(t, label),
           UNCHANGED <<held, failed, putFails>>,
           label \in {"put", "move"} => held[t] \in Buffers
    PROVE  ThreadTypes'
BY TypeParts DEF Goto, ThreadTypes

(* The poll thread within processPendingBuffers has what it grabbed; the   *)
(* others do not disturb it.                                               *)
LEMMA PollGoto ==
    ASSUME TypeInv, NEW t \in Threads, NEW label \in Labels, Goto(t, label),
           UNCHANGED grabbed,
           \/ t # poll
           \/ pc[t] \in HoldsGrabbed /\ label # "idle"
           \/ label \notin HoldsGrabbed \cup {"idle"}
    PROVE  PollHolds'
BY TypeParts DEF Goto, PollHolds, HoldsGrabbed, ThreadTypes, Threads

LEMMA ReturnGoto ==
    ASSUME NEW t \in Threads
    PROVE  Return(t) \in Labels \ {"put", "move"} /\ (t = poll => Return(t) # "idle")
BY DEF Return, Labels

LEMMA TypeProcess ==
    ASSUME TypeInv, NEW t \in Threads, ProcessPendingBuffers(t)
    PROVE  TypeInv'
<1> USE DEF Labels, HoldsGrabbed
<1>1. CASE TestSize(t)
  <2>1. PICK label \in {"pending", Return(t)} : Goto(t, label)
    BY <1>1 DEF TestSize
  <2>2. ThreadTypes' /\ PollHolds'
    BY <1>1, <2>1, ReturnGoto, ThreadGoto, PollGoto DEF TestSize
  <2> QED
    BY <1>1, <2>2, TypeKept, TypePartsNext DEF TestSize
<1>2. CASE TestPending(t)
  <2>1. PICK label \in {"front", Return(t)} : Goto(t, label)
    BY <1>2 DEF TestPending
  <2>2. ThreadTypes' /\ PollHolds'
    BY <1>2, <2>1, ReturnGoto, ThreadGoto, PollGoto DEF TestPending
  <2> QED
    BY <1>2, <2>2, TypeKept, TypePartsNext DEF TestPending
<1>3. CASE TakeFront(t)
  <2>1. KernelTypes' /\ UnitTypes' /\ DequeueTypes'
    BY <1>3, TypeKept DEF TakeFront
  <2>2. failed' \in [Threads -> BOOLEAN]
    BY <1>3, TypeParts DEF TakeFront, ThreadTypes
  <2>3. CASE ~MayQueue \/ mPendingBuffers = <<>>
    <3>1. PICK label \in {"next", Return(t)} : Goto(t, label) /\ UNCHANGED <<mBufferQueuing, held>>
      BY <1>3, <2>3 DEF TakeFront
    <3>2. ThreadTypes'
      BY <1>3, <2>2, <3>1, ReturnGoto, TypeParts DEF TakeFront, ThreadTypes, Goto
    <3>3. PollHolds'
      BY <1>3, <3>1, ReturnGoto, PollGoto DEF TakeFront
    <3>4. ListTypes'
      BY <1>3, <3>1, TypeKept DEF TakeFront
    <3> QED
      BY <2>1, <3>2, <3>3, <3>4, TypePartsNext
  <2>4. CASE MayQueue /\ mPendingBuffers # <<>>
    <3>1. Head(mPendingBuffers) \in Buffers
      BY <2>4, TypeParts, HeadTailProperties DEF ListTypes
    <3>2. /\ held' = [held EXCEPT ![t] = Head(mPendingBuffers)]
          /\ mBufferQueuing' = TRUE
          /\ Goto(t, "put")
      BY <1>3, <2>4 DEF TakeFront
    <3>3. ThreadTypes'
      BY <1>3, <2>2, <3>1, <3>2, TypeParts DEF TakeFront, ThreadTypes, Goto, Buffers
    <3>4. PollHolds'
      BY <1>3, <3>2, PollGoto DEF TakeFront
    <3>5. mBufferQueuing' \in BOOLEAN
      BY <3>2, Zenon
    <3>6. ListTypes'
      BY <1>3, <3>5, TypeParts DEF TakeFront, ListTypes
    <3> QED
      BY <2>1, <3>3, <3>4, <3>6, TypePartsNext
  <2> QED
    BY <2>3, <2>4
<1>4. CASE PutFrame(t)
  <2>1. held[t] \in Buffers
    BY <1>4, TypeParts DEF PutFrame, ThreadTypes
  <2>2. driver' \in Seq(Buffers) /\ Len(driver') = Len(driver) + 1
    BY <1>4, <2>1, TypeParts, AppendProperties DEF PutFrame, KernelTypes
  <2>3. KernelTypes'
    BY <1>4, <2>2, TypeParts, LenProperties DEF PutFrame, KernelTypes
  <2>4. ThreadTypes' /\ PollHolds'
    BY <1>4, <2>1, ThreadGoto, PollGoto DEF PutFrame
  <2> QED
    BY <1>4, <2>3, <2>4, TypeKept, TypePartsNext DEF PutFrame
<1>5. CASE PutFrameFails(t)
  <2>1. ThreadTypes'
    BY <1>5, TypeParts, BoundAssumption DEF PutFrameFails, ThreadTypes, Goto, BoundAssumption
  <2>2. PollHolds'
    BY <1>5, PollGoto DEF PutFrameFails
  <2> QED
    BY <1>5, <2>1, <2>2, TypeKept, TypePartsNext DEF PutFrameFails
<1>6. CASE MoveToDevice(t)
  <2>1. held[t] \in Buffers
    BY <1>6, TypeParts DEF MoveToDevice, ThreadTypes
  <2>2. mBuffersInDevice' \in Seq(Buffers) /\ mPendingBuffers' \in Seq(Buffers)
    BY <1>6, <2>1, TypeParts, AppendProperties, HeadTailProperties DEF MoveToDevice, ListTypes
  <2>3. ListTypes'
    BY <1>6, <2>2, TypeParts DEF MoveToDevice, ListTypes
  <2>4. ThreadTypes' /\ PollHolds'
    BY <1>6, ThreadGoto, PollGoto DEF MoveToDevice
  <2> QED
    BY <1>6, <2>3, <2>4, TypeKept, TypePartsNext DEF MoveToDevice
<1>7. CASE Abort(t)
  <2>1. KernelTypes'
    <3>1. streaming' \in BOOLEAN
      BY <1>7, Zenon DEF Abort
    <3> QED
      BY <1>7, <3>1, EmptySeq DEF Abort, KernelTypes
  <2>2. UnitTypes'
    BY <1>7, TypeParts DEF Abort, UnitTypes
  <2>3. ThreadTypes' /\ PollHolds'
    BY <1>7, TypeParts DEF Abort, ThreadTypes, PollHolds, Threads
  <2> QED
    BY <1>7, <2>1, <2>2, <2>3, TypeKept, TypePartsNext DEF Abort
<1>8. CASE ClearQueuing(t)
  <2>1. mBufferQueuing' \in BOOLEAN
    BY <1>8, Zenon DEF ClearQueuing
  <2>2. ListTypes'
    BY <1>8, <2>1, TypeParts DEF ClearQueuing, ListTypes
  <2>3. ThreadTypes'
    BY <1>8, TypeParts, BuffersAssumption DEF ClearQueuing, ThreadTypes, Goto, BuffersAssumption
  <2>4. PollHolds'
    BY <1>8, PollGoto DEF ClearQueuing
  <2> QED
    BY <1>8, <2>2, <2>3, <2>4, TypeKept, TypePartsNext DEF ClearQueuing
<1>9. CASE NextTurn(t)
  <2>1. PICK label \in {"size", Return(t)} : Goto(t, label)
    BY <1>9 DEF NextTurn
  <2>2. ThreadTypes' /\ PollHolds'
    BY <1>9, <2>1, ReturnGoto, ThreadGoto, PollGoto DEF NextTurn
  <2> QED
    BY <1>9, <2>2, TypeKept, TypePartsNext DEF NextTurn
<1> QED
  BY <1>1, <1>2, <1>3, <1>4, <1>5, <1>6, <1>7, <1>8, <1>9 DEF ProcessPendingBuffers

LEMMA TypeAddPending ==
    ASSUME TypeInv, NEW t \in Threads, NEW b \in Buffers, AddPending(t, b)
    PROVE  TypeInv'
<1>1. t # poll
  BY TypeParts DEF AddPending, PollHolds
<1>2. mPendingBuffers' \in Seq(Buffers)
  BY TypeParts, AppendProperties DEF AddPending, ListTypes
<1>3. ListTypes'
  BY <1>2, TypeParts DEF AddPending, ListTypes
<1>4. ThreadTypes' /\ PollHolds'
  BY <1>1, ThreadGoto, PollGoto DEF AddPending, Labels
<1> QED
  BY <1>3, <1>4, TypeKept, TypePartsNext DEF AddPending

LEMMA PollIsThread == poll \in Threads /\ main \in Threads
BY DEF Threads

LEMMA TypePoll ==
    ASSUME TypeInv, PollStep \/ PollTimeout
    PROVE  TypeInv'
<1> USE PollIsThread DEF Labels
<1>1. ASSUME NEW label \in {"enter", "wait", "exited", "first"}, Goto(poll, label),
             UNCHANGED <<lists, kernel, unit, dequeue, out, held, failed, putFails>>
      PROVE  TypeInv'
  <2>1. ThreadTypes' /\ PollHolds'
    BY <1>1, ThreadGoto, PollGoto DEF HoldsGrabbed
  <2> QED
    BY <1>1, <2>1, TypeKept, TypePartsNext
<1>2. CASE PollEnter \/ PollReturns \/ PollTimeout
  BY <1>1, <1>2 DEF PollEnter, PollReturns, PollTimeout
<1>3. CASE GetFirstDeviceBuffer
  <2>1. CASE mBuffersInDevice = <<>>
    BY <1>1, <1>3, <2>1 DEF GetFirstDeviceBuffer
  <2>2. CASE mBuffersInDevice # <<>>
    <3>1. grabbed' \in Buffers /\ Goto(poll, "grab")
      BY <1>3, <2>2, TypeParts, HeadTailProperties DEF GetFirstDeviceBuffer, ListTypes
    <3>2. DequeueTypes'
      BY <1>3, <3>1, TypeParts DEF GetFirstDeviceBuffer, DequeueTypes, Buffers
    <3>3. ThreadTypes'
      BY <1>3, <3>1, ThreadGoto DEF GetFirstDeviceBuffer
    <3>4. PollHolds'
      BY <1>3, <3>1, TypeParts DEF PollHolds, Goto, ThreadTypes
    <3> QED
      BY <1>3, <3>2, <3>3, <3>4, TypeKept, TypePartsNext DEF GetFirstDeviceBuffer
  <2> QED
    BY <2>1, <2>2
<1>4. CASE GrabFrame
  <2>1. driver # <<>> /\ done \in Nat /\ done > 0 /\ done <= Len(driver)
    BY <1>4, TypeParts, EmptySeq, LenProperties DEF GrabFrame, Filled, KernelTypes
  <2>2. driver' \in Seq(Buffers) /\ Len(driver') = Len(driver) - 1
    BY <1>4, <2>1, TypeParts, HeadTailProperties DEF GrabFrame, KernelTypes
  <2>3. KernelTypes'
    BY <1>4, <2>1, <2>2, TypeParts, LenProperties DEF GrabFrame, KernelTypes
  <2>4. badFrames' \in 0 .. MaxBadFrames
    BY <1>4, TypeParts, BoundAssumption DEF GrabFrame, DequeueTypes, BoundAssumption
  <2>5. mNeedSkipFrame' \in BOOLEAN
    BY <1>4, Zenon DEF GrabFrame
  <2>6. DequeueTypes'
    BY <1>4, <2>4, <2>5, TypeParts DEF GrabFrame, DequeueTypes
  <2>7. ThreadTypes' /\ PollHolds'
    BY <1>4, ThreadGoto, PollGoto DEF GrabFrame, HoldsGrabbed
  <2> QED
    BY <1>4, <2>3, <2>6, <2>7, TypeKept, TypePartsNext DEF GrabFrame
<1>5. CASE GrabFrameFails
  <2>1. DequeueTypes'
    BY <1>5, TypeParts, BuffersAssumption
    DEF GrabFrameFails, DequeueTypes, BuffersAssumption
  <2>2. ThreadTypes'
    BY <1>5, ThreadGoto DEF GrabFrameFails
  <2>3. PollHolds'
    BY <1>5, TypeParts DEF GrabFrameFails, PollHolds, HoldsGrabbed, Goto, ThreadTypes
  <2> QED
    BY <1>5, <2>1, <2>2, <2>3, TypeKept, TypePartsNext DEF GrabFrameFails
<1>6. CASE PopBufferFromDevice
  <2>1. CASE mBuffersInDevice = <<>>
    BY <1>6, <2>1, ThreadGoto, PollGoto, TypeKept, TypePartsNext
    DEF PopBufferFromDevice, HoldsGrabbed
  <2>2. CASE mBuffersInDevice # <<>>
    <3>1. Head(mBuffersInDevice) \in Buffers /\ Tail(mBuffersInDevice) \in Seq(Buffers)
      BY <2>2, TypeParts, HeadTailProperties DEF ListTypes
    <3>2. PushBack \in Seq(Buffers)
      BY <3>1, EmptySeq DEF PushBack
    <3>3. mPendingBuffers' \in Seq(Buffers) /\ mBuffersInDevice' \in Seq(Buffers)
      BY <1>6, <2>2, <3>1, <3>2, TypeParts, ConcatProperties DEF PopBufferFromDevice, ListTypes
    <3>4. ListTypes'
      BY <1>6, <3>3, TypeParts DEF PopBufferFromDevice, ListTypes
    <3>5. ThreadTypes' /\ PollHolds'
      BY <1>6, ThreadGoto, PollGoto DEF PopBufferFromDevice, HoldsGrabbed
    <3> QED
      BY <1>6, <3>4, <3>5, TypeKept, TypePartsNext DEF PopBufferFromDevice
  <2> QED
    BY <2>1, <2>2
<1>7. CASE Deliver
  <2>1. grabbed \in Buffers
    BY <1>7, TypeParts DEF Deliver, PollHolds, HoldsGrabbed
  <2>2. ListTypes'
    BY <1>7, <2>1, TypeParts DEF Deliver, ListTypes
  <2>3. mNeedSkipFrame' \in BOOLEAN
    BY <1>7, Zenon DEF Deliver
  <2>4. mFrameSkipNum' \in 0 .. InitialSkip
    BY <1>7, TypeParts, BoundAssumption DEF Deliver, SkipLeft, DequeueTypes, BoundAssumption
  <2>5. DequeueTypes'
    BY <1>7, <2>3, <2>4, TypeParts, BuffersAssumption
    DEF Deliver, DequeueTypes, BuffersAssumption
  <2>6. PICK label \in {"enter", "exited"} : Goto(poll, label)
    BY <1>7 DEF Deliver
  <2>7. ThreadTypes'
    BY <1>7, <2>6, ThreadGoto DEF Deliver
  <2>8. PollHolds'
    BY <2>6, TypeParts DEF PollHolds, HoldsGrabbed, Goto, ThreadTypes
  <2> QED
    BY <1>7, <2>2, <2>5, <2>7, <2>8, TypeKept, TypePartsNext DEF Deliver
<1> QED
  BY <1>2, <1>3, <1>4, <1>5, <1>6, <1>7 DEF PollStep

LEMMA TypeFrameDone ==
    ASSUME TypeInv, FrameDone
    PROVE  TypeInv'
<1>1. KernelTypes'
  BY TypeParts, LenProperties DEF FrameDone, KernelTypes
<1> QED
  BY <1>1, TypeKept, TypePartsNext DEF FrameDone

LEMMA TypeControl ==
    ASSUME TypeInv, Control
    PROVE  TypeInv'
<1>1. CASE Alloc
  <2>1. ListTypes' BY <1>1, TypeParts DEF Alloc, ListTypes
  <2>2. UnitTypes' BY <1>1, TypeParts DEF Alloc, UnitTypes
  <2> QED
    BY <1>1, <2>1, <2>2, TypeKept, TypePartsNext DEF Alloc
<1>2. CASE Start
  <2>1. streaming' \in BOOLEAN /\ flush' \in BOOLEAN /\ mExitPending' \in BOOLEAN
    BY <1>2, Zenon DEF Start
  <2>2. KernelTypes' BY <1>2, <2>1, TypeParts DEF Start, KernelTypes
  <2>3. UnitTypes' BY <1>2, <2>1, TypeParts DEF Start, UnitTypes
  <2>4. DequeueTypes'
    BY <1>2, TypeParts, BoundAssumption DEF Start, DequeueTypes, BoundAssumption
  <2>5. ThreadTypes' /\ PollHolds'
    BY <1>2, PollIsThread, ThreadGoto, PollGoto DEF Start, Labels, HoldsGrabbed
  <2> QED
    BY <1>2, <2>2, <2>3, <2>4, <2>5, TypeKept, TypePartsNext DEF Start
<1>3. CASE Started
  <2>1. UnitTypes' BY <1>3, TypeParts DEF Started, UnitTypes
  <2> QED
    BY <1>3, <2>1, TypeKept, TypePartsNext DEF Started
<1>4. CASE Stop
  <2>1. mExitPending' \in BOOLEAN /\ flush' \in BOOLEAN
    BY <1>4, Zenon DEF Stop
  <2>2. UnitTypes'
    BY <1>4, <2>1, TypeParts, BoundAssumption DEF Stop, UnitTypes, BoundAssumption
  <2> QED
    BY <1>4, <2>2, TypeKept, TypePartsNext DEF Stop
<1>5. CASE StreamOff
  <2>1. streaming' \in BOOLEAN
    BY <1>5, Zenon DEF StreamOff
  <2>2. KernelTypes' BY <1>5, <2>1, EmptySeq DEF StreamOff, KernelTypes
  <2>3. UnitTypes' BY <1>5, TypeParts DEF StreamOff, UnitTypes
  <2> QED
    BY <1>5, <2>2, <2>3, TypeKept, TypePartsNext DEF StreamOff
<1>6. CASE ResetBuffers
  <2>1. ListTypes' BY <1>6, TypeParts, EmptySeq DEF ResetBuffers, ListTypes
  <2>2. late' \in BOOLEAN
    BY <1>6, TypeParts, Zenon DEF ResetBuffers, UnitTypes
  <2>3. UnitTypes' BY <1>6, <2>2, TypeParts DEF ResetBuffers, UnitTypes
  <2> QED
    BY <1>6, <2>1, <2>3, TypeKept, TypePartsNext DEF ResetBuffers
<1>7. CASE StopReturns
  <2>1. mExitPending' \in BOOLEAN
    BY <1>7, Zenon DEF StopReturns
  <2>2. UnitTypes' BY <1>7, <2>1, TypeParts DEF StopReturns, UnitTypes
  <2> QED
    BY <1>7, <2>2, TypeKept, TypePartsNext DEF StopReturns
<1>8. CASE Joined
  <2>1. ListTypes' BY <1>8, TypeParts DEF Joined, ListTypes
  <2>2. late' \in BOOLEAN
    BY <1>8, TypeParts, Zenon DEF Joined, UnitTypes
  <2>3. UnitTypes' BY <1>8, <2>2, TypeParts DEF Joined, UnitTypes
  <2> QED
    BY <1>8, <2>1, <2>3, TypeKept, TypePartsNext DEF Joined
<1>9. CASE Configure
  <2>1. /\ mExitPending' \in BOOLEAN /\ mBufferQueuing' \in BOOLEAN
        /\ streaming' \in BOOLEAN /\ late' \in BOOLEAN
    BY <1>9, Zenon DEF Configure
  <2>2. ListTypes' BY <1>9, <2>1, TypeParts, EmptySeq DEF Configure, ListTypes
  <2>3. KernelTypes' BY <1>9, <2>1, EmptySeq DEF Configure, KernelTypes
  <2>4. UnitTypes' BY <1>9, <2>1, TypeParts DEF Configure, UnitTypes
  <2> QED
    BY <1>9, <2>2, <2>3, <2>4, TypeKept, TypePartsNext DEF Configure
<1> QED
  BY <1>1, <1>2, <1>3, <1>4, <1>5, <1>6, <1>7, <1>8, <1>9 DEF Control

LEMMA TypeStep == TypeInv /\ [Next]_vars => TypeInv'
<1>1. TypeInv /\ UNCHANGED vars => TypeInv'
  BY TypeKept, TypePartsNext DEF vars
<1> QED
  BY <1>1, TypeProcess, TypeAddPending, TypePoll, TypeFrameDone, TypeControl DEF Next

(* Every variable keeps its type, and a thread that puts or moves a buffer *)
(* has one in hand.                                                        *)
THEOREM CaptureTypes == Spec => []TypeOK
<1>1. Spec => []TypeInv
  BY TypeInit, TypeStep, PTL DEF Spec
<1>2. TypeInv => TypeOK
  BY DEF TypeInv
<1> QED
  BY <1>1, <1>2, PTL

-----------------------------------------------------------------------------
(* Where the threads may be while start and stop of the CameraDevice are   *)
(* at a given point.                                                       *)

SessionInv ==
    /\ ctl \in {"stopped", "alloc", "reset", "joining"} => pc[poll] = "exited"
    /\ ctl \in {"stopped", "alloc"} => \A t \in Returners : pc[t] = "idle"
    /\ ctl = "stopped" => out = {}
    /\ ctl \notin {"alloc", "dead"} => pc[main] = "idle"
    /\ ctl \in {"reset", "joining"} => mState = "STOP"
    /\ ctl = "dead" => \A t \in Threads : pc[t] = "dead"

Processing == {"size", "pending", "front", "put", "move", "clear", "next"}

(* A thread in processPendingBuffers only moves itself, or all are dead.   *)
LEMMA ProcessFrame ==
    ASSUME NEW t \in Threads, ProcessPendingBuffers(t)
    PROVE  \/ Abort(t)
           \/ /\ pc[t] \in Processing
              /\ \E label \in Labels : Goto(t, label)
              /\ UNCHANGED <<unit, dequeue, out>>
<1> USE ReturnGoto DEF Labels, Processing
<1>1. CASE TestSize(t) BY <1>1 DEF TestSize
<1>2. CASE TestPending(t) BY <1>2 DEF TestPending
<1>3. CASE TakeFront(t) BY <1>3 DEF TakeFront
<1>4. CASE PutFrame(t) BY <1>4 DEF PutFrame
<1>5. CASE PutFrameFails(t) BY <1>5 DEF PutFrameFails
<1>6. CASE MoveToDevice(t) BY <1>6 DEF MoveToDevice
<1>7. CASE Abort(t) BY <1>7
<1>8. CASE ClearQueuing(t) BY <1>8 DEF ClearQueuing
<1>9. CASE NextTurn(t) BY <1>9 DEF NextTurn
<1> QED
  BY <1>1, <1>2, <1>3, <1>4, <1>5, <1>6, <1>7, <1>8, <1>9 DEF ProcessPendingBuffers

LEMMA PollFrame ==
    ASSUME PollStep \/ PollTimeout
    PROVE  /\ pc[poll] \in {"enter", "wait", "first", "grab", "pop", "deliver"}
           /\ \E label \in Labels : Goto(poll, label)
           /\ UNCHANGED unit
<1> USE DEF Labels
<1>1. CASE PollEnter BY <1>1 DEF PollEnter
<1>2. CASE PollReturns BY <1>2 DEF PollReturns
<1>3. CASE PollTimeout BY <1>3 DEF PollTimeout
<1>4. CASE GetFirstDeviceBuffer BY <1>4 DEF GetFirstDeviceBuffer
<1>5. CASE GrabFrame BY <1>5 DEF GrabFrame
<1>6. CASE GrabFrameFails BY <1>6 DEF GrabFrameFails
<1>7. CASE PopBufferFromDevice BY <1>7 DEF PopBufferFromDevice
<1>8. CASE Deliver BY <1>8 DEF Deliver
<1> QED
  BY <1>1, <1>2, <1>3, <1>4, <1>5, <1>6, <1>7, <1>8 DEF PollStep

LEMMA SessionStep == TypeInv /\ SessionInv /\ [Next]_vars => SessionInv'
<1> SUFFICES ASSUME TypeInv, SessionInv, [Next]_vars PROVE SessionInv'
  OBVIOUS
<1> USE PollIsThread, ThreadAssumption DEF ThreadAssumption, Threads
<1>0. pc \in [Threads -> Labels]
  BY TypeParts DEF ThreadTypes
<1>1. ASSUME NEW t \in Threads, ProcessPendingBuffers(t) PROVE SessionInv'
  <2>1. CASE Abort(t)
    BY <2>1 DEF Abort, SessionInv
  <2>2. ASSUME pc[t] \in Processing, NEW label \in Labels, Goto(t, label),
               UNCHANGED <<unit, dequeue, out>>
        PROVE  SessionInv'
    BY <1>0, <2>2 DEF SessionInv, Processing, Goto
  <2> QED
    BY <1>1, <2>1, <2>2, ProcessFrame
<1>2. ASSUME NEW t \in Threads, NEW b \in Buffers, AddPending(t, b) PROVE SessionInv'
  BY <1>0, <1>2 DEF AddPending, SessionInv, Goto
<1>3. CASE PollStep \/ PollTimeout
  <2>1. ctl \notin {"stopped", "alloc", "reset", "joining", "dead"}
    BY <1>3, PollFrame DEF SessionInv
  <2>2. PICK label \in Labels : Goto(poll, label)
    BY <1>3, PollFrame
  <2> QED
    BY <1>0, <1>3, <2>1, <2>2, PollFrame DEF SessionInv, Goto
<1>4. CASE FrameDone
  BY <1>4 DEF FrameDone, SessionInv
<1>5. CASE Control
  <2>1. CASE Alloc BY <2>1 DEF Alloc, SessionInv
  <2>2. CASE Start BY <1>0, <2>2 DEF Start, SessionInv, Goto
  <2>3. CASE Started BY <2>3 DEF Started, SessionInv
  <2>4. CASE Stop BY <2>4 DEF Stop, SessionInv
  <2>5. CASE StreamOff BY <2>5 DEF StreamOff, SessionInv
  <2>6. CASE ResetBuffers BY <2>6 DEF ResetBuffers, SessionInv
  <2>7. CASE StopReturns BY <2>7 DEF StopReturns, SessionInv
  <2>8. CASE Joined BY <2>8 DEF Joined, SessionInv
  <2>9. CASE Configure BY <2>9 DEF Configure, SessionInv
  <2> QED
    BY <1>5, <2>1, <2>2, <2>3, <2>4, <2>5, <2>6, <2>7, <2>8, <2>9 DEF Control
<1>6. CASE UNCHANGED vars
  BY <1>6 DEF vars, SessionInv
<1> QED
  BY <1>1, <1>2, <1>3, <1>4, <1>5, <1>6 DEF Next

-----------------------------------------------------------------------------
(* mBufferQueuing lets one thread at a time into queueBuffer.              *)

InQueueBuffer == {"put", "move", "clear"}

OneQueuer ==
    /\ \A t, u \in Threads : pc[t] \in InQueueBuffer /\ pc[u] \in InQueueBuffer => t = u
    /\ \A t \in Threads : pc[t] \in InQueueBuffer => mBufferQueuing

LEMMA QueuerStep == TypeInv /\ SessionInv /\ OneQueuer /\ [Next]_vars => OneQueuer'
<1> SUFFICES ASSUME TypeInv, SessionInv, OneQueuer, [Next]_vars PROVE OneQueuer'
  OBVIOUS
<1> USE DEF InQueueBuffer
<1>0. pc \in [Threads -> Labels]
  BY TypeParts DEF ThreadTypes
<1>1. ASSUME NEW t \in Threads, NEW label, Goto(t, label), UNCHANGED mBufferQueuing,
             pc[t] \in InQueueBuffer \/ label \notin InQueueBuffer
      PROVE  OneQueuer'
  BY <1>0, <1>1 DEF OneQueuer, Goto
<1>2. ASSUME NEW t \in Threads, ProcessPendingBuffers(t) PROVE OneQueuer'
  <2>0. Return(t) \notin InQueueBuffer
    BY DEF Return
  <2>1. CASE TestSize(t) BY <1>1, <2>0, <2>1 DEF TestSize
  <2>2. CASE TestPending(t) BY <1>1, <2>0, <2>2 DEF TestPending
  <2>3. CASE TakeFront(t)
    <3>1. CASE UNCHANGED mBufferQueuing /\ \E label \in {"next", Return(t)} : Goto(t, label)
      BY <1>1, <2>0, <3>1
    <3>2. CASE MayQueue /\ mBufferQueuing' /\ Goto(t, "put")
      BY <1>0, <3>2 DEF OneQueuer, MayQueue, Goto
    <3> QED
      BY <2>3, <3>1, <3>2 DEF TakeFront
  <2>4. CASE PutFrame(t) BY <1>1, <2>4 DEF PutFrame
  <2>5. CASE PutFrameFails(t) BY <1>1, <2>5 DEF PutFrameFails
  <2>6. CASE MoveToDevice(t) BY <1>1, <2>6 DEF MoveToDevice
  <2>7. CASE Abort(t) BY <2>7 DEF Abort, OneQueuer
  <2>8. CASE ClearQueuing(t)
    BY <1>0, <2>8 DEF ClearQueuing, OneQueuer, Goto
  <2>9. CASE NextTurn(t) BY <1>1, <2>0, <2>9 DEF NextTurn
  <2> QED
    BY <1>2, <2>1, <2>2, <2>3, <2>4, <2>5, <2>6, <2>7, <2>8, <2>9 DEF ProcessPendingBuffers
<1>3. ASSUME NEW t \in Threads, NEW b \in Buffers, AddPending(t, b) PROVE OneQueuer'
  BY <1>1, <1>3 DEF AddPending
<1>4. CASE PollStep \/ PollTimeout
  BY <1>1, <1>4, PollIsThread
  DEF PollStep, PollEnter, PollReturns, PollTimeout, GetFirstDeviceBuffer, GrabFrame,
      GrabFrameFails, PopBufferFromDevice, Deliver
<1>5. CASE FrameDone
  BY <1>5 DEF FrameDone, OneQueuer
<1>6. CASE Control
  <2>1. CASE UNCHANGED <<pc, mBufferQueuing>>
    BY <2>1 DEF OneQueuer
  <2>2. CASE Start
    BY <1>1, <2>2, PollIsThread DEF Start
  <2>3. CASE Configure
    <3>1. \A t \in Threads : pc[t] \notin InQueueBuffer
      BY <2>3 DEF Configure, SessionInv, Threads
    <3> QED
      BY <2>3, <3>1 DEF Configure, OneQueuer
  <2> QED
    BY <1>6, <2>1, <2>2, <2>3
    DEF Control, Alloc, Started, Stop, StreamOff, ResetBuffers, StopReturns, Joined
<1>7. CASE UNCHANGED vars
  BY <1>7 DEF vars, OneQueuer
<1> QED
  BY <1>2, <1>3, <1>4, <1>5, <1>6, <1>7 DEF Next

UnitInv == TypeInv /\ SessionInv /\ OneQueuer

LEMMA UnitInductive == Spec => []UnitInv
<1>1. Init => UnitInv
  <2>1. ASSUME Init PROVE SessionInv /\ OneQueuer
    BY <2>1, ThreadAssumption
    DEF Init, SessionInv, OneQueuer, InQueueBuffer, Threads, ThreadAssumption
  <2> QED
    BY <2>1, TypeInit DEF UnitInv
<1>2. UnitInv /\ [Next]_vars => UnitInv'
  BY TypeStep, SessionStep, QueuerStep DEF UnitInv
<1> QED
  BY <1>1, <1>2, PTL DEF Spec

(* However many threads queue at once, at most one of them is between      *)
(* taking the front buffer and clearing mBufferQueuing.                    *)
THEOREM OneQueuesAtATime == Spec => [](\A t, u \in Queuing : t = u)
<1>1. UnitInv => \A t, u \in Queuing : t = u
  BY DEF UnitInv, OneQueuer, Queuing, InQueueBuffer
<1> QED
  BY <1>1, UnitInductive, PTL

-----------------------------------------------------------------------------
(* mBuffersInDevice lists what the driver has, in the driver's order.      *)

(* Putting as a function of what it depends on, for this state or the next. *)
PutOf(p, h) ==
    LET moving == {t \in Threads : p[t] = "move"}
    IN  IF moving = {} THEN <<>> ELSE <<h[CHOOSE t \in moving : TRUE]>>

LEMMA PuttingIs == Putting = PutOf(pc, held) /\ Putting' = PutOf(pc', held')
BY DEF Putting, PutOf

LEMMA PutOfOne ==
    ASSUME NEW p, NEW h, NEW t \in Threads, p[t] = "move",
           \A u \in Threads : p[u] = "move" => u = t
    PROVE  PutOf(p, h) = <<h[t]>>
<1>1. {u \in Threads : p[u] = "move"} = {t}
  OBVIOUS
<1>2. (CHOOSE u \in {t} : TRUE) = t
  OBVIOUS
<1> QED
  BY <1>1, <1>2 DEF PutOf

LEMMA PutOfNone ==
    ASSUME NEW p, NEW h, \A u \in Threads : p[u] # "move"
    PROVE  PutOf(p, h) = <<>>
BY DEF PutOf

LEMMA PuttingType ==
    ASSUME TypeInv, OneQueuer
    PROVE  Putting \in Seq(Buffers)
<1>1. CASE \E t \in Threads : pc[t] = "move"
  <2>1. PICK t \in Threads : pc[t] = "move"
    BY <1>1
  <2>2. Putting = <<held[t]>> /\ held[t] \in Buffers
    BY <2>1, PutOfOne, PuttingIs, TypeParts DEF OneQueuer, InQueueBuffer, ThreadTypes
  <2> QED
    BY <2>2
<1>2. CASE \A t \in Threads : pc[t] # "move"
  BY <1>2, PutOfNone, PuttingIs, EmptySeq
<1> QED
  BY <1>1, <1>2

(* The step of a thread that neither starts nor ends a move.               *)
LEMMA PuttingKept ==
    ASSUME TypeInv, OneQueuer, NEW t \in Threads, NEW label, Goto(t, label),
           pc[t] # "move", label # "move",
           \A u \in Threads \ {t} : held'[u] = held[u]
    PROVE  /\ Putting' = Putting
           /\ \A u \in Threads : pc'[u] = "move" => pc[u] = "move"
<1>0. pc \in [Threads -> Labels] /\ pc' = [pc EXCEPT ![t] = label]
  BY TypeParts DEF ThreadTypes, Goto
<1>1. CASE \E u \in Threads : pc[u] = "move"
  <2>1. PICK u \in Threads : pc[u] = "move"
    BY <1>1
  <2>2. \A v \in Threads : pc[v] = "move" => v = u
    BY <2>1 DEF OneQueuer, InQueueBuffer
  <2>3. pc'[u] = "move" /\ (\A v \in Threads : pc'[v] = "move" => v = u) /\ held'[u] = held[u]
    BY <1>0, <2>1, <2>2
  <2>4. Putting = <<held[u]>> /\ Putting' = <<held'[u]>>
    BY <2>1, <2>2, <2>3, PutOfOne, PuttingIs
  <2> QED
    BY <1>0, <2>3, <2>4
<1>2. CASE \A u \in Threads : pc[u] # "move"
  <2>1. \A u \in Threads : pc'[u] # "move"
    BY <1>0, <1>2
  <2> QED
    BY <1>2, <2>1, PutOfNone, PuttingIs
<1> QED
  BY <1>1, <1>2

Grabbing == IF pc[poll] = "pop" THEN <<grabbed>> ELSE <<>>

InSession == {"stopped", "alloc", "starting", "started", "exit"}

(* Between stream off and the next session the driver is empty already.    *)
AgreeInv ==
    /\ ~late /\ ctl \in InSession =>
          /\ mBuffersInDevice \o Putting = Grabbing \o driver
          /\ pc[poll] \in {"grab", "pop"} =>
                mBuffersInDevice # <<>> /\ Head(mBuffersInDevice) = grabbed
    /\ ~late /\ ctl \in {"reset", "joining"} /\ driver = <<>> =>
          mBuffersInDevice = <<>> /\ \A t \in Threads : pc[t] # "move"

(* A fact about sequences, and the types such facts are used at.          *)
LEMMA HeadThenTail ==
    ASSUME NEW S, NEW s \in Seq(S), s # <<>>
    PROVE  s = <<Head(s)>> \o Tail(s)
<1>1. Head(s) \in S /\ Tail(s) \in Seq(S) /\ <<Head(s)>> \in Seq(S)
  BY HeadTailProperties
<1>2. Len(<<Head(s)>> \o Tail(s)) = Len(s)
  BY <1>1, ConcatProperties, HeadTailProperties, LenProperties
<1>3. \A i \in 1 .. Len(s) : s[i] = (<<Head(s)>> \o Tail(s))[i]
  BY <1>1, ConcatProperties, HeadTailProperties, LenProperties
<1>4. <<Head(s)>> \o Tail(s) \in Seq(S)
  BY <1>1, ConcatProperties
<1> QED
  BY <1>2, <1>3, <1>4, SeqEqual

LEMMA BufferConcat ==
    \A s, t, u \in Seq(Buffers) : (s \o t) \o u = s \o (t \o u)
BY ConcatAssociative

LEMMA AgreeTypes ==
    ASSUME TypeInv
    PROVE  /\ mBuffersInDevice \in Seq(Buffers) /\ driver \in Seq(Buffers)
           /\ pc \in [Threads -> Labels]
BY TypeParts DEF ListTypes, KernelTypes, ThreadTypes

(* A step that concerns neither the lists nor what is on its way to them.  *)
LEMMA AgreeKept ==
    ASSUME AgreeInv, UNCHANGED <<mBuffersInDevice, driver, late, ctl>>, Putting' = Putting,
           pc[poll] = "pop" => pc'[poll] = "pop",
           pc'[poll] \in {"grab", "pop"} => pc'[poll] = pc[poll] /\ UNCHANGED grabbed,
           \A t \in Threads : pc'[t] = "move" => pc[t] = "move"
    PROVE  AgreeInv'
<1>1. Grabbing' = Grabbing
  BY DEF Grabbing
<1> QED
  BY <1>1 DEF AgreeInv

LEMMA AgreePutFrame ==
    ASSUME UnitInv, AgreeInv, NEW t \in Threads, PutFrame(t)
    PROVE  AgreeInv'
<1> DEFINE b == held[t]
<1> USE AgreeTypes DEF UnitInv
<1>1. b \in Buffers /\ <<b>> \in Seq(Buffers)
  BY TypeParts DEF PutFrame, ThreadTypes
<1>2. pc[t] = "put" /\ pc' = [pc EXCEPT ![t] = "move"]
  BY DEF PutFrame, Goto
<1>3. \A u \in Threads : pc[u] # "move"
  BY <1>2 DEF OneQueuer, InQueueBuffer
<1>4. Putting = <<>>
  BY <1>3, PutOfNone, PuttingIs
<1>5. pc'[t] = "move" /\ \A u \in Threads : pc'[u] = "move" => u = t
  BY <1>2, <1>3
<1>6. Putting' = <<b>>
  BY <1>5, PutOfOne, PuttingIs DEF PutFrame
<1>7. driver' = driver \o <<b>> /\ driver' # <<>>
  <2>1. driver' = Append(driver, b)
    BY DEF PutFrame
  <2>2. Append(driver, b) = driver \o <<b>>
    BY <1>1, AppendIsConcat, Zenon
  <2>3. Append(driver, b) # <<>>
    BY <1>1, AppendProperties
  <2> QED
    BY <2>1, <2>2, <2>3
<1>8. /\ Grabbing' = Grabbing /\ UNCHANGED <<mBuffersInDevice, grabbed, late, ctl>>
      /\ pc'[poll] \in {"grab", "pop"} => pc'[poll] = pc[poll]
  BY <1>2, PollIsThread DEF PutFrame, Grabbing
<1>9. ASSUME ~late, ctl \in InSession
      PROVE  mBuffersInDevice \o <<b>> = Grabbing \o (driver \o <<b>>)
  <2>1. Grabbing \in Seq(Buffers)
    BY TypeParts, EmptySeq DEF Grabbing, PollHolds, HoldsGrabbed
  <2>2. mBuffersInDevice = Grabbing \o driver
    BY <1>4, <1>9, ConcatEmptySeq DEF AgreeInv
  <2> QED
    BY <1>1, <2>1, <2>2, ConcatAssociative
<1> QED
  BY <1>6, <1>7, <1>8, <1>9 DEF AgreeInv

LEMMA AgreeMoveToDevice ==
    ASSUME UnitInv, AgreeInv, NEW t \in Threads, MoveToDevice(t)
    PROVE  AgreeInv'
<1> DEFINE b == held[t]
<1> USE AgreeTypes DEF UnitInv
<1>1. b \in Buffers
  BY TypeParts DEF MoveToDevice, ThreadTypes
<1>2. pc[t] = "move" /\ pc' = [pc EXCEPT ![t] = "clear"]
  BY DEF MoveToDevice, Goto
<1>3. \A u \in Threads : pc[u] = "move" => u = t
  BY <1>2 DEF OneQueuer, InQueueBuffer
<1>4. Putting = <<b>>
  BY <1>2, <1>3, PutOfOne, PuttingIs
<1>5. \A u \in Threads : pc'[u] # "move"
  BY <1>2, <1>3
<1>6. Putting' = <<>>
  BY <1>5, PutOfNone, PuttingIs
<1>7. mBuffersInDevice' = mBuffersInDevice \o <<b>> /\ mBuffersInDevice' \in Seq(Buffers)
  BY <1>1, AppendIsConcat, AppendProperties DEF MoveToDevice
<1>8. /\ Grabbing' = Grabbing /\ UNCHANGED <<driver, grabbed, late, ctl>>
      /\ pc'[poll] \in {"grab", "pop"} => pc'[poll] = pc[poll]
  BY <1>2, PollIsThread DEF MoveToDevice, Grabbing
<1>9. mBuffersInDevice' \o Putting' = mBuffersInDevice \o Putting
  BY <1>4, <1>6, <1>7, ConcatEmptySeq
<1>10. mBuffersInDevice # <<>> =>
          mBuffersInDevice' # <<>> /\ Head(mBuffersInDevice') = Head(mBuffersInDevice)
  BY <1>1, AppendProperties, EmptySeq DEF MoveToDevice
<1> QED
  BY <1>2, <1>8, <1>9, <1>10 DEF AgreeInv

LEMMA AgreeProcess ==
    ASSUME UnitInv, AgreeInv, NEW t \in Threads, ProcessPendingBuffers(t)
    PROVE  AgreeInv'
<1> USE DEF UnitInv
<1>0. pc \in [Threads -> Labels] /\ held \in [Threads -> 0 .. NumBuffers]
  BY TypeParts DEF ThreadTypes
<1>1. ASSUME NEW label, Goto(t, label), label \notin {"move", "grab", "pop"},
             pc[t] \notin {"move", "pop"},
             UNCHANGED <<mBuffersInDevice, driver, late, ctl, grabbed>>,
             \A u \in Threads \ {t} : held'[u] = held[u]
      PROVE  AgreeInv'
  <2>1. Putting' = Putting /\ \A u \in Threads : pc'[u] = "move" => pc[u] = "move"
    BY <1>1, PuttingKept
  <2>2. /\ pc[poll] = "pop" => pc'[poll] = "pop"
        /\ pc'[poll] \in {"grab", "pop"} => pc'[poll] = pc[poll]
    BY <1>0, <1>1, PollIsThread DEF Goto
  <2> QED
    BY <1>1, <2>1, <2>2, AgreeKept
<1>2. Return(t) \notin {"move", "grab", "pop"}
  BY DEF Return
<1>3. CASE TestSize(t) BY <1>1, <1>2, <1>3 DEF TestSize
<1>4. CASE TestPending(t) BY <1>1, <1>2, <1>4 DEF TestPending
<1>5. CASE TakeFront(t)
  <2>1. /\ \A u \in Threads \ {t} : held'[u] = held[u]
        /\ \E label \in {"next", "put", Return(t)} : Goto(t, label)
    BY <1>0, <1>5 DEF TakeFront
  <2> QED
    BY <1>1, <1>2, <1>5, <2>1 DEF TakeFront
<1>6. CASE PutFrame(t) BY <1>6, AgreePutFrame
<1>7. CASE PutFrameFails(t) BY <1>1, <1>7 DEF PutFrameFails
<1>8. CASE MoveToDevice(t) BY <1>8, AgreeMoveToDevice
<1>9. CASE Abort(t) BY <1>9 DEF Abort, AgreeInv, InSession
<1>10. CASE ClearQueuing(t)
  <2>1. \A u \in Threads \ {t} : held'[u] = held[u]
    BY <1>0, <1>10 DEF ClearQueuing
  <2> QED
    BY <1>1, <1>10, <2>1 DEF ClearQueuing
<1>11. CASE NextTurn(t) BY <1>1, <1>2, <1>11 DEF NextTurn
<1> QED
  BY <1>3, <1>4, <1>5, <1>6, <1>7, <1>8, <1>9, <1>10, <1>11 DEF ProcessPendingBuffers

LEMMA AgreePoll ==
    ASSUME UnitInv, AgreeInv, PollStep \/ PollTimeout
    PROVE  AgreeInv'
<1> USE AgreeTypes, PollIsThread DEF UnitInv
<1>0. UNCHANGED held /\ ctl \notin {"reset", "joining"} /\ ctl' = ctl /\ late' = late
  <2>1. UNCHANGED held
    BY DEF PollStep, PollEnter, PollReturns, PollTimeout, GetFirstDeviceBuffer, GrabFrame,
           GrabFrameFails, PopBufferFromDevice, Deliver
  <2> QED
    BY <2>1, PollFrame DEF SessionInv
<1>1. ASSUME NEW label, Goto(poll, label), label # "move", pc[poll] # "move"
      PROVE  /\ Putting' = Putting /\ pc'[poll] = label
             /\ \A u \in Threads : pc'[u] = "move" => pc[u] = "move"
  BY <1>0, <1>1, PuttingKept DEF Goto
<1>2. ASSUME NEW label, Goto(poll, label), label \notin {"move", "grab", "pop"},
             pc[poll] \notin {"move", "pop"}, UNCHANGED <<mBuffersInDevice, driver>>
      PROVE  AgreeInv'
  BY <1>0, <1>1, <1>2, AgreeKept
<1>3. CASE PollEnter \/ PollReturns \/ PollTimeout
  BY <1>2, <1>3 DEF PollEnter, PollReturns, PollTimeout
<1>4. CASE GetFirstDeviceBuffer
  <2>1. CASE mBuffersInDevice = <<>>
    BY <1>2, <1>4, <2>1 DEF GetFirstDeviceBuffer
  <2>2. CASE mBuffersInDevice # <<>>
    <3>1. /\ pc[poll] = "first" /\ Goto(poll, "grab")
          /\ grabbed' = Head(mBuffersInDevice) /\ UNCHANGED <<mBuffersInDevice, driver>>
      BY <1>4, <2>2 DEF GetFirstDeviceBuffer
    <3>2. Putting' = Putting /\ pc'[poll] = "grab"
      BY <1>1, <3>1
    <3>3. Grabbing' = Grabbing
      BY <3>1, <3>2 DEF Grabbing
    <3> QED
      BY <1>0, <2>2, <3>1, <3>2, <3>3 DEF AgreeInv
  <2> QED
    BY <2>1, <2>2
<1>5. CASE GrabFrame
  <2>1. /\ pc[poll] = "grab" /\ Goto(poll, "pop") /\ driver' = Tail(driver)
        /\ UNCHANGED <<mBuffersInDevice, grabbed>>
    BY <1>5 DEF GrabFrame
  <2>2. Putting' = Putting /\ pc'[poll] = "pop"
    BY <1>1, <2>1
  <2>3. driver # <<>>
    BY <1>5, TypeParts, EmptySeq DEF GrabFrame, Filled, KernelTypes
  <2>4. driver = <<Head(driver)>> \o Tail(driver)
    BY <2>3, HeadThenTail
  <2>5. Grabbing = <<>> /\ Grabbing' = <<grabbed>>
    BY <2>1, <2>2 DEF Grabbing
  <2>6. ASSUME ~late, ctl \in InSession
        PROVE  Head(driver) = grabbed /\ mBuffersInDevice \o Putting = driver
    <3>1. mBuffersInDevice # <<>> /\ Head(mBuffersInDevice) = grabbed
      BY <2>1, <2>6 DEF AgreeInv
    <3>2. mBuffersInDevice \o Putting = driver
      BY <2>5, <2>6, ConcatEmptySeq DEF AgreeInv
    <3>3. Putting \in Seq(Buffers)
      BY PuttingType
    <3>4. driver[1] = mBuffersInDevice[1]
      BY <3>1, <3>2, <3>3, ConcatProperties, LenProperties, EmptySeq
    <3>5. driver[1] = Head(driver) /\ mBuffersInDevice[1] = Head(mBuffersInDevice)
      BY <2>3, <3>1
    <3> QED
      BY <3>1, <3>2, <3>4, <3>5
  <2> QED
    BY <1>0, <2>1, <2>2, <2>4, <2>5, <2>6 DEF AgreeInv
<1>6. CASE GrabFrameFails
  BY <1>2, <1>6 DEF GrabFrameFails
<1>7. CASE PopBufferFromDevice
  <2>1. pc[poll] = "pop" /\ Goto(poll, "size") /\ UNCHANGED <<driver, grabbed>>
    BY <1>7 DEF PopBufferFromDevice
  <2>2. Putting' = Putting /\ pc'[poll] = "size"
    BY <1>1, <2>1
  <2>3. Grabbing = <<grabbed>> /\ Grabbing' = <<>>
    BY <2>1, <2>2 DEF Grabbing
  <2>4. ASSUME ~late, ctl \in InSession
        PROVE  mBuffersInDevice' \o Putting = driver
    <3>1. mBuffersInDevice # <<>> /\ Head(mBuffersInDevice) = grabbed
      BY <2>1, <2>4 DEF AgreeInv
    <3>2. mBuffersInDevice' = Tail(mBuffersInDevice)
      BY <1>7, <3>1 DEF PopBufferFromDevice
    <3>3. mBuffersInDevice = <<grabbed>> \o Tail(mBuffersInDevice)
      BY <3>1, HeadThenTail
    <3>4. grabbed \in Buffers /\ Tail(mBuffersInDevice) \in Seq(Buffers)
      BY <3>1, HeadTailProperties
    <3>5. Putting \in Seq(Buffers)
      BY PuttingType
    <3>6. <<grabbed>> \o (Tail(mBuffersInDevice) \o Putting) = <<grabbed>> \o driver
      <4>1. mBuffersInDevice \o Putting = <<grabbed>> \o driver
        BY <2>3, <2>4 DEF AgreeInv
      <4>2. <<grabbed>> \in Seq(Buffers)
        BY <3>4
      <4>3. (<<grabbed>> \o Tail(mBuffersInDevice)) \o Putting
              = <<grabbed>> \o (Tail(mBuffersInDevice) \o Putting)
        BY <3>4, <3>5, <4>2, BufferConcat, Zenon
      <4> QED
        BY <3>3, <4>1, <4>3, Zenon
    <3>7. <<grabbed>> \in Seq(Buffers) /\ Tail(mBuffersInDevice) \o Putting \in Seq(Buffers)
      BY <3>4, <3>5, ConcatProperties
    <3> QED
      BY <3>2, <3>6, <3>7, ConcatSimplifications
  <2>5. <<>> \o driver = driver
    BY ConcatEmptySeq
  <2> QED
    BY <1>0, <2>1, <2>2, <2>3, <2>4, <2>5 DEF AgreeInv
<1>8. CASE Deliver
  BY <1>2, <1>8 DEF Deliver
<1> QED
  BY <1>3, <1>4, <1>5, <1>6, <1>7, <1>8 DEF PollStep

LEMMA AgreeControl ==
    ASSUME UnitInv, AgreeInv, Control
    PROVE  AgreeInv'
<1> USE PollIsThread DEF UnitInv
<1>1. CASE Alloc \/ Started \/ Stop
  <2>1. /\ ctl \in InSession /\ ctl' \in InSession
        /\ UNCHANGED <<mBuffersInDevice, driver, late, grabbed, pc, held>>
    BY <1>1 DEF Alloc, Started, Stop, InSession
  <2> QED
    BY <2>1 DEF AgreeInv, Putting, Grabbing, InSession
<1>2. CASE Start
  <2>1. /\ ctl \in InSession /\ ctl' \in InSession /\ Goto(poll, "enter")
        /\ UNCHANGED <<mBuffersInDevice, driver, late, held>>
        /\ pc[poll] = "exited"
    BY <1>2 DEF Start, InSession, SessionInv
  <2>2. Putting' = Putting
    BY <2>1, PuttingKept
  <2>3. pc'[poll] = "enter"
    BY <2>1, TypeParts DEF Goto, ThreadTypes
  <2>4. Grabbing' = Grabbing
    BY <2>1, <2>3 DEF Grabbing
  <2> QED
    BY <2>1, <2>2, <2>3, <2>4 DEF AgreeInv, InSession
<1>3. CASE StreamOff
  BY <1>3 DEF StreamOff, AgreeInv, InSession
<1>4. CASE ResetBuffers
  <2>1. ~late' => \A t \in Threads : pc[t] # "move"
    BY <1>4 DEF ResetBuffers, Queuing
  <2> QED
    BY <1>4, <2>1 DEF ResetBuffers, AgreeInv, InSession
<1>5. CASE StopReturns
  BY <1>5 DEF StopReturns, AgreeInv, InSession
<1>6. CASE Joined
  <2>1. ~late' => ~late /\ driver = <<>>
    BY <1>6 DEF Joined
  <2>2. ~late' => mBuffersInDevice = <<>> /\ \A t \in Threads : pc[t] # "move"
    BY <1>6, <2>1 DEF Joined, AgreeInv
  <2>3. ~late' => Putting' = <<>>
    BY <1>6, <2>2, PutOfNone, PuttingIs DEF Joined
  <2>4. pc[poll] = "exited"
    BY <1>6 DEF Joined, SessionInv
  <2>5. Grabbing' = <<>>
    BY <1>6, <2>4 DEF Joined, Grabbing
  <2> QED
    BY <1>6, <2>1, <2>2, <2>3, <2>4, <2>5 DEF Joined, AgreeInv, InSession
<1>7. CASE Configure
  <2>1. \A t \in Threads : pc[t] \in {"idle", "exited"}
    BY <1>7 DEF Configure, SessionInv, Threads
  <2>2. Putting' = <<>>
    BY <1>7, <2>1, PutOfNone, PuttingIs DEF Configure
  <2>3. Grabbing' = <<>>
    BY <1>7, <2>1 DEF Configure, Grabbing
  <2> QED
    BY <1>7, <2>1, <2>2, <2>3 DEF Configure, AgreeInv, InSession
<1> QED
  BY <1>1, <1>2, <1>3, <1>4, <1>5, <1>6, <1>7 DEF Control

LEMMA AgreeAddPending ==
    ASSUME UnitInv, AgreeInv, NEW t \in Threads, NEW b \in Buffers, AddPending(t, b)
    PROVE  AgreeInv'
<1> USE PollIsThread DEF UnitInv
<1>1. t # poll
  BY TypeParts DEF AddPending, PollHolds
<1>2. pc'[poll] = pc[poll]
  BY <1>1, TypeParts DEF AddPending, Goto, ThreadTypes
<1>3. Putting' = Putting /\ \A u \in Threads : pc'[u] = "move" => pc[u] = "move"
  BY PuttingKept DEF AddPending
<1> QED
  BY <1>2, <1>3, AgreeKept DEF AddPending

LEMMA AgreeStep == UnitInv /\ AgreeInv /\ [Next]_vars => AgreeInv'
<1> SUFFICES ASSUME UnitInv, AgreeInv, [Next]_vars PROVE AgreeInv'
  OBVIOUS
<1>1. CASE FrameDone
  BY <1>1 DEF FrameDone, AgreeInv, Putting, Grabbing
<1>2. CASE UNCHANGED vars
  BY <1>2 DEF vars, AgreeInv, Putting, Grabbing
<1> QED
  BY <1>1, <1>2, AgreeProcess, AgreeAddPending, AgreePoll, AgreeControl DEF Next

LEMMA AgreeInductive == Spec => [](UnitInv /\ AgreeInv)
<1>1. Init => AgreeInv
  <2> SUFFICES ASSUME Init PROVE AgreeInv
    OBVIOUS
  <2>1. \A t \in Threads : pc[t] \in {"idle", "exited"}
    BY DEF Init
  <2>2. Putting = <<>>
    BY <2>1, PutOfNone, PuttingIs
  <2> QED
    BY <2>1, <2>2, PollIsThread DEF Init, AgreeInv, Grabbing
<1>2. UnitInv /\ AgreeInv /\ [Next]_vars => AgreeInv'
  BY AgreeStep
<1> QED
  BY <1>1, <1>2, UnitInductive, PTL DEF Spec

(* Within a session that began with an empty driver, mBuffersInDevice is   *)
(* what the driver has and in its order, whatever threads queue and the    *)
(* poll thread takes out: dequeueBuffer hands out the buffer that was      *)
(* filled.                                                                 *)
THEOREM ListIsDriver == Spec => []DriverAgrees
<1>1. UnitInv /\ AgreeInv => DriverAgrees
  <2>1. ASSUME UnitInv, mState # "STOP", ctl \notin {"wait", "reset", "dead"}
        PROVE  ctl \in InSession
    BY <2>1, TypeParts DEF UnitInv, UnitTypes, SessionInv, InSession
  <2> QED
    BY <2>1 DEF AgreeInv, DriverAgrees, Grabbing
<1> QED
  BY <1>1, AgreeInductive, PTL

-----------------------------------------------------------------------------
(* How far a test of the size that is stale when it is used can lead: the  *)
(* threads past the test may each add a buffer.  The last of them found    *)
(* room, and there is one per Returner and the poll thread, or main alone. *)

PastTest == {"pending", "front", "put", "move"}
Passed == {t \in Threads : pc[t] \in PastTest}

RoomInv ==
    Len(mBuffersInDevice) + Cardinality(Passed)
        <= mMaxBuffersInDevice + Cardinality(Returners)

LEMMA PassedFinite ==
    /\ IsFiniteSet(Threads)
    /\ \A S \in SUBSET Threads : IsFiniteSet(S) /\ Cardinality(S) \in Nat
    /\ Cardinality(Returners) \in Nat
    /\ Cardinality(Returners \cup {poll}) = Cardinality(Returners) + 1
<1> USE FiniteAssumption, ThreadAssumption DEF FiniteAssumption, ThreadAssumption
<1>1. /\ IsFiniteSet(Returners \cup {poll})
      /\ Cardinality(Returners \cup {poll}) = Cardinality(Returners) + 1
  BY FS_AddElement
<1>2. Threads = (Returners \cup {poll}) \cup {main}
  BY DEF Threads
<1>3. IsFiniteSet(Threads)
  BY <1>1, <1>2, FS_AddElement
<1>4. \A S \in SUBSET Threads : IsFiniteSet(S)
  BY <1>3, FS_Subset
<1> QED
  BY <1>1, <1>3, <1>4, FS_CardinalityType

(* The steps that neither add a buffer nor let a thread past the test.     *)
LEMMA RoomKept ==
    ASSUME TypeInv, RoomInv, TypeInv', Passed' \subseteq Passed,
           Len(mBuffersInDevice') <= Len(mBuffersInDevice)
    PROVE  RoomInv'
<1>1. IsFiniteSet(Passed) /\ Cardinality(Passed) \in Nat /\ Cardinality(Passed') \in Nat
  BY PassedFinite DEF Passed
<1>2. Cardinality(Passed') <= Cardinality(Passed)
  BY <1>1, FS_Subset
<1>3. Len(mBuffersInDevice) \in Nat /\ Len(mBuffersInDevice') \in Nat
  BY TypeParts, LenProperties DEF TypeInv, TypeOK
<1> QED
  BY <1>1, <1>2, <1>3, PassedFinite, DeviceAssumption DEF RoomInv, DeviceAssumption

LEMMA RoomTestSize ==
    ASSUME UnitInv, RoomInv, NEW t \in Threads, TestSize(t), TypeInv', SessionInv'
    PROVE  RoomInv'
<1> USE ThreadAssumption, PollIsThread DEF UnitInv, ThreadAssumption
<1>0. pc \in [Threads -> Labels] /\ pc' \in [Threads -> Labels]
  BY TypeParts DEF TypeInv, TypeOK
<1>1. CASE ~HasRoom
  <2>1. Return(t) \notin PastTest
    BY DEF Return, PastTest
  <2>2. Passed' \subseteq Passed
    BY <1>0, <1>1, <2>1 DEF TestSize, Goto, Passed
  <2>3. Len(mBuffersInDevice') <= Len(mBuffersInDevice)
    BY TypeParts, LenProperties DEF TestSize, ListTypes
  <2> QED
    BY <2>2, <2>3, RoomKept
<1>2. CASE HasRoom
  <2>1. Len(mBuffersInDevice') \in Nat /\ Len(mBuffersInDevice') < mMaxBuffersInDevice
    BY <1>2, TypeParts, LenProperties DEF TestSize, ListTypes, HasRoom
  <2>2. Cardinality(Passed') <= Cardinality(Returners) + 1
    <3>1. CASE ctl' = "alloc"
      <4>1. \A u \in Returners \cup {poll} : pc'[u] \notin PastTest
        BY <3>1 DEF SessionInv, PastTest
      <4>2. Passed' \subseteq {main}
        BY <4>1 DEF Passed, Threads
      <4>a. IsFiniteSet({main}) /\ Cardinality({main}) = 1
        BY FS_Singleton, Zenon
      <4>b. Passed' \in SUBSET {main}
        BY <4>2
      <4>3. Cardinality(Passed') <= 1
        BY <4>a, <4>b, FS_Subset
      <4>4. Cardinality(Passed') \in Nat
        BY PassedFinite DEF Passed
      <4> QED
        BY <4>3, <4>4, PassedFinite
    <3>2. CASE ctl' # "alloc"
      <4>1. main \notin Passed'
        BY <3>2 DEF SessionInv, Passed, PastTest
      <4>2. Passed' \subseteq Returners \cup {poll}
        BY <4>1 DEF Passed, Threads
      <4>3. IsFiniteSet(Returners \cup {poll})
        BY PassedFinite DEF Threads
      <4> QED
        BY <4>2, <4>3, FS_Subset, PassedFinite
    <3> QED
      BY <3>1, <3>2
  <2>3. Cardinality(Passed') \in Nat
    BY PassedFinite DEF Passed
  <2> QED
    BY <2>1, <2>2, <2>3, PassedFinite, DeviceAssumption DEF RoomInv, DeviceAssumption
<1> QED
  BY <1>1, <1>2

LEMMA RoomMoveToDevice ==
    ASSUME UnitInv, RoomInv, NEW t \in Threads, MoveToDevice(t), TypeInv'
    PROVE  RoomInv'
<1>1. pc[t] = "move" /\ pc' = [pc EXCEPT ![t] = "clear"] /\ pc \in [Threads -> Labels]
  BY TypeParts DEF UnitInv, MoveToDevice, Goto, ThreadTypes
<1>2. t \in Passed /\ Passed' = Passed \ {t}
  BY <1>1 DEF Passed, PastTest
<1>3. IsFiniteSet(Passed) /\ Cardinality(Passed) \in Nat
  BY PassedFinite DEF Passed
<1>4. Cardinality(Passed') = Cardinality(Passed) - 1
  BY <1>2, <1>3, FS_RemoveElement
<1>5. Len(mBuffersInDevice) \in Nat /\ Len(mBuffersInDevice') = Len(mBuffersInDevice) + 1
  <2>1. held[t] \in Buffers /\ mBuffersInDevice \in Seq(Buffers)
    BY <1>1, TypeParts DEF UnitInv, ThreadTypes, ListTypes
  <2> QED
    BY <2>1, AppendProperties, LenProperties DEF MoveToDevice
<1> QED
  BY <1>3, <1>4, <1>5, PassedFinite, DeviceAssumption DEF RoomInv, DeviceAssumption

LEMMA RoomStep == UnitInv /\ RoomInv /\ [Next]_vars => RoomInv'
<1> SUFFICES ASSUME UnitInv, RoomInv, [Next]_vars PROVE RoomInv'
  OBVIOUS
<1> USE PollIsThread DEF UnitInv
<1>0. TypeInv' /\ SessionInv' /\ pc \in [Threads -> Labels] /\ Len(mBuffersInDevice) \in Nat
  BY TypeStep, SessionStep, TypeParts, LenProperties DEF ThreadTypes, ListTypes
<1>1. ASSUME UNCHANGED mBuffersInDevice PROVE Len(mBuffersInDevice') <= Len(mBuffersInDevice)
  BY <1>0, <1>1
<1>2. ASSUME NEW t \in Threads, NEW label, Goto(t, label),
             pc[t] \in PastTest \/ label \notin PastTest,
             UNCHANGED mBuffersInDevice
      PROVE  RoomInv'
  <2>1. Passed' \subseteq Passed
    BY <1>0, <1>2 DEF Goto, Passed
  <2> QED
    BY <1>0, <1>1, <1>2, <2>1, RoomKept
<1>3. ASSUME NEW t \in Threads, ProcessPendingBuffers(t) PROVE RoomInv'
  <2>1. CASE TestSize(t) BY <1>0, <2>1, RoomTestSize
  <2>2. CASE MoveToDevice(t) BY <1>0, <2>2, RoomMoveToDevice
  <2>3. CASE Abort(t)
    <3>1. Passed' \subseteq Passed
      BY <2>3 DEF Abort, Passed, PastTest
    <3> QED
      BY <1>0, <1>1, <2>3, <3>1, RoomKept DEF Abort
  <2>4. CASE TakeFront(t)
    <3>1. \E label : Goto(t, label) /\ pc[t] \in PastTest
      BY <2>4 DEF TakeFront, PastTest
    <3> QED
      BY <1>2, <2>4, <3>1 DEF TakeFront
  <2>5. CASE TestPending(t) BY <1>2, <2>5 DEF TestPending, PastTest
  <2>6. CASE PutFrame(t) BY <1>2, <2>6 DEF PutFrame, PastTest
  <2>7. CASE PutFrameFails(t) BY <1>2, <2>7 DEF PutFrameFails, PastTest
  <2>8. CASE ClearQueuing(t) BY <1>2, <2>8 DEF ClearQueuing, PastTest
  <2>9. CASE NextTurn(t) BY <1>2, <2>9 DEF NextTurn, PastTest, Return
  <2> QED
    BY <1>3, <2>1, <2>2, <2>3, <2>4, <2>5, <2>6, <2>7, <2>8, <2>9 DEF ProcessPendingBuffers
<1>4. ASSUME NEW t \in Threads, NEW b \in Buffers, AddPending(t, b) PROVE RoomInv'
  BY <1>2, <1>4 DEF AddPending, PastTest
<1>5. CASE PollStep \/ PollTimeout
  <2>1. CASE PopBufferFromDevice
    <3>1. Passed' \subseteq Passed
      BY <1>0, <2>1 DEF PopBufferFromDevice, Goto, Passed, PastTest
    <3>2. Len(mBuffersInDevice') <= Len(mBuffersInDevice)
      <4>1. CASE mBuffersInDevice = <<>>
        BY <1>0, <2>1, <4>1 DEF PopBufferFromDevice
      <4>2. CASE mBuffersInDevice # <<>>
        BY <1>0, <2>1, <4>2, TypeParts, HeadTailProperties DEF PopBufferFromDevice, ListTypes
      <4> QED
        BY <4>1, <4>2
    <3> QED
      BY <1>0, <3>1, <3>2, RoomKept
  <2>2. CASE ~PopBufferFromDevice
    BY <1>2, <1>5, <2>2
    DEF PollStep, PollEnter, PollReturns, PollTimeout, GetFirstDeviceBuffer, GrabFrame,
        GrabFrameFails, Deliver, PastTest
  <2> QED
    BY <2>1, <2>2
<1>6. CASE FrameDone
  BY <1>0, <1>1, <1>6, RoomKept DEF FrameDone, Passed
<1>7. CASE Control
  <2>1. CASE Start BY <1>2, <2>1 DEF Start, PastTest
  <2>2. CASE ResetBuffers \/ Configure
    <3>1. Len(mBuffersInDevice') <= Len(mBuffersInDevice) /\ Passed' \subseteq Passed
      BY <1>0, <2>2, EmptySeq DEF ResetBuffers, Configure, Passed
    <3> QED
      BY <1>0, <3>1, RoomKept
  <2>3. CASE UNCHANGED <<pc, mBuffersInDevice>>
    BY <1>0, <1>1, <2>3, RoomKept DEF Passed
  <2> QED
    BY <1>7, <2>1, <2>2, <2>3
    DEF Control, Alloc, Started, Stop, StreamOff, StopReturns, Joined
<1>8. CASE UNCHANGED vars
  BY <1>0, <1>1, <1>8, RoomKept DEF vars, Passed
<1> QED
  BY <1>3, <1>4, <1>5, <1>6, <1>7, <1>8 DEF Next

(* The device has at most one buffer more than its limit for each thread   *)
(* of the processing unit, although the size is tested in one lock section *)
(* and the buffer added in another.                                        *)
THEOREM RoomKeptInDevice == Spec => []DeviceBounded
<1>1. Init => RoomInv
  <2> SUFFICES ASSUME Init PROVE RoomInv
    OBVIOUS
  <2>1. Passed = {} /\ Len(mBuffersInDevice) = 0
    BY EmptySeq DEF Init, Passed, PastTest
  <2> QED
    BY <2>1, FS_EmptySet, PassedFinite, DeviceAssumption DEF RoomInv, DeviceAssumption
<1>2. UnitInv /\ RoomInv /\ [Next]_vars => RoomInv'
  BY RoomStep
<1>3. UnitInv /\ RoomInv => DeviceBounded
  <2> SUFFICES ASSUME UnitInv, RoomInv PROVE DeviceBounded
    OBVIOUS
  <2>1. Len(mBuffersInDevice) \in Nat
    BY TypeParts, LenProperties DEF UnitInv, ListTypes
  <2>2. Cardinality(Passed) \in Nat
    BY PassedFinite DEF Passed
  <2> QED
    BY <2>1, <2>2, PassedFinite, DeviceAssumption DEF RoomInv, DeviceBounded, DeviceAssumption
<1> QED
  BY <1>1, <1>2, <1>3, UnitInductive, PTL DEF Spec

-----------------------------------------------------------------------------
(* How often a buffer is in a list.                                        *)

Count(s, b) == Cardinality({i \in DOMAIN s : s[i] = b})

One(test) == IF test THEN 1 ELSE 0

LEMMA CountEmpty == \A b : Count(<<>>, b) = 0
<1>1. \A b : {i \in DOMAIN <<>> : <<>>[i] = b} = {}
  OBVIOUS
<1> QED
  BY <1>1, FS_EmptySet DEF Count

LEMMA CountType ==
    ASSUME NEW s \in Seq(Buffers), NEW b
    PROVE  /\ IsFiniteSet({i \in DOMAIN s : s[i] = b})
           /\ Count(s, b) \in Nat
<1>1. DOMAIN s = 1 .. Len(s) /\ Len(s) \in Nat
  BY LenProperties
<1>2. IsFiniteSet(1 .. Len(s))
  BY <1>1, FS_Interval
<1>3. {i \in DOMAIN s : s[i] = b} \in SUBSET (1 .. Len(s))
  BY <1>1
<1>4. IsFiniteSet({i \in DOMAIN s : s[i] = b})
  BY <1>2, <1>3, FS_Subset
<1> QED
  BY <1>4, FS_CardinalityType DEF Count

LEMMA CountAppend ==
    ASSUME NEW s \in Seq(Buffers), NEW e \in Buffers, NEW b
    PROVE  Count(Append(s, e), b) = Count(s, b) + One(e = b)
<1> DEFINE At == {i \in DOMAIN s : s[i] = b}
           AtAfter == {i \in DOMAIN Append(s, e) : Append(s, e)[i] = b}
<1>1. /\ DOMAIN s = 1 .. Len(s) /\ Len(s) \in Nat
      /\ DOMAIN Append(s, e) = 1 .. Len(s) + 1
      /\ \A i \in 1 .. Len(s) : Append(s, e)[i] = s[i]
      /\ Append(s, e)[Len(s) + 1] = e
  BY LenProperties, AppendProperties
<1>2. AtAfter = IF e = b THEN At \cup {Len(s) + 1} ELSE At
  BY <1>1
<1>a. IsFiniteSet(At) /\ Cardinality(At) \in Nat
  BY CountType, Zenon DEF Count
<1>b. Len(s) + 1 \notin At
  BY <1>1
<1> HIDE DEF At, AtAfter
<1>3. IsFiniteSet(At) /\ Cardinality(At) \in Nat /\ Len(s) + 1 \notin At
  BY <1>a, <1>b
<1>4. Cardinality(AtAfter) = Cardinality(At) + One(e = b)
  <2>1. CASE e = b
    BY <1>2, <1>3, <2>1, FS_AddElement DEF One
  <2>2. CASE e # b
    BY <1>2, <1>3, <2>2 DEF One
  <2> QED
    BY <2>1, <2>2
<1> QED
  BY <1>4 DEF Count, At, AtAfter

LEMMA CountTail ==
    ASSUME NEW s \in Seq(Buffers), s # <<>>, NEW b
    PROVE  Count(s, b) = Count(Tail(s), b) + One(Head(s) = b)
<1> DEFINE Rest == {i \in DOMAIN Tail(s) : Tail(s)[i] = b}
           Later == {i \in DOMAIN s : i > 1 /\ s[i] = b}
           At == {i \in DOMAIN s : s[i] = b}
           f == [i \in Rest |-> i + 1]
<1>1. /\ DOMAIN s = 1 .. Len(s) /\ Len(s) \in Nat \ {0}
      /\ DOMAIN Tail(s) = 1 .. Len(s) - 1
      /\ \A i \in 1 .. Len(s) - 1 : Tail(s)[i] = s[i + 1]
      /\ Head(s) = s[1] /\ Tail(s) \in Seq(Buffers)
  BY LenProperties, HeadTailProperties, EmptySeq
<1>2. f \in Bijection(Rest, Later)
  <2>1. f \in [Rest -> Later]
    BY <1>1
  <2>2. \A i, j \in Rest : f[i] = f[j] => i = j
    BY <1>1
  <2>3. \A k \in Later : \E i \in Rest : f[i] = k
    <3> SUFFICES ASSUME NEW k \in Later PROVE k - 1 \in Rest /\ f[k - 1] = k
      OBVIOUS
    <3>1. k - 1 \in Rest
      BY <1>1
    <3> QED
      BY <1>1, <3>1
  <2> HIDE DEF f, Rest, Later
  <2>4. f \in Injection(Rest, Later)
    BY <2>1, <2>2 DEF Injection, IsInjective
  <2>5. f \in Surjection(Rest, Later)
    BY <2>1, <2>3 DEF Surjection
  <2> QED
    BY <2>4, <2>5 DEF Bijection
<1>3. IsFiniteSet(Rest) /\ Cardinality(Rest) \in Nat
  BY <1>1, CountType DEF Count
<1>4. IsFiniteSet(Later) /\ Cardinality(Later) = Cardinality(Rest)
  <2> HIDE DEF Rest, Later, f
  <2>1. ExistsBijection(Rest, Later)
    BY <1>2 DEF ExistsBijection
  <2> QED
    BY <1>3, <2>1, FS_Bijection
<1>5. At = IF Head(s) = b THEN Later \cup {1} ELSE Later
  BY <1>1
<1>a. 1 \notin Later
  OBVIOUS
<1> HIDE DEF At, Later, Rest
<1>6. Cardinality(At) = Cardinality(Later) + One(Head(s) = b)
  <2>1. 1 \notin Later
    BY <1>a
  <2>2. CASE Head(s) = b
    BY <1>4, <1>5, <2>1, <2>2, FS_AddElement DEF One
  <2>3. CASE Head(s) # b
    BY <1>3, <1>4, <1>5, <2>3 DEF One
  <2> QED
    BY <2>2, <2>3
<1> QED
  BY <1>4, <1>6 DEF Count, At, Rest

-----------------------------------------------------------------------------
(* A session: the lists and the pipeline together have every buffer once,  *)
(* and a thread in queueBuffer puts the buffer that the list still has in  *)
(* front, for one thread at a time is there.                               *)

Counted == {"alloc", "starting", "started"}

PollHas(b) ==
    grabbed = b /\ ~mNeedSkipFrame /\ pc[poll] \in Processing \cup {"deliver"}

HeadHeld ==
    \A t \in Threads :
        pc[t] \in {"put", "move"} => mPendingBuffers # <<>> /\ Head(mPendingBuffers) = held[t]

PlacesInv ==
    /\ ~late /\ ctl \in Counted => HeadHeld /\ \A b \in Buffers : Places(b) = 1
    /\ ~late /\ ctl = "stopped" => mPendingBuffers = <<>> /\ mBuffersInDevice = <<>>

CaptureInv == UnitInv /\ AgreeInv /\ PlacesInv

LEMMA PlacesAre ==
    \A b : Places(b) = Count(mPendingBuffers, b) + Count(mBuffersInDevice, b)
                         + One(b \in out) + One(PollHas(b))
BY DEF Places, Count, One, PollHas, Processing

LEMMA PlacesAreNext ==
    \A b : Places(b)' = Count(mPendingBuffers', b) + Count(mBuffersInDevice', b)
                         + One(b \in out') + One(PollHas(b)')
BY DEF Places, Count, One, PollHas, Processing

LEMMA OneType == \A test \in BOOLEAN : One(test) \in Nat
BY DEF One

(* The steps that leave every buffer where it is.                          *)
LEMMA PlacesKept ==
    ASSUME UNCHANGED <<mPendingBuffers, mBuffersInDevice, out>>,
           \A b \in Buffers : PollHas(b)' <=> PollHas(b)
    PROVE  \A b \in Buffers : Places(b)' = Places(b)
BY PlacesAre, PlacesAreNext DEF One

LEMMA PollHasKept ==
    ASSUME UNCHANGED <<grabbed, mNeedSkipFrame>>,
           pc'[poll] \in Processing \cup {"deliver"}
              <=> pc[poll] \in Processing \cup {"deliver"}
    PROVE  \A b : PollHas(b)' <=> PollHas(b)
BY DEF PollHas

(* The steps after which the list has the same front buffer.               *)
LEMMA HeadKept ==
    ASSUME HeadHeld,
           \A t \in Threads : pc'[t] \in {"put", "move"} =>
               pc[t] \in {"put", "move"} /\ held'[t] = held[t],
           mPendingBuffers # <<>> =>
               mPendingBuffers' # <<>> /\ Head(mPendingBuffers') = Head(mPendingBuffers)
    PROVE  HeadHeld'
BY DEF HeadHeld

(* A step that touches neither lists nor threads and goes on in a session. *)
LEMMA PlacesInvKept ==
    ASSUME PlacesInv,
           UNCHANGED <<mPendingBuffers, mBuffersInDevice, out, pc, held, grabbed,
                       mNeedSkipFrame>>,
           ~late' => ~late, ctl' \in Counted => ctl \in Counted,
           ctl' = "stopped" => ctl = "stopped"
    PROVE  PlacesInv'
<1>1. \A b \in Buffers : Places(b)' = Places(b)
  BY PollHasKept, PlacesKept
<1>2. HeadHeld => HeadHeld'
  BY DEF HeadHeld
<1> QED
  BY <1>1, <1>2 DEF PlacesInv

LEMMA PlacesProcess ==
    ASSUME CaptureInv, TypeInv', NEW t \in Threads, ProcessPendingBuffers(t)
    PROVE  PlacesInv'
<1> USE PollIsThread DEF CaptureInv, UnitInv
<1>0. /\ pc \in [Threads -> Labels] /\ held \in [Threads -> 0 .. NumBuffers]
      /\ mPendingBuffers \in Seq(Buffers) /\ mBuffersInDevice \in Seq(Buffers)
  BY TypeParts DEF ThreadTypes, ListTypes
<1>1. CASE Abort(t)
  BY <1>1 DEF Abort, PlacesInv, Counted
<1> SUFFICES ASSUME ~Abort(t), ~late, ctl \in Counted, HeadHeld,
                    \A b \in Buffers : Places(b) = 1
             PROVE  HeadHeld' /\ \A b \in Buffers : Places(b)' = 1
  <2>1. ASSUME ~Abort(t) PROVE ctl # "stopped" /\ UNCHANGED unit
    <3>1. pc[t] \in Processing /\ UNCHANGED unit
      BY <2>1, ProcessFrame
    <3>2. ctl # "stopped"
      BY <3>1, ThreadAssumption DEF SessionInv, Processing, Threads, ThreadAssumption
    <3> QED
      BY <3>1, <3>2
  <2> QED
    BY <1>1, <2>1 DEF PlacesInv
<1>2. ASSUME NEW label, Goto(t, label), pc[t] \in Processing,
             label \in Processing \cup {Return(t)},
             UNCHANGED <<mPendingBuffers, mBuffersInDevice, out, grabbed, mNeedSkipFrame>>
      PROVE  \A b \in Buffers : Places(b)' = 1
  <2>1. pc'[poll] \in Processing \cup {"deliver"}
              <=> pc[poll] \in Processing \cup {"deliver"}
    BY <1>0, <1>2 DEF Goto, Return
  <2> QED
    BY <1>2, <2>1, PollHasKept, PlacesKept
<1>3. ASSUME NEW label, Goto(t, label), label \notin {"put", "move"}, UNCHANGED held,
             mPendingBuffers' = mPendingBuffers
      PROVE  HeadHeld'
  BY <1>0, <1>3, HeadKept DEF Goto
<1>4. Return(t) \notin {"put", "move"}
  BY DEF Return
<1>5. CASE TestSize(t)
  BY <1>2, <1>3, <1>4, <1>5 DEF TestSize, Processing
<1>6. CASE TestPending(t)
  BY <1>2, <1>3, <1>4, <1>6 DEF TestPending, Processing
<1>7. CASE TakeFront(t)
  <2>1. \A b \in Buffers : Places(b)' = 1
    BY <1>2, <1>7 DEF TakeFront, Processing
  <2>0. mPendingBuffers' = mPendingBuffers
    BY <1>7 DEF TakeFront
  <2>2. CASE UNCHANGED held /\ \E label \in {"next", Return(t)} : Goto(t, label)
    <3>1. PICK label \in {"next", Return(t)} : Goto(t, label)
      BY <2>2
    <3>2. label \notin {"put", "move"}
      BY <1>4, <3>1
    <3> QED
      BY <1>3, <2>0, <2>1, <2>2, <3>1, <3>2
  <2>3. CASE /\ MayQueue /\ mPendingBuffers # <<>> /\ Goto(t, "put")
             /\ held' = [held EXCEPT ![t] = Head(mPendingBuffers)]
    <3>1. \A u \in Threads : pc[u] \notin {"put", "move"}
      BY <2>3 DEF MayQueue, OneQueuer, InQueueBuffer
    <3> QED
      BY <1>0, <2>0, <2>1, <2>3, <3>1 DEF HeadHeld, Goto
  <2> QED
    BY <1>7, <2>1, <2>2, <2>3 DEF TakeFront
<1>8. CASE PutFrame(t)
  <2>1. \A b \in Buffers : Places(b)' = 1
    BY <1>2, <1>8 DEF PutFrame, Processing
  <2>2. HeadHeld'
    BY <1>0, <1>8, HeadKept DEF PutFrame, Goto
  <2> QED
    BY <2>1, <2>2
<1>9. CASE PutFrameFails(t)
  BY <1>2, <1>3, <1>9 DEF PutFrameFails, Processing
<1>10. CASE MoveToDevice(t)
  <2>1. /\ held[t] \in Buffers /\ mPendingBuffers # <<>> /\ Head(mPendingBuffers) = held[t]
    BY <1>10, TypeParts DEF MoveToDevice, HeadHeld, ThreadTypes
  <2>2. \A b \in Buffers : PollHas(b)' <=> PollHas(b)
    <3>1. pc'[poll] \in Processing \cup {"deliver"}
                <=> pc[poll] \in Processing \cup {"deliver"}
      BY <1>0, <1>10 DEF MoveToDevice, Goto, Processing
    <3> QED
      BY <1>10, <3>1, PollHasKept DEF MoveToDevice
  <2>3. ASSUME NEW b \in Buffers PROVE Places(b)' = 1
    <3>1. /\ Count(mPendingBuffers, b) = Count(mPendingBuffers', b) + One(held[t] = b)
          /\ Count(mBuffersInDevice', b) = Count(mBuffersInDevice, b) + One(held[t] = b)
      BY <1>0, <1>10, <2>1, CountTail, CountAppend DEF MoveToDevice
    <3>2. One(b \in out') = One(b \in out) /\ One(PollHas(b)') = One(PollHas(b))
      BY <1>10, <2>2 DEF MoveToDevice, One
    <3>3. /\ Count(mPendingBuffers', b) \in Nat /\ Count(mBuffersInDevice, b) \in Nat
          /\ One(held[t] = b) \in Nat /\ One(b \in out) \in Nat /\ One(PollHas(b)) \in Nat
      BY <1>0, CountType, TypeParts DEF TypeInv, TypeOK, One
    <3> QED
      BY <3>1, <3>2, <3>3, PlacesAre, PlacesAreNext
  <2>4. HeadHeld'
    <3>1. \A u \in Threads : pc'[u] \notin {"put", "move"}
      BY <1>0, <1>10 DEF MoveToDevice, Goto, OneQueuer, InQueueBuffer
    <3> QED
      BY <3>1 DEF HeadHeld
  <2> QED
    BY <2>3, <2>4
<1>11. CASE ClearQueuing(t)
  <2>1. \A b \in Buffers : Places(b)' = 1
    BY <1>2, <1>11 DEF ClearQueuing, Processing
  <2>2. HeadHeld'
    BY <1>0, <1>11, HeadKept DEF ClearQueuing, Goto
  <2> QED
    BY <2>1, <2>2
<1>12. CASE NextTurn(t)
  BY <1>2, <1>3, <1>4, <1>12 DEF NextTurn, Processing
<1> QED
  BY <1>5, <1>6, <1>7, <1>8, <1>9, <1>10, <1>11, <1>12 DEF ProcessPendingBuffers

LEMMA PlacesAddPending ==
    ASSUME CaptureInv, NEW t \in Threads, NEW b \in Buffers, AddPending(t, b)
    PROVE  PlacesInv'
<1> USE PollIsThread DEF CaptureInv, UnitInv
<1>0. /\ pc \in [Threads -> Labels]
      /\ mPendingBuffers \in Seq(Buffers) /\ mBuffersInDevice \in Seq(Buffers)
  BY TypeParts DEF ThreadTypes, ListTypes
<1>1. b \in out /\ t # poll /\ ctl # "stopped" /\ UNCHANGED unit
  BY TypeParts DEF AddPending, PollHolds, SessionInv
<1> SUFFICES ASSUME ~late, ctl \in Counted, HeadHeld, \A c \in Buffers : Places(c) = 1
             PROVE  HeadHeld' /\ \A c \in Buffers : Places(c)' = 1
  BY <1>1 DEF PlacesInv
<1>2. ASSUME NEW c \in Buffers PROVE Places(c)' = 1
  <2>1. Count(mPendingBuffers', c) = Count(mPendingBuffers, c) + One(b = c)
    BY <1>0, CountAppend DEF AddPending
  <2>2. One(c \in out) = One(c \in out') + One(b = c)
    BY <1>1 DEF AddPending, One
  <2>3. PollHas(c)' <=> PollHas(c)
    BY <1>0, <1>1, PollHasKept DEF AddPending, Goto
  <2>4. One(PollHas(c)') = One(PollHas(c)) /\ Count(mBuffersInDevice', c) = Count(mBuffersInDevice, c)
    BY <2>3 DEF AddPending, One
  <2>5. /\ Count(mPendingBuffers, c) \in Nat /\ Count(mBuffersInDevice, c) \in Nat
        /\ One(b = c) \in Nat /\ One(c \in out') \in Nat /\ One(PollHas(c)) \in Nat
    BY <1>0, CountType DEF One
  <2> QED
    BY <2>1, <2>2, <2>4, <2>5, PlacesAre, PlacesAreNext
<1>3. HeadHeld'
  <2>1. mPendingBuffers # <<>> =>
          mPendingBuffers' # <<>> /\ Head(mPendingBuffers') = Head(mPendingBuffers)
    BY <1>0, AppendProperties, HeadTailAppend DEF AddPending
  <2> QED
    BY <1>0, <2>1, HeadKept DEF AddPending, Goto
<1> QED
  BY <1>2, <1>3

LEMMA PlacesPop ==
    ASSUME CaptureInv, PopBufferFromDevice, ~late, ctl \in Counted, HeadHeld,
           NEW b \in Buffers, Places(b) = 1
    PROVE  HeadHeld' /\ Places(b)' = 1
<1> USE PollIsThread DEF CaptureInv, UnitInv
<1>0. /\ pc \in [Threads -> Labels] /\ pc[poll] = "pop" /\ pc' = [pc EXCEPT ![poll] = "size"]
      /\ mPendingBuffers \in Seq(Buffers) /\ mBuffersInDevice \in Seq(Buffers)
      /\ mNeedSkipFrame \in BOOLEAN
  BY TypeParts DEF ThreadTypes, ListTypes, DequeueTypes, PopBufferFromDevice, Goto
<1>1. mBuffersInDevice # <<>> /\ Head(mBuffersInDevice) = grabbed /\ grabbed \in Buffers
  BY <1>0, TypeParts, HeadTailProperties DEF AgreeInv, InSession, Counted, PollHolds, HoldsGrabbed
<1>2. Count(mBuffersInDevice, b) = Count(mBuffersInDevice', b) + One(grabbed = b)
  <2>1. mBuffersInDevice' = Tail(mBuffersInDevice)
    BY <1>1 DEF PopBufferFromDevice
  <2>2. Count(mBuffersInDevice, b)
          = Count(Tail(mBuffersInDevice), b) + One(Head(mBuffersInDevice) = b)
    BY <1>0, <1>1, CountTail
  <2> QED
    BY <1>1, <2>1, <2>2
<1>3. One(b \in out') = One(b \in out) /\ ~PollHas(b)
  BY <1>0 DEF PopBufferFromDevice, One, PollHas, Processing
<1>4. /\ Count(mPendingBuffers, b) \in Nat /\ Count(mBuffersInDevice', b) \in Nat
      /\ One(grabbed = b) \in Nat /\ One(b \in out) \in Nat
  <2>1. Tail(mBuffersInDevice) \in Seq(Buffers)
    BY <1>0, <1>1, HeadTailProperties
  <2> QED
    BY <1>0, <1>1, <2>1, CountType DEF PopBufferFromDevice, One
<1>5. CASE mNeedSkipFrame
  <2>1. mPendingBuffers' = Append(mPendingBuffers, grabbed)
    BY <1>0, <1>1, <1>5, AppendIsConcat DEF PopBufferFromDevice, PushBack
  <2>2. Count(mPendingBuffers', b) = Count(mPendingBuffers, b) + One(grabbed = b)
    BY <1>0, <1>1, <2>1, CountAppend
  <2>3. ~PollHas(b)'
    BY <1>5 DEF PopBufferFromDevice, PollHas
  <2>4. Places(b)' = 1
    BY <1>2, <1>3, <1>4, <2>2, <2>3, PlacesAre, PlacesAreNext DEF One
  <2>5. mPendingBuffers # <<>> =>
          mPendingBuffers' # <<>> /\ Head(mPendingBuffers') = Head(mPendingBuffers)
    BY <1>0, <1>1, <2>1, AppendProperties, HeadTailAppend
  <2>6. HeadHeld'
    BY <1>0, <2>5, HeadKept DEF PopBufferFromDevice
  <2> QED
    BY <2>4, <2>6
<1>6. CASE ~mNeedSkipFrame
  <2>1. mPendingBuffers' = mPendingBuffers
    BY <1>0, <1>1, <1>6, ConcatEmptySeq DEF PopBufferFromDevice, PushBack
  <2>2. PollHas(b)' <=> grabbed = b
    BY <1>0, <1>6 DEF PopBufferFromDevice, PollHas, Processing
  <2>3. One(PollHas(b)') = One(grabbed = b)
    BY <2>2 DEF One
  <2>4. Places(b)' = 1
    BY <1>2, <1>3, <1>4, <2>1, <2>3, PlacesAre, PlacesAreNext DEF One
  <2>5. HeadHeld'
    BY <1>0, <2>1, HeadKept DEF PopBufferFromDevice
  <2> QED
    BY <2>4, <2>5
<1> QED
  BY <1>0, <1>5, <1>6

LEMMA PlacesDeliver ==
    ASSUME CaptureInv, Deliver, ~late, ctl \in Counted, HeadHeld,
           NEW b \in Buffers, Places(b) = 1
    PROVE  HeadHeld' /\ Places(b)' = 1
<1> USE PollIsThread DEF CaptureInv, UnitInv
<1>0. /\ pc \in [Threads -> Labels] /\ pc[poll] = "deliver"
      /\ mPendingBuffers \in Seq(Buffers) /\ mBuffersInDevice \in Seq(Buffers)
      /\ mNeedSkipFrame \in BOOLEAN
  BY TypeParts DEF ThreadTypes, ListTypes, DequeueTypes, Deliver
<1>1. /\ Count(mPendingBuffers', b) = Count(mPendingBuffers, b)
      /\ Count(mBuffersInDevice', b) = Count(mBuffersInDevice, b)
      /\ Count(mPendingBuffers, b) \in Nat /\ Count(mBuffersInDevice, b) \in Nat
  BY <1>0, CountType DEF Deliver
<1>2. ~PollHas(b)'
  BY <1>0 DEF Deliver, PollHas, Goto, Processing
<1>3. One(b \in out') = One(b \in out) + One(PollHas(b))
  <2>1. PollHas(b) <=> grabbed = b /\ ~mNeedSkipFrame
    BY <1>0 DEF PollHas
  <2>2. ~(b \in out /\ PollHas(b))
    BY <1>1, PlacesAre DEF One
  <2>3. b \in out' <=> b \in out \/ PollHas(b)
    BY <1>0, <2>1 DEF Deliver
  <2> QED
    BY <2>2, <2>3 DEF One
<1>4. Places(b)' = 1
  BY <1>1, <1>2, <1>3, PlacesAre, PlacesAreNext DEF One
<1>5. HeadHeld'
  BY <1>0, HeadKept DEF Deliver, Goto
<1> QED
  BY <1>4, <1>5

LEMMA PlacesPoll ==
    ASSUME CaptureInv, PollStep \/ PollTimeout
    PROVE  PlacesInv'
<1> USE PollIsThread DEF CaptureInv, UnitInv
<1>0. pc \in [Threads -> Labels] /\ grabbed \in 0 .. NumBuffers
  BY TypeParts DEF ThreadTypes, DequeueTypes
<1>1. ctl # "stopped" /\ UNCHANGED unit /\ pc[poll] \notin Processing
  BY PollFrame DEF SessionInv, Processing
<1> SUFFICES ASSUME ~late, ctl \in Counted, HeadHeld, \A b \in Buffers : Places(b) = 1
             PROVE  HeadHeld' /\ \A b \in Buffers : Places(b)' = 1
  BY <1>1 DEF PlacesInv
<1> SUFFICES ASSUME NEW b \in Buffers
             PROVE  HeadHeld' /\ Places(b)' = 1
  BY BuffersAssumption DEF Buffers
<1>a. Places(b) = 1
  OBVIOUS
<1>2. ASSUME NEW label, Goto(poll, label), label \notin Processing \cup {"deliver"},
             pc[poll] # "deliver",
             UNCHANGED <<mPendingBuffers, mBuffersInDevice, out, held>>
      PROVE  HeadHeld' /\ Places(b)' = 1
  <2>1. ~PollHas(b) /\ ~PollHas(b)'
    BY <1>0, <1>1, <1>2 DEF PollHas, Goto
  <2>2. Places(b)' = Places(b)
    BY <1>2, <2>1, PlacesAre, PlacesAreNext DEF One
  <2>3. HeadHeld'
    BY <1>0, <1>2, HeadKept DEF Goto, Processing
  <2> QED
    BY <1>a, <2>2, <2>3
<1>3. CASE PopBufferFromDevice
  BY <1>3, <1>a, PlacesPop
<1>4. CASE Deliver
  BY <1>4, <1>a, PlacesDeliver
<1> QED
  BY <1>2, <1>3, <1>4
  DEF PollStep, PollEnter, PollReturns, PollTimeout, GetFirstDeviceBuffer, GrabFrame,
      GrabFrameFails, Processing

LEMMA PlacesControl ==
    ASSUME CaptureInv, Control
    PROVE  PlacesInv'
<1> USE PollIsThread DEF CaptureInv, UnitInv, Counted
<1>0. pc \in [Threads -> Labels]
  BY TypeParts DEF ThreadTypes
<1>1. CASE Alloc
  <2> SUFFICES ASSUME ~late PROVE HeadHeld' /\ \A b \in Buffers : Places(b)' = 1
    BY <1>1 DEF Alloc, PlacesInv
  <2>1. \A t \in Threads : pc'[t] \notin {"put", "move"}
    BY <1>1 DEF Alloc, SessionInv, Threads
  <2>2. mPendingBuffers' = <<>> /\ mBuffersInDevice' = <<>> /\ out' = Buffers
    BY <1>1 DEF Alloc, PlacesInv
  <2>3. \A b \in Buffers : ~PollHas(b)'
    BY <1>1 DEF Alloc, SessionInv, PollHas, Processing
  <2> QED
    BY <2>1, <2>2, <2>3, CountEmpty, PlacesAreNext DEF HeadHeld, One
<1>2. CASE Start
  <2> SUFFICES ASSUME ~late PROVE HeadHeld' /\ \A b \in Buffers : Places(b)' = 1
    BY <1>2 DEF Start, PlacesInv
  <2>1. \A b \in Buffers : ~PollHas(b) /\ ~PollHas(b)'
    BY <1>0, <1>2 DEF Start, SessionInv, PollHas, Goto, Processing
  <2>2. \A b \in Buffers : Places(b)' = Places(b)
    BY <1>2, <2>1, PlacesKept DEF Start
  <2>3. HeadHeld'
    BY <1>0, <1>2, HeadKept DEF Start, Goto, PlacesInv
  <2> QED
    BY <1>2, <2>2, <2>3 DEF Start, PlacesInv
<1>3. CASE Started \/ Stop \/ StreamOff \/ StopReturns
  BY <1>3, PlacesInvKept DEF Started, Stop, StreamOff, StopReturns
<1>4. CASE ResetBuffers
  BY <1>4 DEF ResetBuffers, PlacesInv
<1>5. CASE Joined
  <2> SUFFICES ASSUME ~late' PROVE mPendingBuffers = <<>> /\ mBuffersInDevice = <<>>
    BY <1>5 DEF Joined, PlacesInv
  <2> QED
    BY <1>5 DEF Joined, AgreeInv
<1>6. CASE Configure
  BY <1>6 DEF Configure, PlacesInv
<1> QED
  BY <1>1, <1>2, <1>3, <1>4, <1>5, <1>6 DEF Control

LEMMA PlacesStep == CaptureInv /\ [Next]_vars => PlacesInv'
<1> SUFFICES ASSUME CaptureInv, [Next]_vars PROVE PlacesInv'
  OBVIOUS
<1>1. TypeInv'
  BY TypeStep DEF CaptureInv, UnitInv
<1>2. FrameDone \/ UNCHANGED vars => PlacesInv'
  BY PlacesInvKept DEF CaptureInv, FrameDone, vars
<1> QED
  BY <1>1, <1>2, PlacesProcess, PlacesAddPending, PlacesPoll, PlacesControl DEF Next

LEMMA CaptureInductive == Spec => []CaptureInv
<1>1. Init => PlacesInv
  BY DEF Init, PlacesInv, Counted
<1>2. UnitInv /\ AgreeInv /\ PlacesInv /\ [Next]_vars => PlacesInv'
  BY PlacesStep DEF CaptureInv
<1>3. UnitInv /\ AgreeInv /\ PlacesInv => CaptureInv
  BY DEF CaptureInv
<1> QED
  BY <1>1, <1>2, <1>3, AgreeInductive, PTL DEF Spec

(* Within a session every raw buffer is in exactly one place, whichever of *)
(* them fail, are skipped or bad, and however many threads queue: none is  *)
(* dropped by CaptureUnit and DeviceBase, and none is queued twice.        *)
THEOREM EveryBufferInPlace == Spec => []NoBufferLost
<1>1. CaptureInv => NoBufferLost
  BY DEF CaptureInv, PlacesInv, NoBufferLost, Counted
<1> QED
  BY <1>1, CaptureInductive, PTL

-----------------------------------------------------------------------------
(* Nobody sleeps on work.  A thread gives up only when it has seen no room *)
(* or nothing pending, which nobody undoes without coming back itself, or  *)
(* the flag of another thread, which then takes another turn; and within a *)
(* session that thread does not fail, for the driver has no buffer twice.  *)

StateInv ==
    /\ mState = "START" => ctl \in {"started", "exit", "wait", "dead"}
    /\ ctl \in {"exit", "wait"} => mExitPending
    /\ ctl \in {"stopped", "joining"} \cup Counted => ~mExitPending
    /\ ctl = "dead" => mPendingBuffers = <<>>
    /\ ctl # "dead" /\ mBufferQueuing => Queuing # {}

KickInv ==
    ~late /\ ctl \in Counted /\ putFails = 0 =>
        /\ \A t \in Threads : pc[t] \in {"put", "move", "clear", "next"} => ~failed[t]
        /\ mPendingBuffers = <<>> \/ ~HasRoom \/ Busy

LEMMA CountSome ==
    ASSUME NEW s \in Seq(Buffers), NEW b, NEW i \in DOMAIN s, s[i] = b
    PROVE  Count(s, b) # 0
<1>1. IsFiniteSet({j \in DOMAIN s : s[j] = b}) /\ {j \in DOMAIN s : s[j] = b} # {}
  BY CountType
<1> QED
  BY <1>1, FS_EmptySet DEF Count

LEMMA HeldNotInDriver ==
    ASSUME CaptureInv, ~late, ctl \in Counted, NEW t \in Threads, pc[t] = "put"
    PROVE  ~InDriver(held[t])
<1> USE PollIsThread DEF CaptureInv, UnitInv
<1>0. /\ mPendingBuffers \in Seq(Buffers) /\ mBuffersInDevice \in Seq(Buffers)
      /\ driver \in Seq(Buffers) /\ held[t] \in Buffers
      /\ pc[poll] = "pop" => grabbed \in Buffers
  BY TypeParts DEF ThreadTypes, ListTypes, KernelTypes, PollHolds, HoldsGrabbed
<1>1. mPendingBuffers # <<>> /\ Head(mPendingBuffers) = held[t] /\ Places(held[t]) = 1
  BY <1>0 DEF PlacesInv, HeadHeld
<1>2. Count(mPendingBuffers, held[t]) = Count(Tail(mPendingBuffers), held[t]) + 1
  BY <1>0, <1>1, CountTail DEF One
<1>3. Count(mBuffersInDevice, held[t]) = 0
  <2>1. Tail(mPendingBuffers) \in Seq(Buffers)
    BY <1>0, <1>1, HeadTailProperties
  <2>2. Count(Tail(mPendingBuffers), held[t]) \in Nat /\ Count(mBuffersInDevice, held[t]) \in Nat
    BY <1>0, <2>1, CountType
  <2>3. One(held[t] \in out) \in Nat /\ One(PollHas(held[t])) \in Nat
    BY DEF One
  <2>4. Places(held[t]) = Count(mPendingBuffers, held[t]) + Count(mBuffersInDevice, held[t])
                            + One(held[t] \in out) + One(PollHas(held[t]))
    BY PlacesAre
  <2> QED
    BY <1>1, <1>2, <2>2, <2>3, <2>4
<1>4. Putting = <<>>
  <2>1. \A u \in Threads : pc[u] # "move"
    BY DEF OneQueuer, InQueueBuffer
  <2> QED
    BY <2>1, PutOfNone, PuttingIs
<1>5. mBuffersInDevice = Grabbing \o driver
  <2>1. mBuffersInDevice \o <<>> = Grabbing \o driver
    BY <1>4 DEF AgreeInv, InSession, Counted
  <2> QED
    BY <1>0, <2>1, ConcatEmptySeq
<1>6. Grabbing \in Seq(Buffers)
  BY <1>0, EmptySeq DEF Grabbing
<1> SUFFICES ASSUME NEW i \in DOMAIN driver, driver[i] = held[t] PROVE FALSE
  BY DEF InDriver
<1>7. /\ Len(Grabbing) \in Nat /\ Len(driver) \in Nat /\ i \in 1 .. Len(driver)
      /\ DOMAIN mBuffersInDevice = 1 .. Len(mBuffersInDevice)
  BY <1>0, <1>6, LenProperties
<1>8. /\ Len(mBuffersInDevice) = Len(Grabbing) + Len(driver)
      /\ mBuffersInDevice[Len(Grabbing) + i] = driver[i]
  BY <1>0, <1>5, <1>6, <1>7, ConcatProperties
<1>9. Len(Grabbing) + i \in DOMAIN mBuffersInDevice
  BY <1>7, <1>8
<1> QED
  BY <1>0, <1>3, <1>8, <1>9, CountSome

LEMMA StateStep == TypeInv /\ SessionInv /\ OneQueuer /\ StateInv /\ [Next]_vars => StateInv'
<1> SUFFICES ASSUME TypeInv, SessionInv, OneQueuer, StateInv, [Next]_vars PROVE StateInv'
  OBVIOUS
<1> USE PollIsThread DEF StateInv, Counted
<1>0. pc \in [Threads -> Labels]
  BY TypeParts DEF ThreadTypes
<1>1. ASSUME UNCHANGED <<mState, mExitPending, ctl>>, ctl # "dead",
             ctl # "dead" /\ mBufferQueuing' => Queuing' # {}
      PROVE  StateInv'
  BY <1>1
<1>2. ASSUME NEW t \in Threads, NEW label, Goto(t, label), pc[t] \notin {"put", "move", "clear"},
             UNCHANGED mBufferQueuing, ctl # "dead"
      PROVE  mBufferQueuing' => Queuing' # {}
  BY <1>0, <1>2 DEF Queuing, Goto
<1>3. ASSUME NEW t \in Threads, NEW label, Goto(t, label), label \in {"put", "move", "clear"}
      PROVE  Queuing' # {}
  BY <1>0, <1>3 DEF Queuing, Goto
<1>4. ASSUME NEW t \in Threads, ProcessPendingBuffers(t) PROVE StateInv'
  <2>1. CASE Abort(t)
    BY <2>1 DEF Abort, SessionInv
  <2> SUFFICES ASSUME ~Abort(t) PROVE StateInv'
    BY <2>1
  <2>2. pc[t] \in Processing /\ UNCHANGED unit
    BY <1>4, ProcessFrame
  <2>3. ctl # "dead"
    BY <2>2 DEF SessionInv, Processing
  <2>4. CASE TestSize(t) \/ TestPending(t) \/ NextTurn(t)
    BY <1>1, <1>2, <2>2, <2>3, <2>4 DEF TestSize, TestPending, NextTurn
  <2>5. CASE TakeFront(t)
    <3>1. CASE UNCHANGED mBufferQueuing /\ \E label \in {"next", Return(t)} : Goto(t, label)
      BY <1>1, <1>2, <2>2, <2>3, <2>5, <3>1 DEF TakeFront
    <3>2. CASE Goto(t, "put")
      BY <1>1, <1>3, <2>2, <2>3, <3>2
    <3> QED
      BY <2>5, <3>1, <3>2 DEF TakeFront
  <2>6. CASE PutFrame(t) \/ PutFrameFails(t) \/ MoveToDevice(t)
    BY <1>1, <1>3, <2>2, <2>3, <2>6 DEF PutFrame, PutFrameFails, MoveToDevice
  <2>7. CASE ClearQueuing(t)
    BY <1>1, <2>2, <2>3, <2>7 DEF ClearQueuing
  <2> QED
    BY <1>4, <2>4, <2>5, <2>6, <2>7 DEF ProcessPendingBuffers
<1>5. ASSUME NEW t \in Threads, NEW b \in Buffers, AddPending(t, b) PROVE StateInv'
  <2>1. ctl # "dead"
    BY <1>5 DEF AddPending, SessionInv
  <2> QED
    BY <1>1, <1>2, <1>5, <2>1 DEF AddPending
<1>6. CASE PollStep \/ PollTimeout
  <2>1. /\ pc[poll] \in {"enter", "wait", "first", "grab", "pop", "deliver"}
        /\ UNCHANGED unit /\ \E label \in Labels : Goto(poll, label)
    BY <1>6, PollFrame
  <2>2. ctl # "dead" /\ UNCHANGED mBufferQueuing
    BY <1>6, <2>1
    DEF SessionInv, PollStep, PollEnter, PollReturns, PollTimeout, GetFirstDeviceBuffer,
        GrabFrame, GrabFrameFails, PopBufferFromDevice, Deliver
  <2> QED
    BY <1>1, <1>2, <2>1, <2>2
<1>7. CASE FrameDone \/ UNCHANGED vars
  BY <1>7 DEF FrameDone, vars, Queuing
<1>8. CASE Control
  <2>1. CASE Start
    BY <1>2, <2>1 DEF Start, SessionInv, Queuing, Goto
  <2>2. CASE Alloc \/ Started \/ Stop \/ StreamOff \/ ResetBuffers \/ StopReturns \/ Joined
    BY <2>2 DEF Alloc, Started, Stop, StreamOff, ResetBuffers, StopReturns, Joined, Queuing,
        SessionInv
  <2>3. CASE Configure
    BY <2>3 DEF Configure
  <2> QED
    BY <1>8, <2>1, <2>2, <2>3 DEF Control
<1> QED
  BY <1>4, <1>5, <1>6, <1>7, <1>8 DEF Next

LEMMA KickProcess ==
    ASSUME CaptureInv, StateInv, KickInv, NEW t \in Threads, ProcessPendingBuffers(t)
    PROVE  KickInv'
<1> USE DEF CaptureInv, UnitInv
<1>0. /\ pc \in [Threads -> Labels] /\ failed \in [Threads -> BOOLEAN] /\ putFails \in Nat
  BY TypeParts, BoundAssumption DEF ThreadTypes
<1>1. CASE Abort(t)
  BY <1>1 DEF Abort, KickInv, Counted
<1> SUFFICES ASSUME ~Abort(t), ~late, ctl \in Counted, putFails' = 0 PROVE KickInv'
  <2>1. ~Abort(t) => UNCHANGED unit
    BY ProcessFrame
  <2> QED
    BY <1>1, <2>1 DEF KickInv
<1>2. putFails = 0 /\ ~mExitPending /\ UNCHANGED unit
  <2>1. UNCHANGED unit
    BY ProcessFrame
  <2>2. putFails' \in {putFails, putFails + 1}
    BY DEF ProcessPendingBuffers, TestSize, TestPending, TakeFront, PutFrame, PutFrameFails,
           MoveToDevice, ClearQueuing, NextTurn
  <2> QED
    BY <1>0, <2>1, <2>2 DEF StateInv
<1>3. /\ \A u \in Threads : pc[u] \in {"put", "move", "clear", "next"} => ~failed[u]
      /\ mPendingBuffers = <<>> \/ ~HasRoom \/ Busy
  BY <1>2 DEF KickInv
<1>4. ASSUME NEW label \in Processing, Goto(t, label) PROVE Busy'
  BY <1>0, <1>4 DEF Busy, Goto, Processing
<1>5. ASSUME NEW label, Goto(t, label), UNCHANGED failed,
             label \in {"put", "move", "clear", "next"}
                => pc[t] \in {"put", "move", "clear", "next"}
      PROVE  \A u \in Threads : pc'[u] \in {"put", "move", "clear", "next"} => ~failed'[u]
  BY <1>0, <1>3, <1>5 DEF Goto
<1>6. ASSUME \A u \in Threads : pc'[u] \in {"put", "move", "clear", "next"} => ~failed'[u],
             mPendingBuffers' = <<>> \/ ~HasRoom' \/ Busy'
      PROVE  KickInv'
  BY <1>6 DEF KickInv
<1>7. Return(t) \notin {"put", "move", "clear", "next"}
  BY DEF Return
<1>8. CASE TestSize(t)
  BY <1>4, <1>5, <1>6, <1>7, <1>8 DEF TestSize, HasRoom, Processing
<1>9. CASE TestPending(t)
  BY <1>2, <1>4, <1>5, <1>6, <1>7, <1>9 DEF TestPending, Processing
<1>10. CASE TakeFront(t)
  <2>1. pc[t] = "front" /\ failed' = [failed EXCEPT ![t] = FALSE] /\ \E label : Goto(t, label)
    BY <1>10 DEF TakeFront
  <2>2. \A u \in Threads : pc'[u] \in {"put", "move", "clear", "next"} => ~failed'[u]
    BY <1>0, <1>3, <2>1 DEF Goto
  <2>3. CASE ~MayQueue
    <3>1. PICK u \in Threads : pc[u] \in {"put", "move", "clear"}
      BY <2>3 DEF MayQueue, StateInv, Queuing, Counted
    <3>2. Busy'
      BY <1>0, <2>1, <3>1 DEF Busy, Goto
    <3> QED
      BY <1>6, <2>2, <3>2
  <2>4. CASE MayQueue
    <3>1. \E label \in {"next", "put"} : Goto(t, label)
      BY <1>10, <2>4 DEF TakeFront
    <3> QED
      BY <1>4, <1>6, <2>2, <3>1 DEF Processing
  <2> QED
    BY <2>3, <2>4
<1>11. CASE PutFrame(t)
  BY <1>4, <1>5, <1>6, <1>11 DEF PutFrame, Processing
<1>12. CASE PutFrameFails(t)
  BY <1>0, <1>2, <1>12, HeldNotInDriver DEF PutFrameFails
<1>13. CASE MoveToDevice(t)
  BY <1>4, <1>5, <1>6, <1>13 DEF MoveToDevice, Processing
<1>14. CASE ClearQueuing(t)
  BY <1>4, <1>5, <1>6, <1>14 DEF ClearQueuing, Processing
<1>15. CASE NextTurn(t)
  <2>1. Again(t)
    BY <1>2, <1>3, <1>15 DEF NextTurn, Again
  <2> QED
    BY <1>4, <1>5, <1>6, <1>15, <2>1 DEF NextTurn, Processing
<1> QED
  BY <1>8, <1>9, <1>10, <1>11, <1>12, <1>13, <1>14, <1>15 DEF ProcessPendingBuffers

LEMMA KickOthers ==
    ASSUME CaptureInv, StateInv, KickInv,
           \/ \E t \in Threads, b \in Buffers : AddPending(t, b)
           \/ PollStep \/ PollTimeout \/ FrameDone \/ Control \/ UNCHANGED vars
    PROVE  KickInv'
<1> USE PollIsThread DEF CaptureInv, UnitInv
<1>0. pc \in [Threads -> Labels]
  BY TypeParts DEF ThreadTypes
<1>1. ASSUME UNCHANGED <<mPendingBuffers, mBuffersInDevice, failed, putFails>>,
             ~late' /\ ctl' \in Counted => ~late /\ ctl \in Counted,
             \A u \in Threads : pc'[u] \in Processing <=> pc[u] \in Processing,
             \A u \in Threads : pc[u] \in Processing => pc'[u] = pc[u]
      PROVE  KickInv'
  <2>1. Busy' <=> Busy
    BY <1>1 DEF Busy, Processing
  <2> QED
    BY <1>1, <2>1 DEF KickInv, HasRoom, Processing
<1>2. ASSUME NEW t \in Threads, Goto(t, "size"), UNCHANGED <<unit, failed, putFails>>
      PROVE  KickInv'
  <2>1. Busy'
    BY <1>0, <1>2 DEF Busy, Goto
  <2> QED
    BY <1>0, <1>2, <2>1 DEF KickInv, Goto
<1>3. ASSUME NEW t \in Threads, NEW b \in Buffers, AddPending(t, b) PROVE KickInv'
  BY <1>2, <1>3 DEF AddPending
<1>4. CASE PollStep \/ PollTimeout
  <2>1. CASE PopBufferFromDevice
    BY <1>2, <2>1 DEF PopBufferFromDevice
  <2>2. CASE ~PopBufferFromDevice
    <3>1. ASSUME NEW label, Goto(poll, label), label \notin Processing,
                 pc[poll] \notin Processing,
                 UNCHANGED <<mPendingBuffers, mBuffersInDevice, failed, putFails, unit>>
          PROVE  KickInv'
      BY <1>0, <1>1, <3>1 DEF Goto
    <3>2. pc[poll] \notin Processing
      BY <1>4, PollFrame DEF Processing
    <3> QED
      BY <1>4, <2>2, <3>1, <3>2
      DEF PollStep, PollEnter, PollReturns, PollTimeout, GetFirstDeviceBuffer, GrabFrame,
          GrabFrameFails, Deliver, Processing
  <2> QED
    BY <2>1, <2>2
<1>5. CASE FrameDone \/ UNCHANGED vars
  BY <1>1, <1>5 DEF FrameDone, vars
<1>6. CASE Control
  <2>1. CASE Alloc
    <3>1. ~late => mPendingBuffers' = <<>>
      BY <2>1 DEF Alloc, PlacesInv
    <3>2. \A u \in Threads : pc'[u] \notin {"put", "move", "clear", "next"}
      BY <2>1 DEF Alloc, SessionInv, Threads
    <3>3. late' = late
      BY <2>1 DEF Alloc
    <3> QED
      BY <3>1, <3>2, <3>3 DEF KickInv
  <2>2. CASE Start
    BY <1>0, <1>1, <2>2 DEF Start, SessionInv, Goto, Processing, Counted
  <2>3. CASE Started
    BY <1>1, <2>3 DEF Started, Counted
  <2>4. CASE Stop \/ StreamOff \/ ResetBuffers \/ StopReturns \/ Joined \/ Configure
    BY <2>4 DEF Stop, StreamOff, ResetBuffers, StopReturns, Joined, Configure, KickInv, Counted
  <2> QED
    BY <1>6, <2>1, <2>2, <2>3, <2>4 DEF Control
<1> QED
  BY <1>3, <1>4, <1>5, <1>6

(* With no thread in processPendingBuffers a pending buffer is one the     *)
(* device has no room for: no call that queues or makes room is lost       *)
(* between the threads that look for work at once.                         *)
THEOREM NobodySleepsOnWork == Spec => []NoLostKick
<1>1. Init => StateInv /\ KickInv
  BY DEF Init, StateInv, KickInv, Counted
<1>2. CaptureInv /\ StateInv /\ [Next]_vars => StateInv'
  BY StateStep DEF CaptureInv, UnitInv
<1>3. CaptureInv /\ StateInv /\ KickInv /\ [Next]_vars => KickInv'
  BY KickProcess, KickOthers DEF Next
<1>4. StateInv /\ KickInv => NoLostKick
  <2> SUFFICES ASSUME StateInv, KickInv, Running, ~late, putFails = 0, ~Busy
               PROVE  mPendingBuffers = <<>> \/ ~HasRoom
    BY DEF NoLostKick
  <2>1. ctl \in {"started", "dead"}
    BY DEF StateInv, Running
  <2> QED
    BY <2>1 DEF StateInv, KickInv, Counted
<1> QED
  BY <1>1, <1>2, <1>3, <1>4, CaptureInductive, PTL DEF Spec
=============================================================================
