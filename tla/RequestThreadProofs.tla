-------------------------- MODULE RequestThreadProofs --------------------------
(***************************************************************************)
(* Invariants of RequestThread, proved for every number of requests,       *)
(* fakes, frames, streams and stops and every limit on the requests in     *)
(* flight: first the limit, the wakeups and the sequences, then the books  *)
(* it keeps.  Requests leave in their order, none lost or repeated         *)
(* (InOrderNoLoss), and the counter of requests in flight is exact         *)
(* (InFlightExact).                                                        *)
(***************************************************************************)
EXTENDS RequestThread, TLAPS, SequenceTheorems, FiniteSetTheorems

USE DEF ctl, queue, thread, user, aiq, sources, pipe, ghosts

-----------------------------------------------------------------------------
(* Type correctness.                                                       *)

LEMMA RequestHasId ==
    ASSUME NEW r \in Request \cup {NoRequest} PROVE r.id \in Nat
BY ConfigAssumption DEF Request, NoRequest

LEMMA TypeInit == Init => TypeOK
<1> SUFFICES ASSUME Init PROVE TypeOK
  OBVIOUS
<1>1. mBlockRequest \in BOOLEAN
  BY Zenon, ConfigAssumption DEF Init
<1>2. <<>> \in Seq(Request)
  OBVIOUS
<1>3. mFirstRequest \in BOOLEAN /\ closing \in BOOLEAN /\ aiqStarted \in BOOLEAN
      /\ streaming \in BOOLEAN /\ firstDone \in BOOLEAN /\ straddled \in BOOLEAN
  BY DEF Init
<1>4. /\ mLastCcaId \in SeqNum /\ mLastEffectSeq \in SeqNum /\ mLastAppliedSeq \in SeqNum
      /\ mLastSofSeq \in SeqNum /\ applyingSeq \in SeqNum /\ effectSeq \in SeqNum
      /\ aiqSeq \in SeqNum /\ sensorSof \in SeqNum /\ sof \in SeqNum
  BY DEF Init, SeqNum
<1>5. /\ mRequestTriggerEvent \in SUBSET Triggers /\ sofOwed \in SUBSET {"aiq", "request"}
      /\ request \in Request \cup {NoRequest} /\ pc \in Places
      /\ accepted \in 0 .. MaxRequests /\ fakes \in 0 .. MaxFakes
  BY ConfigAssumption DEF Init, Places
<1> QED
  BY <1>1, <1>2, <1>3, <1>4, <1>5 DEF Init, TypeOK, QueueTypeOK, ThreadTypeOK, OutsideTypeOK

LEMMA TypeThread == TypeOK /\ RequestThreadStep => TypeOK'
<1> SUFFICES ASSUME TypeOK, RequestThreadStep PROVE TypeOK'
  OBVIOUS
<1> USE ConfigAssumption DEF TypeOK, QueueTypeOK, ThreadTypeOK, OutsideTypeOK, SeqNum, Places, Handling, Triggers
<1>1. CASE Top BY <1>1 DEF Top
<1>2. CASE Block BY <1>2 DEF Block
<1>3. ASSUME Pick PROVE TypeOK'
  <2>1. ASSUME NEW seq \in SeqNum, PickFor(seq)
        PROVE /\ mLastAppliedSeq' \in SeqNum /\ applyingSeq' \in SeqNum
              /\ mRequestTriggerEvent' \in SUBSET Triggers /\ pc' \in Places
    BY <2>1 DEF PickFor
  <2>2. NextSeq \in SeqNum
    BY DEF NextSeq
  <2>3. /\ mLastAppliedSeq' \in SeqNum /\ applyingSeq' \in SeqNum
        /\ mRequestTriggerEvent' \in SUBSET Triggers /\ pc' \in Places
    BY <1>3, <2>1, <2>2 DEF Pick
  <2> QED
    BY <1>3, <2>3 DEF Pick
<1>4. CASE PickAtOnce BY <1>3, <1>4 DEF PickAtOnce
<1>5. CASE WaitTimeout BY <1>5 DEF WaitTimeout
<1>6. CASE SpuriousWakeup BY <1>6 DEF SpuriousWakeup
<1>7. CASE StillBlocked BY <1>7 DEF StillBlocked
<1>8. CASE PickAfterWait BY <1>3, <1>8 DEF PickAfterWait
<1>9. CASE Fetch BY <1>9 DEF Fetch, NextRequest
<1>10. CASE HandleSeq BY <1>10 DEF HandleSeq
<1>11. CASE HandleCca BY <1>11 DEF HandleCca
<1>12. CASE Run3A BY <1>12 DEF Run3A
<1>13. CASE HandleSettle BY <1>13 DEF HandleSettle
<1>14. CASE HandleNotify BY <1>14, RequestHasId DEF HandleNotify
<1>15. CASE HandleFirst
  <2>1. client' \in {client, "wait1stDone"} /\ mFirstRequest' = FALSE
    BY <1>15 DEF HandleFirst
  <2>2. firstDone' \in BOOLEAN
    BY Zenon, <1>15 DEF HandleFirst
  <2>3. /\ pc' = "clear"
        /\ UNCHANGED <<mPendingRequests, mRequestsInProcessing, mRequestTriggerEvent, mBlockRequest>>
        /\ UNCHANGED <<ctl, thread, device, closing, aiq, sources>>
        /\ UNCHANGED <<accepted, fakes, stops, sessionBase, straddled, dispatched>>
    BY <1>15 DEF HandleFirst
  <2>4. QueueTypeOK' BY <2>1, <2>2, <2>3
  <2>5. ThreadTypeOK' BY <2>1, <2>2, <2>3
  <2>6. OutsideTypeOK' BY <2>1, <2>2, <2>3
  <2> QED
    BY <2>4, <2>5, <2>6 DEF TypeOK
<1>16. CASE ClearTrigger BY <1>16 DEF ClearTrigger, NoRequest
<1> QED
  BY <1>1, <1>2, <1>4, <1>5, <1>6, <1>7, <1>8, <1>9, <1>10, <1>11, <1>12, <1>13,
     <1>14, <1>15, <1>16 DEF RequestThreadStep

LEMMA TypeClient == TypeOK /\ ClientStep => TypeOK'
<1> SUFFICES ASSUME TypeOK, ClientStep PROVE TypeOK'
  OBVIOUS
<1> USE ConfigAssumption DEF TypeOK, QueueTypeOK, ThreadTypeOK, OutsideTypeOK, SeqNum, Places, Handling, Triggers
<1>1. ASSUME NEW kind \in Kinds, Qbuf(kind) PROVE TypeOK'
  <2>1. [id |-> accepted + fakes + 1, kind |-> kind] \in Request
    BY <1>1 DEF Qbuf, Request
  <2>2. mPendingRequests' \in Seq(Request)
    BY <1>1, <2>1 DEF Qbuf
  <2>3. mBlockRequest' \in BOOLEAN
    BY Zenon, <1>1 DEF Qbuf
  <2>4. accepted' \in 0 .. MaxRequests
    BY <1>1 DEF Qbuf
  <2>5. aiqStarted' \in BOOLEAN
    BY Zenon, <1>1 DEF Qbuf
  <2>6. QueueTypeOK'
    BY <1>1, <2>2, <2>3, <2>4 DEF Qbuf
  <2>7. ThreadTypeOK'
    BY <1>1 DEF Qbuf, Woken
  <2>8. /\ device' \in {device, "BUFFER_READY"} /\ sensorSof' \in {sensorSof, -1}
        /\ UNCHANGED <<client, closing, aiqSeq, sources>>
        /\ UNCHANGED <<stops, sessionBase, firstDone, straddled>>
    BY <1>1 DEF Qbuf
  <2>9. OutsideTypeOK'
    BY <2>5, <2>8
  <2> QED
    BY <2>6, <2>7, <2>9 DEF TypeOK
<1>2. CASE StartWait BY <1>2 DEF StartWait
<1>3. CASE StartWaitTimeout BY <1>3 DEF StartWaitTimeout
<1>4. CASE StartLocked BY <1>4 DEF StartLocked
<1>5. CASE ClearPending
  <2>1. straddled' \in BOOLEAN
    BY Zenon, <1>5 DEF ClearPending
  <2>2. QueueTypeOK'
    BY <1>5 DEF ClearPending
  <2>3. ThreadTypeOK'
    BY <1>5 DEF ClearPending, ResetSequences
  <2>4. /\ client' \in {"notify", "stopAiq"}
        /\ stops' \in Nat /\ sessionBase' \in Nat
        /\ UNCHANGED <<device, closing, aiq, sources>>
    BY <1>5 DEF ClearPending
  <2>5. firstDone' \in BOOLEAN
    BY Zenon, <1>5 DEF ClearPending
  <2>6. OutsideTypeOK'
    BY <2>1, <2>4, <2>5
  <2> QED
    BY <2>2, <2>3, <2>6 DEF TypeOK
<1>6. CASE Stop BY <1>6 DEF Stop
<1>7. CASE StopSources
  <2>1. QueueTypeOK' BY <1>7 DEF StopSources
  <2>2. ThreadTypeOK' BY <1>7 DEF StopSources
  <2>3. OutsideTypeOK' BY <1>7 DEF StopSources
  <2> QED
    BY <2>1, <2>2, <2>3 DEF TypeOK
<1>8. CASE Configure BY <1>8 DEF Configure
<1>9. CASE Close BY <1>9 DEF Close
<1>10. CASE Join BY <1>10 DEF Join
<1>11. CASE StopAiq
  <2>1. QueueTypeOK' BY <1>11 DEF StopAiq
  <2>2. ThreadTypeOK' BY <1>11 DEF StopAiq
  <2>3. OutsideTypeOK' BY <1>11 DEF StopAiq
  <2> QED
    BY <2>1, <2>2, <2>3 DEF TypeOK
<1>12. CASE SetExit BY <1>12 DEF SetExit
<1>13. CASE NotifyExit
  <2>1. QueueTypeOK' BY <1>13 DEF NotifyExit
  <2>2. ThreadTypeOK' BY <1>13 DEF NotifyExit, Woken
  <2>3. OutsideTypeOK' BY <1>13 DEF NotifyExit
  <2> QED
    BY <2>1, <2>2, <2>3 DEF TypeOK
<1> QED
  BY <1>1, <1>2, <1>3, <1>4, <1>5, <1>6, <1>7, <1>8, <1>9, <1>10,
     <1>11, <1>12, <1>13 DEF ClientStep

LEMMA TypeEvent == TypeOK /\ EventStep => TypeOK'
<1> SUFFICES ASSUME TypeOK, EventStep PROVE TypeOK'
  OBVIOUS
<1> USE ConfigAssumption DEF TypeOK, QueueTypeOK, ThreadTypeOK, OutsideTypeOK, SeqNum, Places, Handling, Triggers
<1>0. ASSUME FrameEvent PROVE QueueTypeOK'
  <2>1. mRequestsInProcessing' \in Nat
    BY <1>0 DEF FrameEvent, FrameDone
  <2>2. mRequestTriggerEvent' \in SUBSET Triggers
    BY <1>0 DEF FrameEvent
  <2>3. UNCHANGED <<mPendingRequests, mBlockRequest, mFirstRequest, ghosts>>
    BY <1>0 DEF FrameEvent
  <2> QED
    BY <2>1, <2>2, <2>3
<1>1. CASE SofStart BY <1>1 DEF SofStart
<1>2. CASE SofToAiq BY <1>2 DEF SofToAiq
<1>3. CASE HandleSof BY <1>3 DEF HandleSof, Woken
<1>4. CASE HandleIsysFrame
  <2>1. QueueTypeOK' BY <1>0, <1>4 DEF HandleIsysFrame
  <2>2. ThreadTypeOK' BY <1>4 DEF HandleIsysFrame, FrameEvent, FrameDone, Woken
  <2>3. OutsideTypeOK' BY <1>4 DEF HandleIsysFrame, FrameEvent, FrameDone, Woken
  <2> QED
    BY <2>1, <2>2, <2>3 DEF TypeOK
<1>5. ASSUME NEW f \in inFlight, HandlePsysFrame(f) PROVE TypeOK'
  <2>1. QueueTypeOK' BY <1>0, <1>5 DEF HandlePsysFrame
  <2>2. FrameEvent /\ UNCHANGED sources BY <1>5 DEF HandlePsysFrame, Deliver
  <2>3. ThreadTypeOK' BY <2>2 DEF FrameEvent, Woken
  <2>4. OutsideTypeOK' BY <2>2 DEF FrameEvent
  <2> QED
    BY <2>1, <2>3, <2>4 DEF TypeOK
<1>6. ASSUME NEW f \in inFlight, HandleStats(f) PROVE TypeOK'
  <2>1. QueueTypeOK' BY <1>6 DEF HandleStats, Deliver, Woken
  <2>2. ThreadTypeOK' BY <1>6 DEF HandleStats, Deliver, Woken
  <2>3. OutsideTypeOK' BY <1>6 DEF HandleStats, Deliver, Woken
  <2> QED
    BY <2>1, <2>2, <2>3 DEF TypeOK
<1>7. ASSUME NEW f \in inFlight, NEW s \in Streams, HandleFrameAvailable(f, s) PROVE TypeOK'
  <2>1. UNCHANGED <<ctl, queue, pc, thread, user, aiq, ghosts>> /\ UNCHANGED sources
    BY <1>7 DEF HandleFrameAvailable, Deliver
  <2>2. QueueTypeOK' BY <2>1
  <2>3. ThreadTypeOK' BY <2>1
  <2>4. OutsideTypeOK' BY <2>1
  <2> QED
    BY <2>2, <2>3, <2>4 DEF TypeOK
<1>8. ASSUME NEW c \in fakeChecks, InsertFake(c) PROVE TypeOK'
  <2>1. CASE FakeNeeded(c) /\ fakes < MaxFakes
    <3>1. [id |-> accepted + fakes + 1, kind |-> "fake"] \in Request
      BY <2>1 DEF Request
    <3>2. /\ mPendingRequests' = <<[id |-> accepted + fakes + 1, kind |-> "fake"]>>
          /\ fakes' = fakes + 1
          /\ mRequestTriggerEvent' = mRequestTriggerEvent \cup {"request"}
          /\ UNCHANGED <<mRequestsInProcessing, mBlockRequest, mFirstRequest, accepted>>
      BY <1>8, <2>1 DEF InsertFake
    <3>3. QueueTypeOK'
      BY <2>1, <3>1, <3>2
    <3>4. ThreadTypeOK' BY <1>8 DEF InsertFake, Woken
    <3>5. OutsideTypeOK' BY <1>8 DEF InsertFake
    <3> QED
      BY <3>3, <3>4, <3>5 DEF TypeOK
  <2>2. CASE ~(FakeNeeded(c) /\ fakes < MaxFakes)
    <3>1. UNCHANGED <<queue, accepted, fakes>>
      BY <1>8, <2>2 DEF InsertFake
    <3>2. QueueTypeOK' BY <3>1
    <3>3. ThreadTypeOK' BY <1>8 DEF InsertFake, Woken
    <3>4. OutsideTypeOK' BY <1>8 DEF InsertFake
    <3> QED
      BY <3>2, <3>3, <3>4 DEF TypeOK
  <2> QED
    BY <2>1, <2>2
<1> QED
  BY <1>1, <1>2, <1>3, <1>4, <1>5, <1>6, <1>7, <1>8 DEF EventStep

(* Every variable keeps its type, whatever the bounds.                     *)
THEOREM TypeCorrect == Spec => []TypeOK
<1>1. TypeOK /\ [Next]_vars => TypeOK'
  <2>1. TypeOK /\ UNCHANGED vars => TypeOK'
    BY DEF vars, TypeOK, QueueTypeOK, ThreadTypeOK, OutsideTypeOK
  <2> QED
    BY <2>1, TypeThread, TypeClient, TypeEvent DEF Next
<1> QED
  BY TypeInit, <1>1, PTL DEF Spec

-----------------------------------------------------------------------------
(* The limit on requests in flight.  blockRequest() tests it when the      *)
(* request thread decides to go on; until fetchNextRequest() counts the    *)
(* request the counter can only fall, because nobody else raises it.       *)
FlightInv == /\ InFlightBounded
             /\ pc = "fetch" => mRequestsInProcessing < MaxRequestsInflight

LEMMA FlightThread == TypeOK /\ FlightInv /\ RequestThreadStep => FlightInv'
<1> SUFFICES ASSUME TypeOK, FlightInv, RequestThreadStep PROVE FlightInv'
  OBVIOUS
<1> USE ConfigAssumption DEF TypeOK, QueueTypeOK, FlightInv, InFlightBounded
<1>1. ASSUME ~blockRequest, Pick PROVE FlightInv'
  <2>1. mRequestsInProcessing < MaxRequestsInflight
    BY <1>1 DEF blockRequest, LimitReached
  <2>2. UNCHANGED mRequestsInProcessing
    BY <1>1 DEF Pick
  <2> QED
    BY <2>1, <2>2
<1>2. CASE Fetch BY <1>2 DEF Fetch
<1>3. CASE PickAtOnce BY <1>1, <1>3 DEF PickAtOnce
<1>4. CASE PickAfterWait BY <1>1, <1>4 DEF PickAfterWait
<1>5. CASE Top \/ Block \/ WaitTimeout \/ SpuriousWakeup \/ StillBlocked
  BY <1>5 DEF Top, Block, WaitTimeout, SpuriousWakeup, StillBlocked
<1>6. CASE HandleSeq \/ HandleCca \/ Run3A \/ HandleSettle \/ HandleNotify
  BY <1>6 DEF HandleSeq, HandleCca, Run3A, HandleSettle, HandleNotify
<1>7. CASE HandleFirst \/ ClearTrigger
  BY <1>7 DEF HandleFirst, ClearTrigger
<1> QED
  BY <1>2, <1>3, <1>4, <1>5, <1>6, <1>7 DEF RequestThreadStep

LEMMA FlightOthers == TypeOK /\ FlightInv /\ (ClientStep \/ EventStep) => FlightInv'
<1> SUFFICES ASSUME TypeOK, FlightInv, ClientStep \/ EventStep PROVE FlightInv'
  OBVIOUS
<1> USE ConfigAssumption DEF TypeOK, QueueTypeOK, FlightInv, InFlightBounded
<1>1. ASSUME UNCHANGED mRequestsInProcessing, pc' \in {pc, "woken"} PROVE FlightInv'
  BY <1>1
<1>2. CASE ClearPending
  BY <1>2 DEF ClearPending
<1>3. ASSUME FrameEvent PROVE FlightInv'
  <2>1. /\ mRequestsInProcessing' <= mRequestsInProcessing
        /\ mRequestsInProcessing' \in Nat
    BY <1>3 DEF FrameEvent, FrameDone
  <2>2. pc' \in {pc, "woken"}
    BY <1>3 DEF FrameEvent, Woken
  <2> QED
    BY <2>1, <2>2
<1>4. CASE ClientStep
  <2>1. ASSUME NEW kind \in Kinds, Qbuf(kind) PROVE FlightInv'
    BY <1>1, <2>1 DEF Qbuf, Woken
  <2>2. CASE StartWait \/ StartWaitTimeout \/ StartLocked \/ Stop \/ Configure \/ Join
    BY <1>1, <2>2 DEF StartWait, StartWaitTimeout, StartLocked, Stop, Configure, Join
  <2>3. CASE Close \/ StopAiq \/ StopSources \/ SetExit \/ NotifyExit
    BY <1>1, <2>3 DEF Close, StopAiq, StopSources, SetExit, NotifyExit, Woken
  <2> QED
    BY <1>2, <1>4, <2>1, <2>2, <2>3 DEF ClientStep
<1>5. CASE EventStep
  <2>1. CASE SofStart \/ SofToAiq \/ HandleSof
    BY <1>1, <2>1 DEF SofStart, SofToAiq, HandleSof, Woken
  <2>2. CASE HandleIsysFrame BY <1>3, <2>2 DEF HandleIsysFrame
  <2>3. ASSUME NEW f \in inFlight, HandlePsysFrame(f) PROVE FlightInv'
    BY <1>3, <2>3 DEF HandlePsysFrame
  <2>4. ASSUME NEW f \in inFlight, HandleStats(f) PROVE FlightInv'
    BY <1>1, <2>4 DEF HandleStats, Woken
  <2>5. ASSUME NEW f \in inFlight, NEW s \in Streams, HandleFrameAvailable(f, s)
        PROVE FlightInv'
    BY <1>1, <2>5 DEF HandleFrameAvailable
  <2>6. ASSUME NEW c \in fakeChecks, InsertFake(c) PROVE FlightInv'
    BY <1>1, <2>6 DEF InsertFake, Woken
  <2> QED
    BY <1>5, <2>1, <2>2, <2>3, <2>4, <2>5, <2>6 DEF EventStep
<1> QED
  BY <1>4, <1>5

(* Never more than getMaxRequestsInflight requests are in the pipeline.    *)
THEOREM LimitKept == Spec => []InFlightBounded
<1>1. Init => FlightInv
  BY ConfigAssumption DEF Init, FlightInv, InFlightBounded
<1>2. TypeOK /\ FlightInv /\ [Next]_vars => FlightInv'
  <2>1. FlightInv /\ UNCHANGED vars => FlightInv'
    BY DEF vars, FlightInv, InFlightBounded
  <2> QED
    BY <2>1, FlightThread, FlightOthers DEF Next
<1>3. FlightInv => InFlightBounded
  BY DEF FlightInv
<1> QED
  BY TypeCorrect, <1>1, <1>2, <1>3, PTL DEF Spec

-----------------------------------------------------------------------------
(* No lost wakeup.  Every action either leaves wait_for, or leaves one of  *)
(* the reasons to block as it is.  Configure may clear mBlockRequest       *)
(* without a notify, which is why 3A statistics have to be enabled.        *)

LEMMA WakeThread == NoLostWakeup /\ RequestThreadStep => NoLostWakeup'
<1> SUFFICES ASSUME NoLostWakeup, RequestThreadStep PROVE NoLostWakeup'
  OBVIOUS
<1> USE DEF NoLostWakeup
<1>1. CASE Block
  <2>1. blockRequest
    BY <1>1 DEF Block
  <2>2. UNCHANGED <<queue, ctl>>
    BY <1>1 DEF Block
  <2>3. blockRequest'
    BY <2>1, <2>2 DEF blockRequest, LimitReached
  <2> QED
    BY <2>3
<1>2. ASSUME Pick PROVE pc' # "waiting"
  BY <1>2 DEF Pick, PickFor
<1>3. CASE PickAtOnce \/ PickAfterWait
  BY <1>2, <1>3 DEF PickAtOnce, PickAfterWait
<1>4. CASE Top \/ WaitTimeout \/ SpuriousWakeup \/ StillBlocked \/ Fetch
  BY <1>4 DEF Top, WaitTimeout, SpuriousWakeup, StillBlocked, Fetch
<1>5. CASE HandleSeq \/ HandleCca \/ Run3A \/ HandleSettle
  BY <1>5 DEF HandleSeq, HandleCca, Run3A, HandleSettle
<1>6. CASE HandleNotify \/ HandleFirst \/ ClearTrigger
  BY <1>6 DEF HandleNotify, HandleFirst, ClearTrigger
<1> QED
  BY <1>1, <1>3, <1>4, <1>5, <1>6 DEF RequestThreadStep

LEMMA WakeOthers ==
    ASSUME EnableAiq, NoLostWakeup, ClientStep \/ EventStep PROVE NoLostWakeup'
<1> USE DEF NoLostWakeup
<1>1. ASSUME pc' = Woken PROVE NoLostWakeup'
  BY <1>1 DEF Woken
<1>2. ASSUME UNCHANGED <<queue, pc, mLastCcaId>> PROVE NoLostWakeup'
  BY <1>2 DEF blockRequest, LimitReached
<1>3. ASSUME FrameEvent PROVE NoLostWakeup'
  <2>1. CASE mPendingRequests = <<>>
    BY <1>3, <2>1 DEF FrameEvent, blockRequest
  <2>2. CASE mPendingRequests # <<>>
    BY <1>1, <1>3, <2>2 DEF FrameEvent
  <2> QED
    BY <2>1, <2>2
<1>4. CASE ClientStep
  <2>1. ASSUME NEW kind \in Kinds, Qbuf(kind) PROVE NoLostWakeup'
    BY <1>1, <2>1 DEF Qbuf
  <2>2. CASE StartWait \/ StartWaitTimeout \/ StartLocked \/ Stop \/ Join
    BY <1>2, <2>2 DEF StartWait, StartWaitTimeout, StartLocked, Stop, Join
  <2>3. CASE Close \/ StopAiq \/ StopSources \/ SetExit
    BY <1>2, <2>3 DEF Close, StopAiq, StopSources, SetExit
  <2>6. CASE NotifyExit
    BY <2>6 DEF NotifyExit, NoLostWakeup, Woken
  <2>4. CASE ClearPending
    BY <2>4 DEF ClearPending, blockRequest
  <2>5. CASE Configure
    <3>1. mBlockRequest' = TRUE
      BY Zenon, <2>5 DEF Configure
    <3>2. UNCHANGED <<pc, mPendingRequests, mRequestsInProcessing, mRequestTriggerEvent, mLastCcaId>>
      BY <2>5 DEF Configure
    <3> QED
      BY <3>1, <3>2 DEF blockRequest, LimitReached
  <2> QED
    BY <1>4, <2>1, <2>2, <2>3, <2>4, <2>5, <2>6 DEF ClientStep
<1>5. CASE EventStep
  <2>1. CASE SofStart \/ SofToAiq
    BY <1>2, <2>1 DEF SofStart, SofToAiq
  <2>2. CASE HandleSof
    BY <1>1, <2>2 DEF HandleSof
  <2>3. CASE HandleIsysFrame
    BY <1>3, <2>3 DEF HandleIsysFrame
  <2>4. ASSUME NEW f \in inFlight, HandlePsysFrame(f) PROVE NoLostWakeup'
    BY <1>3, <2>4 DEF HandlePsysFrame
  <2>5. ASSUME NEW f \in inFlight, HandleStats(f) PROVE NoLostWakeup'
    BY <1>1, <2>5 DEF HandleStats
  <2>6. ASSUME NEW f \in inFlight, NEW s \in Streams, HandleFrameAvailable(f, s)
        PROVE NoLostWakeup'
    BY <1>2, <2>6 DEF HandleFrameAvailable
  <2>7. ASSUME NEW c \in fakeChecks, InsertFake(c) PROVE NoLostWakeup'
    <3>1. CASE FakeNeeded(c) /\ fakes < MaxFakes
      BY <1>1, <2>7, <3>1 DEF InsertFake
    <3>2. CASE ~(FakeNeeded(c) /\ fakes < MaxFakes)
      BY <1>2, <2>7, <3>2 DEF InsertFake
    <3> QED
      BY <3>1, <3>2
  <2> QED
    BY <1>5, <2>1, <2>2, <2>3, <2>4, <2>5, <2>6, <2>7 DEF EventStep
<1> QED
  BY <1>4, <1>5

(* With 3A on, the request thread never sleeps through a change that lets  *)
(* a request be processed: the 2 s timeout is never needed.                *)
THEOREM WakeupsKept == ASSUME EnableAiq PROVE Spec => []NoLostWakeup
<1>1. Init => NoLostWakeup
  BY DEF Init, NoLostWakeup
<1>2. NoLostWakeup /\ [Next]_vars => NoLostWakeup'
  <2>1. NoLostWakeup /\ UNCHANGED vars => NoLostWakeup'
    BY DEF vars, NoLostWakeup, blockRequest, LimitReached
  <2> QED
    BY <2>1, WakeThread, WakeOthers DEF Next
<1> QED
  BY <1>1, <1>2, PTL DEF Spec

-----------------------------------------------------------------------------
(* Which frame the 3A results of a request are applied to, in one session: *)
(* the client neither stops nor closes.  The results are never ahead of    *)
(* the frame after the last one seen to start, and a SOF under way is of a *)
(* frame that the request thread has not seen.                             *)
OneSession == MaxStops = 0 /\ ~MayClose

SessionInv ==
    /\ client \in {"idle", "wait1st", "wait1stDone", "start"}
    /\ client # "idle" => device = "BUFFER_READY"
    /\ device \in {"CONFIGURE", "BUFFER_READY", "START"}
    /\ device # "START" => ~streaming /\ sof = -1 /\ mLastSofSeq = -1 /\ sofOwed = {}

SofInv ==
    /\ mLastAppliedSeq <= mLastSofSeq + 1
    /\ mLastSofSeq <= sof
    /\ PerFrameControl /\ "request" \in sofOwed => mLastSofSeq < sof
    /\ ~PerFrameControl => mLastAppliedSeq = -1

SequenceTypes == mLastAppliedSeq \in Int /\ mLastSofSeq \in Int /\ sof \in Int

LEMMA SessionThread == SessionInv /\ RequestThreadStep => SessionInv'
<1> SUFFICES ASSUME SessionInv, RequestThreadStep PROVE SessionInv'
  OBVIOUS
<1> USE DEF SessionInv
<1>1. ASSUME UNCHANGED <<client, device, streaming, sof, mLastSofSeq, sofOwed>> PROVE SessionInv'
  BY <1>1
<1>2. CASE HandleFirst
  <2>1. client' = client \/ (client = "wait1st" /\ client' = "wait1stDone")
    BY <1>2 DEF HandleFirst
  <2>2. UNCHANGED <<device, streaming, sof, mLastSofSeq, sofOwed>>
    BY <1>2 DEF HandleFirst
  <2> QED
    BY <2>1, <2>2
<1>3. CASE PickAtOnce \/ PickAfterWait
  BY <1>1, <1>3 DEF PickAtOnce, PickAfterWait, Pick
<1>4. CASE Top \/ Block \/ WaitTimeout \/ SpuriousWakeup \/ StillBlocked \/ Fetch
  BY <1>1, <1>4 DEF Top, Block, WaitTimeout, SpuriousWakeup, StillBlocked, Fetch
<1>5. CASE HandleSeq \/ HandleCca \/ Run3A \/ HandleSettle
  BY <1>1, <1>5 DEF HandleSeq, HandleCca, Run3A, HandleSettle
<1>6. CASE HandleNotify \/ ClearTrigger
  BY <1>1, <1>6 DEF HandleNotify, ClearTrigger
<1> QED
  BY <1>2, <1>3, <1>4, <1>5, <1>6 DEF RequestThreadStep

LEMMA SofThread == SequenceTypes /\ SofInv /\ RequestThreadStep => SofInv'
<1> SUFFICES ASSUME SequenceTypes, SofInv, RequestThreadStep PROVE SofInv'
  OBVIOUS
<1> USE DEF SofInv, SequenceTypes
<1>1. ASSUME UNCHANGED <<mLastAppliedSeq, mLastSofSeq, sof, sofOwed>> PROVE SofInv'
  BY <1>1
<1>2. ASSUME Pick PROVE SofInv'
  <2>1. UNCHANGED <<mLastSofSeq, sof, sofOwed>>
    BY <1>2 DEF Pick
  <2>2. \/ mLastAppliedSeq' = mLastAppliedSeq
        \/ PerFrameControl /\ mLastAppliedSeq' \in {mLastSofSeq, mLastSofSeq + 1}
    BY <1>2 DEF Pick, PickFor, NextSeq
  <2> QED
    BY <2>1, <2>2
<1>3. CASE PickAtOnce \/ PickAfterWait
  BY <1>2, <1>3 DEF PickAtOnce, PickAfterWait
<1>4. CASE Top \/ Block \/ WaitTimeout \/ SpuriousWakeup \/ StillBlocked \/ Fetch
  BY <1>1, <1>4 DEF Top, Block, WaitTimeout, SpuriousWakeup, StillBlocked, Fetch
<1>5. CASE HandleSeq \/ HandleCca \/ Run3A \/ HandleSettle
  BY <1>1, <1>5 DEF HandleSeq, HandleCca, Run3A, HandleSettle
<1>6. CASE HandleNotify \/ HandleFirst \/ ClearTrigger
  BY <1>1, <1>6 DEF HandleNotify, HandleFirst, ClearTrigger
<1> QED
  BY <1>3, <1>4, <1>5, <1>6 DEF RequestThreadStep

(* What the other threads do to the sequences in one session.              *)
LEMMA SessionOthers ==
    ASSUME OneSession, TypeOK, SessionInv, SofInv, ClientStep \/ EventStep
    PROVE  /\ SessionInv' /\ SofInv'
           /\ UNCHANGED mLastAppliedSeq
           /\ pc' = "fetch" => pc = "fetch"
           /\ mLastSofSeq' # mLastSofSeq => mLastSofSeq' >= mLastAppliedSeq'
<1> DEFINE Kept == /\ SessionInv' /\ SofInv'
                   /\ UNCHANGED mLastAppliedSeq
                   /\ pc' = "fetch" => pc = "fetch"
                   /\ mLastSofSeq' # mLastSofSeq => mLastSofSeq' >= mLastAppliedSeq'
<1> SUFFICES Kept
  OBVIOUS
<1> USE DEF SessionInv, SofInv
<1>1. mLastAppliedSeq \in Int /\ mLastSofSeq \in Int /\ sof \in Int /\ stops \in Nat
  BY DEF TypeOK, ThreadTypeOK, OutsideTypeOK, SeqNum
<1>2. ASSUME UNCHANGED <<client, device, streaming, sof, mLastSofSeq, sofOwed, mLastAppliedSeq>>,
             pc' = pc \/ pc' = Woken
      PROVE Kept
  BY <1>2 DEF Woken
<1>3. CASE ClientStep
  <2>1. ASSUME NEW kind \in Kinds, Qbuf(kind) PROVE Kept
    <3>1. device' = device \/ (device' = "BUFFER_READY" /\ device # "START")
      BY <2>1 DEF Qbuf
    <3>2. /\ client = "idle" /\ pc' = Woken
          /\ UNCHANGED <<client, streaming, sof, mLastSofSeq, sofOwed, mLastAppliedSeq>>
      BY <2>1 DEF Qbuf
    <3> QED
      BY <3>1, <3>2 DEF Woken
  <2>2. CASE StartWait \/ StartWaitTimeout
    <3>1. /\ client' \in {"wait1st", "wait1stDone", "start"} /\ device = "BUFFER_READY"
          /\ UNCHANGED <<device, streaming, sof, mLastSofSeq, sofOwed, mLastAppliedSeq, pc>>
      BY <2>2 DEF StartWait, StartWaitTimeout
    <3> QED
      BY <3>1
  <2>3. CASE StartLocked
    BY <1>1, <2>3 DEF StartLocked
  <2>4. /\ ~(ClearPending \/ StopAiq \/ StopSources)
        /\ ~(Configure \/ SetExit \/ NotifyExit \/ Join)
    BY DEF ClearPending, StopAiq, StopSources, Configure, SetExit, NotifyExit, Join
  <2>5. ~(Stop \/ Close)
    BY <1>1 DEF Stop, Close, OneSession
  <2> QED
    BY <1>3, <2>1, <2>2, <2>3, <2>4, <2>5 DEF ClientStep
<1>4. CASE EventStep
  <2>1. CASE SofStart
    <3>1. streaming /\ sofOwed = {} /\ sofOwed' = {"aiq", "request"}
      BY <2>1 DEF SofStart
    <3>2. sof' = sof + 1 \/ (~PerFrameControl /\ sof' = sof)
      BY <2>1 DEF SofStart
    <3>3. UNCHANGED <<client, device, streaming, mLastSofSeq, mLastAppliedSeq, pc>>
      BY <2>1 DEF SofStart
    <3> QED
      BY <1>1, <3>1, <3>2, <3>3
  <2>2. CASE SofToAiq
    <3>1. /\ "aiq" \in sofOwed /\ sofOwed' = sofOwed \ {"aiq"}
          /\ UNCHANGED <<client, device, streaming, sof, mLastSofSeq, mLastAppliedSeq, pc>>
      BY <2>2 DEF SofToAiq
    <3> QED
      BY <1>1, <3>1
  <2>3. CASE HandleSof
    <3>1. /\ "request" \in sofOwed /\ sofOwed' = sofOwed \ {"request"}
          /\ mLastSofSeq' = sof /\ pc' = Woken
          /\ UNCHANGED <<client, device, streaming, sof, mLastAppliedSeq>>
      BY <2>3 DEF HandleSof
    <3>2. mLastAppliedSeq <= sof
      <4>1. CASE PerFrameControl
        BY <1>1, <3>1, <4>1
      <4>2. CASE ~PerFrameControl
        BY <4>2, <1>1, TypeOK DEF TypeOK, OutsideTypeOK, SeqNum
      <4> QED
        BY <4>1, <4>2
    <3> QED
      BY <1>1, <3>1, <3>2 DEF Woken
  <2>4. ASSUME FrameEvent, UNCHANGED <<streaming, sof, sofOwed>> PROVE Kept
    BY <1>2, <2>4 DEF FrameEvent
  <2>5. CASE HandleIsysFrame
    BY <2>4, <2>5 DEF HandleIsysFrame
  <2>6. ASSUME NEW f \in inFlight, HandlePsysFrame(f) PROVE Kept
    BY <2>4, <2>6 DEF HandlePsysFrame, Deliver
  <2>7. ASSUME NEW f \in inFlight, HandleStats(f) PROVE Kept
    BY <1>2, <2>7 DEF HandleStats, Deliver
  <2>8. ASSUME NEW f \in inFlight, NEW s \in Streams, HandleFrameAvailable(f, s) PROVE Kept
    BY <1>2, <2>8 DEF HandleFrameAvailable, Deliver
  <2>9. ASSUME NEW c \in fakeChecks, InsertFake(c) PROVE Kept
    <3>1. pc' = pc \/ pc' = Woken
      BY <2>9 DEF InsertFake
    <3> QED
      BY <1>2, <2>9, <3>1 DEF InsertFake
  <2> QED
    BY <1>4, <2>1, <2>2, <2>3, <2>5, <2>6, <2>7, <2>8, <2>9 DEF EventStep
<1> QED
  BY <1>3, <1>4

LEMMA OneRequestStep ==
    ASSUME SequenceTypes, SofInv, RequestThreadStep,
           PerFrameControl, pc # "fetch", pc' = "fetch"
    PROVE  \/ mLastAppliedSeq' > mLastAppliedSeq
           \/ mLastAppliedSeq' = mLastAppliedSeq /\ mRequestsInProcessing = 0
<1>1. ~blockRequest /\ Pick
  BY DEF RequestThreadStep, Top, Block, PickAtOnce, WaitTimeout, SpuriousWakeup, StillBlocked,
         PickAfterWait, Fetch, HandleSeq, HandleCca, Run3A, HandleSettle, HandleNotify,
         HandleFirst, ClearTrigger
<1>2. mRequestTriggerEvent # {}
  BY <1>1 DEF blockRequest
<1>3. CASE SofRule /\ PickFor(mLastSofSeq)
  BY <1>3 DEF SofRule, PickFor, SequenceTypes
<1>4. CASE StatsRule /\ PickFor(NextSeq)
  BY <1>4 DEF StatsRule, PickFor, NextSeq, SequenceTypes
<1>5. CASE IdleRule /\ PickFor(NextSeq)
  BY <1>5 DEF IdleRule, PickFor, NextSeq, SequenceTypes, SofInv
<1> QED
  BY <1>1, <1>2, <1>3, <1>4, <1>5 DEF Pick

LEMMA OneSessionInv ==
    ASSUME OneSession PROVE Spec => [](TypeOK /\ SessionInv /\ SofInv)
<1>1. Init => SessionInv /\ SofInv
  BY DEF Init, SessionInv, SofInv
<1>2. TypeOK => SequenceTypes
  BY DEF TypeOK, ThreadTypeOK, OutsideTypeOK, SeqNum, SequenceTypes
<1>3. TypeOK /\ SessionInv /\ SofInv /\ [Next]_vars => SessionInv' /\ SofInv'
  <2>1. SessionInv /\ SofInv /\ UNCHANGED vars => SessionInv' /\ SofInv'
    BY DEF vars, SessionInv, SofInv
  <2> QED
    BY <1>2, <2>1, SessionThread, SofThread, SessionOthers DEF Next
<1> QED
  BY TypeCorrect, <1>1, <1>3, PTL DEF Spec

(* In one session, a SOF always finds the 3A results of earlier requests   *)
(* applied to its own frame or an earlier one ...                          *)
THEOREM SofsServed == ASSUME OneSession PROVE Spec => NewSofServed
<1>1. TypeOK /\ SessionInv /\ SofInv /\ [Next]_vars
        => [mLastSofSeq' # mLastSofSeq /\ mLastSofSeq' >= 0 => mLastSofSeq' >= mLastAppliedSeq]_vars
  <2>1. RequestThreadStep => mLastSofSeq' = mLastSofSeq
    BY DEF RequestThreadStep, Top, Block, PickAtOnce, WaitTimeout, SpuriousWakeup, StillBlocked,
         PickAfterWait, Fetch, HandleSeq, HandleCca, Run3A, HandleSettle, HandleNotify,
         HandleFirst, ClearTrigger, Pick
  <2> QED
    BY <2>1, SessionOthers DEF Next
<1> QED
  BY <1>1, OneSessionInv, PTL DEF Spec, NewSofServed

(* ... and each request's results go to a later frame than the one         *)
(* before's, or to the same when the pipeline is empty.                    *)
THEOREM OneRequestEachSof == ASSUME OneSession PROVE Spec => OneRequestPerSof
<1>1. TypeOK => SequenceTypes
  BY DEF TypeOK, ThreadTypeOK, OutsideTypeOK, SeqNum, SequenceTypes
<1>2. TypeOK /\ SessionInv /\ SofInv /\ [Next]_vars
        => [PerFrameControl /\ pc # "fetch" /\ pc' = "fetch" =>
              \/ mLastAppliedSeq' > mLastAppliedSeq
              \/ mLastAppliedSeq' = mLastAppliedSeq /\ mRequestsInProcessing = 0]_vars
  BY <1>1, OneRequestStep, SessionOthers DEF Next
<1> QED
  BY <1>2, OneSessionInv, PTL DEF Spec, OneRequestPerSof

-----------------------------------------------------------------------------
(* What is fetched and not yet dispatched, and what is still pending, are  *)
(* the ids after the last one dispatched in this session.                  *)

Early == {"seq", "cca", "run3A", "settle", "notify"}
InHand == pc \in Early /\ request.id > sessionBase
FirstPending == IF InHand THEN NextId + 1 ELSE NextId
Queued == accepted + fakes

(* EXIT is for good: the client is in requestStop and queues no more.      *)
ExitInv ==
    /\ mState = "EXIT" => closing /\ client \in {"clearPending", "notify", "join", "closed"}
    /\ client = "exit" => closing

OrderInv ==
    mState # "EXIT" =>
        /\ sessionBase <= Queued /\ dispatched <= Queued
        /\ pc \in Early => dispatched < request.id /\ request.id <= Queued
        /\ InHand => request.id = NextId
        /\ \A i \in 1 .. Len(mPendingRequests) :
              mPendingRequests[i].id = FirstPending + i - 1
        /\ Len(mPendingRequests) = Queued + 1 - FirstPending

BookTypes ==
    /\ mPendingRequests \in Seq(Request) /\ Len(mPendingRequests) \in Nat
    /\ accepted \in Nat /\ fakes \in Nat /\ sessionBase \in Nat /\ dispatched \in Nat
    /\ request \in Request \cup {NoRequest} /\ request.id \in Nat
    /\ \A i \in 1 .. Len(mPendingRequests) :
          mPendingRequests[i] \in Request /\ mPendingRequests[i].id \in Nat

LEMMA BookTyped == TypeOK => BookTypes
<1> SUFFICES ASSUME TypeOK PROVE BookTypes
  OBVIOUS
<1>1. mPendingRequests \in Seq(Request) /\ request \in Request \cup {NoRequest}
  BY DEF TypeOK, QueueTypeOK, ThreadTypeOK
<1>2. accepted \in Nat /\ fakes \in Nat /\ sessionBase \in Nat /\ dispatched \in Nat
  BY ConfigAssumption DEF TypeOK, QueueTypeOK, ThreadTypeOK, OutsideTypeOK
<1>3. Len(mPendingRequests) \in Nat
  BY <1>1, LenProperties
<1>4. \A i \in 1 .. Len(mPendingRequests) : mPendingRequests[i] \in Request
  BY <1>1, ElementOfSeq
<1> QED
  BY <1>1, <1>2, <1>3, <1>4, RequestHasId DEF BookTypes

(* The steps that neither queue, fetch nor dispatch.                       *)
LEMMA OrderKept ==
    ASSUME OrderInv, mState' # "EXIT" => mState # "EXIT",
           UNCHANGED <<mPendingRequests, accepted, fakes, sessionBase, dispatched>>,
           pc' \in Early => pc \in Early /\ request' = request,
           pc \in Early => pc' \in Early \/ mState = "EXIT"
    PROVE  OrderInv'
BY DEF OrderInv, InHand, FirstPending, NextId, Queued

LEMMA OrderThread == TypeOK /\ OrderInv /\ RequestThreadStep => OrderInv'
<1> SUFFICES ASSUME TypeOK, OrderInv, RequestThreadStep PROVE OrderInv'
  OBVIOUS
<1>0. BookTypes
  BY BookTyped
<1>1. ASSUME Pick, pc \notin Early PROVE OrderInv'
  <2>1. pc' \in {"fetch", "top"}
    BY <1>1 DEF Pick, PickFor
  <2> QED
    BY <1>1, <2>1, OrderKept DEF Pick, Early
<1>2. CASE Top \/ Block \/ WaitTimeout \/ SpuriousWakeup \/ StillBlocked
  BY <1>2, OrderKept DEF Top, Block, WaitTimeout, SpuriousWakeup, StillBlocked, Early
<1>3. CASE PickAtOnce \/ PickAfterWait
  BY <1>1, <1>3 DEF PickAtOnce, PickAfterWait, Early
<1>4. CASE Fetch
  <2>1. CASE mState = "EXIT" \/ mPendingRequests = <<>>
    BY <1>4, <2>1, OrderKept DEF Fetch, Early
  <2> SUFFICES ASSUME mState # "EXIT", mPendingRequests # <<>> PROVE OrderInv'
    BY <2>1
  <2>2. /\ pc = "fetch" /\ pc' = "seq" /\ request' = Head(mPendingRequests)
        /\ mPendingRequests' = Tail(mPendingRequests)
        /\ UNCHANGED <<mState, accepted, fakes, sessionBase, dispatched>>
    BY <1>4 DEF Fetch, NextRequest
  <2>3. /\ Len(mPendingRequests) >= 1 /\ Head(mPendingRequests) = mPendingRequests[1]
        /\ Len(Tail(mPendingRequests)) = Len(mPendingRequests) - 1
        /\ \A i \in 1 .. Len(Tail(mPendingRequests)) :
              Tail(mPendingRequests)[i] = mPendingRequests[i + 1]
    BY <1>0, EmptySeq, HeadTailProperties DEF BookTypes
  <2>4. request'.id = NextId /\ ~InHand /\ NextId > dispatched /\ NextId > sessionBase
    BY <1>0, <2>2, <2>3 DEF OrderInv, BookTypes, InHand, FirstPending, NextId, Early
  <2>5. /\ NextId' = NextId /\ InHand' /\ FirstPending = NextId
        /\ FirstPending' = NextId + 1 /\ Queued' = Queued
    BY <2>2, <2>4 DEF InHand, FirstPending, NextId, Early, Queued
  <2>6. NextId \in Nat /\ Queued \in Nat
    BY <1>0 DEF BookTypes, NextId, Queued
  <2>7. \A i \in 1 .. Len(mPendingRequests') :
           mPendingRequests'[i].id = FirstPending' + i - 1
    <3> TAKE i \in 1 .. Len(mPendingRequests')
    <3>1. /\ i \in Nat /\ i + 1 \in 1 .. Len(mPendingRequests)
          /\ mPendingRequests'[i] = mPendingRequests[i + 1]
      BY <1>0, <2>2, <2>3 DEF BookTypes
    <3>2. mPendingRequests[i + 1].id = FirstPending + (i + 1) - 1
      BY <3>1 DEF OrderInv
    <3>3. FirstPending \in Nat /\ FirstPending' = FirstPending + 1
      BY <2>5, <2>6
    <3> QED
      BY <3>1, <3>2, <3>3
  <2>8. Len(mPendingRequests') = Queued' + 1 - FirstPending'
    <3>1. Len(mPendingRequests) = Queued + 1 - NextId
      BY <2>5 DEF OrderInv
    <3>2. Len(mPendingRequests') = Len(mPendingRequests) - 1
      BY <2>2, <2>3
    <3>3. FirstPending' = NextId + 1 /\ Queued' = Queued
      BY <2>5
    <3> QED
      BY <2>6, <3>1, <3>2, <3>3
  <2>9. sessionBase' <= Queued' /\ dispatched' <= Queued'
    BY <2>2, <2>5 DEF OrderInv
  <2>10. dispatched' < request'.id /\ request'.id <= Queued' /\ request'.id = NextId'
    <3>1. Len(mPendingRequests) = Queued + 1 - NextId /\ Len(mPendingRequests) \in Nat
      BY <1>0, <2>5 DEF OrderInv, BookTypes
    <3>2. NextId <= Queued
      BY <2>3, <2>6, <3>1
    <3> QED
      BY <2>2, <2>4, <2>5, <3>2
  <2> QED
    BY <2>7, <2>8, <2>9, <2>10 DEF OrderInv
<1>5. CASE HandleSeq \/ HandleCca \/ Run3A
  BY <1>5, OrderKept DEF HandleSeq, HandleCca, Run3A, Early
<1>6. CASE HandleSettle
  BY <1>6, OrderKept DEF HandleSettle, Early
<1>7. CASE HandleNotify
  <2>1. /\ pc \in Early /\ pc' = "first" /\ dispatched' = request.id
        /\ UNCHANGED <<mState, mPendingRequests, accepted, fakes, sessionBase>>
    BY <1>7 DEF HandleNotify, Early
  <2> SUFFICES ASSUME mState # "EXIT" PROVE OrderInv'
    BY <2>1 DEF OrderInv
  <2>2. NextId' = FirstPending
    BY <1>0, <2>1 DEF OrderInv, InHand, FirstPending, NextId, BookTypes
  <2>3. FirstPending' = FirstPending /\ ~InHand' /\ pc' \notin Early /\ Queued' = Queued
    BY <2>1, <2>2 DEF InHand, FirstPending, Early, Queued
  <2> QED
    BY <2>1, <2>3 DEF OrderInv
<1>8. CASE HandleFirst \/ ClearTrigger
  BY <1>8, OrderKept DEF HandleFirst, ClearTrigger, Early
<1> QED
  BY <1>2, <1>3, <1>4, <1>5, <1>6, <1>7, <1>8 DEF RequestThreadStep

(* One more request at the end.                                            *)
LEMMA OrderAppend ==
    ASSUME BookTypes, OrderInv, mState # "EXIT",
           NEW r \in Request, r.id = Queued + 1,
           mPendingRequests' = Append(mPendingRequests, r), Queued' = Queued + 1,
           UNCHANGED <<sessionBase, dispatched, request>>, pc' \in {pc, "woken"},
           pc' = "woken" => pc \in {"waiting", "woken"}
    PROVE  OrderInv'
<1>1. /\ Len(mPendingRequests') = Len(mPendingRequests) + 1
      /\ \A i \in 1 .. Len(mPendingRequests) : mPendingRequests'[i] = mPendingRequests[i]
      /\ mPendingRequests'[Len(mPendingRequests) + 1] = r
  BY AppendProperties DEF BookTypes
<1>2. pc' \in Early <=> pc \in Early
  BY DEF Early
<1>3. NextId' = NextId /\ FirstPending' = FirstPending /\ (InHand' <=> InHand)
  BY <1>2 DEF NextId, FirstPending, InHand
<1>4. FirstPending \in Nat /\ Queued \in Nat
  BY DEF BookTypes, FirstPending, NextId, Queued
<1>5. \A i \in 1 .. Len(mPendingRequests') : mPendingRequests'[i].id = FirstPending' + i - 1
  <2> TAKE i \in 1 .. Len(mPendingRequests')
  <2>1. CASE i \in 1 .. Len(mPendingRequests)
    BY <1>1, <1>3, <2>1 DEF OrderInv
  <2>2. CASE i = Len(mPendingRequests) + 1
    BY <1>1, <1>3, <1>4, <2>2 DEF OrderInv
  <2> QED
    BY <1>1, <2>1, <2>2 DEF BookTypes
<1> QED
  BY <1>1, <1>2, <1>3, <1>4, <1>5 DEF OrderInv, BookTypes

LEMMA NotifyKeepsEarly == Woken \in Early <=> pc \in Early
BY DEF Woken, Early

LEMMA OrderClient == TypeOK /\ ExitInv /\ OrderInv /\ ClientStep => OrderInv'
<1> SUFFICES ASSUME TypeOK, ExitInv, OrderInv, ClientStep PROVE OrderInv'
  OBVIOUS
<1>0. BookTypes
  BY BookTyped
<1>1. ASSUME NEW kind \in Kinds, Qbuf(kind) PROVE OrderInv'
  <2>1. mState # "EXIT"
    BY <1>1 DEF Qbuf, ExitInv
  <2>2. [id |-> accepted + fakes + 1, kind |-> kind] \in Request
    BY <1>1, ConfigAssumption DEF Qbuf, Request, TypeOK, QueueTypeOK
  <2>3. Queued' = Queued + 1
    BY <1>0, <1>1 DEF Qbuf, Queued, BookTypes
  <2>4. pc' \in {pc, "woken"} /\ (pc' = "woken" => pc \in {"waiting", "woken"})
    BY <1>1 DEF Qbuf, Woken
  <2>5. /\ mPendingRequests' = Append(mPendingRequests,
                                      [id |-> accepted + fakes + 1, kind |-> kind])
        /\ UNCHANGED <<sessionBase, dispatched, request>>
    BY <1>1 DEF Qbuf
  <2> QED
    BY <1>0, <2>1, <2>2, <2>3, <2>4, <2>5, OrderAppend DEF Queued
<1>2. CASE StartWait \/ StartWaitTimeout \/ StartLocked \/ Stop \/ Configure \/ Join
  BY <1>2, OrderKept DEF StartWait, StartWaitTimeout, StartLocked, Stop, Configure, Join
<1>3. CASE Close \/ StopAiq \/ StopSources \/ SetExit \/ NotifyExit
  BY <1>3, OrderKept, NotifyKeepsEarly DEF Close, StopAiq, StopSources, SetExit, NotifyExit
<1>4. CASE ClearPending
  <2> SUFFICES ASSUME mState # "EXIT" PROVE OrderInv'
    BY <1>4 DEF ClearPending, OrderInv
  <2>1. /\ mPendingRequests' = <<>> /\ sessionBase' = Queued /\ Queued' = Queued
        /\ dispatched' = dispatched /\ request' = request
        /\ pc' \in {pc, "woken"}
    BY <1>4 DEF ClearPending, Queued, Woken
  <2>2. Queued \in Nat /\ Len(mPendingRequests') = 0
    BY <1>0, <2>1 DEF BookTypes, Queued
  <2>3. NextId' = Queued + 1 /\ ~InHand' /\ FirstPending' = Queued + 1
    BY <1>0, <2>1, <2>2 DEF OrderInv, InHand, NextId, FirstPending, BookTypes, Early
  <2>4. pc' \in Early => pc \in Early
    BY <2>1 DEF Early
  <2> QED
    BY <1>0, <2>1, <2>2, <2>3, <2>4 DEF OrderInv, BookTypes
<1> QED
  BY <1>1, <1>2, <1>3, <1>4 DEF ClientStep

LEMMA OrderEvent == TypeOK /\ OrderInv /\ EventStep => OrderInv'
<1> SUFFICES ASSUME TypeOK, OrderInv, EventStep PROVE OrderInv'
  OBVIOUS
<1>0. BookTypes
  BY BookTyped
<1>1. ASSUME UNCHANGED <<mState, mPendingRequests, accepted, fakes, sessionBase, dispatched,
                         request>>,
             pc' \in {pc, Woken}
      PROVE  OrderInv'
  BY <1>1, OrderKept DEF Woken, Early
<1>2. CASE SofStart \/ SofToAiq \/ HandleSof
  BY <1>1, <1>2 DEF SofStart, SofToAiq, HandleSof
<1>3. CASE HandleIsysFrame
  BY <1>1, <1>3 DEF HandleIsysFrame, FrameEvent
<1>4. ASSUME NEW f \in inFlight, HandlePsysFrame(f) \/ HandleStats(f) PROVE OrderInv'
  BY <1>1, <1>4 DEF HandlePsysFrame, HandleStats, FrameEvent
<1>5. ASSUME NEW f \in inFlight, NEW s \in Streams, HandleFrameAvailable(f, s) PROVE OrderInv'
  BY <1>1, <1>5 DEF HandleFrameAvailable
<1>6. ASSUME NEW c \in fakeChecks, InsertFake(c) PROVE OrderInv'
  <2>1. CASE ~(FakeNeeded(c) /\ fakes < MaxFakes)
    BY <1>1, <1>6, <2>1 DEF InsertFake
  <2>2. CASE FakeNeeded(c) /\ fakes < MaxFakes /\ mState # "EXIT"
    <3>1. /\ mPendingRequests = <<>>
          /\ mPendingRequests' = <<[id |-> accepted + fakes + 1, kind |-> "fake"]>>
          /\ fakes' = fakes + 1 /\ pc' = Woken
          /\ UNCHANGED <<accepted, sessionBase, dispatched, request>>
      BY <1>6, <2>2 DEF InsertFake, FakeNeeded
    <3>2. [id |-> accepted + fakes + 1, kind |-> "fake"] \in Request
      BY <2>2, ConfigAssumption DEF Request, TypeOK, QueueTypeOK
    <3>3. mPendingRequests' = Append(mPendingRequests,
                                     [id |-> accepted + fakes + 1, kind |-> "fake"])
      BY <3>1
    <3>4. Queued' = Queued + 1
      BY <1>0, <3>1 DEF Queued, BookTypes
    <3>5. pc' \in {pc, "woken"} /\ (pc' = "woken" => pc \in {"waiting", "woken"})
      BY <3>1 DEF Woken
    <3> QED
      BY <1>0, <2>2, <3>1, <3>2, <3>3, <3>4, <3>5, OrderAppend DEF Queued
  <2>3. CASE mState = "EXIT"
    BY <1>6, <2>3 DEF InsertFake, OrderInv
  <2> QED
    BY <2>1, <2>2, <2>3
<1> QED
  BY <1>2, <1>3, <1>4, <1>5, <1>6 DEF EventStep

LEMMA ExitStep == ExitInv /\ [Next]_vars => ExitInv'
<1> SUFFICES ASSUME ExitInv, [Next]_vars PROVE ExitInv'
  OBVIOUS
<1> USE DEF ExitInv
<1>1. ASSUME UNCHANGED <<mState, client, closing>> PROVE ExitInv'
  BY <1>1
<1>2. CASE RequestThreadStep
  <2>1. CASE HandleFirst
    BY <2>1 DEF HandleFirst
  <2> QED
    BY <1>1, <1>2, <2>1
    DEF RequestThreadStep, Top, Block, PickAtOnce, WaitTimeout, SpuriousWakeup, StillBlocked,
        PickAfterWait, Pick, Fetch, HandleSeq, HandleCca, Run3A, HandleSettle, HandleNotify,
        ClearTrigger
<1>3. CASE ClientStep
  <2>1. CASE StopSources
    <3>1. /\ client = "stopSources" /\ client' = IF closing THEN "exit" ELSE "idle"
          /\ UNCHANGED <<mState, closing>>
      BY <2>1 DEF StopSources
    <3> QED
      BY <3>1
  <2> QED
    BY <1>3, <2>1
    DEF ClientStep, Qbuf, StartWait, StartWaitTimeout, StartLocked, ClearPending, Stop,
        Configure, Close, StopAiq, SetExit, NotifyExit, Join
<1>4. CASE EventStep
  BY <1>1, <1>4
  DEF EventStep, SofStart, SofToAiq, HandleSof, HandleIsysFrame, HandlePsysFrame, HandleStats,
      HandleFrameAvailable, InsertFake, FrameEvent
<1>5. CASE UNCHANGED vars
  BY <1>5 DEF vars
<1> QED
  BY <1>2, <1>3, <1>4, <1>5 DEF Next

LEMMA OrderInductive == Spec => [](TypeOK /\ ExitInv /\ OrderInv)
<1>1. Init => ExitInv /\ OrderInv
  BY DEF Init, ExitInv, OrderInv, Early, InHand, FirstPending, NextId, Queued, NoRequest
<1>2. OrderInv /\ UNCHANGED vars => OrderInv'
  BY DEF vars, OrderInv, InHand, FirstPending, NextId, Queued
<1>3. TypeOK /\ ExitInv /\ OrderInv /\ [Next]_vars => OrderInv'
  BY <1>2, OrderThread, OrderClient, OrderEvent DEF Next
<1> QED
  BY <1>1, <1>3, ExitStep, TypeCorrect, PTL DEF Spec

LEMMA OrderShown == TypeOK /\ OrderInv => InOrderNoLoss
<1> SUFFICES ASSUME TypeOK, OrderInv, mState # "EXIT"
             PROVE  Undispatched = [i \in 1 .. accepted + fakes + 1 - NextId |-> NextId + i - 1]
  BY DEF InOrderNoLoss
<1> DEFINE Ids == [i \in 1 .. Len(mPendingRequests) |-> mPendingRequests[i].id]
           Wanted == [i \in 1 .. accepted + fakes + 1 - NextId |-> NextId + i - 1]
           Front == IF InHand THEN <<request.id>> ELSE <<>>
<1>0. BookTypes
  BY BookTyped
<1>1. NextId \in Nat /\ Queued \in Nat /\ Queued = accepted + fakes
  BY <1>0 DEF BookTypes, NextId, Queued
<1>2. Undispatched = Front \o Ids
  BY <1>0 DEF Undispatched, InHand, Early, Handling, BookTypes
<1>3. Ids \in Seq(Nat) /\ Len(Ids) = Len(mPendingRequests)
  BY <1>0, IsASeq DEF BookTypes
<1>4. Front \in Seq(Nat) /\ Len(Front) = FirstPending - NextId
      /\ (InHand => Front[1] = NextId)
  BY <1>0, <1>1 DEF OrderInv, BookTypes, FirstPending
<1>5. \A i \in 1 .. Len(Ids) : Ids[i] = FirstPending + i - 1
  BY <1>3 DEF OrderInv
<1>6. Len(Front) + Len(Ids) = accepted + fakes + 1 - NextId
  BY <1>0, <1>1, <1>3, <1>4 DEF OrderInv, FirstPending, BookTypes
<1>7. Wanted \in Seq(Nat) /\ Len(Wanted) = accepted + fakes + 1 - NextId
  <2>1. accepted + fakes + 1 - NextId \in Nat
    BY <1>3, <1>4, <1>6, LenProperties
  <2>2. \A i \in 1 .. accepted + fakes + 1 - NextId : NextId + i - 1 \in Nat
    BY <1>1
  <2> QED
    BY <2>1, <2>2
<1> HIDE DEF Ids, Wanted, Front
<1>8. /\ Front \o Ids \in Seq(Nat) /\ Len(Front \o Ids) = Len(Front) + Len(Ids)
      /\ \A i \in 1 .. Len(Front) + Len(Ids) :
            (Front \o Ids)[i] = IF i <= Len(Front) THEN Front[i] ELSE Ids[i - Len(Front)]
  <2>1. Front \in Seq(Nat) /\ Ids \in Seq(Nat)
    BY <1>3, <1>4
  <2> QED
    BY <2>1, ConcatProperties
<1>9. \A i \in 1 .. Len(Front \o Ids) : (Front \o Ids)[i] = Wanted[i]
  <2> SUFFICES ASSUME NEW i \in 1 .. Len(Front) + Len(Ids) PROVE (Front \o Ids)[i] = NextId + i - 1
    BY <1>6, <1>8 DEF Wanted
  <2>1. CASE i <= Len(Front)
    <3>1. InHand /\ i = 1
      BY <1>1, <1>4, <2>1 DEF FirstPending
    <3> QED
      BY <1>1, <1>4, <1>8, <2>1, <3>1
  <2>2. CASE i > Len(Front)
    <3>1. i - Len(Front) \in 1 .. Len(Ids) /\ i - Len(Front) \in Int
      BY <1>3, <1>4, <2>2, LenProperties
    <3>2. (Front \o Ids)[i] = FirstPending + (i - Len(Front)) - 1
      BY <1>3, <1>4, <1>5, <1>8, <2>2, <3>1, LenProperties
    <3> QED
      BY <1>1, <1>4, <3>2 DEF FirstPending
  <2> QED
    BY <1>3, <1>4, <2>1, <2>2, LenProperties
<1>10. Front \o Ids = Wanted
  BY <1>6, <1>7, <1>8, <1>9, SeqEqual
<1> QED
  BY <1>2, <1>10 DEF Wanted

(* Whatever the client stops and the pipeline reports, the requests        *)
(* accepted in a session are handed to the streams in their order, each    *)
(* once: those not handed over yet are the ones in hand and in the queue.  *)
THEOREM OrderKeptNoneLost == Spec => []InOrderNoLoss
BY OrderInductive, OrderShown, PTL

-----------------------------------------------------------------------------
(* The counter of the requests in flight, within one session.              *)

Flight == [id : Nat, kind : Kinds \cup {"fake", "none"}, seq : SeqNum,
           owed : SUBSET (Streams \cup {"stats", "frame"})]

Framed == {f \in inFlight : "frame" \in f.owed}

FlightTypes ==
    /\ inFlight \subseteq Flight
    /\ \A f \in inFlight : f.id <= dispatched
    /\ \A f, g \in inFlight : f.id = g.id => f = g
    /\ IsFiniteSet(Framed)

ExactInv ==
    /\ FlightTypes
    /\ mRequestsInProcessing = Cardinality(Framed) + (IF pc \in Early THEN 1 ELSE 0)

LEMMA ExactKept ==
    ASSUME ExactInv, UNCHANGED <<inFlight, dispatched, mRequestsInProcessing>>,
           pc' \in Early <=> pc \in Early
    PROVE  ExactInv'
BY DEF ExactInv, FlightTypes, Framed

LEMMA FramedCount == FlightTypes => Cardinality(Framed) \in Nat
BY FS_CardinalityType DEF FlightTypes

LEMMA ExactThread ==
    ASSUME PerFrameControl, TypeOK, OrderInv, mState # "EXIT", ExactInv, RequestThreadStep
    PROVE  ExactInv'
<1>0. BookTypes /\ Cardinality(Framed) \in Nat
  BY BookTyped, FramedCount DEF ExactInv
<1>1. CASE Top \/ Block \/ WaitTimeout \/ SpuriousWakeup \/ StillBlocked
  BY <1>1, ExactKept DEF Top, Block, WaitTimeout, SpuriousWakeup, StillBlocked, Early
<1>2. CASE PickAtOnce \/ PickAfterWait
  <2>1. pc' \in {"fetch", "top"}
    BY <1>2 DEF PickAtOnce, PickAfterWait, Pick, PickFor
  <2> QED
    BY <1>2, <2>1, ExactKept DEF PickAtOnce, PickAfterWait, Pick, Early
<1>3. CASE Fetch
  <2>1. CASE mPendingRequests = <<>>
    BY <1>3, <2>1, ExactKept DEF Fetch, Early
  <2>2. CASE mPendingRequests # <<>>
    <3>1. /\ pc = "fetch" /\ pc' = "seq" /\ UNCHANGED <<inFlight, dispatched>>
          /\ mRequestsInProcessing' = mRequestsInProcessing + 1
      BY <1>3, <2>2 DEF Fetch
    <3>2. Framed' = Framed /\ FlightTypes'
      BY <3>1 DEF Framed, FlightTypes, ExactInv
    <3> QED
      BY <1>0, <3>1, <3>2 DEF ExactInv, Early
  <2> QED
    BY <2>1, <2>2
<1>4. CASE HandleSeq \/ HandleCca \/ Run3A \/ HandleSettle
  BY <1>4, ExactKept DEF HandleSeq, HandleCca, Run3A, HandleSettle, Early
<1>5. CASE HandleNotify
  <2> DEFINE new == [id |-> request.id, kind |-> request.kind, seq |-> effectSeq,
                     owed |-> Owed(request)]
  <2>1. /\ inFlight' = inFlight \cup {new} /\ dispatched' = request.id /\ pc' = "first"
        /\ pc = "notify" /\ UNCHANGED mRequestsInProcessing
    BY <1>5 DEF HandleNotify
  <2>2. dispatched < request.id
    BY <2>1 DEF OrderInv, Early
  <2>3. new \in Flight
    <3>1. request.kind \in Kinds \cup {"fake", "none"}
      BY <1>0 DEF BookTypes, Request, NoRequest
    <3>2. effectSeq \in SeqNum
      BY DEF TypeOK, ThreadTypeOK
    <3>3. Owed(request) \subseteq Streams \cup {"stats", "frame"}
      BY ConfigAssumption DEF Owed
    <3> QED
      BY <1>0, <3>1, <3>2, <3>3 DEF BookTypes, Flight
  <2>4. new.id = request.id /\ "frame" \in new.owed
    BY DEF Owed
  <2> HIDE DEF new
  <2>5. /\ inFlight' \subseteq Flight
        /\ \A f \in inFlight' : f.id <= dispatched'
        /\ \A f, g \in inFlight' : f.id = g.id => f = g
    BY <1>0, <2>1, <2>2, <2>3, <2>4 DEF ExactInv, FlightTypes, Flight, BookTypes
  <2>6. Framed' = Framed \cup {new} /\ new \notin Framed
    BY <1>0, <2>1, <2>2, <2>4 DEF Framed, ExactInv, FlightTypes, BookTypes
  <2>7. IsFiniteSet(Framed') /\ Cardinality(Framed') = Cardinality(Framed) + 1
    BY <2>6, FS_AddElement DEF ExactInv, FlightTypes
  <2> QED
    BY <1>0, <2>1, <2>5, <2>7 DEF ExactInv, FlightTypes, Early
<1>6. CASE HandleFirst \/ ClearTrigger
  BY <1>6, ExactKept DEF HandleFirst, ClearTrigger, Early
<1> QED
  BY <1>1, <1>2, <1>3, <1>4, <1>5, <1>6 DEF RequestThreadStep

(* An event delivered: the record has one thing less, or is gone.          *)
LEMMA DeliverFramed ==
    ASSUME ExactInv, NEW f \in inFlight, NEW e, Deliver(f, e), UNCHANGED dispatched
    PROVE  /\ FlightTypes'
           /\ Cardinality(Framed') = Cardinality(Framed) - (IF e = "frame" THEN 1 ELSE 0)
<1> DEFINE rest == [f EXCEPT !.owed = @ \ {e}]
<1>1. f \in Flight /\ e \in f.owed /\ Cardinality(Framed) \in Nat
  BY FramedCount DEF ExactInv, FlightTypes, Deliver
<1>2. /\ inFlight' = (inFlight \ {f}) \cup (IF f.owed = {e} THEN {} ELSE {rest})
      /\ rest \in Flight /\ rest.id = f.id /\ rest.owed = f.owed \ {e}
  BY <1>1 DEF Deliver, Flight
<1> HIDE DEF rest
<1>3. /\ inFlight' \subseteq Flight
      /\ \A g \in inFlight' : g.id <= dispatched'
      /\ \A g, h \in inFlight' : g.id = h.id => g = h
  BY <1>1, <1>2 DEF ExactInv, FlightTypes
<1>4. rest \notin inFlight \ {f}
  BY <1>2 DEF ExactInv, FlightTypes
<1>5. CASE "frame" \notin f.owed
  <2>1. Framed' = Framed /\ e # "frame"
    BY <1>1, <1>2, <1>5 DEF Framed
  <2> QED
    BY <1>1, <1>3, <2>1 DEF ExactInv, FlightTypes
<1>6. CASE "frame" \in f.owed
  <2>1. f \in Framed
    BY <1>6 DEF Framed
  <2>2. IsFiniteSet(Framed \ {f}) /\ Cardinality(Framed \ {f}) = Cardinality(Framed) - 1
    BY <2>1, FS_RemoveElement DEF ExactInv, FlightTypes
  <2>3. CASE e = "frame"
    <3>1. Framed' = Framed \ {f}
      BY <1>2, <2>3 DEF Framed
    <3> QED
      BY <1>1, <1>3, <2>2, <2>3, <3>1 DEF FlightTypes
  <2>4. CASE e # "frame"
    <3>1. Framed' = (Framed \ {f}) \cup {rest} /\ rest \notin Framed \ {f}
      BY <1>1, <1>2, <1>4, <1>6, <2>4 DEF Framed
    <3>2. IsFiniteSet(Framed') /\ Cardinality(Framed') = Cardinality(Framed \ {f}) + 1
      BY <2>2, <3>1, FS_AddElement
    <3> QED
      BY <1>1, <1>3, <2>2, <2>4, <3>2 DEF FlightTypes
  <2> QED
    BY <2>3, <2>4
<1> QED
  BY <1>5, <1>6

LEMMA ExactEvent ==
    ASSUME PerFrameControl, TypeOK, ExactInv, EventStep
    PROVE  ExactInv'
<1>0. Cardinality(Framed) \in Nat
  BY FramedCount DEF ExactInv
<1>1. CASE SofStart \/ SofToAiq \/ HandleSof
  BY <1>1, ExactKept DEF SofStart, SofToAiq, HandleSof, Woken, Early
<1>2. CASE HandleIsysFrame
  BY <1>2 DEF HandleIsysFrame
<1>3. ASSUME NEW f \in inFlight, HandlePsysFrame(f) PROVE ExactInv'
  <2>1. /\ FlightTypes'
        /\ Cardinality(Framed') = Cardinality(Framed) - 1
    BY <1>3, DeliverFramed DEF HandlePsysFrame, FrameEvent
  <2>2. Cardinality(Framed') \in Nat
    BY <2>1, FS_CardinalityType DEF FlightTypes
  <2>3. mRequestsInProcessing' = FrameDone(mRequestsInProcessing)
        /\ (pc' \in Early <=> pc \in Early)
    BY <1>3 DEF HandlePsysFrame, FrameEvent, Woken, Early
  <2> QED
    BY <1>0, <2>1, <2>2, <2>3 DEF ExactInv, FrameDone
<1>4. ASSUME NEW f \in inFlight, HandleStats(f) PROVE ExactInv'
  <2>1. FlightTypes' /\ Cardinality(Framed') = Cardinality(Framed)
    BY <1>0, <1>4, DeliverFramed DEF HandleStats
  <2>2. UNCHANGED mRequestsInProcessing /\ (pc' \in Early <=> pc \in Early)
    BY <1>4 DEF HandleStats, Woken, Early
  <2> QED
    BY <2>1, <2>2 DEF ExactInv
<1>5. ASSUME NEW f \in inFlight, NEW s \in Streams, HandleFrameAvailable(f, s) PROVE ExactInv'
  <2>1. s # "frame"
    BY StreamAssumption
  <2>2. FlightTypes' /\ Cardinality(Framed') = Cardinality(Framed)
    BY <1>0, <1>5, <2>1, DeliverFramed DEF HandleFrameAvailable
  <2>3. UNCHANGED <<mRequestsInProcessing, pc>>
    BY <1>5 DEF HandleFrameAvailable
  <2> QED
    BY <2>2, <2>3 DEF ExactInv
<1>6. ASSUME NEW c \in fakeChecks, InsertFake(c) PROVE ExactInv'
  BY <1>6, ExactKept DEF InsertFake, Woken, Early
<1> QED
  BY <1>1, <1>2, <1>3, <1>4, <1>5, <1>6 DEF EventStep

LEMMA ExactClient ==
    ASSUME OneSession, SessionInv, TypeOK, ExactInv, ClientStep
    PROVE  ExactInv'
<1>1. ASSUME NEW kind \in Kinds, Qbuf(kind) PROVE ExactInv'
  BY <1>1, ExactKept DEF Qbuf, Woken, Early
<1>2. CASE StartWait \/ StartWaitTimeout \/ StartLocked
  BY <1>2, ExactKept DEF StartWait, StartWaitTimeout, StartLocked
<1>3. CASE ClearPending \/ StopAiq \/ StopSources \/ Configure \/ Close \/ SetExit
           \/ NotifyExit \/ Join
  BY <1>3 DEF ClearPending, StopAiq, StopSources, Configure, Close, SetExit, NotifyExit, Join,
              SessionInv, OneSession
<1>4. CASE Stop
  BY <1>4 DEF Stop, OneSession, TypeOK, OutsideTypeOK
<1> QED
  BY <1>1, <1>2, <1>3, <1>4 DEF ClientStep

(* With per-frame control, mRequestsInProcessing is the number of requests *)
(* that owe their frame, plus the one in hand: in a session no event is    *)
(* counted twice or missed and the count never meets its test for zero.    *)
THEOREM CountExact == ASSUME OneSession, PerFrameControl PROVE Spec => []InFlightExact
<1>1. Init => ExactInv
  <2> SUFFICES ASSUME Init PROVE ExactInv
    OBVIOUS
  <2>1. Framed = {} /\ IsFiniteSet(Framed) /\ Cardinality(Framed) = 0
    BY FS_EmptySet DEF Init, Framed
  <2> QED
    BY <2>1 DEF Init, ExactInv, FlightTypes, Early
<1>2. TypeOK /\ ExitInv /\ OrderInv /\ SessionInv /\ ExactInv /\ [Next]_vars => ExactInv'
  <2> SUFFICES ASSUME TypeOK, ExitInv, OrderInv, SessionInv, ExactInv, [Next]_vars
               PROVE  ExactInv'
    OBVIOUS
  <2>1. mState # "EXIT"
    BY DEF ExitInv, SessionInv
  <2>2. UNCHANGED vars => ExactInv'
    BY ExactKept DEF vars
  <2> QED
    BY <2>1, <2>2, ExactThread, ExactEvent, ExactClient DEF Next
<1>3. ExactInv => InFlightExact
  BY DEF ExactInv, InFlightExact, Framed, Early
<1> QED
  BY <1>1, <1>2, <1>3, OneSessionInv, OrderInductive, PTL DEF Spec
=============================================================================
