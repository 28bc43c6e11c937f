--------------------------- MODULE RawFrameProofs ---------------------------
(***************************************************************************)
(* The producer never has a raw buffer that something else uses: RawSafe   *)
(* of ProcessingUnit, for every number of buffers, ports, pipes, tasks and *)
(* requests.  Three steps lead there.                                      *)
(*                                                                         *)
(* - StageInv: the process thread takes the buffers of requests a row at a *)
(*   time, in the order of the requests, so every entry of a pipe writes   *)
(*   buffers of its own, and a task stays listed while a pipe has an entry *)
(*   of it that is not finished.                                           *)
(* - With HAL ZSL that is all: the inputs of listed tasks are kept.        *)
(* - Without it (OrderInv), a frame that a task leaves to the next request *)
(*   is taken by it, or is used by no pipe when it is given up.            *)
(***************************************************************************)
EXTENDS ProcessingUnitProofs

-----------------------------------------------------------------------------
(* The buffers of requests, in the order of the requests.                  *)

Plain == scenario.skip = {}

(* The buffers a port got, and the rows of buffers that were taken by the  *)
(* process thread: one of every port.                                      *)
Fed(p) == IF p < feeding THEN Len(requests) ELSE Len(requests) - 1
Taken  == Fed(1) - Len(mOutputQueue[1])
Row(r) == [p \in Ports |-> IF p \in requests[r].wants THEN r ELSE None]

RowOK ==
    /\ feeding \in 1 .. NumPorts + 1 /\ (feeding <= NumPorts => requests # <<>>)
    /\ \A r \in 1 .. Len(requests) : requests[r].wants # {}
    /\ Taken \in Nat
    /\ \A p \in Ports :
         /\ Len(mOutputQueue[p]) = Fed(p) - Taken
         /\ \A k \in 1 .. Len(mOutputQueue[p]) : mOutputQueue[p][k] = Row(Taken + k)[p]
    /\ pt.pc \in Chooses => pt.dst = Row(Taken + 1)
    /\ pt.pc \in Runs => Taken >= 1 /\ pt.dst = Row(Taken)

(* The jobs left for a frame write buffers of the row taken last, which no *)
(* task before them writes; those that follow the one at hand write other  *)
(* ports.                                                                  *)
OfRow(job, r) == \A p \in Ports :
    /\ job.dst[p] \in {None, r}
    /\ job.kind = "zsl" /\ p \notin StillPorts => job.dst[p] = None

TodoRowOK ==
    pt.pc \in Runs =>
        /\ \A k \in 1 .. Len(pt.todo) : OfRow(pt.todo[k], Taken)
        /\ pt.pc = "add" =>
             /\ pt.todo[1].kind # "fake"
             /\ \A k \in 2 .. Len(pt.todo) : Writes(pt.todo[1]) \cap Writes(pt.todo[k]) = {}

-----------------------------------------------------------------------------
(* The work of a pipe: the tasks in the hardware and the ones queued, as   *)
(* far as it concerns the pipe.                                            *)
Line(i) == mStageTaskList[i] \o stageQueue[i]

(* The ports of an entry whose callback is still to be made.               *)
LeftOf(i, k) == IF k = 1 /\ poll[i].pc # "idle" THEN poll[i].ports ELSE Writes(Line(i)[k])

LineTypeOK ==
    /\ mStageTaskList \in [Pipes -> Seq(Tasks)] /\ stageQueue \in [Pipes -> Seq(Tasks)]
    /\ \A i \in Pipes : poll[i].pc # "idle" =>
         mStageTaskList[i] # <<>> /\ poll[i].ports \subseteq Writes(Head(mStageTaskList[i]))

(* An entry of the work of a pipe is the part of a task for its ports.     *)
Part(i, t, e) ==
    /\ e.raw = t.raw /\ e.seq = t.seq /\ e.dst = Only(PortsOf(i), t.dst)
    /\ Gives(e) => Gives(t)

EntryOK(i, k) ==
    /\ Writes(Line(i)[k]) # {} /\ Writes(Line(i)[k]) \subseteq PortsOf(i)
    /\ \A j \in 1 .. Len(Line(i)) : \A p \in Writes(Line(i)[k]) :
         Line(i)[j].dst[p] = Line(i)[k].dst[p] => j = k
    /\ LeftOf(i, k) # {} => \E t \in ToSet(mOngoingTasks) : Part(i, t, Line(i)[k])

LineOK == \A i \in Pipes : \A k \in 1 .. Len(Line(i)) : EntryOK(i, k)

(* The ports of a task whose callback is still to be made.                 *)
Debt(p, r) == \E k \in 1 .. Len(Line(PipeOf(p))) :
    p \in LeftOf(PipeOf(p), k) /\ Line(PipeOf(p))[k].dst[p] = r

Owed(t) == {p \in Writes(t) : Debt(p, t.dst[p])}

TaskOK ==
    /\ \A t \in ToSet(mOngoingTasks) : t.left = Cardinality(Owed(t))
    /\ \A j, k \in DOMAIN mOngoingTasks : \A p \in Writes(mOngoingTasks[k]) :
         mOngoingTasks[j].dst[p] = mOngoingTasks[k].dst[p] => j = k

(* No task and no entry writes into a buffer of a row after r.             *)
Upto(p, r) ==
    /\ \A k \in 1 .. Len(Line(PipeOf(p))) : Line(PipeOf(p))[k].dst[p] <= r
    /\ \A t \in ToSet(mOngoingTasks) : t.dst[p] <= r

FreshOK ==
    /\ \A p \in Ports : Upto(p, Taken)
    /\ pt.pc \in Runs => \A k \in 1 .. Len(pt.todo) : \A p \in Writes(pt.todo[k]) :
         Upto(p, Taken - 1)

StageInv == RowOK /\ TodoRowOK /\ LineTypeOK /\ LineOK /\ TaskOK /\ FreshOK

-----------------------------------------------------------------------------
(* Rows.                                                                   *)

LEMMA FirstPort == 1 \in Ports
BY ProcessingAssumption DEF Ports

LEMMA RowInit == Init => RowOK
<1> SUFFICES ASSUME Init PROVE RowOK
  OBVIOUS
<1>1. requests = <<>> /\ Len(requests) = 0 /\ feeding = NumPorts + 1 /\ pt.pc = "wait"
  BY DEF Init, Idle
<1>2. \A p \in Ports : mOutputQueue[p] = <<>> /\ Len(mOutputQueue[p]) = 0
  BY DEF Init
<1>3. \A p \in Ports : Fed(p) = 0
  BY <1>1, ProcessingAssumption DEF Fed, Ports
<1>4. Taken = 0
  BY <1>2, <1>3, FirstPort DEF Taken
<1>5. feeding \in 1 .. NumPorts + 1 /\ ~(feeding <= NumPorts)
  BY <1>1, ProcessingAssumption
<1>6. QED
  BY <1>1, <1>2, <1>3, <1>4, <1>5 DEF RowOK, Chooses, Runs

LEMMA FedTyped ==
    ASSUME AskTypeOK, RowOK, NEW p \in Ports
    PROVE  /\ Fed(p) \in 0 .. Len(requests) /\ Taken \in Nat
           /\ mOutputQueue[p] \in Seq(0 .. Len(requests)) /\ Len(mOutputQueue[p]) \in Nat
           /\ Len(mOutputQueue[p]) = Fed(p) - Taken
           /\ Len(requests) \in Nat
<1>1. mOutputQueue[p] \in Seq(0 .. Len(requests)) /\ Len(requests) \in Nat
  BY DEF AskTypeOK
<1>2. Len(mOutputQueue[p]) \in Nat
  BY <1>1
<1>3. Taken \in Nat /\ Len(mOutputQueue[p]) = Fed(p) - Taken
  BY DEF RowOK
<1>4. Fed(p) \in 0 .. Len(requests)
  <2>1. CASE p < feeding
    BY <1>1, <2>1 DEF Fed
  <2>2. CASE ~(p < feeding)
    <3>1. requests # <<>>
      BY <2>2, ProcessingAssumption DEF RowOK, Ports
    <3>2. Len(requests) # 0
      BY <3>1, EmptySeq DEF AskTypeOK
    <3>3. QED
      BY <1>1, <2>2, <3>2 DEF Fed
  <2>3. QED
    BY <2>1, <2>2
<1>5. QED
  BY <1>1, <1>2, <1>3, <1>4

(* The rows known do not change when a request is added.                   *)
LEMMA RowSame ==
    ASSUME NEW r, requests'[r] = requests[r]
    PROVE  Row(r)' = Row(r)
BY DEF Row

LEMMA RowElsewhere ==
    ASSUME UNCHANGED <<requests, feeding, mOutputQueue>>, RowOK,
           pt'.pc \in Chooses => pt.pc \in Chooses /\ pt'.dst = pt.dst,
           pt'.pc \in Runs => pt.pc \in Runs /\ pt'.dst = pt.dst
    PROVE  RowOK' /\ Taken' = Taken
<1>1. \A p : Fed(p)' = Fed(p)
  BY DEF Fed
<1>2. Taken' = Taken
  BY <1>1 DEF Taken
<1>3. \A r : Row(r)' = Row(r)
  BY DEF Row
<1>4. QED
  BY <1>1, <1>2, <1>3 DEF RowOK

LEMMA NewRequestRows ==
    ASSUME AskTypeOK, FrontOK, RowOK, NewRequest
    PROVE  RowOK' /\ Taken' = Taken
<1> DEFINE R == [wants : SUBSET Ports, setting : Seqs, reprocess : BOOLEAN]
<1>1. PICK e \in R : requests' = Append(requests, e) /\ e.wants # {}
  <2>1. PICK w \in Wants :
       \/ \E s \in Seqs :
            requests' = Append(requests, [wants |-> w, setting |-> s, reprocess |-> FALSE])
       \/ \E s \in Seqs \cap Reported :
            requests' = Append(requests, [wants |-> w, setting |-> s, reprocess |-> TRUE])
    BY DEF NewRequest
  <2>2. w \in SUBSET Ports /\ w # {}
    BY ProcessingAssumption
  <2>3. ASSUME NEW s \in Seqs, NEW b \in BOOLEAN
        PROVE  [wants |-> w, setting |-> s, reprocess |-> b] \in R
    BY <2>2
  <2>4. ASSUME NEW s \in Seqs, NEW b \in BOOLEAN,
               requests' = Append(requests, [wants |-> w, setting |-> s, reprocess |-> b])
        PROVE  \E e \in R : requests' = Append(requests, e) /\ e.wants # {}
    <3> DEFINE e == [wants |-> w, setting |-> s, reprocess |-> b]
    <3>1. e \in R /\ e.wants # {}
      BY <2>2, <2>3
    <3> HIDE DEF e, R
    <3>2. requests' = Append(requests, e)
      BY <2>4 DEF e
    <3>3. QED
      BY <3>1, <3>2
  <2> HIDE DEF R
  <2>5. QED
    BY <2>1, <2>4
<1>2. requests \in Seq(R) /\ Len(requests) \in Nat
  BY DEF AskTypeOK
<1> HIDE DEF R
<1>3. /\ requests' \in Seq(R) /\ Len(requests') = Len(requests) + 1
      /\ \A r \in 1 .. Len(requests) : requests'[r] = requests[r]
      /\ requests'[Len(requests) + 1] = e
  BY <1>1, <1>2, AppendProperties
<1>4. feeding = NumPorts + 1 /\ feeding' = 1
  BY ProcessingAssumption DEF NewRequest, RowOK
<1>5. UNCHANGED <<mOutputQueue, pt>>
  BY DEF NewRequest
<1>6. ASSUME NEW p \in Ports PROVE Fed(p) = Len(requests) /\ Fed(p)' = Len(requests)
  BY <1>2, <1>3, <1>4, <1>6, ProcessingAssumption DEF Fed, Ports
<1>7. Taken' = Taken
  BY <1>5, <1>6, FirstPort DEF Taken
<1>8. ASSUME NEW r \in 1 .. Len(requests) PROVE Row(r)' = Row(r)
  BY <1>3, RowSame
<1>9. ASSUME NEW p \in Ports
      PROVE  /\ Len(mOutputQueue[p]) = Fed(p) - Taken
             /\ \A k \in 1 .. Len(mOutputQueue[p]) :
                  mOutputQueue[p][k] = Row(Taken + k)[p] /\ Row(Taken + k)' = Row(Taken + k)
  <2>1. ASSUME NEW k \in 1 .. Len(mOutputQueue[p]) PROVE Taken + k \in 1 .. Len(requests)
    BY <1>6, FedTyped
  <2>2. \A k \in 1 .. Len(mOutputQueue[p]) : Row(Taken + k)' = Row(Taken + k)
    <3> SUFFICES ASSUME NEW k \in 1 .. Len(mOutputQueue[p]) PROVE Row(Taken + k)' = Row(Taken + k)
      OBVIOUS
    <3>1. PICK r \in 1 .. Len(requests) : r = Taken + k
      BY <2>1
    <3>2. Taken' + k = r
      BY <1>7, <3>1
    <3>3. QED
      BY <1>3, <1>7, <3>1, <3>2 DEF Row
  <2>3. QED
    BY <2>2 DEF RowOK
<1>10. pt.pc \in Chooses => Taken + 1 \in 1 .. Len(requests)
  <2> SUFFICES ASSUME pt.pc \in Chooses PROVE Taken + 1 \in 1 .. Len(requests)
    OBVIOUS
  <2>1. mOutputQueue[1] # <<>>
    BY FirstPort DEF FrontOK
  <2>2. Len(mOutputQueue[1]) # 0
    BY <2>1, FirstPort, FedTyped, EmptySeq
  <2>3. QED
    BY <2>2, FirstPort, FedTyped
<1>11. pt.pc \in Runs => Taken \in 1 .. Len(requests)
  BY FirstPort, FedTyped DEF RowOK
<1>12. \A r \in 1 .. Len(requests') : requests'[r].wants # {}
  BY <1>1, <1>2, <1>3 DEF RowOK
<1>13. requests' # <<>> /\ feeding' \in 1 .. NumPorts + 1
  BY <1>2, <1>3, <1>4, ProcessingAssumption
<1>14. Taken \in Nat
  BY DEF RowOK
<1>15. /\ pt'.pc \in Chooses => pt'.dst = Row(Taken + 1)'
       /\ pt'.pc \in Runs => Taken >= 1 /\ pt'.dst = Row(Taken)'
  <2>1. ASSUME NEW r \in 1 .. Len(requests), NEW q, q = r
        PROVE  [p \in Ports |-> IF p \in requests'[q].wants THEN q ELSE None] = Row(r)
    BY <1>3, <2>1 DEF Row
  <2>2. pt'.pc \in Chooses => pt'.dst = Row(Taken + 1)'
    BY <1>5, <1>7, <1>10, <2>1 DEF RowOK, Row
  <2>3. pt'.pc \in Runs => Taken >= 1 /\ pt'.dst = Row(Taken)'
    BY <1>5, <1>7, <1>11, <2>1 DEF RowOK, Row
  <2>4. QED
    BY <2>2, <2>3
<1>16. \A p \in Ports : /\ Len(mOutputQueue'[p]) = Fed(p)' - Taken'
                        /\ \A k \in 1 .. Len(mOutputQueue'[p]) :
                              mOutputQueue'[p][k] = Row(Taken + k)'[p]
  BY <1>5, <1>6, <1>7, <1>9
<1>17. QED
  BY <1>7, <1>12, <1>13, <1>14, <1>15, <1>16 DEF RowOK

LEMMA HandleQueueBufferRows ==
    ASSUME AskTypeOK, RowOK, HandleQueueBuffer
    PROVE  RowOK' /\ Taken' = Taken
<1>1. /\ feeding \in Ports /\ requests # <<>> /\ feeding' = feeding + 1 /\ NumPorts \in Nat
      /\ UNCHANGED <<requests, pt>>
  BY ProcessingAssumption DEF RowOK, HandleQueueBuffer, Ports, asked
<1>2. PICK f : f = feeding
  OBVIOUS
<1>3. mOutputQueue' = [mOutputQueue EXCEPT ![f] = Append(mOutputQueue[f], EntryFor(f))]
  BY <1>2 DEF HandleQueueBuffer, Queued
<1>4. DOMAIN mOutputQueue = Ports
  BY DEF AskTypeOK
<1>5. Len(requests) \in Nat /\ Len(requests) >= 1
  BY <1>1, EmptySeq DEF AskTypeOK
<1>6. ASSUME NEW p \in Ports
      PROVE  /\ p = f => Fed(p) = Len(requests) - 1 /\ Fed(p)' = Len(requests)
             /\ p # f => Fed(p)' = Fed(p)
  BY <1>1, <1>2, <1>5 DEF Fed, Ports
<1>7. /\ Len(mOutputQueue'[f]) = Len(mOutputQueue[f]) + 1
      /\ \A k \in 1 .. Len(mOutputQueue[f]) : mOutputQueue'[f][k] = mOutputQueue[f][k]
      /\ mOutputQueue'[f][Len(mOutputQueue[f]) + 1] = EntryFor(f)
      /\ Len(mOutputQueue[f]) \in Nat
  <2>1. mOutputQueue'[f] = Append(mOutputQueue[f], EntryFor(f))
    BY <1>1, <1>2, <1>3, <1>4
  <2>2. mOutputQueue[f] \in Seq(0 .. Len(requests)) /\ EntryFor(f) \in 0 .. Len(requests)
    BY <1>1, <1>2, <1>5, FedTyped DEF EntryFor, None
  <2>3. QED
    BY <2>1, <2>2, AppendProperties
<1>8. \A p \in Ports : p # f => mOutputQueue'[p] = mOutputQueue[p]
  BY <1>3, <1>4
<1>9. Taken' = Taken
  <2>1. Fed(1) \in Nat /\ Len(mOutputQueue[1]) \in Nat
    BY FirstPort, FedTyped
  <2>2. CASE f = 1
    BY <1>5, <1>6, <1>7, <2>1, <2>2, FirstPort DEF Taken
  <2>3. CASE f # 1
    BY <1>6, <1>8, <2>3, FirstPort DEF Taken
  <2>4. QED
    BY <2>2, <2>3
<1>10. \A r : Row(r)' = Row(r)
  BY <1>1 DEF Row
<1>11. ASSUME NEW p \in Ports
       PROVE  /\ Len(mOutputQueue'[p]) = Fed(p)' - Taken
              /\ \A k \in 1 .. Len(mOutputQueue'[p]) : mOutputQueue'[p][k] = Row(Taken + k)[p]
  <2>1. CASE p # f
    BY <1>6, <1>8, <2>1 DEF RowOK
  <2>2. CASE p = f
    <3>1. Len(mOutputQueue[f]) = Fed(f) - Taken /\ Taken \in Nat
      BY <2>2 DEF RowOK
    <3>2. Len(mOutputQueue'[f]) = Fed(f)' - Taken
      BY <1>5, <1>6, <1>7, <2>2, <3>1
    <3>3. Taken + (Len(mOutputQueue[f]) + 1) = Len(requests)
      BY <1>5, <1>6, <1>7, <2>2, <3>1
    <3>4. EntryFor(f) = Row(Len(requests))[f]
      BY <2>2 DEF EntryFor, Row
    <3>5. ASSUME NEW k \in 1 .. Len(mOutputQueue'[f]) PROVE mOutputQueue'[f][k] = Row(Taken + k)[f]
      <4>1. CASE k \in 1 .. Len(mOutputQueue[f])
        BY <1>7, <2>2, <4>1 DEF RowOK
      <4>2. CASE k = Len(mOutputQueue[f]) + 1
        BY <1>7, <3>3, <3>4, <4>2
      <4>3. QED
        BY <1>7, <4>1, <4>2
    <3>6. QED
      BY <2>2, <3>2, <3>5
  <2>3. QED
    BY <2>1, <2>2
<1>12. feeding' \in 1 .. NumPorts + 1
  BY <1>1 DEF Ports
<1>13. QED
  BY <1>1, <1>9, <1>10, <1>11, <1>12 DEF RowOK

LEMMA HeadTailIs ==
    ASSUME NEW S, NEW s \in Seq(S), s # <<>>
    PROVE  /\ Len(s) \in Nat \ {0} /\ Head(s) = s[1]
           /\ Tail(s) \in Seq(S) /\ Len(Tail(s)) = Len(s) - 1
           /\ \A k \in 1 .. Len(s) - 1 : Tail(s)[k] = s[k + 1]
<1>1. Tail(s) \in Seq(S) /\ Len(Tail(s)) = Len(s) - 1 /\ Len(s) \in Nat \ {0} /\ Head(s) = s[1]
  BY HeadTailProperties, EmptySeq
<1>2. \A k \in 1 .. Len(s) - 1 : Tail(s)[k] = s[k + 1]
  BY <1>1
<1>3. QED
  BY <1>1, <1>2

(* The row looked at is the one that follows those taken.                  *)
LEMMA HeadRow ==
    ASSUME AskTypeOK, RowOK, NEW p \in Ports, mOutputQueue[p] # <<>>
    PROVE  Head(mOutputQueue[p]) = Row(Taken + 1)[p] /\ Taken + 1 \in 1 .. Len(requests)
<1>1. PICK q : q = mOutputQueue[p]
  OBVIOUS
<1>2. q \in Seq(0 .. Len(requests)) /\ q # <<>>
  BY <1>1, FedTyped
<1>3. Len(q) \in Nat \ {0} /\ Head(q) = q[1]
  BY <1>2, HeadTailIs
<1>4. Len(q) = Fed(p) - Taken /\ Fed(p) \in 0 .. Len(requests) /\ Taken \in Nat /\ Len(requests) \in Nat
  BY <1>1, FedTyped
<1>5. 1 \in 1 .. Len(q)
  BY <1>3
<1>6. q[1] = Row(Taken + 1)[p]
  BY <1>1, <1>5 DEF RowOK
<1>7. QED
  BY <1>1, <1>3, <1>4, <1>6

LEMMA ProcessNewFrameRows ==
    ASSUME AskTypeOK, RowOK, ProcessNewFrame
    PROVE  RowOK' /\ Taken' = Taken
<1>1. /\ UNCHANGED <<requests, feeding, mOutputQueue>> /\ pt'.pc \in {"save", "pop"}
      /\ pt'.dst = [p \in Ports |-> Head(mOutputQueue[p])]
      /\ \A p \in Ports : mOutputQueue[p] # <<>>
  BY DEF ProcessNewFrame, Idle, asked, OutputsReady
<1>2. \A p : Fed(p)' = Fed(p)
  BY <1>1 DEF Fed
<1>3. Taken' = Taken
  BY <1>1, <1>2 DEF Taken
<1>4. \A r : Row(r)' = Row(r)
  BY <1>1 DEF Row
<1>5. pt'.dst = Row(Taken + 1)
  <2>1. \A p \in Ports : Head(mOutputQueue[p]) = Row(Taken + 1)[p]
    BY <1>1, HeadRow
  <2>2. Row(Taken + 1) = [p \in Ports |-> Row(Taken + 1)[p]]
    BY DEF Row
  <2>3. QED
    BY <1>1, <2>1, <2>2
<1>6. pt'.pc \notin Runs
  BY <1>1 DEF Runs
<1>7. QED
  BY <1>1, <1>2, <1>3, <1>4, <1>5, <1>6 DEF RowOK

(* Whether the frame looked at is taken, and for a task.                   *)
RunsNow  == NeedExecutePipe(Setting(pt.dst), seqOf[pt.raw])
HoldsNow == Hold(pt.dst, seqOf[pt.raw])

LEMMA PrepareExact ==
    ASSUME PtTypeOK, PrepareTask, Plain
    PROVE  /\ pt.pc = "pop"
           /\ mOutputQueue' = IF RunsNow THEN [p \in Ports |-> Tail(mOutputQueue[p])]
                              ELSE mOutputQueue
           /\ mInputQueue' = IF ~HoldsNow /\ Reprocessed(pt.dst) = -1 THEN Tail(mInputQueue)
                             ELSE mInputQueue
           /\ free' = IF ~RunsNow /\ ~HoldsNow /\ pt.raw \notin mRawBufferMap
                      THEN free \cup {pt.raw} ELSE free
           /\ pt'.pc = IF RunsNow THEN "fetch" ELSE "execute"
           /\ pt'.raw = pt.raw /\ pt'.dst = pt.dst /\ pt'.src = pt.src
           /\ UNCHANGED <<scenario, lastSeq, lost, seqOf, captured, asked, mRawBufferMap,
                          mSequencesInflight, mOngoingTasks, pipes, served>>
<1>1. ~Skips(seqOf[pt.raw])
  BY DEF Plain, Skips
<1>2. QED
  BY <1>1 DEF PtTypeOK, PrepareTask, RunsNow, HoldsNow, Hold

LEMMA PrepareRows ==
    ASSUME AskTypeOK, PtTypeOK, FrontOK, RowOK, PrepareTask, Plain
    PROVE  RowOK' /\ Taken' = Taken + (IF RunsNow THEN 1 ELSE 0)
<1>1. /\ pt.pc = "pop"
      /\ mOutputQueue' = IF RunsNow THEN [p \in Ports |-> Tail(mOutputQueue[p])] ELSE mOutputQueue
      /\ pt'.pc = IF RunsNow THEN "fetch" ELSE "execute"
      /\ pt'.dst = pt.dst /\ UNCHANGED <<requests, feeding>>
  BY PrepareExact DEF asked
<1>2. CASE ~RunsNow
  <2>1. RowOK' /\ Taken' = Taken
    BY <1>1, <1>2, RowElsewhere DEF Chooses, Runs
  <2>2. QED
    BY <1>2, <2>1, FirstPort, FedTyped
<1>3. CASE RunsNow
  <2>1. \A p : Fed(p)' = Fed(p)
    BY <1>1 DEF Fed
  <2>2. ASSUME NEW p \in Ports
        PROVE  /\ Len(mOutputQueue[p]) \in Nat \ {0}
               /\ Len(mOutputQueue'[p]) = Len(mOutputQueue[p]) - 1
               /\ \A k \in 1 .. Len(mOutputQueue[p]) - 1 : mOutputQueue'[p][k] = mOutputQueue[p][k + 1]
    <3>1. mOutputQueue[p] \in Seq(0 .. Len(requests)) /\ mOutputQueue[p] # <<>>
      BY <1>1, FedTyped DEF FrontOK, Chooses
    <3>2. mOutputQueue'[p] = Tail(mOutputQueue[p])
      BY <1>1, <1>3
    <3>3. QED
      BY <3>1, <3>2, HeadTailIs
  <2>3. Taken' = Taken + 1
    <3>1. Fed(1) \in Nat /\ Len(mOutputQueue[1]) \in Nat
      BY FirstPort, FedTyped
    <3>2. QED
      BY <2>1, <2>2, <3>1, FirstPort DEF Taken
  <2>4. \A r : Row(r)' = Row(r)
    BY <1>1 DEF Row
  <2>5. Taken \in Nat
    BY DEF RowOK
  <2>6. pt'.pc \in Runs /\ pt'.pc \notin Chooses /\ pt'.dst = Row(Taken + 1)
    BY <1>1, <1>3 DEF Runs, Chooses, RowOK
  <2>7. ASSUME NEW p \in Ports
        PROVE  /\ Len(mOutputQueue'[p]) = Fed(p) - (Taken + 1)
               /\ \A k \in 1 .. Len(mOutputQueue'[p]) : mOutputQueue'[p][k] = Row(Taken + 1 + k)[p]
    <3>1. Len(mOutputQueue[p]) = Fed(p) - Taken /\ Fed(p) \in Nat
      BY FedTyped
    <3>2. Len(mOutputQueue'[p]) = Fed(p) - (Taken + 1)
      BY <2>2, <2>5, <3>1
    <3>3. ASSUME NEW k \in 1 .. Len(mOutputQueue'[p]) PROVE mOutputQueue'[p][k] = Row(Taken + 1 + k)[p]
      <4>1. k \in 1 .. Len(mOutputQueue[p]) - 1 /\ k + 1 \in 1 .. Len(mOutputQueue[p])
        BY <2>2
      <4>2. mOutputQueue'[p][k] = mOutputQueue[p][k + 1]
        BY <2>2, <4>1
      <4>3. mOutputQueue[p][k + 1] = Row(Taken + (k + 1))[p]
        BY <4>1 DEF RowOK
      <4>4. Taken + (k + 1) = Taken + 1 + k
        BY <2>5
      <4>5. QED
        BY <4>2, <4>3, <4>4
    <3>4. QED
      BY <3>2, <3>3
  <2>8. feeding' \in 1 .. NumPorts + 1 /\ (feeding' <= NumPorts => requests' # <<>>)
        /\ \A r \in 1 .. Len(requests') : requests'[r].wants # {}
    BY <1>1 DEF RowOK
  <2>9. RowOK'
    BY <2>1, <2>3, <2>4, <2>5, <2>6, <2>7, <2>8 DEF RowOK
  <2>10. QED
    BY <1>3, <2>3, <2>9
<1>4. QED
  BY <1>2, <1>3

(* The rest of the steps leave the rows alone.                             *)
LEMMA RestOfThreadRows ==
    ASSUME PtTypeOK, RowOK,
           \/ NothingToPrepare \/ SaveRawBuffer \/ TrimRawBuffers
           \/ FetchSource \/ DispatchTask \/ AddTask \/ ExecuteNode
    PROVE  RowOK' /\ Taken' = Taken
<1>1. UNCHANGED <<requests, feeding, mOutputQueue>>
  BY DEF NothingToPrepare, SaveRawBuffer, TrimRawBuffers, FetchSource, DispatchTask, AddTask,
         ExecuteNode, asked
<1>2. /\ pt'.pc \in Chooses => pt.pc \in Chooses /\ pt'.dst = pt.dst
      /\ pt'.pc \in Runs => pt.pc \in Runs /\ pt'.dst = pt.dst
  <2>1. CASE NothingToPrepare \/ ExecuteNode
    BY <2>1 DEF PtTypeOK, NothingToPrepare, ExecuteNode, Idle, Chooses, Runs
  <2>2. CASE SaveRawBuffer \/ TrimRawBuffers
    BY <2>2 DEF PtTypeOK, SaveRawBuffer, TrimRawBuffers, Chooses, Runs
  <2>3. CASE FetchSource
    <3>1. pt.pc = "fetch" /\ pt'.dst = pt.dst /\ pt'.pc \in {"fetch", "add", "dispatch"}
      BY <2>3 DEF PtTypeOK, FetchSource
    <3>2. QED
      BY <3>1 DEF Chooses, Runs
  <2>4. CASE DispatchTask
    BY <2>4 DEF PtTypeOK, DispatchTask, Chooses, Runs
  <2>5. CASE AddTask
    <3>1. pt.pc = "add" /\ pt'.dst = pt.dst /\ pt'.pc \in {"fetch", "execute"}
      BY <2>5 DEF PtTypeOK, AddTask
    <3>2. QED
      BY <3>1 DEF Chooses, Runs
  <2>6. QED
    BY <2>1, <2>2, <2>3, <2>4, <2>5
<1>3. QED
  BY <1>1, <1>2, RowElsewhere

LEMMA PipeRows ==
    ASSUME RowOK, NEW i \in Pipes, Executor(i) \/ PollThread(i)
    PROVE  RowOK' /\ Taken' = Taken /\ UNCHANGED <<requests, mOutputQueue, feeding, pt>>
<1>1. UNCHANGED <<requests, feeding, mOutputQueue, pt>>
  BY DEF Executor, PollThread, WaitTimeout, Process, HandleEvent, OnBufferDone, OnTaskDone,
         EraseSequence, TrimAfterTask, PopTask, asked
<1>2. QED
  BY <1>1, RowElsewhere

(* The jobs prepareTask makes are for the row it looks at.                 *)
LEMMA TnrJobsIn ==
    ASSUME NEW S, NEW dst, NEW s \in Int,
           \A q \in Int : Job("fake", q, Only(StillPorts, dst)) \in S
    PROVE  TnrJobs(dst, s) \in Seq(S)
<1> DEFINE first == IF s < TnrFrames - 1 THEN 0 ELSE s - (TnrFrames - 1)
           n == IF s - first \in Nat THEN s - first ELSE 0
           jobs == [i \in 1 .. n |-> Job("fake", first + i - 1, Only(StillPorts, dst))]
<1>1. first \in Int /\ n \in Nat /\ 1 .. (s - first) = 1 .. n
  BY ProcessingAssumption
<1>2. TnrJobs(dst, s) = <<>> \/ TnrJobs(dst, s) = jobs
  BY <1>1 DEF TnrJobs
<1> HIDE DEF n, first
<1>3. \A i \in 1 .. n : first + i - 1 \in Int
  BY <1>1
<1>4. jobs \in Seq(S)
  BY <1>1, <1>3
<1>5. <<>> \in Seq(S)
  OBVIOUS
<1> HIDE DEF jobs
<1>6. QED
  BY <1>2, <1>4, <1>5

LEMMA PreparedTodo ==
    ASSUME UnitTypeOK, PrepareTask, RunsNow, NEW S,
           \A q \in Int : Job("fake", q, Only(StillPorts, pt.dst)) \in S,
           Reprocessed(pt.dst) >= 0 =>
             Job("zsl", Reprocessed(pt.dst), Only(StillPorts, pt.dst)) \in S,
           Job("main", seqOf[pt.raw], pt.dst) \in S
    PROVE  pt'.todo \in Seq(S)
<1> DEFINE s    == seqOf[pt.raw]
           z    == Reprocessed(pt.dst)
           main == Job("main", s, pt.dst)
           at   == IF z >= 0 THEN z ELSE s
           zsl  == IF z >= 0 THEN <<Job("zsl", z, Only(StillPorts, pt.dst))>> ELSE <<>>
           tnr  == TnrJobs(pt.dst, at)
<1>1. pt.pc = "pop" /\ pt.raw \in Raws /\ pt.dst \in Asked
  BY DEF PrepareTask, UnitTypeOK, PtTypeOK, Chooses
<1>2. s \in Int /\ z \in Int /\ at \in Int
  BY <1>1, ReprocessedTyped DEF UnitTypeOK, RawTypeOK, Seqs
<1>3. tnr \in Seq(S)
  BY <1>2, TnrJobsIn
<1>4. zsl \in Seq(S)
  BY <1>2
<1>5. <<main>> \in Seq(S)
  BY <1>2
<1>6. pt'.todo = tnr \o zsl \o <<main>>
  BY DEF PrepareTask, RunsNow, UnitTypeOK, PtTypeOK
<1> HIDE DEF tnr, zsl, main
<1>7. QED
  BY <1>3, <1>4, <1>5, <1>6

LEMMA RowAtMost ==
    ASSUME NEW r, NEW p \in Ports
    PROVE  Row(r)[p] \in {None, r}
BY DEF Row

LEMMA PrepareTodo ==
    ASSUME UnitTypeOK, RowOK, PrepareTask, Plain
    PROVE  TodoRowOK'
<1>0. AskTypeOK /\ PtTypeOK /\ FrontOK
  BY DEF UnitTypeOK
<1>1. /\ pt.pc = "pop" /\ pt.dst = Row(Taken + 1)
      /\ pt'.pc = IF RunsNow THEN "fetch" ELSE "execute"
  BY <1>0, PrepareExact DEF RowOK, Chooses
<1>2. Taken' = Taken + (IF RunsNow THEN 1 ELSE 0)
  BY <1>0, PrepareRows
<1>3. CASE RunsNow
  <2> DEFINE S == {j \in [kind : {"main", "zsl", "fake"}, seq : Int, dst : {pt.dst, Only(StillPorts, pt.dst)}] :
                     OfRow(j, Taken + 1)}
  <2>1. \A p \in Ports : /\ pt.dst[p] \in {None, Taken + 1}
                         /\ Only(StillPorts, pt.dst)[p] \in {None, Taken + 1}
                         /\ p \notin StillPorts => Only(StillPorts, pt.dst)[p] = None
    BY <1>1, RowAtMost DEF Only
  <2>2. \A q \in Int : /\ Job("fake", q, Only(StillPorts, pt.dst)) \in S
                       /\ Job("zsl", q, Only(StillPorts, pt.dst)) \in S
                       /\ Job("main", q, pt.dst) \in S
    <3>1. PICK a : a = Only(StillPorts, pt.dst)
      OBVIOUS
    <3>2. PICK n : n = Taken + 1
      OBVIOUS
    <3>3. ASSUME NEW q \in Int, NEW t \in {"fake", "zsl"} PROVE Job(t, q, a) \in S
      <4>1. Job(t, q, a) = [kind |-> t, seq |-> q, dst |-> a]
        BY DEF Job
      <4>2. OfRow([kind |-> t, seq |-> q, dst |-> a], n)
        BY <2>1, <3>1, <3>2 DEF OfRow
      <4>3. QED
        BY <3>1, <3>2, <4>1, <4>2
    <3>4. ASSUME NEW q \in Int PROVE Job("main", q, pt.dst) \in S
      <4>1. Job("main", q, pt.dst) = [kind |-> "main", seq |-> q, dst |-> pt.dst]
        BY DEF Job
      <4>2. OfRow([kind |-> "main", seq |-> q, dst |-> pt.dst], n)
        BY <2>1, <3>2 DEF OfRow
      <4>3. QED
        BY <3>2, <4>1, <4>2
    <3>5. QED
      BY <3>1, <3>3, <3>4
  <2> HIDE DEF S
  <2>3. pt'.todo \in Seq(S)
    <3>1. seqOf[pt.raw] \in Int /\ Reprocessed(pt.dst) \in Int
      BY <1>0, <1>1, ReprocessedTyped DEF PtTypeOK, Chooses, UnitTypeOK, RawTypeOK, Seqs
    <3>2. QED
      BY <1>3, <2>2, <3>1, PreparedTodo
  <2>4. \A k \in 1 .. Len(pt'.todo) : pt'.todo[k] \in S
    BY <2>3
  <2>5. \A k \in 1 .. Len(pt'.todo) : OfRow(pt'.todo[k], Taken')
    BY <1>2, <1>3, <2>4 DEF S
  <2>6. QED
    BY <1>1, <1>3, <2>5 DEF TodoRowOK, OfRow
<1>4. CASE ~RunsNow
  BY <1>1, <1>4 DEF TodoRowOK, Runs
<1>5. QED
  BY <1>3, <1>4

(* The code takes the first still's buffer out of the frame's own task.    *)
OneStill == \A p, q \in StillPorts : p = q

LEMMA RestOfOneStill ==
    ASSUME OneStill, NEW todo, Head(todo).dst \in Asked
    PROVE  Rest(todo) =
             LET d == Only(Ports \ StillPorts, Head(todo).dst) IN
             IF \A p \in Ports : d[p] = None THEN <<>> ELSE <<[Head(todo) EXCEPT !.dst = d]>>
<1>1. PICK dst : dst = Head(todo).dst
  OBVIOUS
<1>2. ASSUME NEW p \in Ports
      PROVE  (IF FirstStill(p, dst) THEN None ELSE dst[p]) = (IF p \in Ports \ StillPorts THEN dst[p] ELSE None)
  <2>1. CASE p \in StillPorts /\ dst[p] # None
    <3>1. \A q \in StillsOf(dst) : p = q /\ p <= q
      BY <2>1, ProcessingAssumption DEF OneStill, StillsOf, Ports
    <3>2. FirstStill(p, dst)
      BY <2>1, <3>1 DEF FirstStill, StillsOf
    <3>3. QED
      BY <2>1, <3>2
  <2>2. CASE p \in StillPorts /\ dst[p] = None
    BY <2>2
  <2>3. CASE p \notin StillPorts
    BY <2>3 DEF FirstStill, StillsOf
  <2>4. QED
    BY <2>1, <2>2, <2>3
<1>3. [p \in Ports |-> IF FirstStill(p, dst) THEN None ELSE dst[p]] = Only(Ports \ StillPorts, dst)
  BY <1>2, Zenon DEF Only
<1>4. (\A p \in Ports \ StillPorts : dst[p] = None)
        <=> (\A p \in Ports : Only(Ports \ StillPorts, dst)[p] = None)
  BY DEF Only
<1>5. QED
  BY <1>1, <1>3, <1>4, Zenon DEF Rest

(* The other ports' part of the row is left for the frame's own task.      *)
LEMMA RestIs ==
    ASSUME OneStill, NEW todo \in Seq(Jobs), Len(todo) = 1, NEW r, OfRow(todo[1], r), todo[1].kind = "main"
    PROVE  \/ Rest(todo) = <<>>
           \/ \E j \in Jobs : /\ Rest(todo) = <<j>> /\ OfRow(j, r) /\ j.kind = "main"
                              /\ \A p \in StillPorts : j.dst[p] = None
                              /\ Writes(j) \subseteq Writes(todo[1])
<1> DEFINE d == Only(Ports \ StillPorts, Head(todo).dst)
           j == [Head(todo) EXCEPT !.dst = d]
<1>1. Head(todo) = todo[1] /\ todo[1] \in Jobs
  OBVIOUS
<1>2. d \in Asked
  BY <1>1, OnlyAsked DEF Jobs
<1>3. \A p \in StillPorts : d[p] = None
  BY ProcessingAssumption DEF Only
<1>4. \A p \in Ports : d[p] \in {None, r}
  BY <1>1 DEF OfRow, Only
<1>5. \A p \in Ports : d[p] # None => todo[1].dst[p] # None
  BY <1>1 DEF Only
<1> HIDE DEF d
<1>6. j \in Jobs /\ j.kind = "main" /\ j.dst = d
  BY <1>1, <1>2 DEF Jobs
<1>7. Rest(todo) = <<>> \/ Rest(todo) = <<j>>
  <2>1. Head(todo).dst \in Asked
    BY <1>1 DEF Jobs
  <2>2. QED
    BY <2>1, RestOfOneStill DEF d
<1> HIDE DEF j
<1>8. OfRow(j, r)
  BY <1>4, <1>6 DEF OfRow
<1>9. Writes(j) \subseteq Writes(todo[1])
  BY <1>5, <1>6 DEF Writes
<1>10. QED
  BY <1>3, <1>6, <1>7, <1>8, <1>9

LEMMA PairIs ==
    ASSUME NEW a, NEW b
    PROVE  LET s == <<a>> \o <<b>> IN Len(s) = 2 /\ s[1] = a /\ s[2] = b
<1>1. <<a>> \in Seq({a, b}) /\ b \in {a, b}
  OBVIOUS
<1>2. Append(<<a>>, b) = <<a>> \o <<b>>
  BY <1>1, AppendIsConcat
<1>3. Len(<<a>>) = 1 /\ <<a>>[1] = a
  OBVIOUS
<1>4. PICK s : s = <<a>>
  OBVIOUS
<1>5. LET t == Append(s, b) IN Len(t) = 2 /\ t[1] = s[1] /\ t[2] = b
  BY <1>1, <1>3, <1>4, AppendProperties
<1>6. QED
  BY <1>2, <1>3, <1>4, <1>5

(* What is written by some of a list of jobs.                              *)
TodoFrom(old, new) ==
    \A k \in 1 .. Len(new) : \E j \in 1 .. Len(old) : Writes(new[k]) \subseteq Writes(old[j])

LEMMA FetchTodo ==
    ASSUME OneStill, UnitTypeOK, TodoRowOK, OwnOK, KeptOK, FetchSource, Taken' = Taken
    PROVE  TodoRowOK' /\ TodoFrom(pt.todo, pt'.todo)
<1>1. /\ pt.pc = "fetch" /\ PtTypeOK
      /\ pt.todo \in Seq(Jobs) /\ Len(pt.todo) >= 1
      /\ Head(pt.todo) = pt.todo[1] /\ Head(pt.todo) \in Jobs
      /\ Tail(pt.todo) \in Seq(Jobs) /\ Len(Tail(pt.todo)) = Len(pt.todo) - 1
      /\ \A k \in 1 .. Len(pt.todo) - 1 : Tail(pt.todo)[k] = pt.todo[k + 1]
  BY TodoTail DEF FetchSource, Runs, UnitTypeOK
<1>2. PICK r : r = Taken
  OBVIOUS
<1>3. \A k \in 1 .. Len(pt.todo) : OfRow(pt.todo[k], r)
  BY <1>1, <1>2 DEF TodoRowOK, Runs
<1>4. \/ pt' = [pt EXCEPT !.todo = Tail(@)]
      \/ /\ Head(pt.todo).kind = "zsl"
         /\ \E b \in mRawBufferMap :
              pt' = [pt EXCEPT !.pc = "add", !.src = b,
                               !.todo = <<Head(pt.todo)>> \o Rest(Tail(pt.todo))]
      \/ \E b \in Raws : pt' = [pt EXCEPT !.pc = "dispatch", !.src = b]
  BY FetchFinds
<1>5. CASE pt' = [pt EXCEPT !.todo = Tail(@)]
  <2>1. pt'.todo = Tail(pt.todo) /\ pt'.pc = "fetch"
    BY <1>1, <1>5 DEF PtTypeOK
  <2>2. \A k \in 1 .. Len(pt'.todo) : OfRow(pt'.todo[k], r)
    BY <1>1, <1>3, <2>1
  <2>3. ASSUME NEW k \in 1 .. Len(pt'.todo)
        PROVE  k + 1 \in 1 .. Len(pt.todo) /\ pt'.todo[k] = pt.todo[k + 1]
    BY <1>1, <2>1
  <2>4. QED
    BY <1>2, <2>1, <2>2, <2>3 DEF TodoRowOK, TodoFrom
<1>6. CASE \E b \in Raws : pt' = [pt EXCEPT !.pc = "dispatch", !.src = b]
  <2>1. pt'.todo = pt.todo /\ pt'.pc = "dispatch"
    BY <1>1, <1>6 DEF PtTypeOK
  <2>2. QED
    BY <1>2, <1>3, <2>1 DEF TodoRowOK, TodoFrom
<1>7. CASE /\ Head(pt.todo).kind = "zsl"
           /\ \E b \in mRawBufferMap :
                pt' = [pt EXCEPT !.pc = "add", !.src = b,
                                 !.todo = <<Head(pt.todo)>> \o Rest(Tail(pt.todo))]
  <2>1. pt'.pc = "add" /\ pt'.todo = <<Head(pt.todo)>> \o Rest(Tail(pt.todo))
    BY <1>1, <1>7 DEF PtTypeOK
  <2>2. Len(pt.todo) = 2 /\ pt.todo[2].kind = "main"
    <3>1. /\ \A k \in 1 .. Len(pt.todo) : pt.todo[k].kind = "zsl" => k + 1 >= Len(pt.todo)
          /\ pt.todo[Len(pt.todo)].kind = "main"
      BY <1>1 DEF UnitTypeOK, TodoOK, Runs
    <3>2. pt.todo[1].kind = "zsl" /\ Len(pt.todo) \in Nat
      BY <1>1, <1>7
    <3>3. 2 >= Len(pt.todo)
      BY <1>1, <3>1, <3>2
    <3>4. Len(pt.todo) # 1
      BY <3>1, <3>2
    <3>5. Len(pt.todo) = 2
      <4>1. PICK n : n = Len(pt.todo)
        OBVIOUS
      <4>2. n \in Nat /\ n >= 1 /\ 2 >= n /\ n # 1
        BY <1>1, <3>2, <3>3, <3>4, <4>1
      <4>3. n = 2
        BY <4>2
      <4>4. QED
        BY <4>1, <4>3
    <3>6. QED
      BY <3>1, <3>5
  <2>3. PICK todo \in Seq(Jobs) : todo = Tail(pt.todo)
    BY <1>1
  <2>4. Len(todo) = 1 /\ todo[1] = pt.todo[2] /\ todo[1].kind = "main" /\ OfRow(todo[1], r)
    BY <1>1, <1>3, <2>2, <2>3
  <2>5. PICK h : h = Head(pt.todo)
    OBVIOUS
  <2>6. h \in Jobs /\ h.kind = "zsl" /\ OfRow(h, r)
    BY <1>1, <1>3, <1>7, <2>5
  <2>7. \/ Rest(todo) = <<>>
        \/ \E j \in Jobs : /\ Rest(todo) = <<j>> /\ OfRow(j, r) /\ j.kind = "main"
                           /\ \A p \in StillPorts : j.dst[p] = None
                           /\ Writes(j) \subseteq Writes(todo[1])
    BY <2>4, RestIs
  <2>8. CASE Rest(todo) = <<>>
    <3>1. pt'.todo = <<h>>
      <4>1. pt'.todo = <<h>> \o Rest(todo)
        BY <2>1, <2>3, <2>5
      <4>2. <<h>> \o <<>> = <<h>>
        OBVIOUS
      <4>3. QED
        BY <2>8, <4>1, <4>2
    <3>2. TodoRowOK'
      BY <1>2, <2>6, <2>1, <3>1 DEF TodoRowOK
    <3>3. TodoFrom(pt.todo, pt'.todo)
      <4>1. Len(pt'.todo) = 1 /\ pt'.todo[1] = pt.todo[1] /\ 1 \in 1 .. Len(pt.todo)
        BY <1>1, <2>5, <3>1
      <4>2. \A k \in 1 .. 1 : k = 1
        OBVIOUS
      <4>3. QED
        BY <4>1, <4>2 DEF TodoFrom
    <3>4. QED
      BY <3>2, <3>3
  <2>9. ASSUME NEW j \in Jobs, Rest(todo) = <<j>>, OfRow(j, r), \A p \in StillPorts : j.dst[p] = None,
               Writes(j) \subseteq Writes(todo[1])
        PROVE  TodoRowOK' /\ TodoFrom(pt.todo, pt'.todo)
    <3>1. Len(pt'.todo) = 2 /\ pt'.todo[1] = h /\ pt'.todo[2] = j
      <4>1. pt'.todo = <<h>> \o <<j>>
        BY <2>1, <2>3, <2>5, <2>9
      <4>2. QED
        BY <4>1, PairIs
    <3>2. Writes(h) \cap Writes(j) = {}
      BY <2>6, <2>9 DEF Writes, OfRow
    <3>3. QED
      <4>1. Len(pt'.todo) = 2 /\ pt'.todo[1] = h /\ pt'.todo[2] = j
        BY <3>1
      <4>2. \A k \in 1 .. Len(pt'.todo) : OfRow(pt'.todo[k], Taken')
        <5>1. \A k \in 1 .. 2 : k = 1 \/ k = 2
          OBVIOUS
        <5>2. QED
          BY <1>2, <2>6, <2>9, <4>1, <5>1
      <4>3. \A k \in 2 .. Len(pt'.todo) : Writes(pt'.todo[1]) \cap Writes(pt'.todo[k]) = {}
        <5>1. \A k \in 2 .. 2 : k = 2
          OBVIOUS
        <5>2. QED
          BY <3>2, <4>1, <5>1
      <4>4. TodoRowOK'
        BY <2>1, <2>6, <4>1, <4>2, <4>3 DEF TodoRowOK, OfRow, Writes
      <4>5. TodoFrom(pt.todo, pt'.todo)
        <5>1. \A k \in 1 .. 2 : k = 1 \/ k = 2
          OBVIOUS
        <5>2. h = pt.todo[1] /\ Writes(j) \subseteq Writes(pt.todo[2]) /\ Len(pt.todo) = 2
          BY <1>1, <2>2, <2>4, <2>5, <2>9
        <5>3. QED
          BY <4>1, <5>1, <5>2 DEF TodoFrom
      <4>6. QED
        BY <4>4, <4>5
  <2>10. QED
    BY <2>7, <2>8, <2>9
<1>8. QED
  BY <1>4, <1>5, <1>6, <1>7

LEMMA DispatchTodo ==
    ASSUME UnitTypeOK, TodoRowOK, OwnOK, KeptOK, DispatchTask, Taken' = Taken
    PROVE  TodoRowOK'
<1>1. pt.pc = "dispatch" /\ pt'.pc = "add" /\ pt'.todo = pt.todo
  BY DEF DispatchTask, UnitTypeOK, PtTypeOK
<1>2. /\ pt.todo \in Seq(Jobs) /\ Len(pt.todo) >= 1 /\ Head(pt.todo) = pt.todo[1]
  BY <1>1, TodoTail DEF Runs
<1>3. Head(pt.todo).kind = "main"
  BY <1>1 DEF OwnOK, KeptOK
<1>4. Len(pt.todo) = 1
  <2>1. \A k \in 1 .. Len(pt.todo) : pt.todo[k].kind = "main" => k = Len(pt.todo)
    BY <1>1 DEF UnitTypeOK, TodoOK, Runs
  <2>2. 1 \in 1 .. Len(pt.todo)
    BY <1>2
  <2>3. QED
    BY <1>2, <1>3, <2>1, <2>2
<1>5. \A k \in 1 .. Len(pt.todo) : OfRow(pt.todo[k], Taken)
  BY <1>1 DEF TodoRowOK, Runs
<1>6. QED
  BY <1>1, <1>2, <1>3, <1>4, <1>5 DEF TodoRowOK, OfRow

LEMMA AddTodo ==
    ASSUME UnitTypeOK, TodoRowOK, AddTask, Taken' = Taken
    PROVE  TodoRowOK'
<1>1. /\ pt.pc = "add" /\ pt'.todo = Tail(pt.todo)
      /\ pt'.pc = IF Len(pt.todo) = 1 THEN "execute" ELSE "fetch"
  BY AddTypes DEF AddTask
<1>2. /\ Len(pt.todo) >= 1 /\ Len(Tail(pt.todo)) = Len(pt.todo) - 1
      /\ \A k \in 1 .. Len(pt.todo) - 1 : Tail(pt.todo)[k] = pt.todo[k + 1]
  BY <1>1, TodoTail DEF Runs
<1>3. \A k \in 1 .. Len(pt.todo) : OfRow(pt.todo[k], Taken)
  BY <1>1 DEF TodoRowOK, Runs
<1>4. \A k \in 1 .. Len(pt'.todo) : OfRow(pt'.todo[k], Taken)
  BY <1>1, <1>2, <1>3
<1>5. QED
  BY <1>1, <1>4 DEF TodoRowOK, OfRow, Runs

-----------------------------------------------------------------------------
(* The work of a pipe.                                                     *)

LEMMA LineIs ==
    ASSUME LineTypeOK, NEW i \in Pipes
    PROVE  /\ Line(i) \in Seq(Tasks)
           /\ Len(mStageTaskList[i]) \in Nat /\ Len(stageQueue[i]) \in Nat
           /\ Len(Line(i)) = Len(mStageTaskList[i]) + Len(stageQueue[i])
           /\ \A k \in 1 .. Len(Line(i)) :
                Line(i)[k] = IF k <= Len(mStageTaskList[i]) THEN mStageTaskList[i][k]
                             ELSE stageQueue[i][k - Len(mStageTaskList[i])]
<1>1. mStageTaskList[i] \in Seq(Tasks) /\ stageQueue[i] \in Seq(Tasks)
  BY DEF LineTypeOK
<1>2. Len(mStageTaskList[i]) \in Nat /\ Len(stageQueue[i]) \in Nat
  BY <1>1
<1>3. PICK a \in Seq(Tasks), b \in Seq(Tasks) : a = mStageTaskList[i] /\ b = stageQueue[i]
  BY <1>1
<1>4. /\ a \o b \in Seq(Tasks) /\ Len(a \o b) = Len(a) + Len(b)
      /\ \A k \in 1 .. Len(a) + Len(b) :
           (a \o b)[k] = IF k <= Len(a) THEN a[k] ELSE b[k - Len(a)]
  BY ConcatProperties
<1>5. Line(i) = a \o b
  BY <1>3 DEF Line
<1>6. Line(i) \in Seq(Tasks) /\ Len(Line(i)) = Len(a) + Len(b)
  BY <1>4, <1>5
<1>7. \A k \in 1 .. Len(Line(i)) : Line(i)[k] = IF k <= Len(a) THEN a[k] ELSE b[k - Len(a)]
  BY <1>4, <1>5, <1>6
<1>8. QED
  BY <1>2, <1>3, <1>6, <1>7

LEMMA PipesSame ==
    ASSUME UNCHANGED scenario
    PROVE  /\ \A p : PipeOf(p)' = PipeOf(p)
           /\ \A i : PortsOf(i)' = PortsOf(i)
BY DEF PipeOf, PortsOf

LEMMA PipeIn ==
    ASSUME scenario \in Scenarios, NEW p \in Ports
    PROVE  PipeOf(p) \in Pipes
BY ProcessingAssumption DEF PipeOf

LEMMA DebtIs ==
    ASSUME UNCHANGED scenario, NEW p, NEW i, i = PipeOf(p), NEW r
    PROVE  /\ Debt(p, r) <=> \E k \in 1 .. Len(Line(i)) : p \in LeftOf(i, k) /\ Line(i)[k].dst[p] = r
           /\ Debt(p, r)' <=> \E k \in 1 .. Len(Line(i)') :
                                 p \in LeftOf(i, k)' /\ Line(i)'[k].dst[p] = r
<1>1. PipeOf(p)' = i
  BY PipesSame
<1>2. Line(PipeOf(p))' = Line(i)'
  BY <1>1 DEF Line
<1>3. \A k : LeftOf(PipeOf(p), k)' = LeftOf(i, k)'
  BY <1>1, <1>2 DEF LeftOf
<1>4. QED
  BY <1>2, <1>3 DEF Debt

LEMMA UptoIs ==
    ASSUME UNCHANGED scenario, NEW p, NEW i, i = PipeOf(p), NEW r
    PROVE  /\ Upto(p, r) <=> /\ \A k \in 1 .. Len(Line(i)) : Line(i)[k].dst[p] <= r
                             /\ \A t \in ToSet(mOngoingTasks) : t.dst[p] <= r
           /\ Upto(p, r)' <=> /\ \A k \in 1 .. Len(Line(i)') : Line(i)'[k].dst[p] <= r
                              /\ \A t \in ToSet(mOngoingTasks') : t.dst[p] <= r
<1>1. PipeOf(p)' = i
  BY PipesSame
<1>2. Line(PipeOf(p))' = Line(i)'
  BY <1>1 DEF Line
<1>3. QED
  BY <1>2 DEF Upto

LEMMA ShiftIs ==
    ASSUME NEW n \in Nat, NEW e \in {0, 1}, NEW m, m = n - e
    PROVE  /\ \A k \in 1 .. m : k + e \in 1 .. n
           /\ \A k \in 1 .. n : (\E j \in 1 .. m : j + e = k) \/ (k = 1 /\ e = 1)
<1>1. ASSUME NEW k \in 1 .. m PROVE k + e \in 1 .. n
  OBVIOUS
<1>2. ASSUME NEW k \in 1 .. n, ~(k = 1 /\ e = 1) PROVE \E j \in 1 .. m : j + e = k
  <2>1. k - e \in 1 .. m /\ (k - e) + e = k
    BY <1>2
  <2>2. QED
    BY <2>1
<1>3. QED
  BY <1>1, <1>2

(* A step that leaves the work of a pipe, or takes away the first entry    *)
(* when its callbacks are made.                                            *)
ShiftedBy(i, e) ==
    /\ e \in {0, 1} /\ Len(Line(i)) \in Nat /\ Len(Line(i)') = Len(Line(i)) - e
    /\ \A k \in 1 .. Len(Line(i)') :
         Line(i)'[k] = Line(i)[k + e] /\ LeftOf(i, k)' = LeftOf(i, k + e)
    /\ e = 1 => LeftOf(i, 1) = {}

LEMMA ShiftedIs ==
    ASSUME NEW i, NEW e, ShiftedBy(i, e)
    PROVE  /\ \A k \in 1 .. Len(Line(i)') : k + e \in 1 .. Len(Line(i))
           /\ \A k \in 1 .. Len(Line(i)) :
                (\E j \in 1 .. Len(Line(i)') : j + e = k) \/ (k = 1 /\ e = 1)
<1>1. PICK n : n = Len(Line(i))
  OBVIOUS
<1>2. PICK m : m = Len(Line(i)')
  OBVIOUS
<1>3. n \in Nat /\ e \in {0, 1} /\ m = n - e
  BY <1>1, <1>2 DEF ShiftedBy
<1>4. /\ \A k \in 1 .. m : k + e \in 1 .. n
      /\ \A k \in 1 .. n : (\E j \in 1 .. m : j + e = k) \/ (k = 1 /\ e = 1)
  BY <1>3, ShiftIs
<1>5. QED
  BY <1>1, <1>2, <1>4

LEMMA ShiftedDebt ==
    ASSUME UNCHANGED scenario, NEW p, NEW i, i = PipeOf(p), NEW r, NEW e, ShiftedBy(i, e)
    PROVE  Debt(p, r)' <=> Debt(p, r)
<1>0. /\ Debt(p, r) <=> \E k \in 1 .. Len(Line(i)) : p \in LeftOf(i, k) /\ Line(i)[k].dst[p] = r
      /\ Debt(p, r)' <=> \E k \in 1 .. Len(Line(i)') : p \in LeftOf(i, k)' /\ Line(i)'[k].dst[p] = r
  BY DebtIs
<1>1. /\ \A k \in 1 .. Len(Line(i)') : k + e \in 1 .. Len(Line(i))
      /\ \A k \in 1 .. Len(Line(i)) :
           (\E j \in 1 .. Len(Line(i)') : j + e = k) \/ (k = 1 /\ e = 1)
  BY ShiftedIs
<1>2. ASSUME NEW k \in 1 .. Len(Line(i)'), p \in LeftOf(i, k)', Line(i)'[k].dst[p] = r
      PROVE  \E n \in 1 .. Len(Line(i)) : p \in LeftOf(i, n) /\ Line(i)[n].dst[p] = r
  BY <1>1, <1>2 DEF ShiftedBy
<1>3. ASSUME NEW n \in 1 .. Len(Line(i)), p \in LeftOf(i, n), Line(i)[n].dst[p] = r
      PROVE  \E k \in 1 .. Len(Line(i)') : p \in LeftOf(i, k)' /\ Line(i)'[k].dst[p] = r
  <2>1. ~(n = 1 /\ e = 1)
    BY <1>3 DEF ShiftedBy
  <2>2. PICK k \in 1 .. Len(Line(i)') : k + e = n
    BY <1>1, <2>1
  <2>3. Line(i)'[k] = Line(i)[n] /\ LeftOf(i, k)' = LeftOf(i, n)
    BY <2>2 DEF ShiftedBy
  <2>4. QED
    BY <1>3, <2>3
<1>4. QED
  BY <1>0, <1>2, <1>3

LEMMA ShiftLines ==
    ASSUME scenario \in Scenarios, LineTypeOK, LineOK, TaskOK,
           UNCHANGED <<scenario, mOngoingTasks>>,
           NEW d, \A i \in Pipes : ShiftedBy(i, d[i]),
           \A t \in Tasks : Gives(t)' = Gives(t), mOngoingTasks \in Seq(Tasks)
    PROVE  /\ LineOK' /\ TaskOK'
           /\ \A p \in Ports : \A r : Upto(p, r) => Upto(p, r)'
<1>1. ASSUME NEW i \in Pipes
      PROVE  \A k \in 1 .. Len(Line(i)') : k + d[i] \in 1 .. Len(Line(i))
  BY ShiftedIs
<1>2. ASSUME NEW i \in Pipes, NEW k \in 1 .. Len(Line(i)') PROVE EntryOK(i, k)'
  <2>1. PICK n \in 1 .. Len(Line(i)) : n = k + d[i]
    BY <1>1
  <2>2. EntryOK(i, n) /\ Line(i)'[k] = Line(i)[n] /\ LeftOf(i, k)' = LeftOf(i, n)
    BY <2>1 DEF LineOK, ShiftedBy
  <2>3. PortsOf(i)' = PortsOf(i)
    BY PipesSame
  <2>4. PICK e : e = Line(i)[n]
    OBVIOUS
  <2>5. Writes(e) # {} /\ Writes(e) \subseteq PortsOf(i)
    BY <2>2, <2>4 DEF EntryOK
  <2>6. ASSUME NEW j \in 1 .. Len(Line(i)'), NEW p \in Writes(e), Line(i)'[j].dst[p] = e.dst[p]
        PROVE  j = k
    <3>1. PICK m \in 1 .. Len(Line(i)) : m = j + d[i]
      BY <1>1
    <3>2. Line(i)[m].dst[p] = Line(i)[n].dst[p] /\ p \in Writes(Line(i)[n])
      BY <2>4, <2>6, <3>1 DEF ShiftedBy
    <3>3. m = n
      BY <2>2, <3>2 DEF EntryOK
    <3>4. PICK x : x = d[i]
      OBVIOUS
    <3>5. x \in {0, 1}
      BY <3>4 DEF ShiftedBy
    <3>6. j + x = k + x /\ j \in Int /\ k \in Int
      BY <2>1, <3>1, <3>3, <3>4
    <3>7. QED
      BY <3>5, <3>6
  <2>7. ASSUME LeftOf(i, k)' # {} PROVE \E t \in ToSet(mOngoingTasks) : Part(i, t, e)'
    <3>1. PICK t \in ToSet(mOngoingTasks) : Part(i, t, e)
      BY <2>2, <2>4, <2>7 DEF EntryOK
    <3>2. e \in Tasks
      <4>1. PICK s \in Seq(Tasks) : s = Line(i)
        BY LineIs
      <4>2. s[n] \in Tasks
        BY <4>1
      <4>3. QED
        BY <2>4, <4>1, <4>2
    <3>3. t \in Tasks
      BY DEF ToSet
    <3>4. Gives(e)' = Gives(e) /\ Gives(t)' = Gives(t)
      BY <3>2, <3>3
    <3>5. Part(i, t, e)'
      BY <2>3, <3>1, <3>4 DEF Part
    <3>6. QED
      BY <3>5
  <2>8. Line(i)'[k] = e
    BY <2>2, <2>4
  <2>9. QED
    BY <2>3, <2>5, <2>6, <2>7, <2>8 DEF EntryOK, Part, Gives, Writes
<1>3. ASSUME NEW p \in Ports, NEW r PROVE Debt(p, r)' <=> Debt(p, r)
  <2>1. PICK i \in Pipes : i = PipeOf(p)
    BY PipeIn
  <2>2. ShiftedBy(i, d[i])
    OBVIOUS
  <2>3. UNCHANGED scenario
    OBVIOUS
  <2>4. QED
    BY <2>1, <2>2, <2>3, ShiftedDebt
<1>4. TaskOK'
  <2>1. ASSUME NEW t PROVE Owed(t)' = Owed(t)
    BY <1>3 DEF Owed, Writes
  <2>2. QED
    BY <2>1 DEF TaskOK, Writes
<1>5. ASSUME NEW p \in Ports, NEW r, Upto(p, r) PROVE Upto(p, r)'
  <2>1. PICK i \in Pipes : i = PipeOf(p)
    BY PipeIn
  <2>2. ASSUME NEW k \in 1 .. Len(Line(i)') PROVE Line(i)'[k].dst[p] <= r
    <3>1. k + d[i] \in 1 .. Len(Line(i))
      BY <1>1
    <3>2. Line(i)'[k] = Line(i)[k + d[i]]
      BY DEF ShiftedBy
    <3>3. QED
      BY <1>5, <2>1, <3>1, <3>2, UptoIs
  <2>3. QED
    BY <1>5, <2>1, <2>2, UptoIs
<1>6. QED
  BY <1>2, <1>4, <1>5 DEF LineOK

(* What a step does to the requests leaves tasks what they are.            *)
LEMMA TasksKept ==
    ASSUME UnitTypeOK, UNCHANGED requests \/ NewRequest
    PROVE  Tasks \subseteq Tasks' /\ \A t \in Tasks : Gives(t)' = Gives(t)
<1>1. CASE UNCHANGED requests
  <2>1. UNCHANGED Tasks
    BY <1>1, SameAsked
  <2>2. \A t : Gives(t)' = Gives(t)
    BY <1>1, SameHold DEF Gives
  <2>3. QED
    BY <2>1, <2>2
<1>2. CASE NewRequest
  <2> DEFINE R == [wants : SUBSET Ports, setting : Seqs, reprocess : BOOLEAN]
  <2>1. PICK r \in R : requests' = Append(requests, r)
    BY <1>2, ProcessingAssumption DEF NewRequest
  <2>2. Tasks \subseteq Tasks'
    <3>1. requests \in Seq(R)
      BY DEF UnitTypeOK, AskTypeOK
    <3> HIDE DEF R
    <3>2. requests' \in Seq(R) /\ Len(requests') = Len(requests) + 1 /\ Len(requests) \in Nat
      BY <2>1, <3>1
    <3>3. 0 .. Len(requests) \subseteq 0 .. Len(requests')
      BY <3>2
    <3>4. Asked \subseteq Asked'
      BY <3>3 DEF Asked
    <3>5. QED
      BY <3>4 DEF Tasks
  <2> HIDE DEF R
  <2>3. ASSUME NEW t \in Tasks PROVE Gives(t)' = Gives(t)
    <3>1. PICK d \in Asked : d = t.dst
      BY DEF Tasks
    <3>2. Setting(d)' = Setting(d)
      BY <2>1, SettingKept DEF UnitTypeOK
    <3>3. Hold(t.dst, t.seq)' = Hold(t.dst, t.seq)
      BY <3>1, <3>2 DEF Hold, NeedHoldOnInputFrame
    <3>4. QED
      BY <3>3 DEF Gives
  <2>4. QED
    BY <2>2, <2>3
<1>3. QED
  BY <1>1, <1>2

(* A pipe whose work and poll thread stay, as far as ports are concerned.  *)
LEMMA LineStays ==
    ASSUME LineTypeOK, NEW i \in Pipes, Line(i)' = Line(i),
           poll'[i].ports = poll[i].ports, poll'[i].pc = "idle" <=> poll[i].pc = "idle"
    PROVE  ShiftedBy(i, 0)
<1>1. Len(Line(i)) \in Nat
  BY LineIs
<1>2. ASSUME NEW k \in 1 .. Len(Line(i)) PROVE k + 0 = k /\ LeftOf(i, k)' = LeftOf(i, k)
  BY <1>1 DEF LeftOf
<1>3. Len(Line(i)) - 0 = Len(Line(i))
  BY <1>1
<1>4. QED
  BY <1>1, <1>2, <1>3 DEF ShiftedBy

LEMMA LinesStay ==
    ASSUME UnitTypeOK, LineTypeOK, UNCHANGED pipes, UNCHANGED requests \/ NewRequest
    PROVE  LineTypeOK' /\ \A i \in Pipes : ShiftedBy(i, 0)
<1>1. Tasks \subseteq Tasks' /\ UNCHANGED <<stageQueue, mStageTaskList, poll>>
  BY TasksKept DEF pipes
<1>2. LineTypeOK'
  <2>1. \A i \in Pipes : mStageTaskList[i] \in Seq(Tasks') /\ stageQueue[i] \in Seq(Tasks')
    BY <1>1, SeqGrows DEF LineTypeOK
  <2>2. QED
    BY <1>1, <2>1 DEF LineTypeOK, Writes
<1>3. ASSUME NEW i \in Pipes PROVE ShiftedBy(i, 0)
  <2>1. Line(i)' = Line(i)
    BY <1>1 DEF Line
  <2>2. QED
    BY <1>1, <2>1, LineStays
<1>4. QED
  BY <1>2, <1>3

(* The stage takes a task to the hardware.                                 *)
LEMMA ProcessLines ==
    ASSUME UnitTypeOK, LineTypeOK, NEW i \in Pipes, Process(i)
    PROVE  LineTypeOK' /\ \A j \in Pipes : ShiftedBy(j, 0)
<1>1. /\ UNCHANGED <<requests, poll>> /\ poll[i].pc = "idle"
      /\ \/ UNCHANGED <<stageQueue, mStageTaskList>>
         \/ /\ stageQueue[i] # <<>>
            /\ stageQueue' = [stageQueue EXCEPT ![i] = Tail(stageQueue[i])]
            /\ mStageTaskList' = [mStageTaskList EXCEPT
                 ![i] = Append(mStageTaskList[i], Head(stageQueue[i]))]
  BY DEF Process, asked
<1>2. UNCHANGED Tasks
  BY <1>1, SameAsked
<1>3. CASE UNCHANGED <<stageQueue, mStageTaskList>>
  <2>1. \A j \in Pipes : Line(j)' = Line(j)
    BY <1>3 DEF Line
  <2>2. QED
    BY <1>1, <1>2, <1>3, <2>1, LineStays DEF LineTypeOK, Writes
<1>4. CASE /\ stageQueue[i] # <<>>
           /\ stageQueue' = [stageQueue EXCEPT ![i] = Tail(stageQueue[i])]
           /\ mStageTaskList' = [mStageTaskList EXCEPT
                 ![i] = Append(mStageTaskList[i], Head(stageQueue[i]))]
  <2>1. PICK T : T = Tasks
    OBVIOUS
  <2>2. PICK a \in Seq(T) : a = mStageTaskList[i]
    BY <2>1 DEF LineTypeOK
  <2>3. PICK b \in Seq(T) : b = stageQueue[i]
    BY <2>1 DEF LineTypeOK
  <2>4. b # <<>> /\ Head(b) \in T /\ Tail(b) \in Seq(T)
    BY <1>4, <2>3, HeadTailProperties
  <2>5. Append(a, Head(b)) \in Seq(T)
    BY <2>2, <2>4
  <2>6. /\ stageQueue' \in [Pipes -> Seq(T)] /\ mStageTaskList' \in [Pipes -> Seq(T)]
        /\ stageQueue'[i] = Tail(b) /\ mStageTaskList'[i] = Append(a, Head(b))
        /\ \A j \in Pipes \ {i} : stageQueue'[j] = stageQueue[j] /\ mStageTaskList'[j] = mStageTaskList[j]
    BY <1>4, <2>1, <2>2, <2>3, <2>4, <2>5 DEF LineTypeOK
  <2>7. LineTypeOK'
    <3>1. \A j \in Pipes : poll[j].pc # "idle" => j # i
      BY <1>1
    <3>2. stageQueue' \in [Pipes -> Seq(Tasks')] /\ mStageTaskList' \in [Pipes -> Seq(Tasks')]
      BY <1>2, <2>1, <2>6
    <3>3. ASSUME NEW j \in Pipes, poll'[j].pc # "idle"
          PROVE  mStageTaskList'[j] # <<>> /\ poll'[j].ports \subseteq Writes(Head(mStageTaskList'[j]))
      <4>1. j # i /\ poll[j].pc # "idle" /\ poll'[j] = poll[j]
        BY <1>1, <3>1, <3>3
      <4>2. mStageTaskList'[j] = mStageTaskList[j]
        BY <2>6, <4>1
      <4>3. QED
        BY <4>1, <4>2 DEF LineTypeOK
    <3>4. QED
      BY <3>2, <3>3 DEF LineTypeOK, Writes
  <2>8. Append(a, Head(b)) \o Tail(b) = a \o b
    <3>1. Append(a, Head(b)) = a \o <<Head(b)>>
      BY <2>2, <2>4, AppendIsConcat
    <3>2. b = <<Head(b)>> \o Tail(b)
      BY <2>3, <2>4, HeadTailProperties
    <3>3. <<Head(b)>> \in Seq(T)
      BY <2>4
    <3>4. (a \o <<Head(b)>>) \o Tail(b) = a \o (<<Head(b)>> \o Tail(b))
      BY <2>2, <2>4, <3>3, ConcatAssociative
    <3>5. QED
      BY <3>1, <3>2, <3>4
  <2>9. ASSUME NEW j \in Pipes PROVE Line(j)' = Line(j)
    <3>1. CASE j = i
      BY <2>2, <2>3, <2>6, <2>8, <3>1 DEF Line
    <3>2. CASE j # i
      BY <2>6, <3>2 DEF Line
    <3>3. QED
      BY <3>1, <3>2
  <2>10. QED
    BY <1>1, <2>7, <2>9, LineStays
<1>5. QED
  BY <1>1, <1>3, <1>4

LEMMA HeadOfLine ==
    ASSUME LineTypeOK, NEW i \in Pipes, mStageTaskList[i] # <<>>
    PROVE  1 \in 1 .. Len(Line(i)) /\ Line(i)[1] = Head(mStageTaskList[i])
<1>1. PICK n \in Nat : n = Len(mStageTaskList[i])
  BY LineIs
<1>2. PICK m \in Nat : m = Len(stageQueue[i])
  BY LineIs
<1>3. Head(mStageTaskList[i]) = mStageTaskList[i][1] /\ n # 0
  <2>1. mStageTaskList[i] \in Seq(Tasks)
    BY DEF LineTypeOK
  <2>2. QED
    BY <1>1, <2>1, HeadTailIs
<1>4. Len(Line(i)) = n + m
  BY <1>1, <1>2, LineIs
<1>5. 1 \in 1 .. Len(Line(i)) /\ 1 <= Len(mStageTaskList[i])
  BY <1>1, <1>3, <1>4
<1>6. Line(i)[1] = mStageTaskList[i][1]
  BY <1>5, LineIs
<1>7. QED
  BY <1>3, <1>5, <1>6

(* The poll thread of a pipe takes a step without callbacks.               *)
LEMMA PollLines ==
    ASSUME UnitTypeOK, LineTypeOK, NEW i \in Pipes,
           HandleEvent(i) \/ OnTaskDone(i) \/ EraseSequence(i) \/ TrimAfterTask(i)
    PROVE  LineTypeOK' /\ \A j \in Pipes : ShiftedBy(j, 0)
<1>1. UNCHANGED <<requests, stageQueue, mStageTaskList>>
  BY DEF HandleEvent, OnTaskDone, EraseSequence, TrimAfterTask, asked
<1>2. UNCHANGED Tasks
  BY <1>1, SameAsked
<1>3. DOMAIN poll = Pipes /\ \A j \in Pipes : DOMAIN poll[j] = {"pc", "ports", "task"}
  BY DEF UnitTypeOK, TaskTypeOK
<1>4. \A j \in Pipes : Line(j)' = Line(j)
  BY <1>1 DEF Line
<1>5. \A j \in Pipes \ {i} : poll'[j] = poll[j]
  BY <1>3 DEF HandleEvent, OnTaskDone, EraseSequence, TrimAfterTask
<1>6. ASSUME NEW j \in Pipes \ {i} PROVE ShiftedBy(j, 0)
  BY <1>4, <1>5, LineStays
<1>7. CASE HandleEvent(i)
  <2>1. /\ poll[i].pc = "idle" /\ mStageTaskList[i] # <<>>
        /\ poll'[i].pc = "buffers" /\ poll'[i].ports = Writes(Head(mStageTaskList[i]))
    BY <1>3, <1>7 DEF HandleEvent
  <2>2. LineTypeOK'
    <3>1. ASSUME NEW j \in Pipes, poll'[j].pc # "idle"
          PROVE  mStageTaskList[j] # <<>> /\ poll'[j].ports \subseteq Writes(Head(mStageTaskList[j]))
      <4>1. CASE j = i
        BY <2>1, <4>1
      <4>2. CASE j # i
        BY <1>5, <3>1, <4>2 DEF LineTypeOK
      <4>3. QED
        BY <4>1, <4>2
    <3>2. QED
      BY <1>1, <1>2, <3>1 DEF LineTypeOK, Writes
  <2>3. ShiftedBy(i, 0)
    <3>1. Len(Line(i)) \in Nat /\ Line(i)[1] = Head(mStageTaskList[i])
      BY <2>1, HeadOfLine, LineIs
    <3>2. ASSUME NEW k \in 1 .. Len(Line(i)) PROVE k + 0 = k /\ LeftOf(i, k)' = LeftOf(i, k)
      <4>1. Writes(Line(i)[k])' = Writes(Line(i)[k])
        BY <1>4 DEF Writes
      <4>2. CASE k = 1
        BY <2>1, <3>1, <4>2 DEF LeftOf
      <4>3. CASE k # 1
        BY <3>1, <4>1, <4>3 DEF LeftOf
      <4>4. QED
        BY <3>1, <4>2, <4>3
    <3>3. Len(Line(i)) - 0 = Len(Line(i))
      BY <3>1
    <3>4. QED
      BY <1>4, <3>1, <3>2, <3>3 DEF ShiftedBy
  <2>4. QED
    BY <1>6, <2>2, <2>3
<1>8. CASE OnTaskDone(i) \/ EraseSequence(i) \/ TrimAfterTask(i)
  <2>1. poll[i].pc # "idle" /\ poll'[i].pc # "idle" /\ poll'[i].ports = poll[i].ports
    BY <1>3, <1>8 DEF OnTaskDone, EraseSequence, TrimAfterTask
  <2>2. \A j \in Pipes : poll'[j].ports = poll[j].ports /\ (poll'[j].pc = "idle" <=> poll[j].pc = "idle")
    BY <1>5, <2>1
  <2>3. LineTypeOK'
    BY <1>1, <1>2, <2>2 DEF LineTypeOK, Writes
  <2>4. QED
    BY <1>4, <2>2, <2>3, LineStays
<1>9. QED
  BY <1>7, <1>8

LEMMA PopLines ==
    ASSUME UnitTypeOK, LineTypeOK, NEW i \in Pipes, PopTask(i)
    PROVE  LineTypeOK' /\ \A j \in Pipes : ShiftedBy(j, IF j = i THEN 1 ELSE 0)
<1>1. /\ UNCHANGED <<requests, stageQueue>> /\ poll[i].pc = "buffers" /\ poll[i].ports = {}
      /\ poll' = [poll EXCEPT ![i] = [pc |-> "idle", ports |-> {}, task |-> <<>>]]
      /\ mStageTaskList' = [mStageTaskList EXCEPT ![i] = Tail(mStageTaskList[i])]
  BY DEF PopTask, asked, Asleep
<1>2. UNCHANGED Tasks
  BY <1>1, SameAsked
<1>3. DOMAIN poll = Pipes
  BY DEF UnitTypeOK, TaskTypeOK
<1>4. PICK T : T = Tasks
  OBVIOUS
<1>5. PICK a \in Seq(T) : a = mStageTaskList[i]
  BY <1>4 DEF LineTypeOK
<1>6. PICK b \in Seq(T) : b = stageQueue[i]
  BY <1>4 DEF LineTypeOK
<1>7. /\ a # <<>> /\ Len(a) \in Nat \ {0} /\ Tail(a) \in Seq(T) /\ Len(Tail(a)) = Len(a) - 1
      /\ \A k \in 1 .. Len(a) - 1 : Tail(a)[k] = a[k + 1]
  <2>1. a # <<>>
    BY <1>1, <1>5 DEF LineTypeOK
  <2>2. QED
    BY <2>1, HeadTailIs
<1>8. /\ mStageTaskList' \in [Pipes -> Seq(T)] /\ mStageTaskList'[i] = Tail(a)
      /\ \A j \in Pipes \ {i} : mStageTaskList'[j] = mStageTaskList[j] /\ poll'[j] = poll[j]
      /\ poll'[i].pc = "idle"
  BY <1>1, <1>3, <1>4, <1>5, <1>7 DEF LineTypeOK
<1>9. LineTypeOK'
  <2>1. ASSUME NEW j \in Pipes, poll'[j].pc # "idle"
        PROVE  mStageTaskList'[j] # <<>> /\ poll'[j].ports \subseteq Writes(Head(mStageTaskList'[j]))
    <3>1. j # i
      BY <1>8, <2>1
    <3>2. poll'[j] = poll[j] /\ mStageTaskList'[j] = mStageTaskList[j]
      BY <1>8, <3>1
    <3>3. QED
      BY <2>1, <3>2 DEF LineTypeOK
  <2>2. stageQueue' \in [Pipes -> Seq(Tasks')] /\ mStageTaskList' \in [Pipes -> Seq(Tasks')]
    BY <1>1, <1>2, <1>4, <1>8 DEF LineTypeOK
  <2>3. QED
    BY <2>1, <2>2 DEF LineTypeOK, Writes
<1>10. ASSUME NEW j \in Pipes, j # i PROVE ShiftedBy(j, 0)
  <2>1. Line(j)' = Line(j) /\ poll'[j] = poll[j]
    BY <1>1, <1>8, <1>10 DEF Line
  <2>2. QED
    BY <2>1, LineStays
<1>11. ShiftedBy(i, 1)
  <2>1. PICK s : s = a \o b
    OBVIOUS
  <2>2. PICK t : t = Tail(a) \o b
    OBVIOUS
  <2>3. /\ Len(s) = Len(a) + Len(b)
        /\ \A k \in 1 .. Len(a) + Len(b) : s[k] = IF k <= Len(a) THEN a[k] ELSE b[k - Len(a)]
    BY <2>1, ConcatProperties
  <2>4. /\ Len(t) = Len(a) - 1 + Len(b)
        /\ \A k \in 1 .. Len(a) - 1 + Len(b) :
             t[k] = IF k <= Len(a) - 1 THEN Tail(a)[k] ELSE b[k - (Len(a) - 1)]
    <3>1. PICK c \in Seq(T) : c = Tail(a)
      BY <1>7
    <3>2. /\ Len(t) = Len(c) + Len(b)
          /\ \A k \in 1 .. Len(c) + Len(b) : t[k] = IF k <= Len(c) THEN c[k] ELSE b[k - Len(c)]
      BY <2>2, <3>1, ConcatProperties
    <3>3. QED
      BY <1>7, <3>1, <3>2
  <2>5. Len(a) \in Nat \ {0} /\ Len(b) \in Nat
    BY <1>7
  <2>6. ASSUME NEW k \in 1 .. Len(t) PROVE t[k] = s[k + 1]
    <3>1. CASE k <= Len(a) - 1
      <4>1. k \in 1 .. Len(a) - 1 /\ k + 1 \in 1 .. Len(a) + Len(b) /\ k + 1 <= Len(a)
        BY <2>4, <2>5, <3>1
      <4>2. k \in 1 .. Len(a) - 1 + Len(b)
        BY <2>4
      <4>3. t[k] = Tail(a)[k] /\ s[k + 1] = a[k + 1]
        BY <2>3, <2>4, <3>1, <4>1, <4>2
      <4>4. QED
        BY <1>7, <4>1, <4>3
    <3>2. CASE ~(k <= Len(a) - 1)
      <4>1. k \in 1 .. Len(a) - 1 + Len(b)
        BY <2>4
      <4>2. k + 1 \in 1 .. Len(a) + Len(b) /\ ~(k + 1 <= Len(a)) /\ k + 1 - Len(a) = k - (Len(a) - 1)
        BY <2>5, <3>2, <4>1
      <4>3. t[k] = b[k - (Len(a) - 1)] /\ s[k + 1] = b[k + 1 - Len(a)]
        BY <2>3, <2>4, <3>2, <4>1, <4>2
      <4>4. QED
        BY <4>2, <4>3
    <3>3. QED
      BY <3>1, <3>2
  <2>7. Line(i) = s /\ Line(i)' = t
    BY <1>1, <1>5, <1>6, <1>8, <2>1, <2>2 DEF Line
  <2>8. LeftOf(i, 1) = {}
    BY <1>1 DEF LeftOf
  <2>9. ASSUME NEW k \in 1 .. Len(t) PROVE LeftOf(i, k)' = LeftOf(i, k + 1)
    <3>1. LeftOf(i, k)' = Writes(t[k])
      BY <1>8, <2>7 DEF LeftOf, Writes
    <3>2. Len(t) \in Int /\ k + 1 # 1
      BY <2>4, <2>5
    <3>3. LeftOf(i, k + 1) = Writes(s[k + 1])
      BY <2>7, <3>2 DEF LeftOf
    <3>4. QED
      BY <2>6, <3>1, <3>3
  <2>10. Len(s) \in Nat /\ Len(t) = Len(s) - 1
    BY <2>3, <2>4, <2>5
  <2>11. QED
    BY <2>6, <2>7, <2>8, <2>9, <2>10 DEF ShiftedBy
<1>12. QED
  BY <1>9, <1>10, <1>11

-----------------------------------------------------------------------------
(* A callback.                                                             *)

(* A task with one buffer less to come.                                    *)
OneLess(t, u) ==
    /\ u.raw = t.raw /\ u.seq = t.seq /\ u.dst = t.dst /\ u.fake = t.fake
    /\ u.left = t.left - 1

(* Where the entries of a sequence came from when entry n was taken out.   *)
Without(s, t, n) ==
    \E f \in [1 .. Len(t) -> 1 .. Len(s)] :
       /\ \A j, k \in 1 .. Len(t) : f[j] = f[k] => j = k
       /\ \A k \in 1 .. Len(t) : f[k] # n /\ t[k] = s[f[k]]
       /\ \A j \in 1 .. Len(s) : j # n => \E k \in 1 .. Len(t) : f[k] = j

LEMMA RemovedFrom ==
    ASSUME NEW T, NEW s \in Seq(T), NEW n \in 1 .. Len(s), NEW t, t = RemoveAt(s, n)
    PROVE  Without(s, t, n)
<1>0. Len(s) \in Nat
  OBVIOUS
<1>a. /\ t \in Seq(T) /\ Len(t) = Len(s) - 1
      /\ \A k \in 1 .. n - 1 : t[k] = s[k]
      /\ \A k \in n .. Len(s) - 1 : t[k] = s[k + 1]
  BY RemoveAtIs, SMTT(30)
<1>1. Len(t) = Len(s) - 1
  BY <1>a
<1>2. \A k \in 1 .. n - 1 : t[k] = s[k]
  BY <1>a
<1>3. \A k \in n .. Len(s) - 1 : t[k] = s[k + 1]
  BY <1>a
<1> DEFINE f == [k \in 1 .. Len(t) |-> IF k < n THEN k ELSE k + 1]
<1>4. \A k \in 1 .. Len(t) : f[k] \in 1 .. Len(s) /\ f[k] # n
  BY <1>0, <1>1
<1>5. f \in [1 .. Len(t) -> 1 .. Len(s)]
  BY <1>4
<1>6. ASSUME NEW k \in 1 .. Len(t) PROVE t[k] = s[f[k]]
  <2>1. CASE k < n
    <3>1. k \in 1 .. n - 1 /\ f[k] = k
      BY <1>0, <1>1, <2>1
    <3>2. QED
      BY <1>2, <3>1
  <2>2. CASE ~(k < n)
    <3>1. k \in n .. Len(s) - 1 /\ f[k] = k + 1
      BY <1>0, <1>1, <2>2
    <3>2. QED
      BY <1>3, <3>1
  <2>3. QED
    BY <2>1, <2>2
<1>7. ASSUME NEW j \in 1 .. Len(t), NEW k \in 1 .. Len(t), f[j] = f[k] PROVE j = k
  BY <1>0, <1>1, <1>7
<1>8. ASSUME NEW j \in 1 .. Len(s), j # n PROVE \E k \in 1 .. Len(t) : f[k] = j
  <2>1. CASE j < n
    <3>1. j \in 1 .. Len(t) /\ f[j] = j
      BY <1>0, <1>1, <2>1
    <3>2. QED
      BY <3>1
  <2>2. CASE j > n
    <3>1. j - 1 \in 1 .. Len(t) /\ f[j - 1] = j
      BY <1>0, <1>1, <2>2
    <3>2. QED
      BY <3>1
  <2>3. j < n \/ j > n
    BY <1>0, <1>8
  <2>4. QED
    BY <2>1, <2>2, <2>3
<1> HIDE DEF f
<1>9. QED
  BY <1>4, <1>5, <1>6, <1>7, <1>8 DEF Without

(* What a callback for entry n of a list of tasks makes of it: that task   *)
(* has one buffer less to come, or is taken off the list with its last.    *)
Became(s, t, n) ==
    \E f \in [1 .. Len(t) -> 1 .. Len(s)] :
       /\ \A j, k \in 1 .. Len(t) : f[j] = f[k] => j = k
       /\ \A k \in 1 .. Len(t) :
            IF f[k] = n THEN s[n].left # 1 /\ OneLess(s[n], t[k]) ELSE t[k] = s[f[k]]
       /\ \A j \in 1 .. Len(s) : j # n \/ s[n].left # 1 => \E k \in 1 .. Len(t) : f[k] = j

LEMMA BufferDoneTasks ==
    ASSUME TaskTypeOK, NEW i \in Pipes, OnBufferDone(i)
    PROVE  \E n \in 1 .. Len(mOngoingTasks) :
             /\ mOngoingTasks[n].dst[NextPort(i)] = Head(mStageTaskList[i]).dst[NextPort(i)]
             /\ Became(mOngoingTasks, mOngoingTasks', n)
<1>1. mOngoingTasks \in Seq(Tasks) /\ DOMAIN mOngoingTasks = 1 .. Len(mOngoingTasks)
  BY DEF TaskTypeOK
<1> DEFINE p == NextPort(i)
           r == Head(mStageTaskList[i]).dst[p]
<1>2. Matches(p, r) # {} /\ Matches(p, r) \subseteq 1 .. Len(mOngoingTasks)
  <2>1. Matches(p, r) # {}
    BY DEF OnBufferDone
  <2>2. QED
    BY <1>1, <2>1 DEF Matches
<1>3. \E k \in Matches(p, r) : \A j \in Matches(p, r) : k <= j
  BY <1>2, LeastOf
<1>4. TaskOf(p, r) \in Matches(p, r)
  BY <1>3 DEF TaskOf
<1>5. PICK n \in 1 .. Len(mOngoingTasks) : n = TaskOf(p, r) /\ mOngoingTasks[n].dst[p] = r
  BY <1>2, <1>4 DEF Matches
<1>6. PICK s \in Seq(Tasks) : s = mOngoingTasks
  BY <1>1
<1>7. PICK u : u = s[n]
  OBVIOUS
<1>8. u \in Tasks
  <2>1. s[n] \in Tasks
    BY <1>5, <1>6
  <2>2. QED
    BY <1>7, <2>1
<1>9. PICK e : e = [u EXCEPT !.left = @ - 1]
  OBVIOUS
<1>10. e \in Tasks /\ OneLess(u, e)
  <2>1. u = [raw |-> u.raw, seq |-> u.seq, dst |-> u.dst, fake |-> u.fake, left |-> u.left]
        /\ u.raw \in Raws /\ u.seq \in Int /\ u.dst \in Asked /\ u.fake \in BOOLEAN
        /\ u.left \in Int
    BY <1>8 DEF Tasks
  <2>2. e = [raw |-> u.raw, seq |-> u.seq, dst |-> u.dst, fake |-> u.fake,
             left |-> u.left - 1]
    BY <1>9, <2>1
  <2>3. e \in Tasks
    BY <2>1, <2>2 DEF Tasks
  <2>4. OneLess(u, e)
    BY <2>2 DEF OneLess
  <2>5. QED
    BY <2>3, <2>4
<1>12. PICK t : t = mOngoingTasks'
  OBVIOUS
<1>13. \/ u.left = 1 /\ t = RemoveAt(s, n)
       \/ u.left # 1 /\ t = [s EXCEPT ![n] = e]
  BY <1>5, <1>6, <1>7, <1>9, <1>12 DEF OnBufferDone
<1>14. n \in 1 .. Len(s)
  BY <1>5, <1>6
<1>15. PICK f \in [1 .. Len(t) -> 1 .. Len(s)] :
          /\ \A j, k \in 1 .. Len(t) : f[j] = f[k] => j = k
          /\ \A k \in 1 .. Len(t) : IF f[k] = n THEN u.left # 1 /\ t[k] = e ELSE t[k] = s[f[k]]
          /\ \A j \in 1 .. Len(s) : j # n \/ u.left # 1 => \E k \in 1 .. Len(t) : f[k] = j
  <2>1. CASE u.left = 1 /\ t = RemoveAt(s, n)
    <3>0. Without(s, t, n)
      BY <1>14, <2>1, RemovedFrom
    <3>1. PICK f \in [1 .. Len(t) -> 1 .. Len(s)] :
              /\ \A j, k \in 1 .. Len(t) : f[j] = f[k] => j = k
              /\ \A k \in 1 .. Len(t) : f[k] # n /\ t[k] = s[f[k]]
              /\ \A j \in 1 .. Len(s) : j # n => \E k \in 1 .. Len(t) : f[k] = j
      BY <3>0 DEF Without
    <3>2. \A k \in 1 .. Len(t) : IF f[k] = n THEN u.left # 1 /\ t[k] = e ELSE t[k] = s[f[k]]
      BY <3>1
    <3>3. \A j \in 1 .. Len(s) : j # n \/ u.left # 1 => \E k \in 1 .. Len(t) : f[k] = j
      BY <2>1, <3>1
    <3>4. QED
      BY <3>1, <3>2, <3>3
  <2>2. CASE u.left # 1 /\ t = [s EXCEPT ![n] = e]
    <3> DEFINE f == [k \in 1 .. Len(t) |-> k]
    <3>1. /\ Len(t) = Len(s) /\ t[n] = e
          /\ \A k \in 1 .. Len(s) : k # n => t[k] = s[k]
      BY <1>10, <1>14, <2>2
    <3>2. f \in [1 .. Len(t) -> 1 .. Len(s)]
      BY <3>1
    <3>3. QED
      BY <2>2, <3>1, <3>2
  <2>3. QED
    BY <1>13, <2>1, <2>2
<1>16. Became(s, t, n)
  <2>1. \A k \in 1 .. Len(t) :
          IF f[k] = n THEN s[n].left # 1 /\ OneLess(s[n], t[k]) ELSE t[k] = s[f[k]]
    BY <1>7, <1>10, <1>15
  <2>2. \A j \in 1 .. Len(s) : j # n \/ s[n].left # 1 => \E k \in 1 .. Len(t) : f[k] = j
    BY <1>7, <1>15
  <2>3. QED
    BY <1>15, <2>1, <2>2 DEF Became
<1>17. QED
  BY <1>5, <1>6, <1>12, <1>16

LEMMA LeftWrites ==
    ASSUME LineTypeOK, NEW i \in Pipes, NEW k \in 1 .. Len(Line(i))
    PROVE  LeftOf(i, k) \subseteq Writes(Line(i)[k])
<1>1. CASE k = 1 /\ poll[i].pc # "idle"
  <2>1. mStageTaskList[i] # <<>> /\ poll[i].ports \subseteq Writes(Head(mStageTaskList[i]))
    BY <1>1 DEF LineTypeOK
  <2>2. Line(i)[1] = Head(mStageTaskList[i])
    BY <2>1, HeadOfLine
  <2>3. QED
    BY <1>1, <2>1, <2>2 DEF LeftOf
<1>2. CASE ~(k = 1 /\ poll[i].pc # "idle")
  BY <1>2 DEF LeftOf
<1>3. QED
  BY <1>1, <1>2

(* The callback is for a port of the first entry of its pipe, which is     *)
(* crossed out.                                                            *)
LEMMA CallbackLines ==
    ASSUME UnitTypeOK, LineTypeOK, LineOK, NEW i \in Pipes, OnBufferDone(i)
    PROVE  /\ 1 \in 1 .. Len(Line(i)) /\ Line(i)[1] = Head(mStageTaskList[i])
           /\ NextPort(i) \in Writes(Line(i)[1]) /\ PipeOf(NextPort(i)) = i
           /\ NextPort(i) \in LeftOf(i, 1)
           /\ \A j \in Pipes : Line(j)' = Line(j)
           /\ LeftOf(i, 1)' = LeftOf(i, 1) \ {NextPort(i)}
           /\ \A j \in Pipes : \A k : (j # i \/ k # 1) => LeftOf(j, k)' = LeftOf(j, k)
           /\ LineTypeOK'
<1>1. /\ UNCHANGED <<requests, stageQueue, mStageTaskList>>
      /\ poll[i].pc = "buffers" /\ poll[i].ports # {}
  BY DEF OnBufferDone, asked
<1>2. PICK p : p = NextPort(i)
  OBVIOUS
<1>3. DOMAIN poll = Pipes /\ \A j \in Pipes : DOMAIN poll[j] = {"pc", "ports", "task"}
  BY DEF UnitTypeOK, TaskTypeOK
<1>4. /\ poll'[i].pc # "idle" /\ poll'[i].ports = poll[i].ports \ {p}
      /\ \A j \in Pipes \ {i} : poll'[j] = poll[j]
  <2>1. \/ \E task : poll' = [poll EXCEPT ![i] =
                        [pc |-> "done", ports |-> poll[i].ports \ {p}, task |-> <<task>>]]
        \/ poll' = [poll EXCEPT ![i].ports = poll[i].ports \ {p}]
    BY <1>2 DEF OnBufferDone
  <2>2. QED
    BY <1>1, <1>3, <2>1
<1>5. mStageTaskList[i] # <<>> /\ poll[i].ports \subseteq Writes(Head(mStageTaskList[i]))
  BY <1>1 DEF LineTypeOK
<1>6. 1 \in 1 .. Len(Line(i)) /\ Line(i)[1] = Head(mStageTaskList[i])
  BY <1>5, HeadOfLine
<1>7. p \in poll[i].ports
  <2>1. poll[i].ports \subseteq Nat
    BY <1>5, PortsFinite DEF Writes
  <2>2. \E x \in poll[i].ports : \A y \in poll[i].ports : x <= y
    BY <1>1, <2>1, LeastOf
  <2>3. QED
    BY <1>2, <2>2 DEF NextPort, Min
<1>8. p \in Writes(Line(i)[1]) /\ PipeOf(p) = i
  <2>1. EntryOK(i, 1)
    BY <1>6 DEF LineOK
  <2>2. QED
    BY <1>5, <1>6, <1>7, <2>1 DEF EntryOK, PortsOf
<1>9. LeftOf(i, 1) = poll[i].ports
  BY <1>1 DEF LeftOf
<1>10. \A j \in Pipes : Line(j)' = Line(j)
  BY <1>1 DEF Line
<1>11. LeftOf(i, 1)' = poll[i].ports \ {p}
  BY <1>4 DEF LeftOf
<1>12. ASSUME NEW j \in Pipes, NEW k, j # i \/ k # 1 PROVE LeftOf(j, k)' = LeftOf(j, k)
  <2>1. Writes(Line(j)[k])' = Writes(Line(j)[k])
    BY <1>10 DEF Writes
  <2>2. CASE j # i
    <3>1. poll'[j] = poll[j]
      BY <1>4, <2>2
    <3>2. QED
      BY <2>1, <3>1 DEF LeftOf
  <2>3. CASE k # 1
    BY <2>1, <2>3 DEF LeftOf
  <2>4. QED
    BY <1>12, <2>2, <2>3
<1>13. LineTypeOK'
  <2>1. UNCHANGED Tasks
    BY <1>1, SameAsked
  <2>2. ASSUME NEW j \in Pipes, poll'[j].pc # "idle"
        PROVE  mStageTaskList[j] # <<>> /\ poll'[j].ports \subseteq Writes(Head(mStageTaskList[j]))
    <3>1. CASE j = i
      BY <1>4, <1>5, <3>1
    <3>2. CASE j # i
      <4>1. poll'[j] = poll[j]
        BY <1>4, <3>2
      <4>2. QED
        BY <2>2, <4>1 DEF LineTypeOK
    <3>3. QED
      BY <3>1, <3>2
  <2>3. QED
    BY <1>1, <2>1, <2>2 DEF LineTypeOK, Writes
<1>14. QED
  BY <1>2, <1>6, <1>7, <1>8, <1>9, <1>10, <1>11, <1>12, <1>13

LEMMA CallbackDebt ==
    ASSUME UnitTypeOK, LineTypeOK, LineOK, scenario \in Scenarios,
           NEW i \in Pipes, OnBufferDone(i), NEW q \in Ports, NEW r
    PROVE  Debt(q, r)' <=> /\ Debt(q, r)
                           /\ ~(q = NextPort(i) /\ r = Line(i)[1].dst[NextPort(i)])
<1>1. UNCHANGED scenario
  BY DEF OnBufferDone
<1>2. PICK p : p = NextPort(i)
  OBVIOUS
<1>3. PICK j \in Pipes : j = PipeOf(q)
  BY PipeIn
<1>4. /\ Debt(q, r) <=> \E k \in 1 .. Len(Line(j)) : q \in LeftOf(j, k) /\ Line(j)[k].dst[q] = r
      /\ Debt(q, r)' <=> \E k \in 1 .. Len(Line(j)') : q \in LeftOf(j, k)' /\ Line(j)'[k].dst[q] = r
  BY <1>1, <1>3, DebtIs
<1>5. Line(j)' = Line(j)
  BY CallbackLines
<1>6. ASSUME NEW k \in 1 .. Len(Line(j))
      PROVE  q \in LeftOf(j, k)' <=> q \in LeftOf(j, k) /\ ~(j = i /\ k = 1 /\ q = p)
  <2>1. CASE j = i /\ k = 1
    BY <1>2, <2>1, CallbackLines
  <2>2. CASE j # i \/ k # 1
    <3>1. LeftOf(j, k)' = LeftOf(j, k)
      BY <2>2, CallbackLines
    <3>2. QED
      BY <2>2, <3>1
  <2>3. QED
    BY <2>1, <2>2
<1>7. ASSUME NEW k \in 1 .. Len(Line(j)), Line(j)[k].dst[q] = r, q = p, r = Line(i)[1].dst[p]
      PROVE  j = i /\ k = 1
  <2>1. p \in Writes(Line(i)[1]) /\ PipeOf(p) = i /\ 1 \in 1 .. Len(Line(i))
    BY <1>2, CallbackLines
  <2>2. j = i
    BY <1>3, <1>7, <2>1
  <2>3. EntryOK(i, 1)
    BY <2>1 DEF LineOK
  <2>4. Line(i)[k].dst[p] = Line(i)[1].dst[p] /\ k \in 1 .. Len(Line(i))
    BY <1>7, <2>2
  <2>5. QED
    BY <2>1, <2>2, <2>3, <2>4 DEF EntryOK
<1>8. ASSUME Debt(q, r)' PROVE Debt(q, r) /\ ~(q = p /\ r = Line(i)[1].dst[p])
  BY <1>4, <1>5, <1>6, <1>7, <1>8
<1>9. ASSUME Debt(q, r), ~(q = p /\ r = Line(i)[1].dst[p]) PROVE Debt(q, r)'
  BY <1>4, <1>5, <1>6, <1>9
<1>10. QED
  BY <1>2, <1>8, <1>9

LEMMA OwedFinite ==
    ASSUME NEW t
    PROVE  IsFiniteSet(Owed(t)) /\ Owed(t) \subseteq Ports
BY PortsFinite, FS_Subset DEF Owed, Writes

(* An entry that is owed is a debt of every task it is a part of.          *)
LEMMA PartOwes ==
    ASSUME LineTypeOK, LineOK, NEW i \in Pipes, NEW k \in 1 .. Len(Line(i)), NEW t, NEW q,
           Part(i, t, Line(i)[k]), q \in LeftOf(i, k)
    PROVE  q \in Ports /\ PipeOf(q) = i /\ q \in Writes(t) /\ Line(i)[k].dst[q] = t.dst[q]
<1>1. q \in Writes(Line(i)[k])
  BY LeftWrites
<1>2. q \in PortsOf(i)
  BY <1>1 DEF LineOK, EntryOK
<1>3. q \in Ports /\ PipeOf(q) = i
  BY <1>2 DEF PortsOf
<1>4. Line(i)[k].dst[q] = t.dst[q]
  BY <1>2, <1>3 DEF Part, Only
<1>5. QED
  BY <1>1, <1>3, <1>4 DEF Writes

LEMMA CallbackKeeps ==
    ASSUME UnitTypeOK, LineTypeOK, LineOK, TaskOK, scenario \in Scenarios,
           NEW i \in Pipes, OnBufferDone(i)
    PROVE  /\ LineOK' /\ TaskOK'
           /\ \A q \in Ports : \A r : Upto(q, r) => Upto(q, r)'
<1>1. UNCHANGED <<scenario, requests>>
  BY DEF OnBufferDone, asked
<1>2. PICK p : p = NextPort(i)
  OBVIOUS
<1>3. PICK r : r = Line(i)[1].dst[p]
  OBVIOUS
<1>4. /\ 1 \in 1 .. Len(Line(i)) /\ p \in LeftOf(i, 1) /\ PipeOf(p) = i
      /\ p \in Ports /\ r # None
      /\ \A j \in Pipes : Line(j)' = Line(j)
  BY <1>2, <1>3, CallbackLines DEF Writes
<1>5. TaskTypeOK
  BY DEF UnitTypeOK
<1>6. PICK s \in Seq(Tasks) : s = mOngoingTasks
  BY <1>5 DEF TaskTypeOK
<1>7. PICK t : t = mOngoingTasks'
  OBVIOUS
<1>8. PICK n \in 1 .. Len(s) : s[n].dst[p] = r /\ Became(s, t, n)
  BY <1>2, <1>3, <1>5, <1>6, <1>7, BufferDoneTasks, CallbackLines
<1>9. PICK f \in [1 .. Len(t) -> 1 .. Len(s)] :
       /\ \A j, k \in 1 .. Len(t) : f[j] = f[k] => j = k
       /\ \A k \in 1 .. Len(t) :
            IF f[k] = n THEN s[n].left # 1 /\ OneLess(s[n], t[k]) ELSE t[k] = s[f[k]]
       /\ \A j \in 1 .. Len(s) : j # n \/ s[n].left # 1 => \E k \in 1 .. Len(t) : f[k] = j
  BY <1>8 DEF Became
<1>10. ASSUME NEW k \in 1 .. Len(t)
       PROVE  /\ f[k] \in 1 .. Len(s) /\ t[k].raw = s[f[k]].raw /\ t[k].seq = s[f[k]].seq
              /\ t[k].dst = s[f[k]].dst /\ t[k].fake = s[f[k]].fake
  BY <1>9 DEF OneLess
<1>11. DOMAIN s = 1 .. Len(s) /\ DOMAIN t = 1 .. Len(t) /\ Len(s) \in Nat
  <2>1. mOngoingTasks' \in Seq(Tasks')
    <3>1. UnitTypeOK'
      BY UnitTypeStep DEF Next, PollThread
    <3>2. QED
      BY <3>1 DEF UnitTypeOK, TaskTypeOK
  <2>2. QED
    BY <1>7, <2>1
<1>12. ASSUME NEW q \in Ports, NEW x PROVE Debt(q, x)' <=> Debt(q, x) /\ ~(q = p /\ x = r)
  BY <1>2, <1>3, CallbackDebt
<1>13. p \in Writes(s[n]) /\ p \in Owed(s[n])
  <2>1. p \in Writes(s[n])
    BY <1>4, <1>8 DEF Writes
  <2>2. Debt(p, r)
    BY <1>3, <1>4 DEF Debt
  <2>3. QED
    BY <1>8, <2>1, <2>2 DEF Owed
<1>14. ASSUME NEW k \in 1 .. Len(s)
       PROVE  s[k].left = Cardinality(Owed(s[k]))
  BY <1>6, <1>11 DEF TaskOK, ToSet
<1>15. ASSUME NEW j \in 1 .. Len(s), NEW k \in 1 .. Len(s), NEW q \in Writes(s[k]),
              s[j].dst[q] = s[k].dst[q]
       PROVE  j = k
  BY <1>6, <1>11, <1>15 DEF TaskOK
<1>16. ASSUME NEW k \in 1 .. Len(s), k # n PROVE Owed(s[k])' = Owed(s[k])
  <2>1. ASSUME NEW q \in Writes(s[k]) PROVE ~(q = p /\ s[k].dst[q] = r)
    BY <1>8, <1>13, <1>15, <1>16
  <2>2. QED
    BY <1>12, <2>1 DEF Owed, Writes
<1>17. Owed(s[n])' = Owed(s[n]) \ {p}
  BY <1>8, <1>12 DEF Owed, Writes
<1>18. Cardinality(Owed(s[n])') = s[n].left - 1 /\ IsFiniteSet(Owed(s[n])')
  <2>1. PICK O : O = Owed(s[n])
    OBVIOUS
  <2>2. IsFiniteSet(O) /\ p \in O
    BY <1>13, <2>1, OwedFinite
  <2>3. Cardinality(O \ {p}) = Cardinality(O) - 1 /\ IsFiniteSet(O \ {p})
    BY <2>2, FS_RemoveElement, FS_Subset
  <2>4. QED
    BY <1>14, <1>17, <2>1, <2>3
<1>19. ASSUME NEW k \in 1 .. Len(t) PROVE Owed(t[k])' = Owed(s[f[k]])'
  <2>1. t[k].dst = s[f[k]].dst
    BY <1>10
  <2>2. QED
    BY <1>7, <2>1 DEF Owed, Writes, Debt
<1>20. TaskOK'
  <2>1. ASSUME NEW k \in 1 .. Len(t) PROVE t[k].left = Cardinality(Owed(t[k])')
    <3>1. CASE f[k] = n
      <4>1. t[k].left = s[n].left - 1
        BY <1>9, <3>1 DEF OneLess
      <4>2. QED
        BY <1>18, <1>19, <3>1, <4>1
    <3>2. CASE f[k] # n
      <4>1. t[k] = s[f[k]] /\ f[k] \in 1 .. Len(s)
        BY <1>9, <3>2
      <4>2. QED
        BY <1>14, <1>16, <3>2, <4>1
    <3>3. QED
      BY <3>1, <3>2
  <2>2. ASSUME NEW j \in 1 .. Len(t), NEW k \in 1 .. Len(t), NEW q \in Ports,
               t[k].dst[q] # None, t[j].dst[q] = t[k].dst[q]
        PROVE  j = k
    <3>1. f[j] \in 1 .. Len(s) /\ f[k] \in 1 .. Len(s) /\ t[j].dst = s[f[j]].dst /\ t[k].dst = s[f[k]].dst
      BY <1>10
    <3>2. q \in Writes(s[f[k]])
      BY <2>2, <3>1 DEF Writes
    <3>3. f[j] = f[k]
      BY <1>15, <2>2, <3>1, <3>2
    <3>4. QED
      BY <1>9, <3>3
  <2>3. \A u \in ToSet(t) : u.left = Cardinality(Owed(u)')
    BY <1>11, <2>1 DEF ToSet
  <2>4. \A j, k \in DOMAIN t : \A q \in Writes(t[k])' : t[j].dst[q] = t[k].dst[q] => j = k
    BY <1>7, <1>11, <2>2 DEF Writes
  <2>5. QED
    BY <1>7, <2>3, <2>4 DEF TaskOK, Writes
<1>21. ASSUME NEW j \in Pipes, NEW k \in 1 .. Len(Line(j)) PROVE EntryOK(j, k)'
  <2>1. EntryOK(j, k) /\ Line(j)' = Line(j)
    BY <1>4 DEF LineOK
  <2>2. LeftOf(j, k)' \subseteq LeftOf(j, k)
    <3>1. CASE j = i /\ k = 1
      BY <3>1, CallbackLines
    <3>2. CASE j # i \/ k # 1
      BY <3>2, CallbackLines
    <3>3. QED
      BY <3>1, <3>2
  <2>3. PICK e : e = Line(j)[k]
    OBVIOUS
  <2>4. ASSUME LeftOf(j, k)' # {} PROVE \E u \in ToSet(t) : Part(j, u, e)'
    <3>1. PICK q : q \in LeftOf(j, k)' /\ q \in LeftOf(j, k)
      BY <2>2, <2>4
    <3>2. PICK m \in 1 .. Len(s) : Part(j, s[m], e)
      <4>1. PICK u \in ToSet(mOngoingTasks) : Part(j, u, e)
        BY <2>1, <2>3, <3>1 DEF EntryOK
      <4>2. QED
        BY <1>6, <1>11, <4>1 DEF ToSet
    <3>3. q \in Ports /\ PipeOf(q) = j /\ q \in Writes(s[m]) /\ e.dst[q] = s[m].dst[q]
      BY <2>3, <3>1, <3>2, PartOwes
    <3>4. m # n \/ s[n].left # 1
      <4>1. SUFFICES ASSUME m = n, s[n].left = 1 PROVE FALSE
        OBVIOUS
      <4>2. Owed(s[n])' = {}
        <5>1. Cardinality(Owed(s[n])') = 0
          BY <1>18, <4>1
        <5>2. QED
          BY <1>18, <5>1, FS_EmptySet
      <4>3. PipeOf(q)' = j /\ Line(PipeOf(q))' = Line(j)
        <5>1. PipeOf(q)' = j
          BY <1>1, <3>3, PipesSame
        <5>2. QED
          BY <2>1, <5>1 DEF Line
      <4>4. LeftOf(PipeOf(q), k)' = LeftOf(j, k)'
        BY <2>1, <4>3 DEF LeftOf
      <4>5. Debt(q, e.dst[q])'
        BY <2>3, <3>1, <4>3, <4>4 DEF Debt
      <4>6. q \in Owed(s[n])'
        BY <3>3, <4>1, <4>5 DEF Owed, Writes
      <4>7. QED
        BY <4>2, <4>6
    <3>5. PICK x \in 1 .. Len(t) : f[x] = m
      BY <1>9, <3>4
    <3>6. Part(j, t[x], e)'
      <4>1. /\ t[x].raw = s[m].raw /\ t[x].seq = s[m].seq
            /\ t[x].dst = s[m].dst /\ t[x].fake = s[m].fake
        BY <1>10, <3>5
      <4>2. Hold(s[m].dst, s[m].seq)' = Hold(s[m].dst, s[m].seq) /\ Hold(e.dst, e.seq)' = Hold(e.dst, e.seq)
        BY <1>1, SameHold
      <4>3. PortsOf(j)' = PortsOf(j)
        BY <1>1, PipesSame
      <4>4. PICK u : u = t[x]
        OBVIOUS
      <4>5. Gives(u)' <=> Gives(s[m])
        BY <4>1, <4>2, <4>4 DEF Gives
      <4>6. Gives(e)' <=> Gives(e)
        BY <4>2 DEF Gives
      <4>7. Part(j, u, e)'
        BY <3>2, <4>1, <4>3, <4>4, <4>5, <4>6 DEF Part
      <4>8. QED
        BY <1>7, <4>4, <4>7 DEF Part, Gives
    <3>7. t[x] \in ToSet(t)
      BY <1>11 DEF ToSet
    <3>8. QED
      BY <3>6, <3>7
  <2>5. PortsOf(j)' = PortsOf(j)
    BY <1>1, PipesSame
  <2>6. QED
    BY <1>7, <2>1, <2>3, <2>4, <2>5 DEF EntryOK, Writes, Part, Gives
<1>22. ASSUME NEW q \in Ports, NEW x, Upto(q, x) PROVE Upto(q, x)'
  <2>1. PICK j \in Pipes : j = PipeOf(q)
    BY PipeIn
  <2>2. \A k \in 1 .. Len(Line(j)) : Line(j)[k].dst[q] <= x
    BY <1>1, <1>22, <2>1, UptoIs
  <2>3. ASSUME NEW u \in ToSet(t) PROVE u.dst[q] <= x
    <3>1. PICK k \in 1 .. Len(t) : u = t[k]
      BY <1>11 DEF ToSet
    <3>2. u.dst = s[f[k]].dst /\ s[f[k]] \in ToSet(s)
      BY <1>10, <1>11, <3>1 DEF ToSet
    <3>3. QED
      BY <1>1, <1>6, <1>22, <2>1, <3>2, UptoIs
  <2>4. QED
    BY <1>1, <1>4, <1>7, <2>1, <2>2, <2>3, UptoIs
<1>23. QED
  BY <1>4, <1>20, <1>21, <1>22 DEF LineOK

-----------------------------------------------------------------------------
(* A task is added.                                                        *)

LEMMA SettingOfRow ==
    ASSUME NEW dst, NEW r, \A p \in Ports : dst[p] \in {None, r}, \E p \in Ports : dst[p] # None
    PROVE  Setting(dst) = requests[r].setting
<1> DEFINE some == {p \in Ports : dst[p] # None}
<1>1. some # {} /\ some \subseteq Nat
  BY PortsFinite
<1>2. \E p \in some : \A q \in some : p <= q
  BY <1>1, LeastOf
<1>3. PICK p \in some : p = CHOOSE x \in some : \A q \in some : x <= q
  BY <1>2
<1>4. dst[p] = r
  BY <1>3
<1>5. QED
  BY <1>1, <1>3, <1>4 DEF Setting

(* The part of the new task for a pipe.                                    *)
PieceOf(i) == [NewTask EXCEPT !.dst = Only(PortsOf(i), NewTask.dst)]

LEMMA PieceIs ==
    ASSUME NewTask \in Tasks, NEW i
    PROVE  /\ PieceOf(i) \in Tasks
           /\ PieceOf(i).raw = NewTask.raw /\ PieceOf(i).seq = NewTask.seq
           /\ PieceOf(i).fake = NewTask.fake /\ PieceOf(i).dst = Only(PortsOf(i), NewTask.dst)
           /\ \A p \in Ports : PieceOf(i).dst[p] = IF PipeOf(p) = i THEN NewTask.dst[p] ELSE None
<1>1. PICK e : e = NewTask
  OBVIOUS
<1>2. PICK d : d = Only(PortsOf(i), NewTask.dst)
  OBVIOUS
<1>3. d \in Asked
  <2>1. NewTask.dst \in Asked
    BY DEF Tasks
  <2>2. QED
    BY <1>2, <2>1, OnlyAsked
<1>4. PICK u : u = [e EXCEPT !.dst = d]
  OBVIOUS
<1>5. u \in Tasks /\ u.raw = e.raw /\ u.seq = e.seq /\ u.fake = e.fake /\ u.dst = d
  BY <1>1, <1>3, <1>4 DEF Tasks
<1>6. u = PieceOf(i)
  BY <1>1, <1>2, <1>4 DEF PieceOf
<1>7. \A p \in Ports : d[p] = IF PipeOf(p) = i THEN NewTask.dst[p] ELSE None
  BY <1>2 DEF Only, PortsOf
<1>8. QED
  BY <1>1, <1>2, <1>5, <1>6, <1>7

LEMMA AppendIs ==
    ASSUME NEW S, NEW a \in Seq(S), NEW b \in Seq(S), NEW e \in S
    PROVE  /\ Len(a \o Append(b, e)) = Len(a \o b) + 1 /\ Len(a \o b) \in Nat
           /\ (a \o Append(b, e))[Len(a \o b) + 1] = e
           /\ \A k \in 1 .. Len(a \o b) : (a \o Append(b, e))[k] = (a \o b)[k]
<1>1. PICK c \in Seq(S) : c = a \o b
  BY ConcatProperties
<1>2. a \o Append(b, e) = Append(c, e)
  <2>1. <<e>> \in Seq(S)
    OBVIOUS
  <2>2. Append(b, e) = b \o <<e>> /\ Append(c, e) = c \o <<e>>
    BY AppendIsConcat
  <2>3. a \o (b \o <<e>>) = (a \o b) \o <<e>>
    BY <2>1, ConcatAssociative
  <2>4. QED
    BY <1>1, <2>2, <2>3
<1>3. /\ Len(Append(c, e)) = Len(c) + 1 /\ Len(c) \in Nat /\ Append(c, e)[Len(c) + 1] = e
      /\ \A k \in 1 .. Len(c) : Append(c, e)[k] = c[k]
  OBVIOUS
<1>4. QED
  BY <1>1, <1>2, <1>3

LEMMA AddLines ==
    ASSUME UnitTypeOK, LineTypeOK, AddTask
    PROVE  /\ LineTypeOK'
           /\ \A i \in Pipes :
                /\ Len(Line(i)) \in Nat
                /\ Len(Line(i)') = Len(Line(i)) + (IF i \in Active(NewTask) THEN 1 ELSE 0)
                /\ \A k \in 1 .. Len(Line(i)) :
                     Line(i)'[k] = Line(i)[k] /\ LeftOf(i, k)' = LeftOf(i, k)
                /\ \A m : i \in Active(NewTask) /\ m = Len(Line(i)) + 1 =>
                     Line(i)'[m] = PieceOf(i) /\ LeftOf(i, m)' = Writes(PieceOf(i))
<1>1. /\ UNCHANGED <<requests, mStageTaskList, poll>>
      /\ stageQueue' = [i \in Pipes |-> IF i \in Active(NewTask)
                                        THEN Append(stageQueue[i], PieceOf(i)) ELSE stageQueue[i]]
  BY DEF AddTask, asked, NewTask, PieceOf
<1>2. NewTask \in Tasks /\ UNCHANGED Tasks
  BY <1>1, AddExact, SameAsked
<1>3. PICK T : T = Tasks
  OBVIOUS
<1>4. LineTypeOK'
  <2>1. ASSUME NEW i \in Pipes PROVE stageQueue'[i] \in Seq(T)
    <3>1. PieceOf(i) \in T /\ stageQueue[i] \in Seq(T)
      BY <1>2, <1>3, PieceIs DEF LineTypeOK
    <3>2. PICK e \in T : e = PieceOf(i)
      BY <3>1
    <3>3. PICK b \in Seq(T) : b = stageQueue[i]
      BY <3>1
    <3>4. Append(b, e) \in Seq(T)
      OBVIOUS
    <3>5. stageQueue'[i] = IF i \in Active(NewTask) THEN Append(b, e) ELSE b
      BY <1>1, <3>2, <3>3
    <3>6. QED
      BY <3>4, <3>5
  <2>2. stageQueue' \in [Pipes -> Seq(T)]
    BY <1>1, <2>1
  <2>3. QED
    BY <1>1, <1>2, <1>3, <2>2 DEF LineTypeOK, Writes
<1>5. ASSUME NEW i \in Pipes
      PROVE  /\ Len(Line(i)) \in Nat
             /\ Len(Line(i)') = Len(Line(i)) + (IF i \in Active(NewTask) THEN 1 ELSE 0)
             /\ \A k \in 1 .. Len(Line(i)) : Line(i)'[k] = Line(i)[k]
             /\ i \in Active(NewTask) => Line(i)'[Len(Line(i)) + 1] = PieceOf(i)
  <2>1. PICK a \in Seq(T) : a = mStageTaskList[i]
    BY <1>3 DEF LineTypeOK
  <2>2. PICK b \in Seq(T) : b = stageQueue[i]
    BY <1>3 DEF LineTypeOK
  <2>3. PICK e \in T : e = PieceOf(i)
    BY <1>2, <1>3, PieceIs
  <2>4. PICK c : c = Line(i)
    OBVIOUS
  <2>5. PICK d : d = Line(i)'
    OBVIOUS
  <2>6. c = a \o b /\ d = a \o (IF i \in Active(NewTask) THEN Append(b, e) ELSE b)
    BY <1>1, <2>1, <2>2, <2>3, <2>4, <2>5 DEF Line
  <2>7. Len(c) \in Nat
    BY <2>4, LineIs
  <2>8. CASE i \in Active(NewTask)
    <3>1. d = a \o Append(b, e)
      BY <2>6, <2>8
    <3>2. /\ Len(d) = Len(c) + 1 /\ d[Len(c) + 1] = e
          /\ \A k \in 1 .. Len(c) : d[k] = c[k]
      BY <2>6, <3>1, AppendIs
    <3>3. QED
      BY <2>3, <2>4, <2>5, <2>7, <2>8, <3>2
  <2>9. CASE i \notin Active(NewTask)
    <3>1. d = c
      BY <2>6, <2>9
    <3>2. QED
      BY <2>4, <2>5, <2>7, <2>9, <3>1
  <2>10. QED
    BY <2>8, <2>9
<1>6. ASSUME NEW i \in Pipes, NEW k \in 1 .. Len(Line(i)) PROVE LeftOf(i, k)' = LeftOf(i, k)
  BY <1>1, <1>5 DEF LeftOf, Writes
<1>7. ASSUME NEW i \in Pipes, i \in Active(NewTask), NEW m, m = Len(Line(i)) + 1
      PROVE  LeftOf(i, m)' = Writes(PieceOf(i))
  <2>1. ~(Len(Line(i)) + 1 = 1 /\ poll[i].pc # "idle")
    <3>1. poll[i].pc # "idle" => mStageTaskList[i] # <<>>
      BY DEF LineTypeOK
    <3>2. mStageTaskList[i] # <<>> => 1 \in 1 .. Len(Line(i))
      BY HeadOfLine
    <3>3. Len(Line(i)) \in Nat
      BY <1>5
    <3>4. QED
      BY <3>1, <3>2, <3>3
  <2>3. Line(i)'[m] = PieceOf(i) /\ ~(m = 1 /\ poll'[i].pc # "idle")
    BY <1>1, <1>5, <1>7, <2>1
  <2>4. LeftOf(i, m)' = Writes(Line(i)[m])'
    BY <2>3 DEF LeftOf
  <2>5. Writes(Line(i)[m])' = Writes(PieceOf(i))
    BY <2>3 DEF Writes
  <2>6. QED
    BY <2>4, <2>5
<1>8. QED
  BY <1>4, <1>5, <1>6, <1>7

(* No entry and no task before it writes what the new task writes.         *)
NewWrites ==
    \A p \in Writes(NewTask) :
       /\ PipeOf(p) \in Active(NewTask)
       /\ NewTask.dst[p] = Taken /\ Taken \in Nat \ {0}
       /\ \A k \in 1 .. Len(Line(PipeOf(p))) : Line(PipeOf(p))[k].dst[p] # NewTask.dst[p]
       /\ \A k \in DOMAIN mOngoingTasks : mOngoingTasks[k].dst[p] # NewTask.dst[p]

LEMMA NewWritesNew ==
    ASSUME UnitTypeOK, TodoRowOK, FreshOK, RowOK, AddTask
    PROVE  /\ NewWrites /\ NewTask.fake = FALSE
           /\ \A p \in Ports : NewTask.dst[p] \in {None, Taken}
           /\ Taken \in Nat \ {0}
           /\ Writes(NewTask) = Writes(pt.todo[1]) /\ NewTask.left = Cardinality(Writes(NewTask))
<1>1. pt.pc = "add" /\ pt.pc \in Runs
  BY DEF AddTask, Runs
<1>2. /\ 1 \in 1 .. Len(pt.todo) /\ Head(pt.todo) = pt.todo[1]
  <2>1. pt.todo \in Seq(Jobs) /\ pt.todo # <<>>
    BY <1>1 DEF UnitTypeOK, PtTypeOK, TodoOK
  <2>2. QED
    BY <2>1, HeadTailIs
<1>3. PICK r \in Nat \ {0} : r = Taken
  BY <1>1 DEF RowOK
<1>4. OfRow(pt.todo[1], r) /\ pt.todo[1].kind # "fake"
  BY <1>1, <1>2, <1>3 DEF TodoRowOK
<1>5. NewTask.dst = pt.todo[1].dst /\ NewTask.fake = FALSE
  BY <1>2, <1>4 DEF NewTask
<1>6. \A p \in Ports : NewTask.dst[p] \in {None, r}
  BY <1>4, <1>5 DEF OfRow
<1>7. Writes(NewTask) = Writes(pt.todo[1]) /\ NewTask.left = Cardinality(Writes(NewTask))
  <2>1. Writes(NewTask) = Writes(pt.todo[1])
    BY <1>5 DEF Writes
  <2>2. NewTask.left = Cardinality(Writes(Head(pt.todo)))
    BY DEF NewTask
  <2>3. QED
    BY <1>2, <2>1, <2>2
<1>8. ASSUME NEW p \in Writes(NewTask)
      PROVE  /\ PipeOf(p) \in Active(NewTask)
             /\ NewTask.dst[p] = r
             /\ \A k \in 1 .. Len(Line(PipeOf(p))) : Line(PipeOf(p))[k].dst[p] # NewTask.dst[p]
             /\ \A k \in DOMAIN mOngoingTasks : mOngoingTasks[k].dst[p] # NewTask.dst[p]
  <2>1. p \in Ports /\ NewTask.dst[p] # None
    BY DEF Writes
  <2>2. NewTask.dst[p] = r /\ PipeOf(p) \in Active(NewTask)
    BY <1>6, <2>1 DEF Active
  <2>3. Upto(p, r - 1)
    BY <1>1, <1>2, <1>3, <1>7 DEF FreshOK
  <2>4. \A x : x <= r - 1 => x # r
    OBVIOUS
  <2>5. ASSUME NEW k \in 1 .. Len(Line(PipeOf(p))) PROVE Line(PipeOf(p))[k].dst[p] # NewTask.dst[p]
    BY <2>2, <2>3, <2>4 DEF Upto
  <2>6. ASSUME NEW k \in DOMAIN mOngoingTasks PROVE mOngoingTasks[k].dst[p] # NewTask.dst[p]
    BY <2>2, <2>3, <2>4 DEF Upto, ToSet
  <2>7. QED
    BY <2>2, <2>5, <2>6
<1>9. QED
  BY <1>3, <1>5, <1>6, <1>7, <1>8 DEF NewWrites

LEMMA AddDebt ==
    ASSUME UnitTypeOK, LineTypeOK, AddTask, scenario \in Scenarios, NEW q \in Ports, NEW x
    PROVE  Debt(q, x)' <=> Debt(q, x) \/ (q \in Writes(NewTask) /\ x = NewTask.dst[q])
<1>1. UNCHANGED scenario /\ NewTask \in Tasks
  BY AddExact DEF AddTask
<1>2. PICK i \in Pipes : i = PipeOf(q)
  BY PipeIn
<1>3. /\ Debt(q, x) <=> \E k \in 1 .. Len(Line(i)) : q \in LeftOf(i, k) /\ Line(i)[k].dst[q] = x
      /\ Debt(q, x)' <=> \E k \in 1 .. Len(Line(i)') : q \in LeftOf(i, k)' /\ Line(i)'[k].dst[q] = x
  BY <1>1, <1>2, DebtIs
<1>4. PICK c \in Nat : c = Len(Line(i))
  BY AddLines
<1>5. /\ Len(Line(i)') = c + (IF i \in Active(NewTask) THEN 1 ELSE 0)
      /\ \A k \in 1 .. c : Line(i)'[k] = Line(i)[k] /\ LeftOf(i, k)' = LeftOf(i, k)
      /\ i \in Active(NewTask) =>
           Line(i)'[c + 1] = PieceOf(i) /\ LeftOf(i, c + 1)' = Writes(PieceOf(i))
  <2>1. \A m : i \in Active(NewTask) /\ m = c + 1 =>
           Line(i)'[m] = PieceOf(i) /\ LeftOf(i, m)' = Writes(PieceOf(i))
    BY <1>4, AddLines
  <2>2. PICK m : m = c + 1
    OBVIOUS
  <2>3. i \in Active(NewTask) => Line(i)'[m] = PieceOf(i) /\ LeftOf(i, m)' = Writes(PieceOf(i))
    BY <2>1, <2>2
  <2>4. QED
    BY <1>4, <2>2, <2>3, AddLines
<1>6. PieceOf(i).dst[q] = NewTask.dst[q] /\ (q \in Writes(PieceOf(i)) <=> q \in Writes(NewTask))
  BY <1>1, <1>2, PieceIs DEF Writes
<1>7. q \in Writes(NewTask) => i \in Active(NewTask)
  BY <1>2 DEF Active
<1>8. ASSUME Debt(q, x)', ~Debt(q, x) PROVE q \in Writes(NewTask) /\ x = NewTask.dst[q]
  <2>1. PICK k \in 1 .. Len(Line(i)') : q \in LeftOf(i, k)' /\ Line(i)'[k].dst[q] = x
    BY <1>3, <1>8
  <2>2. k \notin 1 .. c
    BY <1>3, <1>4, <1>5, <1>8, <2>1
  <2>3. i \in Active(NewTask) /\ k = c + 1
    BY <1>5, <2>1, <2>2
  <2>4. QED
    BY <1>5, <1>6, <2>1, <2>3
<1>9. ASSUME Debt(q, x) PROVE Debt(q, x)'
  <2>1. PICK k \in 1 .. c : q \in LeftOf(i, k) /\ Line(i)[k].dst[q] = x
    BY <1>3, <1>4, <1>9
  <2>2. k \in 1 .. Len(Line(i)')
    BY <1>5
  <2>3. QED
    BY <1>3, <1>5, <2>1, <2>2
<1>10. ASSUME q \in Writes(NewTask), x = NewTask.dst[q] PROVE Debt(q, x)'
  <2>1. PICK m : m = c + 1
    OBVIOUS
  <2>2. m \in 1 .. Len(Line(i)') /\ q \in LeftOf(i, m)' /\ Line(i)'[m].dst[q] = x
    BY <1>5, <1>6, <1>7, <1>10, <2>1
  <2>3. QED
    BY <1>3, <2>2
<1>11. QED
  BY <1>8, <1>9, <1>10

(* Where a task was put in the list.                                       *)
LEMMA AddedTasks ==
    ASSUME UnitTypeOK, AddTask
    PROVE  /\ mOngoingTasks \in Seq(Tasks)
           /\ \E n \in 1 .. Len(mOngoingTasks) + 1 :
                /\ DOMAIN mOngoingTasks' = 1 .. Len(mOngoingTasks) + 1
                /\ mOngoingTasks'[n] = NewTask
                /\ \A k \in 1 .. n - 1 : mOngoingTasks'[k] = mOngoingTasks[k]
                /\ \A k \in n .. Len(mOngoingTasks) : mOngoingTasks'[k + 1] = mOngoingTasks[k]
<1>1. PICK s \in Seq(Tasks) : s = mOngoingTasks
  BY DEF UnitTypeOK, TaskTypeOK
<1>2. PICK e \in Tasks : e = NewTask
  BY AddExact
<1>3. PICK n \in 1 .. Len(s) + 1 : mOngoingTasks' = InsertAt(s, n, e)
  BY <1>1, <1>2, AddExact
<1>4. PICK t : t = InsertAt(s, n, e)
  OBVIOUS
<1>5. t \in Seq(Tasks) /\ Len(t) = Len(s) + 1 /\ t[n] = e
  BY <1>4, InsertAtIs
<1>6. \A k \in 1 .. n - 1 : t[k] = s[k]
  BY <1>4, InsertAtIs
<1>7. \A k \in n .. Len(s) : t[k + 1] = s[k]
  BY <1>4, InsertAtIs
<1>8. DOMAIN t = 1 .. Len(s) + 1
  BY <1>5
<1>9. QED
  BY <1>1, <1>2, <1>3, <1>4, <1>5, <1>6, <1>7, <1>8

LEMMA AddTaskOK ==
    ASSUME UnitTypeOK, LineTypeOK, TaskOK, AddTask, scenario \in Scenarios,
           NewWrites, NewTask.left = Cardinality(Writes(NewTask))
    PROVE  TaskOK'
<1>1. PICK s \in Seq(Tasks) : s = mOngoingTasks
  BY AddedTasks
<1>2. PICK t : t = mOngoingTasks'
  OBVIOUS
<1>3. PICK e : e = NewTask
  OBVIOUS
<1>4. Len(s) \in Nat /\ DOMAIN s = 1 .. Len(s)
  OBVIOUS
<1>5. PICK n \in 1 .. Len(s) + 1 :
         /\ DOMAIN t = 1 .. Len(s) + 1 /\ t[n] = e
         /\ \A k \in 1 .. n - 1 : t[k] = s[k]
         /\ \A k \in n .. Len(s) : t[k + 1] = s[k]
  BY <1>1, <1>2, <1>3, AddedTasks
<1> DEFINE h(k) == IF k < n THEN k ELSE k - 1
<1>6. ASSUME NEW k \in DOMAIN t, k # n PROVE h(k) \in DOMAIN s /\ t[k] = s[h(k)]
  <2>1. CASE k < n
    <3>1. k \in 1 .. n - 1 /\ k \in 1 .. Len(s) /\ h(k) = k
      BY <1>4, <1>5, <2>1
    <3>2. QED
      BY <1>4, <1>5, <3>1
  <2>2. CASE k > n
    <3>1. k - 1 \in n .. Len(s) /\ k - 1 \in 1 .. Len(s) /\ h(k) = k - 1 /\ (k - 1) + 1 = k
      BY <1>4, <1>5, <2>2
    <3>2. t[k] = s[k - 1]
      BY <1>5, <3>1
    <3>3. QED
      BY <1>4, <3>1, <3>2
  <2>3. k < n \/ k > n
    BY <1>4, <1>5, <1>6
  <2>4. QED
    BY <2>1, <2>2, <2>3
<1>7. ASSUME NEW j \in DOMAIN t, NEW k \in DOMAIN t, j # n, k # n, h(j) = h(k) PROVE j = k
  BY <1>4, <1>5, <1>7
<1> HIDE DEF h
<1>8. ASSUME NEW q \in Ports, NEW x
      PROVE  Debt(q, x)' <=> Debt(q, x) \/ (q \in Writes(e) /\ x = e.dst[q])
  BY <1>3, AddDebt
<1>9. \A q \in Writes(e) : \A k \in DOMAIN s : s[k].dst[q] # e.dst[q]
  BY <1>1, <1>3 DEF NewWrites
<1>10. ASSUME NEW k \in DOMAIN s PROVE s[k].left = Cardinality(Owed(s[k])')
  <2>1. s[k].left = Cardinality(Owed(s[k]))
    BY <1>1 DEF TaskOK, ToSet
  <2>2. Owed(s[k])' = Owed(s[k])
    BY <1>8, <1>9 DEF Owed, Writes
  <2>3. QED
    BY <2>1, <2>2
<1>11. Owed(e)' = Writes(e)
  BY <1>8 DEF Owed, Writes
<1>12. \A k \in DOMAIN t : t[k].left = Cardinality(Owed(t[k])')
  <2>1. ASSUME NEW k \in DOMAIN t PROVE t[k].left = Cardinality(Owed(t[k])')
    <3>0. PICK u : u = t[k]
      OBVIOUS
    <3>1. CASE k = n
      <4>1. u = e
        BY <1>5, <3>0, <3>1
      <4>2. Owed(t[k])' = Owed(e)'
        BY <1>2, <3>0, <4>1 DEF Owed, Writes, Debt
      <4>3. QED
        BY <1>3, <1>11, <3>0, <4>1, <4>2
    <3>2. CASE k # n
      <4>1. PICK j \in DOMAIN s : j = h(k) /\ u = s[j]
        BY <1>6, <3>0, <3>2
      <4>2. PICK v : v = s[j]
        OBVIOUS
      <4>3. v.left = Cardinality(Owed(v)')
        <5>1. Owed(s[j])' = Owed(v)'
          BY <4>2 DEF Owed, Writes, Debt
        <5>2. QED
          BY <1>10, <4>2, <5>1
      <4>4. Owed(t[k])' = Owed(v)'
        BY <1>2, <3>0, <4>1, <4>2 DEF Owed, Writes, Debt
      <4>5. QED
        BY <3>0, <4>1, <4>2, <4>3, <4>4
    <3>3. QED
      BY <3>1, <3>2
  <2>2. QED
    BY <2>1
<1>13. ASSUME NEW j \in DOMAIN t, NEW k \in DOMAIN t, NEW q \in Ports, t[k].dst[q] # None,
              t[j].dst[q] = t[k].dst[q]
       PROVE  j = k
  <2>1. CASE j = n /\ k = n
    BY <2>1
  <2>2. CASE j = n /\ k # n
    <3>1. PICK m \in DOMAIN s : t[k] = s[m]
      BY <1>6, <2>2
    <3>2. t[j] = e
      BY <1>5, <2>2
    <3>3. q \in Writes(e) /\ s[m].dst[q] = e.dst[q]
      BY <1>13, <3>1, <3>2 DEF Writes
    <3>4. QED
      BY <1>9, <3>3
  <2>3. CASE j # n /\ k = n
    <3>1. PICK m \in DOMAIN s : t[j] = s[m]
      BY <1>6, <2>3
    <3>2. t[k] = e
      BY <1>5, <2>3
    <3>3. q \in Writes(e) /\ s[m].dst[q] = e.dst[q]
      BY <1>13, <3>1, <3>2 DEF Writes
    <3>4. QED
      BY <1>9, <3>3
  <2>4. CASE j # n /\ k # n
    <3>1. PICK m \in DOMAIN s : m = h(j) /\ t[j] = s[m]
      BY <1>6, <2>4
    <3>2. PICK l \in DOMAIN s : l = h(k) /\ t[k] = s[l]
      BY <1>6, <2>4
    <3>3. q \in Writes(s[l]) /\ s[m].dst[q] = s[l].dst[q]
      BY <1>13, <3>1, <3>2 DEF Writes
    <3>4. m = l
      BY <1>1, <3>3 DEF TaskOK
    <3>5. QED
      BY <1>7, <2>4, <3>1, <3>2, <3>4
  <2>5. QED
    BY <2>1, <2>2, <2>3, <2>4
<1>14. \A u \in ToSet(t) : u.left = Cardinality(Owed(u)')
  <2>1. ASSUME NEW u \in ToSet(t) PROVE u.left = Cardinality(Owed(u)')
    <3>1. PICK k \in DOMAIN t : u = t[k]
      BY DEF ToSet
    <3>2. Owed(t[k])' = Owed(u)'
      BY <1>2, <3>1 DEF Owed, Writes, Debt
    <3>3. QED
      BY <1>12, <3>1, <3>2
  <2>2. QED
    BY <2>1
<1>15. \A j, k \in DOMAIN t : \A q \in Writes(t[k])' : t[j].dst[q] = t[k].dst[q] => j = k
  BY <1>2, <1>13 DEF Writes
<1>16. QED
  BY <1>2, <1>14, <1>15 DEF TaskOK, Writes

LEMMA AddLineOK ==
    ASSUME UnitTypeOK, LineTypeOK, LineOK, AddTask, scenario \in Scenarios, NewWrites,
           \A p \in Ports : NewTask.dst[p] \in {None, Taken}
    PROVE  LineOK'
<1>1. UNCHANGED <<scenario, requests>> /\ NewTask \in Tasks
  BY AddExact DEF AddTask, asked
<1>2. PICK e : e = NewTask
  OBVIOUS
<1>3. e \in ToSet(mOngoingTasks') /\ ToSet(mOngoingTasks) \subseteq ToSet(mOngoingTasks')
  <2>1. /\ \E k \in DOMAIN mOngoingTasks' : mOngoingTasks'[k] = e
        /\ \A j \in DOMAIN mOngoingTasks :
             \E k \in DOMAIN mOngoingTasks' : mOngoingTasks'[k] = mOngoingTasks[j]
    BY <1>2, AddTypes
  <2>2. QED
    BY <2>1 DEF ToSet
<1>4. ASSUME NEW t, NEW v, NEW i, Part(i, t, v) PROVE Part(i, t, v)'
  <2>1. \A d, x : Hold(d, x)' = Hold(d, x)
    BY <1>1, SameHold
  <2>2. PortsOf(i)' = PortsOf(i)
    BY <1>1, PipesSame
  <2>3. QED
    BY <1>4, <2>1, <2>2 DEF Part, Gives
<1>5. ASSUME NEW i \in Pipes, NEW k \in 1 .. Len(Line(i)') PROVE EntryOK(i, k)'
  <2>1. PICK c \in Nat : c = Len(Line(i))
    BY AddLines
  <2>2. /\ Len(Line(i)') = c + (IF i \in Active(e) THEN 1 ELSE 0)
        /\ \A m \in 1 .. c : Line(i)'[m] = Line(i)[m] /\ LeftOf(i, m)' = LeftOf(i, m)
        /\ i \in Active(e) => Line(i)'[c + 1] = PieceOf(i)
    <3>1. \A m : i \in Active(NewTask) /\ m = c + 1 => Line(i)'[m] = PieceOf(i)
      BY <2>1, AddLines
    <3>2. QED
      BY <1>2, <2>1, <3>1, AddLines
  <2>3. PortsOf(i)' = PortsOf(i)
    BY <1>1, PipesSame
  <2>4. PICK pc : pc = PieceOf(i)
    OBVIOUS
  <2>5. /\ pc.raw = e.raw /\ pc.seq = e.seq /\ pc.fake = e.fake /\ pc.dst = Only(PortsOf(i), e.dst)
        /\ \A p \in Ports : pc.dst[p] = IF PipeOf(p) = i THEN e.dst[p] ELSE None
    BY <1>1, <1>2, <2>4, PieceIs
  <2>6. ASSUME NEW p \in Writes(pc), NEW m \in 1 .. c PROVE Line(i)[m].dst[p] # pc.dst[p]
    <3>1. p \in Writes(NewTask) /\ PipeOf(p) = i /\ pc.dst[p] = NewTask.dst[p]
      BY <1>2, <2>5 DEF Writes
    <3>2. QED
      BY <2>1, <3>1 DEF NewWrites
  <2>7. k \in 1 .. c \/ (k = c + 1 /\ i \in Active(e))
    BY <2>1, <2>2
  <2>8. CASE k \in 1 .. c
    <3>1. PICK v : v = Line(i)[k]
      OBVIOUS
    <3>2. Line(i)'[k] = v /\ LeftOf(i, k)' = LeftOf(i, k) /\ EntryOK(i, k)
      BY <2>1, <2>2, <2>8, <3>1 DEF LineOK
    <3>3. Writes(v) # {} /\ Writes(v) \subseteq PortsOf(i)
      BY <3>1, <3>2 DEF EntryOK
    <3>4. ASSUME NEW j \in 1 .. Len(Line(i)'), NEW p \in Writes(v), Line(i)'[j].dst[p] = v.dst[p]
          PROVE  j = k
      <4>1. CASE j \in 1 .. c
        <5>1. Line(i)[j].dst[p] = Line(i)[k].dst[p]
          BY <2>2, <3>1, <3>4, <4>1
        <5>2. QED
          BY <2>1, <3>1, <3>2, <4>1, <5>1 DEF EntryOK
      <4>2. CASE j \notin 1 .. c
        <5>1. j = c + 1 /\ i \in Active(e)
          BY <2>1, <2>2, <4>2
        <5>2. pc.dst[p] = v.dst[p]
          BY <2>2, <2>4, <3>4, <5>1
        <5>3. p \in Writes(pc)
          BY <5>2 DEF Writes
        <5>4. QED
          BY <2>6, <2>8, <3>1, <5>2, <5>3
      <4>3. QED
        BY <4>1, <4>2
    <3>5. ASSUME LeftOf(i, k)' # {} PROVE \E t \in ToSet(mOngoingTasks') : Part(i, t, v)'
      <4>1. PICK t \in ToSet(mOngoingTasks) : Part(i, t, v)
        BY <3>1, <3>2, <3>5 DEF EntryOK
      <4>2. QED
        BY <1>3, <1>4, <4>1
    <3>6. QED
      BY <2>3, <3>2, <3>3, <3>4, <3>5 DEF EntryOK, Writes, Part, Gives
  <2>9. CASE k = c + 1 /\ i \in Active(e)
    <3>1. Line(i)'[k] = pc
      BY <2>2, <2>4, <2>9
    <3>2. PICK q \in Writes(e) : PipeOf(q) = i
      BY <2>9 DEF Active
    <3>3. q \in Ports /\ pc.dst[q] = e.dst[q] /\ e.dst[q] # None
      BY <2>5, <3>2 DEF Writes
    <3>4. q \in Writes(pc) /\ Writes(pc) \subseteq PortsOf(i)
      BY <2>5, <3>3 DEF Writes, PortsOf
    <3>5. ASSUME NEW j \in 1 .. Len(Line(i)'), NEW p \in Writes(pc), Line(i)'[j].dst[p] = pc.dst[p]
          PROVE  j = k
      <4>1. j \notin 1 .. c
        BY <2>2, <2>6, <3>5
      <4>2. QED
        BY <2>1, <2>2, <2>9, <4>1
    <3>6. Part(i, e, pc)
      <4>1. ASSUME Gives(pc) PROVE Gives(e)
        <5>1. PICK r : r = Taken
          OBVIOUS
        <5>2. \A p \in Ports : e.dst[p] \in {None, r}
          BY <1>2, <5>1
        <5>3. \A p \in Ports : pc.dst[p] \in {None, r}
          BY <2>5, <5>2
        <5>4. Setting(e.dst) = requests[r].setting
          BY <3>3, <5>2, SettingOfRow
        <5>5. Setting(pc.dst) = requests[r].setting
          BY <3>3, <5>3, SettingOfRow
        <5>6. QED
          BY <2>5, <4>1, <5>4, <5>5 DEF Gives, Hold
      <4>2. QED
        BY <2>5, <4>1 DEF Part
    <3>7. Part(i, e, pc)'
      BY <1>4, <3>6
    <3>8. QED
      BY <1>3, <2>3, <3>1, <3>4, <3>5, <3>7 DEF EntryOK, Writes, Part, Gives
  <2>10. QED
    BY <2>7, <2>8, <2>9
<1>6. QED
  BY <1>5 DEF LineOK

-----------------------------------------------------------------------------
(* The rows after those taken are fresh.                                   *)

LEMMA DstTyped ==
    ASSUME LineTypeOK, TaskTypeOK, scenario \in Scenarios, NEW p \in Ports
    PROVE  /\ \A k \in 1 .. Len(Line(PipeOf(p))) : Line(PipeOf(p))[k].dst[p] \in 0 .. Len(requests)
           /\ \A t \in ToSet(mOngoingTasks) : t.dst[p] \in 0 .. Len(requests)
<1>1. PICK i \in Pipes : i = PipeOf(p)
  BY PipeIn
<1>2. PICK s \in Seq(Tasks) : s = Line(i)
  BY LineIs
<1>3. ASSUME NEW t \in Tasks PROVE t.dst[p] \in 0 .. Len(requests)
  <2>1. t.dst \in Asked
    BY DEF Tasks
  <2>2. QED
    BY <2>1 DEF Asked
<1>4. \A k \in 1 .. Len(s) : s[k] \in Tasks
  OBVIOUS
<1>5. \A t \in ToSet(mOngoingTasks) : t \in Tasks
  BY DEF ToSet, TaskTypeOK
<1>6. QED
  BY <1>1, <1>2, <1>3, <1>4, <1>5

LEMMA UptoGrows ==
    ASSUME LineTypeOK, TaskTypeOK, scenario \in Scenarios, NEW p \in Ports,
           NEW r \in Int, NEW q \in Int, r <= q, Upto(p, r)
    PROVE  Upto(p, q)
<1>1. PICK n : n = Len(requests)
  OBVIOUS
<1>2. /\ \A k \in 1 .. Len(Line(PipeOf(p))) : Line(PipeOf(p))[k].dst[p] \in 0 .. n
      /\ \A t \in ToSet(mOngoingTasks) : t.dst[p] \in 0 .. n
  BY <1>1, DstTyped
<1>3. \A x \in 0 .. n : x \in Int
  OBVIOUS
<1>4. \A x \in Int : x <= r => x <= q
  OBVIOUS
<1>5. QED
  BY <1>2, <1>3, <1>4 DEF Upto

LEMMA AddUpto ==
    ASSUME UnitTypeOK, LineTypeOK, AddTask, scenario \in Scenarios,
           \A q \in Ports : NewTask.dst[q] \in {None, Taken},
           NEW p \in Ports, NEW x \in Nat, Upto(p, x), p \in Writes(NewTask) => Taken <= x
    PROVE  Upto(p, x)'
<1>1. UNCHANGED scenario /\ NewTask \in Tasks
  BY AddExact DEF AddTask
<1>2. PICK i \in Pipes : i = PipeOf(p)
  BY PipeIn
<1>3. PICK e : e = NewTask
  OBVIOUS
<1>4. e.dst[p] <= x
  <2>1. CASE e.dst[p] = None
    BY <2>1 DEF None
  <2>2. CASE e.dst[p] # None
    BY <1>3, <2>2 DEF Writes
  <2>3. QED
    BY <2>1, <2>2
<1>5. /\ \A k \in 1 .. Len(Line(i)) : Line(i)[k].dst[p] <= x
      /\ \A t \in ToSet(mOngoingTasks) : t.dst[p] <= x
  BY <1>1, <1>2, UptoIs
<1>6. ASSUME NEW k \in 1 .. Len(Line(i)') PROVE Line(i)'[k].dst[p] <= x
  <2>1. PICK c \in Nat : c = Len(Line(i))
    BY AddLines
  <2>2. k \in 1 .. c \/ (i \in Active(NewTask) /\ k = c + 1)
    BY <2>1, AddLines
  <2>3. CASE k \in 1 .. c
    BY <1>5, <2>1, <2>3, AddLines
  <2>4. CASE i \in Active(NewTask) /\ k = c + 1
    <3>1. Line(i)'[k] = PieceOf(i)
      BY <2>1, <2>4, AddLines
    <3>2. PieceOf(i).dst[p] = e.dst[p]
      BY <1>1, <1>2, <1>3, PieceIs
    <3>3. QED
      BY <1>4, <3>1, <3>2
  <2>5. QED
    BY <2>2, <2>3, <2>4
<1>7. ASSUME NEW t \in ToSet(mOngoingTasks') PROVE t.dst[p] <= x
  <2>1. t = e \/ t \in ToSet(mOngoingTasks)
    <3>1. PICK s \in Seq(Tasks) : s = mOngoingTasks
      BY AddedTasks
    <3>2. PICK n \in 1 .. Len(s) + 1 :
             /\ DOMAIN mOngoingTasks' = 1 .. Len(s) + 1
             /\ mOngoingTasks'[n] = e
             /\ \A k \in 1 .. n - 1 : mOngoingTasks'[k] = s[k]
             /\ \A k \in n .. Len(s) : mOngoingTasks'[k + 1] = s[k]
      BY <1>3, <3>1, AddedTasks
    <3>3. PICK k \in 1 .. Len(s) + 1 : t = mOngoingTasks'[k]
      BY <3>2 DEF ToSet
    <3>4. Len(s) \in Nat /\ DOMAIN s = 1 .. Len(s)
      OBVIOUS
    <3>5. k \in 1 .. n - 1 \/ k = n \/ k - 1 \in n .. Len(s)
      BY <3>4
    <3>6. CASE k \in 1 .. n - 1
      <4>1. k \in DOMAIN s /\ t = s[k]
        BY <3>2, <3>3, <3>4, <3>6
      <4>2. QED
        BY <3>1, <4>1 DEF ToSet
    <3>7. CASE k - 1 \in n .. Len(s)
      <4>1. k - 1 \in DOMAIN s /\ (k - 1) + 1 = k
        BY <3>4, <3>7
      <4>2. t = s[k - 1]
        BY <3>2, <3>3, <3>7, <4>1
      <4>3. QED
        BY <3>1, <4>1, <4>2 DEF ToSet
    <3>8. QED
      BY <3>2, <3>3, <3>5, <3>6, <3>7
  <2>2. QED
    BY <1>4, <1>5, <2>1
<1>8. QED
  BY <1>1, <1>2, <1>6, <1>7, UptoIs

LEMMA AddFresh ==
    ASSUME UnitTypeOK, LineTypeOK, TodoRowOK, FreshOK, RowOK, AddTask, scenario \in Scenarios,
           Taken' = Taken
    PROVE  FreshOK'
<1>1. PICK r \in Nat \ {0} : r = Taken
  BY NewWritesNew
<1>2. \A q \in Ports : NewTask.dst[q] \in {None, Taken}
  BY NewWritesNew
<1>3. ASSUME NEW p \in Ports PROVE Upto(p, r)'
  <2>1. Upto(p, r)
    BY <1>1 DEF FreshOK
  <2>2. QED
    BY <1>1, <1>2, <2>1, AddUpto
<1>4. /\ pt.pc = "add" /\ pt'.todo = Tail(pt.todo)
      /\ \A k \in 1 .. Len(pt'.todo) :
           k + 1 \in 2 .. Len(pt.todo) /\ k + 1 \in 1 .. Len(pt.todo) /\ pt'.todo[k] = pt.todo[k + 1]
  <2>1. pt.pc = "add" /\ pt'.todo = Tail(pt.todo)
    BY AddTypes DEF AddTask
  <2>2. PICK s \in Seq(Jobs) : s = pt.todo
    BY <2>1, TodoTail DEF Runs
  <2>3. s # <<>>
    BY <2>1, <2>2 DEF UnitTypeOK, TodoOK, Runs
  <2>4. /\ Len(s) \in Nat \ {0} /\ Len(Tail(s)) = Len(s) - 1
        /\ \A k \in 1 .. Len(s) - 1 : Tail(s)[k] = s[k + 1]
    BY <2>3, HeadTailIs
  <2>5. QED
    BY <2>1, <2>2, <2>4
<1>5. ASSUME NEW k \in 1 .. Len(pt'.todo), NEW p \in Writes(pt'.todo[k]) PROVE Upto(p, r - 1)'
  <2>1. PICK m \in 2 .. Len(pt.todo) : m = k + 1 /\ m \in 1 .. Len(pt.todo) /\ pt'.todo[k] = pt.todo[m]
    BY <1>4
  <2>2. p \in Ports /\ p \in Writes(pt.todo[m])
    BY <2>1 DEF Writes
  <2>3. Upto(p, r - 1)
    BY <1>1, <1>4, <2>1, <2>2 DEF FreshOK, Runs
  <2>4. p \notin Writes(NewTask)
    <3>1. Writes(pt.todo[1]) \cap Writes(pt.todo[m]) = {}
      BY <1>4, <2>1 DEF TodoRowOK, Runs
    <3>2. Writes(NewTask) = Writes(pt.todo[1])
      BY NewWritesNew
    <3>3. QED
      BY <2>2, <3>1, <3>2
  <2>5. PICK x \in Nat : x = r - 1
    OBVIOUS
  <2>6. Upto(p, x)
    BY <2>3, <2>5
  <2>7. Upto(p, x)'
    BY <1>2, <2>2, <2>4, <2>6, AddUpto
  <2>8. QED
    BY <2>5, <2>7
<1>6. QED
  BY <1>1, <1>3, <1>5 DEF FreshOK, Writes

(* Steps that take no row away and add no task.                            *)
LEMMA FreshElsewhere ==
    ASSUME FreshOK, \A p \in Ports : \A r : Upto(p, r) => Upto(p, r)', Taken' = Taken,
           pt'.pc \in Runs => pt.pc \in Runs /\ TodoFrom(pt.todo, pt'.todo)
    PROVE  FreshOK'
<1>1. PICK r : r = Taken
  OBVIOUS
<1>2. \A p \in Ports : Upto(p, r)'
  BY <1>1 DEF FreshOK
<1>3. ASSUME pt'.pc \in Runs, NEW k \in 1 .. Len(pt'.todo), NEW p \in Writes(pt'.todo[k])
      PROVE  Upto(p, r - 1)'
  <2>1. PICK j \in 1 .. Len(pt.todo) : p \in Writes(pt.todo[j])
    BY <1>3 DEF TodoFrom
  <2>2. p \in Ports
    BY DEF Writes
  <2>3. Upto(p, r - 1)
    BY <1>1, <1>3, <2>1 DEF FreshOK
  <2>4. QED
    BY <2>2, <2>3
<1>4. QED
  BY <1>1, <1>2, <1>3 DEF FreshOK, Writes, Runs

LEMMA PrepareFresh ==
    ASSUME LineTypeOK, TaskTypeOK, scenario \in Scenarios, RowOK, FreshOK,
           \A p \in Ports : \A r : Upto(p, r) => Upto(p, r)',
           Taken' = Taken + (IF RunsNow THEN 1 ELSE 0), pt'.pc \in Runs => RunsNow
    PROVE  FreshOK'
<1>1. PICK r \in Nat : r = Taken
  BY DEF RowOK
<1>2. PICK q \in Nat : q = Taken'
  BY <1>1
<1>3. q = r + (IF RunsNow THEN 1 ELSE 0)
  BY <1>1, <1>2
<1>4. ASSUME NEW p \in Ports PROVE Upto(p, r)' /\ Upto(p, q)'
  <2>1. Upto(p, r)
    BY <1>1 DEF FreshOK
  <2>2. Upto(p, q)
    BY <1>3, <2>1, UptoGrows
  <2>3. QED
    BY <2>1, <2>2
<1>5. ASSUME pt'.pc \in Runs PROVE q - 1 = r
  BY <1>3, <1>5
<1>6. \A p \in Ports : Upto(p, q)'
  BY <1>4
<1>7. ASSUME pt'.pc \in Runs, NEW k \in 1 .. Len(pt'.todo), NEW p \in Writes(pt'.todo[k])
      PROVE  Upto(p, q - 1)'
  <2>1. p \in Ports
    BY DEF Writes
  <2>2. QED
    BY <1>4, <1>5, <1>7, <2>1
<1>8. QED
  BY <1>2, <1>6, <1>7 DEF FreshOK, Writes, Runs

-----------------------------------------------------------------------------
(* The work of the pipes, step by step.                                    *)

LEMMA StageInit == Init => StageInv
<1> SUFFICES ASSUME Init PROVE StageInv
  OBVIOUS
<1>1. RowOK
  BY RowInit
<1>2. LineTypeOK
  BY DEF Init, LineTypeOK, Asleep
<1>3. \A i \in Pipes : Len(Line(i)) = 0
  <2>1. ASSUME NEW i \in Pipes PROVE Len(Line(i)) = 0
    <3>1. mStageTaskList[i] = <<>> /\ stageQueue[i] = <<>>
      BY DEF Init
    <3>2. Len(<<>>) = 0
      OBVIOUS
    <3>3. Len(mStageTaskList[i]) = 0 /\ Len(stageQueue[i]) = 0
      BY <3>1, <3>2
    <3>4. Len(Line(i)) = Len(mStageTaskList[i]) + Len(stageQueue[i])
      BY <1>2, LineIs
    <3>5. QED
      BY <3>3, <3>4
  <2>2. QED
    BY <2>1
<1>4. LineOK
  BY <1>3 DEF LineOK
<1>5. ToSet(mOngoingTasks) = {} /\ DOMAIN mOngoingTasks = {}
  BY DEF Init, ToSet
<1>6. TaskOK
  BY <1>5 DEF TaskOK
<1>7. pt.pc \notin Runs
  BY DEF Init, Idle, Runs
<1>8. scenario \in Scenarios
  BY DEF Init
<1>9. ASSUME NEW p \in Ports, NEW r PROVE Upto(p, r)
  <2>1. Len(Line(PipeOf(p))) = 0
    BY <1>3, <1>8, PipeIn
  <2>2. QED
    BY <1>5, <2>1 DEF Upto
<1>10. QED
  BY <1>1, <1>2, <1>4, <1>6, <1>7, <1>9 DEF StageInv, TodoRowOK, FreshOK

(* Steps that take neither tasks nor callbacks.                            *)
LEMMA QuietStage ==
    ASSUME UnitTypeOK, scenario \in Scenarios, LineTypeOK, LineOK, TaskOK,
           UNCHANGED <<scenario, mOngoingTasks>>, UNCHANGED requests \/ NewRequest,
           NEW d, \A i \in Pipes : ShiftedBy(i, d[i])
    PROVE  /\ LineOK' /\ TaskOK'
           /\ \A p \in Ports : \A r : Upto(p, r) => Upto(p, r)'
<1>1. mOngoingTasks \in Seq(Tasks)
  BY DEF UnitTypeOK, TaskTypeOK
<1>2. \A t \in Tasks : Gives(t)' = Gives(t)
  BY TasksKept
<1>3. QED
  BY <1>1, <1>2, ShiftLines

LEMMA QuietPipes ==
    ASSUME UnitTypeOK, scenario \in Scenarios, LineTypeOK, LineOK, TaskOK,
           UNCHANGED <<scenario, mOngoingTasks, pipes>>, UNCHANGED requests \/ NewRequest
    PROVE  /\ LineTypeOK' /\ LineOK' /\ TaskOK'
           /\ \A p \in Ports : \A r : Upto(p, r) => Upto(p, r)'
<1>1. LineTypeOK' /\ \A i \in Pipes : ShiftedBy(i, 0)
  BY LinesStay
<1>2. PICK d : d = [i \in Pipes |-> 0]
  OBVIOUS
<1>3. \A i \in Pipes : ShiftedBy(i, d[i])
  BY <1>1, <1>2
<1>4. QED
  BY <1>1, <1>3, QuietStage

LEMMA EnvironmentStage ==
    ASSUME UnitTypeOK, scenario \in Scenarios, StageInv,
           Capture \/ LoseFrame \/ NewRequest \/ HandleQueueBuffer
    PROVE  StageInv'
<1> USE DEF StageInv
<1>1. /\ UNCHANGED <<scenario, mOngoingTasks, pipes, pt>>
      /\ UNCHANGED requests \/ NewRequest
  BY DEF Capture, LoseFrame, NewRequest, HandleQueueBuffer, asked
<1>2. RowOK' /\ Taken' = Taken
  <2>1. CASE Capture \/ LoseFrame
    <3>1. UNCHANGED <<requests, feeding, mOutputQueue, pt>>
      BY <2>1 DEF Capture, LoseFrame, asked
    <3>2. QED
      BY <3>1, RowElsewhere
  <2>2. CASE NewRequest
    BY <2>2, NewRequestRows DEF UnitTypeOK
  <2>3. CASE HandleQueueBuffer
    BY <2>3, HandleQueueBufferRows DEF UnitTypeOK
  <2>4. QED
    BY <2>1, <2>2, <2>3
<1>3. TodoRowOK'
  BY <1>1, <1>2 DEF TodoRowOK, OfRow, Writes
<1>4. /\ LineTypeOK' /\ LineOK' /\ TaskOK'
      /\ \A p \in Ports : \A r : Upto(p, r) => Upto(p, r)'
  BY <1>1, QuietPipes
<1>5. TodoFrom(pt.todo, pt'.todo)
  BY <1>1 DEF TodoFrom
<1>6. FreshOK'
  BY <1>1, <1>2, <1>4, <1>5, FreshElsewhere
<1>7. QED
  BY <1>2, <1>3, <1>4, <1>6

LEMMA ThreadStage ==
    ASSUME OneStill, UnitTypeOK, FlightInv, StageInv, Plain, ProcessThread
    PROVE  StageInv'
<1> USE DEF StageInv
<1>0. /\ scenario \in Scenarios /\ OwnOK /\ KeptOK
      /\ AskTypeOK /\ PtTypeOK /\ FrontOK /\ TaskTypeOK
  BY DEF FlightInv, UnitTypeOK
<1>1. UNCHANGED <<scenario, requests>>
  BY DEF ProcessThread, ProcessNewFrame, NothingToPrepare, SaveRawBuffer, TrimRawBuffers,
         PrepareTask, FetchSource, DispatchTask, AddTask, ExecuteNode, asked
<1>2. CASE ProcessNewFrame \/ NothingToPrepare \/ SaveRawBuffer \/ TrimRawBuffers \/ ExecuteNode
  <2>1. /\ UNCHANGED mOngoingTasks
        /\ UNCHANGED pipes \/ ExecuteNode
    BY <1>2 DEF ProcessNewFrame, NothingToPrepare, SaveRawBuffer, TrimRawBuffers, ExecuteNode
  <2>2. pt'.pc \notin Runs
    <3>1. CASE ProcessNewFrame
      BY <3>1 DEF ProcessNewFrame, Idle, Runs
    <3>2. CASE NothingToPrepare \/ SaveRawBuffer \/ TrimRawBuffers
      BY <1>0, <3>2 DEF NothingToPrepare, SaveRawBuffer, TrimRawBuffers, Runs, PtTypeOK
    <3>3. CASE ExecuteNode
      BY <3>3 DEF ExecuteNode, Idle, Runs
    <3>4. QED
      BY <1>2, <3>1, <3>2, <3>3
  <2>3. RowOK' /\ Taken' = Taken
    BY <1>0, <1>2, ProcessNewFrameRows, RestOfThreadRows
  <2>4. /\ LineTypeOK' /\ LineOK' /\ TaskOK'
        /\ \A p \in Ports : \A r : Upto(p, r) => Upto(p, r)'
    <3>1. CASE UNCHANGED pipes
      BY <1>0, <1>1, <2>1, <3>1, QuietPipes
    <3>2. CASE ExecuteNode
      <4>1. UNCHANGED <<stageQueue, mStageTaskList, poll>>
        BY <3>2 DEF ExecuteNode
      <4>2. UNCHANGED Tasks
        BY <1>1, SameAsked
      <4>3. LineTypeOK'
        BY <4>1, <4>2 DEF LineTypeOK, Writes
      <4>4. ASSUME NEW i \in Pipes PROVE ShiftedBy(i, 0)
        <5>1. Line(i)' = Line(i)
          BY <4>1 DEF Line
        <5>2. QED
          BY <4>1, <5>1, LineStays
      <4>5. PICK d : d = [i \in Pipes |-> 0]
        OBVIOUS
      <4>6. \A i \in Pipes : ShiftedBy(i, d[i])
        BY <4>4, <4>5
      <4>7. QED
        BY <1>0, <1>1, <2>1, <4>3, <4>6, QuietStage
    <3>3. QED
      BY <2>1, <3>1, <3>2
  <2>5. FreshOK'
    BY <2>2, <2>3, <2>4, FreshElsewhere
  <2>6. QED
    BY <2>2, <2>3, <2>4, <2>5 DEF TodoRowOK
<1>3. CASE PrepareTask
  <2>1. /\ UNCHANGED <<mOngoingTasks, pipes>>
        /\ pt'.pc \in Runs => RunsNow
    BY <1>0, <1>3, PrepareExact DEF Runs
  <2>2. RowOK' /\ Taken' = Taken + (IF RunsNow THEN 1 ELSE 0)
    BY <1>0, <1>3, PrepareRows
  <2>3. /\ LineTypeOK' /\ LineOK' /\ TaskOK'
        /\ \A p \in Ports : \A r : Upto(p, r) => Upto(p, r)'
    BY <1>0, <1>1, <2>1, QuietPipes
  <2>4. FreshOK'
    BY <1>0, <2>1, <2>2, <2>3, PrepareFresh
  <2>5. TodoRowOK'
    BY <1>3, PrepareTodo
  <2>6. QED
    BY <2>2, <2>3, <2>4, <2>5
<1>4. CASE FetchSource \/ DispatchTask
  <2>1. UNCHANGED <<mOngoingTasks, pipes>>
    BY <1>4 DEF FetchSource, DispatchTask
  <2>2. RowOK' /\ Taken' = Taken
    BY <1>0, <1>4, RestOfThreadRows
  <2>3. /\ LineTypeOK' /\ LineOK' /\ TaskOK'
        /\ \A p \in Ports : \A r : Upto(p, r) => Upto(p, r)'
    BY <1>0, <1>1, <2>1, QuietPipes
  <2>4. TodoRowOK' /\ TodoFrom(pt.todo, pt'.todo) /\ pt.pc \in Runs
    <3>1. CASE FetchSource
      <4>1. pt.pc \in Runs
        BY <3>1 DEF FetchSource, Runs
      <4>2. QED
        BY <1>0, <2>2, <3>1, <4>1, FetchTodo
    <3>2. CASE DispatchTask
      <4>1. pt.pc \in Runs /\ pt'.todo = pt.todo
        BY <1>0, <3>2 DEF DispatchTask, Runs, PtTypeOK
      <4>2. TodoFrom(pt.todo, pt'.todo)
        BY <4>1 DEF TodoFrom
      <4>3. QED
        BY <1>0, <2>2, <3>2, <4>1, <4>2, DispatchTodo
    <3>3. QED
      BY <1>4, <3>1, <3>2
  <2>5. FreshOK'
    BY <2>2, <2>3, <2>4, FreshElsewhere
  <2>6. QED
    BY <2>2, <2>3, <2>4, <2>5
<1>5. CASE AddTask
  <2>1. RowOK' /\ Taken' = Taken
    BY <1>0, <1>5, RestOfThreadRows
  <2>2. TodoRowOK'
    BY <1>5, <2>1, AddTodo
  <2>3. LineTypeOK'
    BY <1>5, AddLines
  <2>4. /\ NewWrites /\ NewTask.left = Cardinality(Writes(NewTask))
        /\ \A p \in Ports : NewTask.dst[p] \in {None, Taken}
    BY <1>5, NewWritesNew
  <2>5. TaskOK'
    BY <1>0, <1>5, <2>4, AddTaskOK
  <2>6. LineOK'
    BY <1>0, <1>5, <2>4, AddLineOK
  <2>7. FreshOK'
    BY <1>0, <1>5, <2>1, AddFresh
  <2>8. QED
    BY <2>1, <2>2, <2>3, <2>5, <2>6, <2>7
<1>6. QED
  BY <1>2, <1>3, <1>4, <1>5 DEF ProcessThread

LEMMA PipeStage ==
    ASSUME UnitTypeOK, scenario \in Scenarios, StageInv, NEW i \in Pipes,
           Executor(i) \/ PollThread(i)
    PROVE  StageInv'
<1> USE DEF StageInv
<1>1. RowOK' /\ Taken' = Taken /\ UNCHANGED <<requests, mOutputQueue, feeding, pt>>
  BY PipeRows
<1>2. UNCHANGED scenario
  BY DEF Executor, PollThread, WaitTimeout, Process, HandleEvent, OnBufferDone, OnTaskDone,
         EraseSequence, TrimAfterTask, PopTask
<1>3. TodoRowOK'
  BY <1>1 DEF TodoRowOK, OfRow, Writes
<1>4. /\ LineTypeOK' /\ LineOK' /\ TaskOK'
      /\ \A p \in Ports : \A r : Upto(p, r) => Upto(p, r)'
  <2>1. CASE OnBufferDone(i)
    <3>1. LineTypeOK'
      BY <2>1, CallbackLines
    <3>2. QED
      BY <2>1, <3>1, CallbackKeeps
  <2>2. CASE ~OnBufferDone(i)
    <3>1. UNCHANGED mOngoingTasks
      BY <2>2 DEF Executor, PollThread, WaitTimeout, Process, HandleEvent, OnTaskDone,
             EraseSequence, TrimAfterTask, PopTask
    <3>2. LineTypeOK' /\ \E d : \A j \in Pipes : ShiftedBy(j, d[j])
      <4>1. ASSUME LineTypeOK' /\ \A j \in Pipes : ShiftedBy(j, 0)
            PROVE  \E d : \A j \in Pipes : ShiftedBy(j, d[j])
        <5>1. PICK d : d = [j \in Pipes |-> 0]
          OBVIOUS
        <5>2. \A j \in Pipes : ShiftedBy(j, d[j])
          BY <4>1, <5>1
        <5>3. QED
          BY <5>2
      <4>2. CASE WaitTimeout(i)
        <5>1. UNCHANGED <<stageQueue, mStageTaskList, poll>>
          BY <4>2 DEF WaitTimeout
        <5>2. UNCHANGED Tasks
          BY <1>1, SameAsked
        <5>3. LineTypeOK'
          BY <5>1, <5>2 DEF LineTypeOK, Writes
        <5>4. ASSUME NEW j \in Pipes PROVE ShiftedBy(j, 0)
          <6>1. Line(j)' = Line(j)
            BY <5>1 DEF Line
          <6>2. QED
            BY <5>1, <6>1, LineStays
        <5>5. QED
          BY <4>1, <5>3, <5>4
      <4>3. CASE Process(i)
        BY <4>1, <4>3, ProcessLines
      <4>4. CASE HandleEvent(i) \/ OnTaskDone(i) \/ EraseSequence(i) \/ TrimAfterTask(i)
        BY <4>1, <4>4, PollLines
      <4>5. CASE PopTask(i)
        <5>1. LineTypeOK' /\ \A j \in Pipes : ShiftedBy(j, IF j = i THEN 1 ELSE 0)
          BY <4>5, PopLines
        <5>2. PICK d : d = [j \in Pipes |-> IF j = i THEN 1 ELSE 0]
          OBVIOUS
        <5>3. \A j \in Pipes : ShiftedBy(j, d[j])
          BY <5>1, <5>2
        <5>4. QED
          BY <5>1, <5>3
      <4>6. QED
        BY <2>2, <4>2, <4>3, <4>4, <4>5 DEF Executor, PollThread
    <3>3. QED
      BY <1>1, <1>2, <3>1, <3>2, QuietStage
  <2>3. QED
    BY <2>1, <2>2
<1>5. TodoFrom(pt.todo, pt'.todo)
  BY <1>1 DEF TodoFrom
<1>6. FreshOK'
  BY <1>1, <1>4, <1>5, FreshElsewhere
<1>7. QED
  BY <1>1, <1>3, <1>4, <1>6

LEMMA StageStep ==
    ASSUME OneStill, UnitTypeOK, FlightInv, StageInv, Plain, [Next]_vars
    PROVE  StageInv' /\ Plain'
<1>1. scenario \in Scenarios
  BY DEF FlightInv
<1>2. UNCHANGED scenario
  BY DEF vars, Next, Capture, LoseFrame, NewRequest, HandleQueueBuffer, ProcessThread, ProcessNewFrame,
         NothingToPrepare, SaveRawBuffer, TrimRawBuffers, PrepareTask, FetchSource, DispatchTask,
         AddTask, ExecuteNode, Executor, PollThread, WaitTimeout, Process, HandleEvent, OnBufferDone,
         OnTaskDone, EraseSequence, TrimAfterTask, PopTask
<1>3. Plain'
  BY <1>2 DEF Plain
<1>4. CASE UNCHANGED vars
  <2>1. /\ UNCHANGED <<scenario, requests, feeding, mOutputQueue, pt, mOngoingTasks>>
        /\ UNCHANGED pipes
    BY <1>4 DEF vars, asked, pipes
  <2>2. RowOK' /\ Taken' = Taken
    BY <2>1, RowElsewhere DEF StageInv
  <2>3. /\ LineTypeOK' /\ LineOK' /\ TaskOK'
        /\ \A p \in Ports : \A r : Upto(p, r) => Upto(p, r)'
    BY <1>1, <2>1, QuietPipes DEF StageInv
  <2>4. TodoRowOK'
    BY <2>1, <2>2 DEF StageInv, TodoRowOK, OfRow, Writes
  <2>5. TodoFrom(pt.todo, pt'.todo)
    BY <2>1 DEF TodoFrom
  <2>6. FreshOK'
    BY <2>1, <2>2, <2>3, <2>5, FreshElsewhere DEF StageInv
  <2>7. QED
    BY <1>3, <2>2, <2>3, <2>4, <2>6 DEF StageInv
<1>5. CASE Next
  <2>1. StageInv'
    BY <1>1, <1>5, EnvironmentStage, ThreadStage, PipeStage DEF Next
  <2>2. QED
    BY <1>3, <2>1
<1>6. QED
  BY <1>4, <1>5

-----------------------------------------------------------------------------
(* What pipes read.                                                        *)

(* The entries the hardware is not done with.                              *)
Unfinished(i) == {k \in 1 .. Len(Line(i)) : k > 1 \/ poll[i].pc = "idle"}

Used(b) == \E i \in Pipes : \E k \in Unfinished(i) : Line(i)[k].raw = b

LEMMA TailConcat ==
    ASSUME NEW S, NEW a \in Seq(S), a # <<>>, NEW b \in Seq(S),
           NEW s, s = a \o b, NEW c, c = Tail(a), NEW t, t = c \o b
    PROVE  /\ Len(s) \in Nat /\ Len(t) = Len(s) - 1
           /\ \A k \in 1 .. Len(t) : t[k] = s[k + 1]
<1>1. /\ Len(a) \in Nat \ {0} /\ Tail(a) \in Seq(S) /\ Len(Tail(a)) = Len(a) - 1
      /\ \A k \in 1 .. Len(a) - 1 : Tail(a)[k] = a[k + 1]
  BY HeadTailIs
<1>4. /\ Len(s) = Len(a) + Len(b)
      /\ \A k \in 1 .. Len(a) + Len(b) : s[k] = IF k <= Len(a) THEN a[k] ELSE b[k - Len(a)]
  BY ConcatProperties
<1>5. /\ Len(t) = Len(a) - 1 + Len(b)
      /\ \A k \in 1 .. Len(a) - 1 + Len(b) :
           t[k] = IF k <= Len(a) - 1 THEN Tail(a)[k] ELSE b[k - (Len(a) - 1)]
  <2>1. c \in Seq(S)
    BY <1>1
  <2>2. /\ Len(t) = Len(c) + Len(b)
        /\ \A k \in 1 .. Len(c) + Len(b) : t[k] = IF k <= Len(c) THEN c[k] ELSE b[k - Len(c)]
    BY <2>1, ConcatProperties
  <2>3. QED
    BY <1>1, <2>1, <2>2
<1>6. Len(b) \in Nat
  OBVIOUS
<1>7. ASSUME NEW k \in 1 .. Len(t) PROVE t[k] = s[k + 1]
  <2>1. CASE k <= Len(a) - 1
    <3>1. k \in 1 .. Len(a) - 1 /\ k + 1 \in 1 .. Len(a) + Len(b) /\ k + 1 <= Len(a)
      BY <1>1, <1>5, <1>6, <2>1
    <3>2. k \in 1 .. Len(a) - 1 + Len(b)
      BY <1>5
    <3>3. t[k] = Tail(a)[k] /\ s[k + 1] = a[k + 1]
      BY <1>4, <1>5, <2>1, <3>1, <3>2
    <3>4. QED
      BY <1>1, <3>1, <3>3
  <2>2. CASE ~(k <= Len(a) - 1)
    <3>1. k \in 1 .. Len(a) - 1 + Len(b)
      BY <1>5
    <3>2. k + 1 \in 1 .. Len(a) + Len(b) /\ ~(k + 1 <= Len(a)) /\ k + 1 - Len(a) = k - (Len(a) - 1)
      BY <1>1, <1>6, <2>2, <3>1
    <3>3. t[k] = b[k - (Len(a) - 1)] /\ s[k + 1] = b[k + 1 - Len(a)]
      BY <1>4, <1>5, <2>2, <3>1, <3>2
    <3>4. QED
      BY <3>2, <3>3
  <2>3. QED
    BY <2>1, <2>2
<1>8. Len(s) \in Nat /\ Len(t) = Len(s) - 1
  BY <1>1, <1>4, <1>5, <1>6
<1>9. QED
  BY <1>7, <1>8

LEMMA InUseIsUsed ==
    ASSUME LineTypeOK, NEW b \in InUse
    PROVE  Used(b)
<1>1. PICK i \in Pipes : \E t \in ToSet(Reading(i)) : b = t.raw
  BY DEF InUse
<1>2. PICK k \in DOMAIN Reading(i) : b = Reading(i)[k].raw
  BY <1>1 DEF ToSet
<1>3. mStageTaskList[i] \in Seq(Tasks) /\ stageQueue[i] \in Seq(Tasks) /\ Line(i) \in Seq(Tasks)
  BY LineIs DEF LineTypeOK
<1>4. CASE poll[i].pc = "idle"
  <2>1. Reading(i) = Line(i) /\ DOMAIN Line(i) = 1 .. Len(Line(i))
    BY <1>3, <1>4 DEF Reading, Line
  <2>2. k \in Unfinished(i) /\ Line(i)[k].raw = b
    BY <1>2, <1>4, <2>1 DEF Unfinished
  <2>3. QED
    BY <2>2 DEF Used
<1>5. CASE poll[i].pc # "idle"
  <2>1. PICK a \in Seq(Tasks) : a = mStageTaskList[i] /\ a # <<>>
    BY <1>3, <1>5 DEF LineTypeOK
  <2>2. PICK c \in Seq(Tasks) : c = stageQueue[i]
    BY <1>3
  <2>0. PICK d : d = Tail(a)
    OBVIOUS
  <2>3. PICK s : s = d \o c
    OBVIOUS
  <2>5. Line(i) = a \o c /\ Reading(i) = s
    BY <1>5, <2>0, <2>1, <2>2, <2>3 DEF Line, Reading
  <2>4. /\ Len(Line(i)) \in Nat /\ Len(s) = Len(Line(i)) - 1
        /\ \A m \in 1 .. Len(s) : s[m] = Line(i)[m + 1]
    <3>0. a # <<>>
      BY <2>1
    <3>1. PICK n : n = a \o c
      OBVIOUS
    <3>2. Len(n) \in Nat /\ Len(s) = Len(n) - 1 /\ \A m \in 1 .. Len(s) : s[m] = n[m + 1]
      BY <2>0, <2>3, <3>0, <3>1, TailConcat
    <3>3. QED
      BY <2>5, <3>1, <3>2
  <2>6. s \in Seq(Tasks)
    <3>1. Tail(a) \in Seq(Tasks)
      BY <2>1, HeadTailIs
    <3>2. QED
      BY <2>0, <2>3, <3>1, ConcatProperties
  <2>7. k \in 1 .. Len(s)
    BY <1>2, <2>5, <2>6
  <2>8. k + 1 \in 1 .. Len(Line(i)) /\ k + 1 > 1 /\ Line(i)[k + 1].raw = b
    BY <1>2, <2>4, <2>5, <2>7
  <2>9. k + 1 \in Unfinished(i) /\ Line(i)[k + 1].raw = b
    BY <2>8 DEF Unfinished
  <2>10. QED
    BY <2>9 DEF Used
<1>6. QED
  BY <1>4, <1>5

(* An entry that is not finished is a part of a task that is listed.       *)
LEMMA UnfinishedTask ==
    ASSUME LineOK, NEW i \in Pipes, NEW k \in Unfinished(i)
    PROVE  \E t \in ToSet(mOngoingTasks) : Part(i, t, Line(i)[k])
<1>1. k \in 1 .. Len(Line(i)) /\ (k > 1 \/ poll[i].pc = "idle")
  BY DEF Unfinished
<1>2. EntryOK(i, k)
  BY <1>1 DEF LineOK
<1>3. ~(k = 1 /\ poll[i].pc # "idle")
  BY <1>1
<1>4. LeftOf(i, k) = Writes(Line(i)[k])
  BY <1>3 DEF LeftOf
<1>5. QED
  BY <1>2, <1>4 DEF EntryOK

(* The other places of a raw buffer are not with the producer.             *)
LEMMA PlacesNotFree ==
    ASSUME UnitTypeOK, CoverInv, FlightInv
    PROVE  /\ InHand \cap free = {} /\ ToSet(mInputQueue) \cap free = {}
           /\ mRawBufferMap \cap free = {}
<1>1. \A k \in 1 .. Len(mInputQueue) : mInputQueue[k] \notin free
  BY DEF FlightInv, QueueOK
<1>2. mInputQueue \in Seq(Raws) /\ DOMAIN mInputQueue = 1 .. Len(mInputQueue)
  BY DEF UnitTypeOK, RawTypeOK
<1>3. ToSet(mInputQueue) \cap free = {}
  BY <1>1, <1>2 DEF ToSet
<1>4. mRawBufferMap \cap free = {}
  BY DEF FlightInv, OwnOK, KeptOK
<1>5. pt.pc \in Chooses => pt.raw \notin free
  <2>1. SUFFICES ASSUME pt.pc \in Chooses PROVE pt.raw \notin free
    OBVIOUS
  <2>2. mInputQueue # <<>> /\ pt.raw = Head(mInputQueue)
    BY <2>1 DEF UnitTypeOK, FrontOK
  <2>3. 1 \in 1 .. Len(mInputQueue) /\ pt.raw = mInputQueue[1]
    BY <1>2, <2>2, HeadTailIs
  <2>4. QED
    BY <1>1, <2>3
<1>6. pt.pc \in Runs => pt.raw \notin free
  BY <1>4 DEF FlightInv, OwnOK, KeptOK
<1>7. pt.src # None => pt.src \notin free
  <2>1. SUFFICES ASSUME pt.src # None PROVE pt.src \notin free
    OBVIOUS
  <2>2. pt.pc \in {"dispatch", "add"}
    BY <2>1 DEF CoverInv, SourceOK
  <2>3. CASE scenario.zsl
    BY <1>4, <2>2, <2>3 DEF FlightInv, KeptOK
  <2>4. CASE ~scenario.zsl
    BY <1>6, <2>2, <2>4 DEF FlightInv, OwnOK, CoverInv, SourceOK, Runs
  <2>5. QED
    BY <2>3, <2>4
<1>8. pt.pc \in Chooses \cup Runs \cup {"wait", "execute"}
  BY DEF UnitTypeOK, PtTypeOK
<1>9. InHand \cap free = {}
  BY <1>5, <1>6, <1>7, <1>8 DEF InHand
<1>10. QED
  BY <1>3, <1>4, <1>9

(* With HAL ZSL the inputs of tasks are kept.                              *)
LEMMA KeptIsSafe ==
    ASSUME UnitTypeOK, CoverInv, FlightInv, StageInv, scenario.zsl
    PROVE  RawSafe
<1>1. ASSUME NEW b \in InUse PROVE b \notin free
  <2>1. PICK i \in Pipes : \E k \in Unfinished(i) : Line(i)[k].raw = b
    BY InUseIsUsed DEF StageInv, Used
  <2>2. PICK k \in Unfinished(i) : Line(i)[k].raw = b
    BY <2>1
  <2>3. PICK t \in ToSet(mOngoingTasks) : t.raw = b
    BY <2>2, UnfinishedTask DEF StageInv, Part
  <2>4. b \in mRawBufferMap
    BY <2>3 DEF FlightInv, KeptOK, Coming
  <2>5. QED
    BY <2>4, PlacesNotFree
<1>2. QED
  BY <1>1, PlacesNotFree DEF RawSafe

-----------------------------------------------------------------------------
(* Without HAL ZSL: which frames requests share.                           *)

(* One frame per request at least, and no frame lost.                      *)
Exact == scenario.lost = 0 /\ \A g \in scenario.gaps : g >= 1

(* One pipe, which works in order, and no frame between two requests.      *)
Shared == (\E i \in Pipes : \A p \in Ports : PipeOf(p) = i) /\ \A g \in scenario.gaps : g <= 1

(* The raw frame waits, or is the one looked at.                           *)
Carried(b) == InQueue(b) \/ (pt.pc \in Runs /\ pt.raw = b)

(* The raw frame of an entry is given back by it or by one after it.       *)
GivenLater(i, k) == \E j \in Unfinished(i) :
    j >= k /\ Line(i)[j].raw = Line(i)[k].raw /\ Gives(Line(i)[j])

WaitsOrGives == \A i \in Pipes : \A k \in Unfinished(i) :
    Carried(Line(i)[k].raw) \/ GivenLater(i, k)

LEMMA UsedNotFree ==
    ASSUME UnitTypeOK, CoverInv, FlightInv, StageInv, ~scenario.zsl, WaitsOrGives,
           NEW b, Used(b)
    PROVE  b \notin free
<1>1. PICK i \in Pipes : \E k \in Unfinished(i) : Line(i)[k].raw = b
  BY DEF Used
<1>2. PICK k \in Unfinished(i) : Line(i)[k].raw = b
  BY <1>1
<1>3. Carried(b) \/ GivenLater(i, k)
  BY <1>2 DEF WaitsOrGives
<1>4. CASE Carried(b)
  BY <1>4 DEF Carried, InQueue, FlightInv, QueueOK, OwnOK
<1>5. CASE GivenLater(i, k)
  <2>1. PICK j \in Unfinished(i) : Line(i)[j].raw = b /\ Gives(Line(i)[j])
    BY <1>2, <1>5 DEF GivenLater
  <2>2. PICK e : e = Line(i)[j]
    OBVIOUS
  <2>3. PICK t \in ToSet(mOngoingTasks) : Part(i, t, e)
    BY <2>2, UnfinishedTask DEF StageInv
  <2>4. t.raw = b /\ Gives(t)
    BY <2>1, <2>2, <2>3 DEF Part
  <2>5. PICK s \in Seq(Tasks) : s = mOngoingTasks
    BY DEF UnitTypeOK, TaskTypeOK
  <2>6. PICK n \in DOMAIN s : t = s[n]
    BY <2>5 DEF ToSet
  <2>7. s[n] \in ClaimsOf(b) /\ b \in Raws
    <3>1. t \in Tasks
      BY <2>6
    <3>2. t \in ClaimsOf(b) /\ b \in Raws
      BY <2>4, <3>1 DEF ClaimsOf, Tasks
    <3>3. QED
      BY <2>6, <3>2
  <2>8. Count(s, ClaimsOf(b)) >= 1 /\ Count(s, ClaimsOf(b)) \in Nat
    BY <2>7, CountSome, CountTyped
  <2>9. EndedAt({"done"}, ClaimsOf(b)) \in Nat
    BY EndedTyped
  <2>10. Claims(b) # 0
    <3>1. PICK n1 : n1 = Count(s, ClaimsOf(b))
      OBVIOUS
    <3>2. PICK n2 : n2 = EndedAt({"done"}, ClaimsOf(b))
      OBVIOUS
    <3>3. n1 + n2 # 0
      BY <2>8, <2>9, <3>1, <3>2
    <3>4. QED
      BY <2>5, <3>1, <3>2, <3>3 DEF Claims
  <2>11. QED
    BY <2>7, <2>10 DEF FlightInv, OwnOK
<1>6. QED
  BY <1>3, <1>4, <1>5

LEMMA OrderIsSafe ==
    ASSUME UnitTypeOK, CoverInv, FlightInv, StageInv, ~scenario.zsl, WaitsOrGives
    PROVE  RawSafe
<1>1. ASSUME NEW b \in InUse PROVE b \notin free
  BY InUseIsUsed, UsedNotFree DEF StageInv
<1>2. QED
  BY <1>1, PlacesNotFree DEF RawSafe

-----------------------------------------------------------------------------
(* The settings requests are for.                                          *)

(* The setting of the next row to take.                                    *)
FirstDue ==
    IF Taken < Len(requests) THEN requests[Taken + 1].setting
    ELSE IF requests = <<>> THEN 0 ELSE requests[Len(requests)].setting + 1

SettingsOK ==
    /\ \A r \in 1 .. Len(requests) : ~requests[r].reprocess
    /\ \A r \in 1 .. Len(requests) - 1 :
         requests[r + 1].setting - requests[r].setting \in scenario.gaps
    /\ requests # <<>> => requests[1].setting + 1 \in scenario.gaps

LEMMA RequestsTyped ==
    ASSUME AskTypeOK
    PROVE  /\ Len(requests) \in Nat
           /\ \A r \in 1 .. Len(requests) : requests[r].setting \in Seqs /\ requests[r].setting \in Int
           /\ requests # <<>> => Len(requests) >= 1
           /\ requests = <<>> => Len(requests) = 0
<1>1. PICK S : S = [wants : SUBSET Ports, setting : Seqs, reprocess : BOOLEAN]
  OBVIOUS
<1>2. requests \in Seq(S)
  BY <1>1 DEF AskTypeOK
<1>3. \A r \in 1 .. Len(requests) : requests[r] \in S
  BY <1>2
<1>4. \A s \in Seqs : s \in Int
  BY ProcessingAssumption DEF Seqs
<1>5. QED
  BY <1>1, <1>2, <1>3, <1>4

LEMMA FirstDueTyped ==
    ASSUME AskTypeOK, RowOK
    PROVE  FirstDue \in Int /\ FirstDue >= 0
<1>1. Taken \in Nat /\ Taken <= Len(requests) /\ Len(requests) \in Nat
  BY FirstPort, FedTyped
<1>2. PICK t : t = Taken
  OBVIOUS
<1>3. PICK n : n = Len(requests)
  OBVIOUS
<1>4. \A s \in Seqs : s \in Int /\ s >= 0
  BY ProcessingAssumption DEF Seqs
<1>5. CASE t < n
  <2>1. t + 1 \in 1 .. n
    BY <1>1, <1>2, <1>3, <1>5
  <2>2. requests[t + 1].setting \in Seqs
    BY <1>3, <2>1, RequestsTyped
  <2>3. FirstDue = requests[t + 1].setting
    BY <1>2, <1>3, <1>5 DEF FirstDue
  <2>4. QED
    BY <1>4, <2>2, <2>3
<1>6. CASE ~(t < n) /\ requests = <<>>
  BY <1>2, <1>3, <1>6 DEF FirstDue
<1>7. CASE ~(t < n) /\ requests # <<>>
  <2>1. n \in 1 .. n
    BY <1>1, <1>3, <1>7, RequestsTyped
  <2>2. requests[n].setting \in Seqs
    BY <1>3, <2>1, RequestsTyped
  <2>3. PICK s \in Seqs : s = requests[n].setting
    BY <2>2
  <2>4. FirstDue = s + 1
    BY <1>2, <1>3, <1>7, <2>3 DEF FirstDue
  <2>5. QED
    BY <1>4, <2>4
<1>8. QED
  BY <1>5, <1>6, <1>7

(* The buffers looked at are those of the next row.                        *)
LEMMA SettingDue ==
    ASSUME UnitTypeOK, RowOK, pt.pc \in Chooses
    PROVE  Setting(pt.dst) = FirstDue /\ FirstDue >= 0 /\ FirstDue \in Int /\ Taken < Len(requests)
<1>1. AskTypeOK /\ FrontOK
  BY DEF UnitTypeOK
<1>2. 1 \in Ports /\ mOutputQueue[1] # <<>>
  BY <1>1, FirstPort DEF FrontOK
<1>3. Taken + 1 \in 1 .. Len(requests) /\ Taken \in Nat
  BY <1>1, <1>2, FirstPort, HeadRow DEF RowOK
<1>4. PICK n \in Nat : n = Taken
  BY <1>3
<1>5. pt.dst = Row(n + 1)
  BY <1>4 DEF RowOK
<1>6. \A p \in Ports : pt.dst[p] \in {None, n + 1}
  BY <1>5, RowAtMost
<1>7. \E p \in Ports : pt.dst[p] # None
  <2>1. requests[n + 1].wants # {} /\ requests[n + 1].wants \subseteq Ports
    <3>1. requests[n + 1].wants # {}
      BY <1>3, <1>4 DEF RowOK
    <3>2. PICK S : S = [wants : SUBSET Ports, setting : Seqs, reprocess : BOOLEAN]
      OBVIOUS
    <3>3. requests[n + 1] \in S
      <4>1. PICK q \in Seq(S) : q = requests
        BY <1>1, <3>2 DEF AskTypeOK
      <4>2. n + 1 \in 1 .. Len(q)
        BY <1>3, <1>4, <4>1
      <4>3. QED
        BY <4>1, <4>2
    <3>4. QED
      BY <3>1, <3>2, <3>3
  <2>2. PICK p \in Ports : p \in requests[n + 1].wants
    BY <2>1
  <2>3. pt.dst[p] = n + 1
    BY <1>5, <2>2 DEF Row
  <2>4. QED
    BY <2>3 DEF None
<1>8. Setting(pt.dst) = requests[n + 1].setting
  BY <1>6, <1>7, SettingOfRow
<1>9. PICK m : m = Len(requests)
  OBVIOUS
<1>10. m \in Nat
  BY <1>1, <1>9, RequestsTyped
<1>11. n < m
  BY <1>3, <1>4, <1>9, <1>10
<1>12. FirstDue = requests[n + 1].setting
  BY <1>4, <1>9, <1>11 DEF FirstDue
<1>13. QED
  BY <1>1, <1>4, <1>8, <1>9, <1>11, <1>12, FirstDueTyped

LEMMA LastSettingIs ==
    ASSUME AskTypeOK, SettingsOK
    PROVE  LastSetting = IF requests = <<>> THEN -1 ELSE requests[Len(requests)].setting
<1> DEFINE normal == {r \in DOMAIN requests : ~requests[r].reprocess}
           last   == CHOOSE r \in normal : \A q \in normal : q <= r
<1>1. PICK n \in Nat : n = Len(requests)
  BY RequestsTyped
<1>2. DOMAIN requests = 1 .. n
  BY <1>1 DEF AskTypeOK
<1>3. normal = 1 .. n
  BY <1>1, <1>2 DEF SettingsOK
<1>4. LastSetting = IF normal = {} THEN -1 ELSE requests[last].setting
  BY DEF LastSetting
<1> HIDE DEF normal
<1>5. CASE requests = <<>>
  <2>1. n = 0
    BY <1>1, <1>5
  <2>2. normal = {}
    BY <1>3, <2>1
  <2>3. QED
    BY <1>4, <1>5, <2>2
<1>6. CASE requests # <<>>
  <2>1. n >= 1
    BY <1>1, <1>6, RequestsTyped
  <2>2. n \in normal /\ \A q \in normal : q <= n
    BY <1>3, <2>1
  <2>3. last \in normal /\ \A q \in normal : q <= last
    BY <2>2
  <2> HIDE DEF last
  <2>4. last = n
    BY <1>3, <2>2, <2>3
  <2>5. normal # {}
    BY <2>2
  <2>6. LastSetting = requests[last].setting
    BY <1>4, <2>5 DEF last
  <2>7. QED
    BY <1>1, <1>6, <2>4, <2>6
<1>7. QED
  BY <1>5, <1>6

(* A request more, with the setting after the last one.                    *)
Asks(r) ==
    /\ requests' = Append(requests, r) /\ r.setting \in Seqs /\ ~r.reprocess
    /\ r.setting - LastSetting \in scenario.gaps

LEMMA NewRequestAsks ==
    ASSUME NewRequest, ~scenario.zsl
    PROVE  \E r : Asks(r)
<1>1. PICK w \in Wants : \E s \in Seqs :
            /\ s - LastSetting \in scenario.gaps
            /\ requests' = Append(requests, [wants |-> w, setting |-> s, reprocess |-> FALSE])
  BY DEF NewRequest
<1>2. PICK s \in Seqs :
            /\ s - LastSetting \in scenario.gaps
            /\ requests' = Append(requests, [wants |-> w, setting |-> s, reprocess |-> FALSE])
  BY <1>1
<1>3. PICK r : r = [wants |-> w, setting |-> s, reprocess |-> FALSE]
  OBVIOUS
<1>4. Asks(r)
  BY <1>2, <1>3 DEF Asks
<1>5. QED
  BY <1>4

LEMMA AskedIs ==
    ASSUME AskTypeOK, NEW r, requests' = Append(requests, r), NEW n, n = Len(requests)
    PROVE  /\ n \in Nat /\ Len(requests') = n + 1 /\ requests'[n + 1] = r /\ requests' # <<>>
           /\ \A k \in 1 .. n : requests'[k] = requests[k]
<1>1. PICK S : S = [wants : SUBSET Ports, setting : Seqs, reprocess : BOOLEAN] \cup {r}
  OBVIOUS
<1>2. PICK q : q = requests
  OBVIOUS
<1>3. q \in Seq([wants : SUBSET Ports, setting : Seqs, reprocess : BOOLEAN])
  BY <1>2 DEF AskTypeOK
<1>4. q \in Seq(S)
  BY <1>1, <1>3, SeqGrows
<1>5. r \in S
  BY <1>1
<1>6. /\ Append(q, r) \in Seq(S) /\ Len(Append(q, r)) = Len(q) + 1 /\ Append(q, r)[Len(q) + 1] = r
      /\ \A k \in 1 .. Len(q) : Append(q, r)[k] = q[k]
  BY <1>4, <1>5, AppendProperties
<1>7. Len(q) \in Nat
  BY <1>4
<1>8. Append(q, r) # <<>>
  BY <1>4, <1>5, AppendProperties
<1>9. QED
  BY <1>2, <1>6, <1>7, <1>8

LEMMA AskedSettings ==
    ASSUME AskTypeOK, SettingsOK, UNCHANGED scenario, NEW r, Asks(r)
    PROVE  SettingsOK'
<1>1. PICK n : n = Len(requests)
  OBVIOUS
<1>2. /\ n \in Nat /\ Len(requests') = n + 1 /\ requests'[n + 1] = r /\ requests' # <<>>
      /\ \A k \in 1 .. n : requests'[k] = requests[k]
  BY <1>1, AskedIs DEF Asks
<1>3. \A k \in 1 .. n + 1 : ~requests'[k].reprocess
  <2>1. \A k \in 1 .. n + 1 : k \in 1 .. n \/ k = n + 1
    BY <1>2
  <2>2. QED
    BY <1>1, <1>2, <2>1 DEF Asks, SettingsOK
<1>4. r.setting - (IF requests = <<>> THEN -1 ELSE requests[n].setting) \in scenario.gaps
  BY <1>1, LastSettingIs DEF Asks
<1>5. requests = <<>> <=> n = 0
  BY <1>1, RequestsTyped
<1>6. r.setting \in Int
  BY ProcessingAssumption DEF Asks, Seqs
<1>7. requests'[1].setting + 1 \in scenario.gaps
  <2>1. CASE n = 0
    <3>1. r.setting - (-1) \in scenario.gaps
      BY <1>4, <1>5, <2>1
    <3>2. r.setting - (-1) = r.setting + 1
      BY <1>6
    <3>3. requests'[1] = r
      BY <1>2, <2>1
    <3>4. QED
      BY <3>1, <3>2, <3>3
  <2>2. CASE n # 0
    <3>1. 1 \in 1 .. n
      BY <1>2, <2>2
    <3>2. QED
      BY <1>2, <1>5, <2>2, <3>1 DEF SettingsOK
  <2>3. QED
    BY <2>1, <2>2
<1>8. ASSUME NEW k \in 1 .. n PROVE requests'[k + 1].setting - requests'[k].setting \in scenario.gaps
  <2>1. CASE k = n
    BY <1>2, <1>4, <1>5, <2>1
  <2>2. CASE k # n
    <3>1. k \in 1 .. n - 1 /\ k + 1 \in 1 .. n
      BY <1>2, <2>2
    <3>2. requests[k + 1].setting - requests[k].setting \in scenario.gaps
      BY <1>1, <3>1 DEF SettingsOK
    <3>3. QED
      BY <1>2, <3>1, <3>2
  <2>3. QED
    BY <2>1, <2>2
<1>9. Len(requests') - 1 = n
  BY <1>2
<1>10. QED
  BY <1>2, <1>3, <1>7, <1>8, <1>9 DEF SettingsOK

(* Requests do not move the setting that is due next, but for the gaps.    *)
LEMMA AskedDue ==
    ASSUME AskTypeOK, RowOK, SettingsOK, NEW r, Asks(r), Taken' = Taken
    PROVE  /\ FirstDue \in Int /\ FirstDue' \in Int
           /\ Exact => FirstDue' >= FirstDue
           /\ Shared => FirstDue' <= FirstDue
<1>1. PICK n : n = Len(requests)
  OBVIOUS
<1>2. /\ n \in Nat /\ Len(requests') = n + 1 /\ requests'[n + 1] = r /\ requests' # <<>>
      /\ \A k \in 1 .. n : requests'[k] = requests[k]
  BY <1>1, AskedIs DEF Asks
<1>3. PICK t : t = Taken
  OBVIOUS
<1>4. t \in Nat /\ t <= n
  BY <1>1, <1>3, FirstPort, FedTyped
<1>5. FirstDue' = requests'[t + 1].setting
  <2>1. t < n + 1
    BY <1>2, <1>4
  <2>2. QED
    BY <1>2, <1>3, <2>1 DEF FirstDue
<1>6. CASE t < n
  <2>1. t + 1 \in 1 .. n
    BY <1>2, <1>4, <1>6
  <2>2. FirstDue = requests[t + 1].setting /\ requests[t + 1].setting \in Int
    BY <1>1, <1>3, <1>6, <2>1, RequestsTyped DEF FirstDue
  <2>3. FirstDue' = FirstDue /\ FirstDue \in Int
    BY <1>2, <1>5, <2>1, <2>2
  <2>4. PICK d \in Int : d = FirstDue /\ d = FirstDue'
    BY <2>3
  <2>5. QED
    BY <2>4
<1>7. CASE ~(t < n)
  <2>1. t = n
    BY <1>2, <1>4, <1>7
  <2>2. FirstDue' = r.setting
    BY <1>2, <1>5, <2>1
  <2>3. requests = <<>> <=> n = 0
    BY <1>1, RequestsTyped
  <2>4. PICK s \in Int : s = r.setting
    BY ProcessingAssumption DEF Asks, Seqs
  <2>5. LastSetting = IF requests = <<>> THEN -1 ELSE requests[n].setting
    BY <1>1, LastSettingIs
  <2>6. PICK l \in Int : l = LastSetting /\ FirstDue = l + 1
    <3>1. CASE n = 0
      BY <1>1, <1>3, <1>7, <2>3, <2>5, <3>1 DEF FirstDue
    <3>2. CASE n # 0
      <4>1. n \in 1 .. n
        BY <1>2, <3>2
      <4>2. requests[n].setting \in Int
        BY <1>1, <4>1, RequestsTyped
      <4>3. FirstDue = requests[n].setting + 1
        BY <1>1, <1>3, <1>7, <2>3, <3>2 DEF FirstDue
      <4>4. QED
        BY <2>3, <2>5, <3>2, <4>2, <4>3
    <3>3. QED
      BY <3>1, <3>2
  <2>7. s - l \in scenario.gaps
    BY <2>4, <2>6 DEF Asks
  <2>8. Exact => s - l >= 1
    BY <2>7 DEF Exact
  <2>9. Shared => s - l <= 1
    BY <2>7 DEF Shared
  <2>10. QED
    BY <2>2, <2>4, <2>6, <2>8, <2>9
<1>8. QED
  BY <1>6, <1>7

(* A row taken moves it by a gap.                                          *)
LEMMA TakenDue ==
    ASSUME AskTypeOK, RowOK, SettingsOK, UNCHANGED <<requests, scenario>>,
           Taken < Len(requests), Taken' = Taken + 1
    PROVE  /\ FirstDue' \in Int
           /\ Exact => FirstDue' >= FirstDue + 1
           /\ Shared => FirstDue' <= FirstDue + 1
<1>1. PICK n \in Nat : n = Len(requests)
  BY RequestsTyped
<1>2. PICK t \in Nat : t = Taken
  BY DEF RowOK
<1>3. t < n /\ t + 1 \in 1 .. n /\ requests # <<>>
  BY <1>1, <1>2, RequestsTyped
<1>4. PICK a \in Int : a = requests[t + 1].setting
  BY <1>1, <1>3, RequestsTyped
<1>5. FirstDue = a
  BY <1>1, <1>2, <1>3, <1>4 DEF FirstDue
<1>6. CASE t + 1 < n
  <2>1. t + 1 \in 1 .. n - 1 /\ (t + 1) + 1 \in 1 .. n
    BY <1>6
  <2>2. PICK c \in Int : c = requests[(t + 1) + 1].setting
    BY <1>1, <2>1, RequestsTyped
  <2>3. FirstDue' = c
    BY <1>1, <1>2, <1>6, <2>2 DEF FirstDue
  <2>4. c - a \in scenario.gaps
    BY <1>1, <1>4, <2>1, <2>2 DEF SettingsOK
  <2>5. Exact => c - a >= 1
    BY <2>4 DEF Exact
  <2>6. Shared => c - a <= 1
    BY <2>4 DEF Shared
  <2>7. QED
    BY <1>5, <2>3, <2>5, <2>6
<1>7. CASE ~(t + 1 < n)
  <2>1. t + 1 = n
    BY <1>3, <1>7
  <2>2. FirstDue' = a + 1
    BY <1>1, <1>2, <1>3, <1>4, <1>7, <2>1 DEF FirstDue
  <2>3. QED
    BY <1>5, <2>2
<1>8. QED
  BY <1>6, <1>7

-----------------------------------------------------------------------------
(* How the work of a pipe goes on.                                         *)

(* Entries leave a pipe at its front, and only when they are finished.     *)
Moves(i, e) ==
    /\ e \in {0, 1} /\ Len(Line(i)) \in Nat /\ Len(Line(i)') = Len(Line(i)) - e
    /\ \A k \in 1 .. Len(Line(i)') : Line(i)'[k] = Line(i)[k + e]
    /\ e = 0 => (poll'[i].pc = "idle" => poll[i].pc = "idle")
    /\ e = 1 => poll[i].pc # "idle"

LEMMA MovesUnfinished ==
    ASSUME NEW i, NEW e, Moves(i, e), NEW k \in Unfinished(i)'
    PROVE  /\ e \in {0, 1} /\ k \in Nat /\ k + e \in Unfinished(i) /\ Line(i)'[k] = Line(i)[k + e]
           /\ \A j \in Unfinished(i) : j >= k + e =>
                j - e \in Unfinished(i)' /\ j - e >= k /\ Line(i)'[j - e] = Line(i)[j]
<1>1. PICK n : n = Len(Line(i))
  OBVIOUS
<1>2. PICK m : m = Len(Line(i)')
  OBVIOUS
<1>3. /\ e \in {0, 1} /\ n \in Nat /\ m = n - e
      /\ \A x \in 1 .. m : Line(i)'[x] = Line(i)[x + e]
      /\ e = 0 => (poll'[i].pc = "idle" => poll[i].pc = "idle")
      /\ e = 1 => poll[i].pc # "idle"
  BY <1>1, <1>2 DEF Moves
<1>4. k \in 1 .. m /\ (k > 1 \/ poll'[i].pc = "idle")
  BY <1>2 DEF Unfinished
<1>5. k + e \in 1 .. n /\ (k + e > 1 \/ poll[i].pc = "idle")
  BY <1>3, <1>4
<1>6. k + e \in Unfinished(i)
  BY <1>1, <1>5 DEF Unfinished
<1>7. ASSUME NEW j \in Unfinished(i), j >= k + e
      PROVE  j - e \in Unfinished(i)' /\ j - e >= k /\ Line(i)'[j - e] = Line(i)[j]
  <2>1. j \in 1 .. n
    BY <1>1 DEF Unfinished
  <2>2. j - e \in 1 .. m /\ j - e >= k /\ (j - e) + e = j
    BY <1>3, <1>4, <1>7, <2>1
  <2>3. j - e > 1 \/ poll'[i].pc = "idle"
    BY <1>4, <2>2
  <2>4. j - e \in Unfinished(i)'
    BY <1>2, <2>2, <2>3 DEF Unfinished
  <2>5. Line(i)'[j - e] = Line(i)[(j - e) + e]
    BY <1>3, <2>2
  <2>6. QED
    BY <2>2, <2>4, <2>5
<1>8. QED
  BY <1>3, <1>4, <1>6, <1>7

LEMMA UsedLess ==
    ASSUME \A i \in Pipes : \E e : Moves(i, e), NEW b, Used(b)'
    PROVE  Used(b)
<1>1. PICK i \in Pipes : \E k \in Unfinished(i)' : Line(i)'[k].raw = b
  BY DEF Used
<1>2. PICK k \in Unfinished(i)' : Line(i)'[k].raw = b
  BY <1>1
<1>3. PICK e : Moves(i, e)
  OBVIOUS
<1>4. k + e \in Unfinished(i) /\ Line(i)[k + e].raw = b
  BY <1>2, <1>3, MovesUnfinished
<1>5. QED
  BY <1>4 DEF Used

(* A kept entry gives back what it gave back.                              *)
LEMMA UnfinishedGives ==
    ASSUME UnitTypeOK, LineTypeOK, UNCHANGED requests \/ NewRequest,
           NEW i \in Pipes, NEW j \in Unfinished(i), NEW v, v = Line(i)[j]
    PROVE  Hold(v.dst, v.seq)' = Hold(v.dst, v.seq) \/ v.fake
<1>1. Line(i) \in Seq(Tasks) /\ j \in 1 .. Len(Line(i))
  BY LineIs DEF Unfinished
<1>2. v \in Tasks
  BY <1>1
<1>3. Gives(v)' = Gives(v)
  BY <1>2, TasksKept
<1>4. v.fake \in BOOLEAN
  BY <1>2 DEF Tasks
<1>5. Hold(v.dst, v.seq) \in BOOLEAN /\ Hold(v.dst, v.seq)' \in BOOLEAN
  BY DEF Hold, NeedHoldOnInputFrame
<1>6. QED
  BY <1>3, <1>4, <1>5 DEF Gives

LEMMA GivesLater ==
    ASSUME UnitTypeOK, LineTypeOK, UNCHANGED requests \/ NewRequest,
           NEW i \in Pipes, NEW e, Moves(i, e), NEW k \in Unfinished(i)', GivenLater(i, k + e)
    PROVE  GivenLater(i, k)'
<1>1. PICK j \in Unfinished(i) :
         j >= k + e /\ Line(i)[j].raw = Line(i)[k + e].raw /\ Gives(Line(i)[j])
  BY DEF GivenLater
<1>2. PICK v : v = Line(i)[j]
  OBVIOUS
<1>3. Line(i)'[k] = Line(i)[k + e]
  BY MovesUnfinished
<1>4. PICK m : m = j - e
  OBVIOUS
<1>5. m \in Unfinished(i)' /\ m >= k /\ Line(i)'[m] = v
  BY <1>1, <1>2, <1>4, MovesUnfinished
<1>6. ~v.fake /\ ~Hold(v.dst, v.seq)'
  BY <1>1, <1>2, UnfinishedGives DEF Gives
<1>7. v.raw = Line(i)'[k].raw
  BY <1>1, <1>2, <1>3
<1>8. QED
  BY <1>5, <1>6, <1>7 DEF GivenLater, Gives

(* Every entry gives its raw frame back.                                   *)
AllGive == \A i \in Pipes : \A k \in Unfinished(i) : Gives(Line(i)[k])

LEMMA GiveStill ==
    ASSUME UnitTypeOK, LineTypeOK, UNCHANGED requests \/ NewRequest,
           \A i \in Pipes : \E e : Moves(i, e), AllGive
    PROVE  AllGive'
<1>1. ASSUME NEW i \in Pipes, NEW k \in Unfinished(i)'
      PROVE  ~Line(i)'[k].fake /\ ~Hold(Line(i)[k].dst, Line(i)[k].seq)'
  <2>1. PICK e : Moves(i, e)
    OBVIOUS
  <2>2. k + e \in Unfinished(i) /\ Line(i)'[k] = Line(i)[k + e]
    BY <2>1, MovesUnfinished
  <2>3. PICK v : v = Line(i)[k + e]
    OBVIOUS
  <2>4. Gives(v)
    BY <2>2, <2>3 DEF AllGive
  <2>5. ~v.fake /\ ~Hold(v.dst, v.seq)'
    BY <2>2, <2>3, <2>4, UnfinishedGives DEF Gives
  <2>6. QED
    BY <2>2, <2>3, <2>5
<1>2. QED
  BY <1>1 DEF AllGive, Gives

(* A frame that is used and carried goes on to be, or was given up.        *)
LEMMA WaitsStill ==
    ASSUME UnitTypeOK, LineTypeOK, UNCHANGED requests \/ NewRequest,
           \A i \in Pipes : \E e : Moves(i, e), WaitsOrGives,
           \A b : Used(b) /\ Carried(b) => Carried(b)'
    PROVE  WaitsOrGives'
<1>1. ASSUME NEW i \in Pipes, NEW k \in Unfinished(i)'
      PROVE  Carried(Line(i)[k].raw)' \/ GivenLater(i, k)'
  <2>1. PICK e : Moves(i, e)
    OBVIOUS
  <2>2. PICK m : m = k + e
    OBVIOUS
  <2>3. m \in Unfinished(i) /\ Line(i)'[k] = Line(i)[m]
    BY <2>1, <2>2, MovesUnfinished
  <2>4. PICK b : b = Line(i)[m].raw
    OBVIOUS
  <2>5. Carried(b) \/ GivenLater(i, m)
    BY <2>3, <2>4 DEF WaitsOrGives
  <2>6. CASE Carried(b)
    <3>1. Used(b)
      BY <2>3, <2>4 DEF Used
    <3>2. Carried(b)' /\ b = Line(i)'[k].raw
      BY <2>3, <2>4, <2>6, <3>1
    <3>3. QED
      BY <3>2 DEF Carried, InQueue
  <2>7. CASE GivenLater(i, m)
    BY <2>1, <2>2, <2>7, GivesLater
  <2>8. QED
    BY <2>5, <2>6, <2>7
<1>2. QED
  BY <1>1 DEF WaitsOrGives

LEMMA LinesStill ==
    ASSUME LineTypeOK, UNCHANGED pipes
    PROVE  \A i \in Pipes : \E e : Moves(i, e)
<1>1. ASSUME NEW i \in Pipes PROVE Moves(i, 0)
  <2>1. Line(i)' = Line(i) /\ UNCHANGED poll
    BY DEF Line, pipes
  <2>2. PICK s \in Seq(Tasks) : s = Line(i)
    BY LineIs
  <2>3. Len(s) \in Nat /\ \A k \in 1 .. Len(s) : s[k] = s[k + 0]
    OBVIOUS
  <2>4. Len(s) - 0 = Len(s)
    BY <2>3
  <2>5. QED
    BY <2>1, <2>2, <2>3, <2>4 DEF Moves
<1>2. QED
  BY <1>1

LEMMA ShiftedMoves ==
    ASSUME NEW i, NEW e, ShiftedBy(i, e),
           e = 0 => (poll'[i].pc = "idle" => poll[i].pc = "idle"),
           e = 1 => poll[i].pc # "idle"
    PROVE  Moves(i, e)
BY DEF Moves, ShiftedBy

LEMMA PipeMoves ==
    ASSUME UnitTypeOK, LineTypeOK, LineOK, NEW i \in Pipes, Executor(i) \/ PollThread(i)
    PROVE  \A j \in Pipes : \E e : Moves(j, e)
<1>1. DOMAIN poll = Pipes /\ DOMAIN poll[i] = {"pc", "ports", "task"}
  BY DEF UnitTypeOK, TaskTypeOK
<1>2. CASE WaitTimeout(i)
  <2>1. UNCHANGED <<stageQueue, mStageTaskList, poll>>
    BY <1>2 DEF WaitTimeout
  <2>2. ASSUME NEW j \in Pipes PROVE Moves(j, 0)
    <3>1. Line(j)' = Line(j)
      BY <2>1 DEF Line
    <3>2. ShiftedBy(j, 0)
      BY <2>1, <3>1, LineStays
    <3>3. QED
      BY <2>1, <3>2, ShiftedMoves
  <2>3. QED
    BY <2>2
<1>3. CASE Process(i)
  <2>1. UNCHANGED poll
    BY <1>3 DEF Process
  <2>2. ASSUME NEW j \in Pipes PROVE Moves(j, 0)
    BY <1>3, <2>1, ProcessLines, ShiftedMoves
  <2>3. QED
    BY <2>2
<1>4. CASE HandleEvent(i) \/ OnTaskDone(i) \/ EraseSequence(i) \/ TrimAfterTask(i)
  <2>1. poll'[i].pc # "idle" /\ \A j \in Pipes \ {i} : poll'[j] = poll[j]
    BY <1>1, <1>4 DEF HandleEvent, OnTaskDone, EraseSequence, TrimAfterTask
  <2>2. ASSUME NEW j \in Pipes PROVE Moves(j, 0)
    <3>1. ShiftedBy(j, 0)
      BY <1>4, PollLines
    <3>2. poll'[j].pc = "idle" => poll[j].pc = "idle"
      BY <2>1
    <3>3. QED
      BY <3>1, <3>2, ShiftedMoves
  <2>3. QED
    BY <2>2
<1>5. CASE OnBufferDone(i)
  <2>1. \A j \in Pipes : Line(j)' = Line(j)
    BY <1>5, CallbackLines
  <2>2. poll'[i].pc # "idle" /\ \A j \in Pipes \ {i} : poll'[j] = poll[j]
    <3>1. \/ poll' = [poll EXCEPT ![i] =
               [pc |-> "done", ports |-> poll[i].ports \ {NextPort(i)},
                task |-> <<mOngoingTasks[TaskOf(NextPort(i),
                            Head(mStageTaskList[i]).dst[NextPort(i)])]>>]]
          \/ poll' = [poll EXCEPT ![i].ports = @ \ {NextPort(i)}]
      BY <1>5 DEF OnBufferDone
    <3>2. poll[i].pc = "buffers"
      BY <1>5 DEF OnBufferDone
    <3>3. QED
      BY <1>1, <3>1, <3>2
  <2>3. ASSUME NEW j \in Pipes PROVE Moves(j, 0)
    <3>1. PICK s \in Seq(Tasks) : s = Line(j)
      BY LineIs
    <3>2. Len(s) \in Nat /\ \A k \in 1 .. Len(s) : s[k] = s[k + 0]
      OBVIOUS
    <3>3. Len(s) - 0 = Len(s)
      BY <3>2
    <3>4. QED
      BY <2>1, <2>2, <3>1, <3>2, <3>3 DEF Moves
  <2>4. QED
    BY <2>3
<1>6. CASE PopTask(i)
  <2>1. poll[i].pc # "idle" /\ \A j \in Pipes \ {i} : poll'[j] = poll[j]
    BY <1>1, <1>6 DEF PopTask
  <2>2. ASSUME NEW j \in Pipes PROVE \E e : Moves(j, e)
    <3>1. ShiftedBy(j, IF j = i THEN 1 ELSE 0)
      BY <1>6, PopLines
    <3>2. CASE j = i
      <4>1. Moves(j, 1)
        BY <2>1, <3>1, <3>2, ShiftedMoves
      <4>2. QED
        BY <4>1
    <3>3. CASE j # i
      <4>1. Moves(j, 0)
        BY <2>1, <3>1, <3>3, ShiftedMoves
      <4>2. QED
        BY <4>1
    <3>4. QED
      BY <3>2, <3>3
  <2>3. QED
    BY <2>2
<1>7. QED
  BY <1>2, <1>3, <1>4, <1>5, <1>6 DEF Executor, PollThread

(* Steps that neither take a frame nor a buffer, nor list a task.          *)
Quiet ==
    /\ UNCHANGED <<lost, lastSeq, seqOf, mInputQueue, requests, scenario>> /\ Taken' = Taken
    /\ pt'.pc \in Runs <=> pt.pc \in Runs
    /\ pt.pc \in Runs => pt'.raw = pt.raw /\ pt'.dst = pt.dst
    /\ \A i \in Pipes : \E e : Moves(i, e)

LEMMA QuietSteps ==
    ASSUME UnitTypeOK, StageInv, Plain, [Next]_vars
    PROVE  Quiet \/ Capture \/ LoseFrame \/ NewRequest \/ PrepareTask \/ AddTask
<1>1. AskTypeOK /\ PtTypeOK /\ RowOK /\ LineTypeOK /\ LineOK
  BY DEF UnitTypeOK, StageInv
<1>2. CASE UNCHANGED vars
  <2>1. UNCHANGED <<lost, lastSeq, seqOf, mInputQueue, requests, scenario, feeding, mOutputQueue, pt>>
    BY <1>2 DEF vars, producer, asked
  <2>2. UNCHANGED pipes
    BY <1>2 DEF vars
  <2>3. Taken' = Taken
    BY <1>1, <2>1, RowElsewhere
  <2>4. QED
    BY <1>1, <2>1, <2>2, <2>3, LinesStill DEF Quiet
<1>3. CASE HandleQueueBuffer
  <2>1. /\ UNCHANGED <<lost, lastSeq, seqOf, mInputQueue, requests, scenario, pt>>
        /\ UNCHANGED pipes
    BY <1>3 DEF HandleQueueBuffer, producer
  <2>2. Taken' = Taken
    BY <1>1, <1>3, HandleQueueBufferRows
  <2>3. QED
    BY <1>1, <2>1, <2>2, LinesStill DEF Quiet
<1>4. CASE \/ ProcessNewFrame \/ NothingToPrepare \/ SaveRawBuffer \/ TrimRawBuffers
           \/ FetchSource \/ DispatchTask \/ ExecuteNode
  <2>1. UNCHANGED <<lost, lastSeq, seqOf, mInputQueue, requests, scenario>>
    BY <1>4 DEF ProcessNewFrame, NothingToPrepare, SaveRawBuffer, TrimRawBuffers, FetchSource,
           DispatchTask, ExecuteNode, producer, asked
  <2>2. UNCHANGED <<stageQueue, mStageTaskList, poll>>
    BY <1>4 DEF ProcessNewFrame, NothingToPrepare, SaveRawBuffer, TrimRawBuffers, FetchSource,
           DispatchTask, ExecuteNode, pipes
  <2>3. Taken' = Taken
    BY <1>1, <1>4, ProcessNewFrameRows, RestOfThreadRows
  <2>4. /\ pt'.pc \in Runs <=> pt.pc \in Runs
        /\ pt.pc \in Runs => pt'.raw = pt.raw /\ pt'.dst = pt.dst
    <3>1. CASE ProcessNewFrame \/ NothingToPrepare \/ SaveRawBuffer \/ TrimRawBuffers \/ ExecuteNode
      <4>1. pt.pc \in {"wait", "save", "trim", "execute"}
        BY <3>1 DEF ProcessNewFrame, NothingToPrepare, SaveRawBuffer, TrimRawBuffers, ExecuteNode
      <4>2. CASE ProcessNewFrame
        BY <4>2 DEF ProcessNewFrame, Runs, Idle
      <4>3. CASE NothingToPrepare
        BY <1>1, <4>3 DEF NothingToPrepare, Runs, PtTypeOK
      <4>4. CASE SaveRawBuffer \/ TrimRawBuffers
        BY <1>1, <4>4 DEF SaveRawBuffer, TrimRawBuffers, Runs, PtTypeOK
      <4>5. CASE ExecuteNode
        BY <4>5 DEF ExecuteNode, Runs, Idle
      <4>6. QED
        BY <3>1, <4>2, <4>3, <4>4, <4>5
    <3>2. CASE FetchSource \/ DispatchTask
      <4>1. pt.pc \in {"fetch", "dispatch"}
        BY <3>2 DEF FetchSource, DispatchTask
      <4>2. pt'.pc \in Runs /\ pt'.raw = pt.raw /\ pt'.dst = pt.dst
        BY <1>1, <3>2 DEF FetchSource, DispatchTask, Runs, PtTypeOK
      <4>3. QED
        BY <4>1, <4>2 DEF Runs
    <3>3. QED
      BY <1>4, <3>1, <3>2
  <2>5. ASSUME NEW i \in Pipes PROVE \E e : Moves(i, e)
    <3>1. Line(i)' = Line(i)
      BY <2>2 DEF Line
    <3>2. ShiftedBy(i, 0)
      BY <1>1, <2>2, <3>1, LineStays
    <3>3. Moves(i, 0)
      BY <2>2, <3>2, ShiftedMoves
    <3>4. QED
      BY <3>3
  <2>6. QED
    BY <2>1, <2>3, <2>4, <2>5 DEF Quiet
<1>5. ASSUME NEW i \in Pipes, Executor(i) \/ PollThread(i) PROVE Quiet
  <2>1. UNCHANGED <<lost, lastSeq, seqOf, mInputQueue, scenario>>
    BY <1>5 DEF Executor, PollThread, WaitTimeout, Process, HandleEvent, OnBufferDone, OnTaskDone,
           EraseSequence, TrimAfterTask, PopTask, producer
  <2>2. Taken' = Taken /\ UNCHANGED <<requests, pt>>
    BY <1>1, <1>5, PipeRows
  <2>3. \A j \in Pipes : \E e : Moves(j, e)
    BY <1>1, <1>5, PipeMoves
  <2>4. QED
    BY <2>1, <2>2, <2>3 DEF Quiet
<1>6. QED
  BY <1>2, <1>3, <1>4, <1>5 DEF Next, ProcessThread

LEMMA DueStays ==
    ASSUME UNCHANGED requests, Taken' = Taken
    PROVE  FirstDue' = FirstDue
BY DEF FirstDue

(* What prepareTask decides, by the setting that is due.                   *)
LEMMA PrepareDecides ==
    ASSUME UnitTypeOK, StageInv, Plain, ~scenario.zsl, SettingsOK, PrepareTask,
           NEW s, s = seqOf[pt.raw], NEW d, d = FirstDue
    PROVE  /\ s \in Int /\ d \in Int /\ Len(mInputQueue) \in Nat \ {0} /\ pt.raw = mInputQueue[1]
           /\ HoldsNow <=> s > d
           /\ mInputQueue' = IF s > d THEN mInputQueue ELSE Tail(mInputQueue)
           /\ pt'.pc = (IF s >= d THEN "fetch" ELSE "execute") /\ pt'.raw = pt.raw /\ pt'.dst = pt.dst
           /\ UNCHANGED <<lost, lastSeq, seqOf, requests, scenario>> /\ UNCHANGED pipes
           /\ FirstDue' \in Int
           /\ Exact => FirstDue' >= (IF s >= d THEN d + 1 ELSE d)
           /\ Shared => FirstDue' <= (IF s >= d THEN d + 1 ELSE d)
<1>1. AskTypeOK /\ PtTypeOK /\ FrontOK /\ RowOK /\ pt.pc = "pop" /\ pt.pc \in Chooses
  BY DEF UnitTypeOK, StageInv, PrepareTask, Chooses
<1>2. Setting(pt.dst) = d /\ d >= 0 /\ d \in Int /\ Taken < Len(requests)
  BY <1>1, SettingDue
<1>3. s \in Int
  <2>1. pt.raw \in Raws
    BY <1>1 DEF PtTypeOK
  <2>2. seqOf[pt.raw] \in Seqs \cup {-1}
    BY <2>1 DEF UnitTypeOK, RawTypeOK
  <2>3. QED
    BY <2>2, ProcessingAssumption DEF Seqs
<1>4. mInputQueue # <<>> /\ Head(mInputQueue) = pt.raw
  BY <1>1 DEF FrontOK
<1>5. Len(mInputQueue) \in Nat \ {0} /\ pt.raw = mInputQueue[1]
  BY <1>4, HeadTailIs DEF UnitTypeOK, RawTypeOK
<1>6. HoldsNow <=> s > d
  BY <1>2, <1>3 DEF HoldsNow, Hold, NeedHoldOnInputFrame
<1>7. RunsNow <=> s >= d
  BY <1>2, <1>3 DEF RunsNow, NeedExecutePipe
<1>8. Reprocessed(pt.dst) = -1
  BY DEF Reprocessed
<1>9. /\ mInputQueue' = IF ~HoldsNow /\ Reprocessed(pt.dst) = -1 THEN Tail(mInputQueue) ELSE mInputQueue
      /\ pt'.pc = (IF RunsNow THEN "fetch" ELSE "execute") /\ pt'.raw = pt.raw /\ pt'.dst = pt.dst
      /\ UNCHANGED <<lost, lastSeq, seqOf, requests, scenario>> /\ UNCHANGED pipes
  BY <1>1, PrepareExact DEF asked
<1>10. RowOK' /\ Taken' = Taken + (IF RunsNow THEN 1 ELSE 0)
  BY <1>1, PrepareRows
<1>13. CASE s >= d
  <2>1. Taken' = Taken + 1
    BY <1>7, <1>10, <1>13
  <2>2. /\ FirstDue' \in Int
        /\ Exact => FirstDue' >= d + 1
        /\ Shared => FirstDue' <= d + 1
    BY <1>1, <1>2, <1>9, <2>1, TakenDue
  <2>3. QED
    BY <1>2, <1>3, <1>5, <1>6, <1>7, <1>8, <1>9, <1>13, <2>2
<1>14. CASE ~(s >= d)
  <2>1. Taken' = Taken
    BY <1>1, <1>7, <1>10, <1>14 DEF RowOK
  <2>2. FirstDue' = d
    BY <1>9, <2>1, DueStays
  <2>3. QED
    BY <1>2, <1>3, <1>5, <1>6, <1>7, <1>8, <1>9, <1>14, <2>2
<1>15. QED
  BY <1>13, <1>14

(* The job that is added without HAL ZSL is the frame's own.               *)
LEMMA OwnJob ==
    ASSUME UnitTypeOK, CoverInv, FlightInv, StageInv, ~scenario.zsl, AddTask
    PROVE  /\ pt.pc \in Runs /\ pt'.pc = "execute"
           /\ NewTask.raw = pt.raw /\ NewTask.seq = seqOf[pt.raw] /\ NewTask.dst = pt.dst
           /\ NewTask.fake = FALSE
<1>1. pt.pc = "add" /\ pt.pc \in Runs
  BY DEF AddTask, Runs
<1>2. pt.todo \in Seq(Jobs) /\ Len(pt.todo) \in Nat /\ Len(pt.todo) >= 1 /\ Head(pt.todo) = pt.todo[1]
  BY <1>1, TodoTail
<1>3. Head(pt.todo).kind = "main"
  BY <1>1 DEF FlightInv, OwnOK
<1>4. 1 \in 1 .. Len(pt.todo)
  BY <1>2
<1>5. Len(pt.todo) = 1
  <2>1. \A k \in 1 .. Len(pt.todo) : pt.todo[k].kind = "main" => k = Len(pt.todo)
    BY <1>1 DEF UnitTypeOK, TodoOK
  <2>2. QED
    BY <1>2, <1>3, <1>4, <2>1
<1>6. pt.todo[1].dst = pt.dst
  BY <1>1, <1>2, <1>3, <1>4 DEF CoverInv, MainWritesAll
<1>7. pt.src = pt.raw
  BY <1>1, <1>3 DEF CoverInv, SourceOK
<1>8. pt'.pc = "execute"
  BY <1>5 DEF AddTask, UnitTypeOK, PtTypeOK
<1>9. QED
  BY <1>1, <1>2, <1>3, <1>6, <1>7, <1>8 DEF NewTask

(* What the pipes work on once a task was added.                           *)
LEMMA AddUnfinished ==
    ASSUME UnitTypeOK, LineTypeOK, AddTask, NEW i \in Pipes, NEW k \in Unfinished(i)'
    PROVE  \/ k \in Unfinished(i) /\ Line(i)'[k] = Line(i)[k]
           \/ i \in Active(NewTask) /\ k = Len(Line(i)) + 1 /\ Line(i)'[k] = PieceOf(i)
<1>1. PICK c \in Nat : c = Len(Line(i))
  BY AddLines
<1>2. /\ Len(Line(i)') = c + (IF i \in Active(NewTask) THEN 1 ELSE 0)
      /\ \A m \in 1 .. c : Line(i)'[m] = Line(i)[m]
  BY <1>1, AddLines
<1>3. poll' = poll
  BY DEF AddTask
<1>4. k \in 1 .. Len(Line(i)') /\ (k > 1 \/ poll[i].pc = "idle")
  BY <1>3 DEF Unfinished
<1>5. CASE k \in 1 .. c
  <2>1. k \in Unfinished(i)
    BY <1>1, <1>4, <1>5 DEF Unfinished
  <2>2. QED
    BY <1>2, <1>5, <2>1
<1>6. CASE k \notin 1 .. c
  <2>1. k = c + 1 /\ i \in Active(NewTask)
    BY <1>2, <1>4, <1>6
  <2>2. Line(i)'[k] = PieceOf(i)
    BY <1>1, <2>1, AddLines
  <2>3. QED
    BY <1>1, <2>1, <2>2
<1>7. QED
  BY <1>5, <1>6

(* The part of a task for a pipe gives the raw frame back if the task does.*)
LEMMA PieceGives ==
    ASSUME UnitTypeOK, StageInv, AddTask, NEW i \in Active(NewTask)
    PROVE  /\ PieceOf(i).raw = NewTask.raw
           /\ Gives(NewTask) => Gives(PieceOf(i))
<1>1. NewTask \in Tasks /\ \A p \in Ports : NewTask.dst[p] \in {None, Taken}
  BY AddExact, NewWritesNew DEF StageInv
<1>2. PICK e : e = NewTask
  OBVIOUS
<1>3. PICK c : c = PieceOf(i)
  OBVIOUS
<1>4. /\ c.raw = e.raw /\ c.seq = e.seq /\ c.fake = e.fake
      /\ \A p \in Ports : c.dst[p] = IF PipeOf(p) = i THEN e.dst[p] ELSE None
  BY <1>1, <1>2, <1>3, PieceIs
<1>5. PICK r : r = Taken
  OBVIOUS
<1>6. \A p \in Ports : e.dst[p] \in {None, r}
  BY <1>1, <1>2, <1>5
<1>7. \A p \in Ports : c.dst[p] \in {None, r}
  BY <1>4, <1>6
<1>8. PICK q \in Ports : PipeOf(q) = i /\ e.dst[q] # None
  BY <1>2 DEF Active, Writes
<1>9. c.dst[q] # None
  BY <1>4, <1>8
<1>10. Setting(e.dst) = requests[r].setting
  BY <1>6, <1>8, SettingOfRow
<1>11. Setting(c.dst) = requests[r].setting
  BY <1>7, <1>9, SettingOfRow
<1>12. Hold(c.dst, c.seq) = Hold(e.dst, e.seq)
  BY <1>4, <1>10, <1>11 DEF Hold
<1>13. QED
  BY <1>2, <1>3, <1>4, <1>12 DEF Gives

-----------------------------------------------------------------------------
(* One frame per request at least, and none lost: a frame that waits is    *)
(* never newer than the setting that is due, and no task leaves its frame  *)
(* to the next request.                                                    *)

ExactOrder ==
    /\ lost = 0
    /\ \A k \in 1 .. Len(mInputQueue) : seqOf[mInputQueue[k]] = lastSeq - Len(mInputQueue) + k
    /\ FirstDue > lastSeq - Len(mInputQueue)
    /\ pt.pc \in Runs => ~HoldsNow
    /\ AllGive

(* The frame captured is the last of the queue.                            *)
LEMMA CaptureQueues ==
    ASSUME UnitTypeOK, FlightInv, Capture, NEW n, n = Len(mInputQueue)
    PROVE  /\ n \in Nat /\ Len(mInputQueue') = n + 1
           /\ \E b \in free : mInputQueue'[n + 1] = b /\ seqOf'[b] = lastSeq + 1
           /\ \A k \in 1 .. n : /\ mInputQueue'[k] = mInputQueue[k] /\ mInputQueue[k] \in Raws
                                /\ seqOf'[mInputQueue[k]] = seqOf[mInputQueue[k]]
           /\ lastSeq \in Int /\ lastSeq' = lastSeq + 1
           /\ \A b \in Raws \ free : seqOf'[b] = seqOf[b]
           /\ UNCHANGED <<scenario, lost, requests, pt>> /\ UNCHANGED pipes
<1>1. PICK b \in free : /\ mInputQueue' = Append(mInputQueue, b)
                        /\ seqOf' = [seqOf EXCEPT ![b] = lastSeq + 1]
  BY CaptureTakes DEF UnitTypeOK
<1>2. b \in Raws /\ mInputQueue \in Seq(Raws) /\ seqOf \in [Raws -> Seqs \cup {-1}]
  BY DEF UnitTypeOK, RawTypeOK
<1>3. PICK q : q = mInputQueue
  OBVIOUS
<1>4. /\ Len(Append(q, b)) = Len(q) + 1 /\ Append(q, b)[Len(q) + 1] = b
      /\ \A k \in 1 .. Len(q) : Append(q, b)[k] = q[k]
  BY <1>2, <1>3, AppendProperties
<1>5. \A c \in Raws \ free : seqOf'[c] = seqOf[c]
  BY <1>1, <1>2
<1>6. ASSUME NEW k \in 1 .. n
      PROVE  mInputQueue[k] \in Raws /\ seqOf'[mInputQueue[k]] = seqOf[mInputQueue[k]]
  <2>1. mInputQueue[k] \in Raws
    BY <1>2
  <2>2. mInputQueue[k] \notin free
    BY DEF FlightInv, QueueOK
  <2>3. QED
    BY <1>5, <2>1, <2>2
<1>7. seqOf'[b] = lastSeq + 1
  BY <1>1, <1>2
<1>8. lastSeq \in Int /\ n \in Nat
  BY ProcessingAssumption, <1>2 DEF UnitTypeOK, RawTypeOK, Seqs
<1>9. /\ lastSeq' = lastSeq + 1 /\ UNCHANGED <<scenario, lost, requests, pt>> /\ UNCHANGED pipes
  BY DEF Capture, asked
<1>10. QED
  BY <1>1, <1>3, <1>4, <1>5, <1>6, <1>7, <1>8, <1>9

LEMMA EnvironmentExact ==
    ASSUME UnitTypeOK, FlightInv, StageInv, SettingsOK, Exact, ExactOrder, ~scenario.zsl,
           Capture \/ LoseFrame \/ NewRequest
    PROVE  ExactOrder'
<1>0. AskTypeOK /\ RowOK /\ FrontOK /\ LineTypeOK
  BY DEF UnitTypeOK, StageInv
<1>1. CASE Capture
  <2>1. PICK n : n = Len(mInputQueue)
    OBVIOUS
  <2>2. PICK l : l = lastSeq
    OBVIOUS
  <2>3. /\ n \in Nat /\ Len(mInputQueue') = n + 1 /\ l \in Int /\ lastSeq' = l + 1
        /\ \E b \in free : mInputQueue'[n + 1] = b /\ seqOf'[b] = l + 1
        /\ \A k \in 1 .. n : /\ mInputQueue'[k] = mInputQueue[k]
                             /\ seqOf'[mInputQueue[k]] = seqOf[mInputQueue[k]]
        /\ \A b \in Raws \ free : seqOf'[b] = seqOf[b]
        /\ UNCHANGED <<scenario, lost, requests, pt>> /\ UNCHANGED pipes
    BY <1>1, <2>1, <2>2, CaptureQueues
  <2>4. Taken' = Taken
    BY <1>1, RowElsewhere, <1>0, <2>3 DEF Capture, asked
  <2>5. FirstDue' = FirstDue /\ FirstDue \in Int
    BY <1>0, <2>3, <2>4, DueStays, FirstDueTyped
  <2>6. ASSUME NEW k \in 1 .. n + 1 PROVE seqOf'[mInputQueue'[k]] = (l + 1) - (n + 1) + k
    <3>1. CASE k \in 1 .. n
      BY <2>1, <2>2, <2>3, <3>1 DEF ExactOrder
    <3>2. CASE k \notin 1 .. n
      BY <2>3, <3>2
    <3>3. QED
      BY <3>1, <3>2
  <2>7. FirstDue' > (l + 1) - (n + 1)
    BY <2>1, <2>2, <2>3, <2>5 DEF ExactOrder
  <2>8. pt'.pc \in Runs => ~HoldsNow'
    <3>1. SUFFICES ASSUME pt.pc \in Runs PROVE ~HoldsNow'
      BY <2>3
    <3>2. pt.raw \in Raws \ free /\ ~HoldsNow
      BY <3>1 DEF ExactOrder, UnitTypeOK, PtTypeOK, FlightInv, OwnOK
    <3>3. \A x, y : Hold(x, y)' = Hold(x, y)
      BY <2>3, SameHold
    <3>4. seqOf'[pt.raw] = seqOf[pt.raw]
      BY <2>3, <3>2
    <3>5. HoldsNow' = HoldsNow
      BY <2>3, <3>3, <3>4 DEF HoldsNow
    <3>6. QED
      BY <3>2, <3>5
  <2>9. AllGive'
    BY <1>0, <2>3, LinesStill, GiveStill DEF ExactOrder
  <2>10. QED
    BY <2>3, <2>6, <2>7, <2>8, <2>9 DEF ExactOrder
<1>2. CASE LoseFrame
  BY <1>2 DEF LoseFrame, ExactOrder, Exact
<1>3. CASE NewRequest
  <2>1. /\ UNCHANGED <<scenario, lost, lastSeq, seqOf, mInputQueue, pt>> /\ UNCHANGED pipes
    BY <1>3 DEF NewRequest, producer
  <2>2. PICK r : Asks(r)
    BY <1>3, NewRequestAsks
  <2>3. Taken' = Taken
    BY <1>0, <1>3, NewRequestRows
  <2>4. FirstDue \in Int /\ FirstDue' \in Int /\ FirstDue' >= FirstDue
    BY <1>0, <2>2, <2>3, AskedDue
  <2>5. FirstDue' > lastSeq - Len(mInputQueue)
    <3>1. PICK n : n = lastSeq - Len(mInputQueue)
      OBVIOUS
    <3>2. lastSeq \in Int /\ Len(mInputQueue) \in Nat
      BY ProcessingAssumption DEF UnitTypeOK, RawTypeOK, Seqs
    <3>3. n \in Int /\ FirstDue > n
      BY <3>1, <3>2 DEF ExactOrder
    <3>4. QED
      BY <2>4, <3>1, <3>3
  <2>6. pt.pc \in Runs => ~HoldsNow'
    <3>1. SUFFICES ASSUME pt.pc \in Runs PROVE ~HoldsNow'
      OBVIOUS
    <3>2. pt.dst \in Asked
      BY <3>1 DEF UnitTypeOK, PtTypeOK
    <3>3. Setting(pt.dst)' = Setting(pt.dst)
      <4>1. PICK x \in Asked : x = pt.dst
        BY <3>2
      <4>2. Setting(x)' = Setting(x)
        BY <1>0, <2>2, SettingKept DEF Asks
      <4>3. pt'.dst = x
        BY <2>1, <4>1
      <4>4. Setting(pt.dst) = Setting(x)
        BY <4>1
      <4>5. Setting(pt.dst)' = Setting(x)'
        BY <4>3 DEF Setting
      <4>6. QED
        BY <4>2, <4>4, <4>5
    <3>4. QED
      BY <2>1, <3>1, <3>3 DEF HoldsNow, Hold, NeedHoldOnInputFrame, ExactOrder
  <2>7. AllGive'
    BY <1>0, <1>3, <2>1, LinesStill, GiveStill DEF ExactOrder
  <2>8. QED
    BY <2>1, <2>5, <2>6, <2>7 DEF ExactOrder
<1>4. QED
  BY <1>1, <1>2, <1>3

LEMMA PrepareExactOrder ==
    ASSUME UnitTypeOK, FlightInv, StageInv, Plain, SettingsOK, Exact, ExactOrder, ~scenario.zsl,
           PrepareTask
    PROVE  ExactOrder'
<1>1. PICK s : s = seqOf[pt.raw]
  OBVIOUS
<1>2. PICK d : d = FirstDue
  OBVIOUS
<1>3. PICK q : q = mInputQueue
  OBVIOUS
<1>4. PICK l : l = lastSeq
  OBVIOUS
<1>5. PICK n : n = Len(q)
  OBVIOUS
<1>6. /\ s \in Int /\ d \in Int /\ n \in Nat \ {0} /\ pt.raw = q[1]
      /\ HoldsNow <=> s > d
      /\ mInputQueue' = IF s > d THEN q ELSE Tail(q)
      /\ pt'.pc = (IF s >= d THEN "fetch" ELSE "execute") /\ pt'.raw = pt.raw /\ pt'.dst = pt.dst
      /\ UNCHANGED <<lost, lastSeq, seqOf, requests, scenario>> /\ UNCHANGED pipes
      /\ FirstDue' \in Int
      /\ FirstDue' >= (IF s >= d THEN d + 1 ELSE d)
  BY <1>1, <1>2, <1>3, <1>5, PrepareDecides
<1>7. /\ \A k \in 1 .. n : seqOf[q[k]] = l - n + k
      /\ d > l - n /\ lost = 0 /\ l \in Int
  BY <1>2, <1>3, <1>4, <1>5, ProcessingAssumption DEF ExactOrder, UnitTypeOK, RawTypeOK, Seqs
<1>8. s = l - n + 1
  BY <1>1, <1>6, <1>7
<1>9. s <= d
  BY <1>6, <1>7, <1>8
<1>10. q \in Seq(Raws) /\ q # <<>>
  BY <1>3, <1>5, <1>6 DEF UnitTypeOK, RawTypeOK
<1>11. PICK t : t = Tail(q)
  OBVIOUS
<1>12. Len(t) = n - 1 /\ \A k \in 1 .. n - 1 : t[k] = q[k + 1]
  BY <1>5, <1>10, <1>11, HeadTailIs
<1>13. mInputQueue' = t
  BY <1>6, <1>9, <1>11
<1>14. ASSUME NEW k \in 1 .. n - 1 PROVE seqOf[t[k]] = l - (n - 1) + k
  <2>1. k + 1 \in 1 .. n
    BY <1>6
  <2>2. seqOf[q[k + 1]] = l - n + (k + 1)
    BY <1>7, <2>1
  <2>3. QED
    BY <1>6, <1>7, <1>12, <2>2
<1>15. FirstDue' > l - (n - 1)
  BY <1>6, <1>7, <1>8, <1>9
<1>16. pt'.pc \in Runs => ~HoldsNow'
  <2>1. \A x, y : Hold(x, y)' = Hold(x, y)
    BY <1>6, SameHold
  <2>2. HoldsNow' = HoldsNow
    BY <1>6, <2>1 DEF HoldsNow
  <2>3. QED
    BY <1>6, <1>9, <2>2
<1>17. AllGive'
  BY <1>6, LinesStill, GiveStill DEF ExactOrder, StageInv
<1>18. QED
  BY <1>4, <1>6, <1>7, <1>12, <1>13, <1>14, <1>15, <1>16, <1>17 DEF ExactOrder

LEMMA AddExactOrder ==
    ASSUME UnitTypeOK, CoverInv, FlightInv, StageInv, ExactOrder, ~scenario.zsl, AddTask
    PROVE  ExactOrder'
<1>1. /\ UNCHANGED <<scenario, lost, lastSeq, seqOf, mInputQueue, requests>>
  BY DEF AddTask, producer, asked
<1>2. /\ pt.pc \in Runs /\ pt'.pc = "execute"
      /\ NewTask.raw = pt.raw /\ NewTask.seq = seqOf[pt.raw] /\ NewTask.dst = pt.dst
      /\ NewTask.fake = FALSE
  BY OwnJob
<1>3. Taken' = Taken
  BY RestOfThreadRows DEF UnitTypeOK, StageInv
<1>4. FirstDue' = FirstDue
  BY <1>1, <1>3, DueStays
<1>5. Gives(NewTask)
  BY <1>2 DEF ExactOrder, HoldsNow, Gives
<1>6. ASSUME NEW i \in Pipes, NEW k \in Unfinished(i)'
      PROVE  ~Line(i)'[k].fake /\ ~Hold(Line(i)[k].dst, Line(i)[k].seq)'
  <2>1. PICK v : v = Line(i)'[k]
    OBVIOUS
  <2>2. Gives(v)
    <3>1. CASE k \in Unfinished(i) /\ Line(i)'[k] = Line(i)[k]
      BY <2>1, <3>1 DEF ExactOrder, AllGive
    <3>2. CASE i \in Active(NewTask) /\ k = Len(Line(i)) + 1 /\ Line(i)'[k] = PieceOf(i)
      BY <1>5, <2>1, <3>2, PieceGives
    <3>3. QED
      BY <3>1, <3>2, AddUnfinished DEF StageInv
  <2>3. Hold(v.dst, v.seq)' = Hold(v.dst, v.seq)
    BY <1>1, SameHold
  <2>4. QED
    BY <2>1, <2>2, <2>3 DEF Gives
<1>7. AllGive'
  BY <1>6 DEF AllGive, Gives
<1>8. QED
  BY <1>1, <1>2, <1>4, <1>7 DEF ExactOrder, Runs

LEMMA QuietExact ==
    ASSUME UnitTypeOK, StageInv, ExactOrder, Quiet
    PROVE  ExactOrder'
<1>1. FirstDue' = FirstDue
  BY DueStays DEF Quiet
<1>2. \A x, y : Hold(x, y)' = Hold(x, y)
  BY SameHold DEF Quiet
<1>3. pt'.pc \in Runs => ~HoldsNow'
  BY <1>2 DEF Quiet, HoldsNow, ExactOrder
<1>4. AllGive'
  BY GiveStill DEF Quiet, ExactOrder, StageInv
<1>5. QED
  BY <1>1, <1>3, <1>4 DEF Quiet, ExactOrder

-----------------------------------------------------------------------------
(* One pipe, and no frame between the settings of two requests: a frame    *)
(* that is used while it waits is taken by the next request.               *)

SharedOrder ==
    /\ \A k \in 1 .. Len(mInputQueue) : Used(mInputQueue[k]) => FirstDue <= seqOf[mInputQueue[k]]
    /\ pt.pc \in Runs /\ InQueue(pt.raw) => FirstDue <= seqOf[pt.raw]
    /\ WaitsOrGives

LEMMA CaptureShared ==
    ASSUME UnitTypeOK, CoverInv, FlightInv, StageInv, SharedOrder, ~scenario.zsl, Capture
    PROVE  SharedOrder'
<1>0. AskTypeOK /\ RowOK /\ FrontOK /\ LineTypeOK
  BY DEF UnitTypeOK, StageInv
<1>1. PICK n : n = Len(mInputQueue)
  OBVIOUS
<1>2. /\ n \in Nat /\ Len(mInputQueue') = n + 1
      /\ \E b \in free : mInputQueue'[n + 1] = b
      /\ \A k \in 1 .. n : /\ mInputQueue'[k] = mInputQueue[k]
                           /\ seqOf'[mInputQueue[k]] = seqOf[mInputQueue[k]]
      /\ \A b \in Raws \ free : seqOf'[b] = seqOf[b]
      /\ UNCHANGED <<scenario, requests, pt>> /\ UNCHANGED pipes
  BY <1>1, CaptureQueues
<1>3. Taken' = Taken
  BY RowElsewhere, <1>0, <1>2 DEF Capture, asked
<1>4. FirstDue' = FirstDue
  BY <1>2, <1>3, DueStays
<1>5. \A i \in Pipes : \E e : Moves(i, e)
  BY <1>0, <1>2, LinesStill
<1>6. ASSUME NEW k \in 1 .. n + 1, Used(mInputQueue[k])' PROVE FirstDue' <= seqOf'[mInputQueue'[k]]
  <2>1. PICK c : c = mInputQueue'[k]
    OBVIOUS
  <2>2. Used(c)'
    BY <1>6, <2>1 DEF Used
  <2>3. Used(c)
    BY <1>5, <2>2, UsedLess
  <2>4. c \notin free
    BY <2>3, UsedNotFree DEF SharedOrder
  <2>5. k \in 1 .. n
    BY <1>2, <2>1, <2>4
  <2>6. c = mInputQueue[k] /\ seqOf'[c] = seqOf[c]
    BY <1>2, <2>1, <2>5
  <2>7. FirstDue <= seqOf[c]
    BY <1>1, <2>3, <2>5, <2>6 DEF SharedOrder
  <2>8. QED
    BY <1>4, <2>1, <2>6, <2>7
<1>7. ASSUME pt'.pc \in Runs, InQueue(pt.raw)' PROVE FirstDue' <= seqOf'[pt'.raw]
  <2>1. PICK r : r = pt.raw
    OBVIOUS
  <2>2. r \in Raws \ free
    BY <1>2, <1>7, <2>1 DEF UnitTypeOK, PtTypeOK, FlightInv, OwnOK
  <2>3. PICK k \in 1 .. n + 1 : mInputQueue'[k] = r
    BY <1>2, <1>7, <2>1 DEF InQueue
  <2>4. k \in 1 .. n
    BY <1>2, <2>2, <2>3
  <2>5. InQueue(r)
    BY <1>1, <1>2, <2>3, <2>4 DEF InQueue
  <2>6. FirstDue <= seqOf[r]
    BY <1>2, <1>7, <2>1, <2>5 DEF SharedOrder
  <2>7. QED
    BY <1>2, <1>4, <2>1, <2>2, <2>6
<1>8. WaitsOrGives'
  <2>1. ASSUME NEW b, Carried(b) PROVE Carried(b)'
    <3>1. CASE InQueue(b)
      <4>1. PICK k \in 1 .. n : mInputQueue[k] = b
        BY <1>1, <3>1 DEF InQueue
      <4>2. k \in 1 .. n + 1 /\ mInputQueue'[k] = b
        BY <1>2, <4>1
      <4>3. QED
        BY <1>2, <4>2 DEF Carried, InQueue
    <3>2. CASE pt.pc \in Runs /\ pt.raw = b
      BY <1>2, <3>2 DEF Carried
    <3>3. QED
      BY <2>1, <3>1, <3>2 DEF Carried
  <2>2. QED
    BY <1>0, <1>2, <1>5, <2>1, WaitsStill DEF SharedOrder
<1>9. QED
  BY <1>2, <1>6, <1>7, <1>8 DEF SharedOrder

(* Steps that keep the frames that wait and those that are used.           *)
LEMMA SharedKept ==
    ASSUME UnitTypeOK, StageInv, SharedOrder, UNCHANGED requests \/ NewRequest,
           UNCHANGED <<mInputQueue, seqOf>>, FirstDue' <= FirstDue,
           FirstDue \in Int, FirstDue' \in Int,
           pt'.pc \in Runs <=> pt.pc \in Runs,
           pt.pc \in Runs => pt'.raw = pt.raw,
           \A i \in Pipes : \E e : Moves(i, e)
    PROVE  SharedOrder'
<1>1. \A b \in Raws : seqOf[b] \in Int
  BY ProcessingAssumption DEF UnitTypeOK, RawTypeOK, Seqs
<1>2. \A x \in Int : FirstDue <= x => FirstDue' <= x
  OBVIOUS
<1>3. ASSUME NEW k \in 1 .. Len(mInputQueue), Used(mInputQueue[k])'
      PROVE  FirstDue' <= seqOf[mInputQueue[k]]
  <2>1. PICK c : c = mInputQueue[k]
    OBVIOUS
  <2>2. Used(c)'
    BY <1>3, <2>1 DEF Used
  <2>3. Used(c)
    BY <2>2, UsedLess
  <2>4. FirstDue <= seqOf[c]
    BY <2>1, <2>3 DEF SharedOrder
  <2>5. c \in Raws
    BY <2>1 DEF UnitTypeOK, RawTypeOK
  <2>6. QED
    BY <1>1, <1>2, <2>1, <2>4, <2>5
<1>4. ASSUME pt'.pc \in Runs, InQueue(pt.raw)' PROVE FirstDue' <= seqOf[pt'.raw]
  <2>1. PICK r : r = pt.raw
    OBVIOUS
  <2>2. r = pt'.raw /\ InQueue(r) /\ r \in Raws
    BY <1>4, <2>1 DEF InQueue, UnitTypeOK, PtTypeOK
  <2>3. FirstDue <= seqOf[r]
    BY <1>4, <2>1, <2>2 DEF SharedOrder
  <2>4. QED
    BY <1>1, <1>2, <2>2, <2>3
<1>5. \A b : Carried(b) => Carried(b)'
  BY DEF Carried, InQueue
<1>6. WaitsOrGives'
  BY <1>5, WaitsStill DEF SharedOrder, StageInv
<1>7. QED
  BY <1>3, <1>4, <1>6 DEF SharedOrder

LEMMA PrepareShared ==
    ASSUME UnitTypeOK, FlightInv, StageInv, Plain, SettingsOK, Shared, SharedOrder, ~scenario.zsl,
           PrepareTask
    PROVE  SharedOrder'
<1>1. PICK s : s = seqOf[pt.raw]
  OBVIOUS
<1>2. PICK d : d = FirstDue
  OBVIOUS
<1>3. PICK q : q = mInputQueue
  OBVIOUS
<1>4. PICK n : n = Len(q)
  OBVIOUS
<1>5. /\ s \in Int /\ d \in Int /\ n \in Nat \ {0} /\ pt.raw = q[1]
      /\ mInputQueue' = IF s > d THEN q ELSE Tail(q)
      /\ pt'.pc = (IF s >= d THEN "fetch" ELSE "execute") /\ pt'.raw = pt.raw /\ pt'.dst = pt.dst
      /\ UNCHANGED <<seqOf, requests>> /\ UNCHANGED pipes
      /\ FirstDue' \in Int
      /\ FirstDue' <= (IF s >= d THEN d + 1 ELSE d)
  BY <1>1, <1>2, <1>3, <1>4, PrepareDecides
<1>6. PICK t : t = Tail(q)
  OBVIOUS
<1>7. q \in Seq(Raws) /\ q # <<>>
  BY <1>3, <1>4, <1>5 DEF UnitTypeOK, RawTypeOK
<1>8. Len(t) = n - 1 /\ \A k \in 1 .. n - 1 : t[k] = q[k + 1]
  BY <1>4, <1>6, <1>7, HeadTailIs
<1>9. \A k \in 1 .. n : seqOf[q[k]] \in Int
  <2>1. \A k \in 1 .. n : q[k] \in Raws
    BY <1>4, <1>7
  <2>2. \A b \in Raws : seqOf[b] \in Int
    BY ProcessingAssumption DEF UnitTypeOK, RawTypeOK, Seqs
  <2>3. QED
    BY <2>1, <2>2
<1>10. \A k \in 2 .. n : seqOf[q[k]] > s
  <2>1. \A k \in 2 .. n : 1 \in 1 .. n /\ k \in 1 .. n /\ 1 < k
    BY <1>5
  <2>2. \A k \in 2 .. n : seqOf[q[1]] < seqOf[q[k]]
    BY <1>3, <1>4, <2>1 DEF FlightInv, QueueOK
  <2>3. QED
    BY <1>1, <1>5, <1>9, <2>1, <2>2
<1>11. ASSUME NEW k \in 1 .. Len(mInputQueue')
       PROVE  \E j \in 1 .. n : mInputQueue'[k] = q[j] /\ (j > 1 \/ s > d)
  <2>1. CASE s > d
    BY <1>4, <1>5, <1>11, <2>1
  <2>2. CASE ~(s > d)
    <3>1. mInputQueue' = t
      BY <1>5, <1>6, <2>2
    <3>2. k \in 1 .. n - 1
      BY <1>8, <1>11, <3>1
    <3>3. k + 1 \in 1 .. n /\ k + 1 > 1 /\ t[k] = q[k + 1]
      BY <1>5, <1>8, <3>2
    <3>4. QED
      BY <3>1, <3>3
  <2>3. QED
    BY <2>1, <2>2
<1>12. ASSUME s >= d, NEW k \in 1 .. Len(mInputQueue') PROVE FirstDue' <= seqOf[mInputQueue'[k]]
  <2>1. PICK j \in 1 .. n : mInputQueue'[k] = q[j] /\ (j > 1 \/ s > d)
    BY <1>11
  <2>2. PICK x \in Int : x = seqOf[q[j]]
    BY <1>9
  <2>3. x >= d + 1
    <3>1. CASE j > 1
      <4>1. j \in 2 .. n
        BY <1>5, <3>1
      <4>2. x > s
        BY <1>10, <2>2, <4>1
      <4>3. QED
        BY <1>5, <1>12, <4>2
    <3>2. CASE ~(j > 1)
      <4>1. j = 1 /\ s > d
        BY <1>5, <2>1, <3>2
      <4>2. x = s
        BY <1>1, <1>5, <2>2, <4>1
      <4>3. QED
        BY <1>5, <4>1, <4>2
    <3>3. QED
      BY <3>1, <3>2
  <2>4. FirstDue' <= d + 1
    BY <1>5, <1>12
  <2>5. QED
    BY <1>5, <2>1, <2>2, <2>3, <2>4
<1>13. \A i \in Pipes : \E e : Moves(i, e)
  BY <1>5, LinesStill DEF StageInv
<1>14. ASSUME NEW k \in 1 .. Len(mInputQueue'), Used(mInputQueue[k])'
       PROVE  FirstDue' <= seqOf[mInputQueue'[k]]
  <2>1. CASE s >= d
    BY <1>12, <2>1
  <2>2. CASE ~(s >= d)
    <3>1. PICK j \in 1 .. n : mInputQueue'[k] = q[j]
      BY <1>11
    <3>2. PICK c : c = q[j]
      OBVIOUS
    <3>3. Used(c)'
      BY <1>14, <3>1, <3>2 DEF Used
    <3>4. Used(c)
      BY <1>13, <3>3, UsedLess
    <3>5. d <= seqOf[c]
      BY <1>2, <1>3, <1>4, <3>2, <3>4 DEF SharedOrder
    <3>6. FirstDue' <= d
      BY <1>5, <2>2
    <3>7. seqOf[c] \in Int
      BY <1>9, <3>2
    <3>8. QED
      BY <1>5, <3>1, <3>2, <3>5, <3>6, <3>7
  <2>3. QED
    BY <2>1, <2>2
<1>15. ASSUME pt'.pc \in Runs, InQueue(pt.raw)' PROVE FirstDue' <= seqOf[pt'.raw]
  <2>1. s >= d
    BY <1>5, <1>15 DEF Runs
  <2>2. PICK k \in 1 .. Len(mInputQueue') : mInputQueue'[k] = pt'.raw
    BY <1>15 DEF InQueue
  <2>3. QED
    BY <1>12, <2>1, <2>2
<1>16. ASSUME NEW b, Used(b), Carried(b) PROVE Carried(b)'
  <2>1. pt.pc \notin Runs
    BY DEF PrepareTask, Runs
  <2>2. PICK k \in 1 .. n : q[k] = b
    BY <1>3, <1>4, <1>16, <2>1 DEF Carried, InQueue
  <2>3. CASE s > d
    BY <1>3, <1>5, <1>16, <2>1, <2>3 DEF Carried, InQueue
  <2>4. CASE ~(s > d) /\ k > 1
    <3>1. k - 1 \in 1 .. n - 1 /\ (k - 1) + 1 = k
      BY <1>5, <2>4
    <3>2. mInputQueue' = t /\ t[k - 1] = b
      BY <1>5, <1>6, <1>8, <2>2, <2>4, <3>1
    <3>3. k - 1 \in 1 .. Len(mInputQueue')
      BY <1>8, <3>1, <3>2
    <3>4. QED
      BY <3>2, <3>3 DEF Carried, InQueue
  <2>5. CASE ~(s > d) /\ ~(k > 1)
    <3>1. k = 1 /\ b = pt.raw
      BY <1>5, <2>2, <2>5
    <3>2. d <= s
      BY <1>1, <1>2, <1>3, <1>4, <1>16, <2>2, <3>1 DEF SharedOrder
    <3>3. pt'.pc \in Runs /\ pt'.raw = b
      BY <1>5, <3>1, <3>2 DEF Runs
    <3>4. QED
      BY <3>3 DEF Carried
  <2>6. QED
    BY <2>3, <2>4, <2>5
<1>17. WaitsOrGives'
  BY <1>5, <1>13, <1>16, WaitsStill DEF SharedOrder, StageInv
<1>18. QED
  BY <1>5, <1>14, <1>15, <1>17 DEF SharedOrder

(* The task added writes something, so a pipe gets a part of it.           *)
LEMMA AddWrites ==
    ASSUME UnitTypeOK, RowOK, pt.pc \in Runs
    PROVE  \E p \in Ports : pt.dst[p] # None
<1>1. PICK r : r = Taken
  OBVIOUS
<1>2. r >= 1 /\ pt.dst = Row(r) /\ r \in Nat
  BY <1>1 DEF RowOK
<1>3. r <= Len(requests) /\ Len(requests) \in Nat
  BY <1>1, FirstPort, FedTyped DEF UnitTypeOK
<1>4. r \in 1 .. Len(requests)
  BY <1>2, <1>3
<1>5. requests[r].wants # {}
  BY <1>4 DEF RowOK
<1>6. requests[r].wants \subseteq Ports
  <2>1. PICK S : S = [wants : SUBSET Ports, setting : Seqs, reprocess : BOOLEAN]
    OBVIOUS
  <2>2. PICK q \in Seq(S) : q = requests
    BY <2>1 DEF UnitTypeOK, AskTypeOK
  <2>3. q[r] \in S
    BY <1>4, <2>2
  <2>4. QED
    BY <2>1, <2>2, <2>3
<1>7. PICK p \in Ports : p \in requests[r].wants
  BY <1>5, <1>6
<1>8. pt.dst[p] = r
  BY <1>2, <1>7 DEF Row
<1>9. QED
  BY <1>2, <1>8 DEF None

LEMMA AddWaits ==
    ASSUME UnitTypeOK, CoverInv, FlightInv, StageInv, Shared, WaitsOrGives, ~scenario.zsl, AddTask
    PROVE  WaitsOrGives'
<1>0. AskTypeOK /\ RowOK /\ LineTypeOK /\ LineOK
  BY DEF UnitTypeOK, StageInv
<1>1. /\ pt.pc \in Runs /\ pt'.pc = "execute"
      /\ NewTask.raw = pt.raw /\ NewTask.seq = seqOf[pt.raw] /\ NewTask.dst = pt.dst
      /\ NewTask.fake = FALSE
  BY OwnJob
<1>2. UNCHANGED <<mInputQueue, requests, poll>>
  BY DEF AddTask, asked
<1>3. PICK r : r = pt.raw
  OBVIOUS
<1>4. Gives(NewTask) \/ InQueue(r)
  <2>1. SUFFICES ASSUME ~Gives(NewTask) PROVE InQueue(r)
    OBVIOUS
  <2>2. Hold(pt.dst, seqOf[pt.raw])
    BY <1>1, <2>1 DEF Gives
  <2>3. Secured(r)
    BY <1>1, <1>3, <2>2 DEF CoverInv, GivenWhenRun
  <2>4. r \notin free /\ mRawBufferMap = {}
    BY <1>1, <1>3 DEF FlightInv, OwnOK
  <2>5. QED
    BY <2>3, <2>4 DEF Secured
<1>5. \A x, y : Hold(x, y)' = Hold(x, y)
  BY <1>2, SameHold
<1>6. ASSUME NEW i \in Pipes, i \in Active(NewTask), NEW m, m = Len(Line(i)) + 1
      PROVE  /\ m \in Nat /\ Line(i)'[m] = PieceOf(i) /\ m \in 1 .. Len(Line(i)')
             /\ PieceOf(i).raw = r
             /\ Gives(NewTask) => ~PieceOf(i).fake /\ ~Hold(PieceOf(i).dst, PieceOf(i).seq)
  <2>1. /\ Len(Line(i)) \in Nat /\ Len(Line(i)') = Len(Line(i)) + 1
        /\ Line(i)'[m] = PieceOf(i)
    BY <1>0, <1>6, AddLines
  <2>2. PieceOf(i).raw = r
    BY <1>1, <1>3, <1>6, PieceGives
  <2>3. Gives(NewTask) => Gives(PieceOf(i))
    BY <1>6, PieceGives
  <2>4. m \in Nat /\ m \in 1 .. Len(Line(i)')
    BY <1>6, <2>1
  <2>5. QED
    BY <2>1, <2>2, <2>3, <2>4 DEF Gives
<1>7. ASSUME NEW i \in Pipes, NEW k \in Unfinished(i)'
      PROVE  Carried(Line(i)[k].raw)' \/ GivenLater(i, k)'
  <2>1. PICK v : v = Line(i)'[k]
    OBVIOUS
  <2>2. PICK b : b = v.raw
    OBVIOUS
  <2>3. ASSUME NEW j \in Unfinished(i)', j >= k, NEW w, w = Line(i)'[j], w.raw = b,
               ~w.fake, ~Hold(w.dst, w.seq)
        PROVE  GivenLater(i, k)'
    <3>1. ~Hold(w.dst, w.seq)'
      BY <1>5, <2>3
    <3>2. QED
      BY <2>1, <2>2, <2>3, <3>1 DEF GivenLater, Gives
  <2>4. ASSUME InQueue(b) PROVE Carried(Line(i)[k].raw)'
    BY <1>2, <2>1, <2>2, <2>4 DEF Carried, InQueue
  <2>5. CASE k \in Unfinished(i) /\ Line(i)'[k] = Line(i)[k]
    <3>1. PICK n \in Nat : n = Len(Line(i))
      BY <1>0, AddLines
    <3>2. k \in 1 .. n /\ Line(i)[k] = v
      BY <2>1, <2>5, <3>1 DEF Unfinished
    <3>3. CASE GivenLater(i, k)
      <4>1. PICK j \in Unfinished(i) : j >= k /\ Line(i)[j].raw = Line(i)[k].raw /\ Gives(Line(i)[j])
        BY <3>3 DEF GivenLater
      <4>2. j \in 1 .. n
        BY <3>1 DEF Unfinished
      <4>3. Line(i)'[j] = Line(i)[j] /\ n <= Len(Line(i)') /\ Len(Line(i)') \in Nat
        BY <1>0, <3>1, <4>2, AddLines
      <4>4. j \in Unfinished(i)'
        BY <1>2, <3>1, <4>2, <4>3 DEF Unfinished
      <4>5. PICK w : w = Line(i)[j]
        OBVIOUS
      <4>6. w = Line(i)'[j] /\ w.raw = b /\ ~w.fake /\ ~Hold(w.dst, w.seq)
        BY <2>2, <3>2, <4>1, <4>3, <4>5 DEF Gives
      <4>7. QED
        BY <2>3, <4>1, <4>4, <4>6
    <3>4. CASE InQueue(b)
      BY <2>4, <3>4
    <3>5. CASE b = r /\ ~InQueue(b)
      <4>1. Gives(NewTask)
        BY <1>4, <3>5
      <4>2. PICK o \in Pipes : \A p \in Ports : PipeOf(p) = o
        BY DEF Shared
      <4>3. o \in Active(NewTask)
        <5>1. PICK p \in Ports : pt.dst[p] # None
          BY <1>0, <1>1, AddWrites
        <5>2. p \in Writes(NewTask) /\ PipeOf(p) = o
          BY <1>1, <4>2, <5>1 DEF Writes
        <5>3. QED
          BY <5>2 DEF Active
      <4>4. i = o
        <5>1. EntryOK(i, k)
          BY <1>0, <3>1, <3>2 DEF LineOK
        <5>2. PICK p \in Writes(v) : p \in PortsOf(i)
          BY <3>2, <5>1 DEF EntryOK
        <5>3. QED
          BY <4>2, <5>2 DEF PortsOf
      <4>5. PICK m : m = n + 1
        OBVIOUS
      <4>6. PICK w : w = PieceOf(i)
        OBVIOUS
      <4>7. /\ m \in Nat /\ Line(i)'[m] = w /\ m \in 1 .. Len(Line(i)') /\ w.raw = r
            /\ ~w.fake /\ ~Hold(w.dst, w.seq)
        BY <1>6, <3>1, <4>1, <4>3, <4>4, <4>5, <4>6
      <4>8. m > 1 /\ m >= k
        BY <3>1, <3>2, <4>5
      <4>9. m \in Unfinished(i)'
        BY <4>7, <4>8 DEF Unfinished
      <4>10. QED
        BY <2>3, <3>5, <4>7, <4>8, <4>9
    <3>6. Carried(b) \/ GivenLater(i, k)
      BY <2>2, <2>5, <3>2 DEF WaitsOrGives
    <3>7. QED
      BY <1>3, <3>3, <3>4, <3>5, <3>6 DEF Carried
  <2>6. CASE i \in Active(NewTask) /\ k = Len(Line(i)) + 1 /\ Line(i)'[k] = PieceOf(i)
    <3>1. PICK w : w = PieceOf(i)
      OBVIOUS
    <3>2. /\ k \in Nat /\ v = w /\ b = r
          /\ Gives(NewTask) => ~w.fake /\ ~Hold(w.dst, w.seq)
      BY <1>6, <2>1, <2>2, <2>6, <3>1
    <3>3. CASE Gives(NewTask)
      <4>1. k >= k /\ v = Line(i)'[k] /\ v.raw = b /\ ~v.fake /\ ~Hold(v.dst, v.seq)
        BY <2>1, <2>2, <3>2, <3>3
      <4>2. QED
        BY <2>3, <4>1
    <3>4. CASE InQueue(r)
      BY <2>4, <3>2, <3>4
    <3>5. QED
      BY <1>4, <3>3, <3>4
  <2>7. QED
    BY <1>0, <2>5, <2>6, AddUnfinished
<1>8. QED
  BY <1>7 DEF WaitsOrGives

LEMMA AddShared ==
    ASSUME UnitTypeOK, CoverInv, FlightInv, StageInv, Shared, SharedOrder, ~scenario.zsl, AddTask
    PROVE  SharedOrder'
<1>1. UNCHANGED <<mInputQueue, seqOf, requests>>
  BY DEF AddTask, producer, asked
<1>2. pt.pc \in Runs /\ pt'.pc = "execute" /\ NewTask.raw = pt.raw
  BY OwnJob
<1>3. Taken' = Taken
  BY RestOfThreadRows DEF UnitTypeOK, StageInv
<1>4. FirstDue' = FirstDue
  BY <1>1, <1>3, DueStays
<1>5. ASSUME NEW c, Used(c)' PROVE Used(c) \/ c = pt.raw
  <2>1. PICK i \in Pipes : \E k \in Unfinished(i)' : Line(i)'[k].raw = c
    BY <1>5 DEF Used
  <2>2. PICK k \in Unfinished(i)' : Line(i)'[k].raw = c
    BY <2>1
  <2>3. CASE k \in Unfinished(i) /\ Line(i)'[k] = Line(i)[k]
    BY <2>2, <2>3 DEF Used
  <2>4. CASE i \in Active(NewTask) /\ k = Len(Line(i)) + 1 /\ Line(i)'[k] = PieceOf(i)
    BY <1>2, <2>2, <2>4, PieceGives
  <2>5. QED
    BY <2>3, <2>4, AddUnfinished DEF StageInv
<1>6. ASSUME NEW k \in 1 .. Len(mInputQueue), Used(mInputQueue[k])'
      PROVE  FirstDue <= seqOf[mInputQueue[k]]
  <2>1. PICK c : c = mInputQueue[k]
    OBVIOUS
  <2>2. Used(c)'
    BY <1>1, <1>6, <2>1 DEF Used
  <2>3. CASE Used(c)
    BY <2>1, <2>3 DEF SharedOrder
  <2>4. CASE c = pt.raw
    BY <1>2, <2>1, <2>4 DEF SharedOrder, InQueue
  <2>5. QED
    BY <1>5, <2>2, <2>3, <2>4
<1>7. WaitsOrGives'
  BY AddWaits DEF SharedOrder
<1>8. QED
  BY <1>1, <1>2, <1>4, <1>6, <1>7 DEF SharedOrder, Runs

-----------------------------------------------------------------------------
(* What keeps frames in order is kept.                                     *)

(* No frame is skipped; and with HAL ZSL, with a frame or more for every   *)
(* request and none lost, or with one pipe and no frame between settings.  *)
InOrder == Plain /\ (scenario.zsl \/ Exact \/ Shared)

OrderInv ==
    ~scenario.zsl =>
        /\ SettingsOK
        /\ Exact => ExactOrder
        /\ Shared => SharedOrder

LEMMA OrderInit == Init => OrderInv
<1> SUFFICES ASSUME Init, ~scenario.zsl
             PROVE  SettingsOK /\ ExactOrder /\ SharedOrder
  BY DEF OrderInv
<1>1. /\ requests = <<>> /\ mInputQueue = <<>> /\ lost = 0 /\ lastSeq = -1 /\ pt.pc = "wait"
      /\ Len(requests) = 0 /\ Len(mInputQueue) = 0
  BY DEF Init, Idle
<1>2. \A i \in Pipes : Line(i) = <<>>
  BY DEF Init, Line
<1>3. \A i \in Pipes : Unfinished(i) = {}
  BY <1>2 DEF Unfinished
<1>4. SettingsOK
  BY <1>1 DEF SettingsOK
<1>5. Taken = 0
  <2>1. 1 < NumPorts + 1 /\ mOutputQueue[1] = <<>> /\ feeding = NumPorts + 1
    BY ProcessingAssumption, FirstPort DEF Init
  <2>2. QED
    BY <1>1, <2>1 DEF Taken, Fed
<1>6. FirstDue = 0
  BY <1>1, <1>5 DEF FirstDue
<1>7. ExactOrder
  BY <1>1, <1>3, <1>6 DEF ExactOrder, AllGive, Runs
<1>8. SharedOrder
  BY <1>1, <1>3 DEF SharedOrder, WaitsOrGives, Runs
<1>9. QED
  BY <1>4, <1>7, <1>8

LEMMA ScenarioStays == [Next]_vars => UNCHANGED scenario
BY DEF vars, Next, Capture, LoseFrame, NewRequest, HandleQueueBuffer, ProcessThread, ProcessNewFrame,
       NothingToPrepare, SaveRawBuffer, TrimRawBuffers, PrepareTask, FetchSource, DispatchTask,
       AddTask, ExecuteNode, Executor, PollThread, WaitTimeout, Process, HandleEvent, OnBufferDone,
       OnTaskDone, EraseSequence, TrimAfterTask, PopTask

LEMMA SettingsStep ==
    ASSUME UnitTypeOK, StageInv, Plain, SettingsOK, ~scenario.zsl, [Next]_vars
    PROVE  SettingsOK'
<1>1. UNCHANGED scenario
  BY ScenarioStays
<1>2. CASE NewRequest
  <2>1. PICK r : Asks(r)
    BY <1>2, NewRequestAsks
  <2>2. QED
    BY <1>1, <2>1, AskedSettings DEF UnitTypeOK
<1>3. CASE ~NewRequest
  <2>1. UNCHANGED requests
    BY <1>3, QuietSteps DEF Quiet, Capture, LoseFrame, PrepareTask, AddTask, asked
  <2>2. QED
    BY <1>1, <2>1 DEF SettingsOK
<1>4. QED
  BY <1>2, <1>3

LEMMA SharedEnvironment ==
    ASSUME UnitTypeOK, CoverInv, FlightInv, StageInv, SettingsOK, Shared, SharedOrder, ~scenario.zsl,
           LoseFrame \/ NewRequest
    PROVE  SharedOrder'
<1>0. AskTypeOK /\ RowOK /\ FrontOK /\ LineTypeOK
  BY DEF UnitTypeOK, StageInv
<1>1. /\ UNCHANGED <<mInputQueue, seqOf, pt>> /\ UNCHANGED pipes
      /\ UNCHANGED requests \/ NewRequest
  BY DEF LoseFrame, NewRequest, producer, asked
<1>2. \A i \in Pipes : \E e : Moves(i, e)
  BY <1>0, <1>1, LinesStill
<1>3. FirstDue \in Int /\ FirstDue' \in Int /\ FirstDue' <= FirstDue
  <2>1. CASE LoseFrame
    <3>1. UNCHANGED <<requests, feeding, mOutputQueue, pt>>
      BY <2>1 DEF LoseFrame, asked
    <3>2. Taken' = Taken
      BY <1>0, <3>1, RowElsewhere
    <3>3. FirstDue' = FirstDue /\ FirstDue \in Int
      BY <1>0, <3>1, <3>2, DueStays, FirstDueTyped
    <3>4. PICK d \in Int : d = FirstDue /\ d = FirstDue'
      BY <3>3
    <3>5. QED
      BY <3>4
  <2>2. CASE NewRequest
    <3>1. PICK r : Asks(r)
      BY <2>2, NewRequestAsks
    <3>2. Taken' = Taken
      BY <1>0, <2>2, NewRequestRows
    <3>3. QED
      BY <1>0, <3>1, <3>2, AskedDue
  <2>3. QED
    BY <2>1, <2>2
<1>4. QED
  BY <1>1, <1>2, <1>3, SharedKept

LEMMA QuietShared ==
    ASSUME UnitTypeOK, StageInv, SharedOrder, Quiet
    PROVE  SharedOrder'
<1>1. FirstDue' = FirstDue /\ FirstDue \in Int
  BY DueStays, FirstDueTyped DEF Quiet, UnitTypeOK, StageInv
<1>2. PICK d \in Int : d = FirstDue /\ d = FirstDue'
  BY <1>1
<1>3. FirstDue' <= FirstDue
  BY <1>2
<1>4. QED
  BY <1>1, <1>3, SharedKept DEF Quiet

LEMMA OrderStep ==
    UnitTypeOK /\ CoverInv /\ FlightInv /\ StageInv /\ Plain /\ OrderInv /\ [Next]_vars => OrderInv'
<1> SUFFICES ASSUME UnitTypeOK, CoverInv, FlightInv, StageInv, Plain, OrderInv, [Next]_vars,
                    ~scenario'.zsl
             PROVE  SettingsOK' /\ (Exact' => ExactOrder') /\ (Shared' => SharedOrder')
  BY DEF OrderInv
<1>1. UNCHANGED scenario
  BY ScenarioStays
<1>2. ~scenario.zsl /\ SettingsOK /\ (Exact => ExactOrder) /\ (Shared => SharedOrder)
  BY <1>1 DEF OrderInv
<1>3. Exact' <=> Exact
  BY <1>1 DEF Exact
<1>4. Shared' <=> Shared
  BY <1>1 DEF Shared, PipeOf
<1>5. SettingsOK'
  BY <1>2, SettingsStep
<1>6. Quiet \/ Capture \/ LoseFrame \/ NewRequest \/ PrepareTask \/ AddTask
  BY QuietSteps
<1>7. ASSUME Exact PROVE ExactOrder'
  <2>1. CASE Quiet
    BY <1>2, <1>7, <2>1, QuietExact
  <2>2. CASE Capture \/ LoseFrame \/ NewRequest
    BY <1>2, <1>7, <2>2, EnvironmentExact
  <2>3. CASE PrepareTask
    BY <1>2, <1>7, <2>3, PrepareExactOrder
  <2>4. CASE AddTask
    BY <1>2, <1>7, <2>4, AddExactOrder
  <2>5. QED
    BY <1>6, <2>1, <2>2, <2>3, <2>4
<1>8. ASSUME Shared PROVE SharedOrder'
  <2>1. CASE Quiet
    BY <1>2, <1>8, <2>1, QuietShared
  <2>2. CASE Capture
    BY <1>2, <1>8, <2>2, CaptureShared
  <2>3. CASE LoseFrame \/ NewRequest
    BY <1>2, <1>8, <2>3, SharedEnvironment
  <2>4. CASE PrepareTask
    BY <1>2, <1>8, <2>4, PrepareShared
  <2>5. CASE AddTask
    BY <1>2, <1>8, <2>5, AddShared
  <2>6. QED
    BY <1>6, <2>1, <2>2, <2>3, <2>4, <2>5
<1>9. QED
  BY <1>3, <1>4, <1>5, <1>7, <1>8

(* Entries that give their raw frames back wait for nobody.                *)
LEMMA AllGiveIsEnough ==
    ASSUME AllGive
    PROVE  WaitsOrGives
<1>1. ASSUME NEW i \in Pipes, NEW k \in Unfinished(i) PROVE GivenLater(i, k)
  <2>1. k >= k
    BY DEF Unfinished
  <2>2. QED
    BY <2>1 DEF GivenLater, AllGive
<1>2. QED
  BY <1>1 DEF WaitsOrGives

(* A raw buffer with the producer, which the next frame may be written to, *)
(* is neither waiting for a task, nor in the hands of the process thread,  *)
(* nor read by a pipe, nor kept for a still: if no frame is skipped, there *)
(* is one still stream at most, and with HAL ZSL without the frames of     *)
(* TNR, or with a frame at least for every request and none lost, or with  *)
(* one pipe for all streams and no frame between the settings of two       *)
(* requests.                                                               *)
THEOREM RawFramesSafe ==
    ASSUME NoFakes, OneStill
    PROVE  Spec => [](InOrder => RawSafe)
<1> DEFINE Inv == UnitTypeOK /\ CoverInv /\ FlightInv /\ (Plain => StageInv /\ OrderInv)
<1>1. Init => Inv
  BY UnitTypeInit, CoverInit, FlightInit, StageInit, OrderInit
<1>2. Inv /\ [Next]_vars => Inv'
  <2>1. SUFFICES ASSUME Inv, [Next]_vars PROVE Inv'
    OBVIOUS
  <2>2. (UnitTypeOK /\ CoverInv /\ FlightInv)'
    BY <2>1, UnitTypeStep, CoverStep, FlightStep
  <2>3. Plain' => Plain
    BY <2>1, ScenarioStays DEF Plain
  <2>4. Plain => StageInv' /\ OrderInv'
    BY <2>1, StageStep, OrderStep
  <2>5. QED
    BY <2>2, <2>3, <2>4
<1>3. Inv => (InOrder => RawSafe)
  <2>1. SUFFICES ASSUME Inv, InOrder PROVE RawSafe
    OBVIOUS
  <2>2. StageInv /\ OrderInv
    BY <2>1 DEF InOrder
  <2>3. CASE scenario.zsl
    BY <2>1, <2>2, <2>3, KeptIsSafe
  <2>4. CASE ~scenario.zsl
    <3>1. WaitsOrGives
      BY <2>1, <2>2, <2>4, AllGiveIsEnough DEF InOrder, OrderInv, ExactOrder, SharedOrder
    <3>2. QED
      BY <2>1, <2>2, <2>4, <3>1, OrderIsSafe
  <2>5. QED
    BY <2>3, <2>4
<1>4. QED
  BY <1>1, <1>2, <1>3, PTL DEF Spec

=============================================================================
