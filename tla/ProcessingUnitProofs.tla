------------------------- MODULE ProcessingUnitProofs -------------------------
(***************************************************************************)
(* Theorems about the processing unit, for every number of buffers, ports, *)
(* pipes and requests, every size of the frames kept back, and whatever    *)
(* frames are lost, skipped or shared by requests: no raw buffer is lost;  *)
(* and, unless HAL ZSL keeps no frame or TNR asks for earlier ones, the    *)
(* tasks in flight are counted exactly and the frames kept do not starve   *)
(* the sensor.                                                             *)
(***************************************************************************)
EXTENDS ProcessingUnit, FiniteSetTheorems, SequenceTheorems, WellFoundedInduction, TLAPS

-----------------------------------------------------------------------------
(* The least element that the CHOOSEs of ProcessingUnit speak of.          *)

LEMMA LeastOf ==
    ASSUME NEW S, S \subseteq Nat, S # {}
    PROVE  \E x \in S : \A y \in S : x <= y
<1>1. IsWellFoundedOn(OpToRel(<, Nat), Nat)
  BY NatLessThanWellFounded
<1>2. PICK x \in S : \A y \in S : <<y, x>> \notin OpToRel(<, Nat)
  BY <1>1, WFMin
<1>3. ASSUME NEW y \in S PROVE x <= y
  <2>1. <<y, x>> \in Nat \X Nat
    OBVIOUS
  <2>2. ~(y < x)
    BY <1>2, <2>1 DEF OpToRel
  <2>3. QED
    BY <2>2
<1>4. QED
  BY <1>3

(* What a list of tasks is after one was put in or taken out.              *)
LEMMA InsertAtIs ==
    ASSUME NEW S, NEW s \in Seq(S), NEW i \in 1 .. Len(s) + 1, NEW e \in S,
           NEW t, t = InsertAt(s, i, e)
    PROVE  /\ t \in Seq(S) /\ Len(t) = Len(s) + 1 /\ t[i] = e
           /\ \A k \in 1 .. i - 1 : t[k] = s[k]
           /\ \A k \in i .. Len(s) : t[k + 1] = s[k]
<1> DEFINE a == SubSeq(s, 1, i - 1)
           c == SubSeq(s, i, Len(s))
<1>1. a \in Seq(S) /\ Len(a) = i - 1 /\ \A k \in 1 .. i - 1 : a[k] = s[k]
  BY SubSeqProperties
<1>2. /\ c \in Seq(S) /\ Len(c) = Len(s) + 1 - i
      /\ \A k \in 1 .. Len(s) + 1 - i : c[k] = s[i + k - 1]
  BY SubSeqProperties
<1> DEFINE u == a \o <<e>> \o c
<1> HIDE DEF a, c
<1>3. /\ u \in Seq(S) /\ Len(u) = Len(s) + 1 /\ u[i] = e
      /\ \A k \in 1 .. i - 1 : u[k] = s[k]
      /\ \A k \in i .. Len(s) : u[k + 1] = s[k]
  <2> DEFINE b == a \o <<e>>
  <2>1. b \in Seq(S) /\ Len(b) = i /\ b[i] = e /\ \A k \in 1 .. i - 1 : b[k] = s[k]
    <3>1. <<e>> \in Seq(S) /\ Len(<<e>>) = 1 /\ <<e>>[1] = e
      OBVIOUS
    <3>2. /\ b \in Seq(S) /\ Len(b) = Len(a) + Len(<<e>>)
          /\ \A k \in 1 .. Len(a) + Len(<<e>>) :
               b[k] = IF k <= Len(a) THEN a[k] ELSE <<e>>[k - Len(a)]
      BY <1>1, <3>1, ConcatProperties
    <3>3. i \in Nat \ {0}
      OBVIOUS
    <3> HIDE DEF b
    <3>4. Len(b) = i /\ \A k \in 1 .. i : b[k] = IF k <= i - 1 THEN a[k] ELSE <<e>>[k - (i - 1)]
      BY <1>1, <3>1, <3>2, <3>3
    <3>5. i \in 1 .. i /\ ~(i <= i - 1) /\ i - (i - 1) = 1
      BY <3>3
    <3>6. QED
      BY <1>1, <3>1, <3>2, <3>4, <3>5
  <2> HIDE DEF b
  <2>2. /\ b \o c \in Seq(S) /\ Len(b \o c) = Len(s) + 1
        /\ \A k \in 1 .. Len(s) + 1 : (b \o c)[k] = IF k <= i THEN b[k] ELSE c[k - i]
    BY <1>2, <2>1, ConcatProperties
  <2>3. u = b \o c
    BY DEF b
  <2> HIDE DEF u
  <2>4. ASSUME NEW k \in i .. Len(s) PROVE u[k + 1] = s[k]
    <3>1. k + 1 \in 1 .. Len(s) + 1 /\ ~(k + 1 <= i) /\ k + 1 - i \in 1 .. Len(s) + 1 - i
      OBVIOUS
    <3>2. u[k + 1] = c[k + 1 - i]
      <4> DEFINE n == k + 1
      <4>1. n \in 1 .. Len(s) + 1 /\ ~(n <= i)
        BY <3>1
      <4> HIDE DEF n
      <4>2. (b \o c)[n] = c[n - i]
        BY <2>2, <4>1
      <4>3. QED
        BY <2>3, <4>2 DEF n
    <3>3. QED
      BY <1>2, <3>1, <3>2
  <2>5. QED
    BY <2>1, <2>2, <2>3, <2>4
<1>4. u = t
  BY DEF InsertAt, a, c
<1>5. QED
  BY <1>3, <1>4

LEMMA InsertAtKeeps ==
    ASSUME NEW S, NEW s \in Seq(S), NEW i \in 1 .. Len(s) + 1, NEW e \in S
    PROVE  /\ InsertAt(s, i, e) \in Seq(S)
           /\ \E k \in DOMAIN InsertAt(s, i, e) : InsertAt(s, i, e)[k] = e
           /\ \A j \in DOMAIN s : \E k \in DOMAIN InsertAt(s, i, e) : InsertAt(s, i, e)[k] = s[j]
<1>0. PICK t : t = InsertAt(s, i, e)
  OBVIOUS
<1>1. /\ t \in Seq(S) /\ Len(t) = Len(s) + 1 /\ t[i] = e
      /\ \A k \in 1 .. i - 1 : t[k] = s[k]
      /\ \A k \in i .. Len(s) : t[k + 1] = s[k]
  BY <1>0, InsertAtIs
<1>2. ASSUME NEW j \in DOMAIN s PROVE \E k \in DOMAIN t : t[k] = s[j]
  <2>1. CASE j < i
    BY <2>1, <1>1
  <2>2. CASE j >= i
    <3>1. j + 1 \in DOMAIN t /\ t[j + 1] = s[j]
      BY <2>2, <1>1
    <3>2. QED
      BY <3>1
  <2>3. QED
    BY <2>1, <2>2
<1>3. i \in DOMAIN t
  BY <1>1
<1>4. QED
  BY <1>0, <1>1, <1>2, <1>3

LEMMA RemoveAtIs ==
    ASSUME NEW S, NEW s \in Seq(S), NEW i \in 1 .. Len(s), NEW t, t = RemoveAt(s, i)
    PROVE  /\ t \in Seq(S) /\ Len(t) = Len(s) - 1
           /\ \A k \in 1 .. i - 1 : t[k] = s[k]
           /\ \A k \in i .. Len(s) - 1 : t[k] = s[k + 1]
<1> DEFINE a == SubSeq(s, 1, i - 1)
           c == SubSeq(s, i + 1, Len(s))
<1>1. a \in Seq(S) /\ Len(a) = i - 1 /\ \A k \in 1 .. i - 1 : a[k] = s[k]
  BY SubSeqProperties
<1>2. /\ c \in Seq(S) /\ Len(c) = Len(s) - i
      /\ \A k \in 1 .. Len(s) - i : c[k] = s[i + k]
  BY SubSeqProperties
<1> DEFINE u == a \o c
<1> HIDE DEF a, c
<1>3. /\ u \in Seq(S) /\ Len(u) = Len(s) - 1
      /\ \A k \in 1 .. i - 1 : u[k] = s[k]
      /\ \A k \in i .. Len(s) - 1 : u[k] = s[k + 1]
  <2>0. /\ u \in Seq(S) /\ Len(u) = Len(a) + Len(c)
        /\ \A k \in 1 .. Len(a) + Len(c) : u[k] = IF k <= Len(a) THEN a[k] ELSE c[k - Len(a)]
    BY <1>1, <1>2, ConcatProperties
  <2> HIDE DEF u
  <2>1. \A k \in 1 .. Len(s) - 1 : u[k] = IF k <= i - 1 THEN a[k] ELSE c[k - (i - 1)]
    <3>1. Len(a) = i - 1 /\ Len(a) + Len(c) = Len(s) - 1
      BY <1>1, <1>2
    <3>2. QED
      BY <2>0, <3>1
  <2>2. u \in Seq(S) /\ Len(u) = Len(s) - 1
    BY <1>1, <1>2, <2>0
  <2>3. ASSUME NEW k \in i .. Len(s) - 1 PROVE u[k] = s[k + 1]
    <3>1. k \in 1 .. Len(s) - 1 /\ ~(k <= i - 1) /\ k - (i - 1) \in 1 .. Len(s) - i
      OBVIOUS
    <3>2. u[k] = c[k - (i - 1)]
      BY <2>1, <3>1
    <3>3. QED
      BY <1>2, <3>1, <3>2
  <2>4. ASSUME NEW k \in 1 .. i - 1 PROVE u[k] = s[k]
    <3>1. k \in 1 .. Len(s) - 1 /\ k <= i - 1
      OBVIOUS
    <3>2. QED
      BY <1>1, <2>1, <3>1
  <2>5. QED
    BY <2>2, <2>3, <2>4
<1>4. u = t
  BY DEF RemoveAt, a, c
<1>5. QED
  BY <1>3, <1>4

LEMMA RemoveAtKeeps ==
    ASSUME NEW S, NEW s \in Seq(S), NEW i \in 1 .. Len(s)
    PROVE  /\ RemoveAt(s, i) \in Seq(S)
           /\ \A j \in DOMAIN s \ {i} : \E k \in DOMAIN RemoveAt(s, i) : RemoveAt(s, i)[k] = s[j]
<1>0. PICK t : t = RemoveAt(s, i)
  OBVIOUS
<1>1. /\ t \in Seq(S) /\ Len(t) = Len(s) - 1
      /\ \A k \in 1 .. i - 1 : t[k] = s[k]
      /\ \A k \in i .. Len(s) - 1 : t[k] = s[k + 1]
  BY <1>0, RemoveAtIs, SMTT(20)
<1>2. ASSUME NEW j \in DOMAIN s \ {i} PROVE \E k \in DOMAIN t : t[k] = s[j]
  <2>1. CASE j < i
    BY <2>1, <1>1
  <2>2. CASE j > i
    <3>1. j - 1 \in DOMAIN t /\ t[j - 1] = s[j]
      BY <2>2, <1>1
    <3>2. QED
      BY <3>1
  <2>3. QED
    BY <2>1, <2>2
<1>3. QED
  BY <1>0, <1>1, <1>2

-----------------------------------------------------------------------------
(* Types, as far as the raw buffers depend on them.  A buffer of a request *)
(* names a request that was made.                                          *)
Asked == [Ports -> 0 .. Len(requests)]
Jobs  == [kind : {"main", "zsl", "fake"}, seq : Int, dst : Asked]
Tasks == [raw : Raws, seq : Int, dst : Asked, fake : BOOLEAN, left : Int]

RawTypeOK ==
    /\ free \subseteq Raws /\ mRawBufferMap \subseteq Raws
    /\ seqOf \in [Raws -> Seqs \cup {-1}] /\ lastSeq \in Seqs \cup {-1}
    /\ mInputQueue \in Seq(Raws)

AskTypeOK ==
    /\ requests \in Seq([wants : SUBSET Ports, setting : Seqs, reprocess : BOOLEAN])
    /\ feeding \in Nat
    /\ mOutputQueue \in [Ports -> Seq(0 .. Len(requests))]

Chooses == {"save", "trim", "pop"}
Runs    == {"fetch", "dispatch", "add"}

PtTypeOK ==
    /\ pt \in [pc : Chooses \cup Runs \cup {"wait", "execute"}, raw : Raws \cup {None},
               dst : Asked \cup {<<>>}, todo : Seq(Jobs), src : Raws \cup {None}]
    /\ pt.pc \in Chooses \cup Runs => pt.raw \in Raws /\ pt.dst \in Asked
    /\ pt.pc \in {"dispatch", "add"} => pt.src \in Raws

TaskTypeOK ==
    /\ mOngoingTasks \in Seq(Tasks)
    /\ DOMAIN poll = Pipes
    /\ \A i \in Pipes : /\ DOMAIN poll[i] = {"pc", "ports", "task"}
                        /\ poll[i].pc = "done" => poll[i].task[1] \in Tasks

(* The tasks prepareTask dispatches for a frame: those of TNR, the one to  *)
(* reprocess, and last the frame's own, if anything is left for it.        *)
TodoOK ==
    pt.pc \in Runs =>
        /\ pt.todo # <<>>
        /\ \A k \in 1 .. Len(pt.todo) :
             /\ pt.todo[k].kind = "main" => k = Len(pt.todo)
             /\ pt.todo[k].kind = "fake" => k < Len(pt.todo)
             /\ pt.todo[k].kind = "zsl" => scenario.zsl /\ k + 1 >= Len(pt.todo)
        /\ Len(pt.todo) > 1 \/ pt.pc # "add" => pt.todo[Len(pt.todo)].kind = "main"

(* While a frame is looked at, it and a buffer of every stream stay at the *)
(* front of their queues.                                                  *)
FrontOK ==
    pt.pc \in Chooses =>
        /\ mInputQueue # <<>> /\ Head(mInputQueue) = pt.raw
        /\ \A p \in Ports : mOutputQueue[p] # <<>>

UnitTypeOK == RawTypeOK /\ AskTypeOK /\ PtTypeOK /\ TaskTypeOK /\ TodoOK /\ FrontOK

LEMMA PortsFinite == IsFiniteSet(Ports) /\ Ports \subseteq Nat
BY ProcessingAssumption, FS_Interval DEF Ports

LEMMA OnlyAsked ==
    ASSUME NEW ports, NEW dst \in Asked
    PROVE  Only(ports, dst) \in Asked
BY DEF Only, Asked, None

(* The setting of buffers that are known is that of a request made before. *)
LEMMA SettingTyped ==
    ASSUME AskTypeOK, NEW dst \in Asked, NEW p \in Ports, dst[p] # None
    PROVE  dst[p] \in 1 .. Len(requests) /\ requests[dst[p]].setting \in Seqs
<1>1. dst[p] \in 1 .. Len(requests)
  BY DEF Asked, AskTypeOK, None
<1> DEFINE R == [wants : SUBSET Ports, setting : Seqs, reprocess : BOOLEAN]
<1>2. requests \in Seq(R)
  BY DEF AskTypeOK
<1> HIDE DEF R
<1>3. requests[dst[p]] \in R
  BY <1>1, <1>2
<1>4. QED
  BY <1>1, <1>3 DEF R

LEMMA ReprocessedTyped ==
    ASSUME AskTypeOK, NEW dst \in Asked
    PROVE  Reprocessed(dst) \in Int /\ (Reprocessed(dst) # -1 => scenario.zsl)
<1> DEFINE still == {p \in StillPorts : dst[p] # None}
<1>1. CASE Reprocessed(dst) = -1
  BY <1>1
<1>2. CASE Reprocessed(dst) # -1
  <2>1. /\ scenario.zsl /\ still # {}
        /\ Reprocessed(dst) = requests[dst[CHOOSE p \in still : TRUE]].setting
    BY <1>2 DEF Reprocessed
  <2>2. PICK q : q = CHOOSE p \in still : TRUE
    OBVIOUS
  <2>3. q \in still
    BY <2>1, <2>2
  <2>4. q \in Ports /\ dst[q] # None
    BY <2>3, ProcessingAssumption
  <2>5. QED
    BY <2>1, <2>2, <2>4, SettingTyped DEF Seqs
<1>3. QED
  BY <1>1, <1>2

LEMMA TnrJobsTyped ==
    ASSUME NEW dst \in Asked, NEW s \in Int
    PROVE  /\ TnrJobs(dst, s) \in Seq(Jobs)
           /\ \A k \in 1 .. Len(TnrJobs(dst, s)) : TnrJobs(dst, s)[k].kind = "fake"
<1> DEFINE first == IF s < TnrFrames - 1 THEN 0 ELSE s - (TnrFrames - 1)
           n == IF s - first \in Nat THEN s - first ELSE 0
           jobs == [i \in 1 .. n |-> Job("fake", first + i - 1, Only(StillPorts, dst))]
<1>1. first \in Int /\ n \in Nat /\ 1 .. (s - first) = 1 .. n
  BY ProcessingAssumption
<1>2. Only(StillPorts, dst) \in Asked
  BY OnlyAsked
<1>3. \A i \in 1 .. n : jobs[i] \in Jobs /\ jobs[i].kind = "fake"
  BY <1>1, <1>2 DEF Jobs, Job
<1>4. TnrJobs(dst, s) = <<>> \/ TnrJobs(dst, s) = jobs
  BY <1>1 DEF TnrJobs
<1> HIDE DEF n
<1>5. jobs \in Seq(Jobs) /\ Len(jobs) = n
  BY <1>1, <1>3
<1> HIDE DEF jobs
<1>6. <<>> \in Seq(Jobs) /\ Len(<<>>) = 0
  OBVIOUS
<1>7. \A k \in 1 .. Len(jobs) : jobs[k].kind = "fake"
  BY <1>3, <1>5
<1>8. CASE TnrJobs(dst, s) = <<>>
  BY <1>6, <1>8
<1>9. CASE TnrJobs(dst, s) = jobs
  BY <1>5, <1>7, <1>9
<1>10. QED
  BY <1>4, <1>8, <1>9

LEMMA UnitTypeInit == Init => UnitTypeOK
<1> SUFFICES ASSUME Init PROVE UnitTypeOK
  OBVIOUS
<1>1. RawTypeOK
  BY DEF Init, RawTypeOK
<1>2. AskTypeOK
  BY ProcessingAssumption DEF Init, AskTypeOK
<1>3. PtTypeOK /\ TodoOK /\ FrontOK
  BY DEF Init, Idle, PtTypeOK, TodoOK, FrontOK, Chooses, Runs
<1>4. TaskTypeOK
  BY DEF Init, Asleep, TaskTypeOK
<1>5. QED
  BY <1>1, <1>2, <1>3, <1>4 DEF UnitTypeOK

-----------------------------------------------------------------------------
(* What several actions do.                                                *)

LEMMA SameAsked ==
    ASSUME UNCHANGED requests
    PROVE  UNCHANGED <<Asked, Jobs, Tasks>>
BY DEF Asked, Jobs, Tasks

LEMMA SeqGrows ==
    ASSUME NEW S, NEW T, S \subseteq T, NEW s \in Seq(S)
    PROVE  s \in Seq(T)
<1>1. \A k \in 1 .. Len(s) : s[k] \in T
  OBVIOUS
<1>2. QED
  BY <1>1

LEMMA OldestKept ==
    ASSUME RawTypeOK, mRawBufferMap # {}
    PROVE  Oldest \in mRawBufferMap /\ \A c \in mRawBufferMap : seqOf[Oldest] <= seqOf[c]
<1> DEFINE ages == {seqOf[b] + 1 : b \in mRawBufferMap}
<1>1. \A b \in mRawBufferMap : seqOf[b] \in Int /\ seqOf[b] + 1 \in Nat
  BY DEF RawTypeOK, Seqs
<1>2. PICK a \in ages : \A x \in ages : a <= x
  <2>1. ages \subseteq Nat /\ ages # {}
    BY <1>1
  <2>2. QED
    BY <2>1, LeastOf
<1>3. PICK b \in mRawBufferMap : a = seqOf[b] + 1
  BY <1>2
<1>4. \A c \in mRawBufferMap : seqOf[b] <= seqOf[c]
  <2>1. \A c \in mRawBufferMap : seqOf[b] + 1 <= seqOf[c] + 1
    BY <1>2, <1>3
  <2>2. QED
    BY <1>1, <2>1
<1>5. QED
  BY <1>4 DEF Oldest

LEMMA ReturnRawBufferKeeps ==
    ASSUME RawTypeOK, ReturnRawBuffer
    PROVE  /\ free' \subseteq Raws /\ mRawBufferMap' \subseteq Raws
           /\ free \cup mRawBufferMap \subseteq free' \cup mRawBufferMap'
<1>1. CASE MayReturnOldest
  <2>1. mRawBufferMap # {}
    <3>1. Cardinality(mRawBufferMap) > RawHold /\ RawHold \in Nat
      BY <1>1, ProcessingAssumption DEF MayReturnOldest
    <3>2. Cardinality({}) = 0
      BY FS_EmptySet
    <3>3. QED
      BY <3>1, <3>2
  <2>2. Oldest \in mRawBufferMap
    BY <2>1, OldestKept
  <2>3. QED
    BY <1>1, <2>2 DEF ReturnRawBuffer, RawTypeOK
<1>2. CASE ~MayReturnOldest
  BY <1>2 DEF ReturnRawBuffer, RawTypeOK
<1>3. QED
  BY <1>1, <1>2

LEMMA CaptureTakes ==
    ASSUME RawTypeOK, Capture
    PROVE  \E b \in free : /\ free' = free \ {b} /\ mInputQueue' = Append(mInputQueue, b)
                           /\ seqOf' = [seqOf EXCEPT ![b] = lastSeq + 1]
<1>1. free \subseteq Nat /\ free # {}
  BY ProcessingAssumption DEF RawTypeOK, Raws, Capture
<1>2. \E b \in free : \A c \in free : b <= c
  BY <1>1, LeastOf
<1>3. PICK b : b = CHOOSE least \in free : \A c \in free : least <= c
  OBVIOUS
<1>4. b \in free
  BY <1>2, <1>3
<1>5. QED
  BY <1>3, <1>4 DEF Capture

LEMMA TaskDone ==
    ASSUME TaskTypeOK, NEW i \in Pipes, OnBufferDone(i)
    PROVE  \E k \in 1 .. Len(mOngoingTasks) :
             LET task == mOngoingTasks[k] IN
             \/ /\ mOngoingTasks' = RemoveAt(mOngoingTasks, k)
                /\ poll' = [poll EXCEPT ![i] =
                     [pc |-> "done", ports |-> poll[i].ports \ {NextPort(i)}, task |-> <<task>>]]
             \/ /\ mOngoingTasks' = [mOngoingTasks EXCEPT ![k].left = @ - 1]
                /\ poll' = [poll EXCEPT ![i].ports = @ \ {NextPort(i)}]
<1> DEFINE p == NextPort(i)
           r == Head(mStageTaskList[i]).dst[p]
<1>1. Matches(p, r) # {} /\ Matches(p, r) \subseteq 1 .. Len(mOngoingTasks)
  <2>1. Matches(p, r) # {}
    BY DEF OnBufferDone
  <2>2. DOMAIN mOngoingTasks = 1 .. Len(mOngoingTasks)
    BY DEF TaskTypeOK
  <2>3. QED
    BY <2>1, <2>2 DEF Matches
<1>2. \E k \in Matches(p, r) : \A j \in Matches(p, r) : k <= j
  BY <1>1, LeastOf
<1>3. TaskOf(p, r) \in Matches(p, r)
  BY <1>2 DEF TaskOf
<1>4. QED
  BY <1>1, <1>3 DEF OnBufferDone

-----------------------------------------------------------------------------
(* Types, action by action.                                                *)

LEMMA EnvironmentTypes ==
    ASSUME UnitTypeOK, Capture \/ LoseFrame \/ NewRequest \/ HandleQueueBuffer
    PROVE  UnitTypeOK'
<1> USE DEF UnitTypeOK
<1>1. CASE Capture
  <2>1. UNCHANGED <<scenario, asked, mOutputQueue, mRawBufferMap, pt, mOngoingTasks, poll>>
    BY <1>1 DEF Capture, pipes
  <2>2. RawTypeOK'
    <3>1. PICK b \in free : /\ free' = free \ {b} /\ mInputQueue' = Append(mInputQueue, b)
                            /\ seqOf' = [seqOf EXCEPT ![b] = lastSeq + 1]
      BY <1>1, CaptureTakes
    <3>2. lastSeq' \in Seqs /\ lastSeq' = lastSeq + 1
      BY <1>1, ProcessingAssumption DEF Capture, RawTypeOK, Seqs
    <3>3. QED
      BY <2>1, <3>1, <3>2 DEF RawTypeOK
  <2>3. UNCHANGED <<Asked, Jobs, Tasks>>
    BY <2>1, SameAsked DEF asked
  <2>4. FrontOK'
    <3>1. PICK b \in free : mInputQueue' = Append(mInputQueue, b)
      BY <1>1, CaptureTakes
    <3>2. mInputQueue # <<>> => mInputQueue' # <<>> /\ Head(mInputQueue') = Head(mInputQueue)
      BY <3>1 DEF RawTypeOK
    <3>3. QED
      BY <2>1, <3>2 DEF FrontOK
  <2>5. QED
    BY <2>1, <2>2, <2>3, <2>4 DEF asked, AskTypeOK, PtTypeOK, TaskTypeOK, TodoOK
<1>2. CASE LoseFrame
  <2>1. UNCHANGED <<scenario, free, seqOf, mInputQueue, asked, mOutputQueue, mRawBufferMap, pt,
                    mOngoingTasks, poll>>
    BY <1>2 DEF LoseFrame, pipes
  <2>2. lastSeq' \in Seqs
    BY <1>2, ProcessingAssumption DEF LoseFrame, RawTypeOK, Seqs
  <2>3. UNCHANGED <<Asked, Jobs, Tasks>>
    BY <2>1, SameAsked DEF asked
  <2>4. QED
    BY <2>1, <2>2, <2>3 DEF asked, RawTypeOK, AskTypeOK, PtTypeOK, TaskTypeOK, TodoOK, FrontOK
<1>3. CASE HandleQueueBuffer
  <2>1. UNCHANGED <<scenario, producer, requests, mInputQueue, mRawBufferMap, pt,
                    mOngoingTasks, poll>>
    BY <1>3 DEF HandleQueueBuffer, pipes
  <2>2. EntryFor(feeding) \in 0 .. Len(requests)
    BY DEF EntryFor, None, AskTypeOK
  <2>3. AskTypeOK'
    <3>1. mOutputQueue' = [mOutputQueue EXCEPT ![feeding] = Append(mOutputQueue[feeding], EntryFor(feeding))]
      BY <1>3 DEF HandleQueueBuffer, Queued
    <3>2. mOutputQueue' \in [Ports -> Seq(0 .. Len(requests))]
      <4> DEFINE S == 0 .. Len(requests)
      <4>1. mOutputQueue \in [Ports -> Seq(S)] /\ EntryFor(feeding) \in S
        BY <2>2 DEF AskTypeOK
      <4> HIDE DEF S
      <4>2. feeding \in Ports => Append(mOutputQueue[feeding], EntryFor(feeding)) \in Seq(S)
        BY <4>1
      <4>3. mOutputQueue' \in [Ports -> Seq(S)]
        BY <3>1, <4>1, <4>2
      <4>4. QED
        BY <4>3 DEF S
    <3>3. feeding' \in Nat
      BY <1>3 DEF HandleQueueBuffer, AskTypeOK
    <3>4. QED
      BY <2>1, <3>2, <3>3 DEF AskTypeOK
  <2>4. UNCHANGED <<Asked, Jobs, Tasks>>
    BY <2>1, SameAsked
  <2>5. FrontOK'
    <3> DEFINE S == 0 .. Len(requests)
    <3>1. mOutputQueue \in [Ports -> Seq(S)] /\ EntryFor(feeding) \in S
      BY <2>2 DEF AskTypeOK
    <3>2. mOutputQueue' = [mOutputQueue EXCEPT ![feeding] = Append(mOutputQueue[feeding], EntryFor(feeding))]
      BY <1>3 DEF HandleQueueBuffer, Queued
    <3> HIDE DEF S
    <3>3. \A p \in Ports : mOutputQueue'[p] = mOutputQueue[p] \/ mOutputQueue'[p] # <<>>
      <4> HIDE DEF UnitTypeOK
      <4>1. \A q \in Seq(S), x \in S : Append(q, x) # <<>>
        BY AppendProperties
      <4>2. \A p \in Ports : Append(mOutputQueue[p], EntryFor(feeding)) # <<>>
        BY <3>1, <4>1
      <4>3. QED
        BY <3>1, <3>2, <4>2
    <3>4. QED
      BY <2>1, <3>3 DEF FrontOK
  <2>6. QED
    BY <2>1, <2>3, <2>4, <2>5 DEF producer, RawTypeOK, PtTypeOK, TaskTypeOK, TodoOK
<1>4. CASE NewRequest
  <2> DEFINE R == [wants : SUBSET Ports, setting : Seqs, reprocess : BOOLEAN]
  <2>1. UNCHANGED <<scenario, producer, mInputQueue, mOutputQueue, mRawBufferMap, pt,
                    mOngoingTasks, poll>>
    BY <1>4 DEF NewRequest, pipes
  <2>2. PICK r \in R : requests' = Append(requests, r)
    BY <1>4, ProcessingAssumption DEF NewRequest
  <2>3. requests \in Seq(R)
    BY DEF AskTypeOK
  <2> HIDE DEF R
  <2>4. requests' \in Seq(R) /\ Len(requests') = Len(requests) + 1 /\ Len(requests) \in Nat
    BY <2>2, <2>3
  <2>5. 0 .. Len(requests) \subseteq 0 .. Len(requests')
    BY <2>4
  <2>6. Asked \subseteq Asked'
    BY <2>5 DEF Asked
  <2>7. Jobs \subseteq Jobs' /\ Tasks \subseteq Tasks'
    BY <2>6 DEF Jobs, Tasks
  <2>8. AskTypeOK'
    <3>1. \A p \in Ports : mOutputQueue[p] \in Seq(0 .. Len(requests'))
      BY <2>5, SeqGrows DEF AskTypeOK
    <3>2. mOutputQueue \in [Ports -> Seq(0 .. Len(requests'))]
      BY <3>1 DEF AskTypeOK
    <3>3. feeding' = 1
      BY <1>4 DEF NewRequest
    <3>4. QED
      BY <2>1, <2>4, <3>2, <3>3 DEF AskTypeOK, R
  <2>9. PtTypeOK'
    <3>1. pt.todo \in Seq(Jobs')
      BY <2>7, SeqGrows DEF PtTypeOK
    <3> HIDE DEF UnitTypeOK
    <3>2. PtTypeOK
      BY DEF UnitTypeOK
    <3>3. QED
      BY <2>1, <2>6, <3>1, <3>2 DEF PtTypeOK
  <2>10. TaskTypeOK'
    <3>1. mOngoingTasks \in Seq(Tasks')
      BY <2>7, SeqGrows DEF TaskTypeOK
    <3>2. QED
      BY <2>1, <2>7, <3>1 DEF TaskTypeOK
  <2>11. QED
    BY <2>1, <2>8, <2>9, <2>10 DEF producer, RawTypeOK, TodoOK, FrontOK
<1>5. QED
  BY <1>1, <1>2, <1>3, <1>4

LEMMA PrepareTypes ==
    ASSUME UnitTypeOK, PrepareTask
    PROVE  /\ UnitTypeOK'
           /\ pt'.raw = pt.raw /\ pt'.dst = pt.dst /\ pt'.src = pt.src
           /\ pt'.pc = IF NeedExecutePipe(Setting(pt.dst), seqOf[pt.raw])
                       THEN "fetch" ELSE "execute"
           /\ \A k \in 1 .. Len(pt'.todo) : pt'.todo[k].kind = "main" => pt'.todo[k].dst = pt.dst
<1> USE DEF UnitTypeOK
<1> DEFINE s    == seqOf[pt.raw]
           z    == Reprocessed(pt.dst)
           run  == NeedExecutePipe(Setting(pt.dst), s)
           main == Job("main", s, pt.dst)
           at   == IF z >= 0 THEN z ELSE s
           zsl  == IF z >= 0 THEN <<Job("zsl", z, Only(StillPorts, pt.dst))>> ELSE <<>>
           tnr  == TnrJobs(pt.dst, at)
           jobs == tnr \o zsl \o <<main>>
<1>1. UNCHANGED <<scenario, lastSeq, seqOf, requests, feeding, mRawBufferMap, mOngoingTasks,
                  poll>>
  BY DEF PrepareTask, asked, pipes
<1>2. UNCHANGED <<Asked, Jobs, Tasks>>
  BY <1>1, SameAsked
<1>3. pt.pc = "pop" /\ pt.raw \in Raws /\ pt.dst \in Asked
  BY DEF PrepareTask, PtTypeOK, Chooses
<1>4. s \in Int /\ z \in Int /\ at \in Int /\ (z # -1 => scenario.zsl)
  BY <1>3, ReprocessedTyped DEF RawTypeOK, Seqs
<1>5. RawTypeOK'
  <2>1. free' \subseteq Raws
    BY <1>3 DEF PrepareTask, RawTypeOK
  <2>2. mInputQueue' \in {mInputQueue, Tail(mInputQueue)}
    BY DEF PrepareTask
  <2>3. mInputQueue' \in Seq(Raws)
    <3>1. mInputQueue # <<>>
      BY <1>3 DEF FrontOK, Chooses
    <3>2. QED
      BY <2>2, <3>1 DEF RawTypeOK
  <2>4. QED
    BY <1>1, <2>1, <2>3 DEF RawTypeOK
<1>6. AskTypeOK'
  <2> DEFINE S == 0 .. Len(requests)
  <2>1. mOutputQueue \in [Ports -> Seq(S)]
    BY DEF AskTypeOK
  <2> HIDE DEF S
  <2>2. mOutputQueue' \in {mOutputQueue, [p \in Ports |-> Tail(mOutputQueue[p])]}
    BY DEF PrepareTask
  <2>3. \A p \in Ports : Tail(mOutputQueue[p]) \in Seq(S)
    <3>1. \A p \in Ports : mOutputQueue[p] # <<>>
      BY <1>3 DEF FrontOK, Chooses
    <3>2. QED
      BY <2>1, <3>1
  <2>4. mOutputQueue' \in [Ports -> Seq(S)]
    BY <2>1, <2>2, <2>3
  <2>5. QED
    BY <1>1, <2>4 DEF AskTypeOK, S
<1>7. /\ jobs \in Seq(Jobs) /\ jobs # <<>>
      /\ jobs[Len(jobs)] = main
      /\ \A k \in 1 .. Len(jobs) :
           /\ jobs[k].kind = "main" => k = Len(jobs)
           /\ jobs[k].kind = "fake" => k < Len(jobs)
           /\ jobs[k].kind = "zsl" => scenario.zsl /\ k + 1 >= Len(jobs)
  <2>1. tnr \in Seq(Jobs) /\ \A k \in 1 .. Len(tnr) : tnr[k].kind = "fake"
    BY <1>3, <1>4, TnrJobsTyped
  <2>2. main \in Jobs /\ main.kind = "main"
    BY <1>3, <1>4 DEF Jobs, Job
  <2>3. zsl \in Seq(Jobs) /\ Len(zsl) <= 1 /\ (zsl # <<>> => scenario.zsl /\ zsl[1].kind = "zsl")
    <3>1. CASE z >= 0
      <4>1. Job("zsl", z, Only(StillPorts, pt.dst)) \in Jobs
        BY <1>3, <1>4, OnlyAsked DEF Jobs, Job
      <4>2. zsl = <<Job("zsl", z, Only(StillPorts, pt.dst))>> /\ scenario.zsl
        BY <3>1, <1>4
      <4>3. Job("zsl", z, Only(StillPorts, pt.dst)).kind = "zsl"
        BY DEF Job
      <4> HIDE DEF zsl
      <4>4. QED
        BY <4>1, <4>2, <4>3
    <3>2. CASE ~(z >= 0)
      BY <3>2
    <3>3. QED
      BY <3>1, <3>2
  <2> HIDE DEF tnr, zsl, main
  <2> DEFINE t == tnr \o zsl
  <2>4. /\ t \in Seq(Jobs) /\ Len(t) = Len(tnr) + Len(zsl)
        /\ \A k \in 1 .. Len(tnr) + Len(zsl) :
             t[k] = IF k <= Len(tnr) THEN tnr[k] ELSE zsl[k - Len(tnr)]
    BY <2>1, <2>3, ConcatProperties
  <2>5. \A k \in 1 .. Len(t) : \/ t[k].kind = "fake"
                               \/ t[k].kind = "zsl" /\ scenario.zsl /\ k >= Len(t)
    <3> SUFFICES ASSUME NEW k \in 1 .. Len(t)
                 PROVE  \/ t[k].kind = "fake"
                        \/ t[k].kind = "zsl" /\ scenario.zsl /\ k >= Len(t)
      OBVIOUS
    <3>1. CASE k <= Len(tnr)
      BY <3>1, <2>1, <2>4
    <3>2. CASE ~(k <= Len(tnr))
      <4>1. Len(zsl) = 1 /\ k = Len(tnr) + 1 /\ k = Len(t) /\ k - Len(tnr) = 1
        <5>1. Len(zsl) \in Nat /\ Len(tnr) \in Nat
          BY <2>1, <2>3
        <5>2. k <= Len(tnr) + Len(zsl) /\ k > Len(tnr) /\ Len(zsl) <= 1 /\ k \in Int
          BY <3>2, <2>3, <2>4, <5>1
        <5>3. Len(zsl) = 1 /\ k = Len(tnr) + 1
          <6>1. \A a, b, c \in Int : c > a /\ c <= a + b /\ b <= 1 => b = 1 /\ c = a + 1
            OBVIOUS
          <6>2. Len(zsl) \in Int /\ Len(tnr) \in Int
            BY <5>1
          <6> HIDE DEF t
          <6>3. QED
            BY <5>2, <6>1, <6>2
        <5>4. Len(t) = Len(tnr) + Len(zsl)
          BY <2>4
        <5> HIDE DEF t
        <5>5. QED
          BY <5>1, <5>3, <5>4
      <4>2. t[k] = zsl[1] /\ zsl # <<>>
        BY <3>2, <4>1, <2>4, <2>3
      <4>3. QED
        BY <4>1, <4>2, <2>3
    <3>3. QED
      BY <3>1, <3>2
  <2>6. jobs = t \o <<main>>
    OBVIOUS
  <2> HIDE DEF t, jobs
  <2>7. /\ jobs \in Seq(Jobs) /\ Len(jobs) = Len(t) + 1
        /\ jobs[Len(jobs)] = main
        /\ \A k \in 1 .. Len(t) : jobs[k] = t[k]
    BY <2>2, <2>4, <2>6
  <2>8. QED
    BY <2>2, <2>4, <2>5, <2>7
<1> HIDE DEF jobs, main
<1>8. pt' = [pt EXCEPT !.pc = IF run THEN "fetch" ELSE "execute",
                       !.todo = IF run THEN jobs ELSE <<>>]
  BY DEF PrepareTask, jobs, main
<1>9. PtTypeOK'
  <2>1. <<>> \in Seq(Jobs)
    OBVIOUS
  <2>2. QED
    BY <1>2, <1>3, <1>7, <1>8, <2>1 DEF PtTypeOK, Chooses, Runs
<1>10. TodoOK'
  <2>1. pt'.todo = (IF run THEN jobs ELSE <<>>) /\ pt'.pc = (IF run THEN "fetch" ELSE "execute")
    BY <1>8 DEF PtTypeOK
  <2>2. main.kind = "main"
    BY DEF main, Job
  <2>3. QED
    BY <1>1, <1>7, <2>1, <2>2 DEF TodoOK, Runs
<1>11. TaskTypeOK'
  BY <1>1, <1>2 DEF TaskTypeOK
<1>12. FrontOK'
  BY <1>3, <1>8 DEF FrontOK, PtTypeOK, Chooses
<1>13. /\ pt'.raw = pt.raw /\ pt'.dst = pt.dst /\ pt'.src = pt.src
       /\ pt'.pc = (IF run THEN "fetch" ELSE "execute")
       /\ pt'.todo = (IF run THEN jobs ELSE <<>>)
  BY <1>8 DEF PtTypeOK
<1>14. main.dst = pt.dst
  BY DEF main, Job
<1>15. \A k \in 1 .. Len(pt'.todo) : pt'.todo[k].kind = "main" => pt'.todo[k].dst = pt.dst
  BY <1>7, <1>13, <1>14
<1>16. QED
  BY <1>5, <1>6, <1>9, <1>10, <1>11, <1>12, <1>13, <1>15

(* Actions of the process thread that leave queues, requests and tasks.    *)
LEMMA ThreadTypes ==
    ASSUME UnitTypeOK,
           UNCHANGED <<scenario, lastSeq, seqOf, asked, mInputQueue, mOutputQueue>>,
           free' \subseteq Raws, mRawBufferMap' \subseteq Raws,
           PtTypeOK', TodoOK', TaskTypeOK', FrontOK'
    PROVE  UnitTypeOK'
BY DEF UnitTypeOK, RawTypeOK, AskTypeOK, asked

LEMMA ChooseTypes ==
    ASSUME UnitTypeOK, ProcessNewFrame \/ NothingToPrepare \/ SaveRawBuffer \/ TrimRawBuffers
                         \/ ExecuteNode
    PROVE  UnitTypeOK'
<1> USE DEF UnitTypeOK
<1>1. UNCHANGED <<scenario, lastSeq, seqOf, asked, mInputQueue, mOutputQueue, mOngoingTasks>>
  BY DEF ProcessNewFrame, NothingToPrepare, SaveRawBuffer, TrimRawBuffers, ExecuteNode, producer
<1>2. UNCHANGED <<Asked, Jobs, Tasks>> /\ UNCHANGED requests
  BY <1>1, SameAsked DEF asked
<1>3. UNCHANGED poll
  BY DEF ProcessNewFrame, NothingToPrepare, SaveRawBuffer, TrimRawBuffers, ExecuteNode, pipes
<1>4. TaskTypeOK'
  BY <1>1, <1>2, <1>3 DEF TaskTypeOK
<1>5. free' \subseteq Raws /\ mRawBufferMap' \subseteq Raws
  <2>1. CASE TrimRawBuffers
    BY <2>1, ReturnRawBufferKeeps DEF TrimRawBuffers
  <2>2. CASE SaveRawBuffer
    BY <2>2 DEF SaveRawBuffer, producer, RawTypeOK, PtTypeOK, Chooses
  <2>3. CASE ProcessNewFrame \/ NothingToPrepare \/ ExecuteNode
    BY <2>3 DEF ProcessNewFrame, NothingToPrepare, ExecuteNode, producer, RawTypeOK
  <2>4. QED
    BY <2>1, <2>2, <2>3
<1>6. PtTypeOK' /\ TodoOK' /\ FrontOK'
  <2>1. CASE ProcessNewFrame
    <3> DEFINE dst == [p \in Ports |-> Head(mOutputQueue[p])]
    <3>1. dst \in Asked
      BY <2>1 DEF ProcessNewFrame, OutputsReady, AskTypeOK, Asked
    <3>2. Head(mInputQueue) \in Raws /\ mInputQueue # <<>> /\ \A p \in Ports : mOutputQueue[p] # <<>>
      BY <2>1 DEF ProcessNewFrame, OutputsReady, RawTypeOK
    <3>3. pt' = [pc |-> IF scenario.zsl THEN "save" ELSE "pop", raw |-> Head(mInputQueue),
                 dst |-> dst, todo |-> <<>>, src |-> None]
      BY <2>1 DEF ProcessNewFrame, Idle
    <3> HIDE DEF dst
    <3>4. <<>> \in Seq(Jobs)
      OBVIOUS
    <3>5. QED
      BY <1>1, <1>2, <3>1, <3>2, <3>3, <3>4 DEF PtTypeOK, TodoOK, FrontOK, Chooses, Runs
  <2>2. CASE ExecuteNode
    <3>1. pt' = Idle /\ <<>> \in Seq(Jobs)
      BY <2>2 DEF ExecuteNode
    <3>2. QED
      BY <1>2, <3>1 DEF Idle, PtTypeOK, TodoOK, FrontOK, Chooses, Runs
  <2>3. CASE NothingToPrepare
    <3>1. pt' = [pt EXCEPT !.pc = "execute"]
      BY <2>3 DEF NothingToPrepare
    <3>2. QED
      BY <1>2, <3>1 DEF PtTypeOK, TodoOK, FrontOK, Chooses, Runs
  <2>4. CASE SaveRawBuffer
    <3>1. pt.pc = "save" /\ pt' = [pt EXCEPT !.pc = "trim"]
      BY <2>4 DEF SaveRawBuffer
    <3>2. QED
      BY <1>1, <1>2, <3>1 DEF PtTypeOK, TodoOK, FrontOK, Chooses, Runs
  <2>5. CASE TrimRawBuffers
    <3>1. pt.pc = "trim" /\ pt' = [pt EXCEPT !.pc = "pop"]
      BY <2>5 DEF TrimRawBuffers
    <3>2. QED
      BY <1>1, <1>2, <3>1 DEF PtTypeOK, TodoOK, FrontOK, Chooses, Runs
  <2>6. QED
    BY <2>1, <2>2, <2>3, <2>4, <2>5
<1>7. QED
  BY <1>1, <1>4, <1>5, <1>6, ThreadTypes

(* What is left of the list of tasks when its first one is over.           *)
LEMMA TodoTail ==
    ASSUME UnitTypeOK, pt.pc \in Runs
    PROVE  /\ pt.todo \in Seq(Jobs) /\ Len(pt.todo) >= 1
           /\ Head(pt.todo) = pt.todo[1] /\ Head(pt.todo) \in Jobs
           /\ Tail(pt.todo) \in Seq(Jobs) /\ Len(Tail(pt.todo)) = Len(pt.todo) - 1
           /\ \A k \in 1 .. Len(pt.todo) - 1 : Tail(pt.todo)[k] = pt.todo[k + 1]
<1>1. pt.todo \in Seq(Jobs) /\ pt.todo # <<>>
  BY DEF UnitTypeOK, PtTypeOK, TodoOK
<1>2. QED
  BY <1>1

LEMMA FetchTypes ==
    ASSUME UnitTypeOK, FetchSource
    PROVE  /\ UnitTypeOK'
           /\ pt'.raw = pt.raw /\ pt'.dst = pt.dst
           /\ \/ /\ pt'.pc = "fetch" /\ pt'.todo = Tail(pt.todo) /\ Len(pt.todo) > 1
                 /\ pt'.src = pt.src
              \/ /\ pt'.pc = "add" /\ pt'.src \in mRawBufferMap /\ Head(pt'.todo).kind = "zsl"
                 /\ scenario.zsl
              \/ /\ pt'.pc = "dispatch" /\ pt'.todo = pt.todo
                 /\ IF Head(pt.todo).kind = "main" THEN pt'.src = pt.raw
                    ELSE pt'.src \in mRawBufferMap
<1> USE DEF UnitTypeOK
<1> DEFINE job   == Head(pt.todo)
           found == job.kind = "main" \/ Kept(job.seq) # {}
           src   == IF job.kind = "main" THEN pt.raw ELSE CHOOSE b \in Kept(job.seq) : TRUE
<1>1. UNCHANGED <<scenario, free, mRawBufferMap, lastSeq, seqOf, asked, mInputQueue, mOutputQueue,
                  mOngoingTasks, poll>>
  BY DEF FetchSource, producer, pipes
<1>2. UNCHANGED <<Asked, Jobs, Tasks>> /\ UNCHANGED requests
  BY <1>1, SameAsked DEF asked
<1>3. TaskTypeOK'
  BY <1>1, <1>2 DEF TaskTypeOK
<1>4. free' \subseteq Raws /\ mRawBufferMap' \subseteq Raws
  BY <1>1 DEF RawTypeOK
<1>5. pt.pc = "fetch" /\ pt.raw \in Raws /\ pt.dst \in Asked
  BY DEF FetchSource, PtTypeOK, Runs
<1>6. /\ pt.todo \in Seq(Jobs) /\ Len(pt.todo) >= 1
      /\ Head(pt.todo) = pt.todo[1] /\ Head(pt.todo) \in Jobs
      /\ Tail(pt.todo) \in Seq(Jobs) /\ Len(Tail(pt.todo)) = Len(pt.todo) - 1
      /\ \A k \in 1 .. Len(pt.todo) - 1 : Tail(pt.todo)[k] = pt.todo[k + 1]
  BY <1>5, TodoTail DEF Runs
<1>7. found => IF job.kind = "main" THEN src = pt.raw ELSE src \in mRawBufferMap
  <2>1. ASSUME job.kind # "main", Kept(job.seq) # {} PROVE src \in mRawBufferMap
    <3>1. src \in Kept(job.seq)
      BY <2>1
    <3>2. QED
      BY <3>1 DEF Kept
  <2>2. QED
    BY <2>1
<1>8. found => src \in Raws
  BY <1>5, <1>7 DEF RawTypeOK
<1>9. /\ \A k \in 1 .. Len(pt.todo) :
           /\ pt.todo[k].kind = "main" => k = Len(pt.todo)
           /\ pt.todo[k].kind = "fake" => k < Len(pt.todo)
           /\ pt.todo[k].kind = "zsl" => scenario.zsl /\ k + 1 >= Len(pt.todo)
      /\ pt.todo[Len(pt.todo)].kind = "main"
  BY <1>5 DEF TodoOK, Runs
<1>10. CASE ~found
  <2>1. pt' = [pt EXCEPT !.todo = Tail(@)]
    BY <1>10 DEF FetchSource
  <2>2. /\ pt'.todo = Tail(pt.todo) /\ pt'.pc = "fetch"
        /\ pt'.raw = pt.raw /\ pt'.dst = pt.dst /\ pt'.src = pt.src
    BY <1>5, <2>1 DEF PtTypeOK
  <2>3. Len(pt.todo) > 1
    BY <1>6, <1>9, <1>10
  <2>4. PtTypeOK'
    BY <1>2, <1>5, <1>6, <2>1 DEF PtTypeOK, Chooses, Runs
  <2>5. TodoOK'
    <3>1. Len(pt'.todo) = Len(pt.todo) - 1 /\ \A k \in 1 .. Len(pt'.todo) : pt'.todo[k] = pt.todo[k + 1]
      BY <1>6, <2>2
    <3>2. pt'.todo # <<>> /\ Len(pt'.todo) \in Nat
      <4>1. Tail(pt.todo) \in Seq(Jobs) /\ Len(Tail(pt.todo)) >= 1
        BY <1>6, <2>3
      <4>2. \A q \in Seq(Jobs) : Len(q) >= 1 => q # <<>> /\ Len(q) \in Nat
        OBVIOUS
      <4>3. QED
        BY <2>2, <4>1, <4>2
    <3>3. \A k \in 1 .. Len(pt'.todo) : k + 1 \in 1 .. Len(pt.todo)
      BY <1>6, <3>1
    <3>4. QED
      BY <1>1, <1>6, <1>9, <2>2, <2>3, <3>1, <3>2, <3>3 DEF TodoOK
  <2>6. FrontOK'
    BY <2>2 DEF FrontOK, Chooses
  <2>7. QED
    BY <1>1, <1>3, <1>4, <2>2, <2>3, <2>4, <2>5, <2>6, ThreadTypes
<1>11. CASE found /\ job.kind = "zsl"
  <2> DEFINE rest == Rest(Tail(pt.todo))
  <2>1. pt' = [pt EXCEPT !.pc = "add", !.src = src, !.todo = <<job>> \o rest]
    BY <1>11 DEF FetchSource
  <2>2. Len(pt.todo) = 2 /\ scenario.zsl
    <3>1. Len(pt.todo) \in Nat /\ 1 \in 1 .. Len(pt.todo) /\ pt.todo[1].kind = "zsl"
      BY <1>6, <1>11
    <3>2. 1 + 1 >= Len(pt.todo) /\ Len(pt.todo) # 1
      BY <1>9, <3>1
    <3>3. Len(pt.todo) = 2
      <4>1. \A n \in Nat : 1 \in 1 .. n /\ 1 + 1 >= n /\ n # 1 => n = 2
        OBVIOUS
      <4>2. QED
        BY <3>1, <3>2, <4>1
    <3>4. scenario.zsl
      BY <1>9, <3>1
    <3>5. QED
      BY <3>3, <3>4
  <2>3. Tail(pt.todo) \in Seq(Jobs) /\ Len(Tail(pt.todo)) = 1 /\ Tail(pt.todo)[1] = pt.todo[2]
    BY <1>6, <2>2
  <2>4. Head(Tail(pt.todo)) = pt.todo[2] /\ pt.todo[2] \in Jobs /\ pt.todo[2].kind = "main"
    BY <1>9, <2>2, <2>3
  <2>5. \/ rest = <<>>
        \/ \E e \in Jobs : rest = <<e>> /\ e.kind = "main"
    <3> DEFINE old == pt.todo[2].dst
               dst == [p \in Ports |-> IF FirstStill(p, old) THEN None ELSE old[p]]
               e == [pt.todo[2] EXCEPT !.dst = dst]
    <3>1. dst \in Asked
      <4>1. old \in Asked
        BY <2>4 DEF Jobs
      <4>2. QED
        BY <4>1 DEF Asked, None
    <3>2. e \in Jobs /\ e.kind = "main"
      BY <2>4, <3>1 DEF Jobs
    <3>3. rest = <<>> \/ rest = <<e>>
      BY <2>4 DEF Rest
    <3>4. QED
      BY <3>2, <3>3
  <2> HIDE DEF rest
  <2>6. /\ <<job>> \o rest \in Seq(Jobs) /\ Head(<<job>> \o rest) = job
        /\ \/ Len(<<job>> \o rest) = 1 /\ (<<job>> \o rest)[1] = job
           \/ /\ Len(<<job>> \o rest) = 2 /\ (<<job>> \o rest)[1] = job
              /\ (<<job>> \o rest)[2].kind = "main"
    <3>1. job \in Jobs
      BY <1>6
    <3> HIDE DEF job
    <3>2. CASE rest = <<>>
      BY <3>1, <3>2
    <3>3. ASSUME NEW e \in Jobs, rest = <<e>>, e.kind = "main"
          PROVE  /\ <<job>> \o rest \in Seq(Jobs) /\ Head(<<job>> \o rest) = job
                 /\ Len(<<job>> \o rest) = 2 /\ (<<job>> \o rest)[1] = job
                 /\ (<<job>> \o rest)[2].kind = "main"
      BY <3>1, <3>3
    <3>4. QED
      BY <2>5, <3>2, <3>3
  <2> DEFINE todo == <<job>> \o rest
  <2> HIDE DEF todo
  <2>7. pt'.todo = todo /\ pt'.pc = "add" /\ pt'.raw = pt.raw /\ pt'.src = src
        /\ pt'.dst = pt.dst
    BY <2>1 DEF PtTypeOK, todo
  <2>8. PtTypeOK'
    BY <1>2, <1>5, <1>8, <1>11, <2>1, <2>6 DEF PtTypeOK, Chooses, Runs
  <2>9. TodoOK'
    <3>1. /\ todo \in Seq(Jobs) /\ todo[1].kind = "zsl"
          /\ Len(todo) = 1 \/ (Len(todo) = 2 /\ todo[2].kind = "main")
      BY <1>11, <2>6 DEF todo
    <3>2. todo # <<>>
      BY <3>1
    <3>3. QED
      BY <1>1, <2>2, <2>7, <3>1, <3>2 DEF TodoOK
  <2>10. FrontOK'
    BY <2>7 DEF FrontOK, Chooses
  <2>11. src \in mRawBufferMap /\ Head(todo).kind = "zsl"
    BY <1>7, <1>11, <2>6 DEF todo
  <2>12. QED
    BY <1>1, <1>3, <1>4, <2>2, <2>7, <2>8, <2>9, <2>10, <2>11, ThreadTypes
<1>12. CASE found /\ job.kind # "zsl"
  <2>1. pt' = [pt EXCEPT !.pc = "dispatch", !.src = src]
    BY <1>12 DEF FetchSource
  <2>2. pt'.pc = "dispatch" /\ pt'.todo = pt.todo /\ pt'.raw = pt.raw /\ pt'.src = src
        /\ pt'.dst = pt.dst
    BY <2>1 DEF PtTypeOK
  <2>3. PtTypeOK'
    BY <1>2, <1>5, <1>8, <1>12, <2>1 DEF PtTypeOK, Chooses, Runs
  <2>4. TodoOK' /\ FrontOK'
    BY <1>1, <1>5, <2>2 DEF TodoOK, FrontOK, Chooses, Runs
  <2>5. QED
    BY <1>1, <1>3, <1>4, <1>7, <1>12, <2>2, <2>3, <2>4, ThreadTypes
<1>13. QED
  BY <1>10, <1>11, <1>12

LEMMA DispatchTypes ==
    ASSUME UnitTypeOK, DispatchTask
    PROVE  UnitTypeOK' /\ pt' = [pt EXCEPT !.pc = "add"] /\ pt.pc = "dispatch"
<1> USE DEF UnitTypeOK
<1>1. /\ UNCHANGED <<scenario, lastSeq, seqOf, asked, mInputQueue, mOutputQueue, mOngoingTasks,
                     free, mRawBufferMap, poll>>
      /\ pt.pc = "dispatch" /\ pt' = [pt EXCEPT !.pc = "add"]
  BY DEF DispatchTask, producer, pipes
<1>2. UNCHANGED <<Asked, Jobs, Tasks>> /\ UNCHANGED requests
  BY <1>1, SameAsked DEF asked
<1>3. TaskTypeOK'
  BY <1>1, <1>2 DEF TaskTypeOK
<1>4. free' \subseteq Raws /\ mRawBufferMap' \subseteq Raws
  BY <1>1 DEF RawTypeOK
<1>5. PtTypeOK'
  BY <1>1, <1>2 DEF PtTypeOK, Chooses, Runs
<1>6. TodoOK' /\ FrontOK'
  <2>1. pt'.pc = "add" /\ pt'.todo = pt.todo
    BY <1>1 DEF PtTypeOK
  <2>2. QED
    BY <1>1, <2>1 DEF TodoOK, FrontOK, Chooses, Runs
<1>7. QED
  BY <1>1, <1>3, <1>4, <1>5, <1>6, ThreadTypes

(* The task that is listed, and what stays of the list.                    *)
NewTask ==
    [raw |-> pt.src, seq |-> seqOf[pt.src], dst |-> Head(pt.todo).dst,
     fake |-> Head(pt.todo).kind = "fake",
     left |-> Cardinality(Writes(Head(pt.todo)))]

LEMMA AddExact ==
    ASSUME UnitTypeOK, AddTask
    PROVE  /\ NewTask \in Tasks
           /\ \E n \in 1 .. Len(mOngoingTasks) + 1 :
                mOngoingTasks' = InsertAt(mOngoingTasks, n, NewTask)
<1>1. pt.pc = "add" /\ mOngoingTasks' = InsertTask(NewTask)
  BY DEF AddTask, NewTask
<1>2. Head(pt.todo) \in Jobs
  BY <1>1, TodoTail DEF Runs
<1>3. NewTask \in Tasks
  <2>1. pt.src \in Raws /\ seqOf[pt.src] \in Int
    BY <1>1 DEF UnitTypeOK, PtTypeOK, RawTypeOK, Seqs
  <2>2. Cardinality(Writes(Head(pt.todo))) \in Int
    <3>1. IsFiniteSet(Writes(Head(pt.todo)))
      BY PortsFinite, FS_Subset DEF Writes
    <3>2. QED
      BY <3>1, FS_CardinalityType
  <2>3. Head(pt.todo).dst \in Asked
    BY <1>2 DEF Jobs
  <2>4. QED
    BY <2>1, <2>2, <2>3 DEF NewTask, Tasks
<1> HIDE DEF NewTask
<1> DEFINE before == {k \in DOMAIN mOngoingTasks : mOngoingTasks[k].seq <= NewTask.seq}
           n == Cardinality(before)
<1>4. mOngoingTasks \in Seq(Tasks) /\ Len(mOngoingTasks) \in Nat
      /\ DOMAIN mOngoingTasks = 1 .. Len(mOngoingTasks)
  BY DEF UnitTypeOK, TaskTypeOK
<1>5. n \in Nat /\ n <= Len(mOngoingTasks)
  <2>1. /\ IsFiniteSet(1 .. Len(mOngoingTasks))
        /\ Cardinality(1 .. Len(mOngoingTasks)) = Len(mOngoingTasks)
    <3>1. \A m \in Nat : IsFiniteSet(1 .. m) /\ Cardinality(1 .. m) = m
      BY FS_Interval
    <3>2. QED
      BY <1>4, <3>1
  <2>2. before \subseteq 1 .. Len(mOngoingTasks)
    BY <1>4
  <2> HIDE DEF before
  <2>3. IsFiniteSet(before) /\ Cardinality(before) <= Cardinality(1 .. Len(mOngoingTasks))
    BY <2>1, <2>2, FS_Subset
  <2>4. QED
    BY <2>1, <2>3, FS_CardinalityType
<1>6. mOngoingTasks' = InsertAt(mOngoingTasks, n + 1, NewTask)
  BY <1>1 DEF InsertTask
<1> HIDE DEF n
<1>7. n + 1 \in 1 .. Len(mOngoingTasks) + 1
  BY <1>4, <1>5
<1>8. QED
  BY <1>3, <1>6, <1>7

LEMMA AddTypes ==
    ASSUME UnitTypeOK, AddTask
    PROVE  /\ UnitTypeOK'
           /\ \E k \in DOMAIN mOngoingTasks' : mOngoingTasks'[k] = NewTask
           /\ \A j \in DOMAIN mOngoingTasks :
                \E k \in DOMAIN mOngoingTasks' : mOngoingTasks'[k] = mOngoingTasks[j]
           /\ pt'.raw = pt.raw /\ pt'.dst = pt.dst /\ pt'.todo = Tail(pt.todo) /\ pt'.src = None
           /\ pt'.pc = IF Len(pt.todo) = 1 THEN "execute" ELSE "fetch"
<1> USE DEF UnitTypeOK
<1>1. /\ UNCHANGED <<scenario, lastSeq, seqOf, asked, mInputQueue, mOutputQueue,
                     free, mRawBufferMap, poll>>
      /\ pt.pc = "add" /\ mOngoingTasks' = InsertTask(NewTask)
      /\ pt' = [pt EXCEPT !.todo = Tail(@), !.src = None,
                          !.pc = IF Len(pt.todo) = 1 THEN "execute" ELSE "fetch"]
  BY DEF AddTask, NewTask, producer, pipes
<1>2. UNCHANGED <<Asked, Jobs, Tasks>> /\ UNCHANGED requests
  BY <1>1, SameAsked DEF asked
<1>3. /\ pt.todo \in Seq(Jobs) /\ Len(pt.todo) >= 1
      /\ Head(pt.todo) = pt.todo[1] /\ Head(pt.todo) \in Jobs
      /\ Tail(pt.todo) \in Seq(Jobs) /\ Len(Tail(pt.todo)) = Len(pt.todo) - 1
      /\ \A k \in 1 .. Len(pt.todo) - 1 : Tail(pt.todo)[k] = pt.todo[k + 1]
  BY <1>1, TodoTail DEF Runs
<1>4. NewTask \in Tasks
  BY AddExact
<1> HIDE DEF NewTask
<1>5. /\ mOngoingTasks' \in Seq(Tasks)
      /\ \E k \in DOMAIN mOngoingTasks' : mOngoingTasks'[k] = NewTask
      /\ \A j \in DOMAIN mOngoingTasks :
           \E k \in DOMAIN mOngoingTasks' : mOngoingTasks'[k] = mOngoingTasks[j]
  <2>1. PICK n \in 1 .. Len(mOngoingTasks) + 1 :
          mOngoingTasks' = InsertAt(mOngoingTasks, n, NewTask)
    BY AddExact
  <2>2. PICK s : s = mOngoingTasks
    OBVIOUS
  <2>3. PICK e : e = NewTask
    OBVIOUS
  <2>4. s \in Seq(Tasks) /\ e \in Tasks /\ n \in 1 .. Len(s) + 1
    BY <1>4, <2>2, <2>3 DEF TaskTypeOK
  <2>5. /\ InsertAt(s, n, e) \in Seq(Tasks)
        /\ \E k \in DOMAIN InsertAt(s, n, e) : InsertAt(s, n, e)[k] = e
        /\ \A j \in DOMAIN s : \E k \in DOMAIN InsertAt(s, n, e) : InsertAt(s, n, e)[k] = s[j]
    BY <2>4, InsertAtKeeps, SMTT(20)
  <2>6. QED
    BY <2>1, <2>2, <2>3, <2>5
<1>6. pt'.todo = Tail(pt.todo) /\ pt'.raw = pt.raw /\ pt'.dst = pt.dst /\ pt'.src = None
      /\ pt'.pc = IF Len(pt.todo) = 1 THEN "execute" ELSE "fetch"
  BY <1>1 DEF PtTypeOK
<1>7. TaskTypeOK'
  BY <1>1, <1>2, <1>5 DEF TaskTypeOK
<1>8. PtTypeOK'
  BY <1>1, <1>2, <1>3 DEF PtTypeOK, Chooses, Runs, None
<1>9. TodoOK'
  <2> SUFFICES ASSUME Len(pt.todo) # 1 PROVE TodoOK'
    BY <1>6 DEF TodoOK, Runs
  <2>1. /\ pt.todo[Len(pt.todo)].kind = "main"
        /\ \A k \in 1 .. Len(pt.todo) :
             /\ pt.todo[k].kind = "main" => k = Len(pt.todo)
             /\ pt.todo[k].kind = "fake" => k < Len(pt.todo)
             /\ pt.todo[k].kind = "zsl" => scenario.zsl /\ k + 1 >= Len(pt.todo)
    <3>1. Len(pt.todo) \in Nat
      BY <1>3
    <3>2. Len(pt.todo) > 1
      <4>1. \A n \in Nat : n >= 1 /\ n # 1 => n > 1
        OBVIOUS
      <4>2. QED
        BY <1>3, <3>1, <4>1
    <3>3. QED
      BY <1>1, <3>2 DEF TodoOK, Runs
  <2>2. /\ pt'.todo \in Seq(Jobs) /\ Len(pt'.todo) = Len(pt.todo) - 1
        /\ \A k \in 1 .. Len(pt'.todo) : pt'.todo[k] = pt.todo[k + 1]
    BY <1>3, <1>6
  <2> DEFINE q == pt.todo
             t == pt'.todo
  <2>3. Len(q) \in Nat /\ Len(q) >= 2
    <3>1. Len(q) \in Nat
      BY <1>3
    <3>2. \A n \in Nat : n >= 1 /\ n # 1 => n >= 2
      OBVIOUS
    <3>3. QED
      BY <1>3, <3>1, <3>2
  <2>4. t # <<>> /\ t[Len(t)].kind = "main"
    <3>1. Len(t) \in 1 .. Len(t) /\ Len(t) + 1 = Len(q)
      BY <2>2, <2>3
    <3>2. t[Len(t)] = q[Len(q)]
      BY <2>2, <3>1
    <3>3. QED
      BY <2>1, <2>2, <3>1, <3>2
  <2>5. ASSUME NEW k \in 1 .. Len(t)
        PROVE  /\ t[k].kind = "main" => k = Len(t)
               /\ t[k].kind = "fake" => k < Len(t)
               /\ t[k].kind = "zsl" => scenario.zsl /\ k + 1 >= Len(t)
    <3>1. k + 1 \in 1 .. Len(q) /\ t[k] = q[k + 1] /\ Len(t) \in Int /\ Len(q) = Len(t) + 1
      BY <2>2, <2>3
    <3>2. /\ t[k].kind = "main" => k + 1 = Len(q)
          /\ t[k].kind = "fake" => k + 1 < Len(q)
          /\ t[k].kind = "zsl" => scenario.zsl /\ k + 1 + 1 >= Len(q)
      BY <2>1, <3>1
    <3>3. (k + 1 = Len(q) => k = Len(t)) /\ (k + 1 < Len(q) => k < Len(t))
          /\ (k + 1 + 1 >= Len(q) => k + 1 >= Len(t))
      BY <3>1
    <3>4. QED
      BY <3>2, <3>3
  <2>6. QED
    BY <1>1, <2>4, <2>5 DEF TodoOK
<1>10. FrontOK'
  BY <1>6 DEF FrontOK, Chooses
<1>11. free' \subseteq Raws /\ mRawBufferMap' \subseteq Raws
  BY <1>1 DEF RawTypeOK
<1>12. QED
  BY <1>1, <1>5, <1>6, <1>7, <1>8, <1>9, <1>10, <1>11, ThreadTypes

(* The pipes leave the queues and the process thread alone.                *)
LEMMA PipesLeave ==
    ASSUME NEW i \in Pipes, Executor(i) \/ PollThread(i)
    PROVE  UNCHANGED <<scenario, lastSeq, seqOf, asked, mInputQueue, mOutputQueue, pt>>
BY DEF Executor, PollThread, WaitTimeout, Process, HandleEvent, OnBufferDone, OnTaskDone,
       EraseSequence, TrimAfterTask, PopTask, producer

LEMMA PipeTypes ==
    ASSUME UnitTypeOK, NEW i \in Pipes, Executor(i) \/ PollThread(i)
    PROVE  UnitTypeOK'
<1> USE DEF UnitTypeOK
<1>1. UNCHANGED <<scenario, lastSeq, seqOf, asked, mInputQueue, mOutputQueue, pt>>
  BY PipesLeave
<1>2. UNCHANGED <<Asked, Jobs, Tasks>> /\ UNCHANGED requests
  BY <1>1, SameAsked DEF asked
<1>3. PtTypeOK' /\ TodoOK' /\ FrontOK'
  BY <1>1, <1>2 DEF PtTypeOK, TodoOK, FrontOK
<1>4. SUFFICES free' \subseteq Raws /\ mRawBufferMap' \subseteq Raws /\ TaskTypeOK'
  BY <1>1, <1>3, ThreadTypes
<1>5. CASE Executor(i)
  <2>1. UNCHANGED <<free, mRawBufferMap, mOngoingTasks, poll>>
    BY <1>5 DEF Executor, WaitTimeout, Process, producer
  <2>2. QED
    BY <1>2, <2>1 DEF RawTypeOK, TaskTypeOK
<1>6. CASE HandleEvent(i) \/ EraseSequence(i) \/ PopTask(i)
  <2>1. UNCHANGED <<free, mRawBufferMap, mOngoingTasks>>
    BY <1>6 DEF HandleEvent, EraseSequence, PopTask, producer
  <2>2. /\ DOMAIN poll' = Pipes
        /\ \A j \in Pipes : DOMAIN poll'[j] = {"pc", "ports", "task"}
        /\ \A j \in Pipes : poll'[j].pc = "done" => j # i /\ poll'[j] = poll[j]
    <3>1. \/ \E x : poll' = [poll EXCEPT ![i] = [pc |-> "buffers", ports |-> x, task |-> <<>>]]
          \/ poll' = [poll EXCEPT ![i].pc = "trim"]
          \/ poll' = [poll EXCEPT ![i] = [pc |-> "idle", ports |-> {}, task |-> <<>>]]
      <4>1. ASSUME HandleEvent(i)
            PROVE  \E x : poll' = [poll EXCEPT ![i] = [pc |-> "buffers", ports |-> x, task |-> <<>>]]
        BY <4>1 DEF HandleEvent
      <4>2. QED
        BY <1>6, <4>1 DEF EraseSequence, PopTask, Asleep
    <3>2. DOMAIN poll = Pipes /\ \A j \in Pipes : DOMAIN poll[j] = {"pc", "ports", "task"}
      BY DEF TaskTypeOK
    <3>3. CASE \E x : poll' = [poll EXCEPT ![i] = [pc |-> "buffers", ports |-> x, task |-> <<>>]]
      BY <3>2, <3>3
    <3>4. CASE poll' = [poll EXCEPT ![i].pc = "trim"]
      BY <3>2, <3>4
    <3>5. CASE poll' = [poll EXCEPT ![i] = [pc |-> "idle", ports |-> {}, task |-> <<>>]]
      BY <3>2, <3>5
    <3>6. QED
      BY <3>1, <3>3, <3>4, <3>5
  <2>3. QED
    BY <1>2, <2>1, <2>2 DEF RawTypeOK, TaskTypeOK
<1>7. CASE OnBufferDone(i)
  <2>1. UNCHANGED <<free, mRawBufferMap>>
    BY <1>7 DEF OnBufferDone, producer
  <2>2. PICK k \in 1 .. Len(mOngoingTasks) :
             LET task == mOngoingTasks[k] IN
             \/ /\ mOngoingTasks' = RemoveAt(mOngoingTasks, k)
                /\ poll' = [poll EXCEPT ![i] =
                     [pc |-> "done", ports |-> poll[i].ports \ {NextPort(i)}, task |-> <<task>>]]
             \/ /\ mOngoingTasks' = [mOngoingTasks EXCEPT ![k].left = @ - 1]
                /\ poll' = [poll EXCEPT ![i].ports = @ \ {NextPort(i)}]
    BY <1>7, TaskDone
  <2>3. mOngoingTasks \in Seq(Tasks) /\ mOngoingTasks[k] \in Tasks
    BY DEF TaskTypeOK
  <2>4. mOngoingTasks' \in Seq(Tasks)
    <3>1. RemoveAt(mOngoingTasks, k) \in Seq(Tasks)
      BY <2>3, RemoveAtKeeps
    <3>2. [mOngoingTasks[k] EXCEPT !.left = @ - 1] \in Tasks
      <4>1. \A t \in Tasks : [t EXCEPT !.left = @ - 1] \in Tasks
        BY DEF Tasks
      <4> HIDE DEF UnitTypeOK
      <4>2. QED
        BY <2>3, <4>1
    <3>3. [mOngoingTasks EXCEPT ![k].left = @ - 1] \in Seq(Tasks)
      BY <2>3, <3>2
    <3>4. QED
      BY <2>2, <3>1, <3>3
  <2>5. /\ DOMAIN poll' = Pipes
        /\ \A j \in Pipes : /\ DOMAIN poll'[j] = {"pc", "ports", "task"}
                            /\ poll'[j].pc = "done" => poll'[j].task[1] \in Tasks
    <3>1. CASE poll' = [poll EXCEPT ![i].ports = @ \ {NextPort(i)}]
      BY <3>1 DEF TaskTypeOK
    <3>2. CASE poll' = [poll EXCEPT ![i] =
                 [pc |-> "done", ports |-> poll[i].ports \ {NextPort(i)}, task |-> <<mOngoingTasks[k]>>]]
      BY <2>3, <3>2 DEF TaskTypeOK
    <3>3. QED
      BY <2>2, <3>1, <3>2
  <2>6. QED
    BY <1>2, <2>1, <2>4, <2>5 DEF RawTypeOK, TaskTypeOK
<1>8. CASE OnTaskDone(i)
  <2>1. UNCHANGED <<mRawBufferMap, mOngoingTasks>> /\ poll[i].pc = "done"
    BY <1>8 DEF OnTaskDone
  <2>2. poll' = [poll EXCEPT ![i].pc = "erase"]
    BY <1>8 DEF OnTaskDone
  <2>3. free' \subseteq free \cup {poll[i].task[1].raw} /\ poll[i].task[1] \in Tasks
    BY <1>8, <2>1 DEF OnTaskDone, TaskTypeOK
  <2>4. free' \subseteq Raws
    BY <2>3 DEF RawTypeOK, Tasks
  <2>5. QED
    BY <1>2, <2>1, <2>2, <2>4 DEF RawTypeOK, TaskTypeOK
<1>9. CASE TrimAfterTask(i)
  <2>1. mOngoingTasks' = mOngoingTasks
        /\ poll' = [poll EXCEPT ![i].pc = "buffers", ![i].task = <<>>]
    BY <1>9 DEF TrimAfterTask
  <2>2. free' \subseteq Raws /\ mRawBufferMap' \subseteq Raws
    BY <1>9, ReturnRawBufferKeeps DEF TrimAfterTask
  <2>3. /\ DOMAIN poll' = Pipes
        /\ \A j \in Pipes : DOMAIN poll'[j] = {"pc", "ports", "task"}
        /\ \A j \in Pipes : poll'[j].pc = "done" => j # i /\ poll'[j] = poll[j]
    BY <2>1 DEF TaskTypeOK
  <2>4. QED
    BY <1>2, <2>1, <2>2, <2>3 DEF TaskTypeOK
<1>10. QED
  BY <1>5, <1>6, <1>7, <1>8, <1>9 DEF PollThread

LEMMA UnitTypeStep == UnitTypeOK /\ [Next]_vars => UnitTypeOK'
<1> SUFFICES ASSUME UnitTypeOK, [Next]_vars PROVE UnitTypeOK'
  OBVIOUS
<1>1. CASE Capture \/ LoseFrame \/ NewRequest \/ HandleQueueBuffer
  BY <1>1, EnvironmentTypes
<1>2. CASE ProcessThread
  BY <1>2, ChooseTypes, PrepareTypes, FetchTypes, DispatchTypes, AddTypes DEF ProcessThread
<1>3. ASSUME NEW i \in Pipes, Executor(i) \/ PollThread(i) PROVE UnitTypeOK'
  BY <1>3, PipeTypes
<1>4. CASE UNCHANGED vars
  <2>1. UNCHANGED requests
    BY <1>4 DEF vars, asked
  <2>2. UNCHANGED <<Asked, Jobs, Tasks>>
    BY <2>1, SameAsked
  <2>3. QED
    BY <1>4, <2>1, <2>2 DEF vars, producer, asked, pipes, UnitTypeOK, RawTypeOK, AskTypeOK,
                            PtTypeOK, TaskTypeOK, TodoOK, FrontOK
<1>5. QED
  BY <1>1, <1>2, <1>3, <1>4 DEF Next

-----------------------------------------------------------------------------
(* The way back of a raw buffer.                                           *)

Hold(dst, s) == NeedHoldOnInputFrame(Setting(dst), s)

(* A task at whose end the raw buffer is given back or is kept.            *)
Gives(t) == ~t.fake /\ ~Hold(t.dst, t.seq)

Done   == {poll[i].task[1] : i \in {j \in Pipes : poll[j].pc = "done"}}
Coming == ToSet(mOngoingTasks) \cup Done

Claimed(b) == \E t \in Coming : t.raw = b /\ Gives(t)

InQueue(b) == \E k \in 1 .. Len(mInputQueue) : mInputQueue[k] = b

(* With the producer, or on a way there that needs no task.                *)
Secured(b) == b \in free \/ b \in mRawBufferMap \/ InQueue(b)

(* Every raw buffer is secured, in the hands of the process thread, or the *)
(* input of a task that will give it back.                                 *)
WayBack == \A b \in Raws : Secured(b) \/ b \in InHand \/ Claimed(b)

(* With HAL ZSL the frame looked at will be secured when it is popped.     *)
KeptWhenPopped ==
    pt.pc \in {"trim", "pop"} /\ scenario.zsl =>
        \/ pt.raw \in free \cup mRawBufferMap
        \/ \E k \in 2 .. Len(mInputQueue) : mInputQueue[k] = pt.raw

(* While its tasks are dispatched it is secured, or its own task will give *)
(* it back.  Only ZSL changes what that task writes.                       *)
GivenWhenRun ==
    pt.pc \in Runs =>
        \/ Secured(pt.raw)
        \/ ~scenario.zsl /\ ~Hold(pt.dst, seqOf[pt.raw])

MainWritesAll ==
    pt.pc \in Runs /\ ~scenario.zsl =>
        \A k \in 1 .. Len(pt.todo) : pt.todo[k].kind = "main" => pt.todo[k].dst = pt.dst

(* The source of a task is the frame looked at, or one that was kept.      *)
SourceOK ==
    IF pt.pc \in {"dispatch", "add"}
    THEN IF Head(pt.todo).kind = "main" THEN pt.src = pt.raw ELSE Secured(pt.src)
    ELSE pt.src = None

CoverInv == WayBack /\ KeptWhenPopped /\ GivenWhenRun /\ MainWritesAll /\ SourceOK

LEMMA CoverInit == Init => CoverInv
BY DEF Init, Idle, CoverInv, WayBack, Secured, KeptWhenPopped, GivenWhenRun, MainWritesAll,
       SourceOK, Runs

(* What stays secured when only places of buffers change.                  *)
LEMMA StillSecured ==
    ASSUME free \cup mRawBufferMap \subseteq free' \cup mRawBufferMap', UNCHANGED mInputQueue,
           NEW b, Secured(b)
    PROVE  Secured(b)'
BY DEF Secured, InQueue

LEMMA SameHold ==
    ASSUME UNCHANGED requests, NEW dst, NEW s
    PROVE  Hold(dst, s)' = Hold(dst, s)
BY DEF Hold, NeedHoldOnInputFrame, Setting

LEMMA ComingTasks ==
    ASSUME TaskTypeOK
    PROVE  Coming \subseteq Tasks
<1>1. ToSet(mOngoingTasks) \subseteq Tasks
  BY DEF ToSet, TaskTypeOK
<1>2. Done \subseteq Tasks
  BY DEF Done, TaskTypeOK
<1>3. QED
  BY <1>1, <1>2 DEF Coming

(* A claim lasts as long as there is a task like the one it is for.        *)
LEMMA StillClaimed ==
    ASSUME UNCHANGED requests,
           \A t \in Coming : \E u \in Coming' :
               u.raw = t.raw /\ u.dst = t.dst /\ u.seq = t.seq /\ u.fake = t.fake,
           NEW b, Claimed(b)
    PROVE  Claimed(b)'
<1>1. PICK t \in Coming : t.raw = b /\ ~t.fake /\ ~Hold(t.dst, t.seq)
  BY DEF Claimed, Gives
<1>2. PICK u \in Coming' : u.raw = t.raw /\ u.dst = t.dst /\ u.seq = t.seq /\ u.fake = t.fake
  BY <1>1
<1>3. Hold(u.dst, u.seq)' = Hold(u.dst, u.seq)
  BY SameHold
<1>4. Gives(u)'
  BY <1>1, <1>2, <1>3 DEF Gives
<1>5. QED
  BY <1>1, <1>2, <1>4 DEF Claimed

(* A request that comes later does not change whose buffers those are.     *)
LEMMA SettingKept ==
    ASSUME AskTypeOK, NEW dst \in Asked, NEW r, requests' = Append(requests, r)
    PROVE  Setting(dst)' = Setting(dst)
<1> DEFINE some == {p \in Ports : dst[p] # None}
           least == CHOOSE p \in some : \A q \in some : p <= q
<1>1. CASE some = {}
  BY <1>1 DEF Setting
<1>2. CASE some # {}
  <2>1. some \subseteq Nat
    BY PortsFinite
  <2>2. \E p \in some : \A q \in some : p <= q
    BY <1>2, <2>1, LeastOf
  <2>3. least \in some
    BY <2>2
  <2>4. PICK p \in Ports : p = least /\ dst[p] # None
    BY <2>3
  <2>5. dst[p] \in 1 .. Len(requests)
    BY <2>4, SettingTyped
  <2>6. requests'[dst[p]] = requests[dst[p]]
    <3> DEFINE R == [wants : SUBSET Ports, setting : Seqs, reprocess : BOOLEAN]
    <3>1. requests \in Seq(R)
      BY DEF AskTypeOK
    <3> HIDE DEF R
    <3>2. QED
      BY <2>5, <3>1
  <2>7. Setting(dst) = requests[dst[least]].setting
    BY <1>2 DEF Setting
  <2>8. Setting(dst)' = requests'[dst[least]].setting
    BY <1>2 DEF Setting
  <2>9. QED
    BY <2>4, <2>6, <2>7, <2>8
<1>3. QED
  BY <1>1, <1>2

LEMMA SameComing ==
    ASSUME UNCHANGED <<mOngoingTasks, poll>>
    PROVE  UNCHANGED Coming
BY DEF Coming, Done

(* Steps that leave the process thread where it is.                        *)
LEMMA CoverElsewhere ==
    ASSUME CoverInv, UNCHANGED <<scenario, pt, requests, seqOf>>,
           \A b \in Raws \cup {pt.raw, pt.src} : Secured(b) => Secured(b)',
           \A b \in Raws : Claimed(b) => Claimed(b)' \/ Secured(b)',
           KeptWhenPopped'
    PROVE  CoverInv'
<1>1. WayBack'
  BY DEF CoverInv, WayBack, InHand
<1>2. GivenWhenRun'
  <2>1. Hold(pt.dst, seqOf[pt.raw])' = Hold(pt.dst, seqOf[pt.raw])
    BY DEF Hold, NeedHoldOnInputFrame, Setting
  <2>2. Secured(pt.raw) => Secured(pt.raw)'
    <3>1. \A b : b = pt.raw /\ Secured(b) => Secured(b)'
      OBVIOUS
    <3>2. QED
      BY <3>1 DEF Secured, InQueue
  <2>3. QED
    BY <2>1, <2>2 DEF CoverInv, GivenWhenRun
<1>3. MainWritesAll' /\ SourceOK'
  <2>1. Secured(pt.src) => Secured(pt.src)'
    <3>1. \A b : b = pt.src /\ Secured(b) => Secured(b)'
      OBVIOUS
    <3>2. QED
      BY <3>1 DEF Secured, InQueue
  <2>2. QED
    BY <2>1 DEF CoverInv, MainWritesAll, SourceOK
<1>4. QED
  BY <1>1, <1>2, <1>3 DEF CoverInv

LEMMA EnvironmentCovers ==
    ASSUME UnitTypeOK, CoverInv, Capture \/ LoseFrame \/ NewRequest \/ HandleQueueBuffer
    PROVE  CoverInv'
<1>1. CASE LoseFrame \/ HandleQueueBuffer
  <2>1. UNCHANGED <<scenario, pt, requests, seqOf, free, mRawBufferMap, mInputQueue, mOngoingTasks,
                    poll>>
    BY <1>1 DEF LoseFrame, HandleQueueBuffer, producer, pipes, asked
  <2>2. \A b : Secured(b) => Secured(b)'
    BY <2>1, StillSecured
  <2>3. \A b : Claimed(b) => Claimed(b)'
    BY <2>1, SameComing, StillClaimed
  <2>4. KeptWhenPopped'
    BY <2>1 DEF CoverInv, KeptWhenPopped
  <2>5. QED
    BY <2>1, <2>2, <2>3, <2>4, CoverElsewhere
<1>2. CASE NewRequest
  <2>1. UNCHANGED <<scenario, pt, seqOf, free, mRawBufferMap, mInputQueue, mOngoingTasks, poll>>
    BY <1>2 DEF NewRequest, producer, pipes
  <2>2. PICK r : requests' = Append(requests, r)
    BY <1>2 DEF NewRequest
  <2>3. \A b : Secured(b) => Secured(b)'
    BY <2>1, StillSecured
  <2>4. ASSUME NEW dst \in Asked, NEW s PROVE Hold(dst, s)' = Hold(dst, s)
    <3>1. Setting(dst)' = Setting(dst)
      BY <2>2, SettingKept DEF UnitTypeOK
    <3>2. QED
      BY <3>1 DEF Hold, NeedHoldOnInputFrame
  <2>5. ASSUME NEW b, Claimed(b) PROVE Claimed(b)'
    <3>1. PICK t \in Coming : t.raw = b /\ ~t.fake /\ ~Hold(t.dst, t.seq)
      BY <2>5 DEF Claimed, Gives
    <3>2. t.dst \in Asked
      BY ComingTasks DEF UnitTypeOK, Tasks
    <3>3. Hold(t.dst, t.seq)' = Hold(t.dst, t.seq)
      BY <2>4, <3>2
    <3>4. Gives(t)'
      BY <3>1, <3>3 DEF Gives
    <3>5. QED
      BY <2>1, <3>1, <3>4, SameComing DEF Claimed
  <2>6. WayBack'
    BY <2>1, <2>3, <2>5 DEF CoverInv, WayBack, InHand
  <2>7. GivenWhenRun'
    <3>1. CASE pt.pc \in Runs
      <4>1. pt.dst \in Asked
        BY <3>1 DEF UnitTypeOK, PtTypeOK
      <4>2. Hold(pt.dst, seqOf[pt.raw])' = Hold(pt.dst, seqOf[pt.raw])
        <5>1. Setting(pt.dst)' = Setting(pt.dst)
          <6>1. PICK d \in Asked : d = pt.dst
            BY <4>1
          <6>2. Setting(d)' = Setting(d)
            BY <2>2, SettingKept DEF UnitTypeOK
          <6>3. Setting(d) = Setting(pt.dst)
            BY <6>1
          <6>4. Setting(d)' = Setting(pt.dst)'
            <7>1. d = pt'.dst
              BY <2>1, <6>1
            <7>2. QED
              BY <7>1
          <6>5. QED
            BY <6>2, <6>3, <6>4
        <5>2. QED
          BY <2>1, <5>1 DEF Hold, NeedHoldOnInputFrame
      <4>3. Secured(pt.raw) => Secured(pt.raw)'
        BY <2>1 DEF Secured, InQueue
      <4>4. QED
        BY <2>1, <4>2, <4>3 DEF CoverInv, GivenWhenRun
    <3>2. CASE pt.pc \notin Runs
      BY <2>1, <3>2 DEF GivenWhenRun
    <3>3. QED
      BY <3>1, <3>2
  <2>8. KeptWhenPopped' /\ MainWritesAll' /\ SourceOK'
    BY <2>1 DEF CoverInv, KeptWhenPopped, MainWritesAll, SourceOK, Secured, InQueue
  <2>9. QED
    BY <2>6, <2>7, <2>8 DEF CoverInv
<1>3. CASE Capture
  <2>1. UNCHANGED <<scenario, pt, requests, mRawBufferMap, mOngoingTasks, poll>>
    BY <1>3 DEF Capture, pipes, asked
  <2>2. PICK c \in free : /\ free' = free \ {c} /\ mInputQueue' = Append(mInputQueue, c)
                          /\ seqOf' = [seqOf EXCEPT ![c] = lastSeq + 1]
    BY <1>3, CaptureTakes DEF UnitTypeOK
  <2>3. mInputQueue \in Seq(Raws) /\ c \in Raws
    BY DEF UnitTypeOK, RawTypeOK
  <2>4. /\ Len(mInputQueue') = Len(mInputQueue) + 1 /\ mInputQueue'[Len(mInputQueue) + 1] = c
        /\ \A k \in 1 .. Len(mInputQueue) : mInputQueue'[k] = mInputQueue[k]
        /\ Len(mInputQueue) \in Nat
    BY <2>2, <2>3
  <2>5. InQueue(c)' /\ \A b : InQueue(b) => InQueue(b)'
    BY <2>4 DEF InQueue
  <2>6. \A b : Secured(b) => Secured(b)'
    BY <2>1, <2>2, <2>5 DEF Secured
  <2>7. \A b : Claimed(b) => Claimed(b)'
    BY <2>1, SameComing, StillClaimed
  <2>8. WayBack'
    BY <2>1, <2>6, <2>7 DEF CoverInv, WayBack, InHand
  <2>9. KeptWhenPopped'
    <3> SUFFICES ASSUME pt.pc \in {"trim", "pop"}, scenario.zsl
                 PROVE  \/ pt.raw \in free' \cup mRawBufferMap
                        \/ \E k \in 2 .. Len(mInputQueue') : mInputQueue'[k] = pt.raw
      BY <2>1 DEF KeptWhenPopped
    <3>1. Len(mInputQueue) >= 1
      BY <2>3 DEF UnitTypeOK, FrontOK, Chooses
    <3>2. \/ pt.raw \in free \cup mRawBufferMap
          \/ \E k \in 2 .. Len(mInputQueue) : mInputQueue[k] = pt.raw
      BY DEF CoverInv, KeptWhenPopped
    <3>3. CASE pt.raw = c
      <4>1. Len(mInputQueue) + 1 \in 2 .. Len(mInputQueue')
        BY <2>4, <3>1
      <4>2. QED
        BY <2>4, <3>3, <4>1
    <3>4. CASE pt.raw \in free \cup mRawBufferMap /\ pt.raw # c
      BY <2>2, <3>4
    <3>5. ASSUME NEW k \in 2 .. Len(mInputQueue), mInputQueue[k] = pt.raw
          PROVE  \E j \in 2 .. Len(mInputQueue') : mInputQueue'[j] = pt.raw
      <4>1. k \in 2 .. Len(mInputQueue') /\ k \in 1 .. Len(mInputQueue)
        BY <2>4
      <4>2. QED
        BY <2>4, <3>5, <4>1
    <3>6. QED
      BY <3>2, <3>3, <3>4, <3>5
  <2>10. GivenWhenRun'
    <3>1. PICK b : b = pt.raw
      OBVIOUS
    <3>2. CASE Secured(b)
      <4>1. Secured(b)'
        BY <2>6, <3>2
      <4>2. QED
        BY <2>1, <3>1, <4>1 DEF GivenWhenRun, Secured, InQueue
    <3>3. CASE ~Secured(b)
      <4>1. b # c /\ seqOf'[b] = seqOf[b]
        BY <2>2, <3>3 DEF Secured, UnitTypeOK, RawTypeOK
      <4>2. Hold(pt.dst, seqOf[pt.raw])' = Hold(pt.dst, seqOf[pt.raw])
        BY <2>1, <3>1, <4>1 DEF Hold, NeedHoldOnInputFrame, Setting
      <4>3. ~Secured(pt.raw)
        BY <3>1, <3>3 DEF Secured, InQueue
      <4>4. QED
        BY <2>1, <4>2, <4>3 DEF CoverInv, GivenWhenRun
    <3>4. QED
      BY <3>2, <3>3
  <2>11. SourceOK'
    <3>1. PICK b : b = pt.src
      OBVIOUS
    <3>2. Secured(b) => Secured(b)'
      BY <2>6
    <3>3. Secured(pt.src) => Secured(pt.src)'
      BY <2>1, <3>1, <3>2 DEF Secured, InQueue
    <3>4. QED
      BY <2>1, <3>3 DEF CoverInv, SourceOK
  <2>12. MainWritesAll'
    BY <2>1 DEF CoverInv, MainWritesAll
  <2>13. QED
    BY <2>8, <2>9, <2>10, <2>11, <2>12 DEF CoverInv
<1>4. QED
  BY <1>1, <1>2, <1>3

(* Steps of the process thread: nothing that was secured or claimed is     *)
(* given up.                                                               *)
LEMMA CoverInThread ==
    ASSUME UnitTypeOK, UnitTypeOK', CoverInv, UNCHANGED <<scenario, requests, seqOf>>,
           \A b \in Raws : Secured(b) => Secured(b)',
           \A b \in Raws : Claimed(b) => Claimed(b)',
           \A b \in InHand : b \in InHand' \/ Secured(b)' \/ Claimed(b)',
           KeptWhenPopped', GivenWhenRun', MainWritesAll', SourceOK'
    PROVE  CoverInv'
BY DEF CoverInv, WayBack

LEMMA ChooseCovers ==
    ASSUME UnitTypeOK, CoverInv,
           ProcessNewFrame \/ NothingToPrepare \/ SaveRawBuffer \/ TrimRawBuffers \/ ExecuteNode
    PROVE  CoverInv'
<1>1. UNCHANGED <<scenario, requests, seqOf, mInputQueue, mOngoingTasks, poll>>
  BY DEF ProcessNewFrame, NothingToPrepare, SaveRawBuffer, TrimRawBuffers, ExecuteNode,
         producer, pipes, asked
<1>2. free \cup mRawBufferMap \subseteq free' \cup mRawBufferMap'
  <2>1. CASE TrimRawBuffers
    BY <2>1, ReturnRawBufferKeeps DEF TrimRawBuffers, UnitTypeOK
  <2>2. CASE ~TrimRawBuffers
    BY <2>2 DEF ProcessNewFrame, NothingToPrepare, SaveRawBuffer, ExecuteNode, producer
  <2>3. QED
    BY <2>1, <2>2
<1>3. \A b : Secured(b) => Secured(b)'
  BY <1>1, <1>2, StillSecured
<1>4. \A b : Claimed(b) => Claimed(b)'
  BY <1>1, SameComing, StillClaimed
<1>5. UnitTypeOK'
  BY ChooseTypes
<1>6. pt'.pc \notin Runs /\ pt'.src = None
  <2>1. CASE ProcessNewFrame \/ ExecuteNode
    <3>1. pt'.pc \in {"save", "pop", "wait"} /\ pt'.src = None
      <4>1. CASE ProcessNewFrame
        <5> DEFINE pc == IF scenario.zsl THEN "save" ELSE "pop"
                   dst == [p \in Ports |-> Head(mOutputQueue[p])]
        <5>1. pt' = [pc |-> pc, raw |-> Head(mInputQueue), dst |-> dst, todo |-> <<>>, src |-> None]
          BY <4>1 DEF ProcessNewFrame, Idle
        <5>2. pc \in {"save", "pop"}
          OBVIOUS
        <5> HIDE DEF pc, dst
        <5>3. QED
          BY <5>1, <5>2
      <4>2. CASE ExecuteNode
        BY <4>2 DEF ExecuteNode, Idle
      <4>3. QED
        BY <2>1, <4>1, <4>2
    <3>2. QED
      BY <3>1 DEF Runs
  <2>2. CASE NothingToPrepare \/ SaveRawBuffer \/ TrimRawBuffers
    <3>1. /\ pt.pc \in {"wait", "save", "trim"} /\ pt'.pc \in {"execute", "trim", "pop"}
          /\ pt'.src = pt.src
      BY <2>2 DEF NothingToPrepare, SaveRawBuffer, TrimRawBuffers, UnitTypeOK, PtTypeOK
    <3>2. QED
      BY <3>1 DEF CoverInv, SourceOK, Runs
  <2>3. QED
    BY <2>1, <2>2
<1>7. GivenWhenRun' /\ MainWritesAll' /\ SourceOK'
  BY <1>6 DEF GivenWhenRun, MainWritesAll, SourceOK, Runs
<1>8. InHand \subseteq InHand'
  <2>1. CASE ProcessNewFrame \/ NothingToPrepare \/ ExecuteNode
    BY <2>1 DEF ProcessNewFrame, NothingToPrepare, ExecuteNode, InHand
  <2>2. CASE SaveRawBuffer \/ TrimRawBuffers
    <3>1. /\ pt'.raw = pt.raw /\ pt'.src = pt.src
          /\ pt.pc \in {"save", "trim"} /\ pt'.pc \in {"trim", "pop"}
      BY <2>2 DEF SaveRawBuffer, TrimRawBuffers, UnitTypeOK, PtTypeOK
    <3>2. QED
      BY <3>1 DEF InHand
  <2>3. QED
    BY <2>1, <2>2
<1>9. KeptWhenPopped'
  <2>1. CASE SaveRawBuffer
    BY <2>1 DEF SaveRawBuffer, KeptWhenPopped, UnitTypeOK, PtTypeOK
  <2>2. CASE TrimRawBuffers
    <3>1. pt.pc = "trim" /\ pt'.raw = pt.raw
      BY <2>2 DEF TrimRawBuffers, UnitTypeOK, PtTypeOK
    <3>2. QED
      BY <1>1, <1>2, <3>1 DEF KeptWhenPopped, CoverInv
  <2>3. CASE ProcessNewFrame
    BY <1>1, <2>3 DEF ProcessNewFrame, Idle, KeptWhenPopped
  <2>4. CASE NothingToPrepare \/ ExecuteNode
    BY <2>4 DEF NothingToPrepare, ExecuteNode, Idle, KeptWhenPopped, UnitTypeOK, PtTypeOK
  <2>5. QED
    BY <2>1, <2>2, <2>3, <2>4
<1>10. QED
  BY <1>1, <1>3, <1>4, <1>5, <1>7, <1>8, <1>9, CoverInThread

LEMMA PrepareCovers ==
    ASSUME UnitTypeOK, CoverInv, PrepareTask
    PROVE  CoverInv'
<1> DEFINE s    == seqOf[pt.raw]
           set  == Setting(pt.dst)
           hold == NeedHoldOnInputFrame(set, s)
           run  == NeedExecutePipe(set, s)
           z    == Reprocessed(pt.dst)
<1>1. /\ UNCHANGED <<scenario, requests, seqOf, mRawBufferMap, mOngoingTasks, poll>>
      /\ pt.pc = "pop" /\ pt.raw \in Raws /\ pt.dst \in Asked
      /\ mInputQueue' = IF ~hold /\ z = -1 THEN Tail(mInputQueue) ELSE mInputQueue
      /\ free' = IF ~run /\ ~hold /\ pt.raw \notin mRawBufferMap
                 THEN free \cup {pt.raw} ELSE free
  BY DEF PrepareTask, asked, pipes, UnitTypeOK, PtTypeOK, Chooses
<1>2. /\ UnitTypeOK'
      /\ pt'.raw = pt.raw /\ pt'.dst = pt.dst /\ pt'.src = pt.src
      /\ pt'.pc = (IF run THEN "fetch" ELSE "execute")
      /\ \A k \in 1 .. Len(pt'.todo) : pt'.todo[k].kind = "main" => pt'.todo[k].dst = pt.dst
  BY PrepareTypes
<1>3. /\ mInputQueue \in Seq(Raws) /\ mInputQueue # <<>> /\ mInputQueue[1] = pt.raw
      /\ Len(mInputQueue) \in Nat /\ Len(mInputQueue) >= 1
  BY <1>1 DEF UnitTypeOK, RawTypeOK, FrontOK, Chooses
<1>4. z # -1 => scenario.zsl
  BY <1>1, ReprocessedTyped DEF UnitTypeOK
<1>5. ASSUME ~hold, z = -1, NEW b, NEW k \in 2 .. Len(mInputQueue), mInputQueue[k] = b
      PROVE  InQueue(b)'
  <2>1. k - 1 \in 1 .. Len(Tail(mInputQueue)) /\ Tail(mInputQueue)[k - 1] = b
    BY <1>3, <1>5
  <2>2. QED
    BY <1>1, <1>5, <2>1 DEF InQueue
<1>6. \A b : Secured(b) => Secured(b)' \/ b = pt.raw
  <2> SUFFICES ASSUME NEW b, Secured(b), b # pt.raw PROVE Secured(b)'
    OBVIOUS
  <2>1. CASE b \in free \/ b \in mRawBufferMap
    BY <1>1, <2>1 DEF Secured
  <2>2. ASSUME NEW k \in 1 .. Len(mInputQueue), mInputQueue[k] = b PROVE Secured(b)'
    <3>1. CASE ~hold /\ z = -1
      <4>1. k \in 2 .. Len(mInputQueue)
        BY <1>3, <2>2
      <4>2. QED
        BY <1>5, <2>2, <3>1, <4>1 DEF Secured
    <3>2. CASE ~(~hold /\ z = -1)
      BY <1>1, <2>2, <3>2 DEF Secured, InQueue
    <3>3. QED
      BY <3>1, <3>2
  <2>3. QED
    BY <2>1, <2>2 DEF Secured, InQueue
<1>7. \A b : Claimed(b) => Claimed(b)'
  BY <1>1, SameComing, StillClaimed
<1>8. PICK c : c = pt.raw
  OBVIOUS
<1>9. \/ Secured(c)'
      \/ run /\ ~scenario.zsl /\ ~hold
  <2>1. CASE ~(~hold /\ z = -1)
    <3>1. mInputQueue' = mInputQueue
      BY <1>1, <2>1
    <3>2. 1 \in 1 .. Len(mInputQueue)
      BY <1>3
    <3>3. InQueue(c)'
      BY <1>3, <1>8, <3>1, <3>2 DEF InQueue
    <3>4. QED
      BY <3>3 DEF Secured
  <2>2. CASE ~hold /\ z = -1 /\ ~run
    BY <1>1, <1>8, <2>2 DEF Secured
  <2>3. CASE ~hold /\ z = -1 /\ run /\ scenario.zsl
    <3>1. \/ c \in free \cup mRawBufferMap
          \/ \E k \in 2 .. Len(mInputQueue) : mInputQueue[k] = c
      BY <1>1, <1>8, <2>3 DEF CoverInv, KeptWhenPopped
    <3>2. CASE c \in free \cup mRawBufferMap
      BY <1>1, <3>2 DEF Secured
    <3>3. CASE \E k \in 2 .. Len(mInputQueue) : mInputQueue[k] = c
      BY <1>5, <2>3, <3>3 DEF Secured
    <3>4. QED
      BY <3>1, <3>2, <3>3
  <2>4. QED
    BY <2>1, <2>2, <2>3
<1>10. pt.src = None /\ InHand \subseteq {c}
  BY <1>1, <1>8 DEF CoverInv, SourceOK, InHand
<1>11. run => c \in InHand'
  <2>1. c # None
    BY <1>1, <1>8 DEF Raws, None
  <2>2. QED
    BY <1>2, <1>8, <2>1 DEF InHand
<1>12. WayBack'
  <2> SUFFICES ASSUME NEW b \in Raws PROVE Secured(b)' \/ b \in InHand' \/ Claimed(b)'
    BY DEF WayBack
  <2>1. CASE b = c
    BY <1>9, <1>11, <2>1
  <2>2. CASE b # c
    BY <1>6, <1>7, <1>8, <1>10, <2>2 DEF CoverInv, WayBack
  <2>3. QED
    BY <2>1, <2>2
<1>13. GivenWhenRun'
  <2>1. Secured(c)' => Secured(pt.raw)'
    BY <1>2, <1>8 DEF Secured, InQueue
  <2>2. Hold(pt.dst, seqOf[pt.raw])' = hold
    BY <1>1, <1>2 DEF Hold, NeedHoldOnInputFrame, Setting
  <2>3. QED
    BY <1>1, <1>9, <2>1, <2>2 DEF GivenWhenRun
<1>14. KeptWhenPopped' /\ MainWritesAll' /\ SourceOK'
  BY <1>2, <1>10 DEF KeptWhenPopped, MainWritesAll, SourceOK, Runs
<1>15. QED
  BY <1>12, <1>13, <1>14 DEF CoverInv

LEMMA FetchCovers ==
    ASSUME UnitTypeOK, CoverInv, FetchSource
    PROVE  CoverInv'
<1>1. /\ UNCHANGED <<scenario, requests, seqOf, free, mRawBufferMap, mInputQueue, mOngoingTasks,
                     poll>>
      /\ pt.pc = "fetch"
  BY DEF FetchSource, producer, pipes, asked
<1>2. /\ UnitTypeOK'
      /\ pt'.raw = pt.raw /\ pt'.dst = pt.dst
      /\ \/ /\ pt'.pc = "fetch" /\ pt'.todo = Tail(pt.todo) /\ Len(pt.todo) > 1
            /\ pt'.src = pt.src
         \/ /\ pt'.pc = "add" /\ pt'.src \in mRawBufferMap /\ Head(pt'.todo).kind = "zsl"
            /\ scenario.zsl
         \/ /\ pt'.pc = "dispatch" /\ pt'.todo = pt.todo
            /\ IF Head(pt.todo).kind = "main" THEN pt'.src = pt.raw
               ELSE pt'.src \in mRawBufferMap
  BY FetchTypes
<1>3. pt.src = None
  BY <1>1 DEF CoverInv, SourceOK
<1>4. \A b : Secured(b) => Secured(b)'
  BY <1>1, StillSecured
<1>5. \A b : Claimed(b) => Claimed(b)'
  BY <1>1, SameComing, StillClaimed
<1>6. InHand \subseteq InHand'
  BY <1>1, <1>2, <1>3 DEF InHand
<1>7. KeptWhenPopped'
  BY <1>2 DEF KeptWhenPopped
<1>8. GivenWhenRun'
  <2>1. Secured(pt.raw)' = Secured(pt.raw)
    BY <1>1, <1>2 DEF Secured, InQueue
  <2>2. Hold(pt.dst, seqOf[pt.raw])' = Hold(pt.dst, seqOf[pt.raw])
    BY <1>1, <1>2 DEF Hold, NeedHoldOnInputFrame, Setting
  <2>3. QED
    BY <1>1, <2>1, <2>2 DEF CoverInv, GivenWhenRun, Runs
<1>9. MainWritesAll'
  <2> SUFFICES ASSUME ~scenario.zsl, NEW k \in 1 .. Len(pt'.todo), pt'.todo[k].kind = "main"
               PROVE  pt'.todo[k].dst = pt.dst
    BY <1>1, <1>2 DEF MainWritesAll
  <2>1. \A j \in 1 .. Len(pt.todo) : pt.todo[j].kind = "main" => pt.todo[j].dst = pt.dst
    BY <1>1 DEF CoverInv, MainWritesAll, Runs
  <2>2. CASE pt'.todo = pt.todo
    BY <2>1, <2>2
  <2>3. CASE pt'.todo = Tail(pt.todo)
    <3>1. /\ Len(Tail(pt.todo)) = Len(pt.todo) - 1
          /\ \A j \in 1 .. Len(pt.todo) - 1 : Tail(pt.todo)[j] = pt.todo[j + 1]
          /\ pt.todo \in Seq(Jobs)
      BY <1>1, TodoTail DEF Runs
    <3>2. k \in 1 .. Len(pt.todo) - 1 /\ k + 1 \in 1 .. Len(pt.todo)
      BY <2>3, <3>1
    <3>3. QED
      BY <2>1, <2>3, <3>1, <3>2
  <2>4. QED
    BY <1>2, <2>2, <2>3
<1>10. SourceOK'
  <2>1. pt'.src \in mRawBufferMap => Secured(pt.src)'
    BY <1>1 DEF Secured
  <2>2. QED
    BY <1>2, <1>3, <2>1 DEF SourceOK
<1>11. QED
  BY <1>1, <1>2, <1>4, <1>5, <1>6, <1>7, <1>8, <1>9, <1>10, CoverInThread

LEMMA DispatchCovers ==
    ASSUME UnitTypeOK, CoverInv, DispatchTask
    PROVE  CoverInv'
<1>1. UNCHANGED <<scenario, requests, seqOf, free, mRawBufferMap, mInputQueue, mOngoingTasks, poll>>
  BY DEF DispatchTask, producer, pipes, asked
<1>2. UnitTypeOK' /\ pt' = [pt EXCEPT !.pc = "add"] /\ pt.pc = "dispatch"
  BY DispatchTypes
<1>3. /\ pt'.pc = "add" /\ pt'.raw = pt.raw /\ pt'.src = pt.src /\ pt'.dst = pt.dst
      /\ pt'.todo = pt.todo
  BY <1>2 DEF UnitTypeOK, PtTypeOK
<1>4. \A b : Secured(b) => Secured(b)'
  BY <1>1, StillSecured
<1>5. \A b : Claimed(b) => Claimed(b)'
  BY <1>1, SameComing, StillClaimed
<1>6. Secured(pt.raw)' = Secured(pt.raw) /\ Secured(pt.src)' = Secured(pt.src)
  BY <1>1, <1>3 DEF Secured, InQueue
<1>7. Hold(pt.dst, seqOf[pt.raw])' = Hold(pt.dst, seqOf[pt.raw])
  BY <1>1, <1>3 DEF Hold, NeedHoldOnInputFrame, Setting
<1>8. InHand \subseteq InHand'
  BY <1>2, <1>3 DEF InHand
<1>9. KeptWhenPopped' /\ GivenWhenRun' /\ MainWritesAll' /\ SourceOK'
  BY <1>1, <1>2, <1>3, <1>6, <1>7
     DEF CoverInv, KeptWhenPopped, GivenWhenRun, MainWritesAll, SourceOK, Runs
<1>10. QED
  BY <1>1, <1>2, <1>4, <1>5, <1>8, <1>9, CoverInThread

LEMMA AddCovers ==
    ASSUME UnitTypeOK, CoverInv, AddTask
    PROVE  CoverInv'
<1>1. /\ UNCHANGED <<scenario, requests, seqOf, free, mRawBufferMap, mInputQueue, poll>>
      /\ pt.pc = "add"
  BY DEF AddTask, producer, pipes, asked
<1>2. /\ UnitTypeOK'
      /\ \E k \in DOMAIN mOngoingTasks' : mOngoingTasks'[k] = NewTask
      /\ \A j \in DOMAIN mOngoingTasks :
           \E k \in DOMAIN mOngoingTasks' : mOngoingTasks'[k] = mOngoingTasks[j]
      /\ pt'.raw = pt.raw /\ pt'.dst = pt.dst /\ pt'.todo = Tail(pt.todo) /\ pt'.src = None
      /\ pt'.pc = IF Len(pt.todo) = 1 THEN "execute" ELSE "fetch"
  BY AddTypes
<1>3. /\ pt.todo \in Seq(Jobs) /\ Len(pt.todo) >= 1
      /\ Head(pt.todo) = pt.todo[1] /\ Head(pt.todo) \in Jobs
      /\ Len(Tail(pt.todo)) = Len(pt.todo) - 1
      /\ \A k \in 1 .. Len(pt.todo) - 1 : Tail(pt.todo)[k] = pt.todo[k + 1]
  BY <1>1, TodoTail DEF Runs
<1>4. \A b : Secured(b) => Secured(b)'
  BY <1>1, StillSecured
<1>5. NewTask \in Coming' /\ Coming \subseteq Coming'
  BY <1>1, <1>2 DEF Coming, Done, ToSet
<1>6. \A b : Claimed(b) => Claimed(b)'
  BY <1>1, <1>5, StillClaimed
<1>7. PICK c : c = pt.raw
  OBVIOUS
<1>8. PICK d : d = pt.src
  OBVIOUS
<1>9. CASE Head(pt.todo).kind = "main"
  <2>1. Len(pt.todo) = 1 /\ d = c
    <3>1. 1 \in 1 .. Len(pt.todo)
      BY <1>3
    <3>2. Len(pt.todo) = 1
      BY <1>1, <1>3, <1>9, <3>1 DEF UnitTypeOK, TodoOK, Runs
    <3>3. QED
      BY <1>1, <1>7, <1>8, <1>9, <3>2 DEF CoverInv, SourceOK
  <2>2. Secured(c) \/ (~scenario.zsl /\ ~Hold(pt.dst, seqOf[c]))
    <3>1. Secured(pt.raw) => Secured(c)
      BY <1>7 DEF Secured, InQueue
    <3>2. QED
      BY <1>1, <1>7, <3>1 DEF CoverInv, GivenWhenRun, Runs
  <2>3. Secured(c)' \/ Claimed(c)'
    <3>1. CASE Secured(c)
      BY <1>4, <3>1
    <3>2. CASE ~scenario.zsl /\ ~Hold(pt.dst, seqOf[c])
      <4>1. Head(pt.todo).dst = pt.dst
        <5>1. 1 \in 1 .. Len(pt.todo)
          BY <1>3
        <5>2. QED
          BY <1>1, <1>3, <1>9, <3>2, <5>1 DEF CoverInv, MainWritesAll, Runs
      <4>2. PICK t : t = NewTask
        OBVIOUS
      <4>3. /\ t.raw = c /\ ~t.fake
            /\ t.dst = pt.dst /\ t.seq = seqOf[c]
        BY <1>8, <1>9, <2>1, <4>1, <4>2 DEF NewTask
      <4>4. ~Hold(t.dst, t.seq)
        BY <3>2, <4>3
      <4>5. ~Hold(t.dst, t.seq)'
        BY <1>1, <4>4, SameHold
      <4>6. QED
        BY <1>5, <4>2, <4>3, <4>5 DEF Claimed, Gives
    <3>3. QED
      BY <2>2, <3>1, <3>2
  <2>4. InHand \subseteq {c}
    BY <1>7, <1>8, <2>1 DEF InHand
  <2>5. pt'.pc = "execute"
    BY <1>2, <2>1
  <2>6. KeptWhenPopped' /\ GivenWhenRun' /\ MainWritesAll' /\ SourceOK'
    BY <1>2, <2>5 DEF KeptWhenPopped, GivenWhenRun, MainWritesAll, SourceOK, Runs
  <2>7. \A b \in InHand : b \in InHand' \/ Secured(b)' \/ Claimed(b)'
    BY <2>3, <2>4
  <2>8. QED
    BY <1>1, <1>2, <1>4, <1>6, <2>6, <2>7, CoverInThread
<1>10. CASE Head(pt.todo).kind # "main"
  <2>1. Secured(d)'
    <3>1. Secured(pt.src)
      BY <1>1, <1>10 DEF CoverInv, SourceOK
    <3>2. Secured(d)
      BY <1>8, <3>1 DEF Secured, InQueue
    <3>3. QED
      BY <1>4, <3>2
  <2>2. Secured(pt.raw) = Secured(c) /\ Secured(pt.raw)' = Secured(c)'
    BY <1>2, <1>7 DEF Secured, InQueue
  <2>3. GivenWhenRun'
    <3>1. Hold(pt.dst, seqOf[pt.raw])' = Hold(pt.dst, seqOf[pt.raw])
      BY <1>1, <1>2 DEF Hold, NeedHoldOnInputFrame, Setting
    <3>2. Secured(c) => Secured(c)'
      BY <1>4
    <3>3. QED
      BY <1>1, <2>2, <3>1, <3>2 DEF CoverInv, GivenWhenRun, Runs
  <2>4. MainWritesAll'
    <3> SUFFICES ASSUME ~scenario.zsl, NEW k \in 1 .. Len(pt'.todo), pt'.todo[k].kind = "main"
                 PROVE  pt'.todo[k].dst = pt.dst
      BY <1>1, <1>2 DEF MainWritesAll
    <3>1. k \in 1 .. Len(pt.todo) - 1 /\ k + 1 \in 1 .. Len(pt.todo)
      BY <1>2, <1>3
    <3>2. pt'.todo[k] = pt.todo[k + 1]
      BY <1>2, <1>3, <3>1
    <3>3. QED
      BY <1>1, <3>1, <3>2 DEF CoverInv, MainWritesAll, Runs
  <2>5. KeptWhenPopped' /\ SourceOK'
    BY <1>2 DEF KeptWhenPopped, SourceOK
  <2>6. c \in InHand' \/ Secured(c)'
    <3>1. CASE Len(pt.todo) = 1
      <4>1. scenario.zsl
        <5>1. 1 \in 1 .. Len(pt.todo) /\ ~(1 < Len(pt.todo))
          BY <3>1
        <5>2. Head(pt.todo).kind = "zsl"
          BY <1>1, <1>3, <1>10, <5>1 DEF UnitTypeOK, TodoOK, Runs, Jobs
        <5>3. QED
          BY <1>1, <1>3, <5>1, <5>2 DEF UnitTypeOK, TodoOK, Runs
      <4>2. Secured(pt.raw)
        BY <1>1, <4>1 DEF CoverInv, GivenWhenRun, Runs
      <4>3. QED
        BY <1>4, <2>2, <4>2
    <3>2. CASE Len(pt.todo) # 1
      <4>1. c # None
        BY <1>1, <1>7 DEF UnitTypeOK, PtTypeOK, Runs, Raws, None
      <4>2. QED
        BY <1>2, <1>7, <3>2, <4>1 DEF InHand
    <3>3. QED
      BY <3>1, <3>2
  <2>7. InHand \subseteq {c, d}
    BY <1>7, <1>8 DEF InHand
  <2>8. \A b \in InHand : b \in InHand' \/ Secured(b)' \/ Claimed(b)'
    BY <2>1, <2>6, <2>7
  <2>9. QED
    BY <1>1, <1>2, <1>4, <1>6, <2>3, <2>4, <2>5, <2>8, CoverInThread
<1>11. QED
  BY <1>9, <1>10

LEMMA PipeCovers ==
    ASSUME UnitTypeOK, CoverInv, NEW i \in Pipes, Executor(i) \/ PollThread(i)
    PROVE  CoverInv'
<1>1. UNCHANGED <<scenario, seqOf, requests, mInputQueue, pt>>
  BY PipesLeave DEF asked
<1>2. free \cup mRawBufferMap \subseteq free' \cup mRawBufferMap'
  <2>1. CASE TrimAfterTask(i)
    BY <2>1, ReturnRawBufferKeeps DEF TrimAfterTask, UnitTypeOK
  <2>2. CASE ~TrimAfterTask(i)
    BY <2>2 DEF Executor, PollThread, WaitTimeout, Process, HandleEvent, OnBufferDone, OnTaskDone,
                EraseSequence, PopTask, producer
  <2>3. QED
    BY <2>1, <2>2
<1>3. \A b : Secured(b) => Secured(b)'
  BY <1>1, <1>2, StillSecured
<1>4. KeptWhenPopped'
  BY <1>1, <1>2 DEF CoverInv, KeptWhenPopped
<1>5. TaskTypeOK
  BY DEF UnitTypeOK
<1>6. ASSUME NEW b \in Raws, Claimed(b) PROVE Claimed(b)' \/ Secured(b)'
  <2>1. CASE Executor(i) \/ HandleEvent(i) \/ EraseSequence(i) \/ TrimAfterTask(i) \/ PopTask(i)
    <3>1. mOngoingTasks' = mOngoingTasks
      BY <2>1 DEF Executor, WaitTimeout, Process, HandleEvent, EraseSequence, TrimAfterTask,
                  PopTask
    <3>2. \A j \in Pipes : poll[j].pc = "done" => j # i \/ poll' = poll
      BY <2>1 DEF Executor, WaitTimeout, Process, HandleEvent, EraseSequence, TrimAfterTask,
                  PopTask
    <3>3. poll' = poll \/ \E x : poll' = [poll EXCEPT ![i] = x]
      BY <2>1 DEF Executor, WaitTimeout, Process, HandleEvent, EraseSequence, TrimAfterTask,
                  PopTask
    <3>4. \A j \in Pipes : poll[j].pc = "done" => poll'[j] = poll[j]
      BY <1>5, <3>2, <3>3 DEF TaskTypeOK
    <3>5. Coming \subseteq Coming'
      BY <3>1, <3>4 DEF Coming, Done
    <3>6. QED
      BY <1>1, <1>6, <3>5, StillClaimed
  <2>2. CASE OnBufferDone(i)
    <3>1. PICK k \in 1 .. Len(mOngoingTasks) :
            LET task == mOngoingTasks[k] IN
            \/ /\ mOngoingTasks' = RemoveAt(mOngoingTasks, k)
               /\ poll' = [poll EXCEPT ![i] =
                    [pc |-> "done", ports |-> poll[i].ports \ {NextPort(i)}, task |-> <<task>>]]
            \/ /\ mOngoingTasks' = [mOngoingTasks EXCEPT ![k].left = @ - 1]
               /\ poll' = [poll EXCEPT ![i].ports = @ \ {NextPort(i)}]
      BY <1>5, <2>2, TaskDone
    <3>2. poll[i].pc = "buffers"
      BY <2>2 DEF OnBufferDone
    <3>3. \A j \in Pipes : poll[j].pc = "done" => poll'[j] = poll[j]
      BY <1>5, <3>1, <3>2 DEF TaskTypeOK
    <3>4. Done \subseteq Done'
      BY <3>3 DEF Done
    <3>5. mOngoingTasks \in Seq(Tasks) /\ DOMAIN mOngoingTasks = 1 .. Len(mOngoingTasks)
      BY <1>5 DEF TaskTypeOK
    <3>6. ASSUME NEW j \in DOMAIN mOngoingTasks
          PROVE  \E u \in Coming' : /\ u.raw = mOngoingTasks[j].raw /\ u.dst = mOngoingTasks[j].dst
                                    /\ u.seq = mOngoingTasks[j].seq /\ u.fake = mOngoingTasks[j].fake
      <4>1. CASE /\ mOngoingTasks' = RemoveAt(mOngoingTasks, k)
                 /\ poll' = [poll EXCEPT ![i] =
                      [pc |-> "done", ports |-> poll[i].ports \ {NextPort(i)}, task |-> <<mOngoingTasks[k]>>]]
        <5>1. CASE j = k
          <6>1. poll'[i].pc = "done" /\ poll'[i].task[1] = mOngoingTasks[k]
            BY <1>5, <4>1 DEF TaskTypeOK
          <6>2. mOngoingTasks[k] \in Coming'
            BY <6>1 DEF Coming, Done
          <6>3. QED
            BY <5>1, <6>2
        <5>2. CASE j # k
          <6> DEFINE t == RemoveAt(mOngoingTasks, k)
          <6>1. \E n \in DOMAIN t : t[n] = mOngoingTasks[j]
            BY <3>5, <5>2, RemoveAtKeeps
          <6>2. mOngoingTasks' = t
            BY <4>1
          <6> HIDE DEF t
          <6>3. mOngoingTasks[j] \in Coming'
            BY <6>1, <6>2 DEF Coming, ToSet
          <6>4. QED
            BY <6>3
        <5>3. QED
          BY <5>1, <5>2
      <4>2. CASE mOngoingTasks' = [mOngoingTasks EXCEPT ![k].left = @ - 1]
        <5>1. mOngoingTasks[j] \in Tasks
          BY <3>5
        <5>2. /\ mOngoingTasks'[j].raw = mOngoingTasks[j].raw
              /\ mOngoingTasks'[j].dst = mOngoingTasks[j].dst
              /\ mOngoingTasks'[j].seq = mOngoingTasks[j].seq
              /\ mOngoingTasks'[j].fake = mOngoingTasks[j].fake
              /\ j \in DOMAIN mOngoingTasks'
          BY <4>2, <5>1 DEF Tasks
        <5>3. mOngoingTasks'[j] \in Coming'
          BY <5>2 DEF Coming, ToSet
        <5>4. QED
          BY <5>2, <5>3
      <4>3. QED
        BY <3>1, <4>1, <4>2
    <3>7. \A t \in Coming : \E u \in Coming' :
            u.raw = t.raw /\ u.dst = t.dst /\ u.seq = t.seq /\ u.fake = t.fake
      <4>1. ASSUME NEW t \in ToSet(mOngoingTasks)
            PROVE  \E u \in Coming' :
                     u.raw = t.raw /\ u.dst = t.dst /\ u.seq = t.seq /\ u.fake = t.fake
        BY <3>6 DEF ToSet
      <4>2. Done \subseteq Coming'
        BY <3>4 DEF Coming
      <4>3. QED
        BY <4>1, <4>2 DEF Coming
    <3>8. QED
      BY <1>1, <1>6, <3>7, StillClaimed
  <2>3. CASE OnTaskDone(i)
    <3>1. /\ poll[i].pc = "done" /\ UNCHANGED <<mOngoingTasks, mRawBufferMap>>
          /\ poll' = [poll EXCEPT ![i].pc = "erase"]
          /\ free' = IF GivesBack(poll[i].task[1]) THEN free \cup {poll[i].task[1].raw} ELSE free
      BY <2>3 DEF OnTaskDone
    <3>2. PICK t \in Coming : t.raw = b /\ Gives(t)
      BY <1>6 DEF Claimed
    <3>3. CASE t \in Coming'
      <4>1. Hold(t.dst, t.seq)' = Hold(t.dst, t.seq)
        BY <1>1, SameHold
      <4>2. QED
        BY <3>2, <3>3, <4>1 DEF Claimed, Gives
    <3>4. CASE t \notin Coming'
      <4>1. \A j \in Pipes \ {i} : poll'[j] = poll[j]
        BY <1>5, <3>1 DEF TaskTypeOK
      <4>2. t = poll[i].task[1]
        BY <3>1, <3>2, <3>4, <4>1 DEF Coming, Done
      <4>3. GivesBack(t) \/ b \in mRawBufferMap
        BY <3>2 DEF GivesBack, Gives, Hold
      <4>4. GivesBack(t) = GivesBack(poll[i].task[1])
        BY <4>2
      <4>5. QED
        BY <3>1, <3>2, <4>2, <4>3, <4>4 DEF Secured
    <3>5. QED
      BY <3>3, <3>4
  <2>4. QED
    BY <2>1, <2>2, <2>3 DEF PollThread
<1>7. QED
  BY <1>1, <1>3, <1>4, <1>6, CoverElsewhere

LEMMA CoverStep == UnitTypeOK /\ CoverInv /\ [Next]_vars => CoverInv'
<1> SUFFICES ASSUME UnitTypeOK, CoverInv, [Next]_vars PROVE CoverInv'
  OBVIOUS
<1>1. CASE Capture \/ LoseFrame \/ NewRequest \/ HandleQueueBuffer
  BY <1>1, EnvironmentCovers
<1>2. CASE ProcessThread
  BY <1>2, ChooseCovers, PrepareCovers, FetchCovers, DispatchCovers, AddCovers DEF ProcessThread
<1>3. ASSUME NEW i \in Pipes, Executor(i) \/ PollThread(i) PROVE CoverInv'
  BY <1>3, PipeCovers
<1>4. CASE UNCHANGED vars
  <2>1. UNCHANGED <<scenario, pt, requests, seqOf, free, mRawBufferMap, mInputQueue,
                    mOngoingTasks, poll>>
    BY <1>4 DEF vars, producer, asked, pipes
  <2>2. \A b : Secured(b) => Secured(b)'
    BY <2>1, StillSecured
  <2>3. \A b : Claimed(b) => Claimed(b)'
    BY <2>1, SameComing, StillClaimed
  <2>4. KeptWhenPopped'
    BY <2>1 DEF CoverInv, KeptWhenPopped
  <2>5. QED
    BY <2>1, <2>2, <2>3, <2>4, CoverElsewhere
<1>5. QED
  BY <1>1, <1>2, <1>3, <1>4 DEF Next

(* A raw buffer the producer does not have is always on a way back to it:  *)
(* waiting in the input queue, in the hands of the process thread, kept,   *)
(* or the input of a task that is not over.  So neither onTaskDone nor     *)
(* prepareTask drops one, whatever requests share, hold or skip frames.    *)
THEOREM EveryRawOnItsWayBack == Spec => []RawNotLost
<1>1. Init => UnitTypeOK /\ CoverInv
  BY UnitTypeInit, CoverInit
<1>2. UnitTypeOK /\ CoverInv /\ [Next]_vars => (UnitTypeOK /\ CoverInv)'
  BY UnitTypeStep, CoverStep
<1>3. UnitTypeOK /\ CoverInv => RawNotLost
  <2> SUFFICES ASSUME UnitTypeOK, CoverInv PROVE RawNotLost
    OBVIOUS
  <2>1. Coming \subseteq Tasks
    BY ComingTasks DEF UnitTypeOK
  <2> DEFINE all == free \cup InHand \cup ToSet(mInputQueue) \cup mRawBufferMap
                      \cup {t.raw : t \in Coming}
  <2>2. Raws \subseteq all
    <3>1. mInputQueue \in Seq(Raws)
      BY DEF UnitTypeOK, RawTypeOK
    <3>2. \A b : InQueue(b) => b \in ToSet(mInputQueue)
      BY <3>1 DEF InQueue, ToSet
    <3>3. QED
      BY <3>2 DEF CoverInv, WayBack, Secured, Claimed
  <2>3. all \subseteq Raws
    <3>1. ToSet(mInputQueue) \subseteq Raws
      BY DEF UnitTypeOK, RawTypeOK, ToSet
    <3>2. InHand \subseteq Raws
      BY DEF UnitTypeOK, PtTypeOK, InHand, Chooses, Runs
    <3>3. {t.raw : t \in Coming} \subseteq Raws
      BY <2>1 DEF Tasks
    <3>4. QED
      BY <3>1, <3>2, <3>3 DEF UnitTypeOK, RawTypeOK
  <2>4. {t.raw : t \in Coming} = {t.raw : t \in ToSet(mOngoingTasks)}
          \cup {poll[i].task[1].raw : i \in {j \in Pipes : poll[j].pc = "done"}}
    BY DEF Coming, Done
  <2>5. QED
    BY <2>2, <2>3, <2>4 DEF RawNotLost
<1>4. QED
  BY <1>1, <1>2, <1>3, PTL DEF Spec

-----------------------------------------------------------------------------
(* How many elements of a list are in a set.                               *)
Count(s, S) == Cardinality({k \in DOMAIN s : s[k] \in S})

LEMMA CountTyped ==
    ASSUME NEW T, NEW s \in Seq(T), NEW S
    PROVE  IsFiniteSet({k \in DOMAIN s : s[k] \in S}) /\ Count(s, S) \in Nat
<1>1. IsFiniteSet(1 .. Len(s)) /\ DOMAIN s = 1 .. Len(s)
  BY FS_Interval
<1>2. IsFiniteSet({k \in DOMAIN s : s[k] \in S})
  BY <1>1, FS_Subset
<1>3. QED
  BY <1>2, FS_CardinalityType DEF Count

LEMMA CountSome ==
    ASSUME NEW T, NEW s \in Seq(T), NEW S, NEW k \in DOMAIN s, s[k] \in S
    PROVE  Count(s, S) >= 1
<1> DEFINE A == {j \in DOMAIN s : s[j] \in S}
<1>1. IsFiniteSet(A) /\ Count(s, S) \in Nat /\ A # {}
  BY CountTyped
<1>2. Count(s, S) # 0
  BY <1>1, FS_EmptySet DEF Count
<1>3. QED
  BY <1>1, <1>2

LEMMA CountNone ==
    ASSUME NEW T, NEW s \in Seq(T), NEW S, \A k \in DOMAIN s : s[k] \notin S
    PROVE  Count(s, S) = 0
<1>1. {j \in DOMAIN s : s[j] \in S} = {}
  OBVIOUS
<1>2. QED
  BY <1>1, FS_EmptySet DEF Count

LEMMA CountAlike ==
    ASSUME NEW s, NEW t, DOMAIN s = DOMAIN t, NEW S, NEW T,
           \A k \in DOMAIN s : s[k] \in S <=> t[k] \in T
    PROVE  Count(t, T) = Count(s, S)
<1>1. {k \in DOMAIN s : s[k] \in S} = {k \in DOMAIN t : t[k] \in T}
  OBVIOUS
<1>2. QED
  BY <1>1 DEF Count

LEMMA CountInserted ==
    ASSUME NEW T, NEW s \in Seq(T), NEW i \in 1 .. Len(s) + 1, NEW e \in T, NEW S,
           NEW t, t = InsertAt(s, i, e)
    PROVE  Count(t, S) = Count(s, S) + IF e \in S THEN 1 ELSE 0
<1>1. /\ t \in Seq(T) /\ Len(t) = Len(s) + 1 /\ t[i] = e
      /\ \A k \in 1 .. i - 1 : t[k] = s[k]
      /\ \A k \in i .. Len(s) : t[k + 1] = s[k]
  BY InsertAtIs
<1>2. /\ DOMAIN s = 1 .. Len(s) /\ DOMAIN t = 1 .. Len(s) + 1
      /\ Len(s) \in Nat /\ i \in Int /\ i >= 1 /\ i <= Len(s) + 1
  BY <1>1
<1> DEFINE A == {k \in DOMAIN s : s[k] \in S}
           B == {k \in DOMAIN t : t[k] \in S}
<1>3. IsFiniteSet(A) /\ Cardinality(A) = Count(s, S) /\ Count(s, S) \in Nat
  BY CountTyped DEF Count
<1>4. IsFiniteSet(B) /\ Cardinality(B) = Count(t, S)
  <2>1. t \in Seq(T)
    BY <1>1
  <2>2. IsFiniteSet({k \in DOMAIN t : t[k] \in S})
    BY <2>1, CountTyped
  <2>3. QED
    BY <2>2 DEF Count
<1> DEFINE f == [k \in A |-> IF k < i THEN k ELSE k + 1]
<1>5. f \in Bijection(A, B \ {i})
  <2>1. ASSUME NEW k \in A PROVE f[k] \in B \ {i}
    <3>1. k \in 1 .. Len(s) /\ s[k] \in S
      BY <1>2
    <3>2. CASE k < i
      <4>1. k \in 1 .. i - 1 /\ k \in 1 .. Len(s) + 1
        BY <1>2, <3>1, <3>2
      <4>2. t[k] = s[k]
        BY <1>1, <4>1
      <4>3. QED
        BY <1>2, <3>1, <3>2, <4>1, <4>2
    <3>3. CASE k >= i
      <4>1. k \in i .. Len(s) /\ k + 1 \in 1 .. Len(s) + 1 /\ k + 1 # i /\ ~(k < i)
        BY <1>2, <3>1, <3>3
      <4>2. t[k + 1] = s[k]
        BY <1>1, <4>1
      <4>3. QED
        BY <1>2, <3>1, <4>1, <4>2
    <3>4. QED
      BY <1>2, <3>1, <3>2, <3>3
  <2>2. ASSUME NEW j \in A, NEW k \in A, f[j] = f[k] PROVE j = k
    BY <1>2, <2>2
  <2>3. ASSUME NEW l \in B \ {i} PROVE \E k \in A : f[k] = l
    <3>1. l \in 1 .. Len(s) + 1 /\ t[l] \in S /\ l # i
      BY <1>2
    <3>2. CASE l < i
      <4>1. l \in 1 .. i - 1 /\ l \in 1 .. Len(s)
        BY <1>2, <3>1, <3>2
      <4>2. l \in A
        BY <1>1, <1>2, <3>1, <4>1
      <4>3. QED
        BY <3>2, <4>2
    <3>3. CASE l > i
      <4>1. l - 1 \in i .. Len(s) /\ l - 1 \in 1 .. Len(s) /\ l - 1 + 1 = l /\ ~(l - 1 < i)
        BY <1>2, <3>1, <3>3
      <4>2. t[l] = s[l - 1]
        BY <1>1, <4>1
      <4>3. l - 1 \in A
        BY <1>2, <3>1, <4>1, <4>2
      <4>4. f[l - 1] = l
        BY <4>1, <4>3
      <4>5. QED
        BY <4>3, <4>4
    <3>4. QED
      BY <1>2, <3>1, <3>2, <3>3
  <2> HIDE DEF A, B
  <2>4. f \in [A -> B \ {i}]
    BY <2>1
  <2>5. f \in Injection(A, B \ {i})
    <3>1. IsInjective(f)
      BY <2>2, <2>4 DEF IsInjective
    <3>2. QED
      BY <2>4, <3>1 DEF Injection
  <2>6. f \in Surjection(A, B \ {i})
    BY <2>3, <2>4 DEF Surjection
  <2>7. QED
    BY <2>5, <2>6 DEF Bijection
<1>6. Cardinality(B \ {i}) = Cardinality(A)
  <2> HIDE DEF A, B, f
  <2>1. ExistsBijection(A, B \ {i})
    BY <1>5 DEF ExistsBijection
  <2>2. QED
    BY <1>3, <2>1, FS_Bijection
<1>7. i \in B <=> e \in S
  BY <1>1, <1>2
<1>8. Cardinality(B \ {i}) = IF i \in B THEN Cardinality(B) - 1 ELSE Cardinality(B)
  BY <1>4, FS_RemoveElement
<1> HIDE DEF A, B, f
<1>9. Cardinality(B) \in Nat
  BY <1>4, FS_CardinalityType
<1>10. QED
  BY <1>3, <1>4, <1>6, <1>7, <1>8, <1>9

LEMMA CountRemoved ==
    ASSUME NEW T, NEW s \in Seq(T), NEW i \in 1 .. Len(s), NEW S, NEW t, t = RemoveAt(s, i)
    PROVE  Count(t, S) = Count(s, S) - IF s[i] \in S THEN 1 ELSE 0
<1>1. /\ t \in Seq(T) /\ Len(t) = Len(s) - 1
      /\ \A k \in 1 .. i - 1 : t[k] = s[k]
      /\ \A k \in i .. Len(s) - 1 : t[k] = s[k + 1]
  <2>1. s \in Seq(T) /\ i \in 1 .. Len(s) /\ t = RemoveAt(s, i)
    OBVIOUS
  <2>2. QED
    BY <2>1, RemoveAtIs, SMTT(20)
<1>2. PICK e : e = s[i]
  OBVIOUS
<1>3. PICK u : u = InsertAt(t, i, e)
  OBVIOUS
<1>4. t \in Seq(T) /\ i \in 1 .. Len(t) + 1 /\ e \in T /\ Len(s) \in Nat /\ i \in Int
  BY <1>1, <1>2
<1>5. /\ u \in Seq(T) /\ Len(u) = Len(t) + 1 /\ u[i] = e
      /\ \A k \in 1 .. i - 1 : u[k] = t[k]
      /\ \A k \in i .. Len(t) : u[k + 1] = t[k]
  BY <1>3, <1>4, InsertAtIs, SMTT(20)
<1>6. ASSUME NEW k \in 1 .. Len(s) PROVE u[k] = s[k]
  <2>1. CASE k < i
    <3>1. k \in 1 .. i - 1
      BY <2>1, <1>4
    <3>2. QED
      BY <1>1, <1>5, <3>1
  <2>2. CASE k > i
    <3>1. k - 1 \in i .. Len(s) - 1 /\ k - 1 \in i .. Len(t) /\ k - 1 + 1 = k
      BY <1>1, <1>4, <2>2
    <3>2. u[k] = t[k - 1] /\ t[k - 1] = s[k]
      BY <1>1, <1>5, <3>1
    <3>3. QED
      BY <3>2
  <2>3. QED
    BY <1>2, <1>4, <1>5, <2>1, <2>2
<1>7. Count(u, S) = Count(s, S)
  <2>1. DOMAIN u = 1 .. Len(s) /\ DOMAIN s = 1 .. Len(s)
    BY <1>1, <1>4, <1>5
  <2>2. QED
    BY <1>6, <2>1, CountAlike
<1>8. Count(u, S) = Count(t, S) + IF e \in S THEN 1 ELSE 0
  BY <1>3, <1>1, <1>4, CountInserted
<1>9. Count(t, S) \in Nat /\ Count(s, S) \in Nat
  BY <1>1, CountTyped
<1>10. QED
  BY <1>2, <1>7, <1>8, <1>9

-----------------------------------------------------------------------------
(* The poll threads that are at the end of a task of a set.                *)
Ended(pcs, S)   == {i \in Pipes : poll[i].pc \in pcs /\ poll[i].task[1] \in S}
EndedAt(pcs, S) == Cardinality(Ended(pcs, S))

Ending == {"done", "erase"}

OfSeq(s)    == {t \in Tasks : t.seq = s}
ClaimsOf(b) == {t \in Tasks : t.raw = b /\ Gives(t)}

(* Tasks from their dispatch to their end, and those that will give a raw  *)
(* buffer back.                                                            *)
Flying(s) == Count(mOngoingTasks, OfSeq(s)) + EndedAt(Ending, OfSeq(s))
Adding(s) == IF pt.pc = "add" /\ seqOf[pt.src] = s THEN 1 ELSE 0
Claims(b) == Count(mOngoingTasks, ClaimsOf(b)) + EndedAt({"done"}, ClaimsOf(b))

EndTypeOK == \A i \in Pipes : poll[i].pc \in Ending => poll[i].task[1] \in Tasks

LEMMA EndedTyped ==
    ASSUME NEW pcs, NEW S
    PROVE  IsFiniteSet(Ended(pcs, S)) /\ EndedAt(pcs, S) \in Nat
<1>1. IsFiniteSet(Ended(pcs, S))
  BY PipesAssumption, FS_Subset DEF Ended
<1>2. QED
  BY <1>1, FS_CardinalityType DEF EndedAt

LEMMA EndedSome ==
    ASSUME NEW pcs, NEW S, NEW i \in Pipes, poll[i].pc \in pcs, poll[i].task[1] \in S
    PROVE  EndedAt(pcs, S) >= 1
<1>1. i \in Ended(pcs, S)
  BY DEF Ended
<1>2. EndedAt(pcs, S) # 0
  BY <1>1, EndedTyped, FS_EmptySet DEF EndedAt
<1>3. QED
  BY <1>2, EndedTyped

LEMMA EndedSame ==
    ASSUME UNCHANGED poll, NEW pcs, NEW S
    PROVE  EndedAt(pcs, S)' = EndedAt(pcs, S)
BY DEF EndedAt, Ended

(* One set is the other but for one element.                               *)
LEMMA OneDiffers ==
    ASSUME NEW A, NEW B, IsFiniteSet(A), IsFiniteSet(B), NEW i, A \ {i} = B \ {i}
    PROVE  Cardinality(B) - (IF i \in B THEN 1 ELSE 0)
             = Cardinality(A) - (IF i \in A THEN 1 ELSE 0)
<1>1. /\ Cardinality(A \ {i}) = IF i \in A THEN Cardinality(A) - 1 ELSE Cardinality(A)
      /\ Cardinality(B \ {i}) = IF i \in B THEN Cardinality(B) - 1 ELSE Cardinality(B)
  BY FS_RemoveElement
<1>2. Cardinality(A) \in Nat /\ Cardinality(B) \in Nat
  BY FS_CardinalityType
<1>3. QED
  BY <1>1, <1>2

(* One poll thread takes a step.                                           *)
LEMMA EndedChanges ==
    ASSUME NEW pcs, NEW S, NEW i \in Pipes, \A j \in Pipes \ {i} : poll'[j] = poll[j]
    PROVE  EndedAt(pcs, S)' - (IF poll'[i].pc \in pcs /\ poll'[i].task[1] \in S THEN 1 ELSE 0)
             = EndedAt(pcs, S) - (IF poll[i].pc \in pcs /\ poll[i].task[1] \in S THEN 1 ELSE 0)
<1>1. PICK A : A = Ended(pcs, S)
  OBVIOUS
<1>2. PICK B : B = Ended(pcs, S)'
  OBVIOUS
<1>3. IsFiniteSet(A) /\ IsFiniteSet(B)
  BY <1>1, <1>2, PipesAssumption, FS_Subset DEF Ended
<1>4. A \ {i} = B \ {i}
  BY <1>1, <1>2 DEF Ended
<1>5. /\ i \in A <=> poll[i].pc \in pcs /\ poll[i].task[1] \in S
      /\ i \in B <=> poll'[i].pc \in pcs /\ poll'[i].task[1] \in S
  BY <1>1, <1>2 DEF Ended
<1>6. Cardinality(B) - (IF i \in B THEN 1 ELSE 0) = Cardinality(A) - (IF i \in A THEN 1 ELSE 0)
  BY <1>3, <1>4, OneDiffers
<1>7. EndedAt(pcs, S) = Cardinality(A) /\ EndedAt(pcs, S)' = Cardinality(B)
  BY <1>1, <1>2 DEF EndedAt
<1>8. QED
  BY <1>5, <1>6, <1>7

(* A finished task only moves from the list to its poll thread.            *)
LEMMA BufferDoneSums ==
    ASSUME TaskTypeOK, NEW i \in Pipes, OnBufferDone(i), NEW S, NEW pcs \in {{"done"}, Ending},
           \A t \in Tasks : [t EXCEPT !.left = @ - 1] \in S <=> t \in S
    PROVE  Count(mOngoingTasks, S)' + EndedAt(pcs, S)' = Count(mOngoingTasks, S) + EndedAt(pcs, S)
<1>1. PICK k \in 1 .. Len(mOngoingTasks) :
             LET task == mOngoingTasks[k] IN
             \/ /\ mOngoingTasks' = RemoveAt(mOngoingTasks, k)
                /\ poll' = [poll EXCEPT ![i] =
                     [pc |-> "done", ports |-> poll[i].ports \ {NextPort(i)}, task |-> <<task>>]]
             \/ /\ mOngoingTasks' = [mOngoingTasks EXCEPT ![k].left = @ - 1]
                /\ poll' = [poll EXCEPT ![i].ports = @ \ {NextPort(i)}]
  BY TaskDone
<1>2. /\ mOngoingTasks \in Seq(Tasks) /\ DOMAIN poll = Pipes
      /\ DOMAIN poll[i] = {"pc", "ports", "task"}
  BY DEF TaskTypeOK
<1>3. PICK s : s = mOngoingTasks
  OBVIOUS
<1>4. PICK t : t = mOngoingTasks'
  OBVIOUS
<1>5. PICK n : n = EndedAt(pcs, S)
  OBVIOUS
<1>6. PICK m : m = EndedAt(pcs, S)'
  OBVIOUS
<1>7. n \in Nat /\ m \in Nat
  <2>1. n \in Nat
    BY <1>5, EndedTyped
  <2>2. EndedAt(pcs, S)' \in Nat
    <3>1. IsFiniteSet(Ended(pcs, S)')
      BY PipesAssumption, FS_Subset DEF Ended
    <3>2. QED
      BY <3>1, FS_CardinalityType DEF EndedAt
  <2>3. QED
    BY <1>6, <2>1, <2>2
<1>8. Count(mOngoingTasks, S)' = Count(t, S) /\ Count(mOngoingTasks, S) = Count(s, S)
  BY <1>3, <1>4 DEF Count
<1>9. \A j \in Pipes \ {i} : poll'[j] = poll[j]
  BY <1>1, <1>2
<1>10. poll[i].pc = "buffers" /\ poll[i].pc \notin pcs
  BY DEF OnBufferDone, Ending
<1>11. m - (IF poll'[i].pc \in pcs /\ poll'[i].task[1] \in S THEN 1 ELSE 0) = n
  <2>1. m - (IF poll'[i].pc \in pcs /\ poll'[i].task[1] \in S THEN 1 ELSE 0)
          = n - (IF poll[i].pc \in pcs /\ poll[i].task[1] \in S THEN 1 ELSE 0)
    BY <1>5, <1>6, <1>9, EndedChanges
  <2>2. QED
    BY <1>7, <1>10, <2>1
<1>12. Count(s, S) \in Nat
  BY <1>2, <1>3, CountTyped
<1>13. PICK e : e = s[k]
  OBVIOUS
<1>14. k \in 1 .. Len(s) /\ s \in Seq(Tasks) /\ e \in Tasks
  BY <1>2, <1>3, <1>13
<1>15. CASE /\ mOngoingTasks' = RemoveAt(mOngoingTasks, k)
            /\ poll' = [poll EXCEPT ![i] =
                 [pc |-> "done", ports |-> poll[i].ports \ {NextPort(i)}, task |-> <<mOngoingTasks[k]>>]]
  <2>1. Count(t, S) = Count(s, S) - IF s[k] \in S THEN 1 ELSE 0
    <3>1. t = RemoveAt(s, k)
      BY <1>3, <1>4, <1>15
    <3>2. QED
      BY <1>14, <3>1, CountRemoved
  <2>2. poll'[i].pc = "done" /\ poll'[i].task[1] = e
    BY <1>2, <1>3, <1>13, <1>15
  <2>3. "done" \in pcs
    BY DEF Ending
  <2>4. m - (IF e \in S THEN 1 ELSE 0) = n
    BY <1>11, <2>2, <2>3
  <2>5. QED
    BY <1>5, <1>6, <1>7, <1>8, <1>12, <1>13, <2>1, <2>4
<1>16. CASE /\ mOngoingTasks' = [mOngoingTasks EXCEPT ![k].left = @ - 1]
            /\ poll' = [poll EXCEPT ![i].ports = @ \ {NextPort(i)}]
  <2>1. DOMAIN s = DOMAIN t /\ \A j \in DOMAIN s : s[j] \in S <=> t[j] \in S
    <3>1. t = [s EXCEPT ![k] = [s[k] EXCEPT !.left = s[k].left - 1]]
      BY <1>3, <1>4, <1>16
    <3>2. [e EXCEPT !.left = e.left - 1] \in S <=> e \in S
      BY <1>14
    <3>3. QED
      BY <1>13, <1>14, <3>1, <3>2
  <2>2. Count(t, S) = Count(s, S)
    BY <2>1, CountAlike
  <2>3. poll'[i].pc = poll[i].pc
    BY <1>2, <1>16
  <2>4. QED
    BY <1>5, <1>6, <1>7, <1>8, <1>10, <1>11, <2>2, <2>3
<1>17. QED
  BY <1>1, <1>15, <1>16

-----------------------------------------------------------------------------
(* The frames in flight.                                                   *)

(* A frame waits once, newer than the one before it, and was captured.     *)
QueueOK ==
    /\ \A k \in 1 .. Len(mInputQueue) : mInputQueue[k] \notin free
    /\ \A j, k \in 1 .. Len(mInputQueue) :
         j < k => seqOf[mInputQueue[j]] < seqOf[mInputQueue[k]]
    /\ \A b \in Raws : seqOf[b] <= lastSeq
    /\ \A b \in Raws \ free : seqOf[b] \in Seqs

(* Without HAL ZSL nothing is kept, and one task at most will give a raw   *)
(* buffer back: until then the producer does not have it, and it is not    *)
(* waiting for a second task.                                              *)
OwnOK ==
    ~scenario.zsl =>
        /\ mRawBufferMap = {} /\ pt.pc \notin {"save", "trim"}
        /\ pt.pc \in {"dispatch", "add"} => Head(pt.todo).kind = "main"
        /\ pt.pc \in Runs => /\ pt.raw \notin free /\ Claims(pt.raw) = 0
                             /\ InQueue(pt.raw) => Hold(pt.dst, seqOf[pt.raw])
        /\ \A b \in Raws : Claims(b) # 0 => Claims(b) = 1 /\ b \notin free /\ ~InQueue(b)

Newest(b) == \A c \in mRawBufferMap : c # b => seqOf[c] < seqOf[b]

(* With it the frames of tasks are kept until nothing of their sequence is *)
(* in flight, and so is the frame looked at, the newest of those kept.     *)
KeptOK ==
    scenario.zsl =>
        /\ mRawBufferMap \cap free = {}
        /\ \A t \in Coming : t.raw \in mRawBufferMap /\ seqOf[t.raw] = t.seq
        /\ pt.pc \in {"trim", "pop"} \cup Runs => pt.raw \in mRawBufferMap /\ Newest(pt.raw)
        /\ pt.pc \in {"dispatch", "add"} => pt.src \in mRawBufferMap
        /\ pt.pc \in Runs => \A k \in 1 .. Len(pt.todo) : pt.todo[k].kind # "fake"
        /\ pt.pc = "dispatch" => Head(pt.todo).kind = "main"
        /\ \A b \in mRawBufferMap : \A k \in 1 .. Len(mInputQueue) :
             b # mInputQueue[k] => seqOf[b] < seqOf[mInputQueue[k]]

ExactOK ==
    /\ mSequencesInflight \in [Seqs -> Int]
    /\ \A s \in Seqs : mSequencesInflight[s] = Flying(s) + Adding(s)

FlightInv == scenario \in Scenarios /\ EndTypeOK /\ QueueOK /\ OwnOK /\ KeptOK /\ ExactOK

(* With HAL ZSL a still has no task but its own, and a frame at least is   *)
(* kept.                                                                   *)
NoFakes == \A c \in Scenarios : c.zsl => TnrFrames <= 1 /\ RawHold >= 1

-----------------------------------------------------------------------------
(* What leaves the counts as they are.                                     *)

LEMMA SameTasks ==
    ASSUME UNCHANGED <<requests, mOngoingTasks, poll>>
    PROVE  /\ Coming' = Coming
           /\ \A b : Claims(b)' = Claims(b)
           /\ \A s : Flying(s)' = Flying(s)
           /\ EndTypeOK => EndTypeOK'
<1>1. UNCHANGED Tasks
  BY SameAsked
<1>2. \A t : Gives(t)' = Gives(t)
  BY SameHold DEF Gives
<1>3. \A b : ClaimsOf(b)' = ClaimsOf(b)
  BY <1>1, <1>2 DEF ClaimsOf
<1>4. \A s : OfSeq(s)' = OfSeq(s)
  BY <1>1 DEF OfSeq
<1>5. \A b : Claims(b)' = Claims(b)
  BY <1>3 DEF Claims, Count, EndedAt, Ended
<1>6. \A s : Flying(s)' = Flying(s)
  BY <1>4 DEF Flying, Count, EndedAt, Ended
<1>7. Coming' = Coming
  BY SameComing
<1>8. EndTypeOK => EndTypeOK'
  BY <1>1 DEF EndTypeOK
<1>9. QED
  BY <1>5, <1>6, <1>7, <1>8

(* What a request made later leaves as it is.                              *)
LEMMA RequestTasks ==
    ASSUME UnitTypeOK, EndTypeOK, NEW r, requests' = Append(requests, r),
           UNCHANGED <<mOngoingTasks, poll>>, Tasks \subseteq Tasks'
    PROVE  /\ Coming' = Coming
           /\ \A b : Claims(b)' = Claims(b)
           /\ \A s : Flying(s)' = Flying(s)
           /\ EndTypeOK'
<1>1. \A t \in Tasks : Gives(t)' = Gives(t)
  <2> SUFFICES ASSUME NEW t \in Tasks PROVE Gives(t)' = Gives(t)
    OBVIOUS
  <2>1. t.dst \in Asked
    BY DEF Tasks
  <2>2. PICK d \in Asked : d = t.dst
    BY <2>1
  <2>3. Setting(d)' = Setting(d)
    BY <2>2, SettingKept DEF UnitTypeOK
  <2>4. Hold(t.dst, t.seq)' = Hold(t.dst, t.seq)
    BY <2>2, <2>3 DEF Hold, NeedHoldOnInputFrame
  <2>5. QED
    BY <2>4 DEF Gives
<1>2. \A b : \A t \in Tasks : t \in ClaimsOf(b)' <=> t \in ClaimsOf(b)
  BY <1>1 DEF ClaimsOf
<1>3. \A s : \A t \in Tasks : t \in OfSeq(s)' <=> t \in OfSeq(s)
  BY DEF OfSeq
<1>4. \A k \in DOMAIN mOngoingTasks : mOngoingTasks[k] \in Tasks
  BY DEF UnitTypeOK, TaskTypeOK
<1>5. \A i \in Pipes : poll[i].pc \in Ending => poll[i].task[1] \in Tasks
  BY DEF EndTypeOK
<1>6. ASSUME NEW b PROVE Claims(b)' = Claims(b)
  <2>1. {k \in DOMAIN mOngoingTasks' : mOngoingTasks'[k] \in ClaimsOf(b)'}
          = {k \in DOMAIN mOngoingTasks : mOngoingTasks[k] \in ClaimsOf(b)}
    BY <1>2, <1>4
  <2>2. {i \in Pipes : poll'[i].pc \in {"done"} /\ poll'[i].task[1] \in ClaimsOf(b)'}
          = {i \in Pipes : poll[i].pc \in {"done"} /\ poll[i].task[1] \in ClaimsOf(b)}
    BY <1>2, <1>5 DEF Ending
  <2>3. QED
    BY <2>1, <2>2 DEF Claims, Count, EndedAt, Ended
<1>7. ASSUME NEW s PROVE Flying(s)' = Flying(s)
  <2>1. {k \in DOMAIN mOngoingTasks' : mOngoingTasks'[k] \in OfSeq(s)'}
          = {k \in DOMAIN mOngoingTasks : mOngoingTasks[k] \in OfSeq(s)}
    BY <1>3, <1>4
  <2>2. {i \in Pipes : poll'[i].pc \in Ending /\ poll'[i].task[1] \in OfSeq(s)'}
          = {i \in Pipes : poll[i].pc \in Ending /\ poll[i].task[1] \in OfSeq(s)}
    BY <1>3, <1>5
  <2>3. QED
    BY <2>1, <2>2 DEF Flying, Count, EndedAt, Ended
<1>8. Coming' = Coming
  BY SameComing
<1>9. EndTypeOK'
  BY <1>5 DEF EndTypeOK
<1>10. QED
  BY <1>6, <1>7, <1>8, <1>9

(* The callbacks leave alone what a task counts for.                       *)
LEMMA LeftDoesNotCount ==
    ASSUME NEW t \in Tasks
    PROVE  /\ \A b : [t EXCEPT !.left = @ - 1] \in ClaimsOf(b) <=> t \in ClaimsOf(b)
           /\ \A s : [t EXCEPT !.left = @ - 1] \in OfSeq(s) <=> t \in OfSeq(s)
<1>1. PICK u : u = [t EXCEPT !.left = @ - 1]
  OBVIOUS
<1>2. /\ u \in Tasks /\ u.raw = t.raw /\ u.seq = t.seq /\ u.dst = t.dst /\ u.fake = t.fake
  BY <1>1 DEF Tasks
<1>3. Gives(u) <=> Gives(t)
  BY <1>2 DEF Gives
<1>4. QED
  BY <1>1, <1>2, <1>3 DEF ClaimsOf, OfSeq

(* What is in flight, and what cannot be given back then.                  *)
LEMMA CountsTyped ==
    ASSUME UnitTypeOK
    PROVE  /\ \A s : Flying(s) \in Nat /\ Adding(s) \in Nat
           /\ \A b : Claims(b) \in Nat
<1>1. mOngoingTasks \in Seq(Tasks)
  BY DEF UnitTypeOK, TaskTypeOK
<1>2. \A S : Count(mOngoingTasks, S) \in Nat
  BY <1>1, CountTyped
<1>3. \A S : EndedAt(Ending, S) \in Nat /\ EndedAt({"done"}, S) \in Nat
  BY EndedTyped
<1>4. ASSUME NEW s PROVE Flying(s) \in Nat /\ Adding(s) \in Nat
  BY <1>2, <1>3 DEF Flying, Adding
<1>5. ASSUME NEW b PROVE Claims(b) \in Nat
  BY <1>2, <1>3 DEF Claims
<1>6. QED
  BY <1>4, <1>5

LEMMA ComingFlies ==
    ASSUME UnitTypeOK, NEW t \in Coming
    PROVE  Flying(t.seq) >= 1
<1>1. t \in Tasks
  BY ComingTasks DEF UnitTypeOK
<1>2. PICK s : s = t.seq
  OBVIOUS
<1>3. t \in OfSeq(s)
  BY <1>1, <1>2 DEF OfSeq
<1>4. mOngoingTasks \in Seq(Tasks)
  BY DEF UnitTypeOK, TaskTypeOK
<1>5. PICK S : S = OfSeq(s)
  OBVIOUS
<1>6. Count(mOngoingTasks, S) \in Nat /\ EndedAt(Ending, S) \in Nat
  BY <1>4, CountTyped, EndedTyped
<1>7. CASE t \in ToSet(mOngoingTasks)
  <2>1. PICK k \in DOMAIN mOngoingTasks : mOngoingTasks[k] = t
    BY <1>7 DEF ToSet
  <2>2. mOngoingTasks[k] \in S
    BY <1>3, <1>5, <2>1
  <2>3. Count(mOngoingTasks, S) >= 1
    BY <1>4, <2>2, CountSome
  <2>4. QED
    BY <1>2, <1>5, <1>6, <2>3 DEF Flying
<1>8. CASE t \in Done
  <2>1. PICK i \in Pipes : poll[i].pc = "done" /\ poll[i].task[1] = t
    BY <1>8 DEF Done
  <2>2. poll[i].pc \in Ending /\ poll[i].task[1] \in S
    BY <1>3, <1>5, <2>1 DEF Ending
  <2>3. EndedAt(Ending, S) >= 1
    BY <2>2, EndedSome
  <2>4. QED
    BY <1>2, <1>5, <1>6, <2>3 DEF Flying
<1>9. QED
  BY <1>7, <1>8 DEF Coming

LEMMA SourceNotFree ==
    ASSUME UnitTypeOK, CoverInv, FlightInv, pt.pc = "add"
    PROVE  pt.src \in Raws /\ pt.src \notin free
<1>1. pt.src \in Raws
  BY DEF UnitTypeOK, PtTypeOK
<1>2. CASE scenario.zsl
  BY <1>1, <1>2 DEF FlightInv, KeptOK
<1>3. CASE ~scenario.zsl
  BY <1>1, <1>3 DEF FlightInv, OwnOK, CoverInv, SourceOK, Runs
<1>4. QED
  BY <1>2, <1>3, <1>1

(* What returnRawBuffer gives to the producer is not waiting, not in hand, *)
(* and not the input of a task.                                            *)
LEMMA Returned ==
    ASSUME NoFakes, UnitTypeOK, CoverInv, FlightInv, MayReturnOldest
    PROVE  /\ Oldest \in mRawBufferMap /\ ~InQueue(Oldest)
           /\ \A t \in Coming : t.raw # Oldest
           /\ pt.pc \in {"trim", "pop"} \cup Runs => pt.raw # Oldest
           /\ pt.pc \in {"dispatch", "add"} => pt.src # Oldest
<1>1. /\ RawTypeOK /\ scenario \in Scenarios /\ QueueOK /\ OwnOK /\ KeptOK
      /\ RawHold \in Nat
  BY ProcessingAssumption DEF UnitTypeOK, FlightInv
<1>2. Cardinality(mRawBufferMap) > RawHold /\ ~InFlight(seqOf[Oldest])
  BY DEF MayReturnOldest
<1>3. mRawBufferMap # {}
  BY <1>1, <1>2, FS_EmptySet
<1>4. scenario.zsl
  BY <1>1, <1>3 DEF OwnOK
<1>5. RawHold >= 1
  BY <1>1, <1>4 DEF NoFakes
<1>6. PICK o : o = Oldest
  OBVIOUS
<1>7. o \in mRawBufferMap /\ o \in Raws /\ seqOf[o] \in Seqs
  <2>1. o \in mRawBufferMap
    BY <1>1, <1>3, <1>6, OldestKept
  <2>2. QED
    BY <1>1, <1>4, <2>1 DEF RawTypeOK, KeptOK, QueueOK
<1>8. \A c \in mRawBufferMap : seqOf[o] <= seqOf[c]
  BY <1>1, <1>3, <1>6, OldestKept
<1>9. PICK n \in mRawBufferMap : n # o
  <2>1. mRawBufferMap # {o}
    <3>1. Cardinality({o}) = 1
      BY FS_Singleton
    <3>2. QED
      BY <1>1, <1>2, <1>5, <3>1
  <2>2. QED
    BY <1>7, <2>1
<1>10. seqOf[o] \in Int /\ \A c \in Raws : seqOf[c] \in Int
  BY <1>1, <1>7 DEF RawTypeOK, Seqs
<1>11. ~Newest(o)
  <2>1. ~(seqOf[n] < seqOf[o])
    BY <1>1, <1>8, <1>9, <1>10 DEF RawTypeOK
  <2>2. QED
    BY <1>9, <2>1 DEF Newest
<1>12. ~InQueue(o)
  <2> SUFFICES ASSUME NEW k \in 1 .. Len(mInputQueue), mInputQueue[k] = o PROVE FALSE
    BY DEF InQueue
  <2>1. seqOf[n] < seqOf[o]
    BY <1>1, <1>4, <1>9 DEF KeptOK
  <2>2. QED
    BY <1>1, <1>8, <1>9, <1>10, <2>1 DEF RawTypeOK
<1>13. ~InFlight(seqOf[o]) /\ Flying(seqOf[o]) = 0 /\ Adding(seqOf[o]) = 0
  <2>1. ~InFlight(seqOf[o])
    BY <1>2, <1>6
  <2>2. PICK s \in Seqs : s = seqOf[o]
    BY <1>7
  <2>3. Flying(s) \in Nat /\ Adding(s) \in Nat
    BY CountsTyped
  <2>4. mSequencesInflight[s] = Flying(s) + Adding(s)
    BY DEF FlightInv, ExactOK
  <2>5. Flying(s) = 0 /\ Adding(s) = 0
    BY <2>1, <2>2, <2>3, <2>4 DEF InFlight
  <2>6. QED
    BY <2>1, <2>2, <2>5
<1>14. ASSUME NEW t \in Coming, t.raw = o PROVE FALSE
  <2>1. t.seq = seqOf[o]
    BY <1>1, <1>4, <1>14 DEF KeptOK
  <2>2. Flying(t.seq) >= 1
    BY ComingFlies
  <2>3. QED
    BY <1>13, <2>1, <2>2
<1>15. pt.pc \in {"trim", "pop"} \cup Runs => pt.raw # o
  BY <1>1, <1>4, <1>11 DEF KeptOK, Newest
<1>16. ASSUME pt.pc \in {"dispatch", "add"}, pt.src = o PROVE FALSE
  <2>1. CASE pt.pc = "add"
    BY <1>13, <1>16, <2>1 DEF Adding
  <2>2. CASE pt.pc = "dispatch"
    BY <1>1, <1>4, <1>15, <1>16, <2>2 DEF KeptOK, CoverInv, SourceOK, Runs
  <2>3. QED
    BY <1>16, <2>1, <2>2
<1>17. ~InQueue(Oldest)
  BY <1>6, <1>12 DEF InQueue
<1>18. QED
  BY <1>6, <1>7, <1>14, <1>15, <1>16, <1>17

-----------------------------------------------------------------------------
(* The frames in flight, action by action.                                 *)

LEMMA FlightInit == Init => FlightInv
<1> SUFFICES ASSUME Init PROVE FlightInv
  OBVIOUS
<1>1. /\ mOngoingTasks = <<>> /\ mInputQueue = <<>> /\ free = Raws /\ mRawBufferMap = {}
      /\ seqOf = [b \in Raws |-> -1] /\ lastSeq = -1 /\ scenario \in Scenarios
      /\ pt = Idle /\ poll = [i \in Pipes |-> Asleep]
      /\ mSequencesInflight = [s \in Seqs |-> 0]
  BY DEF Init
<1>2. \A i \in Pipes : poll[i].pc = "idle"
  BY <1>1 DEF Asleep
<1>3. ASSUME NEW S PROVE Count(mOngoingTasks, S) = 0
  <2>1. {k \in DOMAIN mOngoingTasks : mOngoingTasks[k] \in S} = {}
    BY <1>1
  <2>2. QED
    BY <2>1, FS_EmptySet DEF Count
<1>4. ASSUME NEW S, NEW pcs \in {{"done"}, Ending} PROVE EndedAt(pcs, S) = 0
  <2>1. Ended(pcs, S) = {}
    BY <1>2 DEF Ended, Ending
  <2>2. QED
    BY <2>1, FS_EmptySet DEF EndedAt
<1>5. \A s : Flying(s) = 0
  BY <1>3, <1>4 DEF Flying
<1>6. \A b : Claims(b) = 0
  BY <1>3, <1>4 DEF Claims
<1>7. pt.pc = "wait"
  BY <1>1 DEF Idle
<1>8. Coming = {}
  BY <1>1, <1>2 DEF Coming, Done, ToSet
<1>9. EndTypeOK
  BY <1>2 DEF EndTypeOK, Ending
<1>10. QueueOK
  BY <1>1 DEF QueueOK
<1>11. OwnOK /\ KeptOK
  BY <1>1, <1>6, <1>7, <1>8 DEF OwnOK, KeptOK, Runs
<1>12. ExactOK
  BY <1>1, <1>5, <1>7 DEF ExactOK, Adding
<1>13. QED
  BY <1>1, <1>9, <1>10, <1>11, <1>12 DEF FlightInv

(* Steps that leave buffers and tasks where they are.                      *)
LEMMA FlightElsewhere ==
    ASSUME FlightInv, UNCHANGED <<scenario, seqOf, lastSeq, free, mRawBufferMap, mInputQueue,
                                  mSequencesInflight, requests, mOngoingTasks, poll>>,
           pt'.pc \in Runs \cup {"trim", "pop"} => UNCHANGED pt,
           pt.pc # "add" \/ UNCHANGED pt,
           pt'.pc = "save" => scenario.zsl
    PROVE  FlightInv'
<1>1. /\ Coming' = Coming
      /\ \A b : Claims(b)' = Claims(b)
      /\ \A s : Flying(s)' = Flying(s)
      /\ EndTypeOK'
  BY SameTasks DEF FlightInv
<1>2. QueueOK'
  BY DEF FlightInv, QueueOK
<1>3. \A b : InQueue(b)' = InQueue(b)
  BY DEF InQueue
<1>4. \A b : Newest(b)' = Newest(b)
  BY DEF Newest
<1>5. CASE UNCHANGED pt
  <2>1. Claims(pt.raw)' = Claims(pt.raw) /\ InQueue(pt.raw)' = InQueue(pt.raw)
        /\ Newest(pt.raw)' = Newest(pt.raw)
    BY <1>1, <1>5 DEF InQueue, Newest
  <2>2. Hold(pt.dst, seqOf[pt.raw])' = Hold(pt.dst, seqOf[pt.raw])
    BY <1>5 DEF Hold, NeedHoldOnInputFrame, Setting
  <2>3. \A s : Adding(s)' = Adding(s)
    BY <1>5 DEF Adding
  <2>4. OwnOK'
    BY <1>1, <1>3, <1>5, <2>1, <2>2 DEF FlightInv, OwnOK
  <2>5. KeptOK'
    BY <1>1, <1>5, <2>1 DEF FlightInv, KeptOK
  <2>6. QED
    BY <1>1, <1>2, <2>3, <2>4, <2>5 DEF FlightInv, ExactOK
<1>6. CASE ~UNCHANGED pt
  <2>1. pt'.pc \notin Runs \cup {"trim", "pop"} /\ pt.pc # "add"
    BY <1>6
  <2>2. \A s : Adding(s)' = Adding(s)
    BY <2>1 DEF Adding, Runs
  <2>3. OwnOK'
    BY <1>1, <1>3, <2>1 DEF FlightInv, OwnOK, Runs
  <2>4. KeptOK'
    BY <1>1, <2>1 DEF FlightInv, KeptOK, Runs
  <2>5. QED
    BY <1>1, <1>2, <2>2, <2>3, <2>4 DEF FlightInv, ExactOK
<1>7. QED
  BY <1>5, <1>6

LEMMA CaptureFlies ==
    ASSUME UnitTypeOK, CoverInv, FlightInv, Capture
    PROVE  FlightInv'
<1>1. PICK b \in free : /\ free' = free \ {b} /\ mInputQueue' = Append(mInputQueue, b)
                        /\ seqOf' = [seqOf EXCEPT ![b] = lastSeq + 1]
  BY CaptureTakes DEF UnitTypeOK
<1>2. /\ lastSeq' = lastSeq + 1 /\ lastSeq < MaxSeq
      /\ UNCHANGED <<scenario, mRawBufferMap, mSequencesInflight, pt, requests, mOngoingTasks,
                     poll>>
  BY DEF Capture, asked, pipes
<1>3. /\ RawTypeOK /\ QueueOK /\ OwnOK /\ KeptOK /\ scenario \in Scenarios /\ EndTypeOK
      /\ ExactOK
  BY DEF UnitTypeOK, FlightInv
<1>4. /\ Coming' = Coming
      /\ \A c : Claims(c)' = Claims(c)
      /\ \A s : Flying(s)' = Flying(s)
      /\ EndTypeOK'
  BY <1>2, <1>3, SameTasks
<1>5. \A c \in Raws : c \notin free => seqOf'[c] = seqOf[c]
  BY <1>1, <1>3 DEF RawTypeOK
<1>6. b \in Raws /\ seqOf'[b] = lastSeq + 1 /\ lastSeq + 1 \in Seqs /\ lastSeq \in Int
  BY <1>1, <1>2, <1>3, ProcessingAssumption DEF RawTypeOK, Seqs
<1>7. PICK n \in Nat : n = Len(mInputQueue)
  BY <1>3 DEF RawTypeOK
<1>8. /\ mInputQueue' \in Seq(Raws) /\ Len(mInputQueue') = n + 1 /\ mInputQueue'[n + 1] = b
      /\ \A k \in 1 .. n : mInputQueue'[k] = mInputQueue[k] /\ mInputQueue[k] \in Raws
  BY <1>1, <1>3, <1>6, <1>7 DEF RawTypeOK
<1>9. \A k \in 1 .. n : mInputQueue[k] \notin free
  BY <1>3, <1>7 DEF QueueOK
<1>10. \A c \in Raws : seqOf[c] \in Int /\ seqOf[c] <= lastSeq
  BY <1>3 DEF RawTypeOK, Seqs, QueueOK
<1>11. QueueOK'
  <2>1. \A k \in 1 .. n + 1 : mInputQueue'[k] \notin free'
    <3> SUFFICES ASSUME NEW k \in 1 .. n + 1 PROVE mInputQueue'[k] \notin free'
      OBVIOUS
    <3>1. CASE k = n + 1
      BY <1>1, <1>8, <3>1
    <3>2. CASE k # n + 1
      <4>1. k \in 1 .. n
        BY <3>2
      <4>2. QED
        BY <1>1, <1>8, <1>9, <4>1
    <3>3. QED
      BY <3>1, <3>2
  <2>2. ASSUME NEW j \in 1 .. n + 1, NEW k \in 1 .. n + 1, j < k
        PROVE  seqOf'[mInputQueue'[j]] < seqOf'[mInputQueue'[k]]
    <3>1. j \in 1 .. n
      BY <2>2
    <3>2. seqOf'[mInputQueue'[j]] = seqOf[mInputQueue[j]]
      BY <1>5, <1>8, <1>9, <3>1
    <3>3. CASE k = n + 1
      <4>1. seqOf[mInputQueue[j]] < lastSeq + 1
        BY <1>6, <1>8, <1>10, <3>1
      <4>2. QED
        BY <1>6, <1>8, <3>2, <3>3, <4>1
    <3>4. CASE k # n + 1
      <4>1. k \in 1 .. n
        BY <3>4
      <4>2. seqOf'[mInputQueue'[k]] = seqOf[mInputQueue[k]]
        BY <1>5, <1>8, <1>9, <4>1
      <4>3. seqOf[mInputQueue[j]] < seqOf[mInputQueue[k]]
        BY <1>3, <1>7, <2>2, <3>1, <4>1 DEF QueueOK
      <4>4. QED
        BY <3>2, <4>2, <4>3
    <3>5. QED
      BY <3>3, <3>4
  <2>3. \A c \in Raws : seqOf'[c] <= lastSeq'
    <3> SUFFICES ASSUME NEW c \in Raws PROVE seqOf'[c] <= lastSeq'
      OBVIOUS
    <3>1. seqOf'[c] = seqOf[c] \/ seqOf'[c] = lastSeq + 1
      BY <1>1, <1>3, <1>6 DEF RawTypeOK
    <3>2. QED
      BY <1>2, <1>6, <1>10, <3>1
  <2>4. \A c \in Raws \ free' : seqOf'[c] \in Seqs
    BY <1>1, <1>3, <1>5, <1>6 DEF QueueOK
  <2>5. QED
    BY <1>8, <2>1, <2>2, <2>3, <2>4 DEF QueueOK
<1>12. \A c : InQueue(c)' => InQueue(c) \/ c = b
  <2> SUFFICES ASSUME NEW c, NEW k \in 1 .. n + 1, mInputQueue'[k] = c
               PROVE  InQueue(c) \/ c = b
    BY <1>8 DEF InQueue
  <2>1. k = n + 1 \/ k \in 1 .. n
    OBVIOUS
  <2>2. QED
    BY <1>7, <1>8, <2>1 DEF InQueue
<1>13. PICK r : r = pt.raw
  OBVIOUS
<1>14. OwnOK'
  <2> SUFFICES ASSUME ~scenario.zsl PROVE OwnOK'
    BY <1>2 DEF OwnOK
  <2>1. ASSUME pt.pc \in Runs
        PROVE  r \notin free' /\ Claims(r)' = 0
               /\ (InQueue(r)' => Hold(pt.dst, seqOf[r])')
    <3>1. r \in Raws /\ r \notin free /\ Claims(r) = 0
          /\ (InQueue(r) => Hold(pt.dst, seqOf[r]))
      BY <1>3, <1>13, <2>1 DEF OwnOK, UnitTypeOK, PtTypeOK, InQueue, Claims, ClaimsOf
    <3>2. Hold(pt.dst, seqOf[r])' = Hold(pt.dst, seqOf[r])
      BY <1>2, <1>5, <3>1 DEF Hold, NeedHoldOnInputFrame, Setting
    <3>3. r # b
      BY <3>1
    <3>4. QED
      BY <1>1, <1>4, <1>12, <3>1, <3>2, <3>3
  <2>2. ASSUME NEW c \in Raws, Claims(c)' # 0
        PROVE  Claims(c)' = 1 /\ c \notin free' /\ ~InQueue(c)'
    <3>1. Claims(c) # 0
      BY <1>4, <2>2
    <3>2. Claims(c) = 1 /\ c \notin free /\ ~InQueue(c)
      BY <1>3, <3>1 DEF OwnOK
    <3>3. QED
      BY <1>1, <1>4, <1>12, <3>2
  <2>3. /\ Claims(r)' = Claims(pt.raw)' /\ InQueue(r)' = InQueue(pt.raw)'
        /\ Hold(pt.dst, seqOf[r])' = Hold(pt.dst, seqOf[pt.raw])'
    BY <1>2, <1>13 DEF Claims, ClaimsOf, InQueue
  <2>4. QED
    BY <1>2, <1>3, <1>13, <2>1, <2>2, <2>3 DEF OwnOK
<1>15. KeptOK'
  <2> SUFFICES ASSUME scenario.zsl PROVE KeptOK'
    BY <1>2 DEF KeptOK
  <2>1. mRawBufferMap \subseteq Raws /\ \A c \in mRawBufferMap : seqOf'[c] = seqOf[c] /\ c # b
    BY <1>1, <1>3, <1>5 DEF RawTypeOK, KeptOK
  <2>2. \A c : c \in mRawBufferMap /\ Newest(c) => Newest(c)'
    BY <1>2, <2>1 DEF Newest
  <2>3. ASSUME pt.pc \in {"trim", "pop"} \cup Runs
        PROVE  pt.raw \in mRawBufferMap /\ Newest(pt.raw)'
    <3>1. r \in mRawBufferMap /\ Newest(r)
      BY <1>3, <1>13, <2>3 DEF KeptOK, Newest
    <3>2. Newest(r)'
      BY <2>2, <3>1
    <3>3. QED
      BY <1>2, <1>13, <3>1, <3>2 DEF Newest
  <2>4. ASSUME NEW c \in mRawBufferMap, NEW k \in 1 .. n + 1, c # mInputQueue'[k]
        PROVE  seqOf'[c] < seqOf'[mInputQueue'[k]]
    <3>1. CASE k = n + 1
      <4>1. seqOf[c] < lastSeq + 1
        BY <1>6, <1>10, <2>1
      <4>2. QED
        BY <1>6, <1>8, <2>1, <3>1, <4>1
    <3>2. CASE k # n + 1
      <4>1. k \in 1 .. n
        BY <3>2
      <4>2. seqOf'[mInputQueue'[k]] = seqOf[mInputQueue[k]]
        BY <1>5, <1>8, <1>9, <4>1
      <4>3. seqOf[c] < seqOf[mInputQueue[k]]
        BY <1>3, <1>7, <1>8, <2>4, <4>1 DEF KeptOK
      <4>4. QED
        BY <2>1, <4>2, <4>3
    <3>3. QED
      BY <3>1, <3>2
  <2>5. \A t \in Coming : t.raw \in mRawBufferMap /\ seqOf'[t.raw] = t.seq
    BY <1>3, <2>1 DEF KeptOK
  <2>6. mRawBufferMap \cap free' = {}
    BY <1>1, <1>3 DEF KeptOK
  <2>7. QED
    BY <1>2, <1>3, <1>4, <1>8, <2>3, <2>4, <2>5, <2>6 DEF KeptOK
<1>16. ExactOK'
  <2>1. \A s : Adding(s)' = Adding(s)
    <3>1. CASE pt.pc = "add"
      <4>1. pt.src \in Raws /\ pt.src \notin free
        BY <3>1, SourceNotFree
      <4>2. seqOf'[pt.src] = seqOf[pt.src]
        BY <1>5, <4>1
      <4>3. QED
        BY <1>2, <4>2 DEF Adding
    <3>2. CASE pt.pc # "add"
      BY <1>2, <3>2 DEF Adding
    <3>3. QED
      BY <3>1, <3>2
  <2>2. QED
    BY <1>2, <1>3, <1>4, <2>1 DEF ExactOK
<1>17. QED
  BY <1>2, <1>3, <1>4, <1>11, <1>14, <1>15, <1>16 DEF FlightInv

LEMMA EnvironmentFlies ==
    ASSUME UnitTypeOK, CoverInv, FlightInv, Capture \/ LoseFrame \/ NewRequest \/ HandleQueueBuffer
    PROVE  FlightInv'
<1>1. CASE Capture
  BY <1>1, CaptureFlies
<1>2. CASE HandleQueueBuffer
  <2>1. UNCHANGED <<scenario, seqOf, lastSeq, free, mRawBufferMap, mInputQueue,
                    mSequencesInflight, requests, mOngoingTasks, poll, pt>>
    BY <1>2 DEF HandleQueueBuffer, producer, pipes
  <2>2. pt.pc = "save" => scenario.zsl
    BY DEF FlightInv, OwnOK
  <2>3. QED
    BY <2>1, <2>2, FlightElsewhere
<1>3. CASE LoseFrame
  <2>1. /\ UNCHANGED <<scenario, seqOf, free, mRawBufferMap, mInputQueue,
                       mSequencesInflight, requests, mOngoingTasks, poll, pt>>
        /\ lastSeq' = lastSeq + 1
    BY <1>3 DEF LoseFrame, asked, pipes
  <2>2. /\ Coming' = Coming
        /\ \A b : Claims(b)' = Claims(b)
        /\ \A s : Flying(s)' = Flying(s)
        /\ EndTypeOK'
    BY <2>1, SameTasks DEF FlightInv
  <2>3. QueueOK'
    <3>1. \A b \in Raws : seqOf[b] <= lastSeq /\ seqOf[b] \in Int /\ lastSeq \in Int
      BY DEF FlightInv, QueueOK, UnitTypeOK, RawTypeOK, Seqs
    <3>2. \A b \in Raws : seqOf[b] <= lastSeq + 1
      BY <3>1
    <3>3. QED
      BY <2>1, <3>2 DEF FlightInv, QueueOK
  <2>4. Claims(pt.raw)' = Claims(pt.raw) /\ InQueue(pt.raw)' = InQueue(pt.raw)
        /\ Newest(pt.raw)' = Newest(pt.raw) /\ \A b : InQueue(b)' = InQueue(b)
    BY <2>1, <2>2 DEF InQueue, Newest
  <2>5. Hold(pt.dst, seqOf[pt.raw])' = Hold(pt.dst, seqOf[pt.raw])
    BY <2>1 DEF Hold, NeedHoldOnInputFrame, Setting
  <2>6. \A s : Adding(s)' = Adding(s)
    BY <2>1 DEF Adding
  <2>7. OwnOK'
    BY <2>1, <2>2, <2>4, <2>5 DEF FlightInv, OwnOK
  <2>8. KeptOK'
    BY <2>1, <2>2, <2>4 DEF FlightInv, KeptOK
  <2>9. QED
    BY <2>1, <2>2, <2>3, <2>6, <2>7, <2>8 DEF FlightInv, ExactOK
<1>4. CASE NewRequest
  <2> DEFINE R == [wants : SUBSET Ports, setting : Seqs, reprocess : BOOLEAN]
  <2>1. UNCHANGED <<scenario, seqOf, lastSeq, free, mRawBufferMap, mInputQueue,
                    mSequencesInflight, mOngoingTasks, poll, pt>>
    BY <1>4 DEF NewRequest, producer, pipes
  <2>2. PICK r \in R : requests' = Append(requests, r)
    BY <1>4, ProcessingAssumption DEF NewRequest
  <2>3. Tasks \subseteq Tasks'
    <3>1. requests \in Seq(R)
      BY DEF UnitTypeOK, AskTypeOK
    <3> HIDE DEF R
    <3>2. requests' \in Seq(R) /\ Len(requests') = Len(requests) + 1 /\ Len(requests) \in Nat
      BY <2>2, <3>1
    <3>3. 0 .. Len(requests) \subseteq 0 .. Len(requests')
      BY <3>2
    <3>4. Asked \subseteq Asked'
      BY <3>3 DEF Asked
    <3>5. QED
      BY <3>4 DEF Tasks
  <2> HIDE DEF R
  <2>4. /\ Coming' = Coming
        /\ \A b : Claims(b)' = Claims(b)
        /\ \A s : Flying(s)' = Flying(s)
        /\ EndTypeOK'
    BY <2>1, <2>2, <2>3, RequestTasks DEF FlightInv
  <2>5. Claims(pt.raw)' = Claims(pt.raw) /\ InQueue(pt.raw)' = InQueue(pt.raw)
        /\ Newest(pt.raw)' = Newest(pt.raw) /\ \A b : InQueue(b)' = InQueue(b)
    <3>1. PICK c : c = pt.raw
      OBVIOUS
    <3>2. Claims(c)' = Claims(c)
      BY <2>4
    <3>3. Claims(pt.raw)' = Claims(c)' /\ Claims(pt.raw) = Claims(c)
      BY <2>1, <3>1 DEF Claims, ClaimsOf
    <3>4. QED
      BY <2>1, <3>2, <3>3 DEF InQueue, Newest
  <2>6. pt.pc \in Runs => Hold(pt.dst, seqOf[pt.raw])' = Hold(pt.dst, seqOf[pt.raw])
    <3> SUFFICES ASSUME pt.pc \in Runs
                 PROVE  Hold(pt.dst, seqOf[pt.raw])' = Hold(pt.dst, seqOf[pt.raw])
      OBVIOUS
    <3>1. PICK d \in Asked : d = pt.dst
      BY DEF UnitTypeOK, PtTypeOK
    <3>2. Setting(d)' = Setting(d)
      BY <2>2, SettingKept DEF UnitTypeOK
    <3>3. QED
      BY <2>1, <3>1, <3>2 DEF Hold, NeedHoldOnInputFrame
  <2>7. \A s : Adding(s)' = Adding(s)
    BY <2>1 DEF Adding
  <2>8. OwnOK'
    BY <2>1, <2>4, <2>5, <2>6 DEF FlightInv, OwnOK
  <2>9. KeptOK'
    BY <2>1, <2>4, <2>5 DEF FlightInv, KeptOK
  <2>10. QueueOK'
    BY <2>1 DEF FlightInv, QueueOK
  <2>11. QED
    BY <2>1, <2>4, <2>7, <2>8, <2>9, <2>10 DEF FlightInv, ExactOK
<1>5. QED
  BY <1>1, <1>2, <1>3, <1>4

(* A poll thread that is not at the end of a task, before and after.       *)
LEMMA SamePolls ==
    ASSUME UNCHANGED <<requests, mOngoingTasks>>, EndTypeOK, NEW i \in Pipes,
           \A j \in Pipes \ {i} : poll'[j] = poll[j],
           poll[i].pc \notin Ending, poll'[i].pc \notin Ending
    PROVE  /\ Coming' = Coming
           /\ \A b : Claims(b)' = Claims(b)
           /\ \A s : Flying(s)' = Flying(s)
           /\ EndTypeOK'
<1>1. UNCHANGED Tasks
  BY SameAsked
<1>2. \A t : Gives(t)' = Gives(t)
  BY SameHold DEF Gives
<1>3. \A b : ClaimsOf(b)' = ClaimsOf(b)
  BY <1>1, <1>2 DEF ClaimsOf
<1>4. \A s : OfSeq(s)' = OfSeq(s)
  BY <1>1 DEF OfSeq
<1>5. \A S : Ended({"done"}, S)' = Ended({"done"}, S) /\ Ended(Ending, S)' = Ended(Ending, S)
  BY DEF Ended, Ending
<1>6. ASSUME NEW b PROVE Claims(b)' = Claims(b)
  <2>1. PICK S : S = ClaimsOf(b)
    OBVIOUS
  <2>2. S = ClaimsOf(b)'
    BY <1>3, <2>1
  <2>3. Ended({"done"}, S)' = Ended({"done"}, S)
    BY <1>5
  <2>4. EndedAt({"done"}, S)' = EndedAt({"done"}, S)
    BY <2>3 DEF EndedAt
  <2>5. Count(mOngoingTasks, S)' = Count(mOngoingTasks, S)
    BY DEF Count
  <2>6. Claims(b) = Count(mOngoingTasks, S) + EndedAt({"done"}, S)
    BY <2>1 DEF Claims
  <2>7. Claims(b)' = Count(mOngoingTasks, S)' + EndedAt({"done"}, S)'
    BY <2>2 DEF Claims
  <2>8. QED
    BY <2>4, <2>5, <2>6, <2>7
<1>7. ASSUME NEW s PROVE Flying(s)' = Flying(s)
  <2>1. PICK S : S = OfSeq(s)
    OBVIOUS
  <2>2. S = OfSeq(s)'
    BY <1>4, <2>1
  <2>3. Ended(Ending, S)' = Ended(Ending, S)
    BY <1>5
  <2>4. EndedAt(Ending, S)' = EndedAt(Ending, S)
    BY <2>3 DEF EndedAt
  <2>5. Count(mOngoingTasks, S)' = Count(mOngoingTasks, S)
    BY DEF Count
  <2>6. Flying(s) = Count(mOngoingTasks, S) + EndedAt(Ending, S)
    BY <2>1 DEF Flying
  <2>7. Flying(s)' = Count(mOngoingTasks, S)' + EndedAt(Ending, S)'
    BY <2>2 DEF Flying
  <2>8. QED
    BY <2>4, <2>5, <2>6, <2>7
<1>8. Coming' = Coming
  <2>1. Done' = Done
    BY DEF Done, Ending
  <2>2. QED
    BY <2>1 DEF Coming
<1>9. EndTypeOK'
  BY <1>1 DEF EndTypeOK
<1>10. QED
  BY <1>6, <1>7, <1>8, <1>9

(* Places of raw buffers change: one goes to the producer, at most, which  *)
(* nothing else has.                                                       *)
LEMMA TrimFlies ==
    ASSUME NoFakes, UnitTypeOK, CoverInv, FlightInv, ReturnRawBuffer,
           UNCHANGED <<scenario, seqOf, lastSeq, mInputQueue, mSequencesInflight, requests,
                       mOngoingTasks>>,
           \/ UNCHANGED poll /\ pt.pc = "trim" /\ pt' = [pt EXCEPT !.pc = "pop"]
           \/ UNCHANGED pt /\ \E i \in Pipes : /\ poll[i].pc = "trim"
                                               /\ poll' = [poll EXCEPT ![i].pc = "buffers",
                                                                       ![i].task = <<>>]
    PROVE  FlightInv'
<1>1. /\ RawTypeOK /\ QueueOK /\ OwnOK /\ KeptOK /\ scenario \in Scenarios /\ EndTypeOK
      /\ ExactOK
  BY DEF UnitTypeOK, FlightInv
<1>2. /\ Coming' = Coming
      /\ \A c : Claims(c)' = Claims(c)
      /\ \A s : Flying(s)' = Flying(s)
      /\ EndTypeOK'
  <2>1. CASE UNCHANGED poll
    BY <1>1, <2>1, SameTasks
  <2>2. ASSUME NEW i \in Pipes, poll[i].pc = "trim",
               poll' = [poll EXCEPT ![i].pc = "buffers", ![i].task = <<>>]
        PROVE  /\ Coming' = Coming
               /\ \A c : Claims(c)' = Claims(c)
               /\ \A s : Flying(s)' = Flying(s)
               /\ EndTypeOK'
    <3>1. DOMAIN poll = Pipes /\ \A j \in Pipes : DOMAIN poll[j] = {"pc", "ports", "task"}
      BY DEF UnitTypeOK, TaskTypeOK
    <3>2. /\ \A j \in Pipes \ {i} : poll'[j] = poll[j]
          /\ poll'[i].pc = "buffers" /\ poll[i].pc = "trim"
      BY <2>2, <3>1
    <3>3. QED
      BY <1>1, <3>2, SamePolls DEF Ending
  <2>3. QED
    BY <2>1, <2>2
<1>3. \A s : Adding(s)' = Adding(s)
  <2>1. UNCHANGED pt \/ (pt.pc = "trim" /\ pt'.pc = "pop")
    BY DEF UnitTypeOK, PtTypeOK
  <2>2. QED
    BY <2>1 DEF Adding
<1>4. \A b : InQueue(b)' = InQueue(b)
  BY DEF InQueue
<1>5. /\ pt'.pc \in Runs => UNCHANGED pt
      /\ pt'.pc \in {"trim", "pop"} \cup Runs =>
           pt.pc \in {"trim", "pop"} \cup Runs /\ pt'.raw = pt.raw
      /\ pt'.pc \in {"dispatch", "add"} => pt.pc = pt'.pc
      /\ pt'.pc # "save" \/ pt.pc = "save"
  BY DEF Runs, UnitTypeOK, PtTypeOK
<1>6. PICK r : r = pt.raw
  OBVIOUS
<1>7. CASE MayReturnOldest
  <2>1. /\ Oldest \in mRawBufferMap /\ ~InQueue(Oldest)
        /\ \A t \in Coming : t.raw # Oldest
        /\ pt.pc \in {"trim", "pop"} \cup Runs => pt.raw # Oldest
        /\ pt.pc \in {"dispatch", "add"} => pt.src # Oldest
    BY <1>7, Returned
  <2>2. free' = free \cup {Oldest} /\ mRawBufferMap' = mRawBufferMap \ {Oldest}
    BY <1>7 DEF ReturnRawBuffer
  <2>3. PICK o : o = Oldest
    OBVIOUS
  <2>4. scenario.zsl
    BY <1>1, <2>1 DEF OwnOK
  <2>5. \A k \in 1 .. Len(mInputQueue) : mInputQueue[k] # o
    BY <2>1, <2>3 DEF InQueue
  <2>6. QueueOK'
    BY <1>1, <2>2, <2>3, <2>5 DEF QueueOK
  <2>7. OwnOK'
    BY <2>4 DEF OwnOK
  <2>8. \A c : Newest(c) => Newest(c)'
    BY <2>2 DEF Newest
  <2>9. pt'.pc \in {"trim", "pop"} \cup Runs => pt'.raw \in mRawBufferMap' /\ Newest(pt.raw)'
    <3>1. pt'.pc \in {"trim", "pop"} \cup Runs => r \in mRawBufferMap' /\ Newest(r)' /\ pt'.raw = r
      <4>1. pt.pc \in {"trim", "pop"} \cup Runs => r \in mRawBufferMap /\ Newest(r) /\ r # o
        BY <1>1, <1>6, <2>1, <2>3, <2>4 DEF KeptOK, Newest
      <4>2. QED
        BY <1>5, <1>6, <2>2, <2>3, <2>8, <4>1
    <3>2. QED
      BY <3>1 DEF Newest
  <2>10. mRawBufferMap' \cap free' = {}
    BY <1>1, <2>2, <2>4 DEF KeptOK
  <2>11. \A t \in Coming' : t.raw \in mRawBufferMap' /\ seqOf'[t.raw] = t.seq
    BY <1>1, <1>2, <2>1, <2>2, <2>4 DEF KeptOK
  <2>12. pt'.pc \in {"dispatch", "add"} => pt'.src \in mRawBufferMap'
    BY <1>1, <1>5, <2>1, <2>2, <2>4 DEF KeptOK, Runs
  <2>13. KeptOK'
    BY <1>1, <1>5, <2>2, <2>4, <2>9, <2>10, <2>11, <2>12 DEF KeptOK, Runs
  <2>14. QED
    BY <1>1, <1>2, <1>3, <2>6, <2>7, <2>13 DEF FlightInv, ExactOK
<1>8. CASE ~MayReturnOldest
  <2>1. UNCHANGED <<free, mRawBufferMap>>
    BY <1>8 DEF ReturnRawBuffer
  <2>2. QueueOK'
    BY <1>1, <2>1 DEF QueueOK
  <2>3. \A c : Newest(c)' = Newest(c)
    BY <2>1 DEF Newest
  <2>4. pt'.pc \in {"trim", "pop"} \cup Runs => Newest(pt.raw)' = Newest(pt.raw)
    BY <1>5, <2>1 DEF Newest
  <2>5. pt'.pc \in Runs => /\ Claims(pt.raw)' = Claims(pt.raw)
                           /\ InQueue(pt.raw)' = InQueue(pt.raw)
                           /\ Hold(pt.dst, seqOf[pt.raw])' = Hold(pt.dst, seqOf[pt.raw])
    <3> SUFFICES ASSUME pt'.pc \in Runs
                 PROVE  /\ Claims(pt.raw)' = Claims(pt.raw)
                        /\ InQueue(pt.raw)' = InQueue(pt.raw)
                        /\ Hold(pt.dst, seqOf[pt.raw])' = Hold(pt.dst, seqOf[pt.raw])
      OBVIOUS
    <3>1. UNCHANGED pt
      BY <1>5
    <3>2. Claims(r)' = Claims(r)
      BY <1>2
    <3>3. Claims(pt.raw)' = Claims(r)' /\ Claims(pt.raw) = Claims(r)
      BY <1>6, <3>1 DEF Claims, ClaimsOf
    <3>4. InQueue(pt.raw)' = InQueue(pt.raw)
      BY <3>1 DEF InQueue
    <3>5. Hold(pt.dst, seqOf[pt.raw])' = Hold(pt.dst, seqOf[pt.raw])
      BY <3>1 DEF Hold, NeedHoldOnInputFrame, Setting
    <3>6. QED
      BY <3>2, <3>3, <3>4, <3>5
  <2>6. OwnOK'
    <3>1. CASE pt.pc = "trim"
      BY <1>1, <3>1 DEF OwnOK
    <3>2. CASE UNCHANGED pt
      <4>1. \A c \in Raws : Claims(c)' = Claims(c) /\ InQueue(c)' = InQueue(c)
        BY <1>2, <1>4
      <4>2. QED
        BY <1>1, <2>1, <2>5, <3>2, <4>1 DEF OwnOK, Runs
    <3>3. QED
      BY <3>1, <3>2
  <2>7. KeptOK'
    BY <1>1, <1>2, <1>5, <2>1, <2>4 DEF KeptOK, Runs
  <2>8. QED
    BY <1>1, <1>2, <1>3, <2>2, <2>6, <2>7 DEF FlightInv, ExactOK
<1>9. QED
  BY <1>7, <1>8

LEMMA SaveFlies ==
    ASSUME UnitTypeOK, FlightInv, SaveRawBuffer
    PROVE  FlightInv'
<1>1. /\ RawTypeOK /\ QueueOK /\ OwnOK /\ KeptOK /\ scenario \in Scenarios /\ EndTypeOK
      /\ ExactOK
  BY DEF UnitTypeOK, FlightInv
<1>2. /\ pt.pc = "save" /\ mRawBufferMap' = mRawBufferMap \cup {pt.raw}
      /\ pt' = [pt EXCEPT !.pc = "trim"]
      /\ UNCHANGED <<scenario, seqOf, lastSeq, free, mInputQueue, mSequencesInflight, requests,
                     mOngoingTasks, poll>>
  BY DEF SaveRawBuffer, producer, asked, pipes
<1>3. scenario.zsl
  BY <1>1, <1>2 DEF OwnOK
<1>4. /\ Coming' = Coming
      /\ \A c : Claims(c)' = Claims(c)
      /\ \A s : Flying(s)' = Flying(s)
      /\ EndTypeOK'
  BY <1>1, <1>2, SameTasks
<1>5. PICK r : r = pt.raw
  OBVIOUS
<1>6. /\ r \in Raws /\ pt'.pc = "trim" /\ pt'.raw = r
      /\ Len(mInputQueue) \in Nat /\ 1 \in 1 .. Len(mInputQueue) /\ mInputQueue[1] = r
      /\ mInputQueue \in Seq(Raws)
  BY <1>1, <1>2, <1>5 DEF UnitTypeOK, PtTypeOK, FrontOK, Chooses, RawTypeOK
<1>7. r \notin free
  BY <1>1, <1>6 DEF QueueOK
<1>8. Newest(r)'
  <2>1. \A c \in mRawBufferMap : c # r => seqOf[c] < seqOf[r]
    BY <1>1, <1>3, <1>6 DEF KeptOK
  <2>2. QED
    BY <1>2, <1>5, <2>1 DEF Newest
<1>9. Newest(pt.raw)'
  BY <1>6, <1>8 DEF Newest
<1>10. ASSUME NEW b \in mRawBufferMap', NEW k \in 1 .. Len(mInputQueue), b # mInputQueue[k]
       PROVE  seqOf[b] < seqOf[mInputQueue[k]]
  <2>1. CASE b \in mRawBufferMap
    BY <1>1, <1>3, <1>10, <2>1 DEF KeptOK
  <2>2. CASE b = r
    <3>1. 1 < k
      BY <1>6, <1>10, <2>2
    <3>2. QED
      BY <1>1, <1>6, <2>2, <3>1 DEF QueueOK
  <2>3. QED
    BY <1>2, <1>5, <2>1, <2>2
<1>11. KeptOK'
  <2>1. mRawBufferMap' \cap free' = {}
    BY <1>1, <1>2, <1>3, <1>5, <1>7 DEF KeptOK
  <2>2. \A t \in Coming' : t.raw \in mRawBufferMap' /\ seqOf'[t.raw] = t.seq
    BY <1>1, <1>2, <1>3, <1>4 DEF KeptOK
  <2>3. pt'.raw \in mRawBufferMap'
    BY <1>2, <1>5, <1>6
  <2>4. QED
    BY <1>2, <1>6, <1>9, <1>10, <2>1, <2>2, <2>3 DEF KeptOK, Runs
<1>12. QueueOK' /\ OwnOK'
  BY <1>1, <1>2, <1>3 DEF QueueOK, OwnOK
<1>13. \A s : Adding(s)' = Adding(s)
  BY <1>2, <1>6 DEF Adding
<1>14. QED
  BY <1>1, <1>2, <1>4, <1>11, <1>12, <1>13 DEF FlightInv, ExactOK

LEMMA ChooseFlies ==
    ASSUME NoFakes, UnitTypeOK, CoverInv, FlightInv,
           ProcessNewFrame \/ NothingToPrepare \/ SaveRawBuffer \/ TrimRawBuffers \/ ExecuteNode
    PROVE  FlightInv'
<1>1. CASE SaveRawBuffer
  BY <1>1, SaveFlies
<1>2. CASE TrimRawBuffers
  <2>1. /\ UNCHANGED <<scenario, seqOf, lastSeq, mInputQueue, mSequencesInflight, requests,
                       mOngoingTasks, poll>>
        /\ pt.pc = "trim" /\ pt' = [pt EXCEPT !.pc = "pop"] /\ ReturnRawBuffer
    BY <1>2 DEF TrimRawBuffers, asked, pipes
  <2>2. QED
    BY <2>1, TrimFlies
<1>3. CASE NothingToPrepare \/ ExecuteNode
  <2>1. UNCHANGED <<scenario, seqOf, lastSeq, free, mRawBufferMap, mInputQueue,
                    mSequencesInflight, requests, mOngoingTasks, poll>>
    BY <1>3 DEF NothingToPrepare, ExecuteNode, producer, asked, pipes
  <2>2. pt.pc # "add" /\ pt'.pc \in {"wait", "execute"}
    BY <1>3 DEF NothingToPrepare, ExecuteNode, Idle, UnitTypeOK, PtTypeOK
  <2>3. QED
    BY <2>1, <2>2, FlightElsewhere DEF Runs
<1>4. CASE ProcessNewFrame
  <2>1. /\ UNCHANGED <<scenario, seqOf, lastSeq, free, mRawBufferMap, mInputQueue,
                       mSequencesInflight, requests, mOngoingTasks, poll>>
        /\ pt.pc = "wait"
    BY <1>4 DEF ProcessNewFrame, producer, asked, pipes
  <2>2. /\ scenario.zsl => pt'.pc = "save"
        /\ ~scenario.zsl => pt'.pc = "pop"
    BY <1>4 DEF ProcessNewFrame, Idle
  <2>3. CASE scenario.zsl
    BY <2>1, <2>2, <2>3, FlightElsewhere DEF Runs
  <2>4. CASE ~scenario.zsl
    <3>1. /\ Coming' = Coming
          /\ \A c : Claims(c)' = Claims(c)
          /\ \A s : Flying(s)' = Flying(s)
          /\ EndTypeOK'
      BY <2>1, SameTasks DEF FlightInv
    <3>2. \A b : InQueue(b)' = InQueue(b)
      BY <2>1 DEF InQueue
    <3>3. OwnOK'
      <4>1. \A c \in Raws : Claims(c)' = Claims(c) /\ InQueue(c)' = InQueue(c)
        BY <3>1, <3>2
      <4>2. QED
        BY <2>1, <2>2, <2>4, <4>1 DEF FlightInv, OwnOK, Runs
    <3>4. \A s : Adding(s)' = Adding(s)
      BY <2>1, <2>2, <2>4 DEF Adding
    <3>5. QED
      BY <2>1, <2>4, <3>1, <3>3, <3>4 DEF FlightInv, QueueOK, KeptOK, ExactOK
  <2>5. QED
    BY <2>3, <2>4
<1>5. QED
  BY <1>1, <1>2, <1>3, <1>4

LEMMA NoFakeJobs ==
    ASSUME TnrFrames <= 1, NEW dst, NEW s \in Int
    PROVE  TnrJobs(dst, s) = <<>>
<1> DEFINE first == IF s < TnrFrames - 1 THEN 0 ELSE s - (TnrFrames - 1)
<1>1. TnrFrames = 0 \/ TnrFrames = 1
  BY ProcessingAssumption
<1>2. CASE TnrFrames = 0
  BY <1>2 DEF TnrJobs
<1>3. CASE TnrFrames = 1
  <2>1. first \in Int /\ 1 .. (s - first) = 1 .. 0
    BY <1>3
  <2>2. TnrJobs(dst, s) = <<>>
        \/ TnrJobs(dst, s) = [i \in 1 .. (s - first) |-> Job("fake", first + i - 1, Only(StillPorts, dst))]
    BY DEF TnrJobs
  <2> HIDE DEF first
  <2>3. [i \in 1 .. (s - first) |-> Job("fake", first + i - 1, Only(StillPorts, dst))] = <<>>
    BY <2>1
  <2>4. QED
    BY <2>2, <2>3
<1>4. QED
  BY <1>1, <1>2, <1>3

LEMMA PrepareFlies ==
    ASSUME NoFakes, UnitTypeOK, CoverInv, FlightInv, PrepareTask
    PROVE  FlightInv'
<1> DEFINE s    == seqOf[pt.raw]
           set  == Setting(pt.dst)
           hold == NeedHoldOnInputFrame(set, s)
           run  == NeedExecutePipe(set, s)
           z    == Reprocessed(pt.dst)
           at   == IF z >= 0 THEN z ELSE s
           main == Job("main", s, pt.dst)
           zsl  == IF z >= 0 THEN <<Job("zsl", z, Only(StillPorts, pt.dst))>> ELSE <<>>
<1>1. /\ UNCHANGED <<scenario, requests, seqOf, lastSeq, mRawBufferMap, mOngoingTasks, poll,
                     mSequencesInflight>>
      /\ pt.pc = "pop" /\ pt.raw \in Raws /\ pt.dst \in Asked
      /\ mInputQueue' = IF ~hold /\ z = -1 THEN Tail(mInputQueue) ELSE mInputQueue
      /\ free' = IF ~run /\ ~hold /\ pt.raw \notin mRawBufferMap
                 THEN free \cup {pt.raw} ELSE free
  BY DEF PrepareTask, asked, pipes, UnitTypeOK, PtTypeOK, Chooses
<1>2. /\ pt'.raw = pt.raw /\ pt'.dst = pt.dst /\ pt'.src = pt.src
      /\ pt'.pc = (IF run THEN "fetch" ELSE "execute")
  BY PrepareTypes
<1>3. run => pt'.todo = TnrJobs(pt.dst, at) \o zsl \o <<main>>
  BY DEF PrepareTask, UnitTypeOK, PtTypeOK
<1>4. /\ RawTypeOK /\ QueueOK /\ OwnOK /\ KeptOK /\ scenario \in Scenarios /\ EndTypeOK
      /\ ExactOK
  BY DEF UnitTypeOK, FlightInv
<1>5. PICK r : r = pt.raw
  OBVIOUS
<1>6. PICK n \in Nat : n = Len(mInputQueue)
  BY <1>4 DEF RawTypeOK
<1>7. /\ mInputQueue \in Seq(Raws) /\ mInputQueue # <<>> /\ mInputQueue[1] = r /\ n >= 1
  BY <1>1, <1>5, <1>6 DEF UnitTypeOK, RawTypeOK, FrontOK, Chooses
<1>8. PICK d \in {0, 1} : d = IF ~hold /\ z = -1 THEN 1 ELSE 0
  OBVIOUS
<1>9. /\ Len(mInputQueue') = n - d
      /\ \A k \in 1 .. n - d : k + d \in 1 .. n /\ mInputQueue'[k] = mInputQueue[k + d]
  <2>1. CASE ~hold /\ z = -1
    <3>1. mInputQueue' = Tail(mInputQueue) /\ d = 1
      BY <1>1, <1>8, <2>1
    <3>2. Len(Tail(mInputQueue)) = n - 1
          /\ \A k \in 1 .. n - 1 : Tail(mInputQueue)[k] = mInputQueue[k + 1]
      BY <1>6, <1>7
    <3>3. QED
      BY <1>7, <3>1, <3>2
  <2>2. CASE ~(~hold /\ z = -1)
    <3>1. mInputQueue' = mInputQueue /\ d = 0
      BY <1>1, <1>8, <2>2
    <3>2. QED
      BY <1>6, <3>1
  <2>3. QED
    BY <2>1, <2>2
<1>10. ASSUME NEW k \in 2 .. n PROVE mInputQueue[k] # r
  <2>1. 1 \in 1 .. n /\ k \in 1 .. n /\ 1 < k
    BY <1>7
  <2>2. seqOf[mInputQueue[1]] < seqOf[mInputQueue[k]]
    BY <1>4, <1>6, <2>1 DEF QueueOK
  <2>3. seqOf[r] \in Int
    BY <1>1, <1>4, <1>5 DEF RawTypeOK, Seqs
  <2>4. QED
    BY <1>7, <2>2, <2>3
<1>11. r \notin free /\ s \in Seqs /\ r \in Raws
  BY <1>1, <1>4, <1>5, <1>6, <1>7 DEF QueueOK
<1>12. z \in Int /\ (z # -1 => scenario.zsl)
  BY <1>1, ReprocessedTyped DEF UnitTypeOK
<1>13. free' = free \/ (~scenario.zsl /\ ~run /\ ~hold /\ d = 1 /\ free' = free \cup {r})
  <2>1. CASE scenario.zsl
    <3>1. pt.raw \in mRawBufferMap
      BY <1>1, <1>4, <2>1 DEF KeptOK
    <3>2. QED
      BY <1>1, <3>1
  <2>2. CASE ~scenario.zsl
    BY <1>1, <1>5, <1>8, <1>12, <2>2
  <2>3. QED
    BY <2>1, <2>2
<1>14. QueueOK'
  <2>1. \A k \in 1 .. n - d : mInputQueue'[k] \notin free'
    <3> SUFFICES ASSUME NEW k \in 1 .. n - d PROVE mInputQueue'[k] \notin free'
      OBVIOUS
    <3>1. mInputQueue'[k] \notin free
      BY <1>4, <1>6, <1>9 DEF QueueOK
    <3>2. d = 1 => mInputQueue'[k] # r
      <4>1. d = 1 => k + d \in 2 .. n
        BY <1>9
      <4>2. QED
        BY <1>9, <1>10, <4>1
    <3>3. QED
      BY <1>13, <3>1, <3>2
  <2>2. ASSUME NEW j \in 1 .. n - d, NEW k \in 1 .. n - d, j < k
        PROVE  seqOf[mInputQueue'[j]] < seqOf[mInputQueue'[k]]
    <3>1. j + d \in 1 .. n /\ k + d \in 1 .. n /\ j + d < k + d
      BY <1>9, <2>2
    <3>2. seqOf[mInputQueue[j + d]] < seqOf[mInputQueue[k + d]]
      BY <1>4, <1>6, <3>1 DEF QueueOK
    <3>3. QED
      BY <1>9, <3>2
  <2>3. \A b \in Raws \ free' : seqOf[b] \in Seqs
    BY <1>4, <1>13 DEF QueueOK
  <2>4. QED
    BY <1>1, <1>4, <1>9, <2>1, <2>2, <2>3 DEF QueueOK
<1>15. \A b : InQueue(b)' => InQueue(b) /\ (b = r => d = 0)
  <2> SUFFICES ASSUME NEW b, NEW k \in 1 .. n - d, mInputQueue'[k] = b
               PROVE  InQueue(b) /\ (b = r => d = 0)
    BY <1>9 DEF InQueue
  <2>1. k + d \in 1 .. n /\ mInputQueue[k + d] = b
    BY <1>9
  <2>2. d = 1 => k + d \in 2 .. n
    BY <2>1
  <2>3. QED
    BY <1>6, <1>10, <2>1, <2>2 DEF InQueue
<1>16. /\ Coming' = Coming
       /\ \A c : Claims(c)' = Claims(c)
       /\ \A q : Flying(q)' = Flying(q)
       /\ EndTypeOK'
  BY <1>1, <1>4, SameTasks
<1>17. InQueue(r)
  BY <1>6, <1>7 DEF InQueue
<1>18. ExactOK'
  <2>1. \A q : Adding(q)' = Adding(q)
    BY <1>1, <1>2 DEF Adding
  <2>2. QED
    BY <1>1, <1>4, <1>16, <2>1 DEF ExactOK
<1>19. OwnOK'
  <2> SUFFICES ASSUME ~scenario.zsl PROVE OwnOK'
    BY <1>1 DEF OwnOK
  <2>1. Claims(r) = 0
    BY <1>4, <1>11, <1>17 DEF OwnOK
  <2>2. run => r \notin free' /\ Claims(r)' = 0 /\ (InQueue(r)' => hold)
    <3>1. run => r \notin free'
      BY <1>11, <1>13
    <3>2. InQueue(r)' => hold
      BY <1>8, <1>12, <1>15
    <3>3. QED
      BY <1>16, <2>1, <3>1, <3>2
  <2>3. Hold(pt.dst, seqOf[pt.raw])' = hold
    BY <1>1, <1>2 DEF Hold, NeedHoldOnInputFrame, Setting
  <2>4. InQueue(pt.raw)' = InQueue(r)' /\ Claims(pt.raw)' = Claims(r)'
    BY <1>2, <1>5 DEF InQueue, Claims, ClaimsOf
  <2>5. ASSUME NEW b \in Raws, Claims(b)' # 0
        PROVE  Claims(b)' = 1 /\ b \notin free' /\ ~InQueue(b)'
    <3>1. Claims(b) = 1 /\ b \notin free /\ ~InQueue(b)
      BY <1>4, <1>16, <2>5 DEF OwnOK
    <3>2. b # r
      BY <1>17, <3>1
    <3>3. QED
      BY <1>13, <1>15, <1>16, <3>1, <3>2
  <2>6. mRawBufferMap' = {}
    BY <1>1, <1>4 DEF OwnOK
  <2>7. QED
    BY <1>1, <1>2, <1>5, <2>2, <2>3, <2>4, <2>5, <2>6 DEF OwnOK, Runs
<1>20. KeptOK'
  <2> SUFFICES ASSUME scenario.zsl PROVE KeptOK'
    BY <1>1 DEF KeptOK
  <2>1. r \in mRawBufferMap /\ Newest(r)
    BY <1>1, <1>4, <1>5 DEF KeptOK, Newest
  <2>2. Newest(pt.raw)'
    BY <1>1, <1>2, <1>5, <2>1 DEF Newest
  <2>3. run => \A k \in 1 .. Len(pt'.todo) : pt'.todo[k].kind # "fake"
    <3> SUFFICES ASSUME run PROVE \A k \in 1 .. Len(pt'.todo) : pt'.todo[k].kind # "fake"
      OBVIOUS
    <3>1. TnrFrames <= 1
      BY <1>4 DEF NoFakes
    <3>2. at \in Int
      BY <1>11, <1>12 DEF Seqs
    <3>3. TnrJobs(pt.dst, at) = <<>>
      BY <3>1, <3>2, NoFakeJobs
    <3>4. pt'.todo = <<>> \o zsl \o <<main>>
      BY <1>3, <3>3
    <3>5. CASE z >= 0
      <4> DEFINE x == Job("zsl", z, Only(StillPorts, pt.dst))
      <4>1. pt'.todo = <<>> \o <<x>> \o <<main>>
        BY <3>4, <3>5
      <4>2. x.kind = "zsl" /\ main.kind = "main"
        BY DEF Job
      <4> HIDE DEF x, main
      <4>3. Len(pt'.todo) = 2 /\ pt'.todo[1] = x /\ pt'.todo[2] = main
        BY <4>1
      <4>4. QED
        BY <4>2, <4>3
    <3>6. CASE ~(z >= 0)
      <4>1. pt'.todo = <<>> \o <<>> \o <<main>>
        BY <3>4, <3>6
      <4>2. main.kind = "main"
        BY DEF Job
      <4> HIDE DEF main
      <4>3. pt'.todo = <<main>>
        BY <4>1
      <4>4. QED
        BY <4>2, <4>3
    <3>7. QED
      BY <3>5, <3>6
  <2>4. ASSUME NEW b \in mRawBufferMap, NEW k \in 1 .. n - d, b # mInputQueue'[k]
        PROVE  seqOf[b] < seqOf[mInputQueue'[k]]
    BY <1>4, <1>6, <1>9, <2>4 DEF KeptOK
  <2>5. mRawBufferMap \cap free' = {}
    BY <1>4, <1>13 DEF KeptOK
  <2>6. \A t \in Coming' : t.raw \in mRawBufferMap /\ seqOf[t.raw] = t.seq
    BY <1>4, <1>16 DEF KeptOK
  <2>7. QED
    BY <1>1, <1>2, <1>5, <1>9, <2>1, <2>2, <2>3, <2>4, <2>5, <2>6 DEF KeptOK, Runs
<1>21. QED
  BY <1>1, <1>4, <1>14, <1>16, <1>18, <1>19, <1>20 DEF FlightInv

LEMMA InsertTyped ==
    ASSUME mSequencesInflight \in [Seqs -> Int], NEW q
    PROVE  /\ Insert(q) \in [Seqs -> Int] /\ Erase(q) \in [Seqs -> Int]
           /\ \A s \in Seqs : /\ Insert(q)[s] = mSequencesInflight[s] + IF s = q THEN 1 ELSE 0
                             /\ Erase(q)[s] = mSequencesInflight[s] - IF s = q THEN 1 ELSE 0
<1>1. CASE q \in Seqs
  <2>1. mSequencesInflight[q] + 1 \in Int /\ mSequencesInflight[q] - 1 \in Int
    BY <1>1
  <2>2. QED
    BY <1>1, <2>1 DEF Insert, Erase
<1>2. CASE q \notin Seqs
  <2>1. Insert(q) = mSequencesInflight /\ Erase(q) = mSequencesInflight
    BY <1>2 DEF Insert, Erase
  <2>2. QED
    BY <1>2, <2>1
<1>3. QED
  BY <1>1, <1>2

(* What fetchSource decides.                                               *)
LEMMA FetchFinds ==
    ASSUME UnitTypeOK, FetchSource
    PROVE  /\ pt.pc = "fetch"
           /\ \/ /\ pt' = [pt EXCEPT !.todo = Tail(@)]
                 /\ UNCHANGED mSequencesInflight
              \/ /\ Head(pt.todo).kind = "zsl"
                 /\ mSequencesInflight' = Insert(Head(pt.todo).seq)
                 /\ \E b \in mRawBufferMap :
                      /\ seqOf[b] = Head(pt.todo).seq
                      /\ pt' = [pt EXCEPT !.pc = "add", !.src = b,
                                          !.todo = <<Head(pt.todo)>> \o Rest(Tail(pt.todo))]
              \/ /\ Head(pt.todo).kind # "zsl"
                 /\ Head(pt.todo).kind # "main" => mRawBufferMap # {}
                 /\ \E b \in Raws :
                      /\ Head(pt.todo).kind = "main" => b = pt.raw
                      /\ pt' = [pt EXCEPT !.pc = "dispatch", !.src = b]
                 /\ UNCHANGED mSequencesInflight
<1> DEFINE job   == Head(pt.todo)
           found == job.kind = "main" \/ Kept(job.seq) # {}
           src   == IF job.kind = "main" THEN pt.raw ELSE CHOOSE b \in Kept(job.seq) : TRUE
<1>1. pt.pc = "fetch"
  BY DEF FetchSource
<1>2. pt.raw \in Raws /\ mRawBufferMap \subseteq Raws
  BY <1>1 DEF UnitTypeOK, PtTypeOK, RawTypeOK, Runs
<1>3. PICK x : x = src
  OBVIOUS
<1>4. /\ job.kind = "main" => x = pt.raw
      /\ found /\ job.kind # "main" => x \in mRawBufferMap /\ seqOf[x] = job.seq
  <2>1. ASSUME found, job.kind # "main" PROVE x \in Kept(job.seq)
    <3>1. Kept(job.seq) # {} /\ x = CHOOSE b \in Kept(job.seq) : TRUE
      BY <1>3, <2>1
    <3>2. QED
      BY <3>1
  <2>2. QED
    BY <1>3, <2>1 DEF Kept
<1>5. CASE ~found
  BY <1>1, <1>5 DEF FetchSource
<1>6. CASE found /\ job.kind = "zsl"
  <2>1. /\ pt' = [pt EXCEPT !.pc = "add", !.src = x,
                              !.todo = <<Head(pt.todo)>> \o Rest(Tail(pt.todo))]
        /\ mSequencesInflight' = Insert(job.seq)
    BY <1>3, <1>6 DEF FetchSource
  <2>2. x \in mRawBufferMap /\ seqOf[x] = job.seq
    BY <1>4, <1>6
  <2>3. QED
    BY <1>1, <1>6, <2>1, <2>2
<1>7. CASE found /\ job.kind # "zsl"
  <2>1. /\ pt' = [pt EXCEPT !.pc = "dispatch", !.src = x]
        /\ UNCHANGED mSequencesInflight
    BY <1>3, <1>7 DEF FetchSource
  <2>2. x \in Raws /\ (job.kind = "main" => x = pt.raw) /\ (job.kind # "main" => mRawBufferMap # {})
    BY <1>2, <1>4, <1>7
  <2>3. QED
    BY <1>1, <1>7, <2>1, <2>2
<1>8. QED
  BY <1>5, <1>6, <1>7

(* The process thread takes the next step with the tasks of a frame.       *)
LEMMA RunFlies ==
    ASSUME UnitTypeOK, FlightInv,
           UNCHANGED <<scenario, seqOf, lastSeq, free, mRawBufferMap, mInputQueue, requests,
                       mOngoingTasks, poll>>,
           pt.pc \in Runs, pt'.pc \in Runs, pt'.raw = pt.raw, pt'.dst = pt.dst,
           pt'.pc = "dispatch" => Head(pt'.todo).kind = "main",
           ~scenario.zsl /\ pt'.pc = "add" => Head(pt'.todo).kind = "main",
           scenario.zsl => \A k \in 1 .. Len(pt'.todo) : pt'.todo[k].kind # "fake",
           scenario.zsl /\ pt'.pc \in {"dispatch", "add"} => pt'.src \in mRawBufferMap,
           ExactOK'
    PROVE  FlightInv'
<1>1. /\ RawTypeOK /\ QueueOK /\ OwnOK /\ KeptOK /\ scenario \in Scenarios /\ EndTypeOK
  BY DEF UnitTypeOK, FlightInv
<1>2. /\ Coming' = Coming
      /\ \A c : Claims(c)' = Claims(c)
      /\ EndTypeOK'
  BY <1>1, SameTasks
<1>3. PICK r : r = pt.raw
  OBVIOUS
<1>4. /\ InQueue(pt.raw)' = InQueue(pt.raw) /\ Newest(pt.raw)' = Newest(pt.raw)
      /\ Claims(pt.raw)' = Claims(pt.raw)
  <2>1. Claims(r)' = Claims(r)
    BY <1>2
  <2>2. Claims(pt.raw)' = Claims(r)' /\ Claims(pt.raw) = Claims(r)
    BY <1>3 DEF Claims, ClaimsOf
  <2>3. QED
    BY <2>1, <2>2 DEF InQueue, Newest
<1>5. Hold(pt.dst, seqOf[pt.raw])' = Hold(pt.dst, seqOf[pt.raw])
  BY DEF Hold, NeedHoldOnInputFrame, Setting
<1>6. \A c \in Raws : Claims(c)' = Claims(c) /\ InQueue(c)' = InQueue(c)
  BY <1>2 DEF InQueue
<1>7. OwnOK'
  BY <1>1, <1>4, <1>5, <1>6 DEF OwnOK, Runs
<1>8. KeptOK'
  BY <1>1, <1>2, <1>4 DEF KeptOK, Runs
<1>9. QueueOK'
  BY <1>1 DEF QueueOK
<1>10. QED
  BY <1>1, <1>2, <1>7, <1>8, <1>9 DEF FlightInv

LEMMA FetchFlies ==
    ASSUME UnitTypeOK, CoverInv, FlightInv, FetchSource
    PROVE  FlightInv'
<1>1. UNCHANGED <<scenario, seqOf, lastSeq, free, mRawBufferMap, mInputQueue, requests,
                  mOngoingTasks, poll>>
  BY DEF FetchSource, producer, asked, pipes
<1>2. /\ RawTypeOK /\ PtTypeOK /\ QueueOK /\ OwnOK /\ KeptOK /\ EndTypeOK /\ ExactOK /\ UnitTypeOK'
  BY FetchTypes DEF UnitTypeOK, FlightInv
<1>3. /\ pt.pc = "fetch" /\ pt.todo \in Seq(Jobs) /\ Len(pt.todo) >= 1
      /\ Head(pt.todo) = pt.todo[1]
      /\ Tail(pt.todo) \in Seq(Jobs) /\ Len(Tail(pt.todo)) = Len(pt.todo) - 1
      /\ \A k \in 1 .. Len(pt.todo) - 1 : Tail(pt.todo)[k] = pt.todo[k + 1]
  BY TodoTail, FetchFinds DEF Runs
<1>4. PICK n \in Nat : n = Len(pt.todo) /\ n >= 1
  BY <1>3
<1>5. scenario.zsl => pt.raw \in mRawBufferMap /\ \A k \in 1 .. n : pt.todo[k].kind # "fake"
  BY <1>2, <1>3, <1>4 DEF KeptOK, Runs
<1>6. \A s : Flying(s)' = Flying(s) /\ Adding(s) = 0
  BY <1>1, <1>2, <1>3, SameTasks DEF Adding
<1>7. CASE pt' = [pt EXCEPT !.todo = Tail(@)] /\ UNCHANGED mSequencesInflight
  <2>1. pt'.pc = "fetch" /\ pt'.raw = pt.raw /\ pt'.dst = pt.dst /\ pt'.todo = Tail(pt.todo)
    BY <1>2, <1>3, <1>7 DEF PtTypeOK
  <2>2. scenario.zsl => \A k \in 1 .. Len(pt'.todo) : pt'.todo[k].kind # "fake"
    <3> SUFFICES ASSUME scenario.zsl, NEW k \in 1 .. n - 1 PROVE pt'.todo[k].kind # "fake"
      BY <1>3, <1>4, <2>1
    <3>1. k + 1 \in 1 .. n
      OBVIOUS
    <3>2. QED
      BY <1>3, <1>4, <1>5, <2>1, <3>1
  <2>3. ExactOK'
    BY <1>2, <1>6, <1>7, <2>1 DEF ExactOK, Adding
  <2>4. QED
    BY <1>1, <1>2, <1>3, <2>1, <2>2, <2>3, RunFlies DEF Runs
<1>8. ASSUME Head(pt.todo).kind # "zsl", Head(pt.todo).kind # "main" => mRawBufferMap # {},
             NEW b \in Raws, Head(pt.todo).kind = "main" => b = pt.raw,
             pt' = [pt EXCEPT !.pc = "dispatch", !.src = b], UNCHANGED mSequencesInflight
      PROVE  FlightInv'
  <2>1. /\ pt'.pc = "dispatch" /\ pt'.raw = pt.raw /\ pt'.dst = pt.dst /\ pt'.todo = pt.todo
        /\ pt'.src = b
    BY <1>2, <1>8 DEF PtTypeOK
  <2>2. Head(pt.todo).kind = "main"
    <3>1. Head(pt.todo) \in Jobs
      BY <1>3, TodoTail DEF Runs
    <3>2. Head(pt.todo).kind \in {"main", "zsl", "fake"}
      BY <3>1 DEF Jobs
    <3>3. CASE scenario.zsl
      <4>1. Head(pt.todo).kind # "fake"
        BY <1>3, <1>4, <1>5, <3>3
      <4>2. QED
        BY <1>8, <3>2, <4>1
    <3>4. CASE ~scenario.zsl
      BY <1>2, <1>8, <3>4 DEF OwnOK
    <3>5. QED
      BY <3>3, <3>4
  <2>3. scenario.zsl => b \in mRawBufferMap
    BY <1>5, <1>8, <2>2
  <2>4. ExactOK'
    BY <1>2, <1>6, <1>8, <2>1 DEF ExactOK, Adding
  <2>5. scenario.zsl => \A k \in 1 .. Len(pt'.todo) : pt'.todo[k].kind # "fake"
    BY <1>4, <1>5, <2>1
  <2>6. QED
    BY <1>1, <1>2, <1>3, <2>1, <2>2, <2>3, <2>4, <2>5, RunFlies DEF Runs
<1>9. ASSUME Head(pt.todo).kind = "zsl", mSequencesInflight' = Insert(Head(pt.todo).seq),
             NEW b \in mRawBufferMap, seqOf[b] = Head(pt.todo).seq,
             pt' = [pt EXCEPT !.pc = "add", !.src = b,
                              !.todo = <<Head(pt.todo)>> \o Rest(Tail(pt.todo))]
      PROVE  FlightInv'
  <2>1. /\ pt'.pc = "add" /\ pt'.raw = pt.raw /\ pt'.dst = pt.dst /\ pt'.src = b
        /\ pt'.todo = <<Head(pt.todo)>> \o Rest(Tail(pt.todo))
    BY <1>2, <1>9 DEF PtTypeOK
  <2>2. scenario.zsl
    BY <1>2, <1>9 DEF OwnOK
  <2>3. \A k \in 1 .. Len(pt'.todo) : pt'.todo[k].kind # "fake"
    <3>1. PICK t : t = pt'.todo
      OBVIOUS
    <3>2. PICK x : x = Head(pt.todo)
      OBVIOUS
    <3>3. x.kind # "fake"
      BY <1>9, <3>2
    <3>4. CASE Rest(Tail(pt.todo)) = <<>>
      <4>1. t = <<x>> \o <<>>
        BY <2>1, <3>1, <3>2, <3>4
      <4>2. Len(t) = 1 /\ t[1] = x
        BY <4>1
      <4>3. QED
        BY <3>1, <3>3, <4>2
    <3>5. CASE Rest(Tail(pt.todo)) # <<>>
      <4>1. PICK rest : Rest(Tail(pt.todo)) = <<[Head(Tail(pt.todo)) EXCEPT !.dst = rest]>>
        BY <3>5 DEF Rest
      <4>2. PICK y : y = [Head(Tail(pt.todo)) EXCEPT !.dst = rest]
        OBVIOUS
      <4>3. t = <<x>> \o <<y>>
        BY <2>1, <3>1, <3>2, <4>1, <4>2
      <4>4. Len(t) = 2 /\ t[1] = x /\ t[2] = y
        BY <4>3
      <4>5. y.kind # "fake"
        <5>1. UnitTypeOK' /\ pt'.pc \in Runs
          BY <1>2, <2>1 DEF Runs
        <5>2. \A k \in 1 .. Len(pt'.todo) : pt'.todo[k].kind = "fake" => k < Len(pt'.todo)
          BY <5>1 DEF UnitTypeOK, TodoOK
        <5>3. QED
          BY <3>1, <4>4, <5>2
      <4>6. QED
        BY <3>1, <3>3, <4>4, <4>5
    <3>6. QED
      BY <3>4, <3>5
  <2>4. ExactOK'
    <3>1. PICK q : q = seqOf[b]
      OBVIOUS
    <3>2. \A s : Adding(s)' = IF q = s THEN 1 ELSE 0
      BY <1>1, <2>1, <3>1 DEF Adding
    <3>3. \A s : Flying(s) \in Nat
      BY CountsTyped
    <3>4. \A s \in Seqs : mSequencesInflight[s] = Flying(s) /\ mSequencesInflight[s] \in Int
      <4>1. \A s \in Seqs : mSequencesInflight[s] = Flying(s) + Adding(s)
        BY <1>2 DEF ExactOK
      <4>2. QED
        BY <1>6, <3>3, <4>1
    <3>5. mSequencesInflight \in [Seqs -> Int]
      BY <1>2 DEF ExactOK
    <3>6. \A s \in Seqs : mSequencesInflight'[s] = mSequencesInflight[s] + IF s = q THEN 1 ELSE 0
      BY <1>9, <3>1, <3>5, InsertTyped
    <3>7. mSequencesInflight' \in [Seqs -> Int]
      BY <1>9, <3>5, InsertTyped
    <3>8. QED
      BY <1>6, <3>2, <3>3, <3>4, <3>6, <3>7 DEF ExactOK
  <2>5. QED
    BY <1>1, <1>2, <1>3, <1>9, <2>1, <2>2, <2>3, <2>4, RunFlies DEF Runs
<1>10. QED
  BY <1>7, <1>8, <1>9, FetchFinds

LEMMA DispatchFlies ==
    ASSUME UnitTypeOK, CoverInv, FlightInv, DispatchTask
    PROVE  FlightInv'
<1>1. /\ UNCHANGED <<scenario, seqOf, lastSeq, free, mRawBufferMap, mInputQueue, requests,
                     mOngoingTasks, poll>>
      /\ mSequencesInflight' = Insert(seqOf[pt.src])
  BY DEF DispatchTask, producer, asked, pipes
<1>2. /\ RawTypeOK /\ PtTypeOK /\ QueueOK /\ OwnOK /\ KeptOK /\ EndTypeOK /\ ExactOK
      /\ pt' = [pt EXCEPT !.pc = "add"] /\ pt.pc = "dispatch"
  BY DispatchTypes DEF UnitTypeOK, FlightInv
<1>3. /\ pt'.pc = "add" /\ pt'.raw = pt.raw /\ pt'.dst = pt.dst /\ pt'.src = pt.src
      /\ pt'.todo = pt.todo
  BY <1>2 DEF PtTypeOK
<1>4. ExactOK'
  <2>1. PICK q : q = seqOf[pt.src]
    OBVIOUS
  <2>2. \A s : Adding(s)' = IF q = s THEN 1 ELSE 0
    BY <1>1, <1>3, <2>1 DEF Adding
  <2>3. \A s : Flying(s) \in Nat
    BY CountsTyped
  <2>4. \A s : Flying(s)' = Flying(s) /\ Adding(s) = 0
    BY <1>1, <1>2, SameTasks DEF Adding
  <2>5. \A s \in Seqs : mSequencesInflight[s] = Flying(s) + Adding(s)
    BY <1>2 DEF ExactOK
  <2>6. mSequencesInflight \in [Seqs -> Int]
    BY <1>2 DEF ExactOK
  <2>7. \A s \in Seqs : mSequencesInflight'[s] = mSequencesInflight[s] + IF s = q THEN 1 ELSE 0
    BY <1>1, <2>1, <2>6, InsertTyped
  <2>8. mSequencesInflight' \in [Seqs -> Int]
    BY <1>1, <2>6, InsertTyped
  <2>9. QED
    BY <2>2, <2>3, <2>4, <2>5, <2>7, <2>8 DEF ExactOK
<1>5. /\ scenario.zsl => \A k \in 1 .. Len(pt'.todo) : pt'.todo[k].kind # "fake"
      /\ scenario.zsl => pt'.src \in mRawBufferMap
      /\ ~scenario.zsl => Head(pt'.todo).kind = "main"
  BY <1>2, <1>3 DEF OwnOK, KeptOK, Runs
<1>6. QED
  BY <1>1, <1>2, <1>3, <1>4, <1>5, RunFlies DEF Runs

LEMMA AddCounts ==
    ASSUME UnitTypeOK, AddTask, NEW S
    PROVE  /\ Count(mOngoingTasks, S)' = Count(mOngoingTasks, S) + IF NewTask \in S THEN 1 ELSE 0
           /\ Count(mOngoingTasks, S) \in Nat
           /\ ToSet(mOngoingTasks') \subseteq ToSet(mOngoingTasks) \cup {NewTask}
<1>1. PICK n \in 1 .. Len(mOngoingTasks) + 1 :
        mOngoingTasks' = InsertAt(mOngoingTasks, n, NewTask)
  BY AddExact
<1>2. PICK s : s = mOngoingTasks
  OBVIOUS
<1>3. PICK t : t = mOngoingTasks'
  OBVIOUS
<1>4. PICK e : e = NewTask
  OBVIOUS
<1>5. PICK T : T = Tasks
  OBVIOUS
<1>6. s \in Seq(T) /\ e \in T /\ n \in 1 .. Len(s) + 1 /\ t = InsertAt(s, n, e)
  BY <1>1, <1>2, <1>3, <1>4, <1>5, AddExact DEF UnitTypeOK, TaskTypeOK
<1>7. Count(t, S) = Count(s, S) + IF e \in S THEN 1 ELSE 0
  BY <1>6, CountInserted
<1>8. Count(s, S) \in Nat
  BY <1>6, CountTyped
<1>9. /\ t \in Seq(T) /\ Len(t) = Len(s) + 1 /\ t[n] = e
      /\ \A k \in 1 .. n - 1 : t[k] = s[k]
      /\ \A k \in n .. Len(s) : t[k + 1] = s[k]
  BY <1>6, InsertAtIs
<1>10. ASSUME NEW k \in 1 .. Len(s) + 1 PROVE t[k] = e \/ \E j \in 1 .. Len(s) : t[k] = s[j]
  <2>0. Len(s) \in Nat /\ n \in Int /\ 1 <= n /\ n <= Len(s) + 1
    BY <1>6
  <2>1. CASE k < n
    <3>1. k \in 1 .. n - 1 /\ k \in 1 .. Len(s)
      BY <2>0, <2>1
    <3>2. QED
      BY <1>9, <3>1
  <2>2. CASE k > n
    <3>1. k - 1 \in n .. Len(s) /\ k - 1 \in 1 .. Len(s) /\ k - 1 + 1 = k
      BY <2>0, <2>2
    <3>2. t[k] = s[k - 1]
      BY <1>9, <3>1
    <3>3. QED
      BY <3>1, <3>2
  <2>3. QED
    BY <1>9, <2>0, <2>1, <2>2
<1>11. ToSet(t) \subseteq ToSet(s) \cup {e}
  <2>1. DOMAIN t = 1 .. Len(s) + 1 /\ DOMAIN s = 1 .. Len(s)
    BY <1>6, <1>9
  <2>2. QED
    BY <1>10, <2>1 DEF ToSet
<1>12. QED
  BY <1>2, <1>3, <1>4, <1>7, <1>8, <1>11 DEF Count

LEMMA AddFlies ==
    ASSUME UnitTypeOK, CoverInv, FlightInv, AddTask
    PROVE  FlightInv'
<1>1. UNCHANGED <<scenario, seqOf, lastSeq, free, mRawBufferMap, mInputQueue, requests, poll,
                  mSequencesInflight>>
  BY DEF AddTask, producer, asked, pipes
<1>2. /\ RawTypeOK /\ PtTypeOK /\ QueueOK /\ OwnOK /\ KeptOK /\ EndTypeOK /\ ExactOK
      /\ scenario \in Scenarios /\ TodoOK /\ MainWritesAll /\ SourceOK
  BY DEF UnitTypeOK, FlightInv, CoverInv
<1>3. /\ pt.pc = "add"
      /\ pt'.raw = pt.raw /\ pt'.dst = pt.dst /\ pt'.todo = Tail(pt.todo) /\ pt'.src = None
      /\ pt'.pc = IF Len(pt.todo) = 1 THEN "execute" ELSE "fetch"
  BY AddTypes DEF AddTask
<1>4. /\ pt.todo \in Seq(Jobs) /\ Len(pt.todo) >= 1
      /\ Head(pt.todo) = pt.todo[1]
      /\ Len(Tail(pt.todo)) = Len(pt.todo) - 1
      /\ \A k \in 1 .. Len(pt.todo) - 1 : Tail(pt.todo)[k] = pt.todo[k + 1]
  BY <1>3, TodoTail DEF Runs
<1>5. PICK e : e = NewTask
  OBVIOUS
<1>6. e \in Tasks /\ e.raw = pt.src /\ e.seq = seqOf[pt.src] /\ e.dst = Head(pt.todo).dst
      /\ e.fake = (Head(pt.todo).kind = "fake")
  <2>1. e \in Tasks
    BY <1>5, AddExact
  <2>2. QED
    BY <1>5, <2>1 DEF NewTask
<1>7. UNCHANGED Tasks
  BY <1>1, SameAsked
<1>8. \A t : Gives(t)' = Gives(t)
  BY <1>1, SameHold DEF Gives
<1>9. ASSUME NEW s PROVE Flying(s)' = Flying(s) + IF e.seq = s THEN 1 ELSE 0
  <2>1. PICK S : S = OfSeq(s)
    OBVIOUS
  <2>2. S = OfSeq(s)'
    BY <1>7, <2>1 DEF OfSeq
  <2>3. /\ Count(mOngoingTasks, S)' = Count(mOngoingTasks, S) + IF e \in S THEN 1 ELSE 0
        /\ Count(mOngoingTasks, S) \in Nat
    BY <1>5, AddCounts
  <2>4. EndedAt(Ending, S)' = EndedAt(Ending, S) /\ EndedAt(Ending, S) \in Nat
    BY <1>1, EndedSame, EndedTyped
  <2>5. e \in S <=> e.seq = s
    BY <1>6, <2>1 DEF OfSeq
  <2>6. Flying(s) = Count(mOngoingTasks, S) + EndedAt(Ending, S)
    BY <2>1 DEF Flying
  <2>7. Flying(s)' = Count(mOngoingTasks, S)' + EndedAt(Ending, S)'
    BY <2>2 DEF Flying
  <2>8. QED
    BY <2>3, <2>4, <2>5, <2>6, <2>7
<1>10. ASSUME NEW b PROVE Claims(b)' = Claims(b) + IF e.raw = b /\ Gives(e) THEN 1 ELSE 0
  <2>1. PICK S : S = ClaimsOf(b)
    OBVIOUS
  <2>2. S = ClaimsOf(b)'
    BY <1>7, <1>8, <2>1 DEF ClaimsOf
  <2>3. /\ Count(mOngoingTasks, S)' = Count(mOngoingTasks, S) + IF e \in S THEN 1 ELSE 0
        /\ Count(mOngoingTasks, S) \in Nat
    BY <1>5, AddCounts
  <2>4. EndedAt({"done"}, S)' = EndedAt({"done"}, S) /\ EndedAt({"done"}, S) \in Nat
    BY <1>1, EndedSame, EndedTyped
  <2>5. e \in S <=> e.raw = b /\ Gives(e)
    BY <1>6, <2>1 DEF ClaimsOf
  <2>6. Claims(b) = Count(mOngoingTasks, S) + EndedAt({"done"}, S)
    BY <2>1 DEF Claims
  <2>7. Claims(b)' = Count(mOngoingTasks, S)' + EndedAt({"done"}, S)'
    BY <2>2 DEF Claims
  <2>8. QED
    BY <2>3, <2>4, <2>5, <2>6, <2>7
<1>11. Coming' \subseteq Coming \cup {e}
  <2>1. ToSet(mOngoingTasks') \subseteq ToSet(mOngoingTasks) \cup {e}
    BY <1>5, AddCounts
  <2>2. Done' = Done
    BY <1>1 DEF Done
  <2>3. QED
    BY <2>1, <2>2 DEF Coming
<1>12. EndTypeOK' /\ QueueOK'
  BY <1>1, <1>2, <1>7 DEF EndTypeOK, QueueOK
<1>13. ExactOK'
  <2>1. \A s : Flying(s) \in Nat
    BY CountsTyped
  <2>2. \A s : Adding(s)' = 0 /\ Adding(s) = IF e.seq = s THEN 1 ELSE 0
    BY <1>3, <1>6 DEF Adding
  <2>3. QED
    BY <1>1, <1>2, <1>9, <2>1, <2>2 DEF ExactOK
<1>14. OwnOK'
  <2> SUFFICES ASSUME ~scenario.zsl PROVE OwnOK'
    BY <1>1 DEF OwnOK
  <2>1. Head(pt.todo).kind = "main" /\ 1 \in 1 .. Len(pt.todo) /\ Len(pt.todo) = 1
    <3>1. Head(pt.todo).kind = "main"
      BY <1>2, <1>3 DEF OwnOK
    <3>2. 1 \in 1 .. Len(pt.todo)
      BY <1>4
    <3>3. QED
      BY <1>2, <1>3, <1>4, <3>1, <3>2 DEF TodoOK, Runs
  <2>2. pt'.pc = "execute"
    BY <1>3, <2>1
  <2>3. PICK r : r = pt.raw
    OBVIOUS
  <2>4. /\ r \notin free /\ Claims(r) = 0
        /\ InQueue(r) => Hold(pt.dst, seqOf[r])
    BY <1>2, <1>3, <2>3 DEF OwnOK, Runs, Claims, ClaimsOf, InQueue
  <2>5. e.raw = r /\ e.seq = seqOf[r] /\ e.dst = pt.dst
    <3>1. pt.src = pt.raw
      BY <1>2, <1>3, <2>1 DEF SourceOK
    <3>2. Head(pt.todo).dst = pt.dst
      BY <1>2, <1>3, <1>4, <2>1 DEF MainWritesAll, Runs
    <3>3. QED
      BY <1>6, <2>3, <3>1, <3>2
  <2>6. Gives(e) => ~InQueue(r)
    BY <2>4, <2>5 DEF Gives
  <2>7. \A b : InQueue(b)' = InQueue(b)
    BY <1>1 DEF InQueue
  <2>8. ASSUME NEW b \in Raws, Claims(b)' # 0
        PROVE  Claims(b)' = 1 /\ b \notin free' /\ ~InQueue(b)'
    <3>1. CASE e.raw = b /\ Gives(e)
      <4>1. b = r
        BY <2>5, <3>1
      <4>2. Claims(b)' = 1
        BY <1>10, <2>4, <3>1, <4>1
      <4>3. QED
        BY <1>1, <2>4, <2>6, <2>7, <3>1, <4>1, <4>2
    <3>2. CASE ~(e.raw = b /\ Gives(e))
      <4>1. Claims(b) \in Nat
        BY CountsTyped
      <4>2. Claims(b)' = Claims(b)
        BY <1>10, <3>2, <4>1
      <4>3. QED
        BY <1>1, <1>2, <2>7, <2>8, <4>2 DEF OwnOK
    <3>3. QED
      BY <3>1, <3>2
  <2>9. QED
    BY <1>1, <1>2, <2>2, <2>8 DEF OwnOK, Runs
<1>15. KeptOK'
  <2> SUFFICES ASSUME scenario.zsl PROVE KeptOK'
    BY <1>1 DEF KeptOK
  <2>1. e.raw \in mRawBufferMap /\ seqOf[e.raw] = e.seq
    BY <1>2, <1>3, <1>6 DEF KeptOK
  <2>2. \A t \in Coming' : t.raw \in mRawBufferMap' /\ seqOf'[t.raw] = t.seq
    BY <1>1, <1>2, <1>11, <2>1 DEF KeptOK
  <2>3. pt.raw \in mRawBufferMap /\ Newest(pt.raw) /\ Newest(pt.raw)' = Newest(pt.raw)
    BY <1>1, <1>2, <1>3 DEF KeptOK, Runs, Newest
  <2>4. \A k \in 1 .. Len(pt'.todo) : pt'.todo[k].kind # "fake"
    <3> SUFFICES ASSUME NEW k \in 1 .. Len(pt.todo) - 1 PROVE pt'.todo[k].kind # "fake"
      BY <1>3, <1>4
    <3>1. k + 1 \in 1 .. Len(pt.todo)
      BY <1>4
    <3>2. QED
      BY <1>2, <1>3, <1>4, <3>1 DEF KeptOK, Runs
  <2>5. pt'.pc \in {"execute", "fetch"}
    BY <1>3
  <2>6. QED
    BY <1>1, <1>2, <1>3, <2>2, <2>3, <2>4, <2>5 DEF KeptOK, Runs
<1>16. QED
  BY <1>1, <1>2, <1>12, <1>13, <1>14, <1>15 DEF FlightInv

LEMMA RemoveAtFrom ==
    ASSUME NEW S, NEW s \in Seq(S), NEW i \in 1 .. Len(s)
    PROVE  ToSet(RemoveAt(s, i)) \subseteq ToSet(s)
<1>0. PICK t : t = RemoveAt(s, i)
  OBVIOUS
<1>1. /\ t \in Seq(S) /\ Len(t) = Len(s) - 1
      /\ \A k \in 1 .. i - 1 : t[k] = s[k]
      /\ \A k \in i .. Len(s) - 1 : t[k] = s[k + 1]
  BY <1>0, RemoveAtIs, SMTT(20)
<1>2. ASSUME NEW k \in 1 .. Len(s) - 1 PROVE \E j \in 1 .. Len(s) : t[k] = s[j]
  <2>1. CASE k < i
    <3>1. k \in 1 .. i - 1 /\ k \in 1 .. Len(s)
      BY <2>1
    <3>2. QED
      BY <1>1, <3>1
  <2>2. CASE k >= i
    <3>1. k \in i .. Len(s) - 1 /\ k + 1 \in 1 .. Len(s)
      BY <2>2
    <3>2. QED
      BY <1>1, <3>1
  <2>3. QED
    BY <2>1, <2>2
<1>3. DOMAIN t = 1 .. Len(s) - 1 /\ DOMAIN s = 1 .. Len(s)
  BY <1>1
<1>4. ToSet(t) \subseteq ToSet(s)
  BY <1>2, <1>3 DEF ToSet
<1>5. QED
  BY <1>0, <1>4

(* Steps of the pipes that leave the raw buffers where they are.           *)
LEMMA PollFlies ==
    ASSUME FlightInv, EndTypeOK', ExactOK',
           UNCHANGED <<scenario, seqOf, lastSeq, free, mRawBufferMap, mInputQueue, requests, pt>>,
           \A t \in Coming' : \E u \in Coming : u.raw = t.raw /\ u.seq = t.seq,
           ~scenario.zsl => \A b : Claims(b)' = Claims(b)
    PROVE  FlightInv'
<1>1. /\ QueueOK /\ OwnOK /\ KeptOK /\ scenario \in Scenarios
  BY DEF FlightInv
<1>2. PICK r : r = pt.raw
  OBVIOUS
<1>3. /\ InQueue(pt.raw)' = InQueue(pt.raw) /\ Newest(pt.raw)' = Newest(pt.raw)
      /\ \A b : InQueue(b)' = InQueue(b)
  BY DEF InQueue, Newest
<1>4. Hold(pt.dst, seqOf[pt.raw])' = Hold(pt.dst, seqOf[pt.raw])
  BY DEF Hold, NeedHoldOnInputFrame, Setting
<1>5. OwnOK'
  <2> SUFFICES ASSUME ~scenario.zsl PROVE OwnOK'
    BY DEF OwnOK
  <2>1. \A c \in Raws : Claims(c)' = Claims(c)
    OBVIOUS
  <2>2. Claims(pt.raw)' = Claims(pt.raw)
    <3>1. Claims(r)' = Claims(r)
      OBVIOUS
    <3>2. Claims(pt.raw)' = Claims(r)' /\ Claims(pt.raw) = Claims(r)
      BY <1>2 DEF Claims, ClaimsOf
    <3>3. QED
      BY <3>1, <3>2
  <2>3. QED
    BY <1>1, <1>3, <1>4, <2>1, <2>2 DEF OwnOK
<1>6. KeptOK'
  BY <1>1, <1>3 DEF KeptOK
<1>7. QueueOK'
  BY <1>1 DEF QueueOK
<1>8. QED
  BY <1>1, <1>5, <1>6, <1>7 DEF FlightInv

LEMMA BufferDoneFlies ==
    ASSUME UnitTypeOK, FlightInv, NEW i \in Pipes, OnBufferDone(i)
    PROVE  FlightInv'
<1>1. UNCHANGED <<scenario, seqOf, lastSeq, free, mRawBufferMap, mInputQueue, requests, pt,
                  mSequencesInflight>>
  BY DEF OnBufferDone, producer, asked
<1>2. TaskTypeOK /\ EndTypeOK /\ ExactOK
  BY DEF UnitTypeOK, FlightInv
<1>3. PICK k \in 1 .. Len(mOngoingTasks) :
        LET task == mOngoingTasks[k] IN
        \/ /\ mOngoingTasks' = RemoveAt(mOngoingTasks, k)
           /\ poll' = [poll EXCEPT ![i] =
                [pc |-> "done", ports |-> poll[i].ports \ {NextPort(i)}, task |-> <<task>>]]
        \/ /\ mOngoingTasks' = [mOngoingTasks EXCEPT ![k].left = @ - 1]
           /\ poll' = [poll EXCEPT ![i].ports = @ \ {NextPort(i)}]
  BY <1>2, TaskDone
<1>4. UNCHANGED Tasks /\ \A t : Gives(t)' = Gives(t)
  BY <1>1, SameAsked, SameHold DEF Gives
<1>5. PICK e : e = mOngoingTasks[k]
  OBVIOUS
<1>6. /\ mOngoingTasks \in Seq(Tasks) /\ e \in Tasks /\ DOMAIN poll = Pipes
      /\ \A j \in Pipes : DOMAIN poll[j] = {"pc", "ports", "task"}
      /\ DOMAIN mOngoingTasks = 1 .. Len(mOngoingTasks)
  BY <1>2, <1>5 DEF TaskTypeOK
<1>7. poll[i].pc = "buffers"
  BY DEF OnBufferDone
<1>8. ASSUME NEW b PROVE Claims(b)' = Claims(b)
  <2>1. PICK S : S = ClaimsOf(b)
    OBVIOUS
  <2>2. S = ClaimsOf(b)'
    BY <1>4, <2>1 DEF ClaimsOf
  <2>3. \A t \in Tasks : [t EXCEPT !.left = @ - 1] \in S <=> t \in S
    BY <2>1, LeftDoesNotCount
  <2>4. Count(mOngoingTasks, S)' + EndedAt({"done"}, S)'
          = Count(mOngoingTasks, S) + EndedAt({"done"}, S)
    BY <1>2, <2>3, BufferDoneSums
  <2>5. Claims(b) = Count(mOngoingTasks, S) + EndedAt({"done"}, S)
    BY <2>1 DEF Claims
  <2>6. Claims(b)' = Count(mOngoingTasks, S)' + EndedAt({"done"}, S)'
    BY <2>2 DEF Claims
  <2>7. QED
    BY <2>4, <2>5, <2>6
<1>9. ASSUME NEW s PROVE Flying(s)' = Flying(s)
  <2>1. PICK S : S = OfSeq(s)
    OBVIOUS
  <2>2. S = OfSeq(s)'
    BY <1>4, <2>1 DEF OfSeq
  <2>3. \A t \in Tasks : [t EXCEPT !.left = @ - 1] \in S <=> t \in S
    BY <2>1, LeftDoesNotCount
  <2>4. Count(mOngoingTasks, S)' + EndedAt(Ending, S)'
          = Count(mOngoingTasks, S) + EndedAt(Ending, S)
    BY <1>2, <2>3, BufferDoneSums
  <2>5. Flying(s) = Count(mOngoingTasks, S) + EndedAt(Ending, S)
    BY <2>1 DEF Flying
  <2>6. Flying(s)' = Count(mOngoingTasks, S)' + EndedAt(Ending, S)'
    BY <2>2 DEF Flying
  <2>7. QED
    BY <2>4, <2>5, <2>6
<1>10. ExactOK'
  <2>1. \A s : Adding(s)' = Adding(s)
    BY <1>1 DEF Adding
  <2>2. QED
    BY <1>1, <1>2, <1>9, <2>1 DEF ExactOK
<1>11. EndTypeOK'
  <2>1. poll'[i].pc \in Ending => poll'[i].task[1] = e
    <3>1. CASE poll' = [poll EXCEPT ![i].ports = @ \ {NextPort(i)}]
      BY <1>6, <1>7, <3>1 DEF Ending
    <3>2. CASE poll' = [poll EXCEPT ![i] =
                 [pc |-> "done", ports |-> poll[i].ports \ {NextPort(i)}, task |-> <<mOngoingTasks[k]>>]]
      BY <1>5, <1>6, <3>2
    <3>3. QED
      BY <1>3, <3>1, <3>2
  <2>2. \A j \in Pipes \ {i} : poll'[j] = poll[j]
    BY <1>3, <1>6
  <2>3. QED
    BY <1>2, <1>4, <1>6, <2>1, <2>2 DEF EndTypeOK
<1>12. \A t \in Coming' : \E u \in Coming : u.raw = t.raw /\ u.seq = t.seq
  <2>1. e \in Coming /\ Done \subseteq Coming /\ ToSet(mOngoingTasks) \subseteq Coming
    BY <1>5, <1>6 DEF Coming, ToSet
  <2>2. Done' \subseteq Done \cup {e}
    <3>1. \A j \in Pipes \ {i} : poll'[j] = poll[j]
      BY <1>3, <1>6
    <3>2. poll'[i].pc = "done" => poll'[i].task[1] = e
      <4>1. CASE poll' = [poll EXCEPT ![i].ports = @ \ {NextPort(i)}]
        BY <1>6, <1>7, <4>1
      <4>2. CASE poll' = [poll EXCEPT ![i] =
                   [pc |-> "done", ports |-> poll[i].ports \ {NextPort(i)}, task |-> <<mOngoingTasks[k]>>]]
        BY <1>5, <1>6, <4>2
      <4>3. QED
        BY <1>3, <4>1, <4>2
    <3>3. QED
      BY <3>1, <3>2 DEF Done
  <2>3. ASSUME NEW t \in ToSet(mOngoingTasks') PROVE \E u \in Coming : u.raw = t.raw /\ u.seq = t.seq
    <3>1. PICK l \in DOMAIN mOngoingTasks' : t = mOngoingTasks'[l]
      BY DEF ToSet
    <3>2. CASE mOngoingTasks' = RemoveAt(mOngoingTasks, k)
      <4>1. t \in ToSet(mOngoingTasks)
        <5>1. ToSet(RemoveAt(mOngoingTasks, k)) \subseteq ToSet(mOngoingTasks)
          BY <1>6, RemoveAtFrom
        <5>2. QED
          BY <3>2, <5>1
      <4>2. QED
        BY <2>1, <4>1
    <3>3. CASE mOngoingTasks' = [mOngoingTasks EXCEPT ![k].left = @ - 1]
      <4>1. l \in DOMAIN mOngoingTasks /\ mOngoingTasks[l] \in Tasks
        BY <1>6, <3>1, <3>3
      <4>2. mOngoingTasks[l].raw = t.raw /\ mOngoingTasks[l].seq = t.seq
        BY <3>1, <3>3, <4>1 DEF Tasks
      <4>3. mOngoingTasks[l] \in ToSet(mOngoingTasks)
        BY <4>1 DEF ToSet
      <4>4. QED
        BY <2>1, <4>2, <4>3
    <3>4. QED
      BY <1>3, <3>2, <3>3
  <2>4. QED
    BY <2>1, <2>2, <2>3 DEF Coming
<1>13. QED
  BY <1>1, <1>8, <1>10, <1>11, <1>12, PollFlies

LEMMA TaskDoneFlies ==
    ASSUME UnitTypeOK, FlightInv, NEW i \in Pipes, OnTaskDone(i)
    PROVE  FlightInv'
<1>1. UNCHANGED <<scenario, seqOf, lastSeq, mRawBufferMap, mInputQueue, requests, pt,
                  mOngoingTasks, mSequencesInflight>>
  BY DEF OnTaskDone, asked
<1>2. /\ TaskTypeOK /\ EndTypeOK /\ ExactOK /\ QueueOK /\ OwnOK /\ KeptOK
      /\ scenario \in Scenarios
  BY DEF UnitTypeOK, FlightInv
<1>3. PICK e : e = poll[i].task[1]
  OBVIOUS
<1>4. /\ poll[i].pc = "done" /\ poll' = [poll EXCEPT ![i].pc = "erase"]
      /\ free' = IF GivesBack(e) THEN free \cup {e.raw} ELSE free
  BY <1>3 DEF OnTaskDone
<1>5. /\ DOMAIN poll = Pipes /\ \A j \in Pipes : DOMAIN poll[j] = {"pc", "ports", "task"}
      /\ e \in Tasks
  BY <1>2, <1>3, <1>4 DEF TaskTypeOK
<1>6. /\ \A j \in Pipes \ {i} : poll'[j] = poll[j]
      /\ poll'[i].pc = "erase" /\ poll'[i].task[1] = e
  BY <1>3, <1>4, <1>5
<1>7. UNCHANGED Tasks /\ \A t : Gives(t)' = Gives(t)
  BY <1>1, SameAsked, SameHold DEF Gives
<1>8. ASSUME NEW s PROVE Flying(s)' = Flying(s)
  <2>1. PICK S : S = OfSeq(s)
    OBVIOUS
  <2>2. S = OfSeq(s)'
    BY <1>7, <2>1 DEF OfSeq
  <2>3. Ended(Ending, S)' = Ended(Ending, S)
    BY <1>3, <1>4, <1>6 DEF Ended, Ending
  <2>4. EndedAt(Ending, S)' = EndedAt(Ending, S)
    BY <2>3 DEF EndedAt
  <2>5. Count(mOngoingTasks, S)' = Count(mOngoingTasks, S)
    BY <1>1 DEF Count
  <2>6. Flying(s) = Count(mOngoingTasks, S) + EndedAt(Ending, S)
    BY <2>1 DEF Flying
  <2>7. Flying(s)' = Count(mOngoingTasks, S)' + EndedAt(Ending, S)'
    BY <2>2 DEF Flying
  <2>8. QED
    BY <2>4, <2>5, <2>6, <2>7
<1>9. ExactOK'
  <2>1. \A s : Adding(s)' = Adding(s)
    BY <1>1 DEF Adding
  <2>2. QED
    BY <1>1, <1>2, <1>8, <2>1 DEF ExactOK
<1>10. EndTypeOK'
  BY <1>2, <1>5, <1>6, <1>7 DEF EndTypeOK
<1>11. Coming' \subseteq Coming /\ e \in Coming
  <2>1. Done' \subseteq Done /\ e \in Done
    BY <1>3, <1>4, <1>6 DEF Done
  <2>2. QED
    BY <1>1, <2>1 DEF Coming
<1>12. CASE scenario.zsl
  <2>1. e.raw \in mRawBufferMap
    BY <1>2, <1>11, <1>12 DEF KeptOK
  <2>2. UNCHANGED free
    BY <1>4, <2>1 DEF GivesBack
  <2>3. QED
    BY <1>1, <1>9, <1>10, <1>11, <1>12, <2>2, PollFlies
<1>13. CASE ~scenario.zsl
  <2>1. mRawBufferMap = {}
    BY <1>2, <1>13 DEF OwnOK
  <2>2. GivesBack(e) <=> Gives(e)
    BY <2>1 DEF GivesBack, Gives, Hold
  <2>3. ASSUME NEW b PROVE Claims(b)' = Claims(b) - IF e.raw = b /\ Gives(e) THEN 1 ELSE 0
    <3>1. PICK S : S = ClaimsOf(b)
      OBVIOUS
    <3>2. S = ClaimsOf(b)'
      BY <1>7, <3>1 DEF ClaimsOf
    <3>3. e \in S <=> e.raw = b /\ Gives(e)
      BY <1>5, <3>1 DEF ClaimsOf
    <3>4. EndedAt({"done"}, S)' = EndedAt({"done"}, S) - IF e \in S THEN 1 ELSE 0
      <4>1. PICK n : n = EndedAt({"done"}, S)
        OBVIOUS
      <4>2. PICK m : m = EndedAt({"done"}, S)'
        OBVIOUS
      <4>3. n \in Nat
        BY <4>1, EndedTyped
      <4>4. m - (IF poll'[i].pc \in {"done"} /\ poll'[i].task[1] \in S THEN 1 ELSE 0)
              = n - (IF poll[i].pc \in {"done"} /\ poll[i].task[1] \in S THEN 1 ELSE 0)
        BY <1>6, <4>1, <4>2, EndedChanges
      <4>5. m - 0 = n - (IF e \in S THEN 1 ELSE 0)
        BY <1>3, <1>4, <1>6, <4>4
      <4>6. m \in Nat
        <5>1. IsFiniteSet(Ended({"done"}, S)')
          BY PipesAssumption, FS_Subset DEF Ended
        <5>2. QED
          BY <4>2, <5>1, FS_CardinalityType DEF EndedAt
      <4>7. QED
        BY <4>1, <4>2, <4>3, <4>5, <4>6
    <3>5. Count(mOngoingTasks, S)' = Count(mOngoingTasks, S)
      BY <1>1 DEF Count
    <3>6. Claims(b) = Count(mOngoingTasks, S) + EndedAt({"done"}, S)
      BY <3>1 DEF Claims
    <3>7. Claims(b)' = Count(mOngoingTasks, S)' + EndedAt({"done"}, S)'
      BY <3>2 DEF Claims
    <3>8. Count(mOngoingTasks, S) \in Nat /\ EndedAt({"done"}, S) \in Nat
      BY <1>2, CountTyped, EndedTyped DEF TaskTypeOK
    <3>9. QED
      BY <3>3, <3>4, <3>5, <3>6, <3>7, <3>8
  <2>4. \A b : Claims(b) \in Nat
    BY CountsTyped
  <2>5. \A b : InQueue(b)' = InQueue(b)
    BY <1>1 DEF InQueue
  <2>6. PICK c : c = e.raw
    OBVIOUS
  <2>7. c \in Raws
    BY <1>5, <2>6 DEF Tasks
  <2>8. Gives(e) => Claims(c) = 1 /\ c \notin free /\ ~InQueue(c) /\ Claims(c)' = 0
    <3> SUFFICES ASSUME Gives(e)
                 PROVE  Claims(c) = 1 /\ c \notin free /\ ~InQueue(c) /\ Claims(c)' = 0
      OBVIOUS
    <3>1. Claims(c) # 0
      <4>1. PICK S : S = ClaimsOf(c)
        OBVIOUS
      <4>2. e \in S
        BY <1>5, <2>6, <4>1 DEF ClaimsOf
      <4>3. EndedAt({"done"}, S) >= 1
        BY <1>3, <1>4, <4>2, EndedSome
      <4>4. Count(mOngoingTasks, S) \in Nat /\ EndedAt({"done"}, S) \in Nat
        BY <1>2, CountTyped, EndedTyped DEF TaskTypeOK
      <4>5. Claims(c) = Count(mOngoingTasks, S) + EndedAt({"done"}, S)
        BY <4>1 DEF Claims
      <4>6. QED
        BY <4>3, <4>4, <4>5
    <3>2. Claims(c) = 1 /\ c \notin free /\ ~InQueue(c)
      BY <1>2, <1>13, <2>7, <3>1 DEF OwnOK
    <3>3. Claims(c)' = 0
      BY <2>3, <2>6, <3>2
    <3>4. QED
      BY <3>2, <3>3
  <2>9. free' = IF Gives(e) THEN free \cup {c} ELSE free
    BY <1>4, <2>2, <2>6
  <2>10. PICK r : r = pt.raw
    OBVIOUS
  <2>11. pt.pc \in Runs =>
           r \notin free' /\ Claims(r)' = 0 /\ (InQueue(r)' => Hold(pt.dst, seqOf[r])')
    <3> SUFFICES ASSUME pt.pc \in Runs
                 PROVE r \notin free' /\ Claims(r)' = 0 /\ (InQueue(r)' => Hold(pt.dst, seqOf[r])')
      OBVIOUS
    <3>1. r \notin free /\ Claims(r) = 0 /\ (InQueue(r) => Hold(pt.dst, seqOf[r]))
      BY <1>2, <1>13, <2>10 DEF OwnOK, Claims, ClaimsOf, InQueue
    <3>2. Gives(e) => r # c
      BY <2>8, <3>1
    <3>3. Claims(r)' = 0
      BY <2>3, <2>6, <3>1, <3>2
    <3>4. Hold(pt.dst, seqOf[r])' = Hold(pt.dst, seqOf[r])
      BY <1>1 DEF Hold, NeedHoldOnInputFrame, Setting
    <3>5. QED
      BY <2>5, <2>9, <3>1, <3>2, <3>3, <3>4
  <2>12. ASSUME NEW b \in Raws, Claims(b)' # 0
         PROVE  Claims(b)' = 1 /\ b \notin free' /\ ~InQueue(b)'
    <3>1. ~(e.raw = b /\ Gives(e))
      BY <2>6, <2>8, <2>12
    <3>2. Claims(b)' = Claims(b)
      BY <2>3, <2>4, <3>1
    <3>3. QED
      BY <1>2, <1>13, <2>5, <2>6, <2>9, <2>12, <3>1, <3>2 DEF OwnOK
  <2>13. OwnOK'
    <3>1. Claims(pt.raw)' = Claims(r)' /\ InQueue(pt.raw)' = InQueue(r)'
          /\ Hold(pt.dst, seqOf[pt.raw])' = Hold(pt.dst, seqOf[r])'
      BY <1>1, <2>10 DEF Claims, ClaimsOf, InQueue
    <3>2. QED
      BY <1>1, <1>2, <1>13, <2>10, <2>11, <2>12, <3>1 DEF OwnOK
  <2>14. KeptOK'
    BY <1>1, <1>13 DEF KeptOK
  <2>15. QueueOK'
    <3>1. Gives(e) => \A k \in 1 .. Len(mInputQueue) : mInputQueue[k] # c
      BY <2>8 DEF InQueue
    <3>2. QED
      BY <1>1, <1>2, <2>9, <3>1 DEF QueueOK
  <2>16. QED
    BY <1>1, <1>2, <1>9, <1>10, <2>13, <2>14, <2>15 DEF FlightInv
<1>14. QED
  BY <1>12, <1>13

LEMMA EraseFlies ==
    ASSUME UnitTypeOK, FlightInv, NEW i \in Pipes, EraseSequence(i)
    PROVE  FlightInv'
<1>1. UNCHANGED <<scenario, seqOf, lastSeq, free, mRawBufferMap, mInputQueue, requests, pt,
                  mOngoingTasks>>
  BY DEF EraseSequence, producer, asked
<1>2. TaskTypeOK /\ EndTypeOK /\ ExactOK
  BY DEF UnitTypeOK, FlightInv
<1>3. PICK e : e = poll[i].task[1]
  OBVIOUS
<1>4. /\ poll[i].pc = "erase" /\ poll' = [poll EXCEPT ![i].pc = "trim"]
      /\ mSequencesInflight' = Erase(e.seq)
  BY <1>3 DEF EraseSequence
<1>5. /\ DOMAIN poll = Pipes /\ \A j \in Pipes : DOMAIN poll[j] = {"pc", "ports", "task"}
      /\ e \in Tasks
  BY <1>2, <1>3, <1>4 DEF TaskTypeOK, EndTypeOK, Ending
<1>6. /\ \A j \in Pipes \ {i} : poll'[j] = poll[j]
      /\ poll'[i].pc = "trim"
  BY <1>4, <1>5
<1>7. UNCHANGED Tasks /\ \A t : Gives(t)' = Gives(t)
  BY <1>1, SameAsked, SameHold DEF Gives
<1>8. ASSUME NEW b PROVE Claims(b)' = Claims(b)
  <2>1. PICK S : S = ClaimsOf(b)
    OBVIOUS
  <2>2. S = ClaimsOf(b)'
    BY <1>7, <2>1 DEF ClaimsOf
  <2>3. Ended({"done"}, S)' = Ended({"done"}, S)
    BY <1>4, <1>6 DEF Ended
  <2>4. EndedAt({"done"}, S)' = EndedAt({"done"}, S)
    BY <2>3 DEF EndedAt
  <2>5. Count(mOngoingTasks, S)' = Count(mOngoingTasks, S)
    BY <1>1 DEF Count
  <2>6. Claims(b) = Count(mOngoingTasks, S) + EndedAt({"done"}, S)
    BY <2>1 DEF Claims
  <2>7. Claims(b)' = Count(mOngoingTasks, S)' + EndedAt({"done"}, S)'
    BY <2>2 DEF Claims
  <2>8. QED
    BY <2>4, <2>5, <2>6, <2>7
<1>9. ASSUME NEW s PROVE Flying(s)' = Flying(s) - IF s = e.seq THEN 1 ELSE 0
  <2>1. PICK S : S = OfSeq(s)
    OBVIOUS
  <2>2. S = OfSeq(s)'
    BY <1>7, <2>1 DEF OfSeq
  <2>3. e \in S <=> s = e.seq
    BY <1>5, <2>1 DEF OfSeq
  <2>4. EndedAt(Ending, S)' = EndedAt(Ending, S) - IF e \in S THEN 1 ELSE 0
    <3>1. PICK n : n = EndedAt(Ending, S)
      OBVIOUS
    <3>2. PICK m : m = EndedAt(Ending, S)'
      OBVIOUS
    <3>3. n \in Nat
      BY <3>1, EndedTyped
    <3>4. m - (IF poll'[i].pc \in Ending /\ poll'[i].task[1] \in S THEN 1 ELSE 0)
            = n - (IF poll[i].pc \in Ending /\ poll[i].task[1] \in S THEN 1 ELSE 0)
      BY <1>6, <3>1, <3>2, EndedChanges
    <3>5. m - 0 = n - (IF e \in S THEN 1 ELSE 0)
      BY <1>3, <1>4, <1>6, <3>4 DEF Ending
    <3>6. m \in Nat
      <4>1. IsFiniteSet(Ended(Ending, S)')
        BY PipesAssumption, FS_Subset DEF Ended
      <4>2. QED
        BY <3>2, <4>1, FS_CardinalityType DEF EndedAt
    <3>7. QED
      BY <3>1, <3>2, <3>3, <3>5, <3>6
  <2>5. Count(mOngoingTasks, S)' = Count(mOngoingTasks, S)
    BY <1>1 DEF Count
  <2>6. Flying(s) = Count(mOngoingTasks, S) + EndedAt(Ending, S)
    BY <2>1 DEF Flying
  <2>7. Flying(s)' = Count(mOngoingTasks, S)' + EndedAt(Ending, S)'
    BY <2>2 DEF Flying
  <2>8. Count(mOngoingTasks, S) \in Nat /\ EndedAt(Ending, S) \in Nat
    BY <1>2, CountTyped, EndedTyped DEF TaskTypeOK
  <2>9. QED
    BY <2>3, <2>4, <2>5, <2>6, <2>7, <2>8
<1>10. ExactOK'
  <2>1. \A s : Adding(s)' = Adding(s)
    BY <1>1 DEF Adding
  <2>2. mSequencesInflight \in [Seqs -> Int]
    BY <1>2 DEF ExactOK
  <2>3. PICK q : q = e.seq
    OBVIOUS
  <2>4. /\ mSequencesInflight' \in [Seqs -> Int]
        /\ \A s \in Seqs : mSequencesInflight'[s] = mSequencesInflight[s] - IF s = q THEN 1 ELSE 0
    BY <1>4, <2>2, <2>3, InsertTyped
  <2>5. \A s : Flying(s) \in Nat /\ Adding(s) \in Nat
    BY CountsTyped
  <2>6. \A s \in Seqs : mSequencesInflight[s] = Flying(s) + Adding(s)
    BY <1>2 DEF ExactOK
  <2>7. QED
    BY <1>9, <2>1, <2>3, <2>4, <2>5, <2>6 DEF ExactOK
<1>11. EndTypeOK'
  BY <1>2, <1>6, <1>7 DEF EndTypeOK, Ending
<1>12. Coming' \subseteq Coming
  <2>1. Done' \subseteq Done
    BY <1>6 DEF Done
  <2>2. QED
    BY <1>1, <2>1 DEF Coming
<1>13. QED
  BY <1>1, <1>8, <1>10, <1>11, <1>12, PollFlies

LEMMA PipeFlies ==
    ASSUME NoFakes, UnitTypeOK, CoverInv, FlightInv, NEW i \in Pipes, Executor(i) \/ PollThread(i)
    PROVE  FlightInv'
<1>1. CASE Executor(i)
  <2>1. UNCHANGED <<scenario, seqOf, lastSeq, free, mRawBufferMap, mInputQueue,
                    mSequencesInflight, requests, mOngoingTasks, poll, pt>>
    BY <1>1 DEF Executor, WaitTimeout, Process, producer, asked
  <2>2. pt.pc = "save" => scenario.zsl
    BY DEF FlightInv, OwnOK
  <2>3. QED
    BY <2>1, <2>2, FlightElsewhere
<1>2. CASE HandleEvent(i) \/ PopTask(i)
  <2>1. UNCHANGED <<scenario, seqOf, lastSeq, free, mRawBufferMap, mInputQueue,
                    mSequencesInflight, requests, mOngoingTasks, pt>>
    BY <1>2 DEF HandleEvent, PopTask, producer, asked
  <2>2. DOMAIN poll = Pipes /\ EndTypeOK /\ ExactOK
    BY DEF UnitTypeOK, TaskTypeOK, FlightInv
  <2>3. /\ poll[i].pc \in {"idle", "buffers"}
        /\ \E x \in {"idle", "buffers"} : \E y, z :
             poll' = [poll EXCEPT ![i] = [pc |-> x, ports |-> y, task |-> z]]
    BY <1>2 DEF HandleEvent, PopTask, Asleep
  <2>4. /\ \A j \in Pipes \ {i} : poll'[j] = poll[j]
        /\ poll[i].pc \notin Ending /\ poll'[i].pc \notin Ending
    BY <2>2, <2>3 DEF Ending
  <2>5. /\ Coming' = Coming
        /\ \A c : Claims(c)' = Claims(c)
        /\ \A s : Flying(s)' = Flying(s)
        /\ EndTypeOK'
    BY <2>1, <2>2, <2>4, SamePolls
  <2>6. ExactOK'
    <3>1. \A s : Adding(s)' = Adding(s)
      BY <2>1 DEF Adding
    <3>2. QED
      BY <2>1, <2>2, <2>5, <3>1 DEF ExactOK
  <2>7. QED
    BY <2>1, <2>5, <2>6, PollFlies
<1>3. CASE TrimAfterTask(i)
  <2>1. /\ UNCHANGED <<scenario, seqOf, lastSeq, mInputQueue, mSequencesInflight, requests,
                       mOngoingTasks, pt>>
        /\ poll[i].pc = "trim" /\ ReturnRawBuffer
        /\ poll' = [poll EXCEPT ![i].pc = "buffers", ![i].task = <<>>]
    BY <1>3 DEF TrimAfterTask, asked
  <2>2. QED
    BY <2>1, TrimFlies
<1>4. QED
  BY <1>1, <1>2, <1>3, BufferDoneFlies, TaskDoneFlies, EraseFlies DEF PollThread

LEMMA FlightStep == NoFakes /\ UnitTypeOK /\ CoverInv /\ FlightInv /\ [Next]_vars => FlightInv'
<1> SUFFICES ASSUME NoFakes, UnitTypeOK, CoverInv, FlightInv, [Next]_vars PROVE FlightInv'
  OBVIOUS
<1>1. CASE Capture \/ LoseFrame \/ NewRequest \/ HandleQueueBuffer
  BY <1>1, EnvironmentFlies
<1>2. CASE ProcessThread
  BY <1>2, ChooseFlies, PrepareFlies, FetchFlies, DispatchFlies, AddFlies DEF ProcessThread
<1>3. ASSUME NEW i \in Pipes, Executor(i) \/ PollThread(i) PROVE FlightInv'
  BY <1>3, PipeFlies
<1>4. CASE UNCHANGED vars
  <2>1. UNCHANGED <<scenario, seqOf, lastSeq, free, mRawBufferMap, mInputQueue,
                    mSequencesInflight, requests, mOngoingTasks, poll, pt>>
    BY <1>4 DEF vars, producer, asked, pipes
  <2>2. pt.pc = "save" => scenario.zsl
    BY DEF FlightInv, OwnOK
  <2>3. QED
    BY <2>1, <2>2, FlightElsewhere
<1>5. QED
  BY <1>1, <1>2, <1>3, <1>4 DEF Next

(* mSequencesInflight, by which returnRawBuffer tells that the oldest      *)
(* frame kept is in use, is the number of tasks of a sequence between      *)
(* their dispatch and the end of onTaskDone, whatever tasks share a frame, *)
(* unless a frame may return to the producer while a task is about to be   *)
(* dispatched for it.                                                      *)
THEOREM InFlightIsCounted == ASSUME NoFakes PROVE Spec => []InFlightExact
<1>1. Init => UnitTypeOK /\ CoverInv /\ FlightInv
  BY UnitTypeInit, CoverInit, FlightInit
<1>2. UnitTypeOK /\ CoverInv /\ FlightInv /\ [Next]_vars => (UnitTypeOK /\ CoverInv /\ FlightInv)'
  BY UnitTypeStep, CoverStep, FlightStep
<1>3. UnitTypeOK /\ FlightInv => InFlightExact
  <2> SUFFICES ASSUME UnitTypeOK, FlightInv, NEW s \in Seqs
               PROVE  mSequencesInflight[s] =
                        Cardinality({k \in DOMAIN mOngoingTasks : mOngoingTasks[k].seq = s})
                        + (IF pt.pc = "add" /\ seqOf[pt.src] = s THEN 1 ELSE 0)
                        + Cardinality({i \in Pipes : /\ poll[i].pc \in {"done", "erase"}
                                                     /\ poll[i].task[1].seq = s})
    BY DEF InFlightExact
  <2>1. {k \in DOMAIN mOngoingTasks : mOngoingTasks[k].seq = s}
          = {k \in DOMAIN mOngoingTasks : mOngoingTasks[k] \in OfSeq(s)}
    BY DEF UnitTypeOK, TaskTypeOK, OfSeq
  <2>2. {i \in Pipes : poll[i].pc \in {"done", "erase"} /\ poll[i].task[1].seq = s}
          = Ended(Ending, OfSeq(s))
    BY DEF FlightInv, EndTypeOK, Ended, Ending, OfSeq
  <2>3. mSequencesInflight[s] = Flying(s) + Adding(s)
    BY DEF FlightInv, ExactOK
  <2>4. Flying(s) = Count(mOngoingTasks, OfSeq(s)) + EndedAt(Ending, OfSeq(s))
    BY DEF Flying
  <2>5. Count(mOngoingTasks, OfSeq(s)) \in Nat /\ EndedAt(Ending, OfSeq(s)) \in Nat
    BY CountTyped, EndedTyped DEF UnitTypeOK, TaskTypeOK
  <2>6. Cardinality({k \in DOMAIN mOngoingTasks : mOngoingTasks[k].seq = s})
          = Count(mOngoingTasks, OfSeq(s))
    BY <2>1 DEF Count
  <2>7. Cardinality({i \in Pipes : poll[i].pc \in {"done", "erase"} /\ poll[i].task[1].seq = s})
          = EndedAt(Ending, OfSeq(s))
    BY <2>2 DEF EndedAt
  <2>8. PICK n : n = Count(mOngoingTasks, OfSeq(s))
    OBVIOUS
  <2>9. PICK m : m = EndedAt(Ending, OfSeq(s))
    OBVIOUS
  <2>10. Adding(s) = IF pt.pc = "add" /\ seqOf[pt.src] = s THEN 1 ELSE 0
    BY DEF Adding
  <2>11. mSequencesInflight[s] = n + m + Adding(s)
    BY <2>3, <2>4, <2>8, <2>9
  <2>12. QED
    BY <2>5, <2>6, <2>7, <2>8, <2>9, <2>10, <2>11
<1>4. QED
  BY <1>1, <1>2, <1>3, PTL DEF Spec

-----------------------------------------------------------------------------
(* The producer is not starved by the frames kept.                         *)

Trimming == pt.pc = "trim" \/ \E i \in Pipes : poll[i].pc = "trim"

(* When every raw buffer is kept, the oldest is in use, or about to be     *)
(* given back.                                                             *)
StarveOK == mRawBufferMap = Raws /\ RawHold < NumRaw => InFlight(seqOf[Oldest]) \/ Trimming

LEMMA AllKept ==
    ASSUME UnitTypeOK, FlightInv, mRawBufferMap = Raws
    PROVE  free = {} /\ seqOf[Oldest] \in Seqs
<1>1. RawTypeOK /\ QueueOK /\ OwnOK /\ KeptOK /\ 1 \in Raws
  BY ProcessingAssumption DEF UnitTypeOK, FlightInv, Raws
<1>2. scenario.zsl
  BY <1>1 DEF OwnOK
<1>3. free = {}
  BY <1>1, <1>2 DEF KeptOK, RawTypeOK
<1>4. Oldest \in Raws
  BY <1>1, OldestKept
<1>5. QED
  BY <1>1, <1>3, <1>4 DEF QueueOK

(* Steps that only add to what is in flight.                               *)
LEMMA StarveElsewhere ==
    ASSUME UnitTypeOK, FlightInv, StarveOK, UNCHANGED <<mRawBufferMap, seqOf>>,
           \A s \in Seqs : InFlight(s) => InFlight(s)', Trimming => Trimming'
    PROVE  StarveOK'
<1> SUFFICES ASSUME mRawBufferMap = Raws, RawHold < NumRaw
             PROVE  InFlight(seqOf[Oldest])' \/ Trimming'
  BY DEF StarveOK
<1>1. PICK s \in Seqs : s = seqOf[Oldest]
  BY AllKept
<1>2. s = seqOf'[Oldest']
  BY <1>1 DEF Oldest
<1>3. InFlight(s) \/ Trimming
  BY <1>1 DEF StarveOK
<1>4. InFlight(s)' => InFlight(seqOf[Oldest])'
  BY <1>2 DEF InFlight
<1>5. QED
  BY <1>3, <1>4

LEMMA TrimStarves ==
    ASSUME UnitTypeOK, FlightInv, ReturnRawBuffer, UNCHANGED <<seqOf, mSequencesInflight>>
    PROVE  StarveOK'
<1>1. RawTypeOK /\ mRawBufferMap \subseteq Raws
  BY DEF UnitTypeOK, RawTypeOK
<1>2. CASE MayReturnOldest
  <2>1. PICK o : o = Oldest
    OBVIOUS
  <2>2. mRawBufferMap' = mRawBufferMap \ {o}
    BY <1>2, <2>1 DEF ReturnRawBuffer
  <2>3. mRawBufferMap # Raws \/ o \in Raws
    <3>1. Raws # {}
      BY ProcessingAssumption DEF Raws
    <3>2. QED
      BY <1>1, <2>1, <3>1, OldestKept
  <2>4. mRawBufferMap' # Raws
    BY <1>1, <2>2, <2>3
  <2>5. QED
    BY <2>4 DEF StarveOK
<1>3. CASE ~MayReturnOldest
  <2>1. UNCHANGED mRawBufferMap
    BY <1>3 DEF ReturnRawBuffer
  <2>2. mRawBufferMap = Raws /\ RawHold < NumRaw => InFlight(seqOf[Oldest])
    <3> SUFFICES ASSUME mRawBufferMap = Raws, RawHold < NumRaw PROVE InFlight(seqOf[Oldest])
      OBVIOUS
    <3>1. Cardinality(Raws) = NumRaw
      BY FS_Interval, ProcessingAssumption DEF Raws
    <3>2. Cardinality(mRawBufferMap) > RawHold
      BY <3>1, ProcessingAssumption
    <3>3. QED
      BY <1>3, <3>2 DEF MayReturnOldest
  <2>3. InFlight(seqOf[Oldest])' = InFlight(seqOf[Oldest])
    BY <2>1 DEF InFlight, Oldest
  <2>4. QED
    BY <2>1, <2>2, <2>3 DEF StarveOK
<1>4. QED
  BY <1>2, <1>3

LEMMA ThreadStarves ==
    ASSUME UnitTypeOK, FlightInv, StarveOK, ProcessThread
    PROVE  StarveOK'
<1>1. CASE SaveRawBuffer
  <2>1. pt'.pc = "trim"
    BY <1>1 DEF SaveRawBuffer, UnitTypeOK, PtTypeOK
  <2>2. QED
    BY <2>1 DEF StarveOK, Trimming
<1>2. CASE TrimRawBuffers
  BY <1>2, TrimStarves DEF TrimRawBuffers
<1>3. CASE ProcessNewFrame \/ NothingToPrepare \/ PrepareTask \/ AddTask \/ ExecuteNode
  <2>1. UNCHANGED <<mRawBufferMap, seqOf, mSequencesInflight, poll>> /\ pt.pc # "trim"
    BY <1>3 DEF ProcessNewFrame, NothingToPrepare, PrepareTask, AddTask, ExecuteNode, producer,
                pipes
  <2>2. \A s \in Seqs : InFlight(s)' = InFlight(s)
    BY <2>1 DEF InFlight
  <2>3. Trimming => Trimming'
    BY <2>1 DEF Trimming
  <2>4. QED
    BY <2>1, <2>2, <2>3, StarveElsewhere
<1>4. CASE FetchSource \/ DispatchTask
  <2>1. /\ UNCHANGED <<mRawBufferMap, seqOf, poll>> /\ pt.pc # "trim"
        /\ \/ UNCHANGED mSequencesInflight
           \/ \E q : mSequencesInflight' = Insert(q)
    BY <1>4 DEF FetchSource, DispatchTask, producer, pipes
  <2>2. ASSUME NEW s \in Seqs, InFlight(s) PROVE InFlight(s)'
    <3>1. mSequencesInflight \in [Seqs -> Int]
      BY DEF FlightInv, ExactOK
    <3>2. CASE UNCHANGED mSequencesInflight
      BY <2>2, <3>2 DEF InFlight
    <3>3. ASSUME NEW q, mSequencesInflight' = Insert(q) PROVE InFlight(s)'
      <4>1. mSequencesInflight'[s] >= mSequencesInflight[s]
        BY <3>1, <3>3 DEF Insert
      <4>2. QED
        BY <2>2, <3>1, <4>1, <3>3 DEF InFlight, Insert
    <3>4. QED
      BY <2>1, <3>2, <3>3
  <2>3. Trimming => Trimming'
    BY <2>1 DEF Trimming
  <2>4. QED
    BY <2>1, <2>2, <2>3, StarveElsewhere
<1>5. QED
  BY <1>1, <1>2, <1>3, <1>4 DEF ProcessThread

LEMMA PipeStarves ==
    ASSUME UnitTypeOK, FlightInv, StarveOK, NEW i \in Pipes, Executor(i) \/ PollThread(i)
    PROVE  StarveOK'
<1>1. DOMAIN poll = Pipes /\ DOMAIN poll[i] = {"pc", "ports", "task"}
  BY DEF UnitTypeOK, TaskTypeOK
<1>2. CASE TrimAfterTask(i)
  BY <1>2, TrimStarves DEF TrimAfterTask
<1>3. CASE EraseSequence(i)
  <2>1. poll'[i].pc = "trim"
    BY <1>1, <1>3 DEF EraseSequence
  <2>2. QED
    BY <2>1 DEF StarveOK, Trimming
<1>4. CASE Executor(i) \/ HandleEvent(i) \/ OnBufferDone(i) \/ OnTaskDone(i) \/ PopTask(i)
  <2>1. UNCHANGED <<mRawBufferMap, seqOf, mSequencesInflight, pt>>
    BY <1>4 DEF Executor, WaitTimeout, Process, HandleEvent, OnBufferDone, OnTaskDone, PopTask,
                producer
  <2>2. Trimming => Trimming'
    <3>1. CASE Executor(i)
      BY <3>1 DEF Executor, WaitTimeout, Process, Trimming
    <3>2. CASE HandleEvent(i) \/ OnBufferDone(i) \/ OnTaskDone(i) \/ PopTask(i)
      <4>1. poll[i].pc # "trim" /\ \A j \in Pipes \ {i} : poll'[j] = poll[j]
        BY <1>1, <3>2 DEF HandleEvent, OnBufferDone, OnTaskDone, PopTask
      <4>2. QED
        BY <2>1, <4>1 DEF Trimming
    <3>3. QED
      BY <1>4, <3>1, <3>2
  <2>3. \A s \in Seqs : InFlight(s)' = InFlight(s)
    BY <2>1 DEF InFlight
  <2>4. QED
    BY <2>1, <2>2, <2>3, StarveElsewhere
<1>5. QED
  BY <1>2, <1>3, <1>4 DEF PollThread

LEMMA StarveStep == UnitTypeOK /\ FlightInv /\ StarveOK /\ [Next]_vars => StarveOK'
<1> SUFFICES ASSUME UnitTypeOK, FlightInv, StarveOK, [Next]_vars PROVE StarveOK'
  OBVIOUS
<1>1. CASE Capture
  <2>1. UNCHANGED mRawBufferMap /\ mRawBufferMap # Raws
    BY <1>1, AllKept DEF Capture
  <2>2. QED
    BY <2>1 DEF StarveOK
<1>2. CASE LoseFrame \/ NewRequest \/ HandleQueueBuffer \/ UNCHANGED vars
  <2>1. UNCHANGED <<mRawBufferMap, seqOf, mSequencesInflight, pt, poll>>
    BY <1>2 DEF LoseFrame, NewRequest, HandleQueueBuffer, vars, producer, pipes
  <2>2. \A s \in Seqs : InFlight(s)' = InFlight(s)
    BY <2>1 DEF InFlight
  <2>3. Trimming' = Trimming
    BY <2>1 DEF Trimming
  <2>4. QED
    BY <2>1, <2>2, <2>3, StarveElsewhere
<1>3. QED
  BY <1>1, <1>2, ThreadStarves, PipeStarves DEF Next

(* The frames kept do not starve the sensor: with nothing in flight and    *)
(* nothing to pair, either the producer has a buffer, or all are kept      *)
(* though more than RawHold, and then returnRawBuffer would have given the *)
(* oldest back when the last task of its sequence ended.                   *)
THEOREM KeptDoNotStarve == ASSUME NoFakes PROVE Spec => []ProducerNotStarved
<1>1. Init => UnitTypeOK /\ CoverInv /\ FlightInv /\ StarveOK
  <2>1. Init => StarveOK
    BY ProcessingAssumption DEF Init, StarveOK, Raws
  <2>2. QED
    BY <2>1, UnitTypeInit, CoverInit, FlightInit
<1>2. UnitTypeOK /\ CoverInv /\ FlightInv /\ StarveOK /\ [Next]_vars
        => (UnitTypeOK /\ CoverInv /\ FlightInv /\ StarveOK)'
  BY UnitTypeStep, CoverStep, FlightStep, StarveStep
<1>3. UnitTypeOK /\ CoverInv /\ FlightInv /\ StarveOK => ProducerNotStarved
  <2> SUFFICES ASSUME UnitTypeOK, CoverInv, FlightInv, StarveOK, free = {},
                      pt.pc = "wait", mInputQueue = <<>>, mOngoingTasks = <<>>, ~AnyInFlight,
                      \A i \in Pipes : poll[i].pc = "idle" /\ RawHold < NumRaw
               PROVE  FALSE
    BY DEF ProducerNotStarved
  <2>1. Coming = {}
    BY DEF Coming, Done, ToSet
  <2>2. mRawBufferMap = Raws
    <3>1. \A b \in Raws : ~InQueue(b)
      BY DEF InQueue
    <3>2. pt.pc \notin {"save", "trim", "pop"} \cup Runs
      BY DEF Runs
    <3>3. Raws \subseteq mRawBufferMap
      BY <2>1, <3>1, <3>2 DEF CoverInv, WayBack, Secured, Claimed, InHand
    <3>4. QED
      BY <3>3 DEF UnitTypeOK, RawTypeOK
  <2>3. RawHold < NumRaw
    <3>1. \E i \in Pipes : TRUE
      BY ProcessingAssumption DEF FlightInv, Ports
    <3>2. QED
      BY <3>1
  <2>4. ~Trimming
    BY DEF Trimming
  <2>5. seqOf[Oldest] \in Seqs
    BY <2>2, AllKept
  <2>6. InFlight(seqOf[Oldest])
    BY <2>2, <2>3, <2>4 DEF StarveOK
  <2>7. QED
    BY <2>5, <2>6 DEF AnyInFlight
<1>4. QED
  BY <1>1, <1>2, <1>3, PTL DEF Spec

=============================================================================
