-------------------------- MODULE FrameServiceProofs --------------------------
(***************************************************************************)
(* ProcessingUnit implements FrameService: every port answers the requests *)
(* it is in once and in their order, and with the frame they are for.      *)
(*                                                                         *)
(* ServeInv says why.  A frame that left the input queue is older than all *)
(* settings still to come (GoneOK), so the frame looked at is the first    *)
(* one its request may be answered with, and stays that (Right).  A row    *)
(* that was taken is with the process thread, then in the work of a pipe,  *)
(* in the order of the rows, then with the application (OrderOK).          *)
(***************************************************************************)
EXTENDS RawFrameProofs

-----------------------------------------------------------------------------
(* Every request that is not to reprocess has settings of its own.         *)
Serial == \A g \in scenario.gaps : g >= 1

Numbered == 1 .. Len(requests)
Normal(r) == ~requests[r].reprocess

(* The number of the request a port answered last.                         *)
Frames(p) == served[p].frames
LastTo(p) == IF Frames(p) = <<>> THEN 0 ELSE Frames(p)[Len(Frames(p))][1]

ServedOK == served \in [Ports -> [frames : Seq(Nat \X captured), early : {<<>>}]]

(* A frame to reprocess was taken; other settings grow.                    *)
AskedOK ==
    /\ \A r \in Numbered : ~Normal(r) =>
         /\ scenario.zsl /\ requests[r].setting \in captured
         /\ requests[r].wants \cap StillPorts # {}
    /\ \A q, r \in Numbered :
         q < r /\ Normal(q) /\ Normal(r) => requests[q].setting < requests[r].setting

InputOK ==
    /\ captured \subseteq Seqs /\ \A c \in captured : c <= lastSeq
    /\ \A k \in 1 .. Len(mInputQueue) : seqOf[mInputQueue[k]] \in captured

Queues(c) == \E k \in 1 .. Len(mInputQueue) : seqOf[mInputQueue[k]] = c

(* A frame that no request still to take will need.                        *)
Passed(c) ==
    /\ \A r \in Numbered : r > Taken /\ Normal(r) => c < requests[r].setting
    /\ \E r \in Numbered : Normal(r) /\ c <= requests[r].setting

GoneOK == \A c \in captured : Queues(c) \/ Passed(c)

(* Request r may be answered on port p with the frame of sequence s.       *)
Right(p, r, s) ==
    /\ r \in Numbered /\ p \in requests[r].wants
    /\ s \in captured /\ requests[r].setting <= s
    /\ Normal(r) => \A c \in captured : requests[r].setting <= c => s <= c

(* What the entries of a pipe write is right, in the order of the rows.    *)
RightTask(t) == \A p \in Writes(t) : Right(p, t.dst[p], t.seq)
Before(t, u) == \A p \in Writes(t) \cap Writes(u) : t.dst[p] < u.dst[p]

EntryRight(i, k) ==
    /\ ~Line(i)[k].fake /\ RightTask(Line(i)[k])
    /\ \A j \in 1 .. k - 1 : Before(Line(i)[j], Line(i)[k])

WorkOK ==
    /\ \A i \in Pipes : \A k \in 1 .. Len(Line(i)) : EntryRight(i, k)
    /\ \A t \in ToSet(mOngoingTasks) : t.seq \in captured

(* So is what the jobs write that are left for the frame looked at.        *)
Whole(job) == job.kind = "main" => job.dst = pt.dst

JobRight(job) ==
    /\ job.kind = "main" => job.seq = seqOf[pt.raw]
    /\ job.kind = "zsl" => job.dst = Only(StillPorts, pt.dst)
    /\ job.kind # "fake" => job.seq \in captured /\ RightTask(job)

JobsOK ==
    pt.pc \in Runs =>
        /\ \A k \in 1 .. Len(pt.todo) : JobRight(pt.todo[k])
        /\ pt.pc # "fetch" => seqOf[pt.src] = pt.todo[1].seq
        /\ pt.pc = "fetch" /\ (\E k \in 1 .. Len(pt.todo) : pt.todo[k].kind = "zsl") =>
             \A k \in 1 .. Len(pt.todo) : Whole(pt.todo[k])

(* A job left for the frame looked at writes to the port.                  *)
Pending(p) ==
    pt.pc \in Runs /\ \E k \in 1 .. Len(pt.todo) :
        pt.todo[k].kind # "fake" /\ p \in Writes(pt.todo[k])

(* What a port answered is behind what is still to be answered, and no row *)
(* that was taken is left out.                                             *)
Behind(p) ==
    /\ LastTo(p) <= Taken
    /\ Pending(p) => LastTo(p) < Taken
    /\ \A r : Debt(p, r) => LastTo(p) < r

Awaited(p) ==
    \A r \in 1 .. Taken : LastTo(p) < r /\ p \in requests[r].wants =>
        Debt(p, r) \/ (r = Taken /\ Pending(p))

OrderOK == \A p \in Ports : Behind(p) /\ Awaited(p)

ServeInv == ServedOK /\ AskedOK /\ InputOK /\ GoneOK /\ WorkOK /\ JobsOK /\ OrderOK

-----------------------------------------------------------------------------
(* The steps of the service.                                               *)

LEMMA ServiceInit == Init => Service!Init
<1> SUFFICES ASSUME Init PROVE Service!Init
  OBVIOUS
<1>1. Shown = [p \in Ports |-> <<>>]
  BY DEF Init, Shown
<1>2. QED
  BY <1>1 DEF Init, Service!Init

LEMMA ServiceAsks ==
    ASSUME NewRequest, UNCHANGED scenario
    PROVE  Service!Ask
<1>1. UNCHANGED <<captured, served>>
  BY DEF NewRequest, producer
<1>2. Shown' = Shown
  BY <1>1 DEF Shown
<1>3. \E r \in [wants : (SUBSET Ports) \ {{}}, setting : Seqs, reprocess : BOOLEAN] :
         requests' = Append(requests, r)
  <2>1. Wants \subseteq (SUBSET Ports) \ {{}}
    BY ProcessingAssumption
  <2>2. QED
    BY <2>1 DEF NewRequest
<1>4. QED
  BY <1>1, <1>2, <1>3 DEF Service!Ask

LEMMA ServiceCaptures ==
    ASSUME UnitTypeOK, InputOK, Capture, UNCHANGED scenario
    PROVE  Service!Capture
<1>1. UNCHANGED <<requests, served>> /\ captured' = captured \cup {lastSeq + 1}
  BY DEF Capture, asked
<1>2. Shown' = Shown
  BY <1>1 DEF Shown
<1>3. lastSeq \in Int /\ lastSeq >= -1 /\ lastSeq < MaxSeq /\ MaxSeq \in Nat
  BY ProcessingAssumption DEF Capture, UnitTypeOK, RawTypeOK, Seqs
<1>4. lastSeq + 1 \in Seqs
  BY <1>3 DEF Seqs
<1>5. \A t \in captured : t \in Int /\ t <= lastSeq
  BY DEF InputOK, Seqs
<1>6. \A t \in captured : lastSeq + 1 > t
  BY <1>3, <1>5
<1>7. QED
  BY <1>1, <1>2, <1>4, <1>6 DEF Service!Capture

-----------------------------------------------------------------------------
(* What was right stays right.                                             *)

LEMMA CapturedInt ==
    ASSUME InputOK
    PROVE  \A c \in captured : c \in Int /\ c <= lastSeq
<1>1. captured \subseteq Seqs /\ \A c \in captured : c <= lastSeq
  BY DEF InputOK
<1>2. Seqs \subseteq Int
  BY DEF Seqs
<1>3. QED
  BY <1>1, <1>2

(* Requests and frames are only added, and a frame added is newer than all.*)
Onward ==
    /\ captured \subseteq captured'
    /\ \A d \in captured' \ captured : \A c \in captured : c <= d
    /\ Numbered \subseteq Numbered' /\ \A r \in Numbered : requests'[r] = requests[r]

LEMMA AddingSteps ==
    ASSUME [Next]_vars
    PROVE  UNCHANGED <<requests, captured>> \/ Capture \/ NewRequest
<1>1. ASSUME UNCHANGED vars \/ LoseFrame \/ HandleQueueBuffer
      PROVE  UNCHANGED <<requests, captured>>
  BY <1>1 DEF vars, producer, asked, LoseFrame, HandleQueueBuffer
<1>2. ASSUME ProcessThread
      PROVE  UNCHANGED <<requests, captured>>
  BY <1>2 DEF producer, asked, ProcessThread, ProcessNewFrame, NothingToPrepare, SaveRawBuffer,
         TrimRawBuffers, PrepareTask, FetchSource, DispatchTask, AddTask, ExecuteNode
<1>3. ASSUME NEW i \in Pipes, Executor(i) \/ PollThread(i)
      PROVE  UNCHANGED <<requests, captured>>
  BY <1>3 DEF producer, asked, Executor, PollThread, WaitTimeout, Process, HandleEvent,
         OnBufferDone, OnTaskDone, EraseSequence, TrimAfterTask, PopTask
<1>4. QED
  BY <1>1, <1>2, <1>3 DEF Next

LEMMA OnwardStep ==
    ASSUME UnitTypeOK, InputOK, [Next]_vars
    PROVE  Onward
<1>1. CASE UNCHANGED <<requests, captured>>
  BY <1>1 DEF Onward, Numbered
<1>2. CASE Capture
  <2>1. UNCHANGED requests /\ captured' = captured \cup {lastSeq + 1}
    BY <1>2 DEF Capture, asked
  <2>2. lastSeq \in Int
    BY ProcessingAssumption DEF UnitTypeOK, RawTypeOK, Seqs
  <2>3. \A c \in captured : c \in Int /\ c <= lastSeq
    BY CapturedInt
  <2>4. \A c \in captured : c <= lastSeq + 1
    BY <2>2, <2>3
  <2>5. QED
    BY <2>1, <2>4 DEF Onward, Numbered
<1>3. CASE NewRequest
  <2>1. UNCHANGED captured
    BY <1>3 DEF NewRequest, producer
  <2>2. PICK r : requests' = Append(requests, r)
    BY <1>3 DEF NewRequest
  <2>3. PICK n : n = Len(requests)
    OBVIOUS
  <2>4. /\ n \in Nat /\ Len(requests') = n + 1
        /\ \A k \in 1 .. n : requests'[k] = requests[k]
    BY <2>2, <2>3, AskedIs DEF UnitTypeOK
  <2>5. Numbered = 1 .. n /\ Numbered' = 1 .. n + 1
    BY <2>3, <2>4 DEF Numbered
  <2>6. Numbered \subseteq Numbered'
    BY <2>4, <2>5
  <2>7. QED
    BY <2>1, <2>4, <2>5, <2>6 DEF Onward
<1>4. QED
  BY <1>1, <1>2, <1>3, AddingSteps

LEMMA RightStays ==
    ASSUME Onward, NEW p, NEW r, NEW s, Right(p, r, s)
    PROVE  Right(p, r, s)'
<1>1. r \in Numbered' /\ requests'[r] = requests[r] /\ s \in captured /\ s \in captured'
  BY DEF Onward, Right
<1>2. ASSUME ~requests[r].reprocess, NEW c \in captured', requests[r].setting <= c PROVE s <= c
  <2>1. CASE c \in captured
    BY <1>2, <2>1 DEF Right, Normal
  <2>2. CASE c \notin captured
    BY <1>1, <2>2 DEF Onward
  <2>3. QED
    BY <2>1, <2>2
<1>3. QED
  BY <1>1, <1>2 DEF Right, Normal

LEMMA ServedStays ==
    ASSUME ServedOK, Onward, UNCHANGED served
    PROVE  ServedOK'
<1>1. Nat \X captured \subseteq Nat \X captured'
  BY DEF Onward
<1>2. PICK S : S = Nat \X captured
  OBVIOUS
<1>3. PICK T : T = Nat \X captured'
  OBVIOUS
<1>4. ASSUME NEW s \in Seq(S) PROVE s \in Seq(T)
  BY <1>1, <1>2, <1>3, SeqGrows
<1>5. served \in [Ports -> [frames : Seq(S), early : {<<>>}]]
  BY <1>2 DEF ServedOK
<1>6. \A x \in [frames : Seq(S), early : {<<>>}] : x \in [frames : Seq(T), early : {<<>>}]
  BY <1>4
<1>7. served \in [Ports -> [frames : Seq(T), early : {<<>>}]]
  BY <1>5, <1>6
<1>8. QED
  BY <1>3, <1>7 DEF ServedOK

-----------------------------------------------------------------------------
(* The settings of requests.                                               *)

LEMMA GreatestOf ==
    ASSUME NEW n \in Nat, NEW S, S \subseteq 1 .. n, S # {}
    PROVE  \E x \in S : \A y \in S : y <= x
<1> DEFINE T == {n - x : x \in S}
<1>1. T \subseteq Nat /\ T # {}
  <2>1. \A x \in S : n - x \in Nat
    OBVIOUS
  <2>2. PICK x : x \in S
    OBVIOUS
  <2>3. n - x \in T
    BY <2>2
  <2>4. QED
    BY <2>1, <2>3
<1>2. PICK t \in T : \A u \in T : t <= u
  BY <1>1, LeastOf
<1>3. PICK x \in S : t = n - x
  OBVIOUS
<1>4. ASSUME NEW y \in S PROVE y <= x
  <2>1. n - x <= n - y
    BY <1>2, <1>3
  <2>2. x \in Int /\ y \in Int
    OBVIOUS
  <2>3. QED
    BY <2>1, <2>2
<1>5. QED
  BY <1>4

(* What the gap to the next request counts from.                           *)
LEMMA LastSettingTops ==
    ASSUME AskTypeOK, AskedOK
    PROVE  /\ LastSetting \in Int
           /\ \A r \in Numbered : Normal(r) => requests[r].setting <= LastSetting
<1> DEFINE normal == {r \in DOMAIN requests : ~requests[r].reprocess}
           last   == CHOOSE r \in normal : \A q \in normal : q <= r
<1>1. PICK n \in Nat : n = Len(requests)
  BY RequestsTyped
<1>2. DOMAIN requests = 1 .. n
  BY <1>1 DEF AskTypeOK
<1>3. /\ normal \subseteq 1 .. n
      /\ \A r \in Numbered : Normal(r) <=> r \in normal
  BY <1>1, <1>2 DEF Numbered, Normal
<1>4. LastSetting = IF normal = {} THEN -1 ELSE requests[last].setting
  BY DEF LastSetting
<1> HIDE DEF normal
<1>5. CASE normal = {}
  BY <1>3, <1>4, <1>5
<1>6. CASE normal # {}
  <2>1. \E x \in normal : \A y \in normal : y <= x
    BY <1>3, <1>6, GreatestOf
  <2>2. last \in normal /\ \A q \in normal : q <= last
    BY <2>1
  <2>3. LastSetting = requests[last].setting
    BY <1>4, <1>6
  <2> HIDE DEF last
  <2>4. last \in 1 .. n /\ last \in Numbered /\ Normal(last)
    BY <1>1, <1>3, <2>2 DEF Numbered
  <2>5. requests[last].setting \in Int
    BY <1>1, <2>4, RequestsTyped
  <2>6. ASSUME NEW r \in Numbered, Normal(r) PROVE requests[r].setting <= requests[last].setting
    <3>1. r <= last /\ r \in Int /\ last \in Int
      BY <1>1, <1>3, <2>2, <2>4, <2>6 DEF Numbered
    <3>2. CASE r = last
      BY <2>5, <3>2
    <3>3. CASE r < last
      <4>1. requests[r].setting < requests[last].setting
        BY <2>4, <2>6, <3>3 DEF AskedOK
      <4>2. requests[r].setting \in Int
        BY <2>6, RequestsTyped DEF Numbered
      <4>3. QED
        BY <2>5, <4>1, <4>2
    <3>4. QED
      BY <3>1, <3>2, <3>3
  <2>7. QED
    BY <2>3, <2>5, <2>6
<1>7. QED
  BY <1>5, <1>6

(* The application knows of no frame that was not taken.                   *)
LEMMA ReportedCaptured ==
    ASSUME ServedOK, WorkOK
    PROVE  Reported \subseteq captured
<1>1. \A t \in ToSet(mOngoingTasks) : t.seq \in captured
  BY DEF WorkOK
<1>2. ASSUME NEW p \in Ports, NEW e \in ToSet(served[p].frames \o served[p].early)
      PROVE  e[2] \in captured
  <2>1. PICK s \in Seq(Nat \X captured) : s = served[p].frames
    BY DEF ServedOK
  <2>2. served[p].early = <<>>
    BY DEF ServedOK
  <2>3. s \o <<>> = s
    OBVIOUS
  <2>4. PICK k \in 1 .. Len(s) : e = s[k]
    BY <1>2, <2>1, <2>2, <2>3 DEF ToSet
  <2>5. s[k] \in Nat \X captured
    BY <2>4
  <2>6. QED
    BY <2>4, <2>5
<1>3. QED
  BY <1>1, <1>2 DEF Reported

LEMMA NumberedIs ==
    ASSUME AskTypeOK
    PROVE  /\ Len(requests) \in Nat /\ Numbered \subseteq Nat \ {0}
           /\ \A r \in Numbered : requests[r].setting \in Seqs /\ requests[r].setting \in Int
<1>1. PICK n \in Nat : n = Len(requests)
  BY RequestsTyped
<1>2. Numbered = 1 .. n
  BY <1>1 DEF Numbered
<1>3. QED
  BY <1>1, <1>2, RequestsTyped

(* What a new request is.                                                  *)
AsksFor(x) ==
    /\ requests' = Append(requests, x)
    /\ IF x.reprocess
       THEN scenario.zsl /\ x.setting \in Reported /\ x.wants \cap StillPorts # {}
       ELSE x.setting \in Seqs /\ x.setting - LastSetting \in scenario.gaps

LEMMA NewRequestIs ==
    ASSUME NewRequest
    PROVE  \E x : AsksFor(x)
<1>1. PICK w \in Wants :
       \/ \E s \in Seqs :
            /\ s - LastSetting \in scenario.gaps
            /\ requests' = Append(requests, [wants |-> w, setting |-> s, reprocess |-> FALSE])
       \/ \E s \in Seqs \cap Reported :
            /\ scenario.zsl /\ w \cap StillPorts # {}
            /\ requests' = Append(requests, [wants |-> w, setting |-> s, reprocess |-> TRUE])
  BY DEF NewRequest
<1>2. CASE \E s \in Seqs :
            /\ s - LastSetting \in scenario.gaps
            /\ requests' = Append(requests, [wants |-> w, setting |-> s, reprocess |-> FALSE])
  <2>1. PICK s \in Seqs :
            /\ s - LastSetting \in scenario.gaps
            /\ requests' = Append(requests, [wants |-> w, setting |-> s, reprocess |-> FALSE])
    BY <1>2
  <2>2. PICK x : x = [wants |-> w, setting |-> s, reprocess |-> FALSE]
    OBVIOUS
  <2>3. AsksFor(x)
    BY <2>1, <2>2 DEF AsksFor
  <2>4. QED
    BY <2>3
<1>3. CASE \E s \in Seqs \cap Reported :
            /\ scenario.zsl /\ w \cap StillPorts # {}
            /\ requests' = Append(requests, [wants |-> w, setting |-> s, reprocess |-> TRUE])
  <2>1. PICK s \in Seqs \cap Reported :
            /\ scenario.zsl /\ w \cap StillPorts # {}
            /\ requests' = Append(requests, [wants |-> w, setting |-> s, reprocess |-> TRUE])
    BY <1>3
  <2>2. PICK x : x = [wants |-> w, setting |-> s, reprocess |-> TRUE]
    OBVIOUS
  <2>3. AsksFor(x)
    BY <2>1, <2>2 DEF AsksFor
  <2>4. QED
    BY <2>3
<1>4. QED
  BY <1>1, <1>2, <1>3

LEMMA AskedStays ==
    ASSUME AskedOK, Onward, UNCHANGED <<requests, scenario>>
    PROVE  AskedOK'
BY DEF AskedOK, Onward, Numbered, Normal

(* A new request has later settings than all others, or a frame known.     *)
LEMMA NewRequestAsked ==
    ASSUME UnitTypeOK, ServedOK, WorkOK, AskedOK, Serial, NewRequest
    PROVE  /\ AskedOK'
           /\ \A r \in Numbered' \ Numbered : Normal(r)' =>
                LastSetting < requests'[r].setting /\ requests'[r].setting \in Int
<1>1. PICK x : AsksFor(x)
  BY NewRequestIs
<1>2. PICK n : n = Len(requests)
  OBVIOUS
<1>3. /\ n \in Nat /\ Len(requests') = n + 1 /\ requests'[n + 1] = x
      /\ \A k \in 1 .. n : requests'[k] = requests[k]
  BY <1>1, <1>2, AskedIs DEF UnitTypeOK, AsksFor
<1>4. Numbered = 1 .. n /\ Numbered' = 1 .. n + 1
  BY <1>2, <1>3 DEF Numbered
<1>5. UNCHANGED <<scenario, captured>>
  BY DEF NewRequest, producer
<1>6. /\ LastSetting \in Int
      /\ \A r \in Numbered : Normal(r) => requests[r].setting <= LastSetting
  BY LastSettingTops DEF UnitTypeOK
<1>7. ~x.reprocess => x.setting \in Int /\ LastSetting < x.setting
  <2>1. ~x.reprocess => x.setting \in Int /\ x.setting - LastSetting >= 1
    BY <1>1 DEF AsksFor, Serial, Seqs
  <2>2. QED
    BY <1>6, <2>1
<1>8. x.reprocess =>
        scenario.zsl /\ x.setting \in captured /\ x.wants \cap StillPorts # {}
  BY <1>1, ReportedCaptured DEF AsksFor
<1>9. \A r \in Numbered' : r \in 1 .. n \/ r = n + 1
  BY <1>3, <1>4
<1>10. \A r \in 1 .. n : /\ Normal(r)' <=> Normal(r)
                         /\ requests'[r] = requests[r]
  BY <1>3 DEF Normal
<1>11. Normal(n + 1)' <=> ~x.reprocess
  BY <1>3 DEF Normal
<1>12. ASSUME NEW r \in Numbered', ~Normal(r)'
       PROVE  /\ scenario'.zsl /\ requests'[r].setting \in captured'
              /\ requests'[r].wants \cap StillPorts # {}
  <2>1. CASE r \in 1 .. n
    BY <1>4, <1>5, <1>10, <1>12, <2>1 DEF AskedOK
  <2>2. CASE r = n + 1
    BY <1>3, <1>5, <1>8, <1>11, <1>12, <2>2
  <2>3. QED
    BY <1>9, <2>1, <2>2
<1>13. ASSUME NEW q \in Numbered', NEW r \in Numbered', q < r, Normal(q)', Normal(r)'
       PROVE  requests'[q].setting < requests'[r].setting
  <2>1. CASE r \in 1 .. n
    <3>1. q \in 1 .. n
      BY <1>3, <1>4, <1>13, <2>1
    <3>2. QED
      BY <1>4, <1>10, <1>13, <2>1, <3>1 DEF AskedOK
  <2>2. CASE r = n + 1
    <3>1. q \in 1 .. n
      BY <1>3, <1>4, <1>13, <2>2
    <3>2. requests'[q].setting <= LastSetting /\ requests'[q].setting \in Int
      BY <1>4, <1>6, <1>10, <1>13, <3>1, NumberedIs DEF UnitTypeOK
    <3>3. requests'[r].setting \in Int /\ LastSetting < requests'[r].setting
      BY <1>3, <1>7, <1>11, <1>13, <2>2
    <3>4. QED
      BY <1>6, <3>2, <3>3
  <2>3. QED
    BY <1>9, <2>1, <2>2
<1>14. AskedOK'
  BY <1>12, <1>13 DEF AskedOK
<1>15. ASSUME NEW r \in Numbered' \ Numbered, Normal(r)'
       PROVE  LastSetting < requests'[r].setting /\ requests'[r].setting \in Int
  <2>1. r = n + 1
    BY <1>4, <1>9
  <2>2. QED
    BY <1>3, <1>7, <1>11, <1>15, <2>1
<1>16. QED
  BY <1>14, <1>15

-----------------------------------------------------------------------------
(* The frames that left the input queue.                                   *)

LEMMA PassedStays ==
    ASSUME AskTypeOK, Onward, NEW c, Passed(c), Taken \in Int, Taken' \in Int, Taken <= Taken',
           AskTypeOK',
           \A r \in Numbered' \ Numbered : Normal(r)' => c < requests'[r].setting
    PROVE  Passed(c)'
<1>1. ASSUME NEW r \in Numbered', r > Taken', Normal(r)' PROVE c < requests'[r].setting
  <2>1. CASE r \in Numbered
    <3>1. r \in Int /\ r > Taken
      BY <1>1, NumberedIs, <2>1
    <3>2. requests'[r] = requests[r] /\ Normal(r)
      BY <1>1, <2>1 DEF Onward, Normal
    <3>3. QED
      BY <2>1, <3>1, <3>2 DEF Passed
  <2>2. CASE r \notin Numbered
    BY <1>1, <2>2
  <2>3. QED
    BY <2>1, <2>2
<1>2. \E r \in Numbered' : Normal(r)' /\ c <= requests'[r].setting
  <2>1. PICK r \in Numbered : Normal(r) /\ c <= requests[r].setting
    BY DEF Passed
  <2>2. r \in Numbered' /\ requests'[r] = requests[r]
    BY DEF Onward
  <2>3. QED
    BY <2>1, <2>2 DEF Normal
<1>3. QED
  BY <1>1, <1>2 DEF Passed

LEMMA InputStays ==
    ASSUME InputOK, UNCHANGED <<captured, mInputQueue, seqOf>>, lastSeq \in Int,
           lastSeq' \in {lastSeq, lastSeq + 1}
    PROVE  InputOK' /\ \A c : Queues(c) => Queues(c)'
<1>1. ASSUME NEW c \in captured PROVE c <= lastSeq'
  <2>1. c \in Int /\ c <= lastSeq
    BY CapturedInt
  <2>2. QED
    BY <2>1
<1>2. QED
  BY <1>1 DEF InputOK, Queues

LEMMA InputCaptures ==
    ASSUME UnitTypeOK, FlightInv, InputOK, Capture
    PROVE  InputOK' /\ \A c : Queues(c) \/ c \in captured' \ captured => Queues(c)'
<1>1. PICK n : n = Len(mInputQueue)
  OBVIOUS
<1>2. /\ n \in Nat /\ Len(mInputQueue') = n + 1
      /\ \A k \in 1 .. n : /\ mInputQueue'[k] = mInputQueue[k]
                           /\ seqOf'[mInputQueue[k]] = seqOf[mInputQueue[k]]
      /\ lastSeq \in Int /\ lastSeq' = lastSeq + 1
  BY <1>1, CaptureQueues
<1>3. seqOf'[mInputQueue'[n + 1]] = lastSeq + 1
  BY <1>1, CaptureQueues
<1>4. captured' = captured \cup {lastSeq + 1} /\ lastSeq < MaxSeq
  BY DEF Capture
<1>5. lastSeq + 1 \in Seqs
  BY ProcessingAssumption, <1>2, <1>4 DEF UnitTypeOK, RawTypeOK, Seqs
<1>6. \A k \in 1 .. n : seqOf'[mInputQueue'[k]] = seqOf[mInputQueue[k]]
  BY <1>2
<1>7. ASSUME NEW k \in 1 .. n + 1 PROVE seqOf'[mInputQueue'[k]] \in captured'
  <2>1. CASE k \in 1 .. n
    BY <1>1, <1>4, <1>6, <2>1 DEF InputOK
  <2>2. CASE k = n + 1
    BY <1>3, <1>4, <2>2
  <2>3. QED
    BY <1>2, <2>1, <2>2
<1>8. \A c \in captured' : c <= lastSeq'
  <2>1. \A c \in captured : c \in Int /\ c <= lastSeq
    BY CapturedInt
  <2>2. \A c \in captured : c <= lastSeq + 1
    BY <1>2, <2>1
  <2>3. QED
    BY <1>2, <1>4, <2>2
<1>9. captured' \subseteq Seqs
  BY <1>4, <1>5 DEF InputOK
<1>10. InputOK'
  BY <1>2, <1>7, <1>8, <1>9 DEF InputOK
<1>11. ASSUME NEW c, Queues(c) PROVE Queues(c)'
  <2>1. PICK k \in 1 .. n : seqOf[mInputQueue[k]] = c
    BY <1>1, <1>11 DEF Queues
  <2>2. k \in 1 .. Len(mInputQueue')
    BY <1>2
  <2>3. QED
    BY <1>6, <2>1, <2>2 DEF Queues
<1>12. ASSUME NEW c \in captured' \ captured PROVE Queues(c)'
  <2>1. c = lastSeq + 1
    BY <1>4
  <2>2. PICK m : m = n + 1
    OBVIOUS
  <2>3. m \in 1 .. Len(mInputQueue') /\ seqOf'[mInputQueue'[m]] = c
    BY <1>2, <1>3, <2>1, <2>2
  <2>4. QED
    BY <2>3 DEF Queues
<1>13. QED
  BY <1>10, <1>11, <1>12

(* What prepareTask decides: r is the request of the row it looks at.      *)
LEMMA PopDecides ==
    ASSUME UnitTypeOK, StageInv, AskedOK, Plain, PrepareTask, NEW r, r = Taken + 1
    PROVE  /\ r \in Numbered /\ r \in Nat /\ Taken \in Nat
           /\ Taken' = IF RunsNow THEN r ELSE Taken
           /\ seqOf[pt.raw] \in Int /\ requests[r].setting \in Seqs /\ requests[r].setting \in Int
           /\ RunsNow <=> requests[r].setting <= seqOf[pt.raw]
           /\ HoldsNow <=> requests[r].setting < seqOf[pt.raw]
           /\ pt.pc = "pop" /\ pt.dst = Row(r) /\ pt.raw \in Raws
           /\ Reprocessed(pt.dst) = IF Normal(r) THEN -1 ELSE requests[r].setting
<1>1. AskTypeOK /\ PtTypeOK /\ FrontOK /\ RowOK /\ RawTypeOK
  BY DEF UnitTypeOK, StageInv
<1>2. pt.pc = "pop" /\ pt.pc \in Chooses /\ pt.raw \in Raws
  BY <1>1 DEF PrepareTask, Chooses, PtTypeOK
<1>3. /\ Setting(pt.dst) = FirstDue /\ FirstDue >= 0 /\ FirstDue \in Int /\ Taken < Len(requests)
      /\ Taken \in Nat /\ Len(requests) \in Nat
  BY <1>1, <1>2, SettingDue, RequestsTyped DEF RowOK
<1>4. r \in Numbered /\ r \in Nat /\ requests[r].setting = FirstDue
  BY <1>3 DEF FirstDue, Numbered
<1>5. requests[r].setting \in Seqs /\ requests[r].setting \in Int
  BY <1>1, <1>4, NumberedIs
<1>6. seqOf[pt.raw] \in Int
  BY <1>1, <1>2, ProcessingAssumption DEF RawTypeOK, Seqs
<1>7. RunsNow <=> requests[r].setting <= seqOf[pt.raw]
  BY <1>3, <1>4, <1>5, <1>6 DEF RunsNow, NeedExecutePipe
<1>8. HoldsNow <=> requests[r].setting < seqOf[pt.raw]
  BY <1>3, <1>4, <1>5, <1>6 DEF HoldsNow, Hold, NeedHoldOnInputFrame
<1>9. Taken' = IF RunsNow THEN r ELSE Taken
  BY <1>1, <1>3, PrepareRows
<1>10. pt.dst = Row(r)
  BY <1>1, <1>2 DEF RowOK
<1>11. \A p \in Ports : pt.dst[p] = IF p \in requests[r].wants THEN r ELSE None
  BY <1>10 DEF Row
<1> DEFINE still == {p \in StillPorts : pt.dst[p] # None}
<1>12. \A p \in still : pt.dst[p] = r
  BY <1>11, ProcessingAssumption
<1>13. Reprocessed(pt.dst) = IF scenario.zsl /\ still # {} /\ \E p \in still : requests[pt.dst[p]].reprocess
                             THEN requests[pt.dst[CHOOSE p \in still : TRUE]].setting ELSE -1
  BY DEF Reprocessed
<1>14. CASE Normal(r)
  <2>1. \A p \in still : ~requests[pt.dst[p]].reprocess
    BY <1>12, <1>14 DEF Normal
  <2>2. Reprocessed(pt.dst) = -1
    BY <1>13, <2>1
  <2>3. QED
    BY <1>2, <1>3, <1>4, <1>5, <1>6, <1>7, <1>8, <1>9, <1>10, <1>14, <2>2
<1>15. CASE ~Normal(r)
  <2>1. scenario.zsl /\ requests[r].wants \cap StillPorts # {} /\ requests[r].reprocess
    BY <1>4, <1>15 DEF AskedOK, Normal
  <2>2. PICK q \in StillPorts : q \in requests[r].wants
    BY <2>1
  <2>3. r # None
    BY <1>3 DEF None
  <2>4. q \in still
    BY <1>11, <2>2, <2>3, ProcessingAssumption
  <2>5. \E p \in still : requests[pt.dst[p]].reprocess
    BY <1>12, <2>1, <2>4
  <2>6. PICK x : x = CHOOSE p \in still : TRUE
    OBVIOUS
  <2>7. x \in still
    BY <2>4, <2>6
  <2>8. Reprocessed(pt.dst) = requests[pt.dst[x]].setting
    BY <1>13, <2>1, <2>4, <2>5, <2>6
  <2>9. Reprocessed(pt.dst) = requests[r].setting
    BY <1>12, <2>7, <2>8
  <2>10. QED
    BY <1>2, <1>3, <1>4, <1>5, <1>6, <1>7, <1>8, <1>9, <1>10, <1>15, <2>9
<1>16. QED
  BY <1>14, <1>15

(* The frame looked at is the oldest that waits.                           *)
LEMMA LookedAt ==
    ASSUME UnitTypeOK, FlightInv, InputOK, pt.pc \in Chooses
    PROVE  /\ seqOf[pt.raw] \in captured /\ mInputQueue # <<>> /\ pt.raw = mInputQueue[1]
           /\ \A c : Queues(c) => seqOf[pt.raw] <= c
<1>1. PICK q \in Seq(Raws) : q = mInputQueue
  BY DEF UnitTypeOK, RawTypeOK
<1>2. q # <<>> /\ Head(q) = pt.raw
  BY <1>1 DEF UnitTypeOK, FrontOK
<1>3. 1 \in 1 .. Len(q) /\ pt.raw = q[1]
  BY <1>2, HeadTailIs
<1>4. \A k \in 1 .. Len(q) : seqOf[q[k]] \in captured /\ seqOf[q[k]] \in Int
  <2>1. \A k \in 1 .. Len(q) : seqOf[q[k]] \in captured
    BY <1>1 DEF InputOK
  <2>2. QED
    BY <2>1, CapturedInt
<1>5. ASSUME NEW k \in 1 .. Len(q) PROVE seqOf[q[1]] <= seqOf[q[k]]
  <2>1. CASE k = 1
    BY <1>4, <2>1
  <2>2. CASE 1 < k
    <3>1. seqOf[q[1]] < seqOf[q[k]]
      BY <1>1, <1>3, <2>2 DEF FlightInv, QueueOK
    <3>2. QED
      BY <1>3, <1>4, <3>1
  <2>3. QED
    BY <2>1, <2>2
<1>6. QED
  BY <1>1, <1>2, <1>3, <1>4, <1>5 DEF Queues

LEMMA PrepareGone ==
    ASSUME UnitTypeOK, UnitTypeOK', FlightInv, StageInv, AskedOK, InputOK, GoneOK, Plain, PrepareTask
    PROVE  InputOK' /\ GoneOK'
<1>1. PICK r : r = Taken + 1
  OBVIOUS
<1>2. PICK s : s = seqOf[pt.raw]
  OBVIOUS
<1>3. /\ r \in Numbered /\ r \in Nat /\ Taken \in Nat
      /\ Taken' = IF RunsNow THEN r ELSE Taken
      /\ s \in Int /\ requests[r].setting \in Int
      /\ RunsNow <=> requests[r].setting <= s
      /\ HoldsNow <=> requests[r].setting < s
      /\ pt.pc = "pop"
      /\ Reprocessed(pt.dst) = IF Normal(r) THEN -1 ELSE requests[r].setting
      /\ requests[r].setting >= 0
  BY <1>1, <1>2, PopDecides DEF Seqs
<1>4. /\ UNCHANGED <<lastSeq, captured, seqOf, requests>>
      /\ mInputQueue' = IF ~HoldsNow /\ Reprocessed(pt.dst) = -1 THEN Tail(mInputQueue) ELSE mInputQueue
  BY PrepareExact DEF UnitTypeOK, asked
<1>5. PICK q \in Seq(Raws) : q = mInputQueue
  BY DEF UnitTypeOK, RawTypeOK
<1>6. q # <<>> /\ q[1] = pt.raw
  BY <1>2, <1>3, <1>5, LookedAt DEF Chooses
<1>7. /\ Len(q) \in Nat \ {0} /\ Len(Tail(q)) = Len(q) - 1
      /\ \A k \in 1 .. Len(q) - 1 : Tail(q)[k] = q[k + 1]
  BY <1>6, HeadTailIs
<1>8. \A k \in 1 .. Len(q) : seqOf[q[k]] \in captured
  BY <1>5 DEF InputOK
<1>9. CASE mInputQueue' = q
  <2>1. InputOK'
    BY <1>4, <1>5, <1>9 DEF InputOK
  <2>2. \A c : Queues(c) => Queues(c)'
    BY <1>4, <1>5, <1>9 DEF Queues
  <2>3. \A c : Passed(c) => Passed(c)'
    <3>1. Onward
      BY <1>4 DEF Onward, Numbered
    <3>2. Taken \in Int /\ Taken' \in Int /\ Taken <= Taken'
      BY <1>1, <1>3
    <3>3. Numbered' = Numbered
      BY <1>4 DEF Numbered
    <3>4. QED
      BY <3>1, <3>2, <3>3, PassedStays DEF UnitTypeOK
  <2>4. QED
    BY <1>4, <2>1, <2>2, <2>3 DEF GoneOK
<1>10. CASE mInputQueue' = Tail(q) /\ ~HoldsNow /\ Reprocessed(pt.dst) = -1
  <2>1. Normal(r) /\ s <= requests[r].setting
    BY <1>3, <1>10
  <2>2. InputOK'
    <3>1. \A k \in 1 .. Len(q) - 1 : seqOf[Tail(q)[k]] \in captured
      BY <1>7, <1>8
    <3>2. QED
      BY <1>4, <1>7, <1>10, <3>1 DEF InputOK
  <2>3. ASSUME NEW c, Queues(c) PROVE Queues(c)' \/ c = s
    <3>1. PICK k \in 1 .. Len(q) : seqOf[q[k]] = c
      BY <1>5, <2>3 DEF Queues
    <3>2. CASE k = 1
      BY <1>2, <1>6, <3>1, <3>2
    <3>3. CASE k # 1
      <4>1. PICK j : j = k - 1
        OBVIOUS
      <4>2. j \in 1 .. Len(q) - 1 /\ j + 1 = k
        BY <1>7, <3>3, <4>1
      <4>3. j \in 1 .. Len(mInputQueue') /\ seqOf'[mInputQueue'[j]] = c
        BY <1>4, <1>7, <1>10, <3>1, <4>2
      <4>4. QED
        BY <4>3 DEF Queues
    <3>4. QED
      BY <3>2, <3>3
  <2>4. Onward /\ Numbered' = Numbered
    BY <1>4 DEF Onward, Numbered
  <2>5. \A c : Passed(c) => Passed(c)'
    <3>1. Taken \in Int /\ Taken' \in Int /\ Taken <= Taken'
      BY <1>1, <1>3
    <3>2. QED
      BY <2>4, <3>1, PassedStays DEF UnitTypeOK
  <2>6. Passed(s)'
    <3>1. ASSUME NEW x \in Numbered, x > Taken', Normal(x) PROVE s < requests[x].setting
      <4>1. x \in Nat /\ requests[x].setting \in Int
        BY NumberedIs DEF UnitTypeOK
      <4>2. CASE x = r
        <5>1. ~RunsNow
          BY <1>3, <3>1, <4>1, <4>2
        <5>2. QED
          BY <1>3, <4>2, <5>1
      <4>3. CASE r < x
        <5>1. requests[r].setting < requests[x].setting
          BY <1>3, <2>1, <3>1, <4>3 DEF AskedOK
        <5>2. QED
          BY <1>3, <2>1, <4>1, <5>1
      <4>4. x = r \/ r < x
        BY <1>1, <1>3, <3>1, <4>1
      <4>5. QED
        BY <4>2, <4>3, <4>4
    <3>2. QED
      BY <1>3, <1>4, <2>1, <2>4, <3>1 DEF Passed, Normal
  <2>7. QED
    BY <1>4, <2>2, <2>3, <2>5, <2>6 DEF GoneOK
<1>11. QED
  BY <1>4, <1>5, <1>9, <1>10

LEMMA InputStep ==
    ASSUME UnitTypeOK, UnitTypeOK', FlightInv, StageInv, ServeInv, Plain, Serial, Onward, [Next]_vars
    PROVE  InputOK' /\ GoneOK'
<1>0. /\ InputOK /\ GoneOK /\ AskedOK /\ ServedOK /\ WorkOK
      /\ AskTypeOK /\ AskTypeOK' /\ RowOK /\ FrontOK /\ Taken \in Int /\ lastSeq \in Int
  <2>1. Taken \in Nat
    BY DEF StageInv, RowOK
  <2>2. QED
    BY <2>1, ProcessingAssumption DEF ServeInv, UnitTypeOK, StageInv, RawTypeOK, Seqs
<1>1. Quiet \/ Capture \/ LoseFrame \/ NewRequest \/ PrepareTask \/ AddTask
  BY QuietSteps
<1>2. CASE PrepareTask
  BY <1>0, <1>2, PrepareGone
<1>3. CASE Capture
  <2>1. UNCHANGED <<requests, feeding, mOutputQueue>>
    BY <1>3 DEF Capture, asked
  <2>2. Taken' = Taken /\ Numbered' = Numbered
    BY <2>1 DEF Taken, Fed, Numbered
  <2>3. \A c : Passed(c) => Passed(c)'
    BY <1>0, <2>2, PassedStays
  <2>4. InputOK' /\ \A c : Queues(c) \/ c \in captured' \ captured => Queues(c)'
    BY <1>0, <1>3, InputCaptures
  <2>5. QED
    BY <1>0, <2>3, <2>4 DEF GoneOK
<1>4. CASE NewRequest
  <2>1. UNCHANGED <<captured, mInputQueue, seqOf, lastSeq>>
    BY <1>4 DEF NewRequest, producer
  <2>2. Taken' = Taken
    BY <1>0, <1>4, NewRequestRows
  <2>3. InputOK' /\ \A c : Queues(c) => Queues(c)'
    BY <1>0, <2>1, InputStays
  <2>4. ASSUME NEW c \in captured, Passed(c) PROVE Passed(c)'
    <3>1. PICK q \in Numbered : Normal(q) /\ c <= requests[q].setting
      BY <2>4 DEF Passed
    <3>2. /\ requests[q].setting <= LastSetting /\ LastSetting \in Int
          /\ requests[q].setting \in Int /\ c \in Int
      BY <1>0, <3>1, LastSettingTops, NumberedIs, CapturedInt
    <3>3. ASSUME NEW r \in Numbered' \ Numbered, Normal(r)' PROVE c < requests'[r].setting
      <4>1. LastSetting < requests'[r].setting /\ requests'[r].setting \in Int
        BY <1>0, <1>4, <3>3, NewRequestAsked
      <4>2. QED
        BY <3>1, <3>2, <4>1
    <3>4. QED
      BY <1>0, <2>2, <2>4, <3>3, PassedStays
  <2>5. QED
    BY <1>0, <2>1, <2>3, <2>4 DEF GoneOK
<1>5. CASE Quiet \/ LoseFrame \/ AddTask
  <2>1. CASE Capture \/ NewRequest
    BY <1>3, <1>4, <2>1
  <2>2. CASE ~(Capture \/ NewRequest)
    <3>1. UNCHANGED <<requests, captured>>
      BY <2>2, AddingSteps
    <3>2. UNCHANGED <<mInputQueue, seqOf>> /\ lastSeq' \in {lastSeq, lastSeq + 1}
      BY <1>5 DEF Quiet, LoseFrame, AddTask, producer
    <3>3. Taken' = Taken
      <4>1. CASE Quiet
        BY <4>1 DEF Quiet
      <4>2. CASE LoseFrame \/ AddTask
        BY <4>2 DEF LoseFrame, AddTask, asked, Taken, Fed
      <4>3. QED
        BY <1>5, <4>1, <4>2
    <3>4. InputOK' /\ \A c : Queues(c) => Queues(c)'
      BY <1>0, <3>1, <3>2, InputStays
    <3>5. Numbered' = Numbered
      BY <3>1 DEF Numbered
    <3>6. \A c : Passed(c) => Passed(c)'
      BY <1>0, <3>3, <3>5, PassedStays
    <3>7. QED
      BY <1>0, <3>1, <3>4, <3>6 DEF GoneOK
  <2>3. QED
    BY <2>1, <2>2
<1>6. QED
  BY <1>1, <1>2, <1>3, <1>4, <1>5

-----------------------------------------------------------------------------
(* The work of the pipes.                                                  *)

LEMMA RightTaskStays ==
    ASSUME Onward, NEW t, RightTask(t)
    PROVE  RightTask(t)'
<1>1. ASSUME NEW p \in Writes(t) PROVE Right(p, t.dst[p], t.seq)'
  <2>1. Right(p, t.dst[p], t.seq)
    BY DEF RightTask
  <2>2. QED
    BY <2>1, RightStays
<1>2. QED
  BY <1>1 DEF RightTask, Writes

(* An entry that is right, by what it and those before it are.             *)
LEMMA EntryIs ==
    ASSUME NEW i, NEW k, NEW t, Line(i)'[k] = t, ~t.fake, RightTask(t)',
           \A j \in 1 .. k - 1 : Before(Line(i)'[j], t)
    PROVE  EntryRight(i, k)'
<1>1. RightTask(Line(i)[k])'
  BY DEF RightTask, Right, Normal, Numbered, Writes
<1>2. QED
  BY <1>1 DEF EntryRight, Before, Writes

LEMMA WorkStays ==
    ASSUME WorkOK, Onward, \A i \in Pipes : \E e : Moves(i, e),
           \A t \in ToSet(mOngoingTasks') : \E u \in ToSet(mOngoingTasks) : t.seq = u.seq
    PROVE  WorkOK'
<1>1. ASSUME NEW i \in Pipes, NEW k \in 1 .. Len(Line(i)') PROVE EntryRight(i, k)'
  <2>1. PICK e : Moves(i, e)
    OBVIOUS
  <2>2. PICK n \in Nat : n = Len(Line(i))
    BY <2>1 DEF Moves
  <2>3. /\ e \in {0, 1} /\ Len(Line(i)') = n - e
        /\ \A j \in 1 .. n - e : Line(i)'[j] = Line(i)[j + e]
    BY <2>1, <2>2 DEF Moves
  <2>4. k + e \in 1 .. n /\ Line(i)'[k] = Line(i)[k + e] /\ k \in Nat
    BY <2>2, <2>3
  <2>5. PICK t : t = Line(i)[k + e]
    OBVIOUS
  <2>6. EntryRight(i, k + e)
    BY <2>2, <2>4 DEF WorkOK
  <2>7. ~t.fake /\ RightTask(t) /\ \A j \in 1 .. (k + e) - 1 : Before(Line(i)[j], t)
    BY <2>5, <2>6 DEF EntryRight
  <2>8. ASSUME NEW j \in 1 .. k - 1 PROVE Before(Line(i)'[j], t)
    <3>1. j + e \in 1 .. (k + e) - 1 /\ j \in 1 .. n - e
      BY <2>2, <2>3, <2>4
    <3>2. QED
      BY <2>3, <2>7, <3>1
  <2>9. RightTask(t)'
    BY <2>7, RightTaskStays
  <2>10. QED
    BY <2>4, <2>5, <2>7, <2>8, <2>9, EntryIs
<1>2. \A t \in ToSet(mOngoingTasks') : t.seq \in captured'
  BY DEF WorkOK, Onward
<1>3. QED
  BY <1>1, <1>2 DEF WorkOK

(* The task that is added is right.                                        *)
LEMMA NewTaskRight ==
    ASSUME UnitTypeOK, StageInv, JobsOK, AddTask
    PROVE  /\ RightTask(NewTask) /\ NewTask.seq \in captured /\ ~NewTask.fake
           /\ NewTask.dst = pt.todo[1].dst
<1>1. pt.pc = "add" /\ pt.pc \in Runs
  BY DEF AddTask, Runs
<1>2. 1 \in 1 .. Len(pt.todo) /\ Head(pt.todo) = pt.todo[1]
  <2>1. pt.todo \in Seq(Jobs) /\ Len(pt.todo) >= 1 /\ Head(pt.todo) = pt.todo[1]
    BY <1>1, TodoTail
  <2>2. QED
    BY <2>1
<1>3. pt.todo[1].kind # "fake"
  BY <1>1 DEF StageInv, TodoRowOK
<1>4. JobRight(pt.todo[1]) /\ seqOf[pt.src] = pt.todo[1].seq
  BY <1>1, <1>2 DEF JobsOK
<1>5. NewTask.dst = pt.todo[1].dst /\ NewTask.seq = pt.todo[1].seq /\ NewTask.fake = FALSE
  BY <1>2, <1>3, <1>4 DEF NewTask
<1>6. pt.todo[1].seq \in captured /\ RightTask(pt.todo[1])
  BY <1>3, <1>4 DEF JobRight
<1>7. RightTask(NewTask)
  BY <1>5, <1>6 DEF RightTask, Writes
<1>8. QED
  BY <1>5, <1>6, <1>7

LEMMA AddWork ==
    ASSUME UnitTypeOK, StageInv, FlightInv, WorkOK, JobsOK, Onward, AddTask
    PROVE  WorkOK'
<1>0. LineTypeOK /\ TodoRowOK /\ FreshOK /\ RowOK /\ scenario \in Scenarios /\ TaskTypeOK
  BY DEF StageInv, FlightInv, UnitTypeOK
<1>1. NewTask \in Tasks /\ RightTask(NewTask) /\ NewTask.seq \in captured /\ ~NewTask.fake
  BY AddExact, NewTaskRight
<1>2. PICK r \in Nat \ {0} : r = Taken
  BY <1>0, NewWritesNew
<1>3. ASSUME NEW i \in Pipes, NEW k \in 1 .. Len(Line(i)') PROVE EntryRight(i, k)'
  <2>1. PICK c \in Nat : c = Len(Line(i))
    BY <1>0, AddLines
  <2>2. /\ Len(Line(i)') = c + (IF i \in Active(NewTask) THEN 1 ELSE 0)
        /\ \A j \in 1 .. c : Line(i)'[j] = Line(i)[j]
    BY <1>0, <2>1, AddLines
  <2>3. CASE k \in 1 .. c
    <3>1. PICK t : t = Line(i)[k]
      OBVIOUS
    <3>2. ~t.fake /\ RightTask(t) /\ \A j \in 1 .. k - 1 : Before(Line(i)[j], t)
      BY <2>1, <2>3, <3>1 DEF WorkOK, EntryRight
    <3>3. \A j \in 1 .. k - 1 : Line(i)'[j] = Line(i)[j]
      BY <2>1, <2>2, <2>3
    <3>4. RightTask(t)'
      BY <3>2, RightTaskStays
    <3>5. Line(i)'[k] = t
      BY <2>2, <2>3, <3>1
    <3>6. QED
      BY <3>2, <3>3, <3>4, <3>5, EntryIs
  <2>4. CASE k \notin 1 .. c
    <3>1. i \in Active(NewTask) /\ k = c + 1
      BY <2>1, <2>2, <2>4
    <3>2. PICK t : t = PieceOf(i)
      OBVIOUS
    <3>3. Line(i)'[k] = t
      BY <1>0, <2>1, <3>1, <3>2, AddLines
    <3>4. /\ t.seq = NewTask.seq /\ t.fake = NewTask.fake
          /\ \A p \in Ports : t.dst[p] = IF PipeOf(p) = i THEN NewTask.dst[p] ELSE None
      BY <1>1, <3>2, PieceIs
    <3>5. \A p \in Writes(t) : p \in Writes(NewTask) /\ t.dst[p] = NewTask.dst[p] /\ PipeOf(p) = i
      BY <3>4 DEF Writes
    <3>6. RightTask(t)
      BY <1>1, <3>4, <3>5 DEF RightTask
    <3>7. RightTask(t)'
      BY <3>6, RightTaskStays
    <3>8. ASSUME NEW j \in 1 .. k - 1 PROVE Before(Line(i)'[j], t)
      <4>1. j \in 1 .. c /\ Line(i)'[j] = Line(i)[j]
        BY <2>1, <2>2, <3>1
      <4>2. ASSUME NEW p \in Writes(t) PROVE Line(i)[j].dst[p] < t.dst[p]
        <5>1. p \in Ports /\ p \in Writes(NewTask) /\ t.dst[p] = NewTask.dst[p] /\ PipeOf(p) = i
          BY <3>5 DEF Writes
        <5>2. NewTask.dst[p] = r /\ Writes(NewTask) = Writes(pt.todo[1])
          BY <1>0, <1>2, <5>1, NewWritesNew DEF NewWrites
        <5>3. pt.pc \in Runs /\ 1 \in 1 .. Len(pt.todo)
          <6>1. pt.pc \in Runs
            BY DEF AddTask, Runs
          <6>2. QED
            BY <6>1, TodoTail
        <5>4. Upto(p, r - 1)
          BY <1>0, <1>2, <5>1, <5>2, <5>3 DEF FreshOK
        <5>5. Line(i)[j].dst[p] <= r - 1
          BY <2>1, <4>1, <5>1, <5>4 DEF Upto
        <5>6. Line(i)[j].dst[p] \in Int
          BY <1>0, <2>1, <4>1, <5>1, DstTyped
        <5>7. QED
          BY <5>1, <5>2, <5>5, <5>6
      <4>3. QED
        BY <4>1, <4>2 DEF Before
    <3>9. QED
      BY <1>1, <3>3, <3>4, <3>7, <3>8, EntryIs
  <2>5. QED
    BY <2>3, <2>4
<1>4. ASSUME NEW t \in ToSet(mOngoingTasks') PROVE t.seq \in captured'
  <2>1. PICK m \in Nat : m = Len(mOngoingTasks)
    BY AddedTasks
  <2>2. PICK n \in 1 .. m + 1 :
                /\ DOMAIN mOngoingTasks' = 1 .. m + 1
                /\ mOngoingTasks'[n] = NewTask
                /\ \A k \in 1 .. n - 1 : mOngoingTasks'[k] = mOngoingTasks[k]
                /\ \A k \in n .. m : mOngoingTasks'[k + 1] = mOngoingTasks[k]
    BY <2>1, AddedTasks
  <2>3. PICK k \in 1 .. m + 1 : t = mOngoingTasks'[k]
    BY <1>4, <2>2 DEF ToSet
  <2>4. \A j \in 1 .. m : mOngoingTasks[j].seq \in captured
    <3>1. DOMAIN mOngoingTasks = 1 .. m
      BY <1>0, <2>1 DEF TaskTypeOK
    <3>2. QED
      BY <3>1 DEF WorkOK, ToSet
  <2>5. captured \subseteq captured'
    BY DEF Onward
  <2>6. CASE k = n
    BY <1>1, <2>2, <2>3, <2>5, <2>6
  <2>7. CASE k < n
    <3>1. k \in 1 .. n - 1 /\ k \in 1 .. m
      BY <2>1, <2>7
    <3>2. QED
      BY <2>2, <2>3, <2>4, <2>5, <3>1
  <2>8. CASE k > n
    <3>1. PICK j : j = k - 1
      OBVIOUS
    <3>2. j \in n .. m /\ j \in 1 .. m /\ j + 1 = k
      BY <2>1, <2>8, <3>1
    <3>3. mOngoingTasks'[k] = mOngoingTasks[j]
      BY <2>2, <3>2
    <3>4. QED
      BY <2>3, <2>4, <2>5, <3>2, <3>3
  <2>9. QED
    BY <2>1, <2>6, <2>7, <2>8
<1>5. QED
  BY <1>3, <1>4 DEF WorkOK

-----------------------------------------------------------------------------
(* The jobs for the frame looked at.                                       *)

LEMMA JobRightStays ==
    ASSUME Onward, NEW job, JobRight(job), pt'.dst = pt.dst, seqOf'[pt'.raw] = seqOf[pt.raw]
    PROVE  JobRight(job)'
<1>1. job.kind # "fake" => job.seq \in captured' /\ RightTask(job)'
  BY RightTaskStays DEF JobRight, Onward
<1>2. QED
  BY <1>1 DEF JobRight

LEMMA JobIs ==
    ASSUME NEW k, NEW job, pt'.todo[k] = job, JobRight(job)'
    PROVE  JobRight(pt.todo[k])'
BY DEF JobRight, RightTask, Right, Normal, Numbered, Writes

LEMMA JobsStay ==
    ASSUME JobsOK, Onward,
           pt'.pc \in Runs => /\ pt.pc \in Runs /\ pt' = pt /\ seqOf'[pt.raw] = seqOf[pt.raw]
                              /\ pt.pc # "fetch" => seqOf'[pt.src] = seqOf[pt.src]
    PROVE  JobsOK'
<1> SUFFICES ASSUME pt'.pc \in Runs
             PROVE  /\ \A k \in 1 .. Len(pt'.todo) : JobRight(pt.todo[k])'
                    /\ pt'.pc # "fetch" => seqOf'[pt'.src] = pt'.todo[1].seq
                    /\ pt'.pc = "fetch" /\ (\E k \in 1 .. Len(pt'.todo) : pt'.todo[k].kind = "zsl") =>
                         \A k \in 1 .. Len(pt'.todo) : Whole(pt.todo[k])'
  BY DEF JobsOK
<1>1. pt' = pt /\ pt.pc \in Runs
  OBVIOUS
<1>2. ASSUME NEW k \in 1 .. Len(pt'.todo) PROVE JobRight(pt.todo[k])'
  <2>1. PICK job : job = pt.todo[k]
    OBVIOUS
  <2>2. JobRight(job)
    BY <1>1, <1>2, <2>1 DEF JobsOK
  <2>3. JobRight(job)'
    BY <1>1, <2>2, JobRightStays
  <2>4. pt'.todo[k] = job
    BY <1>1, <2>1
  <2>5. QED
    BY <2>3, <2>4, JobIs
<1>3. QED
  BY <1>1, <1>2 DEF JobsOK, Whole

(* The jobs made for a frame are right: no frame between its settings and  *)
(* this one is left.                                                       *)
LEMMA FirstUsable ==
    ASSUME UnitTypeOK, FlightInv, StageInv, AskedOK, InputOK, GoneOK, Plain, PrepareTask, RunsNow,
           NEW r, r = Taken + 1, NEW p \in requests[r].wants
    PROVE  Right(p, r, seqOf[pt.raw])
<1>1. PICK s : s = seqOf[pt.raw]
  OBVIOUS
<1>2. /\ r \in Numbered /\ r \in Nat /\ Taken \in Nat
      /\ s \in Int /\ requests[r].setting \in Int
      /\ requests[r].setting <= s /\ pt.pc \in Chooses
  BY <1>1, PopDecides DEF Chooses
<1>3. s \in captured /\ \A c : Queues(c) => s <= c
  BY <1>1, <1>2, LookedAt
<1>4. ASSUME Normal(r), NEW c \in captured, requests[r].setting <= c PROVE s <= c
  <2>1. CASE Queues(c)
    BY <1>3, <2>1
  <2>2. CASE Passed(c)
    <3>1. r > Taken
      BY <1>2
    <3>2. c < requests[r].setting
      BY <1>2, <1>4, <2>2, <3>1 DEF Passed
    <3>3. c \in Int
      BY <1>4, CapturedInt
    <3>4. QED
      BY <1>2, <1>4, <3>2, <3>3
  <2>3. QED
    BY <1>4, <2>1, <2>2 DEF GoneOK
<1>5. QED
  BY <1>1, <1>2, <1>3, <1>4 DEF Right

LEMMA PrepareJobs ==
    ASSUME UnitTypeOK, UnitTypeOK', FlightInv, StageInv, AskedOK, InputOK, GoneOK, Plain, PrepareTask,
           RunsNow
    PROVE  JobsOK' /\ \A p \in requests[Taken + 1].wants \cap Ports : Pending(p)'
<1>1. PICK r : r = Taken + 1
  OBVIOUS
<1>2. PICK s : s = seqOf[pt.raw]
  OBVIOUS
<1>3. PICK z : z = Reprocessed(pt.dst)
  OBVIOUS
<1>4. /\ r \in Numbered /\ r \in Nat /\ Taken \in Nat
      /\ s \in Int /\ requests[r].setting \in Seqs /\ requests[r].setting \in Int
      /\ requests[r].setting <= s
      /\ pt.pc = "pop" /\ pt.dst = Row(r) /\ pt.raw \in Raws
      /\ z = IF Normal(r) THEN -1 ELSE requests[r].setting
  BY <1>1, <1>2, <1>3, PopDecides
<1>5. s \in captured
  BY <1>2, <1>4, LookedAt DEF Chooses
<1>6. /\ pt'.pc = "fetch" /\ pt'.raw = pt.raw /\ pt'.dst = pt.dst
      /\ UNCHANGED <<requests, captured, seqOf>>
  BY PrepareExact DEF UnitTypeOK, asked
<1>7. PICK d : d = pt.dst
  OBVIOUS
<1>8. PICK o : o = Only(StillPorts, pt.dst)
  OBVIOUS
<1>9. \A p \in Ports : /\ d[p] = IF p \in requests[r].wants THEN r ELSE None
                       /\ o[p] = IF p \in StillPorts THEN d[p] ELSE None
  BY <1>4, <1>7, <1>8 DEF Row, Only
<1>10. \A p \in Ports : \A x \in {d, o} : x[p] # None => p \in requests[r].wants /\ x[p] = r
  BY <1>9
<1>11. \A p \in requests[r].wants : Right(p, r, s)
  BY <1>1, <1>2, FirstUsable
<1>12. ~Normal(r) => z \in captured /\ \A p \in requests[r].wants : Right(p, r, z)
  <2>1. SUFFICES ASSUME ~Normal(r) PROVE z \in captured /\ \A p \in requests[r].wants : Right(p, r, z)
    OBVIOUS
  <2>2. z = requests[r].setting /\ z \in captured
    BY <1>4, <2>1 DEF AskedOK
  <2>3. QED
    BY <1>4, <2>1, <2>2 DEF Right
<1> DEFINE S == {j \in [kind : {"main", "zsl", "fake"}, seq : Int, dst : {d, o}] :
                   /\ j.kind = "main" => j.seq = s /\ j.dst = d
                   /\ j.kind = "zsl" => ~Normal(r) /\ j.seq = z /\ j.dst = o}
<1>13. \A q \in Int : Job("fake", q, o) \in S
  BY DEF Job
<1>14. z >= 0 => Job("zsl", z, o) \in S
  BY <1>4 DEF Job
<1>15. Job("main", s, d) \in S
  BY <1>4 DEF Job
<1>16. pt'.todo \in Seq(S)
  <2> HIDE DEF S
  <2>1. QED
    BY <1>2, <1>3, <1>7, <1>8, <1>13, <1>14, <1>15, PreparedTodo
<1>17. ASSUME NEW j \in S PROVE JobRight(j)' /\ Whole(j)'
  <2>1. j.dst \in {d, o} /\ j.kind \in {"main", "zsl", "fake"}
    OBVIOUS
  <2>2. j.kind = "main" => j.seq = seqOf'[pt'.raw] /\ j.dst = pt'.dst
    BY <1>2, <1>6, <1>7
  <2>3. j.kind = "zsl" => j.dst = Only(StillPorts, pt'.dst)
    BY <1>6, <1>8
  <2>4. j.kind # "fake" => \A p \in requests[r].wants : Right(p, r, j.seq)
    BY <1>11, <1>12, <2>1
  <2>5. j.kind # "fake" => j.seq \in captured
    BY <1>5, <1>12, <2>1
  <2>6. j.kind # "fake" => RightTask(j)
    BY <1>10, <2>1, <2>4 DEF RightTask, Writes
  <2>7. Onward
    BY <1>6 DEF Onward, Numbered
  <2>8. j.kind # "fake" => RightTask(j)'
    BY <2>6, <2>7, RightTaskStays
  <2>9. QED
    BY <1>6, <2>2, <2>3, <2>5, <2>8 DEF JobRight, Whole
<1> HIDE DEF S
<1>18. PICK todo \in Seq(S) : todo = pt'.todo
  BY <1>16
<1>19. \A k \in 1 .. Len(todo) : JobRight(todo[k])' /\ Whole(todo[k])'
  BY <1>17, <1>18

<1>20. ASSUME NEW k \in 1 .. Len(pt'.todo) PROVE JobRight(pt.todo[k])' /\ Whole(pt.todo[k])'
  <2>1. PICK j : j = pt'.todo[k]
    OBVIOUS
  <2>2. JobRight(j)' /\ Whole(j)'
    BY <1>18, <1>19, <2>1
  <2>3. JobRight(pt.todo[k])'
    BY <2>1, <2>2, JobIs
  <2>4. Whole(pt.todo[k])'
    BY <2>1, <2>2 DEF Whole
  <2>5. QED
    BY <2>3, <2>4
<1>21. JobsOK'
  BY <1>6, <1>20 DEF JobsOK
<1>22. ASSUME NEW p \in requests[r].wants, p \in Ports PROVE Pending(p)'
  <2>1. todo # <<>> /\ todo[Len(todo)].kind = "main"
    BY <1>6, <1>18 DEF UnitTypeOK, TodoOK, Runs
  <2>2. Len(todo) \in 1 .. Len(todo)
    BY <2>1
  <2>3. PICK k \in 1 .. Len(todo) : k = Len(todo)
    BY <2>2
  <2>4. todo[k].kind = "main" /\ todo[k].dst = d
    BY <1>6, <1>7, <1>19, <2>1, <2>3 DEF Whole
  <2>5. d[p] # None
    BY <1>1, <1>4, <1>9, <1>22 DEF None
  <2>6. p \in Writes(todo[k])
    BY <1>22, <2>4, <2>5 DEF Writes
  <2>7. QED
    BY <1>6, <1>18, <2>4, <2>6 DEF Pending, Runs, Writes
<1>23. QED
  BY <1>1, <1>21, <1>22

(* What is left for the frame's own task.                                  *)
LEMMA RestExact ==
    ASSUME OneStill, NEW todo \in Seq(Jobs), Len(todo) = 1, todo[1].kind = "main"
    PROVE  \/ Rest(todo) = <<>> /\ \A p \in Ports \ StillPorts : todo[1].dst[p] = None
           \/ \E j : /\ Rest(todo) = <<j>> /\ j.kind = "main" /\ j.seq = todo[1].seq
                     /\ j.dst = Only(Ports \ StillPorts, todo[1].dst)
<1>1. todo[1] \in Jobs /\ Head(todo) = todo[1]
  OBVIOUS
<1>2. PICK h \in Jobs : h = todo[1]
  BY <1>1
<1>3. PICK d : d = Only(Ports \ StillPorts, h.dst)
  OBVIOUS
<1>4. Rest(todo) = IF \A p \in Ports : d[p] = None THEN <<>> ELSE <<[h EXCEPT !.dst = d]>>
  <2>1. Head(todo).dst \in Asked
    BY <1>1 DEF Jobs
  <2>2. QED
    BY <1>1, <1>2, <1>3, <2>1, RestOfOneStill
<1>5. CASE \A p \in Ports : d[p] = None
  <2>1. \A p \in Ports \ StillPorts : h.dst[p] = None
    BY <1>3, <1>5 DEF Only
  <2>2. QED
    BY <1>2, <1>4, <1>5, <2>1
<1>6. CASE ~(\A p \in Ports : d[p] = None)
  <2>1. PICK j : j = [h EXCEPT !.dst = d]
    OBVIOUS
  <2>2. j.kind = h.kind /\ j.seq = h.seq /\ j.dst = d
    BY <1>2, <2>1 DEF Jobs
  <2>3. Rest(todo) = <<j>>
    BY <1>4, <1>6, <2>1
  <2>4. QED
    BY <1>2, <1>3, <2>2, <2>3
<1>7. QED
  BY <1>5, <1>6

(* A part of a job that is right is right.                                 *)
LEMMA PartRight ==
    ASSUME NEW t, NEW u, NEW ports, RightTask(t), u.seq = t.seq, u.dst = Only(ports, t.dst)
    PROVE  RightTask(u)
<1>1. \A p \in Writes(u) : p \in Writes(t) /\ u.dst[p] = t.dst[p]
  BY DEF Writes, Only
<1>2. QED
  BY <1>1 DEF RightTask

LEMMA FetchJobs ==
    ASSUME OneStill, UnitTypeOK, UnitTypeOK', FlightInv, FlightInv', StageInv, JobsOK, Onward, FetchSource
    PROVE  JobsOK' /\ \A p \in Ports : Pending(p)' <=> Pending(p)
<1>1. /\ pt.pc = "fetch" /\ PtTypeOK /\ pt.pc \in Runs
      /\ pt.todo \in Seq(Jobs) /\ Len(pt.todo) >= 1
      /\ Head(pt.todo) = pt.todo[1] /\ Head(pt.todo) \in Jobs
      /\ Tail(pt.todo) \in Seq(Jobs) /\ Len(Tail(pt.todo)) = Len(pt.todo) - 1
      /\ \A k \in 1 .. Len(pt.todo) - 1 : Tail(pt.todo)[k] = pt.todo[k + 1]
  BY TodoTail DEF FetchSource, Runs, UnitTypeOK
<1>2. UNCHANGED <<seqOf, captured, requests>>
  BY DEF FetchSource, producer, asked
<1>3. PICK todo \in Seq(Jobs) : todo = pt.todo
  BY <1>1
<1>4. PICK n \in Nat : n = Len(todo)
  BY <1>1, <1>3
<1>5. /\ n >= 1 /\ Len(Tail(todo)) = n - 1 /\ Tail(todo) \in Seq(Jobs)
      /\ \A k \in 1 .. n - 1 : Tail(todo)[k] = todo[k + 1]
  BY <1>1, <1>3, <1>4
<1>6. \A k \in 1 .. n : JobRight(todo[k])
  BY <1>1, <1>3, <1>4 DEF JobsOK
<1>7. (\E k \in 1 .. n : todo[k].kind = "zsl") => \A k \in 1 .. n : Whole(todo[k])
  BY <1>1, <1>3, <1>4 DEF JobsOK
<1>8. /\ todo[n].kind = "main"
      /\ \A k \in 1 .. n : todo[k].kind = "main" => k = n
      /\ \A k \in 1 .. n : todo[k].kind = "zsl" => k + 1 >= n
  BY <1>1, <1>3, <1>4 DEF UnitTypeOK, TodoOK
<1>9. \A p : Pending(p) <=> \E k \in 1 .. n : todo[k].kind # "fake" /\ p \in Writes(todo[k])
  BY <1>1, <1>3, <1>4 DEF Pending
<1>10. PICK d : d = pt.dst
  OBVIOUS
<1>11. \/ pt' = [pt EXCEPT !.todo = Tail(@)]
       \/ /\ Head(pt.todo).kind = "zsl"
          /\ \E b \in mRawBufferMap :
               /\ seqOf[b] = Head(pt.todo).seq
               /\ pt' = [pt EXCEPT !.pc = "add", !.src = b,
                                   !.todo = <<Head(pt.todo)>> \o Rest(Tail(pt.todo))]
       \/ \E b \in Raws :
            /\ Head(pt.todo).kind = "main" => b = pt.raw
            /\ pt' = [pt EXCEPT !.pc = "dispatch", !.src = b]
  BY FetchFinds
<1>12. CASE pt' = [pt EXCEPT !.todo = Tail(@)]
  <2>1. pt'.todo = Tail(todo) /\ pt'.pc = "fetch" /\ pt'.raw = pt.raw /\ pt'.dst = pt.dst
    BY <1>1, <1>3, <1>12 DEF PtTypeOK
  <2>2. \A k \in 1 .. n - 1 : pt'.todo[k] = todo[k + 1] /\ k + 1 \in 1 .. n
    BY <1>5, <2>1
  <2>3. Len(pt'.todo) = n - 1
    BY <1>5, <2>1
  <2>4. n > 1
    <3>1. pt'.todo # <<>>
      BY <2>1 DEF UnitTypeOK, TodoOK, Runs
    <3>2. Len(Tail(todo)) # 0
      BY <1>5, <2>1, <3>1
    <3>3. QED
      BY <1>5, <3>2
  <2>5. ASSUME NEW k \in 1 .. Len(pt'.todo) PROVE JobRight(pt.todo[k])'
    <3>1. PICK job : job = pt'.todo[k]
      OBVIOUS
    <3>2. JobRight(job)
      BY <1>6, <2>2, <2>3, <3>1
    <3>3. JobRight(job)'
      BY <1>2, <2>1, <3>2, JobRightStays
    <3>4. QED
      BY <3>1, <3>3, JobIs
  <2>6. ASSUME NEW j \in 1 .. Len(pt'.todo), pt'.todo[j].kind = "zsl", NEW k \in 1 .. Len(pt'.todo)
        PROVE  Whole(pt.todo[k])'
    <3>1. Whole(todo[k + 1])
      BY <1>7, <2>2, <2>3, <2>6
    <3>2. pt'.todo[k] = todo[k + 1]
      BY <2>2, <2>3
    <3>3. QED
      BY <2>1, <3>1, <3>2 DEF Whole
  <2>7. JobsOK'
    BY <2>1, <2>5, <2>6 DEF JobsOK
  <2>8. \A p : Pending(p)' <=> \E k \in 1 .. n - 1 : todo[k + 1].kind # "fake" /\ p \in Writes(todo[k + 1])
    BY <2>1, <2>2, <2>3 DEF Pending, Runs, Writes
  <2>9. ASSUME NEW p, Pending(p)' PROVE Pending(p)
    BY <1>9, <2>2, <2>8, <2>9
  <2>10. ASSUME NEW p \in Ports, Pending(p) PROVE Pending(p)'
    <3>1. PICK k \in 1 .. n : todo[k].kind # "fake" /\ p \in Writes(todo[k])
      BY <1>9, <2>10
    <3>2. CASE k = 1
      <4>1. todo[1].kind = "zsl"
        <5>1. todo[1] \in Jobs
          BY <1>4, <1>5
        <5>2. todo[1].kind # "main"
          BY <1>4, <1>8, <2>4, <3>2
        <5>3. QED
          BY <3>1, <3>2, <5>1, <5>2 DEF Jobs
      <4>2. todo[1].dst = Only(StillPorts, d) /\ todo[n].dst = d
        <5>1. JobRight(todo[1]) /\ Whole(todo[n])
          BY <1>4, <1>5, <1>6, <1>7, <4>1
        <5>2. QED
          BY <1>8, <1>10, <4>1, <5>1 DEF JobRight, Whole
      <4>3. p \in Writes(todo[n])
        BY <2>10, <3>1, <3>2, <4>2 DEF Writes, Only
      <4>4. PICK j : j = n - 1
        OBVIOUS
      <4>5. j \in 1 .. n - 1 /\ j + 1 = n
        BY <1>4, <2>4, <4>4
      <4>6. todo[n].kind # "fake"
        BY <1>8
      <4>7. QED
        BY <2>8, <4>3, <4>5, <4>6
    <3>3. CASE k # 1
      <4>1. PICK j : j = k - 1
        OBVIOUS
      <4>2. j \in 1 .. n - 1 /\ j + 1 = k
        BY <1>4, <3>3, <4>1
      <4>3. QED
        BY <2>8, <3>1, <4>2
    <3>4. QED
      BY <3>2, <3>3
  <2>11. QED
    BY <2>7, <2>9, <2>10
<1>13. CASE \E b \in Raws :
              /\ Head(pt.todo).kind = "main" => b = pt.raw
              /\ pt' = [pt EXCEPT !.pc = "dispatch", !.src = b]
  <2>1. PICK b \in Raws :
              /\ Head(pt.todo).kind = "main" => b = pt.raw
              /\ pt' = [pt EXCEPT !.pc = "dispatch", !.src = b]
    BY <1>13
  <2>2. /\ pt'.todo = todo /\ pt'.pc = "dispatch" /\ pt'.raw = pt.raw /\ pt'.dst = pt.dst
        /\ pt'.src = b
    BY <1>1, <1>3, <2>1 DEF PtTypeOK
  <2>3. Head(todo).kind = "main" /\ Head(todo) = todo[1]
    <3>1. Head(pt'.todo).kind = "main"
      BY <2>2 DEF FlightInv, OwnOK, KeptOK
    <3>2. QED
      BY <1>1, <1>3, <2>2, <3>1
  <2>4. ASSUME NEW k \in 1 .. n PROVE JobRight(pt.todo[k])'
    <3>1. PICK job : job = todo[k]
      OBVIOUS
    <3>2. JobRight(job)'
      BY <1>2, <1>6, <2>2, <3>1, JobRightStays
    <3>3. QED
      BY <2>2, <3>1, <3>2, JobIs
  <2>5. seqOf'[pt'.src] = pt'.todo[1].seq
    <3>1. b = pt.raw
      BY <1>3, <2>1, <2>3
    <3>2. todo[1].seq = seqOf[pt.raw]
      BY <1>4, <1>5, <1>6, <2>3 DEF JobRight
    <3>3. QED
      BY <1>2, <2>2, <3>1, <3>2
  <2>6. JobsOK'
    BY <1>4, <2>2, <2>4, <2>5 DEF JobsOK
  <2>7. \A p : Pending(p)' <=> Pending(p)
    BY <1>4, <1>9, <2>2 DEF Pending, Runs, Writes
  <2>8. QED
    BY <2>6, <2>7
<1>14. CASE /\ Head(pt.todo).kind = "zsl"
            /\ \E b \in mRawBufferMap :
                 /\ seqOf[b] = Head(pt.todo).seq
                 /\ pt' = [pt EXCEPT !.pc = "add", !.src = b,
                                     !.todo = <<Head(pt.todo)>> \o Rest(Tail(pt.todo))]
  <2>1. PICK b \in mRawBufferMap :
                 /\ seqOf[b] = Head(pt.todo).seq
                 /\ pt' = [pt EXCEPT !.pc = "add", !.src = b,
                                     !.todo = <<Head(pt.todo)>> \o Rest(Tail(pt.todo))]
    BY <1>14
  <2>2. PICK h : h = todo[1]
    OBVIOUS
  <2>3. h.kind = "zsl" /\ Head(pt.todo) = h
    BY <1>1, <1>3, <1>14, <2>2
  <2>4. PICK rest \in Seq(Jobs) : rest = Tail(todo)
    BY <1>5
  <2>5. /\ pt'.todo = <<h>> \o Rest(rest) /\ pt'.pc = "add" /\ pt'.raw = pt.raw /\ pt'.dst = pt.dst
        /\ pt'.src = b /\ seqOf[b] = h.seq
    BY <1>1, <1>3, <2>1, <2>3, <2>4 DEF PtTypeOK
  <2>6. n = 2
    <3>1. 2 >= n
      BY <1>4, <1>5, <1>8, <2>2, <2>3
    <3>2. n # 1
      BY <1>8, <2>2, <2>3
    <3>3. QED
      BY <1>4, <1>5, <3>1, <3>2
  <2>7. Len(rest) = 1 /\ rest[1] = todo[2] /\ todo[2].kind = "main"
    BY <1>5, <1>8, <2>4, <2>6
  <2>8. JobRight(h) /\ JobRight(todo[2]) /\ Whole(todo[2])
    BY <1>6, <1>7, <2>2, <2>3, <2>6
  <2>9. /\ h.dst = Only(StillPorts, d) /\ todo[2].dst = d /\ todo[2].seq = seqOf[pt.raw]
        /\ RightTask(todo[2]) /\ todo[2].seq \in captured
    BY <1>10, <2>3, <2>7, <2>8 DEF JobRight, Whole
  <2>10. \A p \in Ports : Pending(p) <=> d[p] # None
    <3>1. \A k \in 1 .. 2 : k = 1 \/ k = 2
      OBVIOUS
    <3>2. \A p \in Ports : h.dst[p] # None => d[p] # None
      BY <2>9 DEF Only
    <3>3. 2 \in 1 .. 2
      OBVIOUS
    <3>4. QED
      BY <1>9, <2>2, <2>6, <2>7, <2>9, <3>1, <3>2, <3>3 DEF Writes
  <2>11. JobRight(h)'
    BY <1>2, <2>5, <2>8, JobRightStays
  <2>12. \/ Rest(rest) = <<>> /\ \A p \in Ports \ StillPorts : d[p] = None
         \/ \E j : /\ Rest(rest) = <<j>> /\ j.kind = "main" /\ j.seq = todo[2].seq
                   /\ j.dst = Only(Ports \ StillPorts, d)
    BY <2>7, <2>9, RestExact
  <2>13. CASE Rest(rest) = <<>> /\ \A p \in Ports \ StillPorts : d[p] = None
    <3>1. Len(pt'.todo) = 1 /\ pt'.todo[1] = h
      BY <2>5, <2>13
    <3>2. \A k \in 1 .. 1 : k = 1
      OBVIOUS
    <3>3. ASSUME NEW k \in 1 .. Len(pt'.todo) PROVE JobRight(pt.todo[k])'
      BY <2>11, <3>1, <3>2, JobIs
    <3>4. JobsOK'
      BY <1>2, <2>5, <3>1, <3>3 DEF JobsOK
    <3>5. \A p \in Ports : Pending(p)' <=> h.dst[p] # None
      BY <2>3, <2>5, <3>1, <3>2 DEF Pending, Runs, Writes
    <3>6. \A p \in Ports : h.dst[p] # None <=> d[p] # None
      BY <2>9, <2>13 DEF Only
    <3>7. QED
      BY <2>10, <3>4, <3>5, <3>6
  <2>14. ASSUME NEW j, Rest(rest) = <<j>>, j.kind = "main", j.seq = todo[2].seq,
                j.dst = Only(Ports \ StillPorts, d)
         PROVE  JobsOK' /\ \A p \in Ports : Pending(p)' <=> Pending(p)
    <3>1. Len(pt'.todo) = 2 /\ pt'.todo[1] = h /\ pt'.todo[2] = j
      <4>1. pt'.todo = <<h>> \o <<j>>
        BY <2>5, <2>14
      <4>2. QED
        BY <4>1, PairIs
    <3>2. \A k \in 1 .. 2 : k = 1 \/ k = 2
      OBVIOUS
    <3>3. RightTask(j)
      BY <2>9, <2>14, PartRight
    <3>4. JobRight(j)
      BY <2>9, <2>14, <3>3 DEF JobRight
    <3>5. JobRight(j)'
      BY <1>2, <2>5, <3>4, JobRightStays
    <3>6. ASSUME NEW k \in 1 .. Len(pt'.todo) PROVE JobRight(pt.todo[k])'
      BY <2>11, <3>1, <3>2, <3>5, JobIs
    <3>7. JobsOK'
      BY <1>2, <2>5, <3>1, <3>6 DEF JobsOK
    <3>8. \A p \in Ports : Pending(p)' <=> h.dst[p] # None \/ j.dst[p] # None
      <4>1. 1 \in 1 .. 2 /\ 2 \in 1 .. 2
        OBVIOUS
      <4>2. QED
        BY <2>3, <2>5, <2>14, <3>1, <3>2, <4>1 DEF Pending, Runs, Writes
    <3>9. \A p \in Ports : h.dst[p] # None \/ j.dst[p] # None <=> d[p] # None
      BY <2>9, <2>14 DEF Only
    <3>10. QED
      BY <2>10, <3>7, <3>8, <3>9
  <2>15. QED
    BY <2>12, <2>13, <2>14
<1>15. QED
  BY <1>11, <1>12, <1>13, <1>14

LEMMA AddJobs ==
    ASSUME UnitTypeOK, UnitTypeOK', StageInv, JobsOK, Onward, AddTask
    PROVE  /\ JobsOK'
           /\ \A p \in Ports : Pending(p)' => Pending(p)
           /\ \A p \in Ports : Pending(p) => Pending(p)' \/ p \in Writes(pt.todo[1])
           /\ \A p \in Writes(pt.todo[1]) : Pending(p)
<1>1. /\ pt.pc = "add" /\ pt.pc \in Runs /\ pt'.todo = Tail(pt.todo)
      /\ pt'.pc = IF Len(pt.todo) = 1 THEN "execute" ELSE "fetch"
      /\ pt'.raw = pt.raw /\ pt'.dst = pt.dst
  BY AddTypes DEF AddTask, UnitTypeOK, PtTypeOK, Runs
<1>2. UNCHANGED <<seqOf, captured, requests>>
  BY DEF AddTask, producer, asked
<1>3. PICK todo \in Seq(Jobs) : todo = pt.todo
  BY <1>1, TodoTail
<1>4. PICK n \in Nat : n = Len(todo)
  BY <1>3
<1>5. /\ n >= 1 /\ Len(Tail(todo)) = n - 1
      /\ \A k \in 1 .. n - 1 : Tail(todo)[k] = todo[k + 1]
  BY <1>1, <1>3, <1>4, TodoTail
<1>6. \A k \in 1 .. n : JobRight(todo[k])
  BY <1>1, <1>3, <1>4 DEF JobsOK
<1>7. \A p : Pending(p) <=> \E k \in 1 .. n : todo[k].kind # "fake" /\ p \in Writes(todo[k])
  BY <1>1, <1>3, <1>4 DEF Pending
<1>8. todo[1].kind # "fake"
  BY <1>1, <1>3 DEF StageInv, TodoRowOK
<1>9. \A p \in Writes(todo[1]) : Pending(p)
  BY <1>4, <1>5, <1>7, <1>8
<1>10. CASE n = 1
  <2>1. pt'.pc \notin Runs
    BY <1>1, <1>3, <1>4, <1>10 DEF Runs
  <2>2. \A k \in 1 .. 1 : k = 1
    OBVIOUS
  <2>3. QED
    BY <1>3, <1>7, <1>9, <1>10, <2>1, <2>2 DEF JobsOK, Pending
<1>11. CASE n # 1
  <2>1. pt'.pc = "fetch" /\ Len(pt'.todo) = n - 1 /\ n > 1
    <3>1. pt'.pc = "fetch"
      BY <1>1, <1>3, <1>4, <1>11
    <3>2. Len(pt'.todo) = n - 1
      BY <1>1, <1>3, <1>5
    <3>3. QED
      BY <1>5, <1>11, <3>1, <3>2
  <2>2. \A k \in 1 .. n - 1 : pt'.todo[k] = todo[k + 1] /\ k + 1 \in 1 .. n
    BY <1>1, <1>3, <1>5
  <2>3. ASSUME NEW k \in 1 .. Len(pt'.todo) PROVE JobRight(pt.todo[k])'
    <3>1. PICK job : job = pt'.todo[k]
      OBVIOUS
    <3>2. JobRight(job)
      BY <1>6, <2>1, <2>2, <3>1
    <3>3. JobRight(job)'
      BY <1>1, <1>2, <3>2, JobRightStays
    <3>4. QED
      BY <3>1, <3>3, JobIs
  <2>4. \A k \in 1 .. Len(pt'.todo) : pt'.todo[k].kind # "zsl"
    <3>1. /\ \A k \in 1 .. n : todo[k].kind = "main" => k = n
          /\ \A k \in 1 .. n : todo[k].kind = "zsl" => k + 1 >= n
          /\ todo[n].kind = "main"
      BY <1>1, <1>3, <1>4, <2>1 DEF UnitTypeOK, TodoOK
    <3>2. todo[1] \in Jobs /\ todo[1].kind # "main"
      BY <1>3, <1>4, <1>5, <2>1, <3>1
    <3>3. todo[1].kind = "zsl"
      BY <1>8, <3>2 DEF Jobs
    <3>4. n = 2
      BY <1>4, <1>5, <2>1, <3>1, <3>3
    <3>5. \A k \in 1 .. 1 : k = 1
      OBVIOUS
    <3>6. QED
      BY <2>1, <2>2, <3>1, <3>4, <3>5
  <2>5. JobsOK'
    BY <2>1, <2>3, <2>4 DEF JobsOK
  <2>6. \A p : Pending(p)' <=> \E k \in 1 .. n - 1 : todo[k + 1].kind # "fake" /\ p \in Writes(todo[k + 1])
    <3>1. \A p : Pending(p)' <=> \E k \in 1 .. Len(pt'.todo) :
             pt'.todo[k].kind # "fake" /\ p \in Writes(pt'.todo[k])
      BY <2>1 DEF Pending, Runs, Writes
    <3>2. QED
      BY <2>1, <2>2, <3>1
  <2>7. \A p : Pending(p)' => Pending(p)
    BY <1>7, <2>2, <2>6
  <2>8. ASSUME NEW p, Pending(p), p \notin Writes(todo[1]) PROVE Pending(p)'
    <3>1. PICK k \in 1 .. n : todo[k].kind # "fake" /\ p \in Writes(todo[k])
      BY <1>7, <2>8
    <3>2. PICK j : j = k - 1
      OBVIOUS
    <3>3. k # 1
      BY <2>8, <3>1
    <3>4. j \in 1 .. n - 1 /\ j + 1 = k
      BY <1>4, <3>2, <3>3
    <3>5. QED
      BY <2>6, <3>1, <3>4
  <2>9. QED
    BY <1>3, <1>9, <2>5, <2>7, <2>8
<1>12. QED
  BY <1>10, <1>11

LEMMA DispatchJobs ==
    ASSUME UnitTypeOK, JobsOK, Onward, DispatchTask
    PROVE  JobsOK' /\ \A p : Pending(p)' <=> Pending(p)
<1>1. /\ pt.pc = "dispatch" /\ pt'.pc = "add" /\ pt'.todo = pt.todo /\ pt'.src = pt.src
      /\ pt'.raw = pt.raw /\ pt'.dst = pt.dst
  BY DEF DispatchTask, UnitTypeOK, PtTypeOK
<1>2. UNCHANGED seqOf
  BY DEF DispatchTask, producer
<1>3. ASSUME NEW k \in 1 .. Len(pt'.todo) PROVE JobRight(pt.todo[k])'
  <2>1. PICK job : job = pt.todo[k]
    OBVIOUS
  <2>2. JobRight(job)
    BY <1>1, <1>3, <2>1 DEF JobsOK, Runs
  <2>3. JobRight(job)'
    BY <1>1, <1>2, <2>2, JobRightStays
  <2>4. QED
    BY <1>1, <2>1, <2>3, JobIs
<1>4. JobsOK'
  BY <1>1, <1>2, <1>3 DEF JobsOK, Runs
<1>5. QED
  BY <1>1, <1>4 DEF Pending, Runs, Writes

(* Steps that do nothing with the jobs.                                    *)
LEMMA OtherThread ==
    ASSUME UnitTypeOK, [Next]_vars, ~PrepareTask, ~FetchSource, ~DispatchTask, ~AddTask
    PROVE  UNCHANGED pt \/ (pt.pc \notin Runs /\ pt'.pc \notin Runs)
<1>1. PtTypeOK
  BY DEF UnitTypeOK
<1>2. CASE UNCHANGED vars
  BY <1>2 DEF vars
<1>3. CASE Capture \/ LoseFrame \/ NewRequest \/ HandleQueueBuffer
  BY <1>3 DEF Capture, LoseFrame, NewRequest, HandleQueueBuffer
<1>4. CASE ProcessNewFrame
  BY <1>4 DEF ProcessNewFrame, Idle, Runs
<1>5. CASE NothingToPrepare \/ SaveRawBuffer \/ TrimRawBuffers
  BY <1>1, <1>5 DEF NothingToPrepare, SaveRawBuffer, TrimRawBuffers, Runs, PtTypeOK
<1>6. CASE ExecuteNode
  BY <1>6 DEF ExecuteNode, Idle, Runs
<1>7. ASSUME NEW i \in Pipes, Executor(i) \/ PollThread(i) PROVE UNCHANGED pt
  BY <1>7 DEF Executor, PollThread, WaitTimeout, Process, HandleEvent, OnBufferDone, OnTaskDone,
         EraseSequence, TrimAfterTask, PopTask
<1>8. QED
  BY <1>2, <1>3, <1>4, <1>5, <1>6, <1>7 DEF Next, ProcessThread

(* The frames in hand are not overwritten.                                 *)
LEMMA InHandStays ==
    ASSUME UnitTypeOK, CoverInv, FlightInv, [Next]_vars, pt.pc \in Runs
    PROVE  /\ seqOf'[pt.raw] = seqOf[pt.raw]
           /\ pt.pc # "fetch" => seqOf'[pt.src] = seqOf[pt.src]
<1>1. CASE ~Capture
  <2>1. UNCHANGED seqOf
    BY <1>1 DEF vars, producer, asked, Next, LoseFrame, NewRequest, HandleQueueBuffer, ProcessThread,
           ProcessNewFrame, NothingToPrepare, SaveRawBuffer, TrimRawBuffers, PrepareTask,
           FetchSource, DispatchTask, AddTask, ExecuteNode, Executor, PollThread, WaitTimeout,
           Process, HandleEvent, OnBufferDone, OnTaskDone, EraseSequence, TrimAfterTask, PopTask
  <2>2. QED
    BY <2>1
<1>2. CASE Capture
  <2>1. pt.raw \in Raws /\ pt.raw \notin free
    <3>1. pt.raw \in Raws
      BY DEF UnitTypeOK, PtTypeOK
    <3>2. CASE scenario.zsl
      BY <3>1, <3>2 DEF FlightInv, KeptOK
    <3>3. CASE ~scenario.zsl
      BY <3>1, <3>3 DEF FlightInv, OwnOK
    <3>4. QED
      BY <3>2, <3>3
  <2>2. ASSUME pt.pc # "fetch" PROVE pt.src \in Raws /\ pt.src \notin free
    <3>1. pt.src \in Raws /\ pt.pc \in {"dispatch", "add"}
      BY <2>2 DEF UnitTypeOK, PtTypeOK, Runs
    <3>2. CASE scenario.zsl
      BY <3>1, <3>2 DEF FlightInv, KeptOK
    <3>3. CASE ~scenario.zsl
      BY <2>1, <3>1, <3>3 DEF FlightInv, OwnOK, CoverInv, SourceOK
    <3>4. QED
      BY <3>2, <3>3
  <2>3. \A b \in Raws \ free : seqOf'[b] = seqOf[b]
    BY <1>2, CaptureQueues
  <2>4. QED
    BY <2>1, <2>2, <2>3
<1>3. QED
  BY <1>1, <1>2

LEMMA JobsStep ==
    ASSUME OneStill, UnitTypeOK, UnitTypeOK', CoverInv, FlightInv, FlightInv', StageInv, AskedOK, InputOK,
           GoneOK, JobsOK, Plain, Onward, [Next]_vars
    PROVE  /\ JobsOK'
           /\ ~PrepareTask /\ ~AddTask => \A p \in Ports : Pending(p)' <=> Pending(p)
<1>1. CASE PrepareTask
  <2>1. CASE RunsNow
    BY <1>1, <2>1, PrepareJobs
  <2>2. CASE ~RunsNow
    <3>1. pt'.pc = "execute"
      BY <1>1, <2>2, PrepareExact DEF UnitTypeOK
    <3>2. QED
      BY <1>1, <3>1 DEF JobsOK, Runs
  <2>3. QED
    BY <2>1, <2>2
<1>2. CASE FetchSource
  BY <1>2, FetchJobs
<1>3. CASE DispatchTask
  BY <1>3, DispatchJobs
<1>4. CASE AddTask
  BY <1>4, AddJobs
<1>5. CASE ~PrepareTask /\ ~FetchSource /\ ~DispatchTask /\ ~AddTask
  <2>1. UNCHANGED pt \/ (pt.pc \notin Runs /\ pt'.pc \notin Runs)
    BY <1>5, OtherThread
  <2>2. pt'.pc \in Runs => /\ pt.pc \in Runs /\ pt' = pt /\ seqOf'[pt.raw] = seqOf[pt.raw]
                           /\ pt.pc # "fetch" => seqOf'[pt.src] = seqOf[pt.src]
    BY <2>1, InHandStays
  <2>3. JobsOK'
    BY <2>2, JobsStay
  <2>4. QED
    BY <2>1, <2>3 DEF Pending, Writes
<1>6. QED
  BY <1>1, <1>2, <1>3, <1>4, <1>5

-----------------------------------------------------------------------------
LEMMA WorkStep ==
    ASSUME UnitTypeOK, UnitTypeOK', FlightInv, StageInv, WorkOK, JobsOK, Plain, Onward, [Next]_vars
    PROVE  WorkOK'
<1>0. LineTypeOK /\ TaskTypeOK
  BY DEF StageInv, UnitTypeOK
<1>1. CASE AddTask
  BY <1>1, AddWork
<1>2. CASE ~AddTask
  <2>1. \A i \in Pipes : \E e : Moves(i, e)
    <3>1. CASE Quiet
      BY <3>1 DEF Quiet
    <3>2. CASE Capture \/ LoseFrame \/ NewRequest \/ PrepareTask
      <4>1. UNCHANGED pipes
        BY <3>2 DEF Capture, LoseFrame, NewRequest, PrepareTask
      <4>2. QED
        BY <1>0, <4>1, LinesStill
    <3>3. QED
      BY <1>2, <3>1, <3>2, QuietSteps
  <2>2. ASSUME NEW i \in Pipes, OnBufferDone(i), NEW t \in ToSet(mOngoingTasks')
        PROVE  \E u \in ToSet(mOngoingTasks) : t.seq = u.seq
    <3>1. PICK n \in 1 .. Len(mOngoingTasks) : Became(mOngoingTasks, mOngoingTasks', n)
      BY <1>0, <2>2, BufferDoneTasks
    <3>2. PICK f \in [1 .. Len(mOngoingTasks') -> 1 .. Len(mOngoingTasks)] :
             \A k \in 1 .. Len(mOngoingTasks') :
               mOngoingTasks'[k].seq = mOngoingTasks[f[k]].seq
      BY <3>1 DEF Became, OneLess
    <3>3. /\ mOngoingTasks \in Seq(Tasks) /\ DOMAIN mOngoingTasks = 1 .. Len(mOngoingTasks)
          /\ DOMAIN mOngoingTasks' = 1 .. Len(mOngoingTasks')
      <4>1. TaskTypeOK'
        BY DEF UnitTypeOK
      <4>2. QED
        BY <1>0, <4>1 DEF TaskTypeOK
    <3>4. PICK k \in 1 .. Len(mOngoingTasks') : t = mOngoingTasks'[k]
      BY <2>2, <3>3 DEF ToSet
    <3>5. t.seq = mOngoingTasks[f[k]].seq /\ f[k] \in 1 .. Len(mOngoingTasks)
      BY <3>2, <3>4
    <3>6. mOngoingTasks[f[k]] \in ToSet(mOngoingTasks)
      BY <3>3, <3>5 DEF ToSet
    <3>7. QED
      BY <3>5, <3>6
  <2>3. CASE UNCHANGED mOngoingTasks
    BY <2>1, <2>3, WorkStays
  <2>4. CASE \E i \in Pipes : OnBufferDone(i)
    BY <2>1, <2>2, <2>4, WorkStays
  <2>5. UNCHANGED mOngoingTasks \/ \E i \in Pipes : OnBufferDone(i)
    BY <1>2 DEF vars, Next, Capture, LoseFrame, NewRequest, HandleQueueBuffer, ProcessThread,
           ProcessNewFrame, NothingToPrepare, SaveRawBuffer, TrimRawBuffers, PrepareTask,
           FetchSource, DispatchTask, ExecuteNode, Executor, PollThread, WaitTimeout,
           Process, HandleEvent, OnTaskDone, EraseSequence, TrimAfterTask, PopTask
  <2>6. QED
    BY <2>3, <2>4, <2>5
<1>3. QED
  BY <1>1, <1>2

-----------------------------------------------------------------------------
(* What is still to be answered: only a task added and a callback change   *)
(* it.                                                                     *)

LEMMA DebtsStay ==
    ASSUME UnitTypeOK, FlightInv, StageInv, Plain, [Next]_vars, ~AddTask,
           \A i \in Pipes : ~OnBufferDone(i)
    PROVE  \A p \in Ports : \A r : Debt(p, r)' <=> Debt(p, r)
<1>0. LineTypeOK /\ scenario \in Scenarios
  BY DEF StageInv, FlightInv
<1>1. ASSUME NEW i \in Pipes PROVE \E e : ShiftedBy(i, e)
  <2>1. ASSUME UNCHANGED <<stageQueue, mStageTaskList, poll>> PROVE ShiftedBy(i, 0)
    <3>1. Line(i)' = Line(i)
      BY <2>1 DEF Line
    <3>2. QED
      BY <1>0, <2>1, <3>1, LineStays
  <2>2. CASE \E j \in Pipes : Process(j)
    <3>1. ShiftedBy(i, 0)
      BY <1>0, <2>2, ProcessLines
    <3>2. QED
      BY <3>1
  <2>3. CASE \E j \in Pipes : HandleEvent(j) \/ OnTaskDone(j) \/ EraseSequence(j) \/ TrimAfterTask(j)
    <3>1. ShiftedBy(i, 0)
      BY <1>0, <2>3, PollLines
    <3>2. QED
      BY <3>1
  <2>4. CASE \E j \in Pipes : PopTask(j)
    <3>1. PICK j \in Pipes : PopTask(j)
      BY <2>4
    <3>2. ShiftedBy(i, IF i = j THEN 1 ELSE 0)
      BY <1>0, <3>1, PopLines
    <3>3. QED
      BY <3>2
  <2>5. \/ UNCHANGED <<stageQueue, mStageTaskList, poll>>
        \/ \E j \in Pipes : \/ Process(j) \/ HandleEvent(j) \/ OnTaskDone(j) \/ EraseSequence(j)
                            \/ TrimAfterTask(j) \/ PopTask(j)
    BY DEF vars, pipes, Next, Capture, LoseFrame, NewRequest, HandleQueueBuffer, ProcessThread,
           ProcessNewFrame, NothingToPrepare, SaveRawBuffer, TrimRawBuffers, PrepareTask,
           FetchSource, DispatchTask, ExecuteNode, Executor, PollThread, WaitTimeout
  <2>6. QED
    BY <2>1, <2>2, <2>3, <2>4, <2>5
<1>2. UNCHANGED scenario
  BY ScenarioStays
<1>3. ASSUME NEW p \in Ports, NEW r PROVE Debt(p, r)' <=> Debt(p, r)
  <2>1. PICK i \in Pipes : i = PipeOf(p)
    BY <1>0, PipeIn
  <2>2. PICK e : ShiftedBy(i, e)
    BY <1>1
  <2>3. QED
    BY <1>2, <2>1, <2>2, ShiftedDebt
<1>4. QED
  BY <1>3

-----------------------------------------------------------------------------
(* An answer: the callback is for the oldest entry of its pipe.            *)

LastIs(s) == IF s = <<>> THEN 0 ELSE s[Len(s)][1]

LEMMA LastToIs ==
    ASSUME ServedOK, NEW p \in Ports
    PROVE  LastTo(p) = LastIs(served[p].frames) /\ LastTo(p) \in Nat
           /\ served[p].frames \in Seq(Nat \X captured)
<1>1. PICK S : S = Nat \X captured
  OBVIOUS
<1>2. PICK s : s = served[p].frames
  OBVIOUS
<1>3. s \in Seq(S)
  BY <1>1, <1>2 DEF ServedOK
<1>4. s # <<>> => s[Len(s)] \in S
  BY <1>3
<1>5. \A x \in S : x[1] \in Nat
  BY <1>1
<1>6. QED
  BY <1>1, <1>2, <1>3, <1>4, <1>5 DEF LastTo, Frames, LastIs


LEMMA CallbackAnswers ==
    ASSUME UnitTypeOK, FlightInv, StageInv, ServedOK, WorkOK, Plain, NEW i \in Pipes, OnBufferDone(i),
           NEW p, p = NextPort(i), NEW t, t = Line(i)[1]
    PROVE  /\ p \in Ports /\ PipeOf(p) = i /\ Right(p, t.dst[p], t.seq) /\ Debt(p, t.dst[p])
           /\ served' = [served EXCEPT ![p].frames = Append(@, <<t.dst[p], t.seq>>)]
           /\ UNCHANGED <<scenario, captured, requests>>
<1>1. /\ 1 \in 1 .. Len(Line(i)) /\ t = Head(mStageTaskList[i])
      /\ p \in Writes(t) /\ PipeOf(p) = i /\ p \in LeftOf(i, 1)
  BY CallbackLines DEF StageInv
<1>2. EntryRight(i, 1)
  BY <1>1 DEF WorkOK
<1>3. ~t.fake /\ Right(p, t.dst[p], t.seq)
  BY <1>1, <1>2 DEF EntryRight, RightTask
<1>4. Debt(p, t.dst[p])
  BY <1>1 DEF Debt
<1>5. Kind(t) = "frames" /\ ~Skips(t.seq)
  BY <1>3 DEF Kind, Skips, Plain
<1>6. served' = [served EXCEPT ![p]["frames"] = Append(@, <<t.dst[p], t.seq>>)]
  BY <1>1, <1>5 DEF OnBufferDone
<1>7. UNCHANGED <<scenario, captured, requests>>
  BY DEF OnBufferDone, producer, asked
<1>8. p \in Ports
  BY <1>1 DEF Writes
<1>9. QED
  BY <1>1, <1>3, <1>4, <1>6, <1>7, <1>8

(* The frame comes last in the answers of the port.                        *)
LEMMA AnswerLast ==
    ASSUME ServedOK, NEW p \in Ports, NEW r \in Nat, NEW s \in captured,
           served' = [served EXCEPT ![p].frames = Append(@, <<r, s>>)], UNCHANGED captured
    PROVE  /\ ServedOK'
           /\ LastTo(p)' = r /\ \A q \in Ports \ {p} : LastTo(q)' = LastTo(q)
           /\ Shown' = [Shown EXCEPT ![p] = Append(@, <<r, s>>)]
<1>1. PICK S : S = Nat \X captured
  OBVIOUS
<1>2. PICK old \in Seq(S) : old = served[p].frames
  BY <1>1 DEF ServedOK
<1>3. PICK new : new = Append(old, <<r, s>>)
  OBVIOUS
<1>4. new \in Seq(S) /\ new # <<>> /\ new[Len(new)] = <<r, s>>
  <2>1. <<r, s>> \in S
    BY <1>1
  <2>2. PICK x \in S : x = <<r, s>>
    BY <2>1
  <2>3. new = Append(old, x)
    BY <1>3, <2>2
  <2>4. Append(old, x) \in Seq(S) /\ Append(old, x) # <<>>
        /\ Append(old, x)[Len(Append(old, x))] = x
    OBVIOUS
  <2>5. QED
    BY <2>2, <2>3, <2>4
<1>5. served \in [Ports -> [frames : Seq(S), early : {<<>>}]]
  BY <1>1 DEF ServedOK
<1>6. /\ served' = [served EXCEPT ![p].frames = new]
      /\ served'[p].frames = new /\ \A q \in Ports \ {p} : served'[q] = served[q]
  BY <1>2, <1>3, <1>5
<1>7. served' \in [Ports -> [frames : Seq(S), early : {<<>>}]]
  BY <1>4, <1>5, <1>6
<1>8. ServedOK'
  BY <1>1, <1>7 DEF ServedOK
<1>9. LastTo(p)' = r
  BY <1>4, <1>6 DEF LastTo, Frames
<1>10. \A q \in Ports \ {p} : LastTo(q)' = LastTo(q)
  BY <1>6 DEF LastTo, Frames
<1>11. Shown' = [Shown EXCEPT ![p] = Append(@, <<r, s>>)]
  <2>1. Shown = [q \in Ports |-> served[q].frames] /\ Shown' = [q \in Ports |-> served'[q].frames]
    BY DEF Shown
  <2>2. [Shown EXCEPT ![p] = Append(@, <<r, s>>)] = [q \in Ports |-> IF q = p THEN new ELSE served[q].frames]
    BY <1>2, <1>3, <2>1
  <2>3. \A q \in Ports : served'[q].frames = IF q = p THEN new ELSE served[q].frames
    BY <1>6
  <2>4. QED
    BY <2>1, <2>2, <2>3
<1>12. QED
  BY <1>8, <1>9, <1>10, <1>11

LEMMA ServedStep ==
    ASSUME UnitTypeOK, FlightInv, StageInv, ServedOK, WorkOK, Plain, Onward, [Next]_vars
    PROVE  ServedOK'
<1>1. CASE UNCHANGED served
  BY <1>1, ServedStays
<1>2. ASSUME NEW i \in Pipes, OnBufferDone(i) PROVE ServedOK'
  <2>1. PICK p : p = NextPort(i)
    OBVIOUS
  <2>2. PICK t : t = Line(i)[1]
    OBVIOUS
  <2>3. /\ p \in Ports /\ Right(p, t.dst[p], t.seq) /\ UNCHANGED captured
        /\ served' = [served EXCEPT ![p].frames = Append(@, <<t.dst[p], t.seq>>)]
    BY <1>2, <2>1, <2>2, CallbackAnswers
  <2>4. t.dst[p] \in Nat /\ t.seq \in captured
    BY <2>3, NumberedIs DEF Right, UnitTypeOK
  <2>5. QED
    BY <2>3, <2>4, AnswerLast
<1>3. UNCHANGED served \/ \E i \in Pipes : OnBufferDone(i)
  BY DEF vars, Next, Capture, LoseFrame, NewRequest, HandleQueueBuffer, ProcessThread,
         ProcessNewFrame, NothingToPrepare, SaveRawBuffer, TrimRawBuffers, PrepareTask,
         FetchSource, DispatchTask, AddTask, ExecuteNode, Executor, PollThread, WaitTimeout,
         Process, HandleEvent, OnTaskDone, EraseSequence, TrimAfterTask, PopTask
<1>4. QED
  BY <1>1, <1>2, <1>3

LEMMA AskedStep ==
    ASSUME UnitTypeOK, ServedOK, WorkOK, AskedOK, Serial, Onward, [Next]_vars
    PROVE  AskedOK'
<1>1. UNCHANGED scenario
  BY ScenarioStays
<1>2. CASE NewRequest
  BY <1>2, NewRequestAsked
<1>3. CASE ~NewRequest
  <2>1. UNCHANGED requests
    BY <1>3, AddingSteps DEF Capture, asked
  <2>2. QED
    BY <1>1, <2>1, AskedStays
<1>4. QED
  BY <1>2, <1>3

-----------------------------------------------------------------------------
(* The order of the answers.                                               *)

LEMMA OrderStays ==
    ASSUME OrderOK, UNCHANGED Taken, \A p \in Ports : LastTo(p)' = LastTo(p),
           \A p \in Ports : \A r : Debt(p, r)' <=> Debt(p, r),
           \A p \in Ports : Pending(p)' <=> Pending(p),
           \A r \in 1 .. Taken : requests'[r] = requests[r]
    PROVE  OrderOK'
<1>1. ASSUME NEW p \in Ports PROVE Behind(p)' /\ Awaited(p)'
  <2>1. Behind(p) /\ Awaited(p)
    BY DEF OrderOK
  <2>2. Behind(p)'
    BY <2>1 DEF Behind
  <2>3. Awaited(p)'
    BY <2>1 DEF Awaited
  <2>4. QED
    BY <2>2, <2>3
<1>2. QED
  BY <1>1 DEF OrderOK

LEMMA PrepareOrder ==
    ASSUME UnitTypeOK, UnitTypeOK', FlightInv, StageInv, ServeInv, Plain, PrepareTask,
           \A p \in Ports : \A r : Debt(p, r)' <=> Debt(p, r)
    PROVE  OrderOK'
<1>0. OrderOK /\ AskedOK /\ InputOK /\ GoneOK /\ ServedOK
  BY DEF ServeInv
<1>1. PICK n : n = Taken + 1
  OBVIOUS
<1>2. /\ n \in Numbered /\ n \in Nat /\ Taken \in Nat /\ Taken' = (IF RunsNow THEN n ELSE Taken)
      /\ pt.pc = "pop"
  BY <1>0, <1>1, PopDecides
<1>3. UNCHANGED <<requests, served>>
  BY DEF PrepareTask, asked
<1>4. \A p \in Ports : LastTo(p)' = LastTo(p) /\ LastTo(p) \in Nat
  BY <1>0, <1>3, LastToIs DEF LastTo, Frames
<1>5. \A p : ~Pending(p)
  BY <1>2 DEF Pending, Runs
<1>6. CASE RunsNow
  <2>1. Taken' = n
    BY <1>2, <1>6
  <2>2. \A p \in requests[n].wants \cap Ports : Pending(p)'
    BY <1>0, <1>1, <1>6, PrepareJobs
  <2>3. ASSUME NEW p \in Ports PROVE Behind(p)' /\ Awaited(p)'
    <3>1. Behind(p) /\ Awaited(p)
      BY <1>0 DEF OrderOK
    <3>2. LastTo(p)' <= Taken' /\ LastTo(p)' < Taken'
      BY <1>1, <1>2, <1>4, <2>1, <3>1 DEF Behind
    <3>3. Behind(p)'
      BY <1>4, <3>1, <3>2 DEF Behind
    <3>4. ASSUME NEW r \in 1 .. Taken', LastTo(p) < r, p \in requests[r].wants
          PROVE  Debt(p, r) \/ (r = Taken' /\ Pending(p)')
      <4>1. CASE r = n
        BY <2>1, <2>2, <3>4, <4>1
      <4>2. CASE r # n
        <5>1. r \in 1 .. Taken
          BY <1>1, <1>2, <2>1, <4>2
        <5>2. QED
          BY <1>5, <3>1, <3>4, <5>1 DEF Awaited
      <4>3. QED
        BY <4>1, <4>2
    <3>5. Awaited(p)'
      BY <1>3, <1>4, <3>4 DEF Awaited
    <3>6. QED
      BY <3>3, <3>5
  <2>4. QED
    BY <2>3 DEF OrderOK
<1>7. CASE ~RunsNow
  <2>1. pt'.pc = "execute"
    BY <1>7, PrepareExact DEF UnitTypeOK
  <2>2. \A p : ~Pending(p)'
    BY <2>1 DEF Pending, Runs
  <2>3. UNCHANGED Taken
    BY <1>2, <1>7
  <2>4. QED
    BY <1>0, <1>3, <1>4, <1>5, <2>2, <2>3, OrderStays
<1>8. QED
  BY <1>6, <1>7

LEMMA AddOrder ==
    ASSUME UnitTypeOK, UnitTypeOK', FlightInv, StageInv, ServeInv, Onward, AddTask
    PROVE  OrderOK'
<1>0. /\ OrderOK /\ JobsOK /\ ServedOK
      /\ LineTypeOK /\ TodoRowOK /\ FreshOK /\ RowOK /\ scenario \in Scenarios /\ AskTypeOK
  BY DEF ServeInv, StageInv, FlightInv, UnitTypeOK
<1>1. UNCHANGED <<requests, served>> /\ UNCHANGED <<feeding, mOutputQueue>>
  BY DEF AddTask, asked
<1>2. UNCHANGED Taken
  BY <1>1 DEF Taken, Fed
<1>3. \A p \in Ports : LastTo(p)' = LastTo(p) /\ LastTo(p) \in Nat
  BY <1>0, <1>1, LastToIs DEF LastTo, Frames
<1>4. /\ \A p \in Ports : Pending(p)' => Pending(p)
      /\ \A p \in Ports : Pending(p) => Pending(p)' \/ p \in Writes(pt.todo[1])
      /\ \A p \in Writes(pt.todo[1]) : Pending(p)
  BY <1>0, AddJobs
<1>5. /\ Writes(NewTask) = Writes(pt.todo[1])
      /\ \A p \in Writes(NewTask) : NewTask.dst[p] = Taken
  BY <1>0, NewWritesNew DEF NewWrites
<1>6. ASSUME NEW p \in Ports, NEW r
      PROVE  Debt(p, r)' <=> Debt(p, r) \/ (p \in Writes(pt.todo[1]) /\ r = Taken)
  BY <1>0, <1>5, AddDebt
<1>7. ASSUME NEW p \in Ports PROVE Behind(p)' /\ Awaited(p)'
  <2>1. Behind(p) /\ Awaited(p)
    BY <1>0 DEF OrderOK
  <2>2. Behind(p)'
    BY <1>2, <1>3, <1>4, <1>6, <2>1 DEF Behind
  <2>3. Awaited(p)'
    BY <1>1, <1>2, <1>3, <1>4, <1>6, <2>1 DEF Awaited
  <2>4. QED
    BY <2>2, <2>3
<1>8. QED
  BY <1>7 DEF OrderOK

(* What is owed on the port after an answer is for later requests.         *)
LEMMA OldestFirst ==
    ASSUME UnitTypeOK, FlightInv, StageInv, WorkOK, NEW i \in Pipes, 1 \in 1 .. Len(Line(i)),
           NEW p \in Writes(Line(i)[1]), PipeOf(p) = i, NEW x, Debt(p, x)
    PROVE  x = Line(i)[1].dst[p] \/ Line(i)[1].dst[p] < x
<1>1. PICK k \in 1 .. Len(Line(i)) : p \in LeftOf(i, k) /\ Line(i)[k].dst[p] = x
  BY DEF Debt
<1>2. p \in Writes(Line(i)[k])
  BY <1>1, LeftWrites DEF StageInv
<1>3. CASE k = 1
  BY <1>1, <1>3
<1>4. CASE k # 1
  <2>1. 1 \in 1 .. k - 1
    <3>1. k \in Nat /\ k >= 1
      BY LineIs DEF StageInv
    <3>2. QED
      BY <1>4, <3>1
  <2>2. Before(Line(i)[1], Line(i)[k])
    BY <2>1 DEF WorkOK, EntryRight
  <2>3. QED
    BY <1>1, <1>2, <2>2 DEF Before
<1>5. QED
  BY <1>3, <1>4

LEMMA AnswerOrder ==
    ASSUME UnitTypeOK, UnitTypeOK', FlightInv, StageInv, ServeInv, Plain, NEW i \in Pipes,
           OnBufferDone(i), \A p \in Ports : Pending(p)' <=> Pending(p)
    PROVE  OrderOK'
<1>0. /\ OrderOK /\ WorkOK /\ ServedOK /\ LineTypeOK /\ LineOK /\ FreshOK /\ RowOK
      /\ scenario \in Scenarios /\ Taken \in Nat
  BY DEF ServeInv, StageInv, FlightInv, RowOK
<1>1. PICK p : p = NextPort(i)
  OBVIOUS
<1>2. PICK t : t = Line(i)[1]
  OBVIOUS
<1>3. PICK r : r = t.dst[p]
  OBVIOUS
<1>4. /\ p \in Ports /\ PipeOf(p) = i /\ Right(p, r, t.seq) /\ Debt(p, r)
      /\ UNCHANGED captured /\ UNCHANGED requests
      /\ served' = [served EXCEPT ![p].frames = Append(@, <<r, t.seq>>)]
  BY <1>0, <1>1, <1>2, <1>3, CallbackAnswers
<1>5. r \in Nat /\ t.seq \in captured
  BY <1>4, NumberedIs DEF Right, UnitTypeOK
<1>6. LastTo(p)' = r /\ \A q \in Ports \ {p} : LastTo(q)' = LastTo(q)
  BY <1>0, <1>4, <1>5, AnswerLast
<1>7. \A q \in Ports : \A x : Debt(q, x)' <=> Debt(q, x) /\ ~(q = p /\ x = r)
  BY <1>0, <1>1, <1>2, <1>3, CallbackDebt
<1>8. UNCHANGED Taken
  BY DEF OnBufferDone, asked, Taken, Fed
<1>9. 1 \in 1 .. Len(Line(i)) /\ p \in Writes(Line(i)[1])
  BY <1>0, <1>1, CallbackLines
<1>10. r <= Taken /\ (Pending(p) => r < Taken)
  <2>1. r <= Taken
    <3>1. Upto(p, Taken)
      BY <1>0, <1>4 DEF FreshOK
    <3>2. QED
      BY <1>2, <1>3, <1>4, <1>9, <3>1 DEF Upto
  <2>2. ASSUME Pending(p) PROVE r < Taken
    <3>1. Upto(p, Taken - 1)
      BY <1>0, <2>2 DEF Pending, FreshOK
    <3>2. r <= Taken - 1
      BY <1>2, <1>3, <1>4, <1>9, <3>1 DEF Upto
    <3>3. QED
      BY <1>0, <1>5, <3>2
  <2>3. QED
    BY <2>1, <2>2
<1>11. ASSUME NEW x, Debt(p, x), x # r PROVE r < x
  BY <1>0, <1>2, <1>3, <1>4, <1>9, <1>11, OldestFirst
<1>12. Behind(p)' /\ Awaited(p)'
  <2>1. Behind(p) /\ Awaited(p)
    BY <1>0, <1>4 DEF OrderOK
  <2>2. LastTo(p) < r /\ LastTo(p) \in Nat
    BY <1>0, <1>4, <2>1, LastToIs DEF Behind
  <2>3. Behind(p)'
    BY <1>4, <1>6, <1>7, <1>8, <1>10, <1>11 DEF Behind
  <2>4. ASSUME NEW x \in 1 .. Taken, r < x, p \in requests[x].wants
        PROVE  Debt(p, x)' \/ (x = Taken /\ Pending(p))
    <3>1. LastTo(p) < x /\ x # r
      BY <1>5, <2>2, <2>4
    <3>2. Debt(p, x) \/ (x = Taken /\ Pending(p))
      BY <2>1, <2>4, <3>1 DEF Awaited
    <3>3. QED
      BY <1>4, <1>7, <3>1, <3>2
  <2>5. Awaited(p)'
    BY <1>4, <1>6, <1>8, <2>4 DEF Awaited
  <2>6. QED
    BY <2>3, <2>5
<1>13. ASSUME NEW q \in Ports \ {p} PROVE Behind(q)' /\ Awaited(q)'
  <2>1. Behind(q) /\ Awaited(q)
    BY <1>0 DEF OrderOK
  <2>2. LastTo(q)' = LastTo(q) /\ \A x : Debt(q, x)' <=> Debt(q, x)
    BY <1>6, <1>7
  <2>3. Behind(q)'
    BY <1>8, <2>1, <2>2 DEF Behind
  <2>4. Awaited(q)'
    BY <1>4, <1>8, <2>1, <2>2 DEF Awaited
  <2>5. QED
    BY <2>3, <2>4
<1>14. QED
  BY <1>12, <1>13 DEF OrderOK

LEMMA TakenWereAsked ==
    ASSUME AskTypeOK, RowOK
    PROVE  1 .. Taken \subseteq Numbered
<1>1. 1 \in Ports
  BY FirstPort
<1>2. /\ Fed(1) \in 0 .. Len(requests) /\ Taken \in Nat /\ Len(mOutputQueue[1]) \in Nat
      /\ Len(mOutputQueue[1]) = Fed(1) - Taken /\ Len(requests) \in Nat
  BY <1>1, FedTyped
<1>3. QED
  BY <1>2 DEF Numbered

LEMMA AnswersStep ==
    ASSUME OneStill, UnitTypeOK, UnitTypeOK', CoverInv, FlightInv, FlightInv', StageInv, ServeInv, Plain,
           Onward, [Next]_vars
    PROVE  OrderOK'
<1>0. /\ ServedOK /\ AskedOK /\ InputOK /\ GoneOK /\ WorkOK /\ JobsOK /\ OrderOK
      /\ AskTypeOK /\ FrontOK /\ RowOK
  BY DEF ServeInv, StageInv, UnitTypeOK
<1>1. CASE AddTask
  BY <1>1, AddOrder
<1>2. CASE PrepareTask
  <2>1. \A i \in Pipes : ~OnBufferDone(i)
    BY <1>2 DEF PrepareTask, OnBufferDone, UnitTypeOK, PtTypeOK
  <2>2. ~AddTask
    BY <1>2 DEF PrepareTask, AddTask
  <2>3. \A p \in Ports : \A r : Debt(p, r)' <=> Debt(p, r)
    BY <2>1, <2>2, DebtsStay
  <2>4. QED
    BY <1>2, <2>3, PrepareOrder
<1>3. CASE ~AddTask /\ ~PrepareTask
  <2>1. \A p \in Ports : Pending(p)' <=> Pending(p)
    BY <1>0, <1>3, JobsStep
  <2>2. CASE \E i \in Pipes : OnBufferDone(i)
    BY <2>1, <2>2, AnswerOrder
  <2>3. CASE ~\E i \in Pipes : OnBufferDone(i)
    <3>1. \A p \in Ports : \A r : Debt(p, r)' <=> Debt(p, r)
      BY <1>3, <2>3, DebtsStay
    <3>2. UNCHANGED served
      BY <1>3, <2>3 DEF vars, Next, Capture, LoseFrame, NewRequest, HandleQueueBuffer, ProcessThread,
             ProcessNewFrame, NothingToPrepare, SaveRawBuffer, TrimRawBuffers, PrepareTask,
             FetchSource, DispatchTask, AddTask, ExecuteNode, Executor, PollThread, WaitTimeout,
             Process, HandleEvent, OnTaskDone, EraseSequence, TrimAfterTask, PopTask
    <3>3. \A p \in Ports : LastTo(p)' = LastTo(p)
      BY <3>2 DEF LastTo, Frames
    <3>4. UNCHANGED Taken
      <4>1. CASE Quiet
        BY <4>1 DEF Quiet
      <4>2. CASE NewRequest
        BY <1>0, <4>2, NewRequestRows
      <4>3. CASE Capture \/ LoseFrame
        BY <4>3 DEF Capture, LoseFrame, asked, Taken, Fed
      <4>4. QED
        BY <1>3, <4>1, <4>2, <4>3, QuietSteps
    <3>5. \A r \in 1 .. Taken : requests'[r] = requests[r]
      <4>1. 1 .. Taken \subseteq Numbered
        BY <1>0, TakenWereAsked
      <4>2. QED
        BY <4>1 DEF Onward
    <3>6. QED
      BY <1>0, <2>1, <3>1, <3>3, <3>4, <3>5, OrderStays
  <2>4. QED
    BY <2>2, <2>3
<1>4. QED
  BY <1>1, <1>2, <1>3

-----------------------------------------------------------------------------
(* The invariant, and the steps of the service.                            *)

LEMMA ServeInit == Init /\ Serial => ServeInv
<1> SUFFICES ASSUME Init PROVE ServeInv
  OBVIOUS
<1>1. /\ requests = <<>> /\ captured = {} /\ mInputQueue = <<>> /\ mOngoingTasks = <<>>
      /\ served = [p \in Ports |-> [frames |-> <<>>, early |-> <<>>]]
      /\ pt.pc = "wait" /\ feeding = NumPorts + 1 /\ mOutputQueue = [p \in Ports |-> <<>>]
  BY DEF Init, Idle
<1>2. Numbered = {} /\ Taken = 0
  <2>1. 1 < NumPorts + 1 /\ 1 \in Ports
    BY ProcessingAssumption, FirstPort
  <2>2. QED
    BY <1>1, <2>1 DEF Numbered, Taken, Fed
<1>3. ServedOK
  BY <1>1 DEF ServedOK
<1>4. \A i \in Pipes : Line(i) = <<>> /\ Len(Line(i)) = 0
  BY DEF Init, Line
<1>5. AskedOK
  BY <1>2 DEF AskedOK
<1>6. InputOK /\ GoneOK
  BY <1>1 DEF InputOK, GoneOK
<1>7. WorkOK /\ JobsOK
  BY <1>1, <1>4 DEF WorkOK, JobsOK, Runs, ToSet
<1>8. ASSUME NEW p \in Ports PROVE Behind(p) /\ Awaited(p)
  <2>1. LastTo(p) = 0 /\ ~Pending(p)
    BY <1>1 DEF LastTo, Frames, Pending, Runs
  <2>2. PipeOf(p) \in Pipes
    BY PipeIn DEF Init
  <2>3. \A r : ~Debt(p, r)
    BY <1>4, <2>2 DEF Debt
  <2>4. QED
    BY <1>2, <2>1, <2>3 DEF Behind, Awaited
<1>9. QED
  BY <1>3, <1>5, <1>6, <1>7, <1>8 DEF ServeInv, OrderOK

LEMMA ServeStep ==
    ASSUME OneStill, UnitTypeOK, UnitTypeOK', CoverInv, FlightInv, FlightInv', StageInv, Plain,
           Serial, ServeInv, [Next]_vars
    PROVE  ServeInv'
<1>1. ServedOK /\ AskedOK /\ InputOK /\ GoneOK /\ WorkOK /\ JobsOK /\ OrderOK
  BY DEF ServeInv
<1>2. Onward
  BY <1>1, OnwardStep
<1>3. ServedOK' /\ AskedOK'
  BY <1>1, <1>2, ServedStep, AskedStep
<1>4. InputOK' /\ GoneOK'
  BY <1>2, InputStep
<1>5. WorkOK' /\ JobsOK'
  BY <1>1, <1>2, WorkStep, JobsStep
<1>6. OrderOK'
  BY <1>2, AnswersStep
<1>7. QED
  BY <1>3, <1>4, <1>5, <1>6 DEF ServeInv

(* The request answered is the first the port still waits for.             *)
LEMMA FirstWaiting ==
    ASSUME UnitTypeOK, FlightInv, StageInv, ServeInv, Plain, NEW i \in Pipes, OnBufferDone(i),
           NEW p, p = NextPort(i), NEW r, r = Line(i)[1].dst[p]
    PROVE  /\ r \in Service!Waiting(p) /\ r \in Nat
           /\ \A x \in Service!Waiting(p) : r <= x
<1>0. /\ OrderOK /\ WorkOK /\ ServedOK /\ LineTypeOK /\ LineOK /\ FreshOK
      /\ scenario \in Scenarios /\ Taken \in Nat /\ AskTypeOK
  BY DEF ServeInv, StageInv, FlightInv, RowOK, UnitTypeOK
<1>1. PICK t : t = Line(i)[1]
  OBVIOUS
<1>2. p \in Ports /\ PipeOf(p) = i /\ Right(p, r, t.seq) /\ Debt(p, r)
  BY <1>0, <1>1, CallbackAnswers
<1>3. 1 \in 1 .. Len(Line(i)) /\ p \in Writes(Line(i)[1])
  BY <1>0, CallbackLines
<1>4. Behind(p) /\ Awaited(p)
  BY <1>0, <1>2 DEF OrderOK
<1>5. r \in Numbered /\ p \in requests[r].wants /\ LastTo(p) < r /\ r \in Nat /\ LastTo(p) \in Nat
  BY <1>0, <1>2, <1>4, NumberedIs, LastToIs DEF Right, Behind
<1>6. DOMAIN requests = Numbered
  BY <1>0 DEF AskTypeOK, Numbered
<1>7. Service!LastServed(p) = LastTo(p)
  BY <1>2 DEF Service!LastServed, Shown, LastTo, Frames
<1>8. Service!Waiting(p) = {x \in Numbered : x > LastTo(p) /\ p \in requests[x].wants}
  BY <1>6, <1>7 DEF Service!Waiting
<1>9. r \in Service!Waiting(p)
  BY <1>5, <1>8
<1>10. r <= Taken
  <2>1. Upto(p, Taken)
    BY <1>0, <1>2 DEF FreshOK
  <2>2. QED
    BY <1>2, <1>3, <2>1 DEF Upto
<1>11. ASSUME NEW x \in Service!Waiting(p) PROVE r <= x
  <2>1. x \in Nat \ {0} /\ LastTo(p) < x /\ p \in requests[x].wants
    BY <1>0, <1>5, <1>8, NumberedIs
  <2>2. SUFFICES ASSUME x < r PROVE FALSE
    BY <1>5, <2>1
  <2>3. x \in 1 .. Taken /\ x # Taken
    BY <1>0, <1>5, <1>10, <2>1, <2>2
  <2>4. Debt(p, x)
    BY <1>4, <2>1, <2>3 DEF Awaited
  <2>5. x = r \/ r < x
    BY <1>0, <1>2, <1>3, <2>4, OldestFirst
  <2>6. QED
    BY <1>5, <2>1, <2>2, <2>5
<1>12. QED
  BY <1>5, <1>9, <1>11

LEMMA LeastIs ==
    ASSUME NEW S \in SUBSET Int, NEW x \in S, \A y \in S : x <= y
    PROVE  Min(S) = x
<1>1. \A z \in S : (\A y \in S : z <= y) => z = x
  <2>1. ASSUME NEW z \in S, \A y \in S : z <= y PROVE z = x
    <3>1. z <= x /\ x <= z /\ x \in Int /\ z \in Int
      BY <2>1
    <3>2. QED
      BY <3>1
  <2>2. QED
    BY <2>1
<1>2. QED
  BY <1>1 DEF Min

LEMMA ServiceServes ==
    ASSUME UnitTypeOK, FlightInv, StageInv, ServeInv, Plain, NEW i \in Pipes, OnBufferDone(i)
    PROVE  Service!Serve(NextPort(i))
<1>0. /\ WorkOK /\ ServedOK /\ InputOK /\ AskTypeOK
  BY DEF ServeInv, UnitTypeOK
<1>1. PICK p : p = NextPort(i)
  OBVIOUS
<1>2. PICK t : t = Line(i)[1]
  OBVIOUS
<1>3. PICK r : r = t.dst[p]
  OBVIOUS
<1>4. /\ p \in Ports /\ Right(p, r, t.seq) /\ UNCHANGED scenario
      /\ UNCHANGED captured /\ UNCHANGED requests
      /\ served' = [served EXCEPT ![p].frames = Append(@, <<r, t.seq>>)]
  <2>1. /\ p \in Ports /\ Right(p, t.dst[p], t.seq) /\ UNCHANGED <<scenario, captured, requests>>
        /\ served' = [served EXCEPT ![p].frames = Append(@, <<t.dst[p], t.seq>>)]
    BY <1>0, <1>1, <1>2, CallbackAnswers
  <2>2. QED
    BY <1>3, <2>1
<1>5. r \in Service!Waiting(p) /\ r \in Nat /\ \A x \in Service!Waiting(p) : r <= x
  BY <1>1, <1>2, <1>3, FirstWaiting
<1>6. Service!Waiting(p) \subseteq Int
  <2>1. DOMAIN requests \subseteq Int
    BY <1>0 DEF AskTypeOK
  <2>2. QED
    BY <2>1 DEF Service!Waiting
<1>7. Min(Service!Waiting(p)) = r
  BY <1>5, <1>6, LeastIs
<1>8. t.seq \in captured /\ requests[r].setting <= t.seq
  BY <1>4 DEF Right
<1>9. t.seq \in Service!FramesFor(r)
  <2>1. PICK from : from = {s \in captured \ scenario.skip : s >= requests[r].setting}
    OBVIOUS
  <2>2. captured \subseteq Int /\ from \subseteq Int /\ requests[r].setting \in Int
    <3>1. captured \subseteq Int
      BY <1>0, CapturedInt
    <3>2. r \in Numbered
      BY <1>4 DEF Right
    <3>3. QED
      BY <1>0, <2>1, <3>1, <3>2, NumberedIs
  <2>3. t.seq \in from
    BY <1>8, <2>1, <2>2 DEF Plain
  <2>4. Service!FramesFor(r) = IF requests[r].reprocess \/ from = {} THEN from ELSE {Min(from)}
    BY <2>1 DEF Service!FramesFor, Service!Min, Min
  <2>5. ASSUME ~requests[r].reprocess PROVE Min(from) = t.seq
    <3>1. \A c \in from : t.seq <= c
      BY <1>4, <2>1, <2>2, <2>5 DEF Right, Normal
    <3>2. QED
      BY <2>2, <2>3, <3>1, LeastIs
  <2>6. QED
    BY <2>3, <2>4, <2>5
<1>10. Shown' = [Shown EXCEPT ![p] = Append(@, <<r, t.seq>>)]
  <2>1. t.seq \in captured /\ r \in Nat
    BY <1>5, <1>8
  <2>2. QED
    BY <1>0, <1>4, <2>1, AnswerLast
<1>11. Service!Min(Service!Waiting(p)) = r
  BY <1>7 DEF Service!Min, Min
<1>12. Service!Serve(p)
  BY <1>4, <1>5, <1>9, <1>10, <1>11 DEF Service!Serve
<1>13. QED
  BY <1>1, <1>12

LEMMA ServiceStep ==
    ASSUME UnitTypeOK, FlightInv, StageInv, ServeInv, Plain, [Next]_vars
    PROVE  [Service!Next]_(Service!vars)
<1>1. UNCHANGED scenario
  BY ScenarioStays
<1>2. CASE NewRequest
  BY <1>1, <1>2, ServiceAsks DEF Service!Next
<1>3. CASE Capture
  BY <1>1, <1>3, ServiceCaptures DEF Service!Next, ServeInv
<1>4. ASSUME NEW i \in Pipes, OnBufferDone(i) PROVE Service!Next
  <2>1. NextPort(i) \in Ports
    BY <1>4, CallbackAnswers DEF ServeInv
  <2>2. QED
    BY <1>4, <2>1, ServiceServes DEF Service!Next
<1>5. CASE ~NewRequest /\ ~Capture /\ ~\E i \in Pipes : OnBufferDone(i)
  <2>1. UNCHANGED <<requests, captured>>
    BY <1>5, AddingSteps
  <2>2. UNCHANGED served
    BY <1>5 DEF vars, Next, LoseFrame, HandleQueueBuffer, ProcessThread,
           ProcessNewFrame, NothingToPrepare, SaveRawBuffer, TrimRawBuffers, PrepareTask,
           FetchSource, DispatchTask, AddTask, ExecuteNode, Executor, PollThread, WaitTimeout,
           Process, HandleEvent, OnTaskDone, EraseSequence, TrimAfterTask, PopTask
  <2>3. UNCHANGED Service!vars
    BY <1>1, <2>1, <2>2 DEF Service!vars, Shown
  <2>4. QED
    BY <2>3
<1>6. QED
  BY <1>2, <1>3, <1>4, <1>5

(* Every port answers the requests it is in once, in their order, and with *)
(* the first frame that their settings are effective on, as FrameService   *)
(* promises: if no frame is skipped, there is one still stream at most,    *)
(* every request that is not to reprocess has settings of its own, and no  *)
(* frame is both kept for HAL ZSL and run for the TNR of a still.          *)
THEOREM ServiceImplemented ==
    ASSUME NoFakes, OneStill
    PROVE  Spec /\ Plain /\ Serial => ServesFrames
<1> DEFINE Inv == UnitTypeOK /\ CoverInv /\ FlightInv /\ Plain /\ Serial /\ StageInv /\ ServeInv
<1>1. Init /\ Plain /\ Serial => Inv
  BY UnitTypeInit, CoverInit, FlightInit, StageInit, ServeInit
<1>2. Inv /\ [Next]_vars => Inv'
  <2>1. SUFFICES ASSUME Inv, [Next]_vars PROVE Inv'
    OBVIOUS
  <2>2. (UnitTypeOK /\ CoverInv /\ FlightInv)'
    BY <2>1, UnitTypeStep, CoverStep, FlightStep
  <2>3. Serial'
    BY <2>1, ScenarioStays DEF Serial
  <2>4. StageInv' /\ Plain'
    BY <2>1, StageStep
  <2>5. ServeInv'
    BY <2>1, <2>2, ServeStep
  <2>6. QED
    BY <2>2, <2>3, <2>4, <2>5
<1>3. Inv /\ [Next]_vars => [Service!Next]_(Service!vars)
  BY ServiceStep
<1>4. Init => Service!Init
  BY ServiceInit
<1>5. QED
  BY <1>1, <1>2, <1>3, <1>4, PTL DEF Spec, ServesFrames, Service!Spec

=============================================================================
