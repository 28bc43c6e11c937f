-------------------------- MODULE OutputFramesProofs --------------------------
(***************************************************************************)
(* Invariants of OutputFrames, proved for every number of streams and of   *)
(* consumers, and every assignment of one to the other.                    *)
(***************************************************************************)
EXTENDS OutputFrames, SequenceTheorems, TLAPS

(* Notifications only move consumers from their wait to "woken".           *)
Woken(before, after) ==
    \A c \in Consumers : after[c] # before[c] => before[c] = "wait" /\ after[c] = "woken"

LEMMA NotifyOneWakes ==
    ASSUME TypeOK, NEW s \in Streams, NotifyOne(s)
    PROVE  /\ dq' \in [Consumers -> {"user", "call", "wait", "woken", "timeout", "released"}]
           /\ Woken(dq, dq')
           /\ \A c \in Waiting(s) : Waiting(s) = {c} => dq'[c] = "woken"
<1>1. CASE Waiting(s) = {}
  <2>1. dq' = dq
    BY <1>1 DEF NotifyOne
  <2>2. QED
    BY <1>1, <2>1 DEF TypeOK, Woken
<1>2. CASE Waiting(s) # {}
  <2>1. PICK w \in Waiting(s) : dq' = [dq EXCEPT ![w] = "woken"]
    BY <1>2 DEF NotifyOne
  <2>2. w \in Consumers /\ dq[w] = "wait"
    BY DEF Waiting
  <2>3. Woken(dq, dq') /\ dq'[w] = "woken"
    BY <2>1, <2>2 DEF TypeOK, Woken
  <2>4. QED
    BY <2>1, <2>2, <2>3 DEF TypeOK
<1>3. QED
  BY <1>1, <1>2

LEMMA NotifyAllWakes ==
    ASSUME TypeOK, NEW s \in Streams, NotifyAll(s)
    PROVE  /\ dq' \in [Consumers -> {"user", "call", "wait", "woken", "timeout", "released"}]
           /\ Woken(dq, dq')
           /\ \A c \in Waiting(s) : dq'[c] = "woken"
<1>1. \A c \in Consumers : dq'[c] = IF c \in Waiting(s) THEN "woken" ELSE dq[c]
  BY DEF NotifyAll
<1>2. \A c \in Waiting(s) : c \in Consumers /\ dq[c] = "wait"
  BY DEF Waiting
<1>3. QED
  BY <1>1, <1>2 DEF NotifyAll, TypeOK, Woken

-----------------------------------------------------------------------------
(* Type correctness, one step per action.                                  *)

LEMMA TypeInit == Init => TypeOK
<1>1. <<>> \in Seq(1 .. MaxFrames)
  OBVIOUS
<1>2. QED
  BY <1>1, OutputAssumption DEF Init, TypeOK, Streams

LEMMA TypeStep == TypeOK /\ [Next]_vars => TypeOK'
<1> SUFFICES ASSUME TypeOK, [Next]_vars PROVE TypeOK'
  OBVIOUS
<1>1. ASSUME NEW c \in Consumers, ConsumerStep(c) PROVE TypeOK'
  <2>1. StreamOf[c] \in Streams
    BY OutputAssumption
  <2>2. CASE WaitFrame(c)
    <3>1. mFrameQueue[StreamOf[c]] # <<>> =>
            Tail(mFrameQueue[StreamOf[c]]) \in Seq(1 .. MaxFrames)
      BY <2>1, HeadTailProperties DEF TypeOK
    <3>2. QED
      BY <2>1, <2>2, <3>1 DEF WaitFrame, TypeOK
  <2>3. CASE Dqbuf(c) \/ SpuriousWakeup(c) \/ Timeout(c) \/ TimedOut(c)
    BY <2>3 DEF Dqbuf, SpuriousWakeup, Timeout, TimedOut, TypeOK
  <2>4. QED
    BY <1>1, <2>2, <2>3 DEF ConsumerStep
<1>2. ASSUME NEW s \in Streams, HandleFrameAvailable(s) PROVE TypeOK'
  <2>1. delivered + 1 \in 1 .. MaxFrames
    BY <1>2, OutputAssumption DEF HandleFrameAvailable, TypeOK
  <2>2. Append(mFrameQueue[s], delivered + 1) \in Seq(1 .. MaxFrames)
    BY <2>1 DEF TypeOK
  <2>3. dq' \in [Consumers -> {"user", "call", "wait", "woken", "timeout", "released"}]
    BY <1>2, NotifyOneWakes DEF HandleFrameAvailable, TypeOK
  <2>4. QED
    BY <1>2, <2>1, <2>2, <2>3, OutputAssumption DEF HandleFrameAvailable, TypeOK
<1>3. CASE Stop \/ RequestStop
  BY <1>3, OutputAssumption DEF Stop, RequestStop, TypeOK
<1>4. CASE ClearStream
  <2>1. clearing \in Streams /\ clearing + 1 \in 0 .. NumStreams
    BY <1>4, OutputAssumption DEF ClearStream, TypeOK, Streams
  <2>2. dq' \in [Consumers -> {"user", "call", "wait", "woken", "timeout", "released"}]
    BY <1>4, <2>1, NotifyAllWakes DEF ClearStream
  <2>3. mFrameQueue' \in [Streams -> Seq(1 .. MaxFrames)]
    <3>1. <<>> \in Seq(1 .. MaxFrames)
      OBVIOUS
    <3>2. QED
      BY <1>4, <3>1 DEF ClearStream, TypeOK
  <2>4. QED
    BY <1>4, <2>1, <2>2, <2>3 DEF ClearStream, TypeOK
<1>5. CASE UNCHANGED vars
  BY <1>5 DEF vars, TypeOK
<1>6. QED
  BY <1>1, <1>2, <1>3, <1>4, <1>5 DEF Next

(* Every variable keeps its type: in particular clearRequests never walks  *)
(* past the last stream.                                                   *)
THEOREM OutputTypes == Spec => []TypeOK
BY TypeInit, TypeStep, PTL DEF Spec

-----------------------------------------------------------------------------
(* requestStop releases the consumers.  The property is inductive: a       *)
(* consumer that comes to the wait after EXIT was set does not wait, and   *)
(* one that waited before is woken when clearRequests comes by.            *)

LEMMA ReleasedStep == TypeOK /\ ReleasedOnExit /\ [Next]_vars => ReleasedOnExit'
<1> SUFFICES ASSUME TypeOK, ReleasedOnExit, [Next]_vars,
                    mState' = "EXIT", NEW c \in Consumers, StreamOf[c] < clearing'
             PROVE  dq'[c] # "wait"
  BY DEF ReleasedOnExit
<1> USE OutputAssumption
<1>1. ASSUME NEW d \in Consumers, ConsumerStep(d) PROVE dq'[c] # "wait"
  <2>1. mState = "EXIT" /\ dq[c] # "wait"
    BY <1>1 DEF ConsumerStep, Dqbuf, WaitFrame, SpuriousWakeup, Timeout, TimedOut,
                ReleasedOnExit
  <2>2. QED
    BY <1>1, <2>1 DEF ConsumerStep, Dqbuf, WaitFrame, SpuriousWakeup, Timeout, TimedOut,
                      ExitSeen, TypeOK
<1>2. ASSUME NEW s \in Streams, HandleFrameAvailable(s) PROVE dq'[c] # "wait"
  <2>1. dq[c] # "wait"
    BY <1>2 DEF HandleFrameAvailable, ReleasedOnExit
  <2>2. Woken(dq, dq')
    <3>1. dq' = dq => Woken(dq, dq')
      BY DEF Woken
    <3>2. QED
      BY <1>2, <3>1, NotifyOneWakes DEF HandleFrameAvailable
  <2>3. QED
    BY <2>1, <2>2 DEF Woken
<1>3. CASE Stop \/ RequestStop
  BY <1>3 DEF Stop, RequestStop, Streams
<1>4. CASE ClearStream
  <2>1. clearing \in Streams
    BY <1>4 DEF ClearStream, TypeOK, Streams
  <2>2. /\ Woken(dq, dq')
        /\ \A w \in Waiting(clearing) : dq'[w] = "woken"
    BY <1>4, <2>1, NotifyAllWakes DEF ClearStream
  <2>3. mState = "EXIT" /\ (StreamOf[c] < clearing \/ StreamOf[c] = clearing)
    BY <1>4, <2>1 DEF ClearStream, Streams
  <2>4. QED
    BY <2>2, <2>3 DEF Woken, Waiting, ReleasedOnExit
<1>5. CASE UNCHANGED vars
  BY <1>5 DEF vars, ReleasedOnExit
<1>6. QED
  BY <1>1, <1>2, <1>3, <1>4, <1>5 DEF Next

(* Once requestStop has been past a stream no consumer sleeps on it,       *)
(* however many there are: RequestThread.cpp sets mState before it         *)
(* notifies, and waitFrame tests it under the stream's lock.               *)
THEOREM ConsumersLetGo == Spec => []ReleasedOnExit
<1>1. Init => ReleasedOnExit
  BY DEF Init, ReleasedOnExit
<1>2. QED
  BY <1>1, OutputTypes, ReleasedStep, PTL DEF Spec

-----------------------------------------------------------------------------
(* A consumer that has its stream for itself.                              *)

LEMMA AwakeStep == TypeOK /\ ConsumerAwake /\ [Next]_vars => ConsumerAwake'
<1> SUFFICES ASSUME TypeOK, ConsumerAwake, [Next]_vars,
                    NEW c \in Consumers, Alone(c), dq'[c] = "wait"
             PROVE  mFrameQueue'[StreamOf[c]] = <<>>
  BY DEF ConsumerAwake, Alone
<1> DEFINE s == StreamOf[c]
<1>a. s \in Streams
  BY OutputAssumption
<1>b. dq[c] = "wait" => mFrameQueue[s] = <<>>
  BY DEF ConsumerAwake
<1> HIDE DEF s
<1>1. ASSUME NEW d \in Consumers, ConsumerStep(d) PROVE mFrameQueue'[s] = <<>>
  <2>1. CASE d = c
    BY <1>1, <2>1, <1>a, <1>b DEF ConsumerStep, Dqbuf, WaitFrame, SpuriousWakeup, Timeout,
                                  TimedOut, TypeOK, s
  <2>2. CASE d # c
    <3>1. StreamOf[d] # s
      BY <2>2 DEF Alone, s
    <3>2. dq'[c] = dq[c] /\ mFrameQueue'[s] = mFrameQueue[s]
      BY <1>1, <2>2, <3>1, <1>a DEF ConsumerStep, Dqbuf, WaitFrame, SpuriousWakeup, Timeout,
                                    TimedOut, TypeOK
    <3>3. QED
      BY <3>2, <1>b
  <2>3. QED
    BY <2>1, <2>2
<1>2. ASSUME NEW r \in Streams, HandleFrameAvailable(r) PROVE mFrameQueue'[s] = <<>>
  <2>1. dq[c] = "wait" /\ mFrameQueue[s] = <<>>
    BY <1>2, <1>b, NotifyOneWakes DEF HandleFrameAvailable, Woken
  <2>2. r # s
    <3>1. SUFFICES ASSUME r = s PROVE FALSE
      OBVIOUS
    <3>2. NotifyOne(s)
      BY <1>2, <2>1, <3>1 DEF HandleFrameAvailable, NeedSignal
    <3>3. Waiting(s) = {c}
      BY <2>1 DEF Waiting, Alone, s
    <3>4. QED
      BY <3>2, <3>3, <1>a, NotifyOneWakes
  <2>3. QED
    BY <1>2, <2>1, <2>2, <1>a DEF HandleFrameAvailable, TypeOK
<1>3. CASE Stop \/ RequestStop
  BY <1>3, <1>b DEF Stop, RequestStop, s
<1>4. CASE ClearStream
  <2>1. clearing \in Streams
    BY <1>4, OutputAssumption DEF ClearStream, TypeOK, Streams
  <2>2. dq[c] = "wait"
    BY <1>4, <2>1, NotifyAllWakes DEF ClearStream, Woken
  <2>3. QED
    BY <1>4, <2>2, <1>a, <1>b DEF ClearStream, TypeOK, s
<1>5. CASE UNCHANGED vars
  BY <1>5, <1>b DEF vars, s
<1>6. QED
  BY <1>1, <1>2, <1>3, <1>4, <1>5 DEF Next, s

(* needSignal, which is true for an empty queue only, is enough for a      *)
(* stream with one consumer.                                               *)
THEOREM LoneConsumerAwake == Spec => []ConsumerAwake
<1>1. Init => ConsumerAwake
  BY DEF Init, ConsumerAwake
<1>2. QED
  BY <1>1, OutputTypes, AwakeStep, PTL DEF Spec
=============================================================================
