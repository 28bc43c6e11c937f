---------------------------- MODULE AiqEngineProofs ----------------------------
(***************************************************************************)
(* What AiqEngine and AiqResultStorage do with statistics, and how the     *)
(* settings of a run reach frames through the maps of SensorManager,       *)
(* proved for every size of the rings, any lags of the sensor, any number  *)
(* of runs, frames, failures and restarts.                                 *)
(*                                                                         *)
(* The first part is about statistics.  The others are about settings:     *)
(* what one run sends (Exposed, by induction over its steps), what stays   *)
(* in the maps (LeakInv), how far it reaches (DelayInv), which frame is    *)
(* reported (EffectInv), which gain goes with which exposure (TidyInv,     *)
(* GainInv) and which result with which frame (ReachInv, FrameInv).        *)
(***************************************************************************)
EXTENDS AiqEngine, FiniteSetTheorems, SequenceTheorems, WellFoundedInduction,
        NaturalsInduction, TLAPS

(* The slot a run has locked, -1: none.                                    *)
Held == IF run.at \in Reading THEN run.stats ELSE -1

StatsTypeOK ==
    /\ slot \in [Slots -> [mSequence : Int, mInUse : BOOLEAN]]
    /\ mCurrentAiqStatsIndex \in Slots \cup {-1} /\ decode \in Slots \cup {-1}
    /\ run.stats \in Slots \cup {-1}
    /\ lastDecoded \in Int /\ lastDecoded >= NoSeq /\ lastUsed \in Int
    /\ resets \in Nat

(* A slot is in use exactly while a run holds it, and the slot decoded     *)
(* into is the one after the current one, also when one was skipped.       *)
ReadInv ==
    /\ \A i \in Slots : slot[i].mInUse <=> i = Held
    /\ decode # -1 => decode = After(mCurrentAiqStatsIndex) /\ decode # Held
    /\ decode # -1 => lastDecoded >= 0

(* The current slot has statistics of this session; the ones a run holds   *)
(* are no newer, and the ones used last are no newer than either.          *)
AgeInv ==
    /\ mCurrentAiqStatsIndex = -1 => lastUsed = NoSeq
    /\ mCurrentAiqStatsIndex # -1 =>
         /\ slot[mCurrentAiqStatsIndex].mSequence \in 0 .. lastDecoded
         /\ lastUsed <= slot[mCurrentAiqStatsIndex].mSequence
    /\ Held # -1 =>
         /\ mCurrentAiqStatsIndex # -1
         /\ lastUsed <= slot[Held].mSequence
         /\ slot[Held].mSequence >= 0
         /\ slot[Held].mSequence <= slot[mCurrentAiqStatsIndex].mSequence

StatsInv == StatsTypeOK /\ ReadInv /\ AgeInv

(* The ring has at least three slots, so neither the slot after one nor    *)
(* the one after that is the slot itself.                                  *)
LEMMA AfterSlot ==
    ASSUME NEW i \in Slots \cup {-1}
    PROVE  /\ After(i) \in Slots /\ After(i) # i
           /\ After(After(i)) \in Slots /\ After(After(i)) # i
           /\ After(After(i)) # After(i)
<1> DEFINE k == kAiqStatsStorageSize
<1>1. k \in Nat /\ k >= 3 /\ i \in -1 .. k - 1
  BY StorageAssumption DEF Slots
<1>2. \A j \in -1 .. k - 1 : (j + 1) % k = IF j = k - 1 THEN 0 ELSE j + 1
  BY <1>1
<1>3. After(i) = (IF i = k - 1 THEN 0 ELSE i + 1) /\ After(i) \in -1 .. k - 1
  BY <1>1, <1>2 DEF After
<1>4. After(After(i)) = IF After(i) = k - 1 THEN 0 ELSE After(i) + 1
  BY <1>1, <1>2, <1>3 DEF After
<1>5. QED
  BY <1>1, <1>3, <1>4 DEF Slots

LEMMA HeldSlot == StatsTypeOK => Held \in Slots \cup {-1}
BY DEF StatsTypeOK, Held

LEMMA StatsInit == Init => StatsInv
<1> SUFFICES ASSUME Init PROVE StatsInv
  OBVIOUS
<1>1. -1 \notin Slots
  BY StorageAssumption DEF Slots
<1>2. Held = -1 /\ run.stats = -1
  BY DEF Init, Held, NoRun, NoSeq
<1>3. QED
  BY <1>1, <1>2 DEF Init, StatsInv, StatsTypeOK, ReadInv, AgeInv, NoSeq

-----------------------------------------------------------------------------
(* The processing unit's steps.                                            *)

LEMMA AcquireKeeps == StatsInv /\ AcquireAiqStatistics => StatsInv'
<1> SUFFICES ASSUME StatsInv, AcquireAiqStatistics PROVE StatsInv'
  OBVIOUS
<1> DEFINE cur == mCurrentAiqStatsIndex
           next == After(cur)
           free == IF InUse(next) THEN After(next) ELSE next
<1> USE DEF StatsInv
<1>1. cur \in Slots \cup {-1} /\ -1 \notin Slots /\ Held \in Slots \cup {-1}
  BY StorageAssumption, HeldSlot DEF StatsTypeOK, Slots
<1>2. /\ next \in Slots /\ next # cur /\ After(next) \in Slots
      /\ After(next) # next /\ After(next) # cur
  BY <1>1, AfterSlot
<1>3. /\ decode = -1 /\ cur' = (IF InUse(next) THEN next ELSE cur) /\ decode' = free
      /\ lastDecoded' = lastDecoded + 1
      /\ slot' = [slot EXCEPT ![free].mSequence = NoSeq]
      /\ UNCHANGED <<run, lastUsed, resets>>
  BY DEF AcquireAiqStatistics, counts
<1>a. Held' = Held
  BY <1>3 DEF Held
<1> HIDE DEF next, free
<1>4. InUse(next) <=> next = Held
  BY <1>2 DEF InUse, ReadInv
<1>5. free \in Slots /\ free # Held /\ free # cur' /\ decode' = After(cur')
  BY <1>1, <1>2, <1>3, <1>4 DEF free, next
<1>6. /\ \A i \in Slots : slot'[i].mInUse = slot[i].mInUse
      /\ \A i \in Slots : i # free => slot'[i] = slot[i]
      /\ slot' \in [Slots -> [mSequence : Int, mInUse : BOOLEAN]]
  BY <1>3, <1>5 DEF StatsTypeOK, NoSeq
<1>7. StatsTypeOK'
  BY <1>1, <1>2, <1>3, <1>5, <1>6 DEF StatsTypeOK, NoSeq
<1>8. ReadInv'
  BY <1>3, <1>a, <1>5, <1>6 DEF ReadInv, StatsTypeOK, NoSeq
<1>9. AgeInv'
  <2>1. CASE InUse(next)
    <3>1. Held = next /\ Held # -1 /\ cur' = Held
      BY <2>1, <1>1, <1>2, <1>3, <1>4
    <3>2. slot'[Held] = slot[Held] /\ slot[Held].mSequence \in 0 .. lastDecoded
      <4>1. /\ slot[Held].mSequence <= slot[cur].mSequence
            /\ slot[cur].mSequence \in 0 .. lastDecoded
            /\ slot[Held].mSequence \in Int /\ slot[Held].mSequence >= 0
        BY <3>1, <1>2 DEF AgeInv, StatsTypeOK
      <4>2. QED
        BY <4>1, <3>1, <1>2, <1>5, <1>6 DEF StatsTypeOK
    <3>3. QED
      BY <3>1, <3>2, <1>1, <1>2, <1>3, <1>a DEF AgeInv, StatsTypeOK
  <2>2. CASE ~InUse(next)
    <3>1. cur' = cur /\ (cur # -1 => slot'[cur] = slot[cur])
      BY <2>2, <1>1, <1>3, <1>5, <1>6
    <3>2. Held # -1 => slot'[Held] = slot[Held]
      BY <1>1, <1>5, <1>6
    <3>3. QED
      BY <3>1, <3>2, <1>3, <1>a DEF AgeInv, StatsTypeOK
  <2>3. QED
    BY <2>1, <2>2
<1>10. QED
  BY <1>7, <1>8, <1>9

LEMMA UpdateKeeps == StatsInv /\ UpdateAiqStatistics => StatsInv'
<1> SUFFICES ASSUME StatsInv, UpdateAiqStatistics PROVE StatsInv'
  OBVIOUS
<1> DEFINE cur == mCurrentAiqStatsIndex
<1> USE DEF StatsInv
<1>1. cur \in Slots \cup {-1} /\ -1 \notin Slots /\ Held \in Slots \cup {-1}
  BY StorageAssumption, HeldSlot DEF StatsTypeOK, Slots
<1>2. After(cur) \in Slots /\ After(cur) # cur
  BY <1>1, AfterSlot
<1>3. /\ decode = After(cur) /\ decode # Held /\ lastDecoded >= 0
      /\ cur' = decode /\ decode' = -1
      /\ slot' = [slot EXCEPT ![decode].mSequence = lastDecoded]
      /\ UNCHANGED <<run, lastDecoded, lastUsed, resets>>
  BY DEF UpdateAiqStatistics, counts, ReadInv
<1>a. Held' = Held
  BY <1>3 DEF Held
<1>4. /\ \A i \in Slots : slot'[i].mInUse = slot[i].mInUse
      /\ \A i \in Slots : i # decode => slot'[i] = slot[i]
      /\ slot'[decode].mSequence = lastDecoded
      /\ slot' \in [Slots -> [mSequence : Int, mInUse : BOOLEAN]]
  BY <1>2, <1>3 DEF StatsTypeOK
<1>5. StatsTypeOK'
  BY <1>1, <1>2, <1>3, <1>4 DEF StatsTypeOK
<1>6. ReadInv'
  BY <1>3, <1>a, <1>4 DEF ReadInv
<1>7. AgeInv'
  <2>1. Held # -1 => slot'[Held] = slot[Held] /\ slot[Held].mSequence <= lastDecoded
    BY <1>1, <1>3, <1>4 DEF AgeInv, StatsTypeOK
  <2>2. lastUsed <= lastDecoded
    BY <1>1, <1>3 DEF AgeInv, StatsTypeOK, NoSeq
  <2>3. cur' # -1 /\ lastDecoded \in 0 .. lastDecoded
    BY <1>1, <1>2, <1>3 DEF StatsTypeOK
  <2>4. QED
    BY <2>1, <2>2, <2>3, <1>3, <1>a, <1>4 DEF AgeInv
<1>8. QED
  BY <1>5, <1>6, <1>7

-----------------------------------------------------------------------------
(* A run of 3A.                                                            *)

(* What RunBegin does to the statistics, whatever the run comes to.        *)
LEMMA RunBeginReads ==
    ASSUME StatsInv, RunBegin
    PROVE  /\ run = NoRun /\ run'.at \in Reading /\ run'.stats = LockedSlot
           /\ slot' = IF LockedSlot = -1 THEN slot
                      ELSE [slot EXCEPT ![LockedSlot].mInUse = TRUE]
           /\ \/ lastUsed' = lastUsed
              \/ LockedSlot # -1 /\ lastUsed' = slot[LockedSlot].mSequence
           /\ UNCHANGED <<mCurrentAiqStatsIndex, decode, lastDecoded, resets>>
<1>1. run'.at \in {"done", "error", "wait"} /\ run'.stats = LockedSlot
  BY DEF RunBegin
<1>2. QED
  BY <1>1 DEF RunBegin, Reading

LEMMA RunBeginKeeps ==
    StatsInv /\ RunBegin => StatsInv' /\ lastUsed' >= lastUsed
<1> SUFFICES ASSUME StatsInv, RunBegin PROVE StatsInv' /\ lastUsed' >= lastUsed
  OBVIOUS
<1> DEFINE cur == mCurrentAiqStatsIndex
<1> USE DEF StatsInv
<1>1. cur \in Slots \cup {-1} /\ -1 \notin Slots
  BY StorageAssumption DEF StatsTypeOK, Slots
<1>2. /\ Held = -1 /\ Held' = LockedSlot /\ run'.stats = LockedSlot
      /\ slot' = IF LockedSlot = -1 THEN slot
                 ELSE [slot EXCEPT ![LockedSlot].mInUse = TRUE]
      /\ \/ lastUsed' = lastUsed
         \/ LockedSlot # -1 /\ lastUsed' = slot[LockedSlot].mSequence
      /\ UNCHANGED <<mCurrentAiqStatsIndex, decode, lastDecoded, resets>>
  BY RunBeginReads DEF Held, NoRun, Reading
<1>3. LockedSlot \in {-1, cur}
  BY DEF LockedSlot
<1>4. /\ \A i \in Slots : slot'[i].mSequence = slot[i].mSequence
      /\ \A i \in Slots : slot'[i].mInUse <=> i = Held'
      /\ slot' \in [Slots -> [mSequence : Int, mInUse : BOOLEAN]]
  BY <1>1, <1>2, <1>3 DEF StatsTypeOK, ReadInv
<1>5. lastUsed' \in Int /\ lastUsed' >= lastUsed
      /\ (cur = -1 => lastUsed' = lastUsed)
      /\ (cur # -1 => lastUsed' <= slot[cur].mSequence)
  BY <1>1, <1>2, <1>3 DEF AgeInv, StatsTypeOK
<1>6. StatsTypeOK'
  BY <1>1, <1>2, <1>3, <1>4, <1>5 DEF StatsTypeOK
<1>7. decode # -1 => decode # cur
  BY <1>1, AfterSlot DEF ReadInv
<1>8. ReadInv'
  BY <1>2, <1>3, <1>4, <1>7 DEF ReadInv
<1>9. AgeInv'
  BY <1>1, <1>2, <1>3, <1>4, <1>5 DEF AgeInv, StatsTypeOK
<1>10. QED
  BY <1>5, <1>6, <1>8, <1>9

LEMMA UnLockKeeps == StatsInv /\ UnLockAiqStatistics => StatsInv'
<1> SUFFICES ASSUME StatsInv, UnLockAiqStatistics PROVE StatsInv'
  OBVIOUS
<1> DEFINE cur == mCurrentAiqStatsIndex
<1> USE DEF StatsInv
<1>1. cur \in Slots \cup {-1} /\ -1 \notin Slots
  BY StorageAssumption DEF StatsTypeOK, Slots
<1>2. /\ Held' = -1 /\ run'.stats = run.stats
      /\ slot' = [i \in Slots |-> [slot[i] EXCEPT !.mInUse = FALSE]]
      /\ UNCHANGED <<mCurrentAiqStatsIndex, decode, lastDecoded, lastUsed, resets>>
  BY DEF UnLockAiqStatistics, Held, Reading, counts
<1>3. /\ \A i \in Slots : slot'[i].mSequence = slot[i].mSequence /\ ~slot'[i].mInUse
      /\ slot' \in [Slots -> [mSequence : Int, mInUse : BOOLEAN]]
  BY <1>2 DEF StatsTypeOK
<1>4. StatsTypeOK'
  BY <1>2, <1>3 DEF StatsTypeOK
<1>5. ReadInv'
  BY <1>1, <1>2, <1>3 DEF ReadInv
<1>6. AgeInv'
  BY <1>1, <1>2, <1>3 DEF AgeInv
<1>7. QED
  BY <1>4, <1>5, <1>6

LEMMA RunEndKeeps == StatsInv /\ RunEnd => StatsInv'
<1> SUFFICES ASSUME StatsInv, RunEnd PROVE StatsInv'
  OBVIOUS
<1>1. Held = -1 /\ Held' = -1 /\ run'.stats = -1 /\ UNCHANGED <<storage, resets>>
  BY DEF RunEnd, Held, Reading, NoRun, NoSeq, counts
<1>2. QED
  BY <1>1 DEF StatsInv, StatsTypeOK, ReadInv, AgeInv, storage

LEMMA ResetKeeps == StatsInv /\ Reset => StatsInv'
<1> SUFFICES ASSUME StatsInv, Reset PROVE StatsInv'
  OBVIOUS
<1>1. Held = -1 /\ Held' = -1 /\ UNCHANGED run
  BY DEF Reset, Held, NoRun, Reading
<1>2. QED
  BY <1>1 DEF Reset, StatsInv, StatsTypeOK, ReadInv, AgeInv, NoSeq

(* The other steps leave the statistics alone.                             *)
LEMMA OthersKeep ==
    HardwareSof \/ Sof \/ LostSof \/ SofToRequestThread \/ PickFor \/ UNCHANGED vars
      => UNCHANGED <<storage, run, resets>>
BY DEF HardwareSof, Sof, LostSof, SofToRequestThread, PickFor, vars, storage, counts

LEMMA StatsStep == StatsInv /\ [Next]_vars => StatsInv'
<1> SUFFICES ASSUME StatsInv, [Next]_vars PROVE StatsInv'
  OBVIOUS
<1>1. CASE AcquireAiqStatistics
  BY <1>1, AcquireKeeps
<1>2. CASE UpdateAiqStatistics
  BY <1>2, UpdateKeeps
<1>3. CASE RunBegin
  BY <1>3, RunBeginKeeps
<1>4. CASE UnLockAiqStatistics
  BY <1>4, UnLockKeeps
<1>5. CASE RunEnd
  BY <1>5, RunEndKeeps
<1>6. CASE Reset
  BY <1>6, ResetKeeps
<1>7. CASE HardwareSof \/ Sof \/ LostSof \/ SofToRequestThread \/ PickFor \/ UNCHANGED vars
  <2>1. UNCHANGED <<storage, run, resets>>
    BY <1>7, OthersKeep
  <2>2. QED
    BY <2>1 DEF StatsInv, StatsTypeOK, ReadInv, AgeInv, Held, storage
<1>8. QED
  BY <1>1, <1>2, <1>3, <1>4, <1>5, <1>6, <1>7 DEF Next

LEMMA StatsInductive == Spec => []StatsInv
BY StatsInit, StatsStep, PTL DEF Spec

(* AiqResultStorage never gives out a slot to decode into that a run of 3A *)
(* has locked, although the processing unit may decode several statistics  *)
(* while one run is in progress and comes around the ring.                 *)
THEOREM SlotNotOverwritten == Spec => []ReaderSafe
<1>1. StatsInv => ReaderSafe
  BY DEF StatsInv, ReadInv, ReaderSafe, Held
<1>2. QED
  BY <1>1, StatsInductive, PTL

(* 3A never goes back to older statistics: acquireAiqStatistics may make   *)
(* an old slot the current one, but then it is the one a run holds.  What  *)
(* run3A records of the statistics, which may be wrong, is not relied on.  *)
THEOREM StatisticsNotOlder == Spec => StatisticsNeverRegress
<1>1. StatsInv /\ [Next]_vars => [resets' = resets => lastUsed' >= lastUsed]_vars
  <2> SUFFICES ASSUME StatsInv, Next, resets' = resets PROVE lastUsed' >= lastUsed
    OBVIOUS
  <2>1. CASE RunBegin
    BY <2>1, RunBeginKeeps
  <2>2. CASE Reset
    BY <2>2 DEF Reset, StatsInv, StatsTypeOK
  <2>3. CASE ~RunBegin /\ ~Reset
    <3>1. lastUsed' = lastUsed
      BY <2>3, OthersKeep
      DEF Next, AcquireAiqStatistics, UpdateAiqStatistics, UnLockAiqStatistics, RunEnd, storage
    <3>2. QED
      BY <3>1 DEF StatsInv, StatsTypeOK
  <2>4. QED
    BY <2>1, <2>2, <2>3
<1>2. QED
  BY <1>1, StatsInductive, PTL DEF Spec, StatisticsNeverRegress

-----------------------------------------------------------------------------
(* The settings of one run, one setSensorExposure after the other.         *)

LEMMA LeastOf ==
    ASSUME NEW S \in SUBSET Nat, S # {}
    PROVE  \E x \in S : \A y \in S : x <= y
<1>1. IsWellFoundedOn(OpToRel(<, Nat), Nat)
  BY NatLessThanWellFounded
<1>2. PICK x \in S : \A y \in S : ~(<<y, x>> \in OpToRel(<, Nat))
  BY <1>1, WFMin
<1>3. ASSUME NEW y \in S PROVE x <= y
  <2>1. <<y, x>> \in Nat \X Nat
    OBVIOUS
  <2>2. ~(y < x)
    BY <1>2, <2>1 DEF OpToRel
  <2>3. QED
    BY <2>2
<1>4. QED
  BY <1>3

(* A set of steps that has the first and with each the next has them all.  *)
LEMMA AllSteps ==
    ASSUME NEW n \in Nat, NEW I, 0 \in I, \A i \in 0 .. n - 1 : i \in I => i + 1 \in I
    PROVE  \A i \in 0 .. n : i \in I
<1> DEFINE B == {i \in 0 .. n : i \notin I}
<1> SUFFICES ASSUME B # {} PROVE FALSE
  OBVIOUS
<1>0. B \in SUBSET Nat
  OBVIOUS
<1>1. PICK x \in B : \A y \in B : x <= y
  <2> HIDE DEF B
  <2>1. QED
    BY <1>0, LeastOf
<1>2. x \in 1 .. n /\ x - 1 \in 0 .. n - 1
  BY <1>1
<1>3. x - 1 \in I
  BY <1>1, <1>2
<1>4. x \in I
  BY <1>2, <1>3
<1>5. QED
  BY <1>4

(* What the recursive definition of Exposed defines.                       *)
LEMMA ExposedSteps ==
    ASSUME NEW n \in Nat, NEW target, NEW r
    PROVE  LET s == Exposed(n, target, r) IN
           /\ s[0] = UpdateSensorExposure(sensor, target, r)
           /\ \A i \in 0 .. n - 1 : s[i + 1] = UpdateSensorExposure(s[i], NoSeq, r)
<1> DEFINE A == UpdateSensorExposure(sensor, target, r)
           U(s) == UpdateSensorExposure(s, NoSeq, r)
           Defines(f, m) == f = [i \in 0 .. m |-> IF i = 0 THEN A ELSE U(f[i - 1])]
           I == {m \in 0 .. n : \E f : Defines(f, m)}
<1> HIDE DEF A, U
<1>1. 0 \in I
  <2>1. Defines([i \in 0 .. 0 |-> A], 0)
    OBVIOUS
  <2> HIDE DEF Defines
  <2>2. \E f : Defines(f, 0)
    BY <2>1
  <2>3. QED
    BY <2>2
<1>2. ASSUME NEW m \in 0 .. n - 1, m \in I PROVE m + 1 \in I
  <2>1. PICK h : Defines(h, m)
    BY <1>2
  <2> DEFINE g == [i \in 0 .. m + 1 |-> IF i = m + 1 THEN U(h[m]) ELSE h[i]]
  <2>2. ASSUME NEW i \in 0 .. m + 1 PROVE g[i] = IF i = 0 THEN A ELSE U(g[i - 1])
    <3>1. CASE i = 0
      BY <2>1, <3>1
    <3>2. CASE i \in 1 .. m
      BY <2>1, <3>2
    <3>3. CASE i = m + 1
      BY <3>3
    <3>4. QED
      BY <3>1, <3>2, <3>3
  <2>3. Defines(g, m + 1)
    BY <2>2
  <2> HIDE DEF Defines, g
  <2>4. m + 1 \in 0 .. n /\ \E f : Defines(f, m + 1)
    BY <2>3
  <2>5. QED
    BY <2>4
<1>3. n \in I
  <2> HIDE DEF I
  <2>1. \A i \in 0 .. n : i \in I
    BY <1>1, <1>2, AllSteps
  <2>2. QED
    BY <2>1
<1>4. \E f : Defines(f, n)
  BY <1>3
<1>5. Exposed(n, target, r) = CHOOSE f : Defines(f, n)
  BY DEF Exposed, A, U
<1>6. Defines(Exposed(n, target, r), n)
  BY <1>4, <1>5
<1> DEFINE s == Exposed(n, target, r)
<1> HIDE DEF s
<1>7. s[0] = A /\ \A i \in 0 .. n - 1 : s[i + 1] = U(s[i])
  BY <1>6 DEF s
<1>8. QED
  BY <1>7 DEF s, A, U

-----------------------------------------------------------------------------
(* The maps of the sensor.                                                 *)

Fields == {"last", "exp", "gain", "expReg", "gainReg", "seq"}

SensorOK(s) ==
    /\ DOMAIN s = Fields /\ s.last \in Int /\ s.last >= NoSeq
    /\ IsFiniteSet(DOMAIN s.exp) /\ DOMAIN s.exp \subseteq Int /\ DOMAIN s.gain \subseteq Int
    /\ s.last < 0 => DOMAIN s.exp = {} /\ DOMAIN s.gain = {}

Overdue(s)  == {k \in DOMAIN s.exp : k <= s.last}
AheadOf(s) == IF s.last < 0 THEN 0 ELSE s.last + ExposureLag + Size(s.exp)

LEMMA LagTypes == ExposureLag \in Nat /\ GainLag \in Nat /\ GainDelay \in Nat
                  /\ ExposureLag = GainLag + GainDelay /\ GainLag >= 1
BY LagAssumption DEF GainDelay

LEMMA PutIs == ASSUME NEW f, NEW k, NEW v PROVE DOMAIN Put(f, k, v) = DOMAIN f \cup {k}
BY DEF Put

LEMMA PutValues ==
    ASSUME NEW f, NEW k, NEW v
    PROVE  /\ Put(f, k, v)[k] = v
           /\ \A j \in DOMAIN f : j # k => Put(f, k, v)[j] = f[j]
BY DEF Put

LEMMA PutSize ==
    ASSUME NEW f, IsFiniteSet(DOMAIN f), NEW k, NEW v
    PROVE  /\ IsFiniteSet(DOMAIN Put(f, k, v))
           /\ Size(f) \in Nat /\ Size(Put(f, k, v)) \in Nat
           /\ k \notin DOMAIN f => Size(Put(f, k, v)) = Size(f) + 1
           /\ k \in DOMAIN f => Size(Put(f, k, v)) = Size(f)
<1>1. DOMAIN Put(f, k, v) = DOMAIN f \cup {k}
  BY PutIs
<1>2. IsFiniteSet(DOMAIN f \cup {k}) /\ Cardinality(DOMAIN f) \in Nat
  BY FS_AddElement, FS_CardinalityType
<1>3. k \notin DOMAIN f => Cardinality(DOMAIN f \cup {k}) = Cardinality(DOMAIN f) + 1
  BY FS_AddElement
<1>4. k \in DOMAIN f => DOMAIN f \cup {k} = DOMAIN f
  OBVIOUS
<1>5. QED
  BY <1>1, <1>2, <1>3, <1>4 DEF Size

LEMMA DropIs == ASSUME NEW f, NEW k PROVE DOMAIN Drop(f, k) = DOMAIN f \ {k}
BY DEF Drop

LEMMA DropValues ==
    ASSUME NEW f, NEW k
    PROVE  \A j \in DOMAIN f : j # k => Drop(f, k)[j] = f[j]
BY DEF Drop

LEMMA DropSize ==
    ASSUME NEW f, IsFiniteSet(DOMAIN f), NEW k
    PROVE  /\ IsFiniteSet(DOMAIN Drop(f, k))
           /\ Size(f) \in Nat /\ Size(Drop(f, k)) \in Nat
           /\ k \in DOMAIN f => Size(f) = Size(Drop(f, k)) + 1
           /\ k \notin DOMAIN f => Size(Drop(f, k)) = Size(f)
<1>1. DOMAIN Drop(f, k) = DOMAIN f \ {k}
  BY DropIs
<1>2. IsFiniteSet(DOMAIN f \ {k}) /\ Cardinality(DOMAIN f) \in Nat
      /\ Cardinality(DOMAIN f \ {k}) \in Nat
  BY FS_RemoveElement, FS_CardinalityType
<1>3. k \in DOMAIN f => Cardinality(DOMAIN f \ {k}) = Cardinality(DOMAIN f) - 1
  BY FS_RemoveElement
<1>4. k \notin DOMAIN f => DOMAIN f \ {k} = DOMAIN f
  OBVIOUS
<1>5. QED
  BY <1>1, <1>2, <1>3, <1>4 DEF Size

(* updateSensorExposure, case by case.                                     *)
LEMMA Updated ==
    ASSUME NEW s, SensorOK(s), NEW target, NEW r, NEW t, t = UpdateSensorExposure(s, target, r)
    PROVE  /\ DOMAIN t = Fields /\ t.last = s.last
           /\ s.last < 0 => /\ t.exp = s.exp /\ t.gain = s.gain
                            /\ t.expReg = r /\ t.gainReg = r /\ t.seq = 0
           /\ s.last >= 0 /\ AtOnce(s, target) =>
                /\ target = s.last /\ t.exp = s.exp /\ t.expReg = r
                /\ t.seq = s.last + ExposureLag + Size(t.exp)
                /\ GainDelay = 0 => t.gain = s.gain /\ t.gainReg = r
                /\ GainDelay # 0 => t.gain = Put(s.gain, s.last + GainDelay, r)
                                    /\ t.gainReg = s.gainReg
           /\ s.last >= 0 /\ ~AtOnce(s, target) =>
                /\ t.exp = Put(s.exp, SensorSeq(s), r) /\ t.expReg = s.expReg
                /\ t.seq = s.last + ExposureLag + Size(t.exp)
                /\ t.gain = Put(s.gain, SensorSeq(s) + GainDelay, r) /\ t.gainReg = s.gainReg
<1>1. /\ DOMAIN s = Fields /\ s.last \in Int /\ Size(s.exp) \in Nat /\ GainDelay \in Nat
      /\ SensorSeq(s) = s.last + Size(s.exp) + 1
  BY FS_CardinalityType, LagTypes DEF SensorOK, Size, SensorSeq
<1>2. CASE s.last < 0
  <2>1. t = [s EXCEPT !.expReg = r, !.gainReg = r, !.seq = 0]
    BY <1>1, <1>2 DEF UpdateSensorExposure
  <2>2. QED
    BY <1>1, <1>2, <2>1 DEF Fields
<1>3. CASE s.last >= 0 /\ AtOnce(s, target)
  <2>1. target = s.last
    BY <1>1, <1>3 DEF AtOnce
  <2> DEFINE gainNow == s.last + GainDelay = s.last
  <2>2. t = [last |-> s.last, exp |-> s.exp, expReg |-> r,
             gain |-> IF gainNow THEN s.gain ELSE Put(s.gain, s.last + GainDelay, r),
             gainReg |-> IF gainNow THEN r ELSE s.gainReg,
             seq |-> s.last + ExposureLag + Size(s.exp)]
    BY <1>3, <2>1 DEF UpdateSensorExposure
  <2>3. gainNow <=> GainDelay = 0
    BY <1>1
  <2> HIDE DEF gainNow
  <2>4. QED
    BY <1>1, <1>3, <2>1, <2>2, <2>3 DEF Fields
<1>4. CASE s.last >= 0 /\ ~AtOnce(s, target)
  <2> DEFINE key == SensorSeq(s)
             gainNow == key + GainDelay = s.last
  <2>1. t = [last |-> s.last, exp |-> Put(s.exp, key, r), expReg |-> s.expReg,
             gain |-> IF gainNow THEN s.gain ELSE Put(s.gain, key + GainDelay, r),
             gainReg |-> IF gainNow THEN r ELSE s.gainReg,
             seq |-> s.last + ExposureLag + Size(Put(s.exp, key, r))]
    BY <1>4 DEF UpdateSensorExposure
  <2>2. ~gainNow
    BY <1>1, <1>4
  <2> HIDE DEF key, gainNow
  <2>3. QED
    BY <1>1, <1>4, <2>1, <2>2 DEF Fields, key
<1>5. QED
  BY <1>1, <1>2, <1>3, <1>4

(* What one setSensorExposure leaves, whatever the maps had in them.       *)
LEMMA UpdateKeepsSensor ==
    ASSUME NEW s, SensorOK(s), NEW target, NEW r, NEW t, t = UpdateSensorExposure(s, target, r)
    PROVE  /\ SensorOK(t) /\ t.last = s.last /\ Overdue(t) = Overdue(s)
           /\ Size(s.exp) \in Nat /\ Size(t.exp) \in Size(s.exp) .. Size(s.exp) + 1
           /\ t.seq = AheadOf(t)
<1>1. /\ s.last \in Int /\ IsFiniteSet(DOMAIN s.exp) /\ DOMAIN s.exp \subseteq Int
      /\ DOMAIN s.gain \subseteq Int /\ Size(s.exp) \in Nat /\ GainDelay \in Nat
      /\ SensorSeq(s) = s.last + Size(s.exp) + 1
  BY FS_CardinalityType, LagTypes DEF SensorOK, Size, SensorSeq
<1>2. DOMAIN t = Fields /\ t.last = s.last
  BY Updated
<1>3. CASE s.last < 0
  <2>1. t.exp = s.exp /\ t.gain = s.gain /\ t.seq = 0
    BY <1>3, Updated
  <2>2. QED
    BY <1>1, <1>2, <1>3, <2>1 DEF SensorOK, Overdue, AheadOf
<1>4. CASE s.last >= 0
  <2>1. t.exp = s.exp \/ t.exp = Put(s.exp, SensorSeq(s), r)
    BY <1>4, Updated
  <2>2. t.gain = s.gain \/ \E k \in Int : t.gain = Put(s.gain, k, r)
    <3>1. s.last + GainDelay \in Int /\ SensorSeq(s) + GainDelay \in Int
      BY <1>1
    <3>2. QED
      BY <1>4, <3>1, Updated
  <2>3. DOMAIN t.gain \subseteq Int
    <3>1. CASE t.gain = s.gain
      BY <1>1, <3>1
    <3>2. CASE \E k \in Int : t.gain = Put(s.gain, k, r)
      <4>1. PICK k \in Int : t.gain = Put(s.gain, k, r)
        BY <3>2
      <4>2. DOMAIN Put(s.gain, k, r) = DOMAIN s.gain \cup {k}
        BY PutIs
      <4>3. QED
        BY <1>1, <4>1, <4>2
    <3>3. QED
      BY <2>2, <3>1, <3>2
  <2>4. DOMAIN t.exp = DOMAIN s.exp \/ DOMAIN t.exp = DOMAIN s.exp \cup {SensorSeq(s)}
    <3>1. DOMAIN Put(s.exp, SensorSeq(s), r) = DOMAIN s.exp \cup {SensorSeq(s)}
      BY PutIs
    <3>2. QED
      BY <2>1, <3>1
  <2>5. SensorSeq(s) \in Int /\ SensorSeq(s) > s.last
    BY <1>1
  <2>6. DOMAIN t.exp \subseteq Int /\ Overdue(t) = Overdue(s)
    BY <1>1, <1>2, <2>4, <2>5 DEF Overdue
  <2>7. IsFiniteSet(DOMAIN t.exp) /\ Size(t.exp) \in Size(s.exp) .. Size(s.exp) + 1
    BY <1>1, <2>1, PutSize
  <2>8. t.seq = AheadOf(t)
    BY <1>2, <1>4, Updated DEF AheadOf
  <2>9. SensorOK(t)
    BY <1>1, <1>2, <1>4, <2>3, <2>6, <2>7 DEF SensorOK
  <2>10. QED
    BY <1>1, <1>2, <2>6, <2>7, <2>8, <2>9
<1>5. QED
  BY <1>1, <1>3, <1>4

LEMMA ExposedKeeps ==
    ASSUME SensorOK(sensor), NEW n \in Nat, NEW target, NEW r, NEW i \in 0 .. n
    PROVE  LET t == Exposed(n, target, r)[i] IN
           /\ SensorOK(t) /\ t.last = sensor.last /\ Overdue(t) = Overdue(sensor)
           /\ Size(sensor.exp) \in Nat
           /\ Size(t.exp) \in Size(sensor.exp) .. Size(sensor.exp) + i + 1
           /\ t.seq = AheadOf(t)
<1> DEFINE s == Exposed(n, target, r)
           P(t, m) == /\ SensorOK(t) /\ t.last = sensor.last /\ Overdue(t) = Overdue(sensor)
                      /\ Size(t.exp) \in Size(sensor.exp) .. Size(sensor.exp) + m + 1
                      /\ t.seq = AheadOf(t)
           I == {m \in 0 .. n : P(s[m], m)}
<1>1. /\ s[0] = UpdateSensorExposure(sensor, target, r)
      /\ \A m \in 0 .. n - 1 : s[m + 1] = UpdateSensorExposure(s[m], NoSeq, r)
  BY ExposedSteps
<1> HIDE DEF s
<1>2. 0 \in I
  BY <1>1, UpdateKeepsSensor
<1>3. ASSUME NEW m \in 0 .. n - 1, m \in I PROVE m + 1 \in I
  <2>1. /\ SensorOK(s[m + 1]) /\ s[m + 1].last = s[m].last /\ Overdue(s[m + 1]) = Overdue(s[m])
        /\ Size(s[m].exp) \in Nat /\ Size(s[m + 1].exp) \in Size(s[m].exp) .. Size(s[m].exp) + 1
        /\ s[m + 1].seq = AheadOf(s[m + 1])
    BY <1>1, <1>3, UpdateKeepsSensor
  <2>2. Size(sensor.exp) \in Nat
    BY FS_CardinalityType DEF SensorOK, Size
  <2>3. QED
    BY <1>3, <2>1, <2>2
<1>4. P(s[i], i)
  BY <1>2, <1>3, AllSteps
<1>5. Size(sensor.exp) \in Nat
  BY FS_CardinalityType DEF SensorOK, Size
<1>6. QED
  BY <1>4, <1>5 DEF s

-----------------------------------------------------------------------------
(* One run of 3A and one SOF, as the proofs below use them.                *)

Target == IF mAiqRunningForPerframe THEN applying ELSE NoSeq

(* The settings went to the sensor n + 1 times and have been published.    *)
DoneAfter(n) ==
    LET s == Exposed(n, Target, ThisRun) IN
    /\ sensor' = s[n]
    /\ run'.at = "done"
    /\ run'.pub = [i \in 1 .. n + 1 |-> [seq |-> s[i - 1].seq, run |-> ThisRun]]

LEMMA SkipsNat == \A switch \in BOOLEAN : SkippingNum(switch) \in Nat
BY SkipAssumption DEF SkippingNum

LEMMA RunCases ==
    ASSUME RunBegin
    PROVE  /\ run = NoRun /\ runs' = runs + 1 /\ results' = Acquired(results)
           /\ raced' = (raced \/ (pending /\ AtOnce(sensor, Target)))
           /\ mAiqRunningForPerframe => applying # NoSeq
           /\ UNCHANGED <<mAiqRunningForPerframe, mFirstAiqRunning, frames, request, lost, resets>>
           /\ \/ \E switch \in BOOLEAN :
                   /\ DoneAfter(SkippingNum(switch)) /\ UNCHANGED errors
                   /\ mAiqRunningForPerframe \/ mFirstAiqRunning \/ DelayAllows
                   /\ switch => ~mFirstAiqRunning
                   /\ switches' = switches + (IF switch THEN 1 ELSE 0)
              \/ /\ errors' = errors + 1 /\ UNCHANGED switches
                 /\ mAiqRunningForPerframe \/ mFirstAiqRunning \/ DelayAllows
                 /\ sensor' \in {sensor, UpdateSensorExposure(sensor, Target, ThisRun)}
                 /\ run'.at = "error" /\ run'.pub = <<>>
              \/ /\ UNCHANGED <<sensor, errors, switches>>
                 /\ ~mAiqRunningForPerframe /\ ~mFirstAiqRunning
                 /\ run'.at = "wait" /\ run'.pub = <<>>
<1> DEFINE at == LockedSlot
           stats == IF at = -1 THEN NoSeq ELSE slot[at].mSequence
<1>1. /\ run = NoRun /\ runs' = runs + 1 /\ results' = Acquired(results)
      /\ raced' = (raced \/ (pending /\ AtOnce(sensor, Target)))
      /\ mAiqRunningForPerframe => applying # NoSeq
      /\ UNCHANGED <<mAiqRunningForPerframe, mFirstAiqRunning, frames, request, lost, resets>>
  BY DEF RunBegin, Target
<1>2. CASE NeedRun3A(stats)
  <2>1. mAiqRunningForPerframe \/ mFirstAiqRunning \/ DelayAllows
    BY <1>2 DEF NeedRun3A
  <2>2. \/ \E switch \in BOOLEAN :
             LET n == SkippingNum(switch)
                 s == Exposed(n, Target, ThisRun)
             IN
             /\ switch => ~mFirstAiqRunning /\ troubles < MaxTroubles
             /\ switches' = switches + (IF switch THEN 1 ELSE 0)
             /\ sensor' = s[n]
             /\ run' = [at |-> "done", stats |-> at,
                        pub |-> [i \in 1 .. n + 1 |-> [seq |-> s[i - 1].seq, run |-> ThisRun]]]
             /\ UNCHANGED errors
        \/ /\ errors' = errors + 1 /\ UNCHANGED switches
           /\ sensor' \in {sensor, UpdateSensorExposure(sensor, Target, ThisRun)}
           /\ run' = [at |-> "error", stats |-> at, pub |-> <<>>]
    BY <1>2 DEF RunBegin, Target
  <2>3. CASE \E switch \in BOOLEAN :
             LET n == SkippingNum(switch)
                 s == Exposed(n, Target, ThisRun)
             IN
             /\ switch => ~mFirstAiqRunning /\ troubles < MaxTroubles
             /\ switches' = switches + (IF switch THEN 1 ELSE 0)
             /\ sensor' = s[n]
             /\ run' = [at |-> "done", stats |-> at,
                        pub |-> [i \in 1 .. n + 1 |-> [seq |-> s[i - 1].seq, run |-> ThisRun]]]
             /\ UNCHANGED errors
    <3>1. PICK switch \in BOOLEAN :
             LET n == SkippingNum(switch)
                 s == Exposed(n, Target, ThisRun)
             IN
             /\ switch => ~mFirstAiqRunning /\ troubles < MaxTroubles
             /\ switches' = switches + (IF switch THEN 1 ELSE 0)
             /\ sensor' = s[n]
             /\ run' = [at |-> "done", stats |-> at,
                        pub |-> [i \in 1 .. n + 1 |-> [seq |-> s[i - 1].seq, run |-> ThisRun]]]
             /\ UNCHANGED errors
      BY <2>3
    <3>2. DoneAfter(SkippingNum(switch))
      BY <3>1 DEF DoneAfter
    <3>3. QED
      BY <1>1, <2>1, <3>1, <3>2
  <2>4. CASE /\ errors' = errors + 1 /\ UNCHANGED switches
             /\ sensor' \in {sensor, UpdateSensorExposure(sensor, Target, ThisRun)}
             /\ run' = [at |-> "error", stats |-> at, pub |-> <<>>]
    BY <1>1, <2>1, <2>4
  <2>5. QED
    BY <2>2, <2>3, <2>4
<1>3. CASE ~NeedRun3A(stats)
  <2>1. ~mAiqRunningForPerframe /\ ~mFirstAiqRunning
    BY <1>3 DEF NeedRun3A
  <2>2. QED
    BY <1>1, <1>3, <2>1 DEF RunBegin
<1>4. QED
  BY <1>2, <1>3

(* handleSofEvent.                                                         *)
LEMMA Handled ==
    ASSUME NEW s, SensorOK(s), NEW k \in Int, k > s.last, NEW t, t = HandleSofEvent(s, k)
    PROVE  /\ SensorOK(t) /\ t.last = k
           /\ t.exp = Drop(s.exp, k) /\ t.gain = Drop(s.gain, k)
           /\ t.expReg = IF k \in DOMAIN s.exp THEN s.exp[k] ELSE s.expReg
           /\ t.gainReg = IF k \in DOMAIN s.gain THEN s.gain[k] ELSE s.gainReg
<1>1. DOMAIN s = Fields
  BY DEF SensorOK
<1>2. /\ DOMAIN t = Fields /\ t.last = k
      /\ t.exp = Drop(s.exp, k) /\ t.gain = Drop(s.gain, k)
      /\ t.expReg = IF k \in DOMAIN s.exp THEN s.exp[k] ELSE s.expReg
      /\ t.gainReg = IF k \in DOMAIN s.gain THEN s.gain[k] ELSE s.gainReg
  BY <1>1 DEF HandleSofEvent, Fields
<1>3. DOMAIN t.exp = DOMAIN s.exp \ {k} /\ DOMAIN t.gain = DOMAIN s.gain \ {k}
  <2>1. DOMAIN Drop(s.exp, k) = DOMAIN s.exp \ {k} /\ DOMAIN Drop(s.gain, k) = DOMAIN s.gain \ {k}
    BY DropIs
  <2>2. QED
    BY <1>2, <2>1
<1>4. IsFiniteSet(DOMAIN t.exp)
  BY <1>2, DropSize DEF SensorOK
<1>5. k >= 0
  BY DEF SensorOK, NoSeq
<1>6. SensorOK(t)
  BY <1>2, <1>3, <1>4, <1>5 DEF SensorOK, NoSeq
<1>7. QED
  BY <1>2, <1>6

-----------------------------------------------------------------------------
(* The sensor and its SOFs.                                                *)

SensorInv ==
    /\ SensorOK(sensor) /\ sof \in Int /\ sensor.last <= sof
    /\ pending \in BOOLEAN /\ (pending => sensor.last < sof)
    /\ lost \in Nat /\ errors \in Nat /\ switches \in Nat /\ runs \in Nat
    /\ mAiqRunningForPerframe \in BOOLEAN /\ mFirstAiqRunning \in BOOLEAN

LEMMA SensorInit == Init => SensorInv
<1> SUFFICES ASSUME Init PROVE SensorInv
  OBVIOUS
<1>1. sensor = FreshSensor /\ sof = NoSeq
  BY DEF Init
<1>2. SensorOK(sensor) /\ sensor.last = NoSeq
  BY <1>1, FS_EmptySet DEF SensorOK, FreshSensor, Fields, NoSeq
<1>3. mAiqRunningForPerframe \in BOOLEAN
  BY ModesAssumption DEF Init
<1>4. /\ lost = 0 /\ errors = 0 /\ switches = 0 /\ runs = 0 /\ pending = FALSE
      /\ mFirstAiqRunning = TRUE
  BY DEF Init
<1>5. QED
  BY <1>1, <1>2, <1>3, <1>4 DEF SensorInv, NoSeq, SensorOK

(* What the engine leaves of the sensor between two SOFs.                  *)
LEMMA RunKeepsSensor ==
    ASSUME SensorInv, RunBegin
    PROVE  /\ SensorOK(sensor') /\ sensor'.last = sensor.last
           /\ Overdue(sensor') = Overdue(sensor)
<1>1. SensorOK(sensor)
  BY DEF SensorInv
<1>2. CASE \E switch \in BOOLEAN : DoneAfter(SkippingNum(switch))
  <2>1. PICK n \in Nat : DoneAfter(n)
    BY <1>2, SkipsNat
  <2>2. sensor' = Exposed(n, Target, ThisRun)[n] /\ n \in 0 .. n
    BY <2>1 DEF DoneAfter
  <2>3. QED
    BY <1>1, <2>2, ExposedKeeps
<1>3. CASE sensor' \in {sensor, UpdateSensorExposure(sensor, Target, ThisRun)}
  BY <1>1, <1>3, UpdateKeepsSensor
<1>4. QED
  BY <1>2, <1>3, RunCases

LEMMA SensorStep == SensorInv /\ [Next]_vars => SensorInv'
<1> SUFFICES ASSUME SensorInv, [Next]_vars PROVE SensorInv'
  OBVIOUS
<1> USE DEF SensorInv
<1>1. CASE HardwareSof
  <2>1. /\ ~pending /\ sof' = sof + 1 /\ pending' = TRUE
        /\ UNCHANGED <<sensor, lost, errors, switches, runs, mAiqRunningForPerframe,
                       mFirstAiqRunning>>
    BY <1>1 DEF HardwareSof, engine, counts
  <2>2. QED
    BY <2>1 DEF SensorOK
<1>2. CASE Sof
  <2>1. /\ pending /\ pending' = FALSE /\ sensor' = HandleSofEvent(sensor, sof)
        /\ UNCHANGED <<sof, lost, errors, switches, runs, mAiqRunningForPerframe, mFirstAiqRunning>>
    BY <1>2 DEF Sof, engine, counts
  <2>2. SensorOK(sensor') /\ sensor'.last = sof
    BY <2>1, Handled
  <2>3. /\ ~pending' /\ pending' \in BOOLEAN
        /\ UNCHANGED <<sof, lost, errors, switches, runs, mAiqRunningForPerframe, mFirstAiqRunning>>
    BY <2>1
  <2>4. QED
    BY <2>2, <2>3
<1>3. CASE LostSof
  <2>1. /\ pending' = FALSE /\ lost' = lost + 1
        /\ UNCHANGED <<sensor, sof, errors, switches, runs, mAiqRunningForPerframe, mFirstAiqRunning>>
    BY <1>3 DEF LostSof, engine
  <2>2. sensor.last \in Int /\ sof' = sof /\ sensor.last <= sof'
    BY <2>1 DEF SensorOK
  <2>3. SensorOK(sensor') /\ sensor'.last = sensor.last
    BY <2>1
  <2>4. lost' \in Nat /\ errors' \in Nat /\ switches' \in Nat /\ runs' \in Nat
    BY <2>1
  <2>5. QED
    BY <2>1, <2>2, <2>3, <2>4
<1>4. CASE RunBegin
  <2>1. SensorOK(sensor') /\ sensor'.last = sensor.last
    BY <1>4, RunKeepsSensor
  <2>2. UNCHANGED <<sof, pending, lost, mAiqRunningForPerframe, mFirstAiqRunning>>
        /\ runs' = runs + 1
    BY <1>4, RunCases DEF frames
  <2>3. errors' \in Nat /\ switches' \in Nat
    BY <1>4, RunCases
  <2>4. QED
    BY <2>1, <2>2, <2>3
<1>5. CASE UnLockAiqStatistics \/ RunEnd
  <2>1. UNCHANGED <<sensor, sof, pending, lost, errors, switches, runs, mAiqRunningForPerframe>>
        /\ mFirstAiqRunning' \in BOOLEAN
    BY <1>5 DEF UnLockAiqStatistics, RunEnd, frames, counts, SensorInv
  <2>2. QED
    BY <2>1 DEF SensorInv
<1>6. CASE Reset
  <2>1. /\ sensor' = [FreshSensor EXCEPT !.expReg = sensor.expReg, !.gainReg = sensor.gainReg]
        /\ sof' = NoSeq /\ ~pending /\ UNCHANGED <<pending, mAiqRunningForPerframe>>
        /\ lost' = 0 /\ errors' = 0 /\ switches' = 0 /\ runs' = 0 /\ mFirstAiqRunning' = TRUE
    BY <1>6 DEF Reset
  <2>2. SensorOK(sensor') /\ sensor'.last = NoSeq
    BY <2>1, FS_EmptySet DEF SensorOK, FreshSensor, Fields, NoSeq
  <2>3. QED
    BY <2>1, <2>2 DEF NoSeq
<1>7. CASE SofToRequestThread \/ AcquireAiqStatistics \/ UpdateAiqStatistics \/ PickFor
           \/ UNCHANGED vars
  BY <1>7 DEF SofToRequestThread, AcquireAiqStatistics, UpdateAiqStatistics, PickFor, vars, engine,
              frames, counts
<1>8. QED
  BY <1>1, <1>2, <1>3, <1>4, <1>5, <1>6, <1>7 DEF Next

LEMMA SensorInductive == Spec => []SensorInv
BY SensorInit, SensorStep, PTL DEF Spec

-----------------------------------------------------------------------------
(* What is left in the exposure map when its SOF is over.                  *)

LeakInv == Cardinality(Overdue(sensor)) + (sof - sensor.last) <= lost + (IF pending THEN 1 ELSE 0)

LEMMA OverdueTypes ==
    ASSUME NEW s, SensorOK(s)
    PROVE  IsFiniteSet(Overdue(s)) /\ Cardinality(Overdue(s)) \in Nat
<1>1. IsFiniteSet(Overdue(s))
  BY FS_Subset DEF SensorOK, Overdue
<1>2. QED
  BY <1>1, FS_CardinalityType

(* handleSofEvent leaves only what was due since the last SOF handled, but *)
(* not what is due now.                                                    *)
LEMMA SofLeaks ==
    ASSUME NEW s, SensorOK(s), NEW k \in Int, k > s.last, NEW t, t = HandleSofEvent(s, k)
    PROVE  Cardinality(Overdue(t)) <= Cardinality(Overdue(s)) + (k - s.last - 1)
<1> DEFINE Missed == s.last + 1 .. k - 1
<1>1. t.last = k /\ DOMAIN t.exp = DOMAIN s.exp \ {k} /\ SensorOK(t)
  <2>1. t.last = k /\ t.exp = Drop(s.exp, k) /\ SensorOK(t)
    BY Handled
  <2>2. DOMAIN Drop(s.exp, k) = DOMAIN s.exp \ {k}
    BY DropIs
  <2>3. QED
    BY <2>1, <2>2
<1>2. s.last \in Int
  BY DEF SensorOK
<1>3. Overdue(t) \subseteq Overdue(s) \cup Missed
  <2>1. DOMAIN s.exp \subseteq Int
    BY DEF SensorOK
  <2>2. QED
    BY <1>1, <1>2, <2>1 DEF Overdue
<1>4. IsFiniteSet(Missed) /\ Cardinality(Missed) = k - s.last - 1
  <2>1. IsFiniteSet(Missed) /\ Cardinality(Missed)
            = IF s.last + 1 > k - 1 THEN 0 ELSE (k - 1) - (s.last + 1) + 1
    <3>1. s.last + 1 \in Int /\ k - 1 \in Int
      BY <1>2
    <3>2. QED
      BY <3>1, FS_Interval
  <2>2. QED
    BY <1>2, <2>1
<1>5. IsFiniteSet(Overdue(s)) /\ Cardinality(Overdue(s)) \in Nat /\ Cardinality(Overdue(t)) \in Nat
  BY <1>1, OverdueTypes
<1> HIDE DEF Missed
<1>6. /\ IsFiniteSet(Overdue(s) \cup Missed)
      /\ Cardinality(Overdue(s) \cup Missed) <= Cardinality(Overdue(s)) + Cardinality(Missed)
  <2>1. /\ IsFiniteSet(Overdue(s) \cup Missed)
        /\ Cardinality(Overdue(s) \cup Missed)
             = Cardinality(Overdue(s)) + Cardinality(Missed) - Cardinality(Overdue(s) \cap Missed)
    BY <1>4, <1>5, FS_Union
  <2>2. Cardinality(Overdue(s) \cap Missed) \in Nat
    BY <1>5, FS_Intersection, FS_CardinalityType
  <2>3. Cardinality(Missed) \in Nat
    BY <1>4, FS_CardinalityType
  <2>4. QED
    BY <1>5, <2>1, <2>2, <2>3
<1>7. Cardinality(Overdue(t)) <= Cardinality(Overdue(s) \cup Missed)
  BY <1>3, <1>6, FS_Subset
<1>8. Cardinality(Overdue(s) \cup Missed) \in Nat /\ Cardinality(Missed) \in Nat
  BY <1>4, <1>6, FS_CardinalityType
<1>9. QED
  BY <1>2, <1>4, <1>5, <1>6, <1>7, <1>8

LEMMA LeakInit == Init => LeakInv
<1> SUFFICES ASSUME Init PROVE LeakInv
  OBVIOUS
<1>1. sensor = FreshSensor /\ sof = NoSeq /\ lost = 0 /\ pending = FALSE
  BY DEF Init
<1>2. Overdue(sensor) = {} /\ sensor.last = NoSeq
  BY <1>1 DEF FreshSensor, Overdue
<1>3. QED
  BY <1>1, <1>2, FS_EmptySet DEF LeakInv, NoSeq

LEMMA LeakStep == SensorInv /\ LeakInv /\ [Next]_vars => LeakInv'
<1> SUFFICES ASSUME SensorInv, LeakInv, [Next]_vars PROVE LeakInv'
  OBVIOUS
<1>0. /\ Cardinality(Overdue(sensor)) \in Nat /\ sensor.last \in Int /\ sof \in Int
      /\ lost \in Nat /\ pending \in BOOLEAN /\ SensorOK(sensor)
      /\ (pending => sensor.last < sof)
  BY OverdueTypes DEF SensorInv, SensorOK
<1>1. CASE HardwareSof
  <2>1. ~pending /\ sof' = sof + 1 /\ pending' = TRUE /\ UNCHANGED <<sensor, lost>>
    BY <1>1 DEF HardwareSof, counts
  <2>2. Overdue(sensor)' = Overdue(sensor)
    BY <2>1 DEF Overdue
  <2>3. QED
    BY <1>0, <2>1, <2>2 DEF LeakInv
<1>2. CASE Sof
  <2>1. /\ pending /\ pending' = FALSE /\ sensor' = HandleSofEvent(sensor, sof)
        /\ UNCHANGED <<sof, lost>>
    BY <1>2 DEF Sof, counts
  <2>2. sensor'.last = sof /\ SensorOK(sensor')
    BY <1>0, <2>1, Handled
  <2>3. Cardinality(Overdue(sensor')) <= Cardinality(Overdue(sensor)) + (sof - sensor.last - 1)
    BY <1>0, <2>1, SofLeaks
  <2>4. Cardinality(Overdue(sensor')) \in Nat
    BY <2>2, OverdueTypes
  <2>5. Cardinality(Overdue(sensor)) + (sof - sensor.last) <= lost + 1
    BY <2>1 DEF LeakInv
  <2>6. QED
    BY <1>0, <2>1, <2>2, <2>3, <2>4, <2>5 DEF LeakInv, Overdue
<1>3. CASE LostSof
  <2>1. pending /\ pending' = FALSE /\ lost' = lost + 1 /\ UNCHANGED <<sensor, sof>>
    BY <1>3 DEF LostSof
  <2>2. Overdue(sensor)' = Overdue(sensor)
    BY <2>1 DEF Overdue
  <2>3. QED
    BY <1>0, <2>1, <2>2 DEF LeakInv
<1>4. CASE RunBegin
  <2>1. sensor'.last = sensor.last /\ Overdue(sensor') = Overdue(sensor)
    BY <1>4, RunKeepsSensor
  <2>2. UNCHANGED <<sof, pending, lost>>
    BY <1>4, RunCases DEF frames
  <2>3. QED
    BY <2>1, <2>2 DEF LeakInv, Overdue
<1>5. CASE Reset
  <2>1. /\ sensor' = [FreshSensor EXCEPT !.expReg = sensor.expReg, !.gainReg = sensor.gainReg]
        /\ sof' = NoSeq /\ lost' = 0 /\ ~pending /\ UNCHANGED pending
    BY <1>5 DEF Reset
  <2>2. Overdue(sensor)' = {} /\ sensor'.last = NoSeq
    BY <2>1 DEF FreshSensor, Overdue
  <2>3. QED
    BY <2>1, <2>2, FS_EmptySet DEF LeakInv, NoSeq
<1>6. CASE UnLockAiqStatistics \/ RunEnd \/ SofToRequestThread \/ AcquireAiqStatistics
           \/ UpdateAiqStatistics \/ PickFor \/ UNCHANGED vars
  <2>1. UNCHANGED <<sensor, sof, lost, pending>>
    BY <1>6 DEF UnLockAiqStatistics, RunEnd, SofToRequestThread, AcquireAiqStatistics,
                UpdateAiqStatistics, PickFor, vars, frames, counts
  <2>2. QED
    BY <2>1 DEF LeakInv, Overdue
<1>7. QED
  BY <1>1, <1>2, <1>3, <1>4, <1>5, <1>6 DEF Next

(* What waits in mExposureDataMap for an SOF that is over is at most one   *)
(* entry per SOF event lost: handleSofEvent only takes out the entry of    *)
(* the SOF it is called for.                                               *)
THEOREM LeakIsLostSofs == Spec => []OnlyLostSofsLeak
<1>1. SensorInv /\ LeakInv => OnlyLostSofsLeak
  <2> SUFFICES ASSUME SensorInv, LeakInv PROVE OnlyLostSofsLeak
    OBVIOUS
  <2>1. /\ Cardinality(Overdue(sensor)) \in Nat /\ sensor.last \in Int /\ sof \in Int
        /\ lost \in Nat /\ sensor.last <= sof /\ (pending => sensor.last < sof)
    BY OverdueTypes DEF SensorInv, SensorOK
  <2>2. Cardinality(Overdue(sensor)) <= lost
    BY <2>1 DEF LeakInv
  <2>3. QED
    BY <2>2 DEF OnlyLostSofsLeak, Overdue
<1>2. QED
  BY <1>1, LeakInit, LeakStep, SensorInductive, PTL DEF Spec

-----------------------------------------------------------------------------
(* How far ahead the settings reach without per-frame control.             *)

DelayBound == kMaxExposureAppliedDelay + 1 + errors + PipeSwitchSkip * switches

DelayInv ==
    ~mAiqRunningForPerframe =>
        /\ Size(sensor.exp) + ExposureLag <= DelayBound
        /\ mFirstAiqRunning => Size(sensor.exp) <= errors + (IF run.at = "done" THEN 1 ELSE 0)

DelayAssumption ==
    kMaxExposureAppliedDelay \in Nat /\ ExposureLag <= kMaxExposureAppliedDelay

LEMMA SkipProduct ==
    ASSUME NEW n \in Nat
    PROVE  /\ PipeSwitchSkip \in Nat /\ PipeSwitchSkip * n \in Nat
           /\ PipeSwitchSkip * (n + 1) = PipeSwitchSkip * n + PipeSwitchSkip
BY SkipAssumption

LEMMA SensorTypes ==
    ASSUME SensorInv
    PROVE  /\ SensorOK(sensor) /\ sensor.last \in Int /\ sof \in Int /\ Size(sensor.exp) \in Nat
           /\ lost \in Nat /\ errors \in Nat /\ switches \in Nat
           /\ PipeSwitchSkip * switches \in Nat
BY SkipProduct, FS_CardinalityType DEF SensorInv, SensorOK, Size

LEMMA DelayInit == DelayAssumption /\ Init => DelayInv
<1> SUFFICES ASSUME DelayAssumption, Init PROVE DelayInv
  OBVIOUS
<1>1. sensor.exp = <<>> /\ errors = 0 /\ switches = 0 /\ run.at # "done"
  BY DEF Init, FreshSensor, NoRun
<1>2. Size(sensor.exp) = 0
  BY <1>1, FS_EmptySet DEF Size
<1>3. PipeSwitchSkip * switches = 0
  BY <1>1, SkipAssumption
<1>4. QED
  BY <1>1, <1>2, <1>3, LagTypes DEF DelayAssumption, DelayInv, DelayBound

(* Only a run adds to the map, and a later one only when it may.           *)
LEMMA DelayRun ==
    ASSUME DelayAssumption, SensorInv, DelayInv, RunBegin, ~mAiqRunningForPerframe
    PROVE  /\ Size(sensor.exp)' + ExposureLag <= DelayBound'
           /\ mFirstAiqRunning =>
                Size(sensor.exp)' <= errors' + (IF run'.at = "done" THEN 1 ELSE 0)
<1>1. /\ SensorOK(sensor) /\ Size(sensor.exp) \in Nat /\ errors \in Nat /\ switches \in Nat
      /\ PipeSwitchSkip * switches \in Nat /\ ExposureLag \in Nat
      /\ kMaxExposureAppliedDelay \in Nat /\ ExposureLag <= kMaxExposureAppliedDelay
      /\ mFirstAiqRunning \in BOOLEAN /\ PipeSwitchSkip \in Nat
  BY SensorTypes, LagTypes, SkipAssumption DEF DelayAssumption, SensorInv
<1>2. mFirstAiqRunning => Size(sensor.exp) <= errors
  <2>1. run = NoRun
    BY RunCases
  <2>2. QED
    BY <1>1, <2>1 DEF DelayInv, NoRun
<1>3. Size(sensor.exp) + ExposureLag <= DelayBound
  BY DEF DelayInv
<1>4. ~mFirstAiqRunning /\ DelayAllows => Size(sensor.exp) + ExposureLag <= kMaxExposureAppliedDelay
  BY DEF DelayAllows
<1>5. CASE \E switch \in BOOLEAN :
             /\ DoneAfter(SkippingNum(switch)) /\ UNCHANGED errors
             /\ mAiqRunningForPerframe \/ mFirstAiqRunning \/ DelayAllows
             /\ switch => ~mFirstAiqRunning
             /\ switches' = switches + (IF switch THEN 1 ELSE 0)
  <2>1. PICK switch \in BOOLEAN :
             /\ DoneAfter(SkippingNum(switch)) /\ UNCHANGED errors
             /\ mAiqRunningForPerframe \/ mFirstAiqRunning \/ DelayAllows
             /\ switch => ~mFirstAiqRunning
             /\ switches' = switches + (IF switch THEN 1 ELSE 0)
    BY <1>5
  <2> DEFINE n == SkippingNum(switch)
  <2>2. n \in Nat /\ n = IF switch THEN PipeSwitchSkip ELSE 0
    BY <2>1, SkipAssumption DEF SkippingNum
  <2>3. sensor' = Exposed(n, Target, ThisRun)[n] /\ run'.at = "done"
    BY <2>1 DEF DoneAfter
  <2> HIDE DEF n
  <2>4. Size(sensor'.exp) \in Size(sensor.exp) .. Size(sensor.exp) + n + 1
    BY <1>1, <2>2, <2>3, ExposedKeeps
  <2>5. Size(sensor.exp)' = Size(sensor'.exp)
    BY DEF Size
  <2>6. PipeSwitchSkip * switches' = PipeSwitchSkip * switches + n
    <3>1. CASE switch
      BY <1>1, <2>1, <2>2, <3>1, SkipProduct
    <3>2. CASE ~switch
      BY <1>1, <2>1, <2>2, <3>2
    <3>3. QED
      BY <3>1, <3>2
  <2>7. DelayBound' = kMaxExposureAppliedDelay + 1 + errors + (PipeSwitchSkip * switches + n)
    BY <2>1, <2>6 DEF DelayBound
  <2>8. CASE mFirstAiqRunning
    <3>1. n = 0
      BY <2>1, <2>2, <2>8
    <3>2. QED
      BY <1>1, <1>2, <2>1, <2>3, <2>4, <2>5, <2>7, <2>8, <3>1
  <2>9. CASE ~mFirstAiqRunning
    <3>1. Size(sensor.exp) + ExposureLag <= kMaxExposureAppliedDelay
      BY <1>4, <2>1, <2>9
    <3>2. QED
      BY <1>1, <2>2, <2>4, <2>5, <2>7, <2>9, <3>1
  <2>10. QED
    BY <2>8, <2>9
<1>6. CASE /\ errors' = errors + 1 /\ UNCHANGED switches
           /\ mAiqRunningForPerframe \/ mFirstAiqRunning \/ DelayAllows
           /\ sensor' \in {sensor, UpdateSensorExposure(sensor, Target, ThisRun)}
           /\ run'.at = "error" /\ run'.pub = <<>>
  <2>1. Size(sensor'.exp) \in Size(sensor.exp) .. Size(sensor.exp) + 1
    <3>1. CASE sensor' = sensor
      BY <1>1, <3>1
    <3>2. CASE sensor' = UpdateSensorExposure(sensor, Target, ThisRun)
      BY <1>1, <3>2, UpdateKeepsSensor
    <3>3. QED
      BY <1>6, <3>1, <3>2
  <2>2. Size(sensor.exp)' = Size(sensor'.exp)
    BY DEF Size
  <2>3. DelayBound' = kMaxExposureAppliedDelay + 1 + (errors + 1) + PipeSwitchSkip * switches
    BY <1>6 DEF DelayBound
  <2>4. mFirstAiqRunning \/ Size(sensor.exp) + ExposureLag <= kMaxExposureAppliedDelay
    BY <1>4, <1>6
  <2>5. Size(sensor'.exp) + ExposureLag <= kMaxExposureAppliedDelay + 2 + errors
    BY <1>1, <1>2, <2>1, <2>4
  <2>6. mFirstAiqRunning => Size(sensor'.exp) <= errors + 1
    BY <1>1, <1>2, <2>1
  <2>7. QED
    BY <1>1, <1>6, <2>1, <2>2, <2>3, <2>5, <2>6
<1>7. CASE UNCHANGED <<sensor, errors, switches>> /\ ~mFirstAiqRunning
  BY <1>3, <1>7 DEF DelayBound, Size
<1>8. QED
  BY <1>5, <1>6, <1>7, RunCases

LEMMA DelayStep == DelayAssumption /\ SensorInv /\ DelayInv /\ [Next]_vars => DelayInv'
<1> SUFFICES ASSUME DelayAssumption, SensorInv, DelayInv, [Next]_vars,
                    ~mAiqRunningForPerframe'
             PROVE  /\ Size(sensor.exp)' + ExposureLag <= DelayBound'
                    /\ mFirstAiqRunning' =>
                         Size(sensor.exp)' <= errors' + (IF run'.at = "done" THEN 1 ELSE 0)
  BY DEF DelayInv
<1>0. /\ SensorOK(sensor) /\ Size(sensor.exp) \in Nat /\ errors \in Nat /\ switches \in Nat
      /\ PipeSwitchSkip * switches \in Nat /\ ExposureLag \in Nat
      /\ kMaxExposureAppliedDelay \in Nat /\ ExposureLag <= kMaxExposureAppliedDelay
  BY SensorTypes, LagTypes DEF DelayAssumption
<1>a. UNCHANGED mAiqRunningForPerframe
  BY DEF Next, HardwareSof, Sof, LostSof, SofToRequestThread, AcquireAiqStatistics,
         UpdateAiqStatistics, PickFor, RunBegin, UnLockAiqStatistics, RunEnd, Reset, vars, engine
<1>b. /\ Size(sensor.exp) + ExposureLag <= DelayBound
      /\ mFirstAiqRunning => Size(sensor.exp) <= errors + (IF run.at = "done" THEN 1 ELSE 0)
  BY <1>a DEF DelayInv
<1>1. CASE Sof
  <2>1. /\ pending /\ sensor' = HandleSofEvent(sensor, sof)
        /\ UNCHANGED <<mFirstAiqRunning, run, errors, switches>>
    BY <1>1 DEF Sof, engine, counts
  <2>2. sof \in Int /\ sof > sensor.last
    BY <2>1, SensorTypes DEF SensorInv
  <2>3. sensor'.exp = Drop(sensor.exp, sof)
    BY <1>0, <2>1, <2>2, Handled
  <2>4. IsFiniteSet(DOMAIN sensor.exp)
    BY <1>0 DEF SensorOK
  <2>5. Size(Drop(sensor.exp, sof)) \in 0 .. Size(sensor.exp)
    BY <1>0, <2>4, DropSize
  <2>6. Size(sensor.exp)' = Size(Drop(sensor.exp, sof))
    BY <2>3 DEF Size
  <2>7. DelayBound' = DelayBound /\ DelayBound \in Int
    BY <1>0, <2>1 DEF DelayBound
  <2>8. QED
    BY <1>0, <1>b, <2>1, <2>5, <2>6, <2>7
<1>2. CASE RunBegin
  <2>1. UNCHANGED mFirstAiqRunning
    BY <1>2, RunCases
  <2>2. QED
    BY <1>2, <1>a, <2>1, DelayRun
<1>3. CASE UnLockAiqStatistics \/ RunEnd
  <2>u. CASE UnLockAiqStatistics
    <3>1. /\ mFirstAiqRunning' = (mFirstAiqRunning /\ run.at # "done")
          /\ UNCHANGED <<sensor, errors, switches>> /\ run'.at \in {"ran", "over"}
      BY <2>u DEF UnLockAiqStatistics, counts
    <3>2. mFirstAiqRunning' => mFirstAiqRunning /\ run.at # "done"
      BY <3>1
    <3>3. run'.at # "done"
      BY <3>1
    <3>4. QED
      BY <1>b, <3>1, <3>2, <3>3 DEF DelayBound, Size
  <2>e. CASE RunEnd
    <3>1. /\ mFirstAiqRunning' = mFirstAiqRunning /\ run.at \in {"ran", "over"}
          /\ UNCHANGED <<sensor, errors, switches>> /\ run'.at = "none"
      BY <2>e DEF RunEnd, counts, NoRun
    <3>2. run.at # "done" /\ run'.at # "done"
      BY <3>1
    <3>3. QED
      BY <1>b, <3>1, <3>2 DEF DelayBound, Size
  <2>1. QED
    BY <1>3, <2>u, <2>e
<1>4. CASE Reset
  <2>1. /\ sensor' = [FreshSensor EXCEPT !.expReg = sensor.expReg, !.gainReg = sensor.gainReg]
        /\ errors' = 0 /\ switches' = 0
    BY <1>4 DEF Reset
  <2>2. sensor'.exp = <<>>
    BY <2>1 DEF FreshSensor
  <2>3. Size(sensor.exp)' = 0
    BY <2>2, FS_EmptySet DEF Size
  <2>4. DelayBound' = kMaxExposureAppliedDelay + 1
    BY <1>0, <2>1, SkipAssumption DEF DelayBound
  <2>5. QED
    BY <1>0, <2>1, <2>3, <2>4
<1>5. CASE HardwareSof \/ LostSof \/ SofToRequestThread \/ AcquireAiqStatistics
           \/ UpdateAiqStatistics \/ PickFor \/ UNCHANGED vars
  <2>1. UNCHANGED <<sensor, errors, switches, run, mFirstAiqRunning>>
    BY <1>5 DEF HardwareSof, LostSof, SofToRequestThread, AcquireAiqStatistics,
                UpdateAiqStatistics, PickFor, vars, engine, counts
  <2>2. QED
    BY <1>b, <2>1 DEF DelayBound, Size
<1>6. QED
  BY <1>1, <1>2, <1>3, <1>4, <1>5 DEF Next

(* Without per-frame control the settings that wait never reach further    *)
(* ahead than kMaxExposureAppliedDelay and one run, as long as the first   *)
(* run may add its own: needRun3A looks at the delay before every other.   *)
THEOREM DelayIsBounded ==
    ASSUME kMaxExposureAppliedDelay \in Nat, ExposureLag <= kMaxExposureAppliedDelay
    PROVE  Spec => []AppliedDelayBounded
<1>0. DelayAssumption
  BY DEF DelayAssumption
<1>1. DelayInv => AppliedDelayBounded
  BY DEF DelayInv, DelayBound, AppliedDelayBounded
<1>2. Init => DelayInv
  BY <1>0, DelayInit
<1>3. SensorInv /\ DelayInv /\ [Next]_vars => DelayInv'
  BY <1>0, DelayStep
<1>4. QED
  BY <1>1, <1>2, <1>3, SensorInductive, PTL DEF Spec

-----------------------------------------------------------------------------
(* The ring of results, and the frames reported.                           *)

Result == [seq : Int, run : Nat]

ResultsInv ==
    /\ results \in Seq(Result) /\ run.pub \in Seq(Result)
    /\ runs \in Nat /\ resets \in Nat /\ lastEffect \in Int

(* The frame reported last is no later than the newest result's, and the   *)
(* sensor's settings reach at least as far; a run has published up to      *)
(* where its settings reach.                                               *)
EffectInv ==
    /\ reported => ~mFirstAiqRunning
    /\ kStorageSize >= 2 /\ ~mFirstAiqRunning =>
          /\ results # <<>> /\ results[Len(results)].seq <= AheadOf(sensor)
          /\ reported => lastEffect <= results[Len(results)].seq
    /\ run.at = "done" => run.pub # <<>> /\ run.pub[Len(run.pub)].seq = AheadOf(sensor)
    /\ run.at # "done" => run.pub = <<>>
    /\ run.at = "ran" => results # <<>> /\ results[Len(results)].seq = AheadOf(sensor)

LEMMA RunNumbers == ASSUME ResultsInv PROVE ThisRun \in Nat
<1>1. MaxRuns \in Nat /\ resets \in Nat /\ runs \in Nat
  BY BoundsAssumption DEF ResultsInv
<1>2. resets * MaxRuns \in Nat
  BY <1>1
<1>3. QED
  BY <1>1, <1>2 DEF ThisRun

(* The ring keeps the newest results, at least one of them.                *)
LEMMA RecentIs ==
    ASSUME NEW q \in Seq(Result)
    PROVE  /\ Recent(q) \in Seq(Result) /\ Len(q) - Len(Recent(q)) \in Nat
           /\ \A i \in 1 .. Len(Recent(q)) : Recent(q)[i] = q[i + (Len(q) - Len(Recent(q)))]
           /\ q # <<>> => Recent(q) # <<>>
           /\ q # <<>> => Recent(q)[Len(Recent(q))] = q[Len(q)]
<1>1. kStorageSize \in Nat \ {0} /\ Len(q) \in Nat
  BY RingAssumption, LenProperties
<1>2. CASE Len(q) > kStorageSize
  <2> DEFINE m == Len(q) - kStorageSize + 1
             t == SubSeq(q, m, Len(q))
  <2>1. Recent(q) = t
    BY <1>2 DEF Recent
  <2>2. m \in Nat /\ m >= 1 /\ m <= Len(q)
    BY <1>1, <1>2
  <2>3. \A i \in m .. Len(q) : q[i] \in Result
    BY <2>2, ElementOfSeq
  <2>4. t \in Seq(Result) /\ Len(t) = kStorageSize /\ \A i \in 1 .. Len(t) : t[i] = q[m + i - 1]
    <3>1. m \in 1 .. Len(q) + 1 /\ Len(q) \in m - 1 .. Len(q)
      BY <1>1, <2>2
    <3> HIDE DEF m
    <3>2. /\ SubSeq(q, m, Len(q)) \in Seq(Result)
          /\ Len(SubSeq(q, m, Len(q))) = (IF m <= Len(q) THEN Len(q) - m + 1 ELSE 0)
          /\ \A i \in 1 .. Len(q) - m + 1 : SubSeq(q, m, Len(q))[i] = q[m + i - 1]
      BY <3>1, <2>3, SubSeqProperties
    <3>3. Len(t) = Len(q) - m + 1
      BY <3>2, <2>2
    <3>4. Len(t) = kStorageSize
      BY <3>3, <1>1 DEF m
    <3>5. QED
      BY <3>2, <3>3, <3>4
  <2> HIDE DEF t
  <2>5. \A i \in 1 .. Len(t) : t[i] = q[i + (Len(q) - Len(t))]
    BY <1>1, <2>4
  <2>6. t # <<>> /\ t[Len(t)] = q[Len(q)]
    <3>1. Len(t) \in 1 .. Len(t) /\ Len(t) + (Len(q) - Len(t)) = Len(q)
      BY <1>1, <2>4
    <3>2. t # <<>>
      BY <2>4, <1>1
    <3>3. QED
      BY <2>5, <3>1, <3>2
  <2>7. Len(q) - Len(t) \in Nat
    BY <1>1, <1>2, <2>4
  <2>8. QED
    BY <2>1, <2>4, <2>5, <2>6, <2>7
<1>3. CASE ~(Len(q) > kStorageSize)
  <2>1. Recent(q) = q
    BY <1>3 DEF Recent
  <2>2. Len(q) - Len(q) = 0 /\ \A i \in 1 .. Len(q) : i + 0 = i
    BY <1>1
  <2>3. QED
    BY <2>1, <2>2
<1>4. QED
  BY <1>2, <1>3

(* acquireAiqResult leaves all but the oldest result of a full ring.       *)
LEMMA AcquiredIs ==
    ASSUME NEW q \in Seq(Result)
    PROVE  /\ Acquired(q) \in Seq(Result) /\ Len(Acquired(q)) = Len(q)
           /\ \A i \in 1 .. Len(q) : \/ Acquired(q)[i] = q[i]
                                     \/ i = 1 /\ Acquired(q)[i].seq = NoSeq
           /\ \A i \in 1 .. Len(q) : i > 1 => Acquired(q)[i] = q[i]
           /\ kStorageSize >= 2 /\ q # <<>> => Acquired(q)[Len(q)] = q[Len(q)]
<1>1. kStorageSize \in Nat \ {0} /\ Len(q) \in Nat
  BY RingAssumption, LenProperties
<1>2. CASE Len(q) = kStorageSize
  <2> DEFINE e == [seq |-> NoSeq, run |-> 0]
             t == [q EXCEPT ![1] = e]
  <2>1. Acquired(q) = t
    BY <1>2 DEF Acquired
  <2>2. e \in Result /\ e.seq = NoSeq
    BY DEF Result, NoSeq
  <2> HIDE DEF e
  <2>3. t \in Seq(Result) /\ Len(t) = Len(q)
    BY <1>1, <1>2, <2>2
  <2>4. t[1] = e /\ \A i \in 2 .. Len(q) : t[i] = q[i]
    BY <1>1, <1>2
  <2> HIDE DEF t
  <2>5. \A i \in 1 .. Len(q) : i = 1 \/ i \in 2 .. Len(q)
    BY <1>1
  <2>6. QED
    BY <1>1, <1>2, <2>1, <2>2, <2>3, <2>4, <2>5
<1>3. CASE Len(q) # kStorageSize
  BY <1>3 DEF Acquired
<1>4. QED
  BY <1>2, <1>3

(* What a run publishes: a result for every time it sent settings.         *)
LEMMA PublishedIs ==
    ASSUME SensorInv, ResultsInv, NEW n \in Nat, DoneAfter(n)
    PROVE  /\ run'.pub \in Seq(Result) /\ Len(run'.pub) = n + 1 /\ run'.pub # <<>>
           /\ \A i \in 1 .. n + 1 :
                /\ run'.pub[i].run = ThisRun
                /\ run'.pub[i].seq = AheadOf(Exposed(n, Target, ThisRun)[i - 1])
           /\ run'.pub[n + 1].seq = AheadOf(sensor')
<1> DEFINE s == Exposed(n, Target, ThisRun)
           pub == [i \in 1 .. n + 1 |-> [seq |-> s[i - 1].seq, run |-> ThisRun]]
<1>1. sensor' = s[n] /\ run'.pub = pub
  BY DEF DoneAfter
<1>2. ASSUME NEW i \in 1 .. n + 1
      PROVE  s[i - 1].seq = AheadOf(s[i - 1]) /\ s[i - 1].seq \in Int
  <2>1. i - 1 \in 0 .. n /\ SensorOK(sensor)
    BY DEF SensorInv
  <2> DEFINE t == s[i - 1]
  <2>2. SensorOK(t) /\ t.seq = AheadOf(t)
    BY <2>1, ExposedKeeps
  <2> HIDE DEF t
  <2>3. Size(t.exp) \in Nat /\ t.last \in Int
    BY <2>2, FS_CardinalityType DEF SensorOK, Size
  <2>4. AheadOf(t) \in Int
    BY <2>3, LagTypes DEF AheadOf
  <2>5. QED
    BY <2>2, <2>4 DEF t
<1>3. ThisRun \in Nat
  BY RunNumbers
<1> HIDE DEF s
<1>4. \A i \in 1 .. n + 1 : pub[i] = [seq |-> s[i - 1].seq, run |-> ThisRun] /\ pub[i] \in Result
  BY <1>2, <1>3 DEF Result
<1>5. pub \in Seq(Result) /\ Len(pub) = n + 1
  BY <1>4
<1> HIDE DEF pub
<1>6. ASSUME NEW i \in 1 .. n + 1
      PROVE  pub[i].run = ThisRun /\ pub[i].seq = AheadOf(s[i - 1])
  <2>1. pub[i] = [seq |-> s[i - 1].seq, run |-> ThisRun]
    BY <1>4
  <2>2. s[i - 1].seq = AheadOf(s[i - 1])
    BY <1>2
  <2>3. QED
    BY <2>1, <2>2
<1>7. pub[n + 1].seq = AheadOf(sensor')
  <2>1. n + 1 \in 1 .. n + 1 /\ (n + 1) - 1 = n
    OBVIOUS
  <2>2. QED
    BY <1>1, <1>6, <2>1
<1>8. pub # <<>>
  BY <1>5
<1>9. QED
  BY <1>1, <1>5, <1>6, <1>7, <1>8 DEF s

LEMMA EffectInit == Init => ResultsInv /\ EffectInv
BY DEF Init, ResultsInv, EffectInv, NoRun, NoSeq

LEMMA AheadTypes ==
    ASSUME NEW s, SensorOK(s)
    PROVE  s.last \in Int /\ Size(s.exp) \in Nat /\ AheadOf(s) \in Nat /\ NoSeq <= s.last
<1>1. s.last \in Int /\ Size(s.exp) \in Nat /\ NoSeq <= s.last
  BY FS_CardinalityType DEF SensorOK, Size
<1>2. QED
  BY <1>1, LagTypes DEF AheadOf

(* Neither a run nor an SOF takes back how far the settings reach.         *)
LEMMA RunAhead ==
    ASSUME SensorInv, RunBegin
    PROVE  AheadOf(sensor) <= AheadOf(sensor')
<1>1. SensorOK(sensor) /\ SensorOK(sensor') /\ sensor'.last = sensor.last
  BY RunKeepsSensor DEF SensorInv
<1>2. Size(sensor'.exp) >= Size(sensor.exp)
  <2>1. CASE \E switch \in BOOLEAN : DoneAfter(SkippingNum(switch))
    <3>1. PICK n \in Nat : DoneAfter(n)
      BY <2>1, SkipsNat
    <3>2. sensor' = Exposed(n, Target, ThisRun)[n] /\ n \in 0 .. n
      BY <3>1 DEF DoneAfter
    <3>3. QED
      BY <1>1, <3>2, ExposedKeeps
  <2>2. CASE sensor' \in {sensor, UpdateSensorExposure(sensor, Target, ThisRun)}
    BY <1>1, <2>2, UpdateKeepsSensor
  <2>3. QED
    BY <2>1, <2>2, RunCases
<1>3. QED
  BY <1>1, <1>2, AheadTypes, LagTypes DEF AheadOf

LEMMA SofAhead ==
    ASSUME NEW s, SensorOK(s), NEW k \in Int, k > s.last, NEW t, t = HandleSofEvent(s, k)
    PROVE  AheadOf(s) <= AheadOf(t)
<1>1. t.last = k /\ t.exp = Drop(s.exp, k) /\ SensorOK(t)
  BY Handled
<1>2. Size(t.exp) \in Nat /\ Size(t.exp) >= Size(s.exp) - 1
  <2>1. IsFiniteSet(DOMAIN s.exp)
    BY DEF SensorOK
  <2>2. Size(s.exp) \in Nat /\ Size(Drop(s.exp, k)) \in Nat
        /\ Size(Drop(s.exp, k)) >= Size(s.exp) - 1
    BY <2>1, DropSize
  <2>3. QED
    BY <1>1, <2>2
<1>3. s.last \in Int /\ Size(s.exp) \in Nat /\ NoSeq <= s.last
  BY AheadTypes
<1>4. QED
  BY <1>1, <1>2, <1>3, LagTypes DEF AheadOf, NoSeq

(* done appends what the run publishes to the ring.                        *)
LEMMA UnLockResults ==
    ASSUME ResultsInv, UnLockAiqStatistics
    PROVE  /\ results \o run.pub \in Seq(Result) /\ results' = Recent(results \o run.pub)
           /\ results' \in Seq(Result)
           /\ results # <<>> \/ run.pub # <<>> => results' # <<>>
           /\ run.pub # <<>> =>
                results'[Len(results')].seq = run.pub[Len(run.pub)].seq
           /\ run.pub = <<>> /\ results # <<>> =>
                results'[Len(results')].seq = results[Len(results)].seq
<1> DEFINE q == results \o run.pub
<1>1. results' = Recent(q)
  BY DEF UnLockAiqStatistics
<1>2. results \in Seq(Result) /\ run.pub \in Seq(Result)
  BY DEF ResultsInv
<1>3. /\ q \in Seq(Result) /\ Len(q) = Len(results) + Len(run.pub)
      /\ \A i \in 1 .. Len(results) + Len(run.pub) :
           q[i] = IF i <= Len(results) THEN results[i] ELSE run.pub[i - Len(results)]
  BY <1>2, ConcatProperties
<1>4. Len(results) \in Nat /\ Len(run.pub) \in Nat
  BY <1>2, LenProperties
<1>5. /\ results # <<>> => Len(results) > 0
      /\ run.pub # <<>> => Len(run.pub) > 0
  BY <1>2, <1>4, EmptySeq
<1>6. run.pub # <<>> => q # <<>> /\ q[Len(q)] = run.pub[Len(run.pub)]
  <2> SUFFICES ASSUME run.pub # <<>> PROVE q # <<>> /\ q[Len(q)] = run.pub[Len(run.pub)]
    OBVIOUS
  <2> HIDE DEF q
  <2>1. Len(q) > 0 /\ Len(q) \in 1 .. Len(results) + Len(run.pub) /\ ~(Len(q) <= Len(results))
        /\ Len(q) - Len(results) = Len(run.pub)
    BY <1>3, <1>4, <1>5
  <2>2. q # <<>>
    BY <2>1, EmptySeq
  <2>3. QED
    BY <1>3, <2>1, <2>2
<1>7. run.pub = <<>> => q = results
  BY <1>2, ConcatEmptySeq
<1>8. results # <<>> => q # <<>>
  <2> HIDE DEF q
  <2>1. results # <<>> => Len(q) > 0
    BY <1>3, <1>4, <1>5
  <2>2. QED
    BY <2>1, EmptySeq
<1> HIDE DEF q
<1>9. /\ Recent(q) \in Seq(Result) /\ (q # <<>> => Recent(q) # <<>>)
      /\ q # <<>> => Recent(q)[Len(Recent(q))] = q[Len(q)]
  BY <1>3, RecentIs
<1>10. QED
  BY <1>1, <1>3, <1>6, <1>7, <1>8, <1>9 DEF q

LEMMA NewestIs == results \in Seq(Result) /\ results # <<>> => results[Len(results)].seq \in Int
<1> SUFFICES ASSUME results \in Seq(Result), results # <<>> PROVE results[Len(results)].seq \in Int
  OBVIOUS
<1>1. Len(results) \in 1 .. Len(results)
  BY EmptySeq
<1>2. results[Len(results)] \in Result
  BY <1>1, ElementOfSeq
<1>3. QED
  BY <1>2 DEF Result

LEMMA ResultsStep == SensorInv /\ ResultsInv /\ [Next]_vars => ResultsInv'
<1> SUFFICES ASSUME SensorInv, ResultsInv, [Next]_vars PROVE ResultsInv'
  OBVIOUS
<1>0. /\ results \in Seq(Result) /\ run.pub \in Seq(Result)
      /\ runs \in Nat /\ resets \in Nat /\ lastEffect \in Int
  BY DEF ResultsInv
<1>1. CASE RunBegin
  <2>1. results' \in Seq(Result)
    BY <1>0, <1>1, RunCases, AcquiredIs
  <2>2. run'.pub \in Seq(Result)
    <3>1. CASE \E switch \in BOOLEAN : DoneAfter(SkippingNum(switch))
      <4>1. PICK n \in Nat : DoneAfter(n)
        BY <3>1, SkipsNat
      <4>2. QED
        BY <4>1, PublishedIs
    <3>2. CASE run'.pub = <<>>
      BY <3>2
    <3>3. QED
      BY <1>1, <3>1, <3>2, RunCases
  <2>3. runs' = runs + 1 /\ resets' = resets /\ lastEffect' = lastEffect
    BY <1>1, RunCases DEF request
  <2>4. QED
    BY <1>0, <2>1, <2>2, <2>3 DEF ResultsInv
<1>2. CASE UnLockAiqStatistics
  <2>1. results' \in Seq(Result)
    BY <1>2, UnLockResults
  <2>2. run'.pub = <<>> /\ UNCHANGED <<runs, resets, lastEffect>>
    BY <1>2 DEF UnLockAiqStatistics, counts, request
  <2>3. QED
    BY <1>0, <2>1, <2>2 DEF ResultsInv
<1>e. CASE RunEnd
  <2>1. run'.pub = <<>> /\ UNCHANGED <<results, runs, resets>>
        /\ lastEffect' = IF results = <<>> THEN lastEffect ELSE results[Len(results)].seq
    BY <1>e DEF RunEnd, NoRun, counts
  <2>2. results # <<>> => results[Len(results)].seq \in Int
    BY <1>0, NewestIs
  <2>3. QED
    BY <1>0, <2>1, <2>2 DEF ResultsInv
<1>3. CASE Reset
  <2>1. UNCHANGED <<results, run>> /\ runs' = 0 /\ resets' = resets + 1 /\ lastEffect' = NoSeq
    BY <1>3 DEF Reset
  <2>2. QED
    BY <1>0, <2>1 DEF ResultsInv, NoSeq
<1>4. CASE HardwareSof \/ Sof \/ LostSof \/ SofToRequestThread \/ AcquireAiqStatistics
           \/ UpdateAiqStatistics \/ PickFor \/ UNCHANGED vars
  <2>1. UNCHANGED <<results, run, runs, resets, lastEffect>>
    BY <1>4 DEF HardwareSof, Sof, LostSof, SofToRequestThread, AcquireAiqStatistics,
                UpdateAiqStatistics, PickFor, vars, engine, counts, request
  <2>2. QED
    BY <1>0, <2>1 DEF ResultsInv
<1>5. QED
  BY <1>1, <1>2, <1>e, <1>3, <1>4 DEF Next

LEMMA EffectStep == SensorInv /\ ResultsInv /\ EffectInv /\ [Next]_vars => EffectInv'
<1> SUFFICES ASSUME SensorInv, ResultsInv, EffectInv, [Next]_vars PROVE EffectInv'
  OBVIOUS
<1>0. /\ results \in Seq(Result) /\ run.pub \in Seq(Result) /\ lastEffect \in Int
      /\ SensorOK(sensor) /\ AheadOf(sensor) \in Nat
  BY AheadTypes DEF ResultsInv, SensorInv
<1>1. CASE RunBegin
  <2>1. run = NoRun /\ results' = Acquired(results)
        /\ UNCHANGED <<mFirstAiqRunning, lastEffect, reported>>
    BY <1>1, RunCases DEF request
  <2>2. kStorageSize >= 2 /\ results # <<>>
           => results' # <<>> /\ results'[Len(results')] = results[Len(results)]
    <3>1. /\ Len(results') = Len(results) /\ results' \in Seq(Result)
          /\ kStorageSize >= 2 /\ results # <<>>
               => results'[Len(results)] = results[Len(results)]
      BY <1>0, <2>1, AcquiredIs
    <3>2. results # <<>> => results' # <<>>
      BY <1>0, <3>1, EmptySeq
    <3>3. QED
      BY <3>1, <3>2
  <2>3. AheadOf(sensor) <= AheadOf(sensor') /\ AheadOf(sensor') \in Nat
    BY <1>1, RunAhead, RunKeepsSensor, AheadTypes
  <2>4. AheadOf(sensor)' = AheadOf(sensor')
    BY DEF AheadOf
  <2>5. kStorageSize >= 2 /\ ~mFirstAiqRunning' =>
           /\ results' # <<>> /\ results'[Len(results')].seq <= AheadOf(sensor)'
           /\ reported' => lastEffect' <= results'[Len(results')].seq
    <3> SUFFICES ASSUME kStorageSize >= 2, ~mFirstAiqRunning
                 PROVE  /\ results' # <<>> /\ results'[Len(results')].seq <= AheadOf(sensor)'
                        /\ reported' => lastEffect' <= results'[Len(results')].seq
      BY <2>1
    <3>1. /\ results # <<>> /\ results[Len(results)].seq <= AheadOf(sensor)
          /\ reported => lastEffect <= results[Len(results)].seq
      BY DEF EffectInv
    <3>2. results[Len(results)].seq \in Int
      BY <1>0, <3>1, NewestIs
    <3>3. QED
      BY <1>0, <2>1, <2>2, <2>3, <2>4, <3>1, <3>2
  <2>a. run'.at \in Reading
    BY <1>1 DEF RunBegin, Reading
  <2>6. /\ run'.at = "done" => run'.pub # <<>> /\ run'.pub[Len(run'.pub)].seq = AheadOf(sensor')
        /\ run'.at # "done" => run'.pub = <<>>
    <3>1. CASE \E switch \in BOOLEAN : DoneAfter(SkippingNum(switch))
      <4>1. PICK n \in Nat : DoneAfter(n)
        BY <3>1, SkipsNat
      <4>2. /\ run'.pub # <<>> /\ Len(run'.pub) = n + 1
            /\ run'.pub[n + 1].seq = AheadOf(sensor')
        BY <4>1, PublishedIs
      <4>3. run'.at = "done"
        BY <4>1 DEF DoneAfter
      <4>4. QED
        BY <4>2, <4>3
    <3>2. CASE run'.pub = <<>> /\ run'.at # "done"
      BY <3>2
    <3>3. QED
      BY <1>1, <3>1, <3>2, RunCases
  <2>7. QED
    BY <2>1, <2>4, <2>5, <2>a, <2>6 DEF EffectInv, Reading
<1>2. CASE UnLockAiqStatistics
  <2>1. /\ mFirstAiqRunning' = (mFirstAiqRunning /\ run.at # "done")
        /\ run'.at = (IF run.at = "done" THEN "ran" ELSE "over") /\ run'.pub = <<>>
        /\ UNCHANGED <<sensor, lastEffect, reported>>
    BY <1>2 DEF UnLockAiqStatistics, request
  <2>2. AheadOf(sensor)' = AheadOf(sensor)
    BY <2>1 DEF AheadOf
  <2>3. CASE run.at = "done"
    <3>1. run.pub # <<>> /\ run.pub[Len(run.pub)].seq = AheadOf(sensor)
      BY <2>3 DEF EffectInv
    <3>2. results' # <<>> /\ results'[Len(results')].seq = AheadOf(sensor)
      BY <1>2, <3>1, UnLockResults
    <3>3. kStorageSize >= 2 /\ reported => lastEffect <= AheadOf(sensor)
      <4> SUFFICES ASSUME kStorageSize >= 2, reported PROVE lastEffect <= AheadOf(sensor)
        OBVIOUS
      <4>1. /\ results # <<>> /\ results[Len(results)].seq <= AheadOf(sensor)
            /\ lastEffect <= results[Len(results)].seq
        BY DEF EffectInv
      <4>2. results[Len(results)].seq \in Int
        BY <1>0, <4>1, NewestIs
      <4>3. QED
        BY <1>0, <4>1, <4>2
    <3>4. ~mFirstAiqRunning' /\ run'.at = "ran"
      BY <2>1, <2>3
    <3>5. QED
      BY <1>0, <2>1, <2>2, <3>2, <3>3, <3>4 DEF EffectInv
  <2>4. CASE run.at # "done"
    <3>1. run.pub = <<>> /\ (mFirstAiqRunning' <=> mFirstAiqRunning) /\ run'.at = "over"
      BY <2>1, <2>4 DEF EffectInv, SensorInv
    <3>2. results # <<>> => /\ results' # <<>>
                            /\ results'[Len(results')].seq = results[Len(results)].seq
      BY <1>2, <3>1, UnLockResults
    <3>3. QED
      BY <1>0, <2>1, <2>2, <3>1, <3>2 DEF EffectInv
  <2>5. QED
    BY <2>3, <2>4
<1>e. CASE RunEnd
  <2>1. /\ lastEffect' = (IF results = <<>> THEN lastEffect ELSE results[Len(results)].seq)
        /\ reported' = ~mFirstAiqRunning /\ run'.at = "none" /\ run'.pub = <<>>
        /\ UNCHANGED <<mFirstAiqRunning, results, sensor>>
    BY <1>e DEF RunEnd, NoRun
  <2>2. AheadOf(sensor)' = AheadOf(sensor)
    BY <2>1 DEF AheadOf
  <2>3. results # <<>> => results[Len(results)].seq \in Int
    BY <1>0, NewestIs
  <2>4. (reported' <=> ~mFirstAiqRunning) /\ (mFirstAiqRunning' <=> mFirstAiqRunning)
    BY <2>1
  <2>5. CASE mFirstAiqRunning
    <3>1. ~reported' /\ mFirstAiqRunning'
      BY <2>4, <2>5
    <3>2. QED
      BY <2>1, <3>1 DEF EffectInv
  <2>6. CASE ~mFirstAiqRunning
    <3>1. ~mFirstAiqRunning'
      BY <2>4, <2>6
    <3>2. kStorageSize >= 2 => /\ results # <<>> /\ results[Len(results)].seq <= AheadOf(sensor)
                               /\ lastEffect' = results[Len(results)].seq
      BY <2>1, <2>6 DEF EffectInv
    <3>3. run'.at # "done" /\ run'.at # "ran" /\ results' = results
      BY <2>1
    <3>4. QED
      BY <1>0, <2>1, <2>2, <2>3, <3>1, <3>2, <3>3 DEF EffectInv
  <2>7. QED
    BY <2>5, <2>6
<1>3. CASE Reset
  <2>1. mFirstAiqRunning' = TRUE /\ run = NoRun /\ run' = run /\ reported' = FALSE
    BY <1>3 DEF Reset
  <2>2. QED
    BY <2>1 DEF EffectInv, NoRun
<1>4. CASE Sof
  <2>1. /\ pending /\ run = NoRun /\ sensor' = HandleSofEvent(sensor, sof)
        /\ UNCHANGED <<run, results, mFirstAiqRunning, lastEffect, reported>>
    BY <1>4 DEF Sof, engine, request
  <2>2. sof \in Int /\ sof > sensor.last
    BY <2>1, SensorTypes DEF SensorInv
  <2>3. AheadOf(sensor) <= AheadOf(sensor')
    BY <1>0, <2>1, <2>2, SofAhead
  <2>4. AheadOf(sensor') \in Nat
    BY <1>0, <2>1, <2>2, Handled, AheadTypes
  <2>5. AheadOf(sensor)' = AheadOf(sensor')
    BY DEF AheadOf
  <2>6. results # <<>> => results[Len(results)].seq \in Int
    BY <1>0, NewestIs
  <2>7. QED
    BY <1>0, <2>1, <2>3, <2>4, <2>5, <2>6 DEF EffectInv, NoRun
<1>5. CASE HardwareSof \/ LostSof \/ SofToRequestThread \/ AcquireAiqStatistics
           \/ UpdateAiqStatistics \/ PickFor \/ UNCHANGED vars
  <2>1. UNCHANGED <<results, run, sensor, lastEffect, reported, mFirstAiqRunning>>
    BY <1>5 DEF HardwareSof, LostSof, SofToRequestThread, AcquireAiqStatistics,
                UpdateAiqStatistics, PickFor, vars, engine, counts, request
  <2>2. QED
    BY <2>1 DEF EffectInv, AheadOf
<1>6. QED
  BY <1>1, <1>2, <1>e, <1>3, <1>4, <1>5 DEF Next

LEMMA EffectInductive == Spec => [](ResultsInv /\ EffectInv)
<1>1. SensorInv /\ ResultsInv /\ EffectInv /\ [Next]_vars => (ResultsInv /\ EffectInv)'
  BY ResultsStep, EffectStep
<1>2. QED
  BY <1>1, EffectInit, SensorInductive, PTL DEF Spec

(* The frame a run reports its settings for is never before the one        *)
(* reported last in the session, also when SOFs are lost and runs fail:    *)
(* getAiqResult searches newest first.  acquireAiqResult spoils the oldest *)
(* result, which must not be the newest too.                               *)
THEOREM EffectsInOrder ==
    ASSUME kStorageSize >= 2
    PROVE  Spec => EffectNeverRegresses
<1> DEFINE A == reported /\ reported' => lastEffect' >= lastEffect
<1>1. SensorInv /\ ResultsInv /\ EffectInv /\ [Next]_vars => [A]_vars
  <2> SUFFICES ASSUME SensorInv, ResultsInv, EffectInv, [Next]_vars, reported, reported'
               PROVE  lastEffect' >= lastEffect
    OBVIOUS
  <2>0. lastEffect \in Int /\ results \in Seq(Result)
    BY DEF ResultsInv
  <2>1. CASE RunEnd
    <3>1. results # <<>> /\ lastEffect <= results[Len(results)].seq
      BY DEF EffectInv
    <3>2. lastEffect' = results[Len(results)].seq
      BY <2>1, <3>1 DEF RunEnd
    <3>3. QED
      BY <2>0, <3>1, <3>2, NewestIs
  <2>2. CASE Reset
    BY <2>2 DEF Reset
  <2>3. CASE HardwareSof \/ Sof \/ LostSof \/ SofToRequestThread \/ AcquireAiqStatistics
             \/ UpdateAiqStatistics \/ PickFor \/ RunBegin \/ UnLockAiqStatistics \/ UNCHANGED vars
    <3>1. lastEffect' = lastEffect
      BY <2>3 DEF HardwareSof, Sof, LostSof, SofToRequestThread, AcquireAiqStatistics,
                  UpdateAiqStatistics, PickFor, RunBegin, UnLockAiqStatistics, vars, request
    <3>2. QED
      BY <2>0, <3>1
  <2>4. QED
    BY <2>1, <2>2, <2>3 DEF Next
<1>2. Spec => [](ResultsInv /\ EffectInv)
  BY EffectInductive
<1>3. QED
  BY <1>1, <1>2, SensorInductive, PTL DEF Spec, EffectNeverRegresses

-----------------------------------------------------------------------------
(* The order of what waits, while nothing disturbs it.                     *)

(* One exposure waits for every SOF from the next on, and the gain of each *)
(* for as many frames later as it takes effect earlier.                    *)
MapTidy(s) ==
    /\ DOMAIN s.exp = s.last + 1 .. s.last + Size(s.exp)
    /\ DOMAIN s.gain \subseteq s.last + 1 .. s.last + Size(s.exp) + GainDelay
    /\ \A k \in DOMAIN s.exp :
          k + GainDelay \in DOMAIN s.gain /\ s.gain[k + GainDelay] = s.exp[k]

(* The run whose gain is set once SOF j is over.                           *)
GainDue(s, j, v) ==
    \/ \E k \in DOMAIN s.gain : /\ k <= j /\ s.gain[k] = v
                                /\ \A l \in DOMAIN s.gain : l <= j => l <= k
    \/ (\A k \in DOMAIN s.gain : k > j) /\ v = s.gainReg

LEMMA UpdateTidy ==
    ASSUME NEW s, SensorOK(s), MapTidy(s), NEW target, NEW r,
           NEW t, t = UpdateSensorExposure(s, target, r)
    PROVE  MapTidy(t)
<1>1. /\ s.last \in Int /\ Size(s.exp) \in Nat /\ GainDelay \in Nat /\ SensorOK(t)
      /\ t.last = s.last /\ NoSeq <= s.last
  BY AheadTypes, LagTypes, UpdateKeepsSensor
<1> DEFINE N == Size(s.exp)  D == GainDelay  L == s.last
<1>2. CASE s.last < 0
  <2>1. t.exp = s.exp /\ t.gain = s.gain
    BY <1>2, Updated
  <2>2. QED
    BY <1>1, <2>1 DEF MapTidy
<1>3. CASE s.last >= 0 /\ AtOnce(s, target)
  <2>1. t.exp = s.exp /\ (t.gain = s.gain \/ (t.gain = Put(s.gain, L + D, r) /\ D # 0))
    BY <1>3, Updated
  <2>2. CASE t.gain = s.gain
    BY <1>1, <2>1, <2>2 DEF MapTidy
  <2>3. CASE t.gain = Put(s.gain, L + D, r) /\ D # 0
    <3>1. /\ DOMAIN t.gain = DOMAIN s.gain \cup {L + D}
          /\ \A j \in DOMAIN s.gain : j # L + D => t.gain[j] = s.gain[j]
      <4>1. DOMAIN Put(s.gain, L + D, r) = DOMAIN s.gain \cup {L + D}
        BY PutIs
      <4>2. \A j \in DOMAIN s.gain : j # L + D => Put(s.gain, L + D, r)[j] = s.gain[j]
        BY PutValues
      <4>3. QED
        BY <2>3, <4>1, <4>2
    <3>2. L + D \in L + 1 .. L + N + D
      BY <1>1, <2>3
    <3>3. DOMAIN t.gain \subseteq t.last + 1 .. t.last + Size(t.exp) + D
      BY <1>1, <2>1, <3>1, <3>2 DEF MapTidy
    <3>4. ASSUME NEW k \in DOMAIN t.exp
          PROVE  k + D \in DOMAIN t.gain /\ t.gain[k + D] = t.exp[k]
      <4>1. k \in DOMAIN s.exp /\ k + D \in DOMAIN s.gain /\ s.gain[k + D] = s.exp[k]
        BY <2>1 DEF MapTidy
      <4>2. k \in L + 1 .. L + N
        BY <4>1 DEF MapTidy
      <4>3. k + D # L + D
        BY <1>1, <4>2
      <4>4. QED
        BY <2>1, <3>1, <4>1, <4>3
    <3>5. QED
      BY <1>1, <2>1, <3>3, <3>4 DEF MapTidy
  <2>4. QED
    BY <2>1, <2>2, <2>3
<1>4. CASE s.last >= 0 /\ ~AtOnce(s, target)
  <2> DEFINE key == L + N + 1
  <2>1. t.exp = Put(s.exp, key, r) /\ t.gain = Put(s.gain, key + D, r)
    BY <1>4, Updated DEF SensorSeq
  <2>2. /\ DOMAIN t.exp = DOMAIN s.exp \cup {key} /\ t.exp[key] = r
        /\ \A j \in DOMAIN s.exp : j # key => t.exp[j] = s.exp[j]
    <3>1. DOMAIN Put(s.exp, key, r) = DOMAIN s.exp \cup {key}
      BY PutIs
    <3>2. /\ Put(s.exp, key, r)[key] = r
          /\ \A j \in DOMAIN s.exp : j # key => Put(s.exp, key, r)[j] = s.exp[j]
      BY PutValues
    <3>3. QED
      BY <2>1, <3>1, <3>2
  <2>3. /\ DOMAIN t.gain = DOMAIN s.gain \cup {key + D} /\ t.gain[key + D] = r
        /\ \A j \in DOMAIN s.gain : j # key + D => t.gain[j] = s.gain[j]
    <3>1. DOMAIN Put(s.gain, key + D, r) = DOMAIN s.gain \cup {key + D}
      BY PutIs
    <3>2. /\ Put(s.gain, key + D, r)[key + D] = r
          /\ \A j \in DOMAIN s.gain : j # key + D => Put(s.gain, key + D, r)[j] = s.gain[j]
      BY PutValues
    <3>3. QED
      BY <2>1, <3>1, <3>2
  <2>4. DOMAIN s.exp = L + 1 .. L + N /\ DOMAIN s.gain \subseteq L + 1 .. L + N + D
    BY DEF MapTidy
  <2>5. key \notin DOMAIN s.exp
    BY <1>1, <2>4
  <2>6. Size(t.exp) = N + 1
    <3>1. IsFiniteSet(DOMAIN s.exp)
      BY DEF SensorOK
    <3>2. Size(Put(s.exp, key, r)) = N + 1
      BY <2>5, <3>1, PutSize
    <3>3. QED
      BY <2>1, <3>2
  <2>7. DOMAIN t.exp = t.last + 1 .. t.last + Size(t.exp)
    BY <1>1, <2>2, <2>4, <2>6
  <2>8. DOMAIN t.gain \subseteq t.last + 1 .. t.last + Size(t.exp) + D
    <3>1. key + D \in L + 1 .. L + (N + 1) + D
      BY <1>1
    <3>2. L + 1 .. L + N + D \subseteq L + 1 .. L + (N + 1) + D
      BY <1>1
    <3> HIDE DEF key, N, D, L
    <3>3. QED
      BY <1>1, <2>3, <2>4, <2>6, <3>1, <3>2 DEF L, D
  <2>9. ASSUME NEW k \in DOMAIN t.exp
        PROVE  k + D \in DOMAIN t.gain /\ t.gain[k + D] = t.exp[k]
    <3>1. CASE k = key
      BY <2>2, <2>3, <3>1
    <3>2. CASE k # key
      <4>1. k \in DOMAIN s.exp /\ k \in Int /\ k + D # key + D
        BY <1>1, <2>2, <2>4, <3>2
      <4>2. k + D \in DOMAIN s.gain /\ s.gain[k + D] = s.exp[k]
        BY <4>1 DEF MapTidy
      <4>3. QED
        BY <2>2, <2>3, <3>2, <4>1, <4>2
    <3>3. QED
      BY <3>1, <3>2
  <2>10. QED
    BY <2>7, <2>8, <2>9 DEF MapTidy
<1>5. QED
  BY <1>1, <1>2, <1>3, <1>4

(* An update leaves the gains due before its own as they are, and its own  *)
(* comes due with its exposure.                                            *)
LEMMA UpdateDue ==
    ASSUME NEW s, SensorOK(s), MapTidy(s), NEW target, NEW r,
           NEW t, t = UpdateSensorExposure(s, target, r)
    PROVE  /\ s.last < 0 \/ GainDue(s, s.last + GainDelay, s.expReg)
                => GainDue(t, t.last + GainDelay, t.expReg)
           /\ s.last >= 0 =>
                \A j \in Int : \A v :
                    /\ GainDue(s, j, v) /\ j >= s.last
                    /\ j < s.last + GainDelay
                       \/ (j <= s.last + GainDelay /\ ~AtOnce(s, target))
                    => GainDue(t, j, v)
<1>1. /\ s.last \in Int /\ Size(s.exp) \in Nat /\ GainDelay \in Nat /\ SensorOK(t)
      /\ t.last = s.last /\ NoSeq <= s.last
  BY AheadTypes, LagTypes, UpdateKeepsSensor
<1> DEFINE N == Size(s.exp)  D == GainDelay  L == s.last
<1>2. CASE s.last < 0
  <2>1. t.gain = s.gain /\ t.expReg = r /\ t.gainReg = r
    BY <1>2, Updated
  <2>2. DOMAIN t.gain = {}
    BY <1>2, <2>1 DEF SensorOK
  <2>3. GainDue(t, t.last + GainDelay, t.expReg)
    BY <2>1, <2>2 DEF GainDue
  <2>4. QED
    BY <1>1, <1>2, <2>3
<1>3. CASE s.last >= 0 /\ AtOnce(s, target) /\ D = 0
  <2>1. t.gain = s.gain /\ t.expReg = r /\ t.gainReg = r
    BY <1>3, Updated
  <2>2. \A k \in DOMAIN s.gain : k \in Int /\ k > L
    BY <1>1 DEF MapTidy
  <2>3. \A k \in DOMAIN t.gain : k > L + D
    BY <1>1, <1>3, <2>1, <2>2
  <2>4. GainDue(t, L + D, t.expReg)
    BY <2>1, <2>3 DEF GainDue
  <2>5. \A j \in Int : ~(j >= L /\ (j < L + D \/ (j <= L + D /\ ~AtOnce(s, target))))
    BY <1>1, <1>3
  <2>6. QED
    BY <1>1, <1>3, <2>4, <2>5
<1>4. CASE s.last >= 0 /\ (AtOnce(s, target) => D # 0)
  <2>1. PICK g \in Int :
             /\ t.gain = Put(s.gain, g, r) /\ t.gainReg = s.gainReg
             /\ \/ AtOnce(s, target) /\ g = L + D /\ t.expReg = r
                \/ ~AtOnce(s, target) /\ g = L + N + 1 + D /\ t.expReg = s.expReg
    <3>1. CASE AtOnce(s, target)
      <4>1. t.gain = Put(s.gain, L + D, r) /\ t.gainReg = s.gainReg /\ t.expReg = r
        BY <1>4, <3>1, Updated
      <4>2. L + D \in Int
        BY <1>1
      <4>3. QED
        BY <3>1, <4>1, <4>2
    <3>2. CASE ~AtOnce(s, target)
      <4>1. t.gain = Put(s.gain, L + N + 1 + D, r) /\ t.gainReg = s.gainReg
            /\ t.expReg = s.expReg
        BY <1>4, <3>2, Updated DEF SensorSeq
      <4>2. L + N + 1 + D \in Int
        BY <1>1
      <4>3. QED
        BY <3>2, <4>1, <4>2
    <3>3. QED
      BY <3>1, <3>2
  <2>2. /\ DOMAIN t.gain = DOMAIN s.gain \cup {g} /\ t.gain[g] = r
        /\ \A j \in DOMAIN s.gain : j # g => t.gain[j] = s.gain[j]
    <3>1. t.gain = Put(s.gain, g, r)
      BY <2>1
    <3>2. DOMAIN Put(s.gain, g, r) = DOMAIN s.gain \cup {g}
      BY PutIs
    <3>3. /\ Put(s.gain, g, r)[g] = r
          /\ \A j \in DOMAIN s.gain : j # g => Put(s.gain, g, r)[j] = s.gain[j]
      BY PutValues
    <3>4. QED
      BY <3>1, <3>2, <3>3
  <2>3. DOMAIN s.gain \subseteq Int
    BY DEF SensorOK
  <2>4. ASSUME NEW j \in Int, NEW v, GainDue(s, j, v), j < g
        PROVE  GainDue(t, j, v)
    <3>1. CASE \E k \in DOMAIN s.gain : /\ k <= j /\ s.gain[k] = v
                                        /\ \A l \in DOMAIN s.gain : l <= j => l <= k
      <4>1. PICK k \in DOMAIN s.gain : /\ k <= j /\ s.gain[k] = v
                                       /\ \A l \in DOMAIN s.gain : l <= j => l <= k
        BY <3>1
      <4>2. k \in DOMAIN t.gain /\ k # g /\ t.gain[k] = v
        BY <2>2, <2>3, <2>4, <4>1
      <4>3. \A l \in DOMAIN t.gain : l <= j => l <= k
        BY <2>2, <2>3, <2>4, <4>1
      <4>4. QED
        BY <4>1, <4>2, <4>3 DEF GainDue
    <3>2. CASE (\A k \in DOMAIN s.gain : k > j) /\ v = s.gainReg
      <4>1. \A k \in DOMAIN t.gain : k > j
        BY <2>2, <2>3, <2>4, <3>2
      <4>2. QED
        BY <2>1, <3>2, <4>1 DEF GainDue
    <3>3. QED
      BY <2>4, <3>1, <3>2 DEF GainDue
  <2>5. GainDue(s, L + D, s.expReg) => GainDue(t, t.last + D, t.expReg)
    <3>1. CASE AtOnce(s, target)
      <4>1. g = L + D /\ t.expReg = r
        BY <2>1, <3>1
      <4>2. g \in DOMAIN t.gain /\ t.gain[g] = t.expReg
            /\ \A l \in DOMAIN t.gain : l <= g => l <= g
        BY <2>2, <4>1
      <4>3. g <= g
        OBVIOUS
      <4>4. GainDue(t, g, t.expReg)
        BY <4>2, <4>3 DEF GainDue
      <4>5. QED
        BY <1>1, <4>1, <4>4
    <3>2. CASE ~AtOnce(s, target)
      <4>1. g = L + N + 1 + D /\ t.expReg = s.expReg
        BY <2>1, <3>2
      <4>2. L + D \in Int /\ L + D < g
        BY <1>1, <4>1
      <4>3. GainDue(s, L + D, s.expReg) => GainDue(t, L + D, s.expReg)
        BY <2>4, <4>2
      <4>4. QED
        BY <1>1, <4>1, <4>3
    <3>3. QED
      BY <3>1, <3>2
  <2>6. ASSUME NEW j \in Int, j < L + D \/ (j <= L + D /\ ~AtOnce(s, target))
        PROVE  j < g
    BY <1>1, <2>1, <2>6
  <2>7. \A j \in Int : \A v :
           /\ GainDue(s, j, v) /\ j >= s.last
           /\ j < s.last + GainDelay \/ (j <= s.last + GainDelay /\ ~AtOnce(s, target))
           => GainDue(t, j, v)
    BY <2>4, <2>6
  <2>8. ~(s.last < 0)
    BY <1>1, <1>4
  <2>9. s.last < 0 \/ GainDue(s, s.last + GainDelay, s.expReg)
           => GainDue(t, t.last + GainDelay, t.expReg)
    BY <2>5, <2>8
  <2>10. QED
    BY <2>7, <2>9
<1>5. QED
  BY <1>1, <1>2, <1>3, <1>4

LEMMA SofTidy ==
    ASSUME NEW s, SensorOK(s), MapTidy(s), NEW t, t = HandleSofEvent(s, s.last + 1)
    PROVE  MapTidy(t) /\ t.last = s.last + 1 /\ SensorOK(t)
           /\ Size(t.exp) = IF Size(s.exp) > 0 THEN Size(s.exp) - 1 ELSE 0
<1> DEFINE N == Size(s.exp)  D == GainDelay  L == s.last  k == L + 1
<1>1. /\ L \in Int /\ N \in Nat /\ D \in Nat /\ k \in Int /\ k > L
      /\ DOMAIN s.exp = L + 1 .. L + N /\ DOMAIN s.gain \subseteq L + 1 .. L + N + D
  BY AheadTypes, LagTypes DEF MapTidy
<1>2. SensorOK(t) /\ t.last = k /\ t.exp = Drop(s.exp, k) /\ t.gain = Drop(s.gain, k)
  BY <1>1, Handled
<1>3. /\ DOMAIN t.exp = DOMAIN s.exp \ {k} /\ DOMAIN t.gain = DOMAIN s.gain \ {k}
  <2>1. DOMAIN Drop(s.exp, k) = DOMAIN s.exp \ {k} /\ DOMAIN Drop(s.gain, k) = DOMAIN s.gain \ {k}
    BY DropIs
  <2>2. QED
    BY <1>2, <2>1
<1>4. /\ \A j \in DOMAIN s.exp : j # k => t.exp[j] = s.exp[j]
      /\ \A j \in DOMAIN s.gain : j # k => t.gain[j] = s.gain[j]
  <2>1. /\ \A j \in DOMAIN s.exp : j # k => Drop(s.exp, k)[j] = s.exp[j]
        /\ \A j \in DOMAIN s.gain : j # k => Drop(s.gain, k)[j] = s.gain[j]
    BY DropValues
  <2>2. QED
    BY <1>2, <2>1
<1>5. Size(t.exp) = IF N > 0 THEN N - 1 ELSE 0
  <2>1. IsFiniteSet(DOMAIN s.exp)
    BY DEF SensorOK
  <2>2. /\ k \in DOMAIN s.exp => N = Size(Drop(s.exp, k)) + 1
        /\ k \notin DOMAIN s.exp => Size(Drop(s.exp, k)) = N
        /\ Size(Drop(s.exp, k)) \in Nat
    BY <2>1, DropSize
  <2>3. k \in DOMAIN s.exp <=> N > 0
    BY <1>1
  <2>4. Size(t.exp) = Size(Drop(s.exp, k))
    BY <1>2
  <2>5. QED
    BY <1>1, <2>2, <2>3, <2>4
<1>6. DOMAIN t.exp = t.last + 1 .. t.last + Size(t.exp)
  <2>1. (L + 1 .. L + N) \ {k} = k + 1 .. k + (IF N > 0 THEN N - 1 ELSE 0)
    <3>1. \A i : i \in (L + 1 .. L + N) \ {k} <=> i \in k + 1 .. k + (IF N > 0 THEN N - 1 ELSE 0)
      BY <1>1
    <3>2. QED
      BY <3>1
  <2>2. QED
    BY <1>1, <1>2, <1>3, <1>5, <2>1
<1>7. DOMAIN t.gain \subseteq t.last + 1 .. t.last + Size(t.exp) + D
  <2> SUFFICES ASSUME NEW i \in DOMAIN t.gain
               PROVE  i \in t.last + 1 .. t.last + Size(t.exp) + D
    OBVIOUS
  <2>1. i \in L + 1 .. L + N + D /\ i # k
    BY <1>1, <1>3
  <2>2. i \in k + 1 .. k + (IF N > 0 THEN N - 1 ELSE 0) + D
    BY <1>1, <2>1
  <2>3. QED
    BY <1>2, <1>5, <2>2
<1>8. ASSUME NEW i \in DOMAIN t.exp
      PROVE  i + D \in DOMAIN t.gain /\ t.gain[i + D] = t.exp[i]
  <2>1. i \in DOMAIN s.exp /\ i # k /\ i \in Int /\ i > k
    BY <1>1, <1>3, <1>8
  <2>2. i + D \in DOMAIN s.gain /\ s.gain[i + D] = s.exp[i]
    BY <2>1 DEF MapTidy
  <2>3. i + D # k
    BY <1>1, <2>1
  <2>4. QED
    BY <1>3, <1>4, <2>1, <2>2, <2>3
<1>9. QED
  BY <1>2, <1>5, <1>6, <1>7, <1>8 DEF MapTidy

(* A gain that is due from a later SOF on is due as before.                *)
LEMMA SofDue ==
    ASSUME NEW s, SensorOK(s), MapTidy(s), NEW t, t = HandleSofEvent(s, s.last + 1),
           NEW j \in Int, j >= s.last + 1, NEW v, GainDue(s, j, v)
    PROVE  GainDue(t, j, v)
<1> DEFINE k == s.last + 1
<1>1. /\ s.last \in Int /\ k \in Int /\ k > s.last /\ DOMAIN s.gain \subseteq Int
      /\ \A l \in DOMAIN s.gain : l >= k
  <2>1. s.last \in Int /\ Size(s.exp) \in Nat /\ GainDelay \in Nat
    BY AheadTypes, LagTypes
  <2>2. QED
    BY <2>1 DEF MapTidy
<1>2. /\ t.gain = Drop(s.gain, k)
      /\ t.gainReg = IF k \in DOMAIN s.gain THEN s.gain[k] ELSE s.gainReg
  BY <1>1, Handled
<1>3. DOMAIN t.gain = DOMAIN s.gain \ {k}
  <2>1. DOMAIN Drop(s.gain, k) = DOMAIN s.gain \ {k}
    BY DropIs
  <2>2. QED
    BY <1>2, <2>1
<1>4. \A l \in DOMAIN s.gain : l # k => t.gain[l] = s.gain[l]
  <2>1. \A l \in DOMAIN s.gain : l # k => Drop(s.gain, k)[l] = s.gain[l]
    BY DropValues
  <2>2. QED
    BY <1>2, <2>1
<1>5. CASE \E l \in DOMAIN s.gain : /\ l <= j /\ s.gain[l] = v
                                    /\ \A m \in DOMAIN s.gain : m <= j => m <= l
  <2>1. PICK l \in DOMAIN s.gain : /\ l <= j /\ s.gain[l] = v
                                   /\ \A m \in DOMAIN s.gain : m <= j => m <= l
    BY <1>5
  <2>2. CASE l = k
    <3>1. t.gainReg = v
      BY <1>2, <2>1, <2>2
    <3>2. \A m \in DOMAIN t.gain : m > j
      BY <1>1, <1>3, <2>1, <2>2
    <3>3. QED
      BY <3>1, <3>2 DEF GainDue
  <2>3. CASE l # k
    <3>1. l \in DOMAIN t.gain /\ t.gain[l] = v
      BY <1>3, <1>4, <2>1, <2>3
    <3>2. \A m \in DOMAIN t.gain : m <= j => m <= l
      BY <1>3, <2>1
    <3>3. QED
      BY <2>1, <3>1, <3>2 DEF GainDue
  <2>4. QED
    BY <2>2, <2>3
<1>6. CASE (\A l \in DOMAIN s.gain : l > j) /\ v = s.gainReg
  <2>1. k \notin DOMAIN s.gain
    BY <1>1, <1>6
  <2>2. t.gainReg = v /\ \A l \in DOMAIN t.gain : l > j
    BY <1>2, <1>3, <1>6, <2>1
  <2>3. QED
    BY <2>2 DEF GainDue
<1>7. QED
  BY <1>5, <1>6 DEF GainDue

(* What is in the exposure register after an SOF comes due with it.        *)
LEMMA SofDueNow ==
    ASSUME NEW s, SensorOK(s), MapTidy(s), NEW t, t = HandleSofEvent(s, s.last + 1),
           GainDue(s, s.last + GainDelay, s.expReg)
    PROVE  GainDue(t, t.last + GainDelay, t.expReg)
<1> DEFINE N == Size(s.exp)  D == GainDelay  L == s.last  k == L + 1
<1>1. /\ L \in Int /\ N \in Nat /\ D \in Nat /\ k \in Int /\ k > L
      /\ DOMAIN s.exp = L + 1 .. L + N /\ DOMAIN s.gain \subseteq L + 1 .. L + N + D
  BY AheadTypes, LagTypes DEF MapTidy
<1>2. /\ t.last = k /\ t.gain = Drop(s.gain, k)
      /\ t.expReg = IF k \in DOMAIN s.exp THEN s.exp[k] ELSE s.expReg
  BY <1>1, Handled
<1>3. GainDue(s, k + D, t.expReg)
  <2>1. CASE N = 0
    <3>1. t.expReg = s.expReg
      BY <1>1, <1>2, <2>1
    <3>2. \A l \in DOMAIN s.gain : l \in Int /\ l <= L + D
      BY <1>1, <2>1
    <3>3. CASE \E i \in DOMAIN s.gain : /\ i <= L + D /\ s.gain[i] = s.expReg
                                        /\ \A l \in DOMAIN s.gain : l <= L + D => l <= i
      <4>1. PICK i \in DOMAIN s.gain : /\ i <= L + D /\ s.gain[i] = s.expReg
                                       /\ \A l \in DOMAIN s.gain : l <= L + D => l <= i
        BY <3>3
      <4>2. i <= k + D /\ \A l \in DOMAIN s.gain : l <= i
        BY <1>1, <3>2, <4>1
      <4>3. GainDue(s, k + D, s.expReg)
        BY <4>1, <4>2 DEF GainDue
      <4>4. QED
        BY <3>1, <4>3
    <3>4. CASE (\A l \in DOMAIN s.gain : l > L + D) /\ s.expReg = s.gainReg
      <4>1. \A l \in DOMAIN s.gain : l > k + D
        BY <1>1, <3>2, <3>4
      <4>2. GainDue(s, k + D, s.expReg)
        BY <3>4, <4>1 DEF GainDue
      <4>3. QED
        BY <3>1, <4>2
    <3>5. QED
      BY <3>3, <3>4 DEF GainDue
  <2>2. CASE N > 0
    <3>1. k \in DOMAIN s.exp
      BY <1>1, <2>2
    <3>2. t.expReg = s.exp[k] /\ k + D \in DOMAIN s.gain /\ s.gain[k + D] = s.exp[k]
      BY <1>2, <3>1 DEF MapTidy
    <3>3. k + D <= k + D
      BY <1>1
    <3>4. QED
      BY <3>2, <3>3 DEF GainDue
  <2>3. QED
    BY <1>1, <2>1, <2>2
<1>4. k + D \in Int /\ k + D >= s.last + 1
  BY <1>1
<1>5. GainDue(t, k + D, t.expReg)
  BY <1>3, <1>4, SofDue
<1>6. QED
  BY <1>2, <1>5

(* Latch: the settings of the next frame nobody has settings for.          *)
LEMMA LatchFirst ==
    ASSUME NEW of, NEW lag \in Nat, NEW v
    PROVE  /\ DOMAIN Latch(of, 0, lag, v) = 0 .. lag - 1
           /\ \A f \in 0 .. lag - 1 : Latch(of, 0, lag, v)[f] = v
BY DEF Latch

LEMMA LatchNext ==
    ASSUME NEW of, NEW k \in Nat \ {0}, NEW lag \in Nat, NEW v
    PROVE  Latch(of, k, lag, v) = Put(of, k - 1 + lag, v)
BY DEF Latch

-----------------------------------------------------------------------------
(* The exposures and gains of the frames.                                  *)

StartInv == sof >= NoSeq /\ (runs = 0 => sof = NoSeq /\ mFirstAiqRunning /\ run = NoRun)

TidyInv ==
    Undisturbed =>
        /\ MapTidy(sensor)
        /\ sensor.last = IF pending THEN sof - 1 ELSE sof
        /\ DOMAIN expOf = IF sof = NoSeq THEN {} ELSE 0 .. sof - 1 + ExposureLag
        /\ DOMAIN gainOf = IF sof = NoSeq THEN {} ELSE 0 .. sof - 1 + GainLag

(* The exposure in the register has its gain due when it takes effect, and *)
(* so does the one of every frame whose gain is not settled yet.           *)
GainInv ==
    Undisturbed /\ runs >= 1 =>
        /\ GainDue(sensor, sensor.last + GainDelay, sensor.expReg)
        /\ \A f \in DOMAIN expOf :
              /\ f >= sof + GainLag => GainDue(sensor, f - GainLag, expOf[f])
              /\ f < sof + GainLag => expOf[f] = gainOf[f]

LEMMA StillUndisturbed ==
    ASSUME SensorInv, Next, ~Reset, Undisturbed'
    PROVE  Undisturbed /\ ~LostSof /\ errors' = errors
<1>1. CASE LostSof
  <2>1. lost' = lost + 1
    BY <1>1 DEF LostSof
  <2>2. QED
    BY <2>1 DEF Undisturbed, SensorInv
<1>2. CASE RunBegin
  <2>1. /\ raced' = (raced \/ (pending /\ AtOnce(sensor, Target))) /\ UNCHANGED lost
        /\ UNCHANGED errors \/ errors' = errors + 1
    BY <1>2, RunCases
  <2>2. ~raced /\ lost = 0 /\ errors = 0 /\ errors' = errors
    <3>1. ~raced' /\ lost' = 0 /\ errors' = 0
      BY DEF Undisturbed
    <3>2. ~raced
      BY <2>1, <3>1, Zenon
    <3>3. errors \in Nat
      BY DEF SensorInv
    <3>4. QED
      BY <2>1, <3>1, <3>2, <3>3
  <2>3. ~LostSof
    <3>1. LostSof => runs' = runs
      BY DEF LostSof
    <3>2. runs' = runs + 1 /\ runs \in Nat
      BY <1>2, RunCases DEF SensorInv
    <3>3. QED
      BY <3>1, <3>2
  <2>4. QED
    BY <2>2, <2>3 DEF Undisturbed
<1>3. CASE HardwareSof \/ Sof \/ SofToRequestThread \/ AcquireAiqStatistics
           \/ UpdateAiqStatistics \/ PickFor \/ UnLockAiqStatistics \/ RunEnd
  <2>1. UNCHANGED <<lost, errors, raced>>
    BY <1>3 DEF HardwareSof, Sof, SofToRequestThread, AcquireAiqStatistics, UpdateAiqStatistics,
                PickFor, UnLockAiqStatistics, RunEnd, counts
  <2>2. ~LostSof
    <3>1. LostSof => lost' = lost + 1
      BY DEF LostSof
    <3>2. QED
      BY <2>1, <3>1 DEF SensorInv
  <2>3. QED
    BY <2>1, <2>2 DEF Undisturbed
<1>4. QED
  BY <1>1, <1>2, <1>3 DEF Next

LEMMA StartInit == Init => StartInv
BY DEF Init, StartInv, NoSeq

LEMMA StartStep == SensorInv /\ StartInv /\ [Next]_vars => StartInv'
<1> SUFFICES ASSUME SensorInv, StartInv, [Next]_vars PROVE StartInv'
  OBVIOUS
<1>0. sof \in Int /\ runs \in Nat
  BY DEF SensorInv
<1>1. CASE HardwareSof
  <2>1. Streaming /\ sof' = sof + 1 /\ UNCHANGED runs
    BY <1>1 DEF HardwareSof
  <2>2. QED
    BY <1>0, <2>1 DEF StartInv, Streaming, NoSeq
<1>2. CASE RunBegin
  <2>1. runs' = runs + 1 /\ UNCHANGED sof
    BY <1>2, RunCases DEF frames
  <2>2. QED
    BY <1>0, <2>1 DEF StartInv
<1>3. CASE UnLockAiqStatistics \/ RunEnd
  <2>1. run # NoRun /\ UNCHANGED <<runs, sof>>
    BY <1>3 DEF UnLockAiqStatistics, RunEnd, NoRun, Reading, frames
  <2>2. QED
    BY <1>0, <2>1 DEF StartInv
<1>4. CASE Reset
  <2>1. run = NoRun /\ UNCHANGED run /\ sof' = NoSeq /\ mFirstAiqRunning' = TRUE
    BY <1>4 DEF Reset
  <2>2. QED
    BY <2>1 DEF StartInv, NoSeq
<1>5. CASE Sof \/ LostSof \/ SofToRequestThread \/ AcquireAiqStatistics
           \/ UpdateAiqStatistics \/ PickFor \/ UNCHANGED vars
  <2>1. UNCHANGED <<run, runs, sof, mFirstAiqRunning>>
    BY <1>5 DEF Sof, LostSof, SofToRequestThread, AcquireAiqStatistics,
                UpdateAiqStatistics, PickFor, vars, engine, frames
  <2>2. QED
    BY <2>1 DEF StartInv
<1>6. QED
  BY <1>1, <1>2, <1>3, <1>4, <1>5 DEF Next

(* One run of 3A leaves the maps tidy and what is due due.                 *)
LEMMA ExposedTidy ==
    ASSUME SensorOK(sensor), MapTidy(sensor), NEW n \in Nat, NEW target, NEW r, NEW i \in 0 .. n
    PROVE  LET t == Exposed(n, target, r)[i] IN
           /\ MapTidy(t)
           /\ sensor.last < 0 \/ GainDue(sensor, sensor.last + GainDelay, sensor.expReg)
                => GainDue(t, t.last + GainDelay, t.expReg)
           /\ sensor.last >= 0 =>
                \A j \in Int : \A v :
                    /\ GainDue(sensor, j, v) /\ j >= sensor.last
                    /\ j < sensor.last + GainDelay
                       \/ (j <= sensor.last + GainDelay /\ ~AtOnce(sensor, target))
                    => GainDue(t, j, v)
<1> DEFINE s == Exposed(n, target, r)
           L == sensor.last
           Soon(j) == j >= L /\ (j < L + GainDelay
                                 \/ (j <= L + GainDelay /\ ~AtOnce(sensor, target)))
           P(t) == /\ MapTidy(t) /\ SensorOK(t) /\ t.last = L
                   /\ L < 0 \/ GainDue(sensor, L + GainDelay, sensor.expReg)
                        => GainDue(t, t.last + GainDelay, t.expReg)
                   /\ L >= 0 => \A j \in Int : \A v : GainDue(sensor, j, v) /\ Soon(j)
                                    => GainDue(t, j, v)
           I == {m \in 0 .. n : P(s[m])}
<1>1. /\ s[0] = UpdateSensorExposure(sensor, target, r)
      /\ \A m \in 0 .. n - 1 : s[m + 1] = UpdateSensorExposure(s[m], NoSeq, r)
  BY ExposedSteps
<1> HIDE DEF s
<1>0. L \in Int /\ GainDelay \in Nat
  BY LagTypes, AheadTypes
<1>2. P(s[0])
  <2>1. MapTidy(s[0])
    BY <1>1, UpdateTidy
  <2>2. SensorOK(s[0]) /\ s[0].last = L
    BY <1>1, UpdateKeepsSensor
  <2>3. L < 0 \/ GainDue(sensor, L + GainDelay, sensor.expReg)
           => GainDue(s[0], s[0].last + GainDelay, s[0].expReg)
    BY <1>1, UpdateDue
  <2>4. L >= 0 => \A j \in Int : \A v : GainDue(sensor, j, v) /\ Soon(j) => GainDue(s[0], j, v)
    BY <1>1, UpdateDue
  <2>5. QED
    BY <2>1, <2>2, <2>3, <2>4
<1>3. ASSUME NEW m \in 0 .. n - 1, P(s[m]) PROVE P(s[m + 1])
  <2> DEFINE t == s[m]  u == s[m + 1]
  <2>1. u = UpdateSensorExposure(t, NoSeq, r)
    BY <1>1, <1>3
  <2>2. MapTidy(t) /\ SensorOK(t) /\ t.last = L
    BY <1>3
  <2>3. L < 0 \/ GainDue(sensor, L + GainDelay, sensor.expReg)
           => GainDue(t, t.last + GainDelay, t.expReg)
    BY <1>3
  <2>4. L >= 0 => \A j \in Int : \A v : GainDue(sensor, j, v) /\ Soon(j) => GainDue(t, j, v)
    BY <1>3
  <2> HIDE DEF t, u
  <2>5. MapTidy(u) /\ SensorOK(u) /\ u.last = L
    BY <2>1, <2>2, UpdateTidy, UpdateKeepsSensor
  <2>6. L < 0 \/ GainDue(sensor, L + GainDelay, sensor.expReg)
           => GainDue(u, u.last + GainDelay, u.expReg)
    BY <2>1, <2>2, <2>3, UpdateDue
  <2>7. ASSUME L >= 0, NEW j \in Int, NEW v, GainDue(sensor, j, v), Soon(j)
        PROVE  GainDue(u, j, v)
    <3>1. GainDue(t, j, v)
      BY <2>4, <2>7
    <3>2. j <= L + GainDelay /\ j >= L
      BY <1>0, <2>7
    <3>3. ~AtOnce(t, NoSeq)
      BY <1>0, <2>2, <2>7 DEF AtOnce, NoSeq
    <3>4. QED
      BY <2>1, <2>2, <2>7, <3>1, <3>2, <3>3, UpdateDue
  <2>8. QED
    BY <2>5, <2>6, <2>7 DEF u
<1>4. \A m \in 0 .. n : m \in I
  <2>1. 0 \in I
    BY <1>2
  <2>2. \A m \in 0 .. n - 1 : m \in I => m + 1 \in I
    <3>1. ASSUME NEW m \in 0 .. n - 1, m \in I PROVE m + 1 \in I
      <4>1. P(s[m])
        BY <3>1
      <4>2. P(s[m + 1])
        BY <1>3, <4>1
      <4>3. m + 1 \in 0 .. n
        OBVIOUS
      <4> HIDE DEF P
      <4>4. QED
        BY <4>2, <4>3
    <3>2. QED
      BY <3>1
  <2> HIDE DEF I
  <2>3. QED
    BY <2>1, <2>2, AllSteps
<1>5. P(s[i])
  BY <1>4
<1>6. QED
  BY <1>5 DEF s

LEMMA UndisturbedRun ==
    ASSUME SensorInv, StartInv, TidyInv, RunBegin, Undisturbed'
    PROVE  /\ Undisturbed /\ ~(pending /\ AtOnce(sensor, Target))
           /\ UNCHANGED <<sof, pending, expOf, gainOf>> /\ runs' = runs + 1
           /\ \/ \E n \in Nat : DoneAfter(n)
              \/ sensor' = sensor /\ ~mFirstAiqRunning /\ run'.pub = <<>>
                 /\ run'.at = "wait" /\ ~mAiqRunningForPerframe
<1>1. Undisturbed /\ errors' = errors
  <2>1. Next /\ ~Reset
    <3>1. Reset => runs' = 0
      BY DEF Reset
    <3>2. runs' = runs + 1 /\ runs \in Nat
      BY RunCases DEF SensorInv
    <3>3. QED
      BY <3>1, <3>2 DEF Next
  <2>2. QED
    BY <2>1, StillUndisturbed
<1>2. ~(pending /\ AtOnce(sensor, Target))
  <2>1. raced' = (raced \/ (pending /\ AtOnce(sensor, Target)))
    BY RunCases
  <2>2. ~raced'
    BY DEF Undisturbed
  <2>3. QED
    BY <2>1, <2>2, Zenon
<1>3. UNCHANGED <<sof, pending, expOf, gainOf>> /\ runs' = runs + 1
  BY RunCases DEF frames
<1>4. ~(errors' = errors + 1)
  BY <1>1 DEF SensorInv
<1>5. \/ \E switch \in BOOLEAN : DoneAfter(SkippingNum(switch))
      \/ sensor' = sensor /\ ~mFirstAiqRunning /\ run'.pub = <<>>
         /\ run'.at = "wait" /\ ~mAiqRunningForPerframe
  BY <1>4, RunCases
<1>6. (\E switch \in BOOLEAN : DoneAfter(SkippingNum(switch))) => \E n \in Nat : DoneAfter(n)
  BY SkipsNat
<1>7. QED
  BY <1>1, <1>2, <1>3, <1>5, <1>6

LEMMA TidyInit == Init => TidyInv /\ GainInv
<1> SUFFICES ASSUME Init PROVE TidyInv /\ GainInv
  OBVIOUS
<1>1. /\ sensor = FreshSensor /\ sof = NoSeq /\ pending = FALSE /\ runs = 0
      /\ expOf = <<>> /\ gainOf = <<>>
  BY DEF Init
<1>2. sensor.exp = <<>> /\ sensor.gain = <<>> /\ sensor.last = NoSeq
  BY <1>1 DEF FreshSensor
<1>3. Size(sensor.exp) = 0
  BY <1>2, FS_EmptySet DEF Size
<1>4. MapTidy(sensor)
  BY <1>2, <1>3 DEF MapTidy, NoSeq
<1>5. QED
  BY <1>1, <1>2, <1>4 DEF TidyInv, GainInv

LEMMA ResetTidy ==
    ASSUME SensorInv, Reset
    PROVE  TidyInv' /\ GainInv'
<1>1. /\ sensor' = [FreshSensor EXCEPT !.expReg = sensor.expReg, !.gainReg = sensor.gainReg]
      /\ sof' = NoSeq /\ ~pending /\ UNCHANGED pending /\ expOf' = <<>> /\ gainOf' = <<>>
      /\ runs' = 0
  BY DEF Reset
<1>2. sensor'.exp = <<>> /\ sensor'.gain = <<>> /\ sensor'.last = NoSeq
  BY <1>1 DEF FreshSensor
<1>3. Size(sensor'.exp) = 0
  BY <1>2, FS_EmptySet DEF Size
<1>4. MapTidy(sensor')
  BY <1>2, <1>3 DEF MapTidy, NoSeq
<1>5. MapTidy(sensor)'
  BY <1>4 DEF MapTidy, Size
<1>6. TidyInv'
  BY <1>1, <1>2, <1>5 DEF TidyInv
<1>7. QED
  BY <1>1, <1>6 DEF GainInv

LEMMA TidyStep == SensorInv /\ StartInv /\ TidyInv /\ [Next]_vars => TidyInv'
<1> SUFFICES ASSUME SensorInv, StartInv, TidyInv, [Next]_vars, ~Reset, Undisturbed'
             PROVE  /\ MapTidy(sensor')
                    /\ sensor'.last = IF pending' THEN sof' - 1 ELSE sof'
                    /\ DOMAIN expOf' = IF sof' = NoSeq THEN {} ELSE 0 .. sof' - 1 + ExposureLag
                    /\ DOMAIN gainOf' = IF sof' = NoSeq THEN {} ELSE 0 .. sof' - 1 + GainLag
  <2>1. MapTidy(sensor)' <=> MapTidy(sensor')
    BY DEF MapTidy, Size
  <2>2. QED
    BY <2>1, ResetTidy DEF TidyInv
<1>0. /\ sof \in Int /\ sof >= NoSeq /\ SensorOK(sensor) /\ pending \in BOOLEAN
      /\ ExposureLag \in Nat /\ GainLag \in Nat /\ sensor.last \in Int /\ sensor.last >= NoSeq
      /\ ExposureLag >= 1 /\ GainLag >= 1
  BY LagTypes, AheadTypes DEF SensorInv, StartInv
<1>1. CASE UNCHANGED vars
  BY <1>1 DEF vars, frames, counts, TidyInv, Undisturbed
<1> SUFFICES ASSUME Next
             PROVE  /\ MapTidy(sensor')
                    /\ sensor'.last = IF pending' THEN sof' - 1 ELSE sof'
                    /\ DOMAIN expOf' = IF sof' = NoSeq THEN {} ELSE 0 .. sof' - 1 + ExposureLag
                    /\ DOMAIN gainOf' = IF sof' = NoSeq THEN {} ELSE 0 .. sof' - 1 + GainLag
  BY <1>1
<1>2. Undisturbed /\ ~LostSof
  BY StillUndisturbed
<1>3. /\ MapTidy(sensor)
      /\ sensor.last = IF pending THEN sof - 1 ELSE sof
      /\ DOMAIN expOf = IF sof = NoSeq THEN {} ELSE 0 .. sof - 1 + ExposureLag
      /\ DOMAIN gainOf = IF sof = NoSeq THEN {} ELSE 0 .. sof - 1 + GainLag
  BY <1>2 DEF TidyInv
<1>4. CASE HardwareSof
  <2>1. /\ ~pending /\ sof' = sof + 1 /\ pending' = TRUE /\ sensor' = sensor
        /\ expOf' = Latch(expOf, sof + 1, ExposureLag, sensor.expReg)
        /\ gainOf' = Latch(gainOf, sof + 1, GainLag, sensor.gainReg)
    BY <1>4 DEF HardwareSof
  <2>2. sof' \in Nat /\ sof' # NoSeq
    BY <1>0, <2>1 DEF NoSeq
  <2>3. DOMAIN expOf' = 0 .. sof' - 1 + ExposureLag /\ DOMAIN gainOf' = 0 .. sof' - 1 + GainLag
    <3>1. CASE sof = NoSeq
      <4>1. sof' = 0 /\ sof + 1 = 0
        BY <2>1, <3>1 DEF NoSeq
      <4>2. expOf' = Latch(expOf, 0, ExposureLag, sensor.expReg)
            /\ gainOf' = Latch(gainOf, 0, GainLag, sensor.gainReg)
        BY <2>1, <4>1
      <4>3. DOMAIN expOf' = 0 .. ExposureLag - 1 /\ DOMAIN gainOf' = 0 .. GainLag - 1
        BY <1>0, <4>2, LatchFirst
      <4>4. QED
        BY <1>0, <4>1, <4>3
    <3>2. CASE sof # NoSeq
      <4>1. sof \in Nat /\ sof + 1 \in Nat \ {0}
        BY <1>0, <3>2 DEF NoSeq
      <4>2. expOf' = Put(expOf, sof + 1 - 1 + ExposureLag, sensor.expReg)
            /\ gainOf' = Put(gainOf, sof + 1 - 1 + GainLag, sensor.gainReg)
        BY <1>0, <2>1, <4>1, LatchNext
      <4>3. DOMAIN Put(expOf, sof + 1 - 1 + ExposureLag, sensor.expReg)
              = DOMAIN expOf \cup {sof + 1 - 1 + ExposureLag}
        BY PutIs
      <4>4. DOMAIN Put(gainOf, sof + 1 - 1 + GainLag, sensor.gainReg)
              = DOMAIN gainOf \cup {sof + 1 - 1 + GainLag}
        BY PutIs
      <4>5. (0 .. sof - 1 + ExposureLag) \cup {sof + 1 - 1 + ExposureLag} = 0 .. sof + ExposureLag
        BY <1>0, <4>1
      <4>6. (0 .. sof - 1 + GainLag) \cup {sof + 1 - 1 + GainLag} = 0 .. sof + GainLag
        BY <1>0, <4>1
      <4>7. sof' - 1 = sof
        BY <1>0, <2>1
      <4>8. QED
        BY <1>3, <3>2, <4>2, <4>3, <4>4, <4>5, <4>6, <4>7
    <3>3. QED
      BY <3>1, <3>2
  <2>4. sensor'.last = sof' - 1
    BY <1>0, <1>3, <2>1
  <2>5. QED
    BY <1>3, <2>1, <2>2, <2>3, <2>4
<1>5. CASE Sof
  <2>1. /\ pending /\ pending' = FALSE /\ sensor' = HandleSofEvent(sensor, sof)
        /\ UNCHANGED <<sof, expOf, gainOf>>
    BY <1>5 DEF Sof
  <2>2. sof = sensor.last + 1
    BY <1>0, <1>3, <2>1
  <2>3. MapTidy(sensor') /\ sensor'.last = sensor.last + 1
    BY <1>0, <1>3, <2>1, <2>2, SofTidy
  <2>4. QED
    BY <1>3, <2>1, <2>2, <2>3
<1>6. CASE RunBegin
  <2>1. UNCHANGED <<sof, pending, expOf, gainOf>>
    BY <1>6, UndisturbedRun
  <2>2. sensor'.last = sensor.last
    BY <1>6, RunKeepsSensor
  <2>3. MapTidy(sensor')
    <3>1. CASE sensor' = sensor
      BY <1>3, <3>1
    <3>2. CASE \E n \in Nat : DoneAfter(n)
      <4>1. PICK n \in Nat : DoneAfter(n)
        BY <3>2
      <4>2. sensor' = Exposed(n, Target, ThisRun)[n] /\ n \in 0 .. n
        BY <4>1 DEF DoneAfter
      <4>3. QED
        BY <1>0, <1>3, <4>2, ExposedTidy
    <3>3. QED
      BY <1>6, <3>1, <3>2, UndisturbedRun
  <2>4. QED
    BY <1>3, <2>1, <2>2, <2>3
<1>7. CASE SofToRequestThread \/ AcquireAiqStatistics \/ UpdateAiqStatistics \/ PickFor
           \/ UnLockAiqStatistics \/ RunEnd
  <2>1. UNCHANGED <<sensor, sof, pending, expOf, gainOf>>
    BY <1>7 DEF SofToRequestThread, AcquireAiqStatistics, UpdateAiqStatistics, PickFor,
                UnLockAiqStatistics, RunEnd, frames
  <2>2. QED
    BY <1>3, <2>1
<1>8. QED
  BY <1>2, <1>4, <1>5, <1>6, <1>7 DEF Next

(* The gains at the next SOF: the frame after it gets the exposure and the *)
(* gain that are set, each as late as it takes effect.                     *)
LEMMA HardwareGains ==
    ASSUME SensorInv, StartInv, Undisturbed, TidyInv, GainInv, runs >= 1, HardwareSof
    PROVE  \A f \in DOMAIN expOf' :
              /\ f >= sof' + GainLag => GainDue(sensor, f - GainLag, expOf'[f])
              /\ f < sof' + GainLag => expOf'[f] = gainOf'[f]
<1> DEFINE L == sensor.last  D == GainDelay  G == GainLag  E == ExposureLag
<1>0. /\ sof \in Int /\ sof >= NoSeq /\ SensorOK(sensor) /\ L \in Int /\ D \in Nat
      /\ G \in Nat /\ E \in Nat /\ E = G + D /\ G >= 1
  BY LagTypes, AheadTypes DEF SensorInv, StartInv
<1>1. /\ ~pending /\ sof' = sof + 1 /\ sensor' = sensor
      /\ expOf' = Latch(expOf, sof + 1, E, sensor.expReg)
      /\ gainOf' = Latch(gainOf, sof + 1, G, sensor.gainReg)
  BY DEF HardwareSof
<1>2. /\ MapTidy(sensor) /\ L = sof
      /\ DOMAIN expOf = IF sof = NoSeq THEN {} ELSE 0 .. sof - 1 + E
      /\ DOMAIN gainOf = IF sof = NoSeq THEN {} ELSE 0 .. sof - 1 + G
  BY <1>1 DEF TidyInv
<1>3. /\ GainDue(sensor, L + D, sensor.expReg)
      /\ \A f \in DOMAIN expOf :
            /\ f >= sof + G => GainDue(sensor, f - G, expOf[f])
            /\ f < sof + G => expOf[f] = gainOf[f]
  BY DEF GainInv
<1>4. DOMAIN sensor.gain \subseteq Int /\ \A k \in DOMAIN sensor.gain : k > L
  <2>1. Size(sensor.exp) \in Nat
    BY <1>0, AheadTypes
  <2>2. QED
    BY <1>0, <1>2, <2>1 DEF MapTidy
<1>5. ASSUME NEW j \in Int, j <= L, NEW v, GainDue(sensor, j, v)
      PROVE  v = sensor.gainReg
  BY <1>0, <1>4, <1>5 DEF GainDue
<1>6. CASE sof = NoSeq
  <2>1. sof + 1 = 0 /\ sof' = 0
    BY <1>1, <1>6 DEF NoSeq
  <2>2. expOf' = Latch(expOf, 0, E, sensor.expReg) /\ gainOf' = Latch(gainOf, 0, G, sensor.gainReg)
    BY <1>1, <2>1
  <2>3. /\ DOMAIN expOf' = 0 .. E - 1 /\ \A f \in 0 .. E - 1 : expOf'[f] = sensor.expReg
        /\ \A f \in 0 .. G - 1 : gainOf'[f] = sensor.gainReg
    BY <1>0, <2>2, LatchFirst
  <2>4. DOMAIN sensor.gain = {}
    BY <1>0, <1>2, <1>6 DEF SensorOK, NoSeq
  <2>5. sensor.expReg = sensor.gainReg
    BY <1>3, <2>4 DEF GainDue
  <2>6. \A j : GainDue(sensor, j, sensor.expReg)
    BY <2>4, <2>5 DEF GainDue
  <2>7. ASSUME NEW f \in DOMAIN expOf'
        PROVE  /\ f >= sof' + G => GainDue(sensor, f - G, expOf'[f])
               /\ f < sof' + G => expOf'[f] = gainOf'[f]
    <3>1. f \in 0 .. E - 1 /\ expOf'[f] = sensor.expReg
      BY <2>3
    <3>2. GainDue(sensor, f - G, expOf'[f])
      BY <2>6, <3>1
    <3>3. f < sof' + G => f \in 0 .. G - 1
      BY <1>0, <2>1, <3>1
    <3>4. QED
      BY <2>3, <2>5, <3>1, <3>2, <3>3
  <2>8. QED
    BY <2>7
<1>7. CASE sof # NoSeq
  <2>1. sof \in Nat /\ sof + 1 \in Nat \ {0} /\ sof + 1 - 1 + E = sof + E /\ sof + 1 - 1 + G = sof + G
    BY <1>0, <1>7 DEF NoSeq
  <2>2. expOf' = Put(expOf, sof + E, sensor.expReg)
    <3>1. Latch(expOf, sof + 1, E, sensor.expReg) = Put(expOf, sof + 1 - 1 + E, sensor.expReg)
      BY <1>0, <2>1, LatchNext
    <3>2. QED
      BY <1>1, <2>1, <3>1
  <2>3. gainOf' = Put(gainOf, sof + G, sensor.gainReg)
    <3>1. Latch(gainOf, sof + 1, G, sensor.gainReg) = Put(gainOf, sof + 1 - 1 + G, sensor.gainReg)
      BY <1>0, <2>1, LatchNext
    <3>2. QED
      BY <1>1, <2>1, <3>1
  <2>4. DOMAIN expOf' = DOMAIN expOf \cup {sof + E}
    <3>1. DOMAIN Put(expOf, sof + E, sensor.expReg) = DOMAIN expOf \cup {sof + E}
      BY PutIs
    <3>2. QED
      BY <2>2, <3>1
  <2>5. expOf'[sof + E] = sensor.expReg /\ \A f \in DOMAIN expOf : f # sof + E => expOf'[f] = expOf[f]
    <3>1. /\ Put(expOf, sof + E, sensor.expReg)[sof + E] = sensor.expReg
          /\ \A f \in DOMAIN expOf : f # sof + E => Put(expOf, sof + E, sensor.expReg)[f] = expOf[f]
      BY PutValues
    <3>2. QED
      BY <2>2, <3>1
  <2>6. /\ gainOf'[sof + G] = sensor.gainReg
        /\ \A f \in DOMAIN gainOf : f # sof + G => gainOf'[f] = gainOf[f]
    <3>1. /\ Put(gainOf, sof + G, sensor.gainReg)[sof + G] = sensor.gainReg
          /\ \A f \in DOMAIN gainOf : f # sof + G => Put(gainOf, sof + G, sensor.gainReg)[f] = gainOf[f]
      BY PutValues
    <3>2. QED
      BY <2>3, <3>1
  <2>7. ASSUME NEW f \in DOMAIN expOf'
        PROVE  /\ f >= sof' + G => GainDue(sensor, f - G, expOf'[f])
               /\ f < sof' + G => expOf'[f] = gainOf'[f]
    <3>0. f \in Int
      BY <1>0, <1>2, <1>7, <2>4
    <3>1. CASE f = sof + E
      <4>1. f - G = L + D /\ expOf'[f] = sensor.expReg
        BY <1>0, <1>2, <2>5, <3>1
      <4>2. GainDue(sensor, f - G, expOf'[f])
        BY <1>3, <4>1
      <4>3. ASSUME f < sof' + G PROVE expOf'[f] = gainOf'[f]
        <5>1. D = 0 /\ f = sof + G
          BY <1>0, <1>1, <3>1, <4>3
        <5>2. f - G \in Int /\ f - G <= L
          BY <1>0, <4>1, <5>1
        <5>3. expOf'[f] = sensor.gainReg
          BY <1>5, <4>2, <5>2
        <5>4. QED
          BY <2>6, <5>1, <5>3
      <4>4. QED
        BY <4>2, <4>3
    <3>2. CASE f # sof + E
      <4>1. f \in DOMAIN expOf /\ expOf'[f] = expOf[f]
        BY <2>4, <2>5, <3>2
      <4>2. CASE f >= sof + G
        <5>1. GainDue(sensor, f - G, expOf'[f])
          BY <1>3, <4>1, <4>2
        <5>2. ASSUME f < sof' + G PROVE expOf'[f] = gainOf'[f]
          <6>1. f = sof + G
            BY <1>0, <1>1, <3>0, <4>2, <5>2
          <6>2. f - G \in Int /\ f - G <= L
            BY <1>0, <1>2, <6>1
          <6>3. expOf'[f] = sensor.gainReg
            BY <1>5, <5>1, <6>2
          <6>4. QED
            BY <2>6, <6>1, <6>3
        <5>3. QED
          BY <5>1, <5>2
      <4>3. CASE f < sof + G
        <5>1. expOf'[f] = gainOf[f] /\ f # sof + G
          BY <1>0, <1>3, <3>0, <4>1, <4>3
        <5>2. f \in DOMAIN gainOf
          BY <1>0, <1>2, <1>7, <3>0, <4>1, <4>3
        <5>3. gainOf'[f] = gainOf[f]
          BY <2>6, <5>1, <5>2
        <5>4. ~(f >= sof' + G)
          BY <1>0, <1>1, <3>0, <4>3
        <5>5. QED
          BY <5>1, <5>3, <5>4
      <4>4. QED
        BY <1>0, <3>0, <4>2, <4>3
    <3>3. QED
      BY <3>1, <3>2
  <2>8. QED
    BY <2>7
<1>8. QED
  BY <1>6, <1>7

LEMMA GainStep == SensorInv /\ StartInv /\ TidyInv /\ GainInv /\ [Next]_vars => GainInv'
<1> SUFFICES ASSUME SensorInv, StartInv, TidyInv, GainInv, [Next]_vars, ~Reset,
                    Undisturbed', runs' >= 1
             PROVE  /\ GainDue(sensor', sensor'.last + GainDelay, sensor'.expReg)
                    /\ \A f \in DOMAIN expOf' :
                          /\ f >= sof' + GainLag => GainDue(sensor', f - GainLag, expOf'[f])
                          /\ f < sof' + GainLag => expOf'[f] = gainOf'[f]
  <2>1. \A j, v : GainDue(sensor, j, v)' <=> GainDue(sensor', j, v)
    BY DEF GainDue
  <2>2. GainDelay' = GainDelay
    BY DEF GainDelay
  <2>3. QED
    BY <2>2, ResetTidy DEF GainInv, GainDue
<1>0. /\ sof \in Int /\ sof >= NoSeq /\ SensorOK(sensor) /\ pending \in BOOLEAN /\ runs \in Nat
      /\ ExposureLag \in Nat /\ GainLag \in Nat /\ sensor.last \in Int /\ sensor.last >= NoSeq
      /\ GainDelay \in Nat /\ ExposureLag = GainLag + GainDelay
  BY LagTypes, AheadTypes DEF SensorInv, StartInv
<1>1. CASE UNCHANGED vars
  BY <1>1 DEF vars, frames, counts, GainInv, Undisturbed, GainDue
<1> SUFFICES ASSUME Next
             PROVE  /\ GainDue(sensor', sensor'.last + GainDelay, sensor'.expReg)
                    /\ \A f \in DOMAIN expOf' :
                          /\ f >= sof' + GainLag => GainDue(sensor', f - GainLag, expOf'[f])
                          /\ f < sof' + GainLag => expOf'[f] = gainOf'[f]
  BY <1>1
<1>2. Undisturbed /\ ~LostSof
  BY StillUndisturbed
<1>3. /\ MapTidy(sensor)
      /\ sensor.last = IF pending THEN sof - 1 ELSE sof
      /\ DOMAIN expOf = IF sof = NoSeq THEN {} ELSE 0 .. sof - 1 + ExposureLag
  BY <1>2 DEF TidyInv
<1>4. runs >= 1 =>
        /\ GainDue(sensor, sensor.last + GainDelay, sensor.expReg)
        /\ \A f \in DOMAIN expOf :
              /\ f >= sof + GainLag => GainDue(sensor, f - GainLag, expOf[f])
              /\ f < sof + GainLag => expOf[f] = gainOf[f]
  BY <1>2 DEF GainInv
<1>5. CASE HardwareSof
  <2>1. sensor' = sensor /\ runs' = runs
    BY <1>5 DEF HardwareSof
  <2>2. runs >= 1
    BY <2>1
  <2>3. QED
    BY <1>2, <1>4, <1>5, <2>1, <2>2, HardwareGains
<1>6. CASE Sof
  <2>1. /\ pending /\ sensor' = HandleSofEvent(sensor, sof) /\ UNCHANGED <<sof, expOf, gainOf, runs>>
    BY <1>6 DEF Sof
  <2>2. sof = sensor.last + 1 /\ runs >= 1
    BY <1>0, <1>3, <2>1
  <2>3. GainDue(sensor', sensor'.last + GainDelay, sensor'.expReg)
    BY <1>0, <1>3, <1>4, <2>1, <2>2, SofDueNow
  <2>4. ASSUME NEW f \in DOMAIN expOf', f >= sof + GainLag
        PROVE  GainDue(sensor', f - GainLag, expOf'[f])
    <3>1. f \in DOMAIN expOf /\ expOf'[f] = expOf[f]
      BY <2>1, <2>4
    <3>2. f \in Int
      BY <1>0, <1>3, <3>1
    <3>3. GainDue(sensor, f - GainLag, expOf[f])
      BY <1>4, <2>2, <2>4, <3>1
    <3>4. f - GainLag \in Int /\ f - GainLag >= sensor.last + 1
      BY <1>0, <2>2, <2>4, <3>2
    <3>5. QED
      BY <1>0, <1>3, <2>1, <2>2, <3>1, <3>3, <3>4, SofDue
  <2>5. QED
    BY <1>4, <2>1, <2>2, <2>3, <2>4
<1>7. CASE RunBegin
  <2>1. /\ ~(pending /\ AtOnce(sensor, Target)) /\ UNCHANGED <<sof, pending, expOf, gainOf>>
        /\ runs' = runs + 1
    BY <1>7, UndisturbedRun
  <2>2. CASE sensor' = sensor /\ ~mFirstAiqRunning
    <3>1. runs >= 1
      BY <1>0, <2>2 DEF StartInv
    <3>2. QED
      BY <1>4, <2>1, <2>2, <3>1
  <2>3. CASE \E n \in Nat : DoneAfter(n)
    <3>1. PICK n \in Nat : DoneAfter(n)
      BY <2>3
    <3>2. sensor' = Exposed(n, Target, ThisRun)[n] /\ n \in 0 .. n
      BY <3>1 DEF DoneAfter
    <3>3. sensor.last < 0 => sof = NoSeq
      BY <1>0, <1>3, <2>1 DEF AtOnce, NoSeq
    <3>4. runs = 0 => sof = NoSeq /\ sensor.last < 0
      <4>1. runs = 0 => sof = NoSeq
        BY DEF StartInv
      <4>2. sof = NoSeq => sensor.last < 0
        BY <1>0, <1>3 DEF NoSeq
      <4>3. QED
        BY <4>1, <4>2
    <3>5. sensor.last < 0 \/ GainDue(sensor, sensor.last + GainDelay, sensor.expReg)
      BY <1>0, <1>4, <3>4
    <3>6. GainDue(sensor', sensor'.last + GainDelay, sensor'.expReg)
      BY <1>0, <1>3, <3>2, <3>5, ExposedTidy
    <3>7. ASSUME NEW f \in DOMAIN expOf
          PROVE  /\ f >= sof + GainLag => GainDue(sensor', f - GainLag, expOf[f])
                 /\ f < sof + GainLag => expOf[f] = gainOf[f]
      <4>1. sof # NoSeq
        BY <1>3, <3>7
      <4>2. runs >= 1 /\ sensor.last >= 0 /\ f \in Int /\ f <= sof - 1 + ExposureLag
        BY <1>0, <1>3, <3>3, <3>4, <3>7, <4>1
      <4>3. /\ f >= sof + GainLag => GainDue(sensor, f - GainLag, expOf[f])
            /\ f < sof + GainLag => expOf[f] = gainOf[f]
        BY <1>4, <4>2
      <4>4. ASSUME f >= sof + GainLag
            PROVE  GainDue(sensor', f - GainLag, expOf[f])
        <5>1. GainDue(sensor, f - GainLag, expOf[f])
          BY <4>3, <4>4
        <5>2. f - GainLag \in Int /\ f - GainLag >= sensor.last
          BY <1>0, <1>3, <4>2, <4>4
        <5>3. f - GainLag < sensor.last + GainDelay
              \/ (f - GainLag <= sensor.last + GainDelay /\ ~AtOnce(sensor, Target))
          <6>1. CASE pending
            BY <1>0, <1>3, <2>1, <4>2, <6>1
          <6>2. CASE ~pending
            BY <1>0, <1>3, <4>2, <6>2
          <6>3. QED
            BY <6>1, <6>2
        <5> DEFINE j == f - GainLag
        <5>4. j \in Int /\ GainDue(sensor, j, expOf[f]) /\ j >= sensor.last
              /\ (j < sensor.last + GainDelay
                  \/ (j <= sensor.last + GainDelay /\ ~AtOnce(sensor, Target)))
          BY <5>1, <5>2, <5>3
        <5> HIDE DEF j
        <5>5. GainDue(sensor', j, expOf[f])
          BY <1>0, <1>3, <3>2, <4>2, <5>4, ExposedTidy
        <5>6. QED
          BY <5>5 DEF j
      <4>5. QED
        BY <4>3, <4>4
    <3>8. QED
      BY <2>1, <3>6, <3>7
  <2>4. QED
    BY <1>7, <2>2, <2>3, UndisturbedRun
<1>8. CASE SofToRequestThread \/ AcquireAiqStatistics \/ UpdateAiqStatistics \/ PickFor
           \/ UnLockAiqStatistics \/ RunEnd
  <2>1. UNCHANGED <<sensor, sof, expOf, gainOf, runs>>
    BY <1>8 DEF SofToRequestThread, AcquireAiqStatistics, UpdateAiqStatistics, PickFor,
                UnLockAiqStatistics, RunEnd, frames
  <2>2. QED
    BY <1>4, <2>1
<1>9. QED
  BY <1>2, <1>5, <1>6, <1>7, <1>8 DEF Next

LEMMA GainInductive == Spec => [](StartInv /\ TidyInv /\ GainInv)
<1>1. SensorInv /\ StartInv /\ TidyInv /\ GainInv /\ [Next]_vars
        => (StartInv /\ TidyInv /\ GainInv)'
  BY StartStep, TidyStep, GainStep
<1>2. Init => StartInv /\ TidyInv /\ GainInv
  BY StartInit, TidyInit
<1>3. QED
  BY <1>1, <1>2, SensorInductive, PTL DEF Spec

(* A frame has its exposure and its gain from the same run of 3A, whatever *)
(* lags the sensor has, as long as no SOF is lost, no run fails half way   *)
(* and no setting is written too late: updateSensorExposure keys the gains *)
(* later by the difference of the lags.                                    *)
THEOREM GainsWithExposure == Spec => []GainsMatchExposure
<1>1. SensorInv /\ StartInv /\ TidyInv /\ GainInv => GainsMatchExposure
  <2> SUFFICES ASSUME SensorInv, StartInv, TidyInv, GainInv, Undisturbed,
                      NEW f \in DOMAIN expOf, f \in DOMAIN gainOf
               PROVE  expOf[f] = gainOf[f]
    BY DEF GainsMatchExposure
  <2>1. DOMAIN gainOf = IF sof = NoSeq THEN {} ELSE 0 .. sof - 1 + GainLag
    BY DEF TidyInv
  <2>2. sof # NoSeq /\ f \in 0 .. sof - 1 + GainLag
    BY <2>1
  <2>3. runs \in Nat /\ sof \in Int /\ GainLag \in Nat
    BY LagTypes DEF SensorInv
  <2>4. runs >= 1 /\ f < sof + GainLag
    BY <2>2, <2>3 DEF StartInv
  <2>5. QED
    BY <2>4 DEF GainInv
<1>2. QED
  BY <1>1, GainInductive, SensorInductive, PTL

-----------------------------------------------------------------------------
(* The run whose exposure a frame has, or will have.                       *)

(* The run whose exposure is set once SOF j is over.                       *)
Due(s, j) ==
    IF j <= s.last \/ Size(s.exp) = 0 THEN s.expReg
    ELSE IF j <= s.last + Size(s.exp) THEN s.exp[j] ELSE s.exp[s.last + Size(s.exp)]

FrameRun(f) == IF f \in DOMAIN expOf THEN expOf[f] ELSE Due(sensor, f - ExposureLag)

(* The results published and those about to be, oldest first.              *)
Published == results \o run.pub

(* The i-th of them is the newest that is not for a later frame than f.    *)
Fits(q, i, f) ==
    /\ q[i].seq >= 0 /\ q[i].seq <= f
    /\ \A j \in 1 .. Len(q) : j > i => q[j].seq < 0 \/ q[j].seq > f

FrameInv ==
    Undisturbed /\ runs >= 1 =>
        \A f \in Nat : \A i \in 1 .. Len(Published) :
            Fits(Published, i, f) => FrameRun(f) = Published[i].run

(* With per-frame control the settings waiting reach no further than was   *)
(* reported, and those of a request that is for an SOF come after them.    *)
ReachInv ==
    /\ reqSof \in Int /\ applying \in Int
    /\ mAiqRunningForPerframe /\ Undisturbed =>
          /\ run # NoRun => run.at \in {"done", "ran"}
          /\ run = NoRun /\ Size(sensor.exp) > 0 =>
                /\ sensor.last + Size(sensor.exp) + ExposureLag <= lastEffect
                /\ applying # NoSeq => sensor.last + Size(sensor.exp) < applying

(* An update changes what is due from its own SOF on.                      *)
LEMMA UpdateSets ==
    ASSUME NEW s, SensorOK(s), MapTidy(s), NEW target, NEW r, s.last >= 0, ~AtOnce(s, target),
           NEW t, t = UpdateSensorExposure(s, target, r), NEW j \in Int
    PROVE  /\ j > s.last + Size(s.exp) => Due(t, j) = r
           /\ j <= s.last + Size(s.exp) => Due(t, j) = Due(s, j)
           /\ t.last = s.last /\ Size(t.exp) = Size(s.exp) + 1
<1> DEFINE N == Size(s.exp)  L == s.last  key == L + N + 1
<1>1. L \in Int /\ N \in Nat /\ t.last = L /\ DOMAIN s.exp = L + 1 .. L + N
  BY AheadTypes, UpdateKeepsSensor DEF MapTidy
<1>2. t.exp = Put(s.exp, key, r) /\ t.expReg = s.expReg
  BY Updated DEF SensorSeq
<1>3. /\ t.exp[key] = r
      /\ \A k \in DOMAIN s.exp : k # key => t.exp[k] = s.exp[k]
  <2>1. /\ Put(s.exp, key, r)[key] = r
        /\ \A k \in DOMAIN s.exp : k # key => Put(s.exp, key, r)[k] = s.exp[k]
    BY PutValues
  <2>2. QED
    BY <1>2, <2>1
<1>4. Size(t.exp) = N + 1
  <2>1. IsFiniteSet(DOMAIN s.exp) /\ key \notin DOMAIN s.exp
    BY <1>1 DEF SensorOK
  <2>2. Size(Put(s.exp, key, r)) = N + 1
    BY <2>1, PutSize
  <2>3. QED
    BY <1>2, <2>2
<1>5. Due(t, j) = IF j <= L THEN s.expReg
                  ELSE IF j <= key THEN t.exp[j] ELSE t.exp[key]
  <2>1. L + (N + 1) = key /\ N + 1 # 0
    BY <1>1
  <2>2. QED
    BY <1>1, <1>2, <1>4, <2>1 DEF Due
<1>6. CASE j > L + N
  <2>1. ~(j <= L) /\ (j <= key => j = key)
    BY <1>1, <1>6
  <2>2. Due(t, j) = r
    BY <1>3, <1>5, <2>1
  <2>3. QED
    BY <1>1, <1>4, <1>6, <2>2
<1>7. CASE j <= L + N
  <2>1. CASE j <= L
    BY <1>1, <1>4, <1>5, <1>7, <2>1 DEF Due
  <2>2. CASE j > L
    <3>1. j \in DOMAIN s.exp /\ j # key /\ j <= key /\ N # 0 /\ ~(j <= L)
      BY <1>1, <1>7, <2>2
    <3>2. t.exp[j] = s.exp[j]
      BY <1>3, <3>1
    <3>3. Due(t, j) = s.exp[j]
      BY <1>5, <3>1, <3>2
    <3>4. Due(s, j) = s.exp[j]
      BY <1>7, <3>1 DEF Due
    <3>5. QED
      BY <1>1, <1>4, <1>7, <3>3, <3>4
  <2>3. QED
    BY <1>1, <2>1, <2>2
<1>8. QED
  BY <1>1, <1>6, <1>7

(* Before the first SOF, or at once with nothing waiting, all is due now.  *)
LEMMA UpdateSetsNow ==
    ASSUME NEW s, SensorOK(s), NEW target, NEW r, s.last < 0 \/ AtOnce(s, target),
           Size(s.exp) = 0, NEW t, t = UpdateSensorExposure(s, target, r), NEW j
    PROVE  Due(t, j) = r /\ t.last = s.last /\ Size(t.exp) = 0
<1>1. t.last = s.last /\ s.last \in Int
  BY UpdateKeepsSensor, AheadTypes
<1>2. t.exp = s.exp /\ t.expReg = r
  BY <1>1, Updated
<1>3. Size(t.exp) = 0
  BY <1>2
<1>4. QED
  BY <1>1, <1>2, <1>3 DEF Due

(* All the updates of one run together: what was due before the first of   *)
(* them still is, and the run's own from there on.                         *)
LEMMA ExposedSets ==
    ASSUME SensorOK(sensor), MapTidy(sensor), NEW n \in Nat, NEW target, NEW r,
           sensor.last < 0 \/ AtOnce(sensor, target) => Size(sensor.exp) = 0
    PROVE  LET s == Exposed(n, target, r)
               from == sensor.last + Size(s[0].exp)
           IN  /\ \A j \in Int : sensor.last < 0 \/ j >= from => Due(s[n], j) = r
               /\ sensor.last >= 0 => \A j \in Int : j >= sensor.last /\ j < from
                                          => Due(s[n], j) = Due(sensor, j)
               /\ \A i \in 0 .. n : AheadOf(s[0]) <= AheadOf(s[i])
               /\ sensor.last >= 0 => AheadOf(s[0]) = from + ExposureLag
               /\ sensor.last >= 0 /\ ~AtOnce(sensor, target) => from > sensor.last
               /\ from \in Int
<1> DEFINE s == Exposed(n, target, r)
           L == sensor.last
           from == L + Size(s[0].exp)
           P(t) == /\ MapTidy(t) /\ SensorOK(t) /\ t.last = L
                   /\ L < 0 => Size(t.exp) = 0
                   /\ Size(t.exp) >= Size(s[0].exp)
                   /\ \A j \in Int : L < 0 \/ j >= from => Due(t, j) = r
                   /\ L >= 0 => \A j \in Int : j >= L /\ j < from => Due(t, j) = Due(sensor, j)
           I == {m \in 0 .. n : P(s[m])}
<1>1. /\ s[0] = UpdateSensorExposure(sensor, target, r)
      /\ \A m \in 0 .. n - 1 : s[m + 1] = UpdateSensorExposure(s[m], NoSeq, r)
  BY ExposedSteps
<1>0. L \in Int /\ Size(sensor.exp) \in Nat /\ ExposureLag \in Nat /\ L >= NoSeq
  BY LagTypes, AheadTypes
<1> HIDE DEF s
<1>2. MapTidy(s[0]) /\ SensorOK(s[0]) /\ s[0].last = L /\ Size(s[0].exp) \in Nat
  <2>1. MapTidy(s[0]) /\ SensorOK(s[0]) /\ s[0].last = L
    BY <1>1, UpdateTidy, UpdateKeepsSensor
  <2>2. Size(s[0].exp) \in Nat
    BY <2>1, AheadTypes
  <2>3. QED
    BY <2>1, <2>2
<1>3. /\ L < 0 => Size(s[0].exp) = 0
      /\ \A j \in Int : L < 0 \/ j >= from => Due(s[0], j) = r
      /\ L >= 0 => \A j \in Int : j >= L /\ j < from => Due(s[0], j) = Due(sensor, j)
      /\ L >= 0 /\ ~AtOnce(sensor, target) => from > L
  <2>1. CASE L < 0 \/ AtOnce(sensor, target)
    <3>1. Size(s[0].exp) = 0 /\ \A j : Due(s[0], j) = r
      BY <1>1, <2>1, UpdateSetsNow
    <3>2. from = L
      BY <1>0, <3>1
    <3>3. \A j \in Int : ~(j >= L /\ j < from)
      BY <1>0, <3>2
    <3> HIDE DEF from
    <3>4. ~(L >= 0 /\ ~AtOnce(sensor, target))
      BY <1>0, <2>1
    <3>5. QED
      BY <3>1, <3>3, <3>4
  <2>2. CASE L >= 0 /\ ~AtOnce(sensor, target)
    <3>1. Size(s[0].exp) = Size(sensor.exp) + 1
      <4>1. 0 \in Int
        OBVIOUS
      <4>2. QED
        BY <1>1, <2>2, <4>1, UpdateSets
    <3>2. from = L + Size(sensor.exp) + 1
      BY <1>0, <3>1
    <3> HIDE DEF from
    <3>3. ASSUME NEW j \in Int
          PROVE  /\ j >= from => Due(s[0], j) = r
                 /\ j < from => Due(s[0], j) = Due(sensor, j)
      <4>1. /\ j > L + Size(sensor.exp) => Due(s[0], j) = r
            /\ j <= L + Size(sensor.exp) => Due(s[0], j) = Due(sensor, j)
        BY <1>1, <2>2, UpdateSets
      <4>2. /\ j >= from => j > L + Size(sensor.exp)
            /\ j < from => j <= L + Size(sensor.exp)
        BY <1>0, <3>2
      <4>3. QED
        BY <4>1, <4>2
    <3>4. from > L /\ ~(L < 0)
      BY <1>0, <2>2, <3>2
    <3>5. QED
      BY <3>3, <3>4
  <2>3. QED
    BY <1>0, <2>1, <2>2
<1>4. P(s[0])
  BY <1>2, <1>3
<1>5. ASSUME NEW m \in 0 .. n - 1, P(s[m]) PROVE P(s[m + 1])
  <2> DEFINE t == s[m]  u == s[m + 1]
  <2>1. u = UpdateSensorExposure(t, NoSeq, r)
    BY <1>1, <1>5
  <2>2. /\ MapTidy(t) /\ SensorOK(t) /\ t.last = L /\ (L < 0 => Size(t.exp) = 0)
        /\ Size(t.exp) >= Size(s[0].exp)
    BY <1>5
  <2>3. \A j \in Int : L < 0 \/ j >= from => Due(t, j) = r
    BY <1>5
  <2>4. L >= 0 => \A j \in Int : j >= L /\ j < from => Due(t, j) = Due(sensor, j)
    BY <1>5
  <2> HIDE DEF t, u
  <2>5. /\ MapTidy(u) /\ SensorOK(u) /\ u.last = L
        /\ Size(t.exp) \in Nat /\ Size(u.exp) \in Nat /\ Size(u.exp) >= Size(t.exp)
    BY <2>1, <2>2, UpdateTidy, UpdateKeepsSensor, AheadTypes
  <2>6. CASE L < 0
    <3>1. Size(u.exp) = 0 /\ \A j : Due(u, j) = r
      BY <2>1, <2>2, <2>6, UpdateSetsNow
    <3>2. ~(L >= 0)
      BY <1>0, <2>6
    <3>3. Size(u.exp) >= Size(s[0].exp)
      BY <1>2, <2>2, <2>5
    <3>4. QED
      BY <2>5, <3>1, <3>2, <3>3 DEF u
  <2>7. CASE L >= 0
    <3>1. ~AtOnce(t, NoSeq)
      BY <1>0, <2>2, <2>7 DEF AtOnce, NoSeq
    <3>2. from <= L + Size(t.exp) /\ from \in Int
      BY <1>0, <1>2, <2>2, <2>5
    <3> HIDE DEF from
    <3>3. ASSUME NEW j \in Int
          PROVE  /\ j >= from => Due(u, j) = r
                 /\ j >= L /\ j < from => Due(u, j) = Due(sensor, j)
      <4>1. /\ j > L + Size(t.exp) => Due(u, j) = r
            /\ j <= L + Size(t.exp) => Due(u, j) = Due(t, j)
        BY <2>1, <2>2, <2>7, <3>1, UpdateSets
      <4>2. CASE j > L + Size(t.exp)
        <5>1. ~(j < from)
          BY <1>0, <2>5, <3>2, <4>2
        <5>2. QED
          BY <4>1, <4>2, <5>1
      <4>3. CASE j <= L + Size(t.exp)
        BY <2>3, <2>4, <2>7, <4>1, <4>3
      <4>4. QED
        BY <1>0, <2>5, <4>2, <4>3
    <3>4. ~(L < 0)
      BY <1>0, <2>7
    <3>5. Size(u.exp) >= Size(s[0].exp)
      BY <1>2, <2>2, <2>5
    <3>6. QED
      BY <2>5, <3>3, <3>4, <3>5 DEF u
  <2>8. QED
    BY <1>0, <2>6, <2>7
<1>6. \A m \in 0 .. n : P(s[m])
  <2>1. 0 \in I
    BY <1>4
  <2>2. \A m \in 0 .. n - 1 : m \in I => m + 1 \in I
    <3>1. ASSUME NEW m \in 0 .. n - 1, m \in I PROVE m + 1 \in I
      <4>1. P(s[m])
        BY <3>1
      <4>2. P(s[m + 1])
        BY <1>5, <4>1
      <4>3. m + 1 \in 0 .. n
        OBVIOUS
      <4> HIDE DEF P
      <4>4. QED
        BY <4>2, <4>3
    <3>2. QED
      BY <3>1
  <2>3. \A m \in 0 .. n : m \in I
    <3> HIDE DEF I
    <3>1. QED
      BY <2>1, <2>2, AllSteps
  <2>4. QED
    BY <2>3
<1>7. /\ \A j \in Int : L < 0 \/ j >= from => Due(s[n], j) = r
      /\ L >= 0 => \A j \in Int : j >= L /\ j < from => Due(s[n], j) = Due(sensor, j)
  BY <1>6
<1>8. ASSUME NEW i \in 0 .. n PROVE AheadOf(s[0]) <= AheadOf(s[i])
  <2>1. SensorOK(s[i]) /\ s[i].last = L /\ Size(s[i].exp) >= Size(s[0].exp)
    BY <1>6
  <2>2. Size(s[i].exp) \in Nat
    BY <2>1, AheadTypes
  <2>3. QED
    BY <1>0, <1>2, <2>1, <2>2 DEF AheadOf
<1>9. L >= 0 => AheadOf(s[0]) = from + ExposureLag
  BY <1>0, <1>2 DEF AheadOf
<1>10. from \in Int
  BY <1>0, <1>2
<1>11. L >= 0 /\ ~AtOnce(sensor, target) => from > L
  BY <1>3
<1>12. QED
  BY <1>7, <1>8, <1>9, <1>10, <1>11 DEF s

(* An SOF sets what was due, and leaves what is due later.                 *)
LEMMA SofSets ==
    ASSUME NEW s, SensorOK(s), MapTidy(s), NEW t, t = HandleSofEvent(s, s.last + 1),
           NEW j \in Int, j >= s.last + 1
    PROVE  Due(t, j) = Due(s, j)
<1> DEFINE N == Size(s.exp)  L == s.last  k == L + 1
<1>1. /\ L \in Int /\ N \in Nat /\ k \in Int /\ k > L /\ DOMAIN s.exp = L + 1 .. L + N
  BY AheadTypes DEF MapTidy
<1>2. t.last = k /\ Size(t.exp) = IF N > 0 THEN N - 1 ELSE 0
  BY SofTidy
<1>3. t.exp = Drop(s.exp, k) /\ t.expReg = IF k \in DOMAIN s.exp THEN s.exp[k] ELSE s.expReg
  BY <1>1, Handled
<1>4. \A i \in DOMAIN s.exp : i # k => t.exp[i] = s.exp[i]
  <2>1. \A i \in DOMAIN s.exp : i # k => Drop(s.exp, k)[i] = s.exp[i]
    BY DropValues
  <2>2. QED
    BY <1>3, <2>1
<1>5. CASE N = 0
  <2>1. k \notin DOMAIN s.exp /\ Size(t.exp) = 0
    BY <1>1, <1>2, <1>5
  <2>2. QED
    BY <1>3, <1>5, <2>1 DEF Due
<1>6. CASE N > 0
  <2>1. k \in DOMAIN s.exp /\ t.expReg = s.exp[k] /\ Size(t.exp) = N - 1
        /\ t.last + Size(t.exp) = L + N
    BY <1>1, <1>2, <1>3, <1>6
  <2>2. ~(j <= L \/ N = 0)
    BY <1>1, <1>6
  <2>3. CASE j = k
    <3>1. Due(t, j) = t.expReg
      BY <1>2, <2>3 DEF Due
    <3>2. j <= L + N
      BY <1>1, <1>6, <2>3
    <3>3. QED
      BY <2>1, <2>2, <2>3, <3>1, <3>2 DEF Due
  <2>4. CASE j # k /\ N = 1
    <3>1. Due(t, j) = t.expReg
      BY <1>1, <2>1, <2>4 DEF Due
    <3>2. ~(j <= L + N) /\ L + N = k
      BY <1>1, <2>4
    <3>3. Due(s, j) = s.exp[k]
      BY <2>2, <3>2 DEF Due
    <3>4. QED
      BY <2>1, <3>1, <3>3
  <2>5. CASE j # k /\ N > 1
    <3>1. ~(j <= k) /\ N - 1 # 0
      BY <1>1, <2>5
    <3>2. Due(t, j) = IF j <= L + N THEN t.exp[j] ELSE t.exp[L + N]
      BY <1>2, <2>1, <3>1 DEF Due
    <3>3. Due(s, j) = IF j <= L + N THEN s.exp[j] ELSE s.exp[L + N]
      BY <2>2 DEF Due
    <3>4. L + N \in DOMAIN s.exp /\ L + N # k
      BY <1>1, <2>5
    <3>5. j <= L + N => j \in DOMAIN s.exp /\ j # k
      BY <1>1, <3>1
    <3>6. QED
      BY <1>4, <3>2, <3>3, <3>4, <3>5
  <2>6. QED
    BY <1>1, <1>6, <2>3, <2>4, <2>5
<1>7. QED
  BY <1>1, <1>5, <1>6

-----------------------------------------------------------------------------
(* What waits while a request is for an SOF.                               *)

LEMMA ReachInit == Init => ReachInv
<1> SUFFICES ASSUME Init PROVE ReachInv
  OBVIOUS
<1>1. sensor.exp = <<>> /\ run = NoRun /\ reqSof = NoSeq /\ applying = NoSeq
  BY DEF Init, FreshSensor
<1>2. Size(sensor.exp) = 0
  BY <1>1, FS_EmptySet DEF Size
<1>3. QED
  BY <1>1, <1>2 DEF ReachInv, NoSeq

LEMMA ReachReset ==
    ASSUME SensorInv, ReachInv, Reset
    PROVE  ReachInv'
<1>1. /\ sensor' = [FreshSensor EXCEPT !.expReg = sensor.expReg, !.gainReg = sensor.gainReg]
      /\ run = NoRun /\ UNCHANGED <<run, applying>> /\ reqSof' = NoSeq
  BY DEF Reset
<1>2. sensor'.exp = <<>>
  BY <1>1 DEF FreshSensor
<1>3. Size(sensor.exp)' = 0
  BY <1>2, FS_EmptySet DEF Size
<1>4. ~(Size(sensor.exp)' > 0)
  BY <1>3
<1>5. NoRun' = NoRun
  BY DEF NoRun
<1>6. QED
  BY <1>1, <1>4, <1>5 DEF ReachInv, NoSeq

LEMMA ReachStep ==
    SensorInv /\ StartInv /\ TidyInv /\ ResultsInv /\ EffectInv /\ ReachInv /\ [Next]_vars
        => ReachInv'
<1> SUFFICES ASSUME SensorInv, StartInv, TidyInv, ResultsInv, EffectInv, ReachInv, [Next]_vars,
                    ~Reset
             PROVE  ReachInv'
  BY ReachReset
<1>0. /\ sof \in Int /\ SensorOK(sensor) /\ sensor.last \in Int /\ Size(sensor.exp) \in Nat
      /\ ExposureLag \in Nat /\ lastEffect \in Int /\ reqSof \in Int /\ applying \in Int
  BY LagTypes, AheadTypes DEF SensorInv, ResultsInv, ReachInv
<1>t. reqSof' \in Int /\ applying' \in Int
  BY <1>0 DEF Next, HardwareSof, Sof, LostSof, SofToRequestThread, AcquireAiqStatistics,
              UpdateAiqStatistics, PickFor, RunBegin, UnLockAiqStatistics, RunEnd, vars, request,
              NoSeq
<1>a. UNCHANGED mAiqRunningForPerframe
  BY DEF Next, HardwareSof, Sof, LostSof, SofToRequestThread, AcquireAiqStatistics,
         UpdateAiqStatistics, PickFor, RunBegin, UnLockAiqStatistics, RunEnd, vars, engine
<1> SUFFICES ASSUME mAiqRunningForPerframe, Undisturbed'
             PROVE  /\ run' # NoRun => run'.at \in {"done", "ran"}
                    /\ run' = NoRun /\ Size(sensor'.exp) > 0 =>
                          /\ sensor'.last + Size(sensor'.exp) + ExposureLag <= lastEffect'
                          /\ applying' # NoSeq => sensor'.last + Size(sensor'.exp) < applying'
  BY <1>t, <1>a DEF ReachInv, Size
<1>1. CASE UNCHANGED vars
  BY <1>1 DEF vars, counts, request, ReachInv, Undisturbed
<1> SUFFICES ASSUME Next
             PROVE  /\ run' # NoRun => run'.at \in {"done", "ran"}
                    /\ run' = NoRun /\ Size(sensor'.exp) > 0 =>
                          /\ sensor'.last + Size(sensor'.exp) + ExposureLag <= lastEffect'
                          /\ applying' # NoSeq => sensor'.last + Size(sensor'.exp) < applying'
  BY <1>1
<1>2. Undisturbed /\ ~LostSof
  BY StillUndisturbed
<1>3. /\ run # NoRun => run.at \in {"done", "ran"}
      /\ run = NoRun /\ Size(sensor.exp) > 0 =>
            /\ sensor.last + Size(sensor.exp) + ExposureLag <= lastEffect
            /\ applying # NoSeq => sensor.last + Size(sensor.exp) < applying
  BY <1>2 DEF ReachInv
<1>4. CASE Sof
  <2>1. /\ pending /\ run = NoRun /\ UNCHANGED <<run, lastEffect, applying>>
        /\ sensor' = HandleSofEvent(sensor, sof)
    BY <1>4 DEF Sof, request
  <2>2. MapTidy(sensor) /\ sensor.last = sof - 1
    BY <1>2, <2>1 DEF TidyInv
  <2>3. sof = sensor.last + 1
    BY <1>0, <2>2
  <2>4. /\ sensor'.last = sensor.last + 1
        /\ Size(sensor'.exp) = IF Size(sensor.exp) > 0 THEN Size(sensor.exp) - 1 ELSE 0
    BY <1>0, <2>1, <2>2, <2>3, SofTidy
  <2>5. Size(sensor'.exp) > 0 => /\ Size(sensor.exp) > 0
                                 /\ sensor'.last + Size(sensor'.exp) = sensor.last + Size(sensor.exp)
    BY <1>0, <2>4
  <2>6. QED
    BY <1>3, <2>1, <2>5
<1>5. CASE PickFor
  <2>1. PICK target \in {reqSof, reqSof + 1} :
             applying' = IF target + ExposureLag <= lastEffect THEN NoSeq ELSE target
    BY <1>5 DEF PickFor
  <2>2. run = NoRun /\ UNCHANGED <<run, sensor, lastEffect>>
    BY <1>5 DEF PickFor
  <2>3. target \in Int
    BY <1>0
  <2>4. ASSUME Size(sensor.exp) > 0, applying' # NoSeq
        PROVE  sensor.last + Size(sensor.exp) < applying'
    <3>1. applying' = target /\ ~(target + ExposureLag <= lastEffect)
      BY <2>1, <2>4
    <3>2. sensor.last + Size(sensor.exp) + ExposureLag <= lastEffect
      BY <1>3, <2>2, <2>4
    <3>3. QED
      BY <1>0, <2>3, <3>1, <3>2
  <2>5. QED
    BY <1>3, <2>2, <2>4
<1>6. CASE RunBegin
  <2>1. run'.at = "done"
    <3>1. (\E n \in Nat : DoneAfter(n)) => run'.at = "done"
      BY DEF DoneAfter
    <3>2. QED
      BY <1>6, <3>1, UndisturbedRun
  <2>2. run' # NoRun
    BY <2>1 DEF NoRun
  <2>3. QED
    BY <2>1, <2>2
<1>u. CASE UnLockAiqStatistics
  <2>1. run.at # "none" /\ run.at \in Reading /\ run # NoRun
    BY <1>u DEF UnLockAiqStatistics, Reading, NoRun
  <2>2. run.at = "done"
    BY <1>3, <2>1 DEF Reading
  <2>3. run'.at = "ran"
    BY <1>u, <2>2 DEF UnLockAiqStatistics
  <2>4. QED
    BY <2>3 DEF NoRun
<1>7. CASE RunEnd
  <2>1. run # NoRun /\ run' = NoRun /\ sensor' = sensor /\ applying' = NoSeq
        /\ run.at \in {"ran", "over"}
        /\ (results # <<>> => lastEffect' = results[Len(results)].seq)
    BY <1>7 DEF RunEnd, NoRun
  <2>2. results # <<>> /\ results[Len(results)].seq = AheadOf(sensor)
    BY <1>3, <2>1 DEF EffectInv
  <2>3. lastEffect' = AheadOf(sensor)
    BY <2>1, <2>2
  <2>4. Size(sensor.exp) > 0 => AheadOf(sensor) = sensor.last + ExposureLag + Size(sensor.exp)
    <3>1. sensor.last < 0 => Size(sensor.exp) = 0
      BY FS_EmptySet, <1>0 DEF SensorOK, Size
    <3>2. QED
      BY <1>0, <3>1 DEF AheadOf
  <2>5. QED
    BY <1>0, <2>1, <2>3, <2>4
<1>8. CASE HardwareSof \/ SofToRequestThread \/ AcquireAiqStatistics \/ UpdateAiqStatistics
  <2>1. UNCHANGED <<sensor, run, lastEffect, applying>>
    BY <1>8 DEF HardwareSof, SofToRequestThread, AcquireAiqStatistics, UpdateAiqStatistics, request
  <2>2. QED
    BY <1>3, <2>1
<1>9. QED
  BY <1>2, <1>4, <1>5, <1>6, <1>u, <1>7, <1>8 DEF Next

-----------------------------------------------------------------------------
(* Every frame and the result that is for it.                              *)

(* A session starts without a result of its own.                           *)
LEMMA FrameInit == Init => FrameInv
BY DEF Init, FrameInv

LEMMA FrameReset == Reset => FrameInv'
BY DEF Reset, FrameInv

(* A run adds its own settings behind the others, and as far as it reports *)
(* they take effect there and nowhere before.                              *)
LEMMA RunSets ==
    ASSUME SensorInv, StartInv, TidyInv, ResultsInv, ReachInv, RunBegin, Undisturbed',
           NEW n \in Nat, DoneAfter(n), NEW f \in Nat
    PROVE  LET from == AheadOf(Exposed(n, Target, ThisRun)[0]) IN
           /\ from \in Nat
           /\ \A i \in 1 .. n + 1 : run'.pub[i].seq >= from
           /\ f >= from => FrameRun(f)' = ThisRun
           /\ f < from => runs >= 1 /\ FrameRun(f)' = FrameRun(f)
           /\ run'.pub[1].seq = from
<1> DEFINE s == Exposed(n, Target, ThisRun)
           from == AheadOf(s[0])
           key == sensor.last + Size(s[0].exp)
           L == sensor.last
           E == ExposureLag
<1>0. /\ sof \in Int /\ SensorOK(sensor) /\ L \in Int /\ L >= NoSeq /\ pending \in BOOLEAN
      /\ Size(sensor.exp) \in Nat /\ E \in Nat /\ applying \in Int /\ runs \in Nat /\ sof >= NoSeq
  BY LagTypes, AheadTypes DEF SensorInv, StartInv, ReachInv
<1>1. /\ Undisturbed /\ ~(pending /\ AtOnce(sensor, Target))
      /\ UNCHANGED <<sof, pending, expOf, gainOf>>
  BY UndisturbedRun
<1>2. /\ MapTidy(sensor) /\ L = (IF pending THEN sof - 1 ELSE sof)
      /\ DOMAIN expOf = IF sof = NoSeq THEN {} ELSE 0 .. sof - 1 + E
  BY <1>1 DEF TidyInv
<1>3. L < 0 \/ AtOnce(sensor, Target) => Size(sensor.exp) = 0
  <2>1. L < 0 => Size(sensor.exp) = 0
    BY <1>0, FS_EmptySet DEF SensorOK, Size
  <2>2. ASSUME L >= 0, AtOnce(sensor, Target), Size(sensor.exp) # 0 PROVE FALSE
    <3>1. Target > 0 /\ Target = L
      BY <1>0, <2>2 DEF AtOnce
    <3>2. mAiqRunningForPerframe /\ applying = L
      BY <3>1 DEF Target, NoSeq
    <3>3. run = NoRun /\ applying # NoSeq
      BY <3>2, RunCases
    <3>4. L + Size(sensor.exp) < applying
      BY <1>0, <1>1, <2>2, <3>2, <3>3 DEF ReachInv
    <3>5. QED
      BY <1>0, <3>2, <3>4
  <2>3. QED
    BY <1>0, <2>1, <2>2
<1>4. sensor' = s[n] /\ 0 \in 0 .. n /\ n \in 0 .. n
  BY DEF DoneAfter
<1>5. /\ \A j \in Int : L < 0 \/ j >= key => Due(s[n], j) = ThisRun
      /\ L >= 0 => \A j \in Int : j >= L /\ j < key => Due(s[n], j) = Due(sensor, j)
      /\ \A i \in 0 .. n : AheadOf(s[0]) <= AheadOf(s[i])
      /\ L >= 0 => from = key + E
      /\ L >= 0 /\ ~AtOnce(sensor, Target) => key > L
      /\ key \in Int
  BY <1>0, <1>2, <1>3, ExposedSets
<1>6. SensorOK(s[0]) /\ s[0].last = L
  BY <1>0, <1>4, ExposedKeeps
<1>7. from \in Nat /\ (L < 0 => from = 0) /\ Size(s[0].exp) \in Nat /\ key >= L
  <2>1. from \in Nat /\ Size(s[0].exp) \in Nat
    BY <1>6, AheadTypes
  <2>2. QED
    BY <1>0, <1>6, <2>1 DEF AheadOf
<1>8. \A i \in 1 .. n + 1 : run'.pub[i].seq = AheadOf(s[i - 1])
  BY PublishedIs
<1> HIDE DEF s
<1>9. \A i \in 1 .. n + 1 : run'.pub[i].seq >= from
  <2>1. ASSUME NEW i \in 1 .. n + 1 PROVE run'.pub[i].seq >= from
    <3>1. i - 1 \in 0 .. n
      OBVIOUS
    <3>2. AheadOf(s[0]) <= AheadOf(s[i - 1])
      BY <1>5, <3>1
    <3>3. run'.pub[i].seq = AheadOf(s[i - 1])
      BY <1>8
    <3>4. SensorOK(s[i - 1])
      BY <1>0, <3>1, ExposedKeeps DEF s
    <3>5. AheadOf(s[i - 1]) \in Nat
      BY <3>4, AheadTypes
    <3>6. QED
      BY <1>7, <3>2, <3>3, <3>5
  <2>2. QED
    BY <2>1
<1>10. run'.pub[1].seq = from
  <2>1. 1 \in 1 .. n + 1 /\ 1 - 1 = 0
    OBVIOUS
  <2>2. QED
    BY <1>8, <2>1
<1>11. FrameRun(f)' = IF f \in DOMAIN expOf THEN expOf[f] ELSE Due(sensor', f - E)
  BY <1>1 DEF FrameRun, Due, Size
<1>12. L < 0 => sof = NoSeq
  BY <1>0, <1>1, <1>2 DEF AtOnce, NoSeq
<1> HIDE DEF key
<1>13. ASSUME f >= from PROVE FrameRun(f)' = ThisRun
  <2>1. CASE L < 0
    <3>1. f \notin DOMAIN expOf
      BY <1>2, <1>12, <2>1
    <3>2. f - E \in Int
      BY <1>0
    <3>3. QED
      BY <1>4, <1>5, <1>11, <2>1, <3>1, <3>2
  <2>2. CASE L >= 0
    <3>1. from = key + E /\ f - E \in Int /\ f - E >= key
      BY <1>0, <1>5, <1>7, <1>13, <2>2
    <3>2. key >= sof
      <4>1. CASE pending
        <5>1. ~AtOnce(sensor, Target)
          BY <1>1, <4>1
        <5>2. key > L
          BY <1>5, <2>2, <5>1
        <5>3. QED
          BY <1>0, <1>2, <1>5, <4>1, <5>2
      <4>2. CASE ~pending
        BY <1>0, <1>2, <1>5, <1>7, <4>2
      <4>3. QED
        BY <4>1, <4>2
    <3>3. f \notin DOMAIN expOf
      BY <1>0, <1>2, <1>5, <3>1, <3>2
    <3>4. QED
      BY <1>4, <1>5, <1>11, <3>1, <3>3
  <2>3. QED
    BY <1>0, <2>1, <2>2
<1>14. ASSUME f < from PROVE runs >= 1 /\ FrameRun(f)' = FrameRun(f)
  <2>1. L >= 0 /\ from = key + E
    BY <1>0, <1>5, <1>7, <1>14
  <2>2. sof # NoSeq
    BY <1>0, <1>2, <2>1 DEF NoSeq
  <2>3. runs >= 1
    BY <1>0, <2>2 DEF StartInv
  <2>4. CASE f \in DOMAIN expOf
    BY <1>11, <2>3, <2>4 DEF FrameRun
  <2>5. CASE f \notin DOMAIN expOf
    <3>1. ~(f <= sof - 1 + E)
      BY <1>0, <1>2, <2>2, <2>5
    <3>2. f - E \in Int /\ f - E >= L /\ f - E < key
      BY <1>0, <1>2, <1>5, <1>14, <2>1, <3>1
    <3>3. Due(s[n], f - E) = Due(sensor, f - E)
      BY <1>5, <2>1, <3>2
    <3>4. QED
      BY <1>4, <1>11, <2>3, <2>5, <3>3 DEF FrameRun
  <2>6. QED
    BY <2>4, <2>5
<1>15. QED
  BY <1>7, <1>9, <1>10, <1>13, <1>14 DEF s

LEMMA PublishedAt ==
    ASSUME NEW p \in Seq(Result), NEW q \in Seq(Result)
    PROVE  /\ p \o q \in Seq(Result) /\ Len(p \o q) = Len(p) + Len(q)
           /\ Len(p) \in Nat /\ Len(q) \in Nat
           /\ \A i \in 1 .. Len(p) : (p \o q)[i] = p[i]
           /\ \A i \in 1 .. Len(q) : (p \o q)[Len(p) + i] = q[i]
<1>1. /\ p \o q \in Seq(Result) /\ Len(p \o q) = Len(p) + Len(q)
      /\ \A i \in 1 .. Len(p) + Len(q) : (p \o q)[i] = IF i <= Len(p) THEN p[i] ELSE q[i - Len(p)]
  BY ConcatProperties
<1>2. Len(p) \in Nat /\ Len(q) \in Nat
  BY LenProperties
<1>3. ASSUME NEW i \in 1 .. Len(q) PROVE (p \o q)[Len(p) + i] = q[i]
  <2>1. Len(p) + i \in 1 .. Len(p) + Len(q) /\ ~(Len(p) + i <= Len(p)) /\ Len(p) + i - Len(p) = i
    BY <1>2
  <2>2. QED
    BY <1>1, <2>1
<1>4. \A i \in 1 .. Len(p) : i \in 1 .. Len(p) + Len(q) /\ i <= Len(p)
  BY <1>2
<1>5. QED
  BY <1>1, <1>2, <1>3, <1>4

(* What fits a frame among the results with the oldest spoilt and those of *)
(* a run behind them is either of the run or what fitted before.           *)
FitsEither(p, q, z, i, f) ==
    \/ \E j \in 1 .. Len(q) : z[i] = q[j] /\ q[j].seq <= f
    \/ /\ i \in 1 .. Len(p) /\ z[i] = p[i] /\ Fits(p, i, f)
       /\ \A j \in 1 .. Len(q) : q[j].seq < 0 \/ q[j].seq > f

LEMMA AcquiredFits ==
    ASSUME NEW p \in Seq(Result), NEW q \in Seq(Result), NEW f \in Nat,
           NEW z, z = Acquired(p) \o q, NEW i \in 1 .. Len(z), Fits(z, i, f)
    PROVE  FitsEither(p, q, z, i, f)
<1> DEFINE a == Acquired(p)
<1>1. /\ a \in Seq(Result) /\ Len(a) = Len(p)
      /\ \A j \in 1 .. Len(p) : a[j] = p[j] \/ (j = 1 /\ a[j].seq = NoSeq)
      /\ \A j \in 1 .. Len(p) : j > 1 => a[j] = p[j]
  BY AcquiredIs
<1> HIDE DEF a
<1>0. z = a \o q
  BY DEF a
<1>2. /\ Len(z) = Len(a) + Len(q) /\ Len(a) \in Nat /\ Len(q) \in Nat
      /\ \A j \in 1 .. Len(a) : z[j] = a[j]
      /\ \A j \in 1 .. Len(q) : z[Len(a) + j] = q[j]
  <2>1. /\ Len(a \o q) = Len(a) + Len(q) /\ Len(a) \in Nat /\ Len(q) \in Nat
        /\ \A j \in 1 .. Len(a) : (a \o q)[j] = a[j]
        /\ \A j \in 1 .. Len(q) : (a \o q)[Len(a) + j] = q[j]
    BY <1>1, PublishedAt
  <2>2. QED
    BY <1>0, <2>1
<1>3. /\ z[i].seq >= 0 /\ z[i].seq <= f
      /\ \A j \in 1 .. Len(z) : j > i => z[j].seq < 0 \/ z[j].seq > f
  BY DEF Fits
<1>4. i \in 1 .. Len(z)
  OBVIOUS
<1>5. CASE i > Len(a)
  <2>1. i - Len(a) \in 1 .. Len(q) /\ Len(a) + (i - Len(a)) = i
    BY <1>2, <1>4, <1>5
  <2>2. z[i] = q[i - Len(a)]
    BY <1>2, <2>1
  <2>3. QED
    BY <1>3, <2>1, <2>2 DEF FitsEither
<1>6. CASE i <= Len(a)
  <2>1. i \in 1 .. Len(p) /\ z[i] = a[i]
    BY <1>1, <1>2, <1>4, <1>6
  <2>2. a[i] = p[i]
    <3>1. a[i].seq # NoSeq
      BY <1>3, <2>1 DEF NoSeq
    <3>2. QED
      BY <1>1, <2>1, <3>1
  <2>3. ASSUME NEW j \in 1 .. Len(p), j > i PROVE p[j].seq < 0 \/ p[j].seq > f
    <3>1. j > 1 /\ j \in 1 .. Len(z) /\ j \in 1 .. Len(a)
      BY <1>1, <1>2, <2>1, <2>3
    <3>2. z[j] = p[j]
      BY <1>1, <1>2, <2>3, <3>1
    <3>3. QED
      BY <1>3, <2>3, <3>1, <3>2
  <2>4. ASSUME NEW j \in 1 .. Len(q) PROVE q[j].seq < 0 \/ q[j].seq > f
    <3>1. Len(a) + j \in 1 .. Len(z) /\ Len(a) + j > i
      BY <1>2, <1>4, <1>6
    <3>2. z[Len(a) + j] = q[j]
      BY <1>2
    <3>3. QED
      BY <1>3, <3>1, <3>2
  <2>5. Fits(p, i, f)
    BY <1>3, <2>1, <2>2, <2>3 DEF Fits
  <2>6. QED
    BY <2>1, <2>2, <2>4, <2>5 DEF FitsEither
<1>7. QED
  BY <1>2, <1>4, <1>5, <1>6

(* What fits a frame in the ring fits it among all the results.            *)
LEMMA RecentFits ==
    ASSUME NEW q \in Seq(Result), NEW f \in Nat, NEW i \in 1 .. Len(Recent(q)),
           Fits(Recent(q), i, f)
    PROVE  \E j \in 1 .. Len(q) : Recent(q)[i] = q[j] /\ Fits(q, j, f)
<1> DEFINE t == Recent(q)  d == Len(q) - Len(t)
<1>1. /\ t \in Seq(Result) /\ d \in Nat /\ \A j \in 1 .. Len(t) : t[j] = q[j + d]
  BY RecentIs
<1>2. Len(q) \in Nat /\ Len(t) \in Nat
  BY <1>1, LenProperties
<1>3. /\ t[i].seq >= 0 /\ t[i].seq <= f
      /\ \A j \in 1 .. Len(t) : j > i => t[j].seq < 0 \/ t[j].seq > f
  BY DEF Fits
<1>4. i \in 1 .. Len(t)
  OBVIOUS
<1> HIDE DEF t
<1>5. i + d \in 1 .. Len(q) /\ t[i] = q[i + d]
  BY <1>1, <1>2, <1>4
<1>6. ASSUME NEW j \in 1 .. Len(q), j > i + d PROVE q[j].seq < 0 \/ q[j].seq > f
  <2>1. j - d \in 1 .. Len(t) /\ j - d > i /\ j - d + d = j
    BY <1>2, <1>4, <1>6, <1>1
  <2>2. t[j - d] = q[j]
    BY <1>1, <2>1
  <2>3. t[j - d].seq < 0 \/ t[j - d].seq > f
    BY <1>3, <2>1
  <2>4. QED
    BY <2>2, <2>3
<1>7. Fits(q, i + d, f)
  BY <1>3, <1>5, <1>6 DEF Fits
<1>8. QED
  BY <1>5, <1>7 DEF t

(* When a frame starts it gets the exposure that was due for it.           *)
LEMMA HardwareFrames ==
    ASSUME SensorInv, StartInv, TidyInv, Undisturbed, HardwareSof, NEW f \in Nat
    PROVE  FrameRun(f)' = FrameRun(f)
<1> DEFINE L == sensor.last  E == ExposureLag
<1>0. /\ sof \in Int /\ sof >= NoSeq /\ SensorOK(sensor) /\ L \in Int /\ E \in Nat
  BY LagTypes, AheadTypes DEF SensorInv, StartInv
<1>1. /\ ~pending /\ sof' = sof + 1 /\ sensor' = sensor
      /\ expOf' = Latch(expOf, sof + 1, E, sensor.expReg)
  BY DEF HardwareSof
<1>2. L = sof /\ DOMAIN expOf = IF sof = NoSeq THEN {} ELSE 0 .. sof - 1 + E
  BY <1>1 DEF TidyInv
<1>3. FrameRun(f)' = IF f \in DOMAIN expOf' THEN expOf'[f] ELSE Due(sensor, f - E)
  BY <1>1 DEF FrameRun, Due, Size
<1>4. CASE sof = NoSeq
  <2>1. sof + 1 = 0
    BY <1>4 DEF NoSeq
  <2>2. expOf' = Latch(expOf, 0, E, sensor.expReg)
    BY <1>1, <2>1
  <2>3. DOMAIN expOf' = 0 .. E - 1 /\ \A g \in 0 .. E - 1 : expOf'[g] = sensor.expReg
    BY <1>0, <2>2, LatchFirst
  <2>4. Size(sensor.exp) = 0
    BY <1>0, <1>2, <1>4, FS_EmptySet DEF SensorOK, Size, NoSeq
  <2>5. Due(sensor, f - E) = sensor.expReg
    BY <2>4 DEF Due
  <2>6. FrameRun(f) = sensor.expReg
    BY <1>2, <1>4, <2>5 DEF FrameRun
  <2>7. QED
    BY <1>3, <2>3, <2>5, <2>6
<1>5. CASE sof # NoSeq
  <2>1. sof \in Nat /\ sof + 1 \in Nat \ {0} /\ sof + 1 - 1 + E = sof + E
    BY <1>0, <1>5 DEF NoSeq
  <2>2. expOf' = Put(expOf, sof + E, sensor.expReg)
    <3>1. Latch(expOf, sof + 1, E, sensor.expReg) = Put(expOf, sof + 1 - 1 + E, sensor.expReg)
      BY <1>0, <2>1, LatchNext
    <3>2. QED
      BY <1>1, <2>1, <3>1
  <2>3. DOMAIN expOf' = DOMAIN expOf \cup {sof + E}
    <3>1. DOMAIN Put(expOf, sof + E, sensor.expReg) = DOMAIN expOf \cup {sof + E}
      BY PutIs
    <3>2. QED
      BY <2>2, <3>1
  <2>4. expOf'[sof + E] = sensor.expReg /\ \A g \in DOMAIN expOf : g # sof + E => expOf'[g] = expOf[g]
    <3>1. /\ Put(expOf, sof + E, sensor.expReg)[sof + E] = sensor.expReg
          /\ \A g \in DOMAIN expOf : g # sof + E => Put(expOf, sof + E, sensor.expReg)[g] = expOf[g]
      BY PutValues
    <3>2. QED
      BY <2>2, <3>1
  <2>5. CASE f = sof + E
    <3>1. f \notin DOMAIN expOf
      BY <1>0, <1>2, <1>5, <2>5
    <3>2. f - E <= L
      BY <1>0, <1>2, <2>5
    <3>3. FrameRun(f) = sensor.expReg
      BY <3>1, <3>2 DEF FrameRun, Due
    <3>4. QED
      BY <1>3, <2>3, <2>4, <2>5, <3>3
  <2>6. CASE f # sof + E
    BY <1>3, <2>3, <2>4, <2>6 DEF FrameRun
  <2>7. QED
    BY <2>5, <2>6
<1>6. QED
  BY <1>4, <1>5

LEMMA SofFrames ==
    ASSUME SensorInv, StartInv, TidyInv, Undisturbed, Sof, NEW f \in Nat
    PROVE  FrameRun(f)' = FrameRun(f)
<1> DEFINE L == sensor.last  E == ExposureLag
<1>0. /\ sof \in Int /\ sof >= NoSeq /\ SensorOK(sensor) /\ L \in Int /\ L >= NoSeq /\ E \in Nat
  BY LagTypes, AheadTypes DEF SensorInv, StartInv
<1>1. /\ pending /\ sensor' = HandleSofEvent(sensor, sof) /\ UNCHANGED <<sof, expOf>>
  BY DEF Sof
<1>2. /\ MapTidy(sensor) /\ L = sof - 1
      /\ DOMAIN expOf = IF sof = NoSeq THEN {} ELSE 0 .. sof - 1 + E
  BY <1>1 DEF TidyInv
<1>3. sof = L + 1 /\ sof # NoSeq
  BY <1>0, <1>2 DEF NoSeq
<1>4. FrameRun(f)' = IF f \in DOMAIN expOf THEN expOf[f] ELSE Due(sensor', f - E)
  BY <1>1 DEF FrameRun, Due, Size
<1>5. ASSUME f \notin DOMAIN expOf
      PROVE  Due(sensor', f - E) = Due(sensor, f - E)
  <2>1. f - E \in Int /\ f - E >= L + 1
    BY <1>0, <1>2, <1>3, <1>5
  <2>2. QED
    BY <1>0, <1>1, <1>2, <1>3, <2>1, SofSets
<1>6. QED
  BY <1>4, <1>5 DEF FrameRun

(* A run: its own results are right from where they say on, the others are *)
(* still right before.                                                     *)
LEMMA RunFrames ==
    ASSUME SensorInv, StartInv, TidyInv, ResultsInv, EffectInv, ReachInv, FrameInv,
           RunBegin, Undisturbed',
           NEW f \in Nat, NEW i \in 1 .. Len(Published'), Fits(Published', i, f)
    PROVE  FrameRun(f)' = Published'[i].run
<1>0. results \in Seq(Result) /\ runs \in Nat
  BY DEF ResultsInv
<1>1. run = NoRun /\ results' = Acquired(results)
  BY RunCases
<1>2. /\ Undisturbed
      /\ \/ \E n \in Nat : DoneAfter(n)
         \/ sensor' = sensor /\ ~mFirstAiqRunning /\ run'.pub = <<>>
      /\ UNCHANGED <<sof, expOf>>
  BY UndisturbedRun
<1>3. run.pub = <<>> /\ Published = results
  <2>1. run.pub = <<>>
    BY <1>1 DEF NoRun
  <2>2. QED
    BY <1>0, <2>1, ConcatEmptySeq DEF Published
<1>4. Published' = Acquired(results) \o run'.pub
  BY <1>1 DEF Published
<1>5. ASSUME runs >= 1, NEW j \in 1 .. Len(results), Fits(results, j, f)
      PROVE  FrameRun(f) = results[j].run
  BY <1>2, <1>3, <1>5 DEF FrameInv
<1>6. CASE \E n \in Nat : DoneAfter(n)
  <2>1. PICK n \in Nat : DoneAfter(n)
    BY <1>6
  <2> DEFINE from == AheadOf(Exposed(n, Target, ThisRun)[0])
             pub == run'.pub
  <2>2. /\ from \in Nat
        /\ \A k \in 1 .. n + 1 : pub[k].seq >= from
        /\ f >= from => FrameRun(f)' = ThisRun
        /\ f < from => runs >= 1 /\ FrameRun(f)' = FrameRun(f)
        /\ pub[1].seq = from
    BY <2>1, RunSets
  <2>3. /\ pub \in Seq(Result) /\ Len(pub) = n + 1
        /\ \A k \in 1 .. n + 1 : pub[k].run = ThisRun
    BY <2>1, PublishedIs
  <2> HIDE DEF from, pub
  <2> DEFINE z == Published'
  <2>z. z = Acquired(results) \o pub /\ i \in 1 .. Len(z) /\ Fits(z, i, f)
    BY <1>4 DEF pub
  <2> HIDE DEF z
  <2>4. \/ \E j \in 1 .. Len(pub) : z[i] = pub[j] /\ pub[j].seq <= f
        \/ /\ i \in 1 .. Len(results) /\ z[i] = results[i] /\ Fits(results, i, f)
           /\ \A j \in 1 .. Len(pub) : pub[j].seq < 0 \/ pub[j].seq > f
    <3>1. FitsEither(results, pub, z, i, f)
      BY <1>0, <2>3, <2>z, AcquiredFits
    <3>2. QED
      BY <3>1 DEF FitsEither
  <2>5. CASE \E j \in 1 .. Len(pub) : z[i] = pub[j] /\ pub[j].seq <= f
    <3>1. PICK j \in 1 .. Len(pub) : z[i] = pub[j] /\ pub[j].seq <= f
      BY <2>5
    <3>2. pub[j].run = ThisRun /\ pub[j].seq >= from
      BY <2>2, <2>3
    <3>3. pub[j].seq \in Int
      <4>1. pub[j] \in Result
        BY <2>3, ElementOfSeq
      <4>2. QED
        BY <4>1 DEF Result
    <3>4. f >= from
      BY <2>2, <3>1, <3>2, <3>3
    <3>5. QED
      BY <2>2, <3>1, <3>2, <3>4 DEF z
  <2>6. CASE /\ i \in 1 .. Len(results) /\ z[i] = results[i] /\ Fits(results, i, f)
             /\ \A j \in 1 .. Len(pub) : pub[j].seq < 0 \/ pub[j].seq > f
    <3>1. 1 \in 1 .. Len(pub)
      BY <2>3
    <3>2. f < from
      BY <2>2, <2>6, <3>1
    <3>3. FrameRun(f)' = FrameRun(f) /\ FrameRun(f) = results[i].run
      BY <1>5, <2>2, <2>6, <3>2
    <3>4. QED
      BY <2>6, <3>3 DEF z
  <2>7. QED
    BY <2>4, <2>5, <2>6
<1>7. CASE sensor' = sensor /\ ~mFirstAiqRunning /\ run'.pub = <<>>
  <2>1. runs >= 1
    BY <1>0, <1>7 DEF StartInv
  <2>2. FrameRun(f)' = FrameRun(f)
    BY <1>2, <1>7 DEF FrameRun, Due, Size
  <2> DEFINE z == Published'  e == run'.pub
  <2>3. /\ z = Acquired(results) \o e /\ i \in 1 .. Len(z) /\ Fits(z, i, f)
        /\ e \in Seq(Result) /\ Len(e) = 0
    BY <1>4, <1>7
  <2> HIDE DEF z, e
  <2>4. ~\E j \in 1 .. Len(e) : z[i] = e[j] /\ e[j].seq <= f
    BY <2>3
  <2>5. i \in 1 .. Len(results) /\ z[i] = results[i] /\ Fits(results, i, f)
    <3>1. FitsEither(results, e, z, i, f)
      BY <1>0, <2>3, AcquiredFits
    <3>2. QED
      BY <2>4, <3>1 DEF FitsEither
  <2>6. QED
    BY <1>5, <2>1, <2>2, <2>5 DEF z
<1>8. QED
  BY <1>2, <1>6, <1>7

LEMMA FrameStep ==
    SensorInv /\ StartInv /\ TidyInv /\ ResultsInv /\ EffectInv /\ ReachInv /\ FrameInv
        /\ [Next]_vars => FrameInv'
<1> SUFFICES ASSUME SensorInv, StartInv, TidyInv, ResultsInv, EffectInv, ReachInv, FrameInv,
                    [Next]_vars, ~Reset, Undisturbed', runs' >= 1,
                    NEW f \in Nat, NEW i \in 1 .. Len(Published'), Fits(Published', i, f)
             PROVE  FrameRun(f)' = Published'[i].run
  <2>1. \A q, k, g : Fits(q, k, g)' <=> Fits(q', k, g)
    BY DEF Fits
  <2>2. QED
    BY <2>1, FrameReset DEF FrameInv, Fits
<1>1. CASE UNCHANGED vars
  <2>1. /\ UNCHANGED <<sensor, expOf, results, run, runs>>
        /\ Undisturbed' = Undisturbed
    BY <1>1 DEF vars, engine, frames, counts, Undisturbed
  <2>2. Published' = Published /\ FrameRun(f)' = FrameRun(f)
    BY <2>1 DEF Published, FrameRun, Due, Size
  <2>3. QED
    BY <2>1, <2>2 DEF FrameInv
<1> SUFFICES ASSUME Next PROVE FrameRun(f)' = Published'[i].run
  BY <1>1
<1>2. Undisturbed /\ ~LostSof
  BY StillUndisturbed
<1>3. ASSUME runs >= 1, Published' = Published, FrameRun(f)' = FrameRun(f)
      PROVE  FrameRun(f)' = Published'[i].run
  BY <1>2, <1>3 DEF FrameInv
<1>4. CASE HardwareSof
  <2>1. UNCHANGED <<results, run, runs>>
    BY <1>4 DEF HardwareSof, engine
  <2>2. Published' = Published /\ runs >= 1
    BY <2>1 DEF Published
  <2>3. QED
    BY <1>2, <1>3, <1>4, <2>2, HardwareFrames
<1>5. CASE Sof
  <2>1. UNCHANGED <<results, run, runs>>
    BY <1>5 DEF Sof, engine
  <2>2. Published' = Published /\ runs >= 1
    BY <2>1 DEF Published
  <2>3. QED
    BY <1>2, <1>3, <1>5, <2>2, SofFrames
<1>6. CASE RunBegin
  BY <1>6, RunFrames
<1>7. CASE UnLockAiqStatistics
  <2>1. /\ UNCHANGED <<sensor, expOf, runs>> /\ run'.pub = <<>> /\ results' = Recent(Published)
    BY <1>7 DEF UnLockAiqStatistics, frames, Published
  <2>2. Published \in Seq(Result) /\ results' \in Seq(Result)
    BY <1>7, UnLockResults DEF Published
  <2>3. Published' = Recent(Published)
    <3>1. results' \o <<>> = results'
      BY <2>2, ConcatEmptySeq
    <3>2. Published' = results' \o run'.pub /\ run'.pub = <<>>
      BY <2>1 DEF Published
    <3>3. QED
      BY <2>1, <3>1, <3>2
  <2>4. FrameRun(f)' = FrameRun(f) /\ runs >= 1
    BY <2>1 DEF FrameRun, Due, Size
  <2>5. PICK j \in 1 .. Len(Published) :
             Recent(Published)[i] = Published[j] /\ Fits(Published, j, f)
    <3>1. i \in 1 .. Len(Recent(Published)) /\ Fits(Recent(Published), i, f)
      BY <2>3
    <3>2. QED
      BY <2>2, <3>1, RecentFits
  <2>6. FrameRun(f) = Published[j].run
    BY <1>2, <2>4, <2>5 DEF FrameInv
  <2>7. QED
    BY <2>3, <2>4, <2>5, <2>6
<1>e. CASE RunEnd
  <2>1. UNCHANGED <<sensor, expOf, results, runs>> /\ run'.pub = <<>>
    BY <1>e DEF RunEnd, frames, NoRun
  <2>2. run.pub = <<>>
    BY <1>e DEF RunEnd, EffectInv
  <2>3. Published' = Published /\ FrameRun(f)' = FrameRun(f) /\ runs >= 1
    BY <2>1, <2>2 DEF Published, FrameRun, Due, Size
  <2>4. QED
    BY <1>3, <2>3
<1>8. CASE SofToRequestThread \/ AcquireAiqStatistics \/ UpdateAiqStatistics \/ PickFor
  <2>1. UNCHANGED <<sensor, expOf, results, run, runs>>
    BY <1>8 DEF SofToRequestThread, AcquireAiqStatistics, UpdateAiqStatistics, PickFor, frames,
                engine
  <2>2. Published' = Published /\ FrameRun(f)' = FrameRun(f) /\ runs >= 1
    BY <2>1 DEF Published, FrameRun, Due, Size
  <2>3. QED
    BY <1>3, <2>2
<1>9. QED
  BY <1>2, <1>4, <1>5, <1>6, <1>7, <1>e, <1>8 DEF Next

LEMMA FrameInductive == Spec => [](ReachInv /\ FrameInv)
<1> DEFINE Base == StartInv /\ TidyInv /\ GainInv
           Ring == ResultsInv /\ EffectInv
<1>1. SensorInv /\ Base /\ Ring /\ ReachInv /\ FrameInv /\ [Next]_vars => (ReachInv /\ FrameInv)'
  BY ReachStep, FrameStep
<1>2. Init => ReachInv /\ FrameInv
  BY ReachInit, FrameInit
<1>3. Spec => []Base /\ []Ring
  BY GainInductive, EffectInductive, PTL
<1>4. QED
  BY <1>1, <1>2, <1>3, SensorInductive, PTL DEF Spec

-----------------------------------------------------------------------------

LEMMA GreatestOf ==
    ASSUME NEW n \in Nat, NEW S \in SUBSET (1 .. n), S # {}
    PROVE  \E x \in S : \A y \in S : y <= x
<1> DEFINE T == {n - x : x \in S}
<1>1. T \in SUBSET Nat /\ T # {}
  OBVIOUS
<1>2. PICK t \in T : \A u \in T : t <= u
  <2> HIDE DEF T
  <2>1. QED
    BY <1>1, LeastOf
<1>3. PICK x \in S : t = n - x
  BY <1>2
<1>4. ASSUME NEW y \in S PROVE y <= x
  <2>1. n - y \in T
    OBVIOUS
  <2>2. n - x <= n - y
    BY <1>2, <1>3, <2>1
  <2>3. QED
    BY <2>2
<1>5. QED
  BY <1>4

(* The frame run3A reports with its settings is the first that has them:   *)
(* every frame is taken with the exposure of the very result getAiqResult  *)
(* finds for it, for any lags, rings and number of sessions, as long as no *)
(* SOF is lost, no run fails half way and no setting is written too late.  *)
THEOREM EffectsOnFrames == Spec => []EffectOnFrame
<1>1. SensorInv /\ StartInv /\ TidyInv /\ ResultsInv /\ FrameInv => EffectOnFrame
  <2> SUFFICES ASSUME SensorInv, StartInv, TidyInv, ResultsInv, FrameInv,
                      Undisturbed, run = NoRun, NEW f \in DOMAIN expOf, ~mFirstAiqRunning,
                      GetAiqResult(f) # 0
               PROVE  expOf[f] = GetAiqResult(f)
    BY DEF EffectOnFrame
  <2> DEFINE fit == {i \in DOMAIN results : results[i].seq >= 0 /\ f >= results[i].seq}
             i == CHOOSE i \in fit : \A j \in fit : j <= i
  <2>1. fit # {} /\ GetAiqResult(f) = results[i].run
    BY DEF GetAiqResult
  <2>2. results \in Seq(Result) /\ Len(results) \in Nat /\ DOMAIN results = 1 .. Len(results)
    BY LenProperties DEF ResultsInv
  <2>3. fit \in SUBSET (1 .. Len(results))
    BY <2>2
  <2>4. \E k \in fit : \A j \in fit : j <= k
    <3> HIDE DEF fit
    <3>1. QED
      BY <2>1, <2>2, <2>3, GreatestOf
  <2>5. i \in fit /\ \A j \in fit : j <= i
    <3> HIDE DEF fit
    <3>1. QED
      BY <2>4
  <2>6. runs >= 1 /\ f \in Nat
    <3>1. runs \in Nat /\ sof \in Int /\ sof >= NoSeq /\ ExposureLag \in Nat
      BY LagTypes DEF SensorInv, StartInv
    <3>2. DOMAIN expOf = IF sof = NoSeq THEN {} ELSE 0 .. sof - 1 + ExposureLag
      BY DEF TidyInv
    <3>3. QED
      BY <3>1, <3>2 DEF StartInv
  <2> HIDE DEF i
  <2>7. Fits(results, i, f) /\ i \in 1 .. Len(results)
    <3>1. results[i].seq >= 0 /\ results[i].seq <= f /\ i \in 1 .. Len(results)
      <4>1. results[i].seq \in Int
        <5>1. results[i] \in Result
          BY <2>2, <2>5, ElementOfSeq
        <5>2. QED
          BY <5>1 DEF Result
      <4>2. QED
        BY <2>2, <2>5, <2>6, <4>1
    <3>2. ASSUME NEW j \in 1 .. Len(results), j > i
          PROVE  results[j].seq < 0 \/ results[j].seq > f
      <4>1. results[j].seq \in Int
        <5>1. results[j] \in Result
          BY <2>2, ElementOfSeq
        <5>2. QED
          BY <5>1 DEF Result
      <4>2. j \notin fit
        BY <2>2, <2>5, <3>1, <3>2
      <4>3. QED
        BY <2>2, <2>6, <4>1, <4>2
    <3>3. QED
      BY <3>1, <3>2 DEF Fits
  <2>8. Published = results
    <3>1. run.pub = <<>>
      BY DEF NoRun
    <3>2. QED
      BY <2>2, <3>1, ConcatEmptySeq DEF Published
  <2>9. FrameRun(f) = results[i].run
    BY <2>6, <2>7, <2>8 DEF FrameInv
  <2>10. QED
    BY <2>1, <2>9 DEF FrameRun, i
<1>2. QED
  BY <1>1, GainInductive, EffectInductive, FrameInductive, SensorInductive, PTL
=============================================================================
