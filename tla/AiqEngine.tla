------------------------------- MODULE AiqEngine -------------------------------
(***************************************************************************)
(* One run of 3A and what becomes of it: src/3a/AiqEngine.cpp, with the    *)
(* exposure and gain maps of SensorManager.cpp and the two rings of        *)
(* AiqResultStorage.cpp.  RequestThread calls run3A, the SOF thread        *)
(* handleEvent and the processing unit stores decoded statistics; the      *)
(* sensor is modelled by the lags its settings are configured with.        *)
(*                                                                         *)
(* mEngineLock is held all through run3A, so a run is three actions only   *)
(* for the sake of the statistics, which have a lock of their own: until   *)
(* they are read, until they are let go, and the rest, which reads their   *)
(* sequence once more.  Settings are told apart by the number of the run   *)
(* that computed them.                                                     *)
(***************************************************************************)
EXTENDS Integers, Sequences, FiniteSets

CONSTANTS
    Modes,                      \* values of mAiqRunningForPerframe to look at
    ExposureLag, GainLag,       \* frames until exposure and gains take effect
    kMaxExposureAppliedDelay,
    kAiqStatsStorageSize,
    kStorageSize,
    Cadence,                    \* run3ACadence of the parameters
    InitialSkip,                \* first results to mark as skipped, per-frame
    PipeSwitchSkip,             \* 3 in getSkippingNum
    MaxSof, MaxRuns,            \* bounds: SOFs and runs of a session
    MaxTroubles,                \* bound: lost SOF events, failing runs, and
                                \*   tuning mode changes, all together
    MaxResets                   \* bound: restarts

ASSUME LagAssumption == ExposureLag \in Nat /\ GainLag \in 1 .. ExposureLag
ASSUME StorageAssumption == kAiqStatsStorageSize \in Nat /\ kAiqStatsStorageSize >= 3
ASSUME RingAssumption == kStorageSize \in Nat \ {0} /\ Cadence \in Nat \ {0}
ASSUME SkipAssumption == InitialSkip \in Nat /\ PipeSwitchSkip \in Nat
ASSUME BoundsAssumption == {MaxSof, MaxRuns, MaxTroubles, MaxResets} \subseteq Nat
ASSUME ModesAssumption == Modes \subseteq BOOLEAN /\ Modes # {}

NoSeq == -1
GainDelay == ExposureLag - GainLag
Slots == 0 .. kAiqStatsStorageSize - 1

VARIABLES
    mAiqRunningForPerframe,
    mFirstAiqRunning,
    statsSequence,         \* mAiqRunningHistory.statsSequence
    sensor,                \* SensorManager: mLastSofSequence, the maps, the registers
    results,               \* AiqResultStorage: the ring of results, oldest first
    slot,                  \* its statistics: mSequence and mInUse of each
    mCurrentAiqStatsIndex,
    run,                   \* the run of 3A in progress
    decode,                \* the slot being decoded into, -1: none
    lastDecoded,           \* sequence of the last statistics decoded
    lastUsed,              \* sequence of the last statistics 3A was run with
    reqSof, applying, lastApplied, lastEffect,   \* of RequestThread
    reported,              \* lastEffect is from a run that succeeded in this session
    sof,                   \* SOFs the sensor has made
    expOf, gainOf,         \* the run whose setting each frame was taken with
    pending,               \* the event of SOF number sof is not handled yet
    runs, lost, switches, errors, troubles, resets,
    raced                  \* settings went to the sensor at once, but after its SOF

storage == <<slot, mCurrentAiqStatsIndex, decode, lastDecoded, lastUsed>>
request == <<reqSof, applying, lastApplied, lastEffect, reported>>
frames == <<sof, expOf, gainOf, pending>>
counts == <<lost, switches, errors, troubles, resets, raced>>
engine == <<mAiqRunningForPerframe, mFirstAiqRunning, statsSequence, results>>
vars == <<engine, sensor, run, runs, storage, request, frames, counts>>

(* Where run3A is while it may read the statistics it has locked.          *)
Reading == {"wait", "done", "error"}

NoRun == [at |-> "none", stats |-> NoSeq, pub |-> <<>>]
FreshSensor == [last |-> NoSeq, exp |-> <<>>, gain |-> <<>>, expReg |-> 0, gainReg |-> 0,
                seq |-> 0]

Init ==
    /\ mAiqRunningForPerframe \in Modes
    /\ mFirstAiqRunning = TRUE /\ statsSequence = NoSeq
    /\ sensor = FreshSensor /\ results = <<>>
    /\ slot = [i \in Slots |-> [mSequence |-> NoSeq, mInUse |-> FALSE]]
    /\ mCurrentAiqStatsIndex = -1 /\ decode = -1 /\ lastDecoded = NoSeq /\ lastUsed = NoSeq
    /\ run = NoRun /\ runs = 0
    /\ reqSof = NoSeq /\ applying = NoSeq /\ lastApplied = NoSeq /\ lastEffect = NoSeq
    /\ reported = FALSE
    /\ sof = NoSeq /\ pending = FALSE /\ expOf = <<>> /\ gainOf = <<>>
    /\ lost = 0 /\ switches = 0 /\ errors = 0
    /\ troubles = 0 /\ resets = 0 /\ raced = FALSE

-----------------------------------------------------------------------------
(* SensorManager.                                                          *)

Put(f, k, v) == [j \in DOMAIN f \cup {k} |-> IF j = k THEN v ELSE f[j]]
Drop(f, k) == [j \in DOMAIN f \ {k} |-> f[j]]
Size(f) == Cardinality(DOMAIN f)

(* Mutated form of the next: one SOF too early.                            *)
SensorSeqEarly(s) == s.last + Size(s.exp)

(* The SOF an exposure that has no target waits for: after all the others. *)
SensorSeq(s) == s.last + Size(s.exp) + 1

(* The exposure goes to the sensor without waiting for an SOF: before the  *)
(* first one, or because it was asked for the SOF just handled.            *)
AtOnce(s, target) == s.last < 0 \/ (target > 0 /\ target = s.last)

(* updateSensorExposure; seq is what it returns.                           *)
UpdateSensorExposure(s, target, r) ==
    IF s.last >= 0
    THEN LET now == AtOnce(s, target)
             key == IF now THEN target ELSE SensorSeq(s)
             exp == IF now THEN s.exp ELSE Put(s.exp, key, r)
             gainNow == key + GainDelay = s.last
         IN  [last |-> s.last,
              exp |-> exp, expReg |-> IF now THEN r ELSE s.expReg,
              gain |-> IF gainNow THEN s.gain ELSE Put(s.gain, key + GainDelay, r),
              gainReg |-> IF gainNow THEN r ELSE s.gainReg,
              seq |-> s.last + ExposureLag + Size(exp)]
    ELSE [s EXCEPT !.expReg = r, !.gainReg = r, !.seq = 0]

(* Mutated form of the next: the entries stay in the maps.                 *)
HandleSofEventKept(s, k) ==
    [s EXCEPT !.last = k,
              !.expReg = IF k \in DOMAIN s.exp THEN s.exp[k] ELSE s.expReg,
              !.gainReg = IF k \in DOMAIN s.gain THEN s.gain[k] ELSE s.gainReg]

(* Mutated form of the next: the map is emptied for the one entry.         *)
HandleSofEventClears(s, k) ==
    [s EXCEPT !.last = k,
              !.expReg = IF k \in DOMAIN s.exp THEN s.exp[k] ELSE s.expReg,
              !.gainReg = IF k \in DOMAIN s.gain THEN s.gain[k] ELSE s.gainReg,
              !.exp = IF k \in DOMAIN s.exp THEN <<>> ELSE s.exp, !.gain = Drop(s.gain, k)]

(* handleSofEvent: what was to be set at this SOF goes to the sensor.      *)
HandleSofEvent(s, k) ==
    [s EXCEPT !.last = k,
              !.expReg = IF k \in DOMAIN s.exp THEN s.exp[k] ELSE s.expReg,
              !.gainReg = IF k \in DOMAIN s.gain THEN s.gain[k] ELSE s.gainReg,
              !.exp = Drop(s.exp, k), !.gain = Drop(s.gain, k)]

(* The sensor: what is set between SOF k - 1 and k is used lag frames      *)
(* after k - 1, and what was set before the first SOF from frame 0.        *)
Latch(of, k, lag, v) ==
    IF k = 0 THEN [f \in 0 .. lag - 1 |-> v] ELSE Put(of, k - 1 + lag, v)

(* The sensor streams once CameraDevice::start has waited for the first    *)
(* run, which the waiting is assumed not to time out on.                   *)
Streaming == runs > 1 \/ (runs = 1 /\ run = NoRun)

(* The next frame starts; the event of the one before is over.             *)
HardwareSof ==
    /\ Streaming /\ sof < MaxSof
    /\ pending = FALSE /\ reqSof = sensor.last
    /\ sof' = sof + 1 /\ pending' = TRUE
    /\ expOf' = Latch(expOf, sof + 1, ExposureLag, sensor.expReg)
    /\ gainOf' = Latch(gainOf, sof + 1, GainLag, sensor.gainReg)
    /\ UNCHANGED <<engine, sensor, run, runs, storage, request, counts>>

(* Its event, under mEngineLock: not while 3A runs.                        *)
Sof ==
    /\ pending /\ run = NoRun
    /\ pending' = FALSE
    /\ sensor' = HandleSofEvent(sensor, sof)
    /\ UNCHANGED <<engine, run, runs, storage, request, sof, expOf, gainOf, counts>>

(* SofSource misses the event.                                             *)
LostSof ==
    /\ pending /\ troubles < MaxTroubles
    /\ pending' = FALSE
    /\ troubles' = troubles + 1 /\ lost' = lost + 1
    /\ UNCHANGED <<engine, sensor, run, runs, storage, request, sof, expOf, gainOf, switches,
                   errors, raced, resets>>

(* RequestThread is the second listener of the same event.                 *)
SofToRequestThread ==
    /\ reqSof # sensor.last
    /\ reqSof' = sensor.last
    /\ UNCHANGED <<engine, sensor, run, runs, storage, applying, lastApplied, lastEffect, reported,
                   frames, counts>>

-----------------------------------------------------------------------------
(* The statistics ring.                                                    *)

After(i) == (i + 1) % kAiqStatsStorageSize

(* Mutated form of the next: a slot in use is not skipped.                 *)
InUseNever(i) == FALSE

(* Mutated form of the next: the slot before is looked at.                 *)
InUseBefore(i) == mCurrentAiqStatsIndex # -1 /\ slot[mCurrentAiqStatsIndex].mInUse

InUse(i) == slot[i].mInUse

(* acquireAiqStatistics for the next statistics of a frame the sensor has  *)
(* made.  Skipping the slot in use makes it the current one.               *)
AcquireAiqStatistics ==
    LET next == After(mCurrentAiqStatsIndex)
        free == IF InUse(next) THEN After(next) ELSE next
    IN  /\ decode = -1 /\ lastDecoded < sof
        /\ mCurrentAiqStatsIndex' = IF InUse(next) THEN next ELSE mCurrentAiqStatsIndex
        /\ decode' = free
        /\ lastDecoded' = lastDecoded + 1
        /\ slot' = [slot EXCEPT ![free].mSequence = NoSeq]
        /\ UNCHANGED <<engine, sensor, run, runs, lastUsed, request, frames, counts>>

UpdateAiqStatistics ==
    /\ decode # -1
    /\ mCurrentAiqStatsIndex' = After(mCurrentAiqStatsIndex)
    /\ slot' = [slot EXCEPT ![After(mCurrentAiqStatsIndex)].mSequence = lastDecoded]
    /\ decode' = -1
    /\ UNCHANGED <<engine, sensor, run, runs, lastDecoded, lastUsed, request, frames, counts>>

-----------------------------------------------------------------------------
(* RequestThread: the SOF whose settings the next request gives.           *)

(* Per-frame control: from a new SOF, or from new statistics or an idle    *)
(* pipeline; a sequence earlier settings reach anyhow is left out.         *)
PickFor ==
    /\ mAiqRunningForPerframe /\ applying = NoSeq /\ run = NoRun
    /\ \E target \in {reqSof, reqSof + 1} :
          /\ target = reqSof => target > lastApplied
          /\ lastApplied' = target
          /\ applying' = IF target + ExposureLag <= lastEffect THEN NoSeq ELSE target
    /\ UNCHANGED <<engine, sensor, run, runs, storage, reqSof, lastEffect, reported, frames, counts>>

(* getAndLockAiqStatistics: the slot, or -1.                               *)
LockedSlot ==
    IF mFirstAiqRunning \/ mCurrentAiqStatsIndex = -1 THEN -1
    ELSE IF slot[mCurrentAiqStatsIndex].mSequence = NoSeq THEN -1
    ELSE mCurrentAiqStatsIndex

(* Mutated form of the next: the delay is not looked at.                   *)
DelayAllowsAlways == TRUE

DelayAllows == Size(sensor.exp) + ExposureLag <= kMaxExposureAppliedDelay

(* needRun3A for the run with cca id runs.                                 *)
NeedRun3A(stats) ==
    \/ mAiqRunningForPerframe
    \/ mFirstAiqRunning
    \/ /\ runs % Cadence = 0
       /\ stats # NoSeq
       /\ statsSequence # stats
       /\ DelayAllows

(* getSkippingNum.                                                         *)
SkippingNum(switch) ==
    IF ~mFirstAiqRunning THEN IF switch THEN PipeSwitchSkip ELSE 0
    ELSE IF mAiqRunningForPerframe THEN InitialSkip ELSE 0

(* runAiq and done: the sensor after n + 1 setSensorExposure of run r, the *)
(* first with the given target; publishing the result of each.             *)
Exposed(n, target, r) ==
    LET s[i \in 0 .. n] ==
            IF i = 0 THEN UpdateSensorExposure(sensor, target, r)
            ELSE UpdateSensorExposure(s[i - 1], NoSeq, r)
    IN  s

Recent(q) == IF Len(q) > kStorageSize THEN SubSeq(q, Len(q) - kStorageSize + 1, Len(q)) ELSE q

(* acquireAiqResult invalidates the oldest result of a full ring.          *)
Acquired(q) ==
    IF Len(q) = kStorageSize THEN [q EXCEPT ![1] = [seq |-> NoSeq, run |-> 0]] ELSE q

(* Runs are numbered through all the sessions.                             *)
ThisRun == resets * MaxRuns + runs + 1

(* run3A up to the end of runAiq; runAe fails before setSensorExposure,    *)
(* the other algorithms after it.                                          *)
RunBegin ==
    LET at == LockedSlot
        stats == IF at = -1 THEN NoSeq ELSE slot[at].mSequence
        target == IF mAiqRunningForPerframe THEN applying ELSE NoSeq
    IN
    /\ run = NoRun /\ runs < MaxRuns
    /\ mAiqRunningForPerframe => applying # NoSeq
    /\ runs' = runs + 1
    /\ raced' = (raced \/ (pending /\ AtOnce(sensor, target)))
    /\ slot' = IF at = -1 THEN slot ELSE [slot EXCEPT ![at].mInUse = TRUE]
    /\ lastUsed' = IF stats # NoSeq /\ NeedRun3A(stats) THEN stats ELSE lastUsed
    /\ results' = Acquired(results)
    /\ IF NeedRun3A(stats)
       THEN \/ \E switch \in BOOLEAN :
                 LET n == SkippingNum(switch)
                     s == Exposed(n, target, ThisRun)
                 IN
                 /\ switch => ~mFirstAiqRunning /\ troubles < MaxTroubles
                 /\ switches' = switches + (IF switch THEN 1 ELSE 0)
                 /\ troubles' = troubles + (IF switch THEN 1 ELSE 0)
                 /\ sensor' = s[n]
                 /\ run' = [at |-> "done", stats |-> at,
                            pub |-> [i \in 1 .. n + 1 |-> [seq |-> s[i - 1].seq, run |-> ThisRun]]]
                 /\ UNCHANGED errors
            \/ /\ troubles < MaxTroubles /\ troubles' = troubles + 1 /\ errors' = errors + 1
               /\ sensor' \in {sensor, UpdateSensorExposure(sensor, target, ThisRun)}
               /\ run' = [at |-> "error", stats |-> at, pub |-> <<>>]
               /\ UNCHANGED switches
       ELSE /\ run' = [at |-> "wait", stats |-> at, pub |-> <<>>]
            /\ UNCHANGED <<sensor, switches, errors, troubles>>
    /\ UNCHANGED <<mAiqRunningForPerframe, mFirstAiqRunning, statsSequence,
                   mCurrentAiqStatsIndex, decode, lastDecoded, request, frames, lost, resets>>

(* done publishes the results, and the statistics are let go: the decoder  *)
(* may take their slot from now on.                                        *)
UnLockAiqStatistics ==
    /\ run.at \in Reading
    /\ results' = Recent(results \o run.pub)
    /\ mFirstAiqRunning' = (mFirstAiqRunning /\ run.at # "done")
    /\ slot' = [i \in Slots |-> [slot[i] EXCEPT !.mInUse = FALSE]]
    /\ run' = [at |-> IF run.at = "done" THEN "ran" ELSE "over", stats |-> run.stats, pub |-> <<>>]
    /\ UNCHANGED <<mAiqRunningForPerframe, statsSequence, sensor, runs, mCurrentAiqStatsIndex,
                   decode, lastDecoded, lastUsed, request, frames, counts>>

(* The rest of run3A, with what handleRequest does after it.  The sequence *)
(* recorded is read from the slot as it is by now, and may be -1 or that   *)
(* of statistics decoded since.                                            *)
RunEnd ==
    /\ run.at \in {"ran", "over"}
    /\ statsSequence' = IF run.at = "over" THEN statsSequence
                        ELSE IF run.stats = -1 THEN NoSeq ELSE slot[run.stats].mSequence
    /\ lastEffect' = IF results = <<>> THEN lastEffect ELSE results[Len(results)].seq
    /\ reported' = ~mFirstAiqRunning
    /\ applying' = NoSeq
    /\ run' = NoRun
    /\ UNCHANGED <<mAiqRunningForPerframe, mFirstAiqRunning, results, sensor, runs, storage,
                   reqSof, lastApplied, frames, counts>>

(* AiqUnit::start and clearRequests, between two sessions, with neither    *)
(* frames nor requests under way.  The ring of results stays as it is.     *)
Reset ==
    /\ resets < MaxResets /\ run = NoRun /\ decode = -1 /\ applying = NoSeq
    /\ ~pending /\ reqSof = sensor.last
    /\ resets' = resets + 1
    /\ mFirstAiqRunning' = TRUE /\ mCurrentAiqStatsIndex' = -1
    /\ sensor' = [FreshSensor EXCEPT !.expReg = sensor.expReg, !.gainReg = sensor.gainReg]
    /\ reqSof' = NoSeq /\ lastApplied' = NoSeq /\ lastEffect' = NoSeq
    /\ reported' = FALSE /\ lastUsed' = NoSeq
    /\ sof' = NoSeq /\ expOf' = <<>> /\ gainOf' = <<>> /\ lastDecoded' = NoSeq
    /\ runs' = 0 /\ lost' = 0 /\ switches' = 0 /\ errors' = 0 /\ raced' = FALSE
    /\ UNCHANGED <<mAiqRunningForPerframe, statsSequence, results, run, slot, decode, applying,
                   pending, troubles>>

Next ==
    \/ HardwareSof \/ Sof \/ LostSof \/ SofToRequestThread
    \/ AcquireAiqStatistics \/ UpdateAiqStatistics
    \/ PickFor \/ RunBegin \/ UnLockAiqStatistics \/ RunEnd \/ Reset

Spec == Init /\ [][Next]_vars

-----------------------------------------------------------------------------
(* getAiqResult: the newest result that is not for a later frame; 0: none. *)
GetAiqResult(f) ==
    LET fit == {i \in DOMAIN results : results[i].seq >= 0 /\ f >= results[i].seq}
    IN  IF fit = {} THEN 0 ELSE results[CHOOSE i \in fit : \A j \in fit : j <= i].run

RunIds == 0 .. (MaxResets + 1) * MaxRuns

TypeOK ==
    /\ mAiqRunningForPerframe \in Modes /\ {mFirstAiqRunning, pending, raced} \subseteq BOOLEAN
    /\ statsSequence \in NoSeq .. MaxSof
    /\ sensor.last \in NoSeq .. sof
    /\ DOMAIN sensor.exp \subseteq Nat /\ DOMAIN sensor.gain \subseteq Nat
    /\ {sensor.expReg, sensor.gainReg} \subseteq RunIds
    /\ \A i \in DOMAIN results : results[i].seq \in Nat \cup {NoSeq} /\ results[i].run \in RunIds
    /\ Len(results) <= kStorageSize
    /\ slot \in [Slots -> [mSequence : NoSeq .. MaxSof, mInUse : BOOLEAN]]
    /\ mCurrentAiqStatsIndex \in Slots \cup {-1} /\ decode \in Slots \cup {-1}
    /\ run.at \in Reading \cup {"none", "ran", "over"} /\ run.stats \in Slots \cup {-1}
    /\ sof \in NoSeq .. MaxSof /\ lastDecoded \in NoSeq .. sof /\ lastUsed \in NoSeq .. lastDecoded
    /\ reqSof \in NoSeq .. sof /\ applying \in NoSeq .. sof + 1

(* No SOF lost, no run failed half way, no setting written too late.       *)
Undisturbed == lost = 0 /\ errors = 0 /\ ~raced

(* AiqEngine.h: run3A's effectSeq is the frame the settings take effect    *)
(* on.  Every frame is taken with the exposure of the result getAiqResult  *)
(* gives for it, as long as no SOF is lost and no run fails half way.      *)
EffectOnFrame ==
    Undisturbed /\ run = NoRun =>
        \A f \in DOMAIN expOf :
            ~mFirstAiqRunning /\ GetAiqResult(f) # 0 => expOf[f] = GetAiqResult(f)

(* The lags of exposure and gain differ, and still a frame has both from   *)
(* the same run.                                                           *)
GainsMatchExposure ==
    Undisturbed => \A f \in DOMAIN expOf \cap DOMAIN gainOf : expOf[f] = gainOf[f]

(* What may wait in the exposure map for an SOF that is over is at most    *)
(* one entry per SOF lost.                                                 *)
OnlyLostSofsLeak == Cardinality({k \in DOMAIN sensor.exp : k <= sensor.last}) <= lost

(* Without per-frame control the settings waiting never reach further      *)
(* ahead than kMaxExposureAppliedDelay and one run, whatever SOFs do, but  *)
(* for failed first runs and for the results skipped at a mode change.     *)
AppliedDelayBounded ==
    ~mAiqRunningForPerframe =>
        Size(sensor.exp) + ExposureLag
            <= kMaxExposureAppliedDelay + 1 + errors + PipeSwitchSkip * switches

(* The processing unit never decodes into the statistics a run has locked. *)
(* (AiqEngine.cpp:126 reads their sequence once more after unlocking them, *)
(* which this leaves out: it may then read another.)                       *)
ReaderSafe == decode # -1 /\ run.at \in Reading => decode # run.stats

(* The frames reported never run backwards within a session, so the        *)
(* newest-first search finds the right one.                                *)
EffectNeverRegresses == [][reported /\ reported' => lastEffect' >= lastEffect]_vars

(* Within a session 3A never runs with statistics older than those it last *)
(* ran with, though a slot in use that is skipped becomes the current one, *)
(* and though what run3A records of them may be wrong.                     *)
StatisticsNeverRegress == [][resets' = resets => lastUsed' >= lastUsed]_vars

(* AiqResultStorage.h:94-96: getAndLockAiqStatistics returns "the latest   *)
(* AIQ statistics".  Skipping a slot in use makes older ones the current.  *)
LatestStatistics ==
    [][run = NoRun /\ run'.stats # -1 /\ resets = 0
         => \A i \in Slots : slot[i].mSequence <= slot[run'.stats].mSequence]_vars

(* AiqResultStorage.h:136: "Always use the latest" statistics.  needRun3A  *)
(* holds a run off when their sequence is the one recorded, which is to    *)
(* say that 3A has run with them.                                          *)
NewStatisticsUsed ==
    [][run = NoRun /\ run'.at = "wait" /\ run'.stats # -1
         /\ statsSequence = slot[run'.stats].mSequence
           => statsSequence = lastUsed]_vars
=============================================================================
