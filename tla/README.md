# TLA+ models of the IPU7 camera HAL

This directory holds TLA+ specifications of the concurrent core of the camera
HAL, TLC configurations that check them on small instances, and proofs that
the TLA+ proof system checks for every value of the constants. `PROJECT.json`
lists the runs, which lines of the source each definition models, the mutated
definitions each property is known to notice, the hazards of the code, the
findings and the theorems.

    tlc -config RequestThread_pfc.cfg RequestThread.tla
    tlapm RequestThreadProofs.tla        (and so for each *Proofs module)

Paths below are relative to `src/`; `core/` and `3a/` stand for `src/src/core/`
and `src/src/3a/`.

## 1. The system

A camera device serves one application (through `hal/` or through the libcamera
pipeline handler in `libcamera/`). The application configures streams, queues
requests (one buffer for each stream it wants) and dequeues filled buffers. Many
threads carry a request from one to the other:

    application ---- qbuf ----> RequestThread ---- run3A ----> AiqUnit/AiqEngine
        ^                        |   ^   ^                        |        ^
        | dqbuf                  |   |   | SOF, statistics,       | exposure,
        | (waitFrame)            |   |   | frame events           | gain   | statistics
        |                        v   |   |                        v        |
    output queues <-- frames -- CameraStreams --> ProcessingUnit --> PipeManager
                                                      ^   |
                                         raw frames   |   |  raw buffers (qbuf)
                                                      |   v
                                  SofSource       CaptureUnit --> V4L2 driver, sensor

| Part | State it keeps | Operations | Talks to |
|---|---|---|---|
| `RequestThread` | pending requests, count in processing, trigger bits, last cca id, last sequences applied, seen and in effect, `mBlockRequest`, first-request flag, output queue of each stream | `processRequest`, `handleEvent`, `threadLoop`, `clearRequests`, `configure`, `waitFrame`, `wait1stRequestDone`, `requestStop` | calls the 3A unit and `CameraDevice::handleQueueBuffer`; is called by the application's threads and by all event sources |
| `CameraDevice` | life cycle `UNINIT .. STOP`, the streams, `mDeviceLock` | `configure`, `start`, `stop`, `qbuf`, `dqbuf`, `deinit` | owns all the units, starts and stops them in order |
| `AiqUnit`, `AiqEngine` | a state, first-run flag, per-frame flag, the statistics last used | `run3A`, `handleEvent` (SOF), `reset` | reads statistics, writes the sensor through `SensorManager`, publishes results in `AiqResultStorage` |
| `SensorManager` | last SOF, maps of exposures and gains that wait for an SOF | `handleSofEvent`, `updateSensorExposure` | the sensor's controls |
| `AiqResultStorage` | ring of results, ring of statistics with an in-use flag | acquire, update, get | 3A writes and reads it, the processing unit reads results and writes statistics |
| `CaptureUnit`, `DeviceBase` | state, exit flag, flush pipe; pending buffers, buffers in the device, queueing flag, frames to skip | `configure`, `start`, `stop`, `qbuf`, `poll` | V4L2 driver; gets buffers from and gives frames to the processing unit |
| `ProcessingUnit`, `BufferQueue`, `CameraBuffer` | queues of each input and output port, tasks | `qbuf`, `onBufferAvailable`, `prepareTask`, `processNewFrame` | between `CaptureUnit`, the pipe and the streams |
| `PipeManager`, `PipeLine`, stages (`CBStage`, `SWStage`, ...) | tasks and how many stages each still needs, connections of the stages | `addTask`, `onTaskDone`, `onStatsReady` | `PSysDevice`, `CameraScheduler` |
| `CameraScheduler` | executors, the nodes registered, a trigger tick | `executeNode`, executor threads | calls the stages |
| `CameraStream` | pool of buffers, count in processing | `qbuf`, `onBufferAvailable`, `stop` | hands buffers to the processing unit, frame events to `RequestThread` |
| `SofSource`, `CsiMetaDevice` | a poll thread and a flush pipe each | start, stop, poll | source of SOF events, of embedded data |
| `CameraContext` | maps of settings by cca id, frame number, sequence | update, get | filled by `RequestThread`, read by the pipe |
| privacy (`InputEventMonitor`, backup producer) | switch state | `switchToBackup` and back | takes `mDeviceLock` from a thread of its own |
| libcamera handler (`libcamera/ipu7.cpp`, `Frames.cpp`) | pending requests, pool of request records, counters of buffers in progress, which source is started | `handleNewRequest`, `processNewRequest`, the result thread's events, `processPrivacySwitch`, `stop` | the HAL as a library, the source of black frames |
| `PrivacyControl`, `HwPrivacyControl` | requests and black frames, state of the shutter | start, stop, `qbuf`, two threads | takes the device's place in the handler |
| IPA client and server | shared memory, pending replies | synchronous calls over messages | the closed 3A library in another process |
| conversions, platform data, metadata, JPEG, image processing, face detection, V4L2 wrappers, generated graphs | data | - | sequential; not the concern of a model |

What makes the system hard:

- a request is started by whichever of four events comes first (SOF, statistics,
  finished frame, new request) and by a rule that differs with per-frame control;
- nearly every object has several lock sections in one operation, and the state
  read in one is used in the next;
- `stop` empties queues and resets numbers while events of the old session are
  still on their way and a request may be half handled;
- 3A settings take effect some frames after they are written, exposure and gain
  with different lags, and SOF events that time them can be lost;
- buffers circulate between the application, a pending list, the driver and the
  pipe, each end being driven by a thread of its own.

What must hold, part by part: no request is lost, doubled or overtaken; the limit
of requests in flight is kept; nobody sleeps on work that is there; each frame is
taken with the settings the HAL reports for it; no raw buffer is lost and the
driver's order is the list's; stop and deinit return and release whoever waits.
`hazards` in `PROJECT.json` lists where the code is exposed to each.

## 2. Modules

| Module | Models | Composed with |
|---|---|---|
| `RequestThread` | `core/RequestThread.cpp`, the calls of `core/CameraDevice.cpp` on it, and the events of the pipe as environment | - |
| `RequestThreadProofs` | theorems about it: the limit, wakeups and sequences; the order and the counts | extends `RequestThread` |
| `OutputFrames` | the output queues of `RequestThread`, `dqbuf`, `clearRequests` and `requestStop` as they see them | shares only `mState` with `RequestThread` |
| `OutputFramesProofs` | theorems about it | extends `OutputFrames` |
| `MCOutputFrames` | which consumer reads which stream, for TLC | extends `OutputFrames` |
| `CaptureUnit` | `core/CaptureUnit.cpp`, `core/DeviceBase.cpp`, the driver's queue, and the start and stop of `CameraDevice` around them | - |
| `CaptureUnitProofs` | theorems about it: types, sessions, list and driver, the limit; places of the buffers and who moves them on | extends `CaptureUnit` |
| `AiqEngine` | `3a/AiqEngine.cpp`, `3a/SensorManager.cpp`, `3a/AiqResultStorage.cpp`, the sensor's lags, and the choice of sequence by `RequestThread` | - |
| `AiqEngineProofs` | theorems about its statistics, and about the way of settings to frames | extends `AiqEngine` |
| `FrameService` | the abstract service of the image pipeline: what the application gets for its requests | - |
| `ProcessingUnit` | `core/ProcessingUnit.cpp`, `core/BufferQueue.cpp`, `PipeManager`, `CBStage`, `CameraScheduler`, the poll threads of `PSysDevice`; the capture unit and the request thread as environment | instantiates `FrameService` and implements it |
| `ProcessingUnitProofs`, `RawFrameProofs`, `FrameServiceProofs` | theorems about it: ways back of raw buffers, frames in flight; the work of the pipes and who reads a raw buffer; that it implements `FrameService` | each extends the one before, the first `ProcessingUnit` |
| `MCProcessingUnit` | the scenarios TLC checks | extends `ProcessingUnit` |
| `LibcameraPipeline` | `libcamera/ipu7.cpp`, `Frames.cpp`, `PrivacyControl.cpp`, `HwPrivacyControl.cpp`; the device as far as the handler sees it | what it sees of the device is what `OutputFrames` and `ProcessingUnit` do: events in order, frames kept for `dqbuf` |
| `LibcameraPipelineProofs` | theorems about its records, completions and stop, its counters and the switch of the source | extends `LibcameraPipeline` |
| `MCLibcameraPipeline` | the scenarios TLC checks | extends `LibcameraPipeline` |

An operator whose comment calls it a mutated form is not part of the model: it is
a plausible slip in the code (a dropped notification, an off-by-one, a missing
reset) that replaces the definition named beside it in `PROJECT.json`, to see that
the property fails then.

### RequestThread

One action is one section of `mPendingReqLock` (or `mFirstRequestLock`), together
with the thread-local code after it. `pc` says where `threadLoop`/`handleRequest`
is between two sections, `client` where the application's thread is.

| Actions | Code |
|---|---|
| `Top`, `Block`, `WaitTimeout`, `SpuriousWakeup`, `StillBlocked`, `PickAtOnce`, `PickAfterWait` | `threadLoop` up to the choice of `applyingSeq`; the wait on `mRequestSignal` is a state, a notification moves the thread out of it |
| `Fetch` | `fetchNextRequest` |
| `HandleSeq`, `HandleCca`, `Run3A`, `HandleSettle`, `HandleNotify`, `HandleFirst` | `handleRequest`, section by section |
| `ClearTrigger` | the last section of `threadLoop` |
| `Qbuf` | `CameraDevice::qbuf` and `processRequest` |
| `StartWait`, `StartWaitTimeout`, `StartLocked` | `CameraDevice::start` with `wait1stRequestDone` |
| `Stop`, `ClearPending`, `StopAiq`, `StopSources` | `CameraDevice::stop`: `clearRequests` first, then 3A and, in `stopLocked`, the sources |
| `Configure` | `configure` |
| `Close`, `StopAiq`, `StopSources`, `SetExit`, `ClearPending`, `NotifyExit`, `Join` | `deinit`: 3A and the sources first, then `requestStop` |
| `SofStart`, `SofToAiq`, `HandleSof` | an SOF and its two listeners, 3A first |
| `FrameEvent`, `HandleIsysFrame`, `HandlePsysFrame`, `HandleStats` | the branches of `handleEvent` |
| `HandleFrameAvailable`, `InsertFake` | the stream's frame event and the fake request it may insert, which is a lock section of its own |

The pipe below the streams is the environment: `inFlight` holds for each request
handed over the events it still owes (statistics, a frame for each stream, the end
of the request), which may come in any order. A run of 3A is one step that may
fail; the frame it takes effect on follows `SensorManager`'s formula with any size
from `QueuedExposures`.

Ghost variables (`accepted`, `sessionBase`, `firstDone`, `straddled`, `dispatched`)
only serve the properties; no guard reads them but for bounds.

Assumption: frames come from ISYS or from a file, so that `mSofEnabled` is true
(`core/RequestThread.cpp:49` and 460).

### OutputFrames

`waitFrame` is split at its wait: a consumer is calling, waiting, woken, timed out
or done. `HandleFrameAvailable` notifies one waiter, and only if the queue was
empty; `ClearStream` is one turn of the loop in `clearRequests`. `dqbuf` repeats on
a timeout.

### CaptureUnit

One action is one section of `mBufferLock`, or one call of the driver; the
threads (application, poll thread, returners of the processing unit) run
`processPendingBuffers` (`size`, `pending`, `front`, `put`, `move`, `clear`, `next`)
at once. The driver is a FIFO of which the first `done` buffers are filled. The
poll thread runs `poll` and `dequeueBuffer` (`enter`, `wait`, `first`, `grab`,
`pop`, `deliver`). `PutFrame` fails for a buffer the driver still has, and up to
`MaxPutFails` times for no reason. `ctl` is where `CameraDevice::start`/`stop` is:
producer first, processing unit after, so returners queue buffers during a stop.

### AiqEngine

`run3A` holds `mEngineLock` throughout, so it is atomic but for the statistics it
locks. `RunBegin` locks and computes, `UnLockAiqStatistics` publishes the result and
lets the slot go, and `RunEnd` records which statistics were used, which the code
reads from the slot after it let it go: the decoder's thread may have taken the slot
by then. The ghosts `lastUsed` (the sequence the run really had) and `reported` serve
the properties only. Settings are told apart by the number of the run
that computed them. The sensor is two registers and the rule of when it takes them
over: what is written between SOF `k - 1` and `k` is used in frame
`k - 1 + lag`. `HardwareSof` is the sensor's start of frame, `Sof` the event that
`SensorManager` handles, `LostSof` the event that never comes.

Assumptions of this module:
- an SOF event is handled, or lost, before the next SOF;
- the sensor starts after the first run of 3A (`wait1stRequestDone` does not
  time out);
- `AiqRunningInterval` is 1, analog and digital gain are one value, and gain
  takes at least one frame;
- the closed 3A library is a run number: what it computes is of no concern.

### ProcessingUnit and FrameService

`FrameService` is what the application may rely on: each stream's requests are
answered in order, each once, with the first usable frame that their settings are
effective on (or, to reprocess, with the frame named or a later one).
`ProcessingUnit` implements it under the mapping at the end of the module:
`requests` and `captured` are themselves, `skip` is the scenario's, `served` is what
was returned, without what the fake tasks of TNR return. `ServesFrames` is the
refinement, `Answers` the progress of the service.

| Actions | Code |
|---|---|
| `Capture`, `LoseFrame` | `CaptureUnit` gives a frame to `onBufferAvailable`, or the sensor loses one |
| `NewRequest`, `HandleQueueBuffer` | the request thread: the setting's sequence, then one `qbuf` per stream, a null buffer where nothing is wanted |
| `ProcessNewFrame`, `NothingToPrepare`, `ExecuteNode` | `processNewFrame`: fronts of the queues, or the timeout; the trigger at its end |
| `SaveRawBuffer`, `TrimRawBuffers` | `saveRawBuffer`, `returnRawBuffer` |
| `PrepareTask` | `prepareTask`: run, hold and skip, which queues are popped, which tasks follow |
| `FetchSource` | `handleExtraTasksForTnr`, `handleZslReprocessing`, and the main task's own frame |
| `DispatchTask`, `AddTask` | `dispatchTask`, `PipeManager::addTask` with `queueBuffers` |
| `WaitTimeout`, `Process` | an executor of `CameraScheduler`, `CBStage::process` |
| `HandleEvent`, `OnBufferDone`, `PopTask` | the poll thread of `PSysDevice`, `CBStage::bufferDone`, `PipeManager::onBufferDone` |
| `OnTaskDone`, `EraseSequence`, `TrimAfterTask` | `ProcessingUnit::onTaskDone` in its three lock sections |

A pipe is a stage with an executor and a poll thread, and each output port belongs
to one. A raw buffer is read from when its task is queued to the stage until the
hardware is done with it (`Reading`); that is more than the hardware's own time and
is what the code must keep the sensor from. The lists of tasks are locked as in the
code: `mBufferMapLock` over `handleZslReprocessing`, the stage's list over the
callbacks of `bufferDone`.

Assumptions: one input port; a request to reprocess names a frame the application
was told of; raw buffers are alike, so `Capture` fills the lowest one; no
`callbackRgbs` (`3a/AiqSetting.cpp:94` clears it and nothing sets it), so metadata is sent
when the task is dispatched.

### LibcameraPipeline

One action is one section of a lock or one call into the source.

| Actions | Code |
|---|---|
| `HandleNewRequest`, `WaitAllRequestsDone`, `StopPrivacy`, `JoinPrivacy`, `ClearRequests`, `StopStream`, `DeviceConfigure`, `ClearStarted`, `FlipPrivacy`, `PushRequest` | the capture thread: `handleNewRequest` with `processPrivacySwitch` |
| `Stop`, `ExitThreads`, `JoinResult` | `stop`, which halts the source as a switch does |
| `NothingToProcess`, `CreateInfo`, `CountBuffers`, `QueueBuffers`, `StartSource`, `PopPending` | `processNewRequest` with `qbuf`, by either thread, under `mMutex` |
| `ShutterReady`, `MetadataReady`, `DequeuePrivacy`, `DequeueDevice`, `Dequeued`, `CompleteBuffer`, `Recycle`, `CompleteRequest` | the result thread's events, `dqbuf`, `returnRequestDone` |
| `DispatchTask`, `SendMetadata`, `FrameAvailable` | the device: shutter with the dispatch, metadata and frames after it in any order |
| `TakeCaptureRequest`, `PrivacyTell`, `PrivacyFrame`, `MoveShutter` | the threads of `PrivacyControl` (a request taken under `mLock`, its events and frames sent without) and `HwPrivacyControl` |

`device.bound` is whether the device's processing unit and executors are those that
`start` set up. `DeviceConfigure` makes new ones, which have no listeners
(`bindListeners` is only called in `start`) and are never started: `Notify` then
reaches nobody, and no task runs.

Whether the shutter is closed when the camera is opened is free. Assumption: the
application queues no more requests at once than the pool has records
(`kMaxProcessingRequest`, 10 in the code); what happens otherwise is under Findings.

## 3. Runs

| Run | Question | Answer |
|---|---|---|
| `rt_pfc` | per-frame control: are limit, count, wakeups and sequences right against every order of events? | holds |
| `rt_stop` | what is dropped and what stays consistent across a stop and a restart, with and without a configure? | holds |
| `rt_close` | is every accepted request served or dropped, and does deinit return? | holds under fairness |
| `out_frames` | is every `dqbuf` woken for its frames and released by deinit? | holds |
| `cap_run` | raw buffers with failures, bad and skipped frames, three threads queueing | holds |
| `cap_stop` | do frames keep coming, does stop return? | holds under fairness |
| `aiq_run` | settings and frames, statistics, leaks, bounds of the delay | holds |
| `pu_run` | are raw buffers neither reused early nor lost, and does the pipeline implement `FrameService`? | holds, the progress under fairness |
| `lc_run` | do records, counters and sources of the handler agree through switches of the source and a stop, and is every request completed in full? | holds, the completion under fairness, but for requests to a device that was configured anew |
| `cap_pop`, `pu_raw`, `lc_return` | statements of comments and headers the code does not meet | violated, see Findings |

What each property says is in the comment above it. The ones that say most:

- `InOrderNoLoss`: what is pending or in the request thread's hands is exactly
  the unbroken sequence of requests accepted since the last `clearRequests` and
  not handed to the streams.
- `InFlightExact`: the saturating counter is the number of requests really in
  the pipe, unless a stop fell into the handling of one.
- `OneRequestPerSof`, `NewSofServed`: the sequences requests are applied to.
- `NoLostWakeup`, `ConsumerAwake`, `NoLostKick`: nobody sleeps on work.
- `DriverAgrees`: `dequeueBuffer` pairs the driver's buffer with the front of its
  own list, so the two must be in the same order in every intermediate state.
- `EffectOnFrame`, `GainsMatchExposure`: the frame a result is reported for is
  the frame taken with it, in exposure and gain, through three lags.
- `OnlyLostSofsLeak`, `AppliedDelayBounded`: entries that wait for an SOF that
  is over are as many as the SOFs lost, and without per-frame control the
  waiting never reaches further than the limit and one run.
- `EffectNeverRegresses`, `StatisticsNeverRegress`: neither settings nor
  statistics go back in time, through failing runs and slots in use.
- `RawSafe`, `RawNotLost`, `ProducerNotStarved`: a raw buffer has one place at a
  time among producer, queues, kept frames and tasks, and there is a way back.
- `ServesFrames`, `Answers`: the pipeline implements the abstract service,
  although triggers of the executors are lost.
- `InProgressExact`, `BuffersInSource`, `SwitchedQuiet`: what a switch of the source
  waits for is what the sources really have, so each event finds its buffer.
- `RecordsAccounted`, `CompletedInFull`, `AllServed`: no record of a request is
  lost, and requests are completed once, with everything they asked for.
  `AllServed` leaves out one case: the device is the source again and was configured
  anew since (`lc_return`).
- `StopIsFinal`: after stop no source runs and, if the camera was started, the result
  thread has ended. A stop that finds it not started ends no thread
  (`libcamera/ipu7.cpp:361`).

### Bounds

Each is a constant named `Max...` in the guards.

- `RequestThread`: two requests are enough for one to
  be in the thread's hands with another pending at the limit; frame numbers from
  `MaxSof` on are not told apart; one stop gives an old and a new session; one
  fake request. Stop, per-frame control and
  fairness are separate runs, since together they do not finish.
- `OutputFrames`: two consumers on one stream and one on another; three frames,
  so that two quick ones meet two sleepers; one stop and then deinit.
- `CaptureUnit`: four buffers and two in the device, so that the pending list has
  two with the device full; one returner beside the poll thread and the main
  thread; one failing put, one bad frame and one skipped frame. The run with a
  stop has two buffers and the fairness.
- `AiqEngine`: lag 2 for exposure, 1 for gain (the smallest where they differ);
  four frames and three runs, so that the first settings of steady operation take
  effect; a ring of three results, so that it wraps; one trouble among lost SOF,
  failing run and tuning mode change, and one restart. Two troubles with three
  frames, and four runs without restart, were run and hold too.
- `ProcessingUnit`: two streams, two raw buffers of which one may be kept, two
  tasks in the hardware, three sequences and two requests: the two requests can
  share a frame, wait for a later one, or be in different pipes at once. The
  scenario fixes one trouble for a behaviour (`EachTrouble`): one pipe with a lost
  frame, a gap between settings or a frame to skip; two pipes; two pipes with ZSL.
  Two pipes with a lost frame are `pu_raw`, which violates `RawSafe`.
- `LibcameraPipeline`: two streams, two records, two requests at once and three in
  all, so that a record is used again; the shutter moves up to three times, so that
  the source is switched there and back with a request on each side, whichever it was
  at first, and the camera may be stopped anywhere. Four requests were run as well:
  with moves and stop apart, and together when each request wants both streams.

`CHECK_DEADLOCK FALSE` stands where the bounds exhaust the client's calls and the
system has nothing left to do.

### Fairness

- Threads go on: each thread's steps are weakly fair, for a thread that holds or
  can get a lock is scheduled. A call that has begun (start, stop, deinit) goes on;
  nobody has to begin one, except that a client that queued a request also starts
  the device in `rt_close`.
- The sensor makes frames, the driver fills the buffers it has, the pipe
  finishes what it was given. The request thread cannot do without them, and
  hardware that stops is outside these models.
- The executors and poll threads of `ProcessingUnit` are fair each for itself, for
  each is a thread. An executor's timeout counts among its steps: without it a lost
  trigger is only made good by the next frame. Nobody has to take a frame or to
  queue a request, but one begun is queued to all its streams.
- `LibcameraPipeline`: the two threads of libcamera, the device and the privacy
  thread go on; the application need not ask for anything.
- `StopSources` of `RequestThread` is strongly fair: it joins threads that were told
  to end before. In the model the source makes SOFs until it is joined, so the join
  is enabled again and again rather than for good; in the code the last event ends
  and the join returns.
- Timeouts of the waits are not fair in `OutputFrames` and `CaptureUnit`: the
  properties hold without their help. In `RequestThread` the request thread's
  timeouts count among its steps; they only make it look again.

## 4. Findings

Three statements of the repository do not hold of the code and have a run whose
expected result is the violation (details, with the quoted lines, under `findings`):

1. `cap_pop`: `resetBuffers` in the middle of `queueBuffer`
   (`core/DeviceBase.cpp:175`, `DeviceBase.h:138`).
2. `pu_raw`: after a lost frame two requests share the next one, and the task of
   the second gives the raw buffer back while the other pipe reads it for the first
   (`core/ProcessingUnit.cpp:1038`).
3. `lc_return`: the switch to black frames configures the device anew, without
   listeners and started executors; once the shutter is open again no request is
   completed, and the next switch waits for ever (`libcamera/ipu7.cpp:671`, against
   the call sequence of `scheduler/CameraScheduler.h:33`).

Eight more are stated in the modules, and TLC finds each violated. To see one, change
the constants of the cfg named and give it as the only `INVARIANT`, or `PROPERTY` if
it is one of `AiqEngine`:

| Property | cfg and constants | Statement of the code |
|---|---|---|
| `FirstRequestNotBlocked` | `RequestThread_stop` with `MaxRequests = 2`, `Kinds = {"video"}` | a stop between fetching a request and numbering its 3A run makes it the new session's run 0, and the new session's first request waits for statistics (`core/RequestThread.cpp:176` and 453) |
| `NoStatsNoBlock` | the same with `EnableAiq = FALSE`, `MaxRequests = 3` | `clearRequests` sets `mBlockRequest` though `configure` found that there are no statistics (`core/RequestThread.cpp:116` and 133) |
| `OneFake` | `RequestThread_pfc` with two streams, `MaxRequests = 1`, `MaxFakes = 2` | two streams' frames insert the one fake buffer twice (`core/RequestThread.cpp:324`) |
| `PollThreadRuns` | `CaptureUnit_stop` with `NumBuffers = 3`, `InitialSkip = 0` | the poll thread may end right after a restart (`core/CaptureUnit.cpp:195`, `CaptureUnit.h:100`) |
| `LatestStatistics` | `AiqEngine` with `MaxTroubles = 0`, `MaxResets = 0` | skipping a statistics slot in use makes an older one current (`3a/AiqResultStorage.cpp:44`, `AiqResultStorage.h:94`); `StatisticsNeverRegress` holds all the same |
| `NewStatisticsUsed` | the same with `Modes = {FALSE}` | a run records the sequence of its statistics after it let their slot go; if the slot is filled again in between, the new statistics pass for used (`3a/AiqEngine.cpp:126`, `AiqResultStorage.h:136`) |
| `MetadataFromSource` | `LibcameraPipeline_run` | the source is switched after the last buffer, not after the last metadata, so a request's metadata may be read from the wrong source (`libcamera/ipu7.cpp:675`) |
| `StartedByCapture` | `LibcameraPipeline_run` | after a switch the result thread may be the one that starts the camera and sets `mCameraStarted` (`libcamera/ipu7.cpp:631` and 360) |

Also met while modelling, without a run of their own:

- `wait1stRequestDone` may return before the first request is done, after a
  timeout or because a stop left the flag of the session before
  (`core/RequestThread.h:61`; `FirstRequestDone` states it).
- `CameraDevice::stop` zeroes the count of requests in processing also when the
  device was never started, but stops the pipe only if it was
  (`core/CameraDevice.cpp:848-866`): requests already handed to the streams come
  back in the next session and lower its count. `RequestThread_pfc.cfg` with
  `MaxStops = 1` violates `InFlightExact`.
- After a stop, an SOF event still on its way leaves its number in `mLastSofSeq`
  for the new session (`core/RequestThread.cpp:303`); `NewSofServed` is for one session.
- Frames delivered after `clearRequests` stay in the output queue for the next
  session (`core/CameraDevice.cpp:853`).
- With two consumers of a stream, the second of two quick frames wakes nobody
  (`core/RequestThread.cpp:316`).
- The device can have more buffers than `mMaxBuffersInDevice`, for the size is
  tested in another section (`core/CaptureUnit.h:154`); `DeviceBounded` has the
  bound that holds.
- A `qbuf` after stop is over leaves a buffer in the driver, and the same index
  fails in the next session (`core/CaptureUnit.cpp:321`).
- A first run that fails after a restart reports the last session's sequence as its
  own (`3a/AiqEngine.cpp:130`).
- Settings written at once while the next SOF's event is waiting take effect a
  frame later than reported (`3a/SensorManager.cpp:224-228`).
- With TNR, a kept frame is looked up in one section and marked in flight in
  another (`core/ProcessingUnit.cpp:862`), so it may go back to the producer in
  between: `ProcessingUnit_raw.cfg` with `TnrFrames = 2`, `NumRaw = 3` and
  `Scenarios <- {Zsl}` violates `RawSafe`. Its fake tasks also return the still's own
  buffer to the application before the still is in it.
- A frame left to the next request, for it is newer than the settings of its own, goes
  back to the producer at once if it is older than the settings of the next
  (`core/ProcessingUnit.cpp:761`), although a pipe may still read it:
  `ProcessingUnit_raw.cfg` with `OnePipe`, a lost frame and `gaps |-> {1, 2}` violates
  `RawSafe`.
- With two still streams the frame's own task, after a reprocessing task, leaves out the
  buffer of the first only (`core/ProcessingUnit.cpp:806`): the second still is written
  and returned twice. libcamera offers two still streams (`libcamera/ipu7.cpp:120`),
  `ProcessingUnit::configure` (line 86) plans for one. Three ports of which two are
  stills, with ZSL, violate `ServesFrames`.
- With a frame to skip and two pipes, `PipeManager::onBufferDone` finds the task by
  its user buffer, which two tasks then share (`PipeManager.cpp:685`).
- If the application queues more requests than there are records, the result
  thread may queue one while `stop` is under way, and the camera is started again:
  `LibcameraPipeline_run.cfg` with `kMaxProcessingRequest = 1`, `MaxRequests = 3` and one
  stream violates `StopIsFinal`, `SwitchedQuiet` and `CompletedInFull`
  (`libcamera/ipu7.cpp:360` and 491).
- A stop that finds the camera not started, for no request came since the start or the
  last switch, returns at once (`libcamera/ipu7.cpp:361`): the result, request and
  scheduler threads run on, and the listeners stay bound.
- After a stop of the handler the records of dropped requests stay in
  `mProcessingRequests`, the counters stay raised and pending requests stay queued.
- `HwPrivacyControl` watches the shutter only once `PrivacyControl` was started
  (`libcamera/PrivacyControl.cpp:57`): a camera opened with the shutter open does
  not notice it closing.
- A poll error other than a timeout ends the SOF thread (`core/SofSource.cpp:207`), and
  the destructor of `CameraDevice` stops the privacy thread while it holds the
  `mDeviceLock` which that thread wants (`core/CameraDevice.cpp:94`).
- The IPA client waits without a predicate and is notified in a later section than
  the one that stores the answer (`libcamera/ipa/client/IPAClientWorker.cpp:57`).

## 5. Proofs

Every theorem is about `Spec` and holds for every value of the constants that the
`ASSUME`s of the component's module allow; a further hypothesis is in the theorem.
Each rests on an inductive invariant that was first checked with TLC as an
`INVARIANT` of the component's run. A step of the induction has one part per action.

`RequestThreadProofs`:

| Theorem | States | Argument |
|---|---|---|
| `TypeCorrect` | `[]TypeOK` | inductive as it stands, by parts: the queue, the thread, the rest |
| `LimitKept` | `[]InFlightBounded` | not inductive: `FlightInv` adds that the thread has room when it is about to fetch. Nobody else raises the counter, so room seen in one section is still there in the next |
| `WakeupsKept` | `[]NoLostWakeup`, with 3A enabled | inductive: every action that can make `blockRequest` false also wakes the thread |
| `SofsServed` | `NewSofServed`, for one session | `SessionInv` (before start there is no SOF) and `SofInv` (settings are at most one frame ahead of the last SOF seen, and an SOF under way is newer than that) |
| `OneRequestEachSof` | `OneRequestPerSof`, for one session | from the same invariant |

Two hypotheses are needed and real. Without 3A, `configure` clears
`mBlockRequest` and notifies nobody, so a sleeping thread waits for its timeout.
With a stop, `NewSofServed` fails (see Findings).

In the second part of the module, on top of the first:

| Theorem | States | Argument |
|---|---|---|
| `OrderKeptNoneLost` | `[]InOrderNoLoss` | `OrderInv`: the request in hand, if it is of this session, is the next to be dispatched, and the pending ones follow it without a gap. `ExitInv`: nobody comes back from `EXIT`, after which requests are dropped |
| `CountExact` | `[]InFlightExact`, with per-frame control and for one session | `ExactInv`: the counter is the number of requests whose end is still owed (`Cardinality` of a set that grows by dispatch and shrinks by an end) and the one in hand. It needs `FlightInv`, so that the saturation is never reached, and `StreamAssumption`: no stream has the name of another event |

`OutputFramesProofs`, for any assignment of consumers to streams:

| Theorem | States | Argument |
|---|---|---|
| `OutputTypes` | `[]TypeOK` | inductive as it stands |
| `ConsumersLetGo` | `[]ReleasedOnExit` | whoever sets `EXIT` notifies all in the same section, and the wait is entered in a section that tests it |
| `LoneConsumerAwake` | `[]ConsumerAwake` | inductive with the types: a queue becomes non-empty only together with a notification, and the only waiter gets it |

`CaptureUnitProofs`, for any number of buffers and threads. The assumptions are a
limit of at least two buffers in the device (`core/CaptureUnit.cpp` computes no
less), finitely many threads of the processing unit, and that those, the starting
thread and the poll thread differ.

| Theorem | States | Argument |
|---|---|---|
| `CaptureTypes` | `[]TypeOK` | `TypeInv` adds what a thread holds when it uses it: a buffer in hand before a put or a move, a grabbed one before it is popped or delivered |
| `OneQueuesAtATime` | `[](\A t, u \in Queuing : t = u)` | `OneQueuer`: a thread between the front buffer and the clearing of `mBufferQueuing` is alone there, and the flag is up |
| `ListIsDriver` | `[]DriverAgrees` | `AgreeInv`: list and driver are equal but for one buffer at each end, the one put and not yet moved, the one grabbed and not yet popped. It needs `OneQueuer` for the first and the poll thread's place for the second |
| `RoomKeptInDevice` | `[]DeviceBounded` | `RoomInv` counts the buffers in the device together with the threads past the test of the size. Whoever passes it last found room, so only the others can be over the limit |

The last three need `SessionInv`: where the threads can be while `CameraDevice` starts
and stops. With it the poll thread is gone before `ResetBuffers`, and `main` queues
only while no other thread runs, which is why `RoomInv` may count either `main` or
the others. `DriverAgrees` is not inductive across a stop: `AgreeInv` adds that
between stream off and the next session an empty driver means an empty list and
nobody about to move a buffer.

In the second part of the module, on top of the first:

| Theorem | States | Argument |
|---|---|---|
| `EveryBufferInPlace` | `[]NoBufferLost` | `PlacesInv`: the occurrences of a buffer in the two lists, in the poll thread's hand and in the pipeline add up to one. `HeadHeld`: whoever is between the front buffer and its move still has the front of the pending list in hand, so the move takes out what it puts in. `AgreeInv` says that what is popped is what was grabbed |
| `NobodySleepsOnWork` | `[]NoLostKick` | `StateInv` (a thread queues only in a state that allows it) and `KickInv`: if the device has room for a pending buffer and no put has failed, some thread is inside `processPendingBuffers` and will look at the size again. That a put cannot fail otherwise needs `PlacesInv`: a buffer in hand is not in the driver |

`AiqEngineProofs`, for a ring of three slots or more (`kAiqStatsStorageSize` is 3):

| Theorem | States | Argument |
|---|---|---|
| `SlotNotOverwritten` | `[]ReaderSafe` | `ReadInv`: a slot is in use exactly while a run is between the lock and `UnLockAiqStatistics`, and the slot being decoded is the one after the current one or, if that is read, the one after it. What the run reads of the slot afterwards is not covered, and may be spoilt (`NewStatisticsUsed`, see Findings) |
| `StatisticsNotOlder` | `StatisticsNeverRegress` | `AgeInv`: what 3A last ran with, as it was when the run locked it, is not newer than the current slot, and that is not newer than the last decoded, within a session. The recorded `statsSequence` plays no part: it may be anything the slot holds after the unlock |
| `LeakIsLostSofs` | `[]OnlyLostSofsLeak` | `SensorInv`: the maps are finite, and empty before the first SOF. `LeakInv`: what is overdue in the exposure map and the SOFs not yet handled are together no more than the SOFs lost and the one pending. `handleSofEvent` only takes out the entry of its own SOF |
| `DelayIsBounded` | `[]AppliedDelayBounded`, if the sensor's own lag is within the limit | `DelayInv`: without per-frame control nobody but the run that tested the delay adds entries, and only one; first runs that fail, and the results skipped at a mode change, are counted |
| `EffectsInOrder` | `EffectNeverRegresses`, for a ring of two results or more | `EffectInv`: the frame reported last is the newest result's, the settings sent reach at least that far, and a run publishes up to where its settings reach. `acquireAiqResult` spoils the oldest entry, which in a ring of one is the newest as well |
| `GainsWithExposure` | `[]GainsMatchExposure` | `TidyInv`: one exposure waits for every SOF from the next on, and its gain as many SOFs later as it takes effect earlier. `GainInv`: the gain due when an exposure takes effect is of the same run, for the register, for every frame that is over and for those in between |
| `EffectsOnFrames` | `[]EffectOnFrame` | `FrameRun` extends the exposures of frames by those that are due; `FrameInv`: for every frame the newest result that is not for a later one is of the run whose exposure the frame has or will have. `ReachInv`: with per-frame control the settings that wait reach no further than was reported |

What the code does for one run (`setSensorExposure` in a loop) is the local recursive
function of `Exposed`; the induction over its steps is done in the module
(`ExposedSteps`): the least step at which a fact fails is not the first, and the
step before gives it. `GainsMatchExposure` and `EffectOnFrame` say in their own
definition which disturbances they exclude (`Undisturbed`).
The two hypotheses are met by the code: `kMaxExposureAppliedDelay` is 5
(`3a/AiqEngine.h:114`), more than the lag of its sensors, and the ring has
`MAX_SETTING_COUNT` results (`3a/AiqResultStorage.h:132`).

`ProcessingUnitProofs`, for any number of buffers, streams, pipes, requests, and
any scenario:

| Theorem | States | Argument |
|---|---|---|
| `EveryRawOnItsWayBack` | `[]RawNotLost` | `UnitTypeOK` and `CoverInv`: every buffer has a way back (`WayBack`): it is secured (with the producer, queued or kept), in the process thread's hands, or claimed by a task that is not over and will give it back. The rest says how one turns into the next: with ZSL the frame looked at stays secured when it leaves the queue (`KeptWhenPopped`); while its tasks are dispatched a frame is secured, or the task that shows it will give it back (`GivenWhenRun`, `MainWritesAll`); any other task reads a frame that is kept (`SourceOK`) |
| `InFlightIsCounted` | `[]InFlightExact`, if `NoFakes` | `FlightInv`: the counter of a sequence is the tasks of the list and of the poll threads that are of that sequence, and the one being dispatched (`ExactOK`). That the dispatch and the end mean the same sequence needs the frame of a task not to be captured again meanwhile. Without ZSL one task at most will give a frame back, and until then it is neither with the producer nor waiting for a second task (`OwnOK`); with it the frames of tasks are kept until nothing of their sequence is in flight, and the frame looked at is the newest of those kept, so that it is not the one `returnRawBuffer` takes (`KeptOK`) |
| `KeptDoNotStarve` | `[]ProducerNotStarved`, if `NoFakes` | `StarveOK`: when every buffer is kept, the oldest is in flight or a thread is about to call `returnRawBuffer` |

`NoFakes` is a hypothesis of the last two: a scenario with HAL ZSL keeps a frame at least
and has no fake task (`TnrFrames` is 1 at most). With fake tasks a kept frame may go
back to the producer between the section that looks it up and the one that marks it
(see Findings), and then the counter of a sequence nobody asked for is raised.
`OneStill`, a hypothesis of the theorems of the next two modules, is that there is one
still stream at most: then the row of a request is split into disjoint parts
(`RestOfOneStill`), which with two it is not (see Findings).
`PipesAssumption`, finitely many pipes, is there for the cardinality in
`InFlightExact`; the code has two.

Whether a task gives its frame back depends on the settings of the buffers it
fills. Requests are added meanwhile, but a new one brings buffers of its own and
changes the settings of no known one, so what was claimed stays claimed.

`RawFrameProofs`, on top of it, for any number of buffers, ports, pipes and requests,
any depth of the pipes (`PipelineDepth`) and any number of kept frames:

| Theorem | States | Argument |
|---|---|---|
| `RawFramesSafe` | `[](InOrder => RawSafe)`, if `NoFakes` and `OneStill` | `StageInv` says what the pipes work on, `KeptIsSafe` and `OrderInv` why none of it is a free buffer |

- `StageInv`, for every scenario without skipped frames. The process thread takes
  user buffers a row at a time, one of every port, in the order of the requests
  (`RowOK`), so a buffer the thread is about to hand out is in no pipe yet
  (`FreshOK`). Hence the entries of a pipe write buffers of their own, every entry
  that is not finished is the part of a listed task (`LineOK`), and `left` of a
  listed task is the number of its buffers whose callback is still to come
  (`TaskOK`). `onBufferDone` thus finds the task that the buffer is of, and a task
  leaves the list when no pipe works for it.
- With HAL ZSL that is enough (`KeptIsSafe`): `FlightInv` has the inputs of listed
  tasks kept, and `CoverInv` has what is kept not free.
- Without it a task gives its frame back if its settings are those of the frame it
  reads, and else leaves it to the next request. `OrderInv` is the order behind
  that: settings grow with the requests (`SettingsOK`), and so do frames and
  settings along the queues, the process thread and each pipe. If every request
  has a frame of its own (`Exact`), each task gives its frame back and no two read
  the same one (`ExactOrder`). If all ports are in one pipe (`Shared`), a frame may
  be left to the next request, and the pipe is what keeps its readers in order:
  of two entries that read the same frame, the later is the one that gives it back
  (`SharedOrder`, `WaitsOrGives`).

`InOrder` excludes what the code gets wrong (see Findings) and one thing more. With
two pipes and a lost frame, the pipe of the task that gives the frame back may be done
before the other has read it (`pu_raw`). With a lost frame and another between the
settings of two requests, even one pipe is not enough. Skipped frames, of which
`pu_run` has one scenario, are left to TLC: two tasks then share a user buffer, and
`StageInv` does not hold.

`FrameServiceProofs`, on top of it, for the same constants:

| Theorem | States | Argument |
|---|---|---|
| `ServiceImplemented` | `Plain /\ Serial => ServesFrames`, if `NoFakes` and `OneStill` | `ServiceInit` maps the initial states, `ServiceStep` every step: `NewRequest` is `Ask`, `Capture` is `Capture`, `OnBufferDone` is `Serve` of its port, all others stutter. That a callback answers the right request with the right frame is `ServeInv` |

- The right frame. A frame that left the input queue is older than the settings of
  every request still to take (`GoneOK`), settings grow with the requests
  (`AskedOK`), and `prepareTask` runs on the oldest frame that waits, if it is not too
  old. So no frame between a request's settings and the one chosen for it was or
  will be there (`Right`). `Right` holds of the jobs the process thread has left
  (`JobsOK`) and of what every entry of a pipe writes (`WorkOK`), and stays true when
  frames and requests are added (`RightStays`), since later frames are newer.
- The right request. What a port answered last is behind all it still owes, and a
  row that was taken is answered, owed by an entry of the port's pipe, or among the
  jobs left (`OrderOK`). The entries of a pipe write a port in the order of the rows
  (`EntryRight`), and the rows of the jobs left come after all of them (`FreshOK` of
  `StageInv`). So the callback of a pipe's first entry is for the first request the
  port waits for (`FirstWaiting`).
- A frame to reprocess. The still has a job of its own, and the frame's own job
  loses the still ports, or keeps them if the frame named is no longer kept;
  either way every port of the row is written by one job (`FetchJobs`).

`Plain` is that no frame is skipped, which `StageInv` needs. `Serial` is that no two
requests (but those to reprocess) have the same settings: `FrameService` says
nothing of use then, for a second request with the settings of the first is
answered with the frame after. `NoFakes` and `OneStill` are as above. The theorem is about which
request gets which frame; that the frame's raw buffer still holds that frame when a
pipe reads it is `RawFramesSafe`.

`LibcameraPipelineProofs`, for any number of streams, records and requests, and
however often the shutter moves:

| Theorem | States | Argument |
|---|---|---|
| `RecordsKept` | `[]RecordsAccounted` | `RecordInv`: a free record is listed once, and one that is not free holds the request the map has it for. `PendingInv`: pending requests are in order and none has a record but the one being queued under `mMutex`, so `create` never overwrites an entry of the map |
| `CompletedOnceInFull` | `[]CompletedInFull`, with records enough | `FullInv`: what was given back of a request and what its record still expects make up what it wants; a request without a record was told nothing; between the return of a record and `completeRequest` that record is the last of the free ones, so it is not taken by the capture thread first |
| `StoppedForGood` | `[]StopIsFinal`, with records enough | `OffInv`: only the current source runs, and none from the end of a halt to the next start. `CalmInv`: a request is pending only while the capture thread is in `processNewRequest`, so nobody starts the source during a switch or a stop. `JoinedInv`: a stop that found the camera started closes only through `JoinResult`, and a result thread that has ended does nothing (`JoinedStays`) |
| `CountersExact` | `[]InProgressExact`, with records enough | `LedgerInv`: a stream's counter is the number of its buffers that are asked for, in either source's queue, among its finished frames or in the result thread's hands, each counted over the positions of a list, and there is one event for every finished frame |
| `BuffersFound` | `[]BuffersInSource`, with records enough | `LedgerInv` also says that the source not in use has none, so that an event's buffer is in the current one |
| `SwitchedWhenQuiet` | `SwitchedQuiet`, with records enough | `QuietInv`: what `waitAllRequestsDone` saw of each stream stays true until the source has changed, for a request is only queued by the thread that waits (`CalmInv`) |

"Records enough" is `MaxOutstanding <= kMaxProcessingRequest`, a hypothesis of those five
theorems and not of the model. `CountInv` makes use of it: the pushed requests are
pending, in process, about to be completed, or completed, and free records and
requests in process add up to the pool; so a pending request finds a record, and a
second one is free if the last is of the request being completed. The code
completes a request after it returned the record (`returnRequestDone`), which is
why the count is needed. Without the hypothesis `StopIsFinal`, `SwitchedQuiet` and
`CompletedInFull` fail (see Findings).

Only model-checked:

- everything under fairness: `RequestsServed`, `StopTerminates`, `ConsumersReleased`,
  `CaptureGoesOn`, `Answers`, `AllServed` (and the violation of `ServedAfterReturn`);
- `RawSafe` and the refinement `ServesFrames` of `ProcessingUnit` with a frame to
  skip.

`TypeOK` of `AiqEngine`, `ProcessingUnit` and `LibcameraPipeline` is in no
cfg, to leave the time of the runs to the other properties; `INVARIANT TypeOK` can
be added to any of them.

## 6. Not modelled

- Logging, dumps, formats, metadata values, pixel data: no control.
- The closed 3A, PAC and PSYS libraries: they appear as an outcome.
- More than one client thread at a time in `RequestThread`: calls of one
  application are serialised, so a `qbuf` concurrent with deinit is left out.
- `resetSequence` and everything under `LINUX_PRIVACY_MODE`.
- In 3A: lens, HDR/WDR mode switch of the sensor, face results,
  `AiqRunningInterval` above 1.
- In the processing unit: more than one input port, start and stop, reprocessing of
  opaque raw and YUV, frames without a result of 3A, pipes of several stages.
- In the libcamera handler: configuration, a start after a stop, failures of
  `getBuffer` and `qbuf`, the queue of `ZslCapture`, the 3A state machines.
- The IPA client and server: the calls are synchronous, one mutex serialises them,
  and the other side is a closed library; what is wrong with its wait is under Findings.
- The parts listed `not_modelled` in `PROJECT.json`, each with its reason there.
  Most lines of the repository are generated graph descriptors, tables and
  conversions; the models are about the few thousand lines that have threads and locks.

## 7. Plan

Done: the request scheduler, the output queues, capture, a run of 3A, the
processing unit with its pipes as an implementation of `FrameService`, the libcamera
handler with its switch of the source, and the proofs of section 5. Next:

1. The IPA client's calls over messages: a reply after a timeout, a wait that may
   wake for nobody.
2. `CameraDevice`'s life cycle with `Thread`, `SofSource` and the privacy switch:
   the joins under `mDeviceLock`, a second client thread, `configure` against the
   request thread.
3. Start and stop of the processing unit, and of its events against a stop of
   `RequestThread`.
4. Abstract specifications: a FIFO of requests with a limit, which `RequestThread`
   implements; a pool of buffers that circulate, which `CaptureUnit` implements; a
   shift register of settings, which `AiqEngine` implements.
5. Proofs: `RawSafe` and `ServesFrames` with skipped frames, which need tasks told
   apart that share a user buffer.
