# OBS2MF in TLA+

OBS2MF shows the picture of OBS Studio's virtual camera, which is a DirectShow
filter, to applications that only know Media Foundation cameras. Two processes do it:

    OBS Studio --DirectShow graph--> broker (OBS2MF.exe) --named pipe--> media source DLL
                                     Vcam.Broker                          Vcam.MediaSource, loaded
                                     tray icon, one per user session      by the Windows Frame Server

The broker captures OBS, or draws a test pattern, 30 times a second and keeps the
newest NV12 frame. The media source is asked for samples by the Frame Server; for each
it fetches that frame through a pipe, and renders a waiting pattern itself if it gets
none. This directory holds TLA+ models of both sides, the TLC runs that check them, and
TLAPS proofs of the invariants that matter most. All paths below are relative to the
repository's root (`src/src/Vcam.Common/ipc.h` is `src/Vcam.Common/ipc.h` there).

## Inventory

| Component | State it keeps | Operations | Talks to | What makes it correct |
|---|---|---|---|---|
| `FramePipeServer`, `ipc.h` | `_running`, `_clients`, `_hdr` and `_payload` under `_mtx`, one accept thread, a detached thread per connection | `Start`, `Stop`, `Publish`, `ClientCount`, the accept loop, `Serve` | producer (call), clients (pipe) | no torn frame, newest frame, every handle closed, `Stop` returns |
| `FramePipeClient`, `ipc.h` | `_pipe`, the connection it reuses | `Fetch`, `Close` | server (pipe), `FrameGenerator` (call) | stays in step with the stream, reconnects, returns |
| `ObsCapture` | seven COM objects, `running`, the newest picture | `Start` (ten steps that may fail), `Stop`, `BufferCB`, `GetFrame` | graph thread (callback), producer (call) | all objects or none; no callback on released objects |
| Producer, `ProducerThread` | `src`, `retryDelay`, `reported`, the frame | the loop | `ObsCapture`, server, `g_source`, `g_quit` | label = content, fallback, heartbeat |
| Main thread, `wWinMain`, `WndProc` | `g_vcam`, `g_camRunning` | start-up, menu commands, shutdown | every thread | quiet shutdown; the menu tells the truth |
| Telemetry thread | sampled counters | one line a second | `g_effectiveSource` | reports what is served |
| `MediaSource`, `MediaStream`, `FrameGenerator` | the event queues, `_state`, `_allocator`, the render target and its bitmap; two SRW locks | `Start`, `Stop`, `Shutdown`, `RequestSample`, `SetStreamState`, `SetDefaultAllocator`, `GetEvent`, attribute calls, getters | Frame Server (calls of any thread), the client of the pipe | events agree with the state, wherever a call failed; calls in turn are safe (but for `_bitmap`, finding 4); no deadlock of the two locks |
| `Logger`, `log.h` | `_path`, the files of earlier launches | `InitSession`, `PruneOld`, `LogRaw`, `Rotate` | file system, clock | a bounded number of files, the newest kept |
| NV12 arithmetic | - | test pattern, scaling, copying with stride, conversion of the waiting pattern, two colour conversions | - | every index within its buffer, every byte written |
| `Activator`, class factory | the source it made | `CreateInstance`, `ActivateObject`, `DetachObject` | Frame Server | the connection ends with the source |
| All of it together | the label in the newest header, what is on its way, what an application shows | the user's choice, a sample, a crash, a relaunch | - | applications follow the choice and never step back |
| Attribute store (`CBaseAttributes`) | a forwarded store | forwarding methods | Frame Server | not used after `Shutdown` |
| Crash handlers | - | end the process | - | - |
| Tray, auto-start, tracing, registration, installer, release script | registry, files | - | Windows | - |

The behaviours that are hard: threads that share a frame under a mutex while a socket-like
stream carries it elsewhere; a broker that dies in the middle of a response and comes back
behind the same pipe name; a `Fetch` without timeout under a lock; a shutdown that has to
wake a thread blocked in the kernel; a callback thread of DirectShow racing the release of
its graph; a Start that fails half way and is retried for ever; two locks of the media
source of which each method takes another subset, one of them held while `GetEvent` waits; a
choice of the user that has to overtake frames already on their way; index arithmetic on
picture sizes that OBS' user picks; a session log named by a clock that may be set back. `PROJECT.json` lists each of these hazards at its line, with the properties
that would catch it.

## Modules

| Module | Models | Composed of |
|---|---|---|
| `LatestFrame` | what the transport promises: a register of the newest frame, with a linearization point inside every `Fetch` | - |
| `Link` | what the transport promises of its connections: one per stream, kept over its requests, ended by the stream, the process or a `Fetch` that fails | - |
| `FramePipe` | `ipc.h`, run by `wWinMain`: main thread, producer, accept thread, serving threads, clients, crashes and relaunches | implements `LatestFrame` (`Register == INSTANCE ... WITH`) and `Link` (`Connections`) |
| `MCFramePipe` | symmetry for TLC | `FramePipe` |
| `FramePipeProofs` | proofs: the inductive invariant, whole frames, handles, synchronization of the stream | `FramePipe` |
| `FramePipeOrderProofs` | proofs: order of the frames, count of the clients, nobody waits in vain, `FramePipe` implements `LatestFrame` and `Link` | `FramePipeProofs` |
| `ObsCapture` | `ObsCapture.cpp`: `Start` object by object, `Stop` line by line, the callback, OBS coming and going | - |
| `Feed` | what the broker promises to its consumers: a sequence of labelled frames that follows the user's choice | - |
| `Broker` | `VCamSample.cpp`: main, producer and telemetry threads | extends `ObsCapture`; implements `Feed` |
| `BrokerProofs` | proofs, the refinement among them | `Broker` |
| `MediaSource` | `MediaSource.cpp`, `MediaStream.cpp`, the forwarding of attributes in `MFTools.h` and the render target of `FrameGenerator.cpp`, called by several threads | - |
| `MediaSourceProofs` | proofs | `MediaSource` |
| `EndToEnd` | the user's choice, the broker, any number of streams and what each shows | extends `Feed`; a stream's connection is an instance of `Link` |
| `EndToEndProofs` | proofs | `EndToEnd` |
| `System` | the broker with all its threads and its capture, over crashes and relaunches, and any number of streams | extends `Broker`; implements `EndToEnd`, whose streams it takes over |
| `SystemProofs` | proofs | `System`, `BrokerProofs`; an instance of `EndToEndProofs` |
| `SessionLog` | `log.h`, launch after launch | - |
| `SessionLogProofs` | proofs | `SessionLog` |
| `Nv12` | the index functions and colour conversions of `VCamSample.cpp`, `ObsCapture.cpp`, `FrameGenerator.cpp` and `Tools.cpp` | - |
| `Nv12Proofs` | proofs | `Nv12` |

The three abstract specifications are the joints of the project, and each is shown to fit on both
sides:

    ObsCapture + Broker ==implements==> Feed --.
                                               +--> EndToEnd <==implements== System (Broker + streams)
             FramePipe ==implements==> Link ---'
             FramePipe ==implements==> LatestFrame

- `FramePipe` implements `Link` (`PipeIsLink`), and every action of a stream in `EndToEnd` is
  an action of `Link` (`ConnectionsAreLinks` says that `EndToEnd` as a whole implements
  it): what the composition asks of a connection is what the pipe gives. A request gets, at
  one instant between its call and its return, the frame that is published, or its connection is lost.
- `Broker` implements `Feed`, and `EndToEnd` is built on `Feed`. That alone would leave open whether
  a broker that is killed between two steps of its threads and launched again, with statics and locals
  as new, still looks like one. `System` therefore puts the `Broker` with all its threads under the same
  streams and is shown to implement `EndToEnd`; `SystemUsesLink` closes the circle to the pipe.
- From `MediaSource` the composition takes that a sample shows what `Fetch` returned or else the
  waiting pattern, and that a call that has begun returns. `MediaSource` and the units of `FramePipe` are not
  multiplied out with the broker in one state space.

### FramePipe

Before the first `Publish` `_hdr` is all zero: a request is then answered by a header without
`kFrameMagic`, which `Fetch` takes for a failure (`ipc.h:100`). Frame 0 stands for it.

Every `ReadFile`, `WriteFile`, test of `_running` and section under `_mtx` is a step;
`Publish` and the copy in `Serve` are two steps each, the header and the payload, so that the
mutex and nothing else keeps them together. `hdr` and `payload` are the number of the frame
assigned to `_hdr` and `_payload`, counted over all launches. A response is a header unit,
which carries the payload's length, and `Parts` payload units, because `ReadExact` and
`WriteExact` loop over partial transfers; `pipe[i].down` holds the units in between, and
`pipe[i].reqs` the requests. `fetch[c]` is where `Fetch` of client `c` is and what it has;
`serve[i]` is the detached thread of instance `i`; `accept` the accept thread. `Crash` may
come between any two steps: the broker's memory and handles go, the client's end stays and
breaks. For `Link` a connection is made when the accept thread hands it to a serving thread (`LinkOf`), and a request is on its
way back from the copy of its frame on (`WhereOf`). The pipe is Windows' and external: an instance has one client in its life, a reader
whose peer closed gets what is still buffered or an error, `CreateFileW` succeeds only on an
instance that listens. `floor` and `shown` are history.

### ObsCapture and Broker

`held` is the set of COM objects acquired, and `call` the place in `StartSteps` or
`StopSteps`, the lists of what the two functions do in the order of their lines. A step of
`Start` that fails goes on to `Stop`, as the code does. `BufferCB` may run whenever the graph
does. Failures of `Start` happen only while OBS is absent. A frame is what it shows, with a
flag `old` that is set if its picture was captured by an earlier graph; `pub` is the header's
label and what is in the payload. The producer's loop is a program counter over its tests, calls and
stores; `g_source`, `g_quit` and `g_effectiveSource` are read and written at exactly the
places where the code reads and writes them. `ui` walks through `wWinMain`, the commands of
`WndProc` and the four joins and stops at the end. What `g_pipe.Stop()` does inside is
`FramePipe`'s matter (and there it may never return, see Findings).

`Feed` has four variables: the user's choice, whether a frame of OBS has been begun, the label
of the frame published last, and whether frames are served. A frame of OBS is begun only while the choice is
OBS and is published or given up later; so at most one follows a choice of the test pattern. The
mapping of `Broker` (`ImplementsFeed`) takes a frame of OBS to be begun from the producer's
read of `g_source` to the store of the frame or the turn to the test pattern.

### MediaSource

`Callers` are threads of the Frame Server, each in at most one call, at a place `call[c].at`
between two operations on shared state. `srcLock` and `strLock` are the two SRW locks;
`MediaStream::Start`, `Stop`, `SetAllocator` and `Shutdown` run under the source's lock only,
`RequestSample` and the stream's `GetEvent` under the stream's, the source's `GetEvent` under the
source's, and `SetStreamState`, attribute calls and `GetMediaSource` under none. `GetEvent`
without `MF_EVENT_FLAG_NO_WAIT` waits with the lock held, until an event comes or the queue
is shut down. A method that only takes a lock and reads (`GetCharacteristics`,
`CreatePresentationDescriptor`, `GetAllocatorUsage` after its index) is one step. Each call that
`RETURN_IF_FAILED` guards may fail and leaves what was done before it: the queueing of an event and the allocator's
`InitializeSampleAllocator` and `UninitializeSampleAllocator` (`Started`, `Release`, `Stopped`), the bitmap and the render
target (`Prepare`, with an outcome for each thing that may be left: `target` stands for the four pointers that
`RenderFallbackNV12` tests, `bitmap` for the one it does not). `broken` is an
access through a pointer that is null or that another thread has reset, after which the process is gone (the
model stops: undefined behaviour). `forced`, `lapsed` and `unruly` are history: a caller has used
`SetStreamState`; a running stream has lost the allocator it started with; calls have overlapped, or an attribute has been asked for after
`Shutdown`. The bit of the presentation descriptor that says whether the stream is selected is
not kept, since the code overrules it by the state.

### EndToEnd

One broker, which ends or crashes and is launched again with the choice back at its default;
and per stream the life of its source (the class factory makes it, `ActivateObject` hands it out,
`Start` and `Stop` make it stream or not, in the middle of a `Fetch`, too; `Shutdown` and
`DetachObject` end it), its connection, the `Fetch` it is in and what its last sample shows. A connection outlives its broker as a dead one, and is noticed at the next `Fetch`. `label` is
`FrameHeader::source`; `settled` and `seen` are history, for `NoStepBack`.

### System

`Broker`'s variables and steps, with `alive` for the process and the streams of `EndToEnd` on top. `Die`
may come between any two steps of the broker's threads, of the capture's or of the graph's, and gives
every static and every local of a thread back the value `Init` has; OBS, which is another process, stays as it is.
The mapping reads the streams' variables as they are and the broker through its server: `on` is `served`, the label
is that of `pub`, and a frame of OBS has been begun while `OnItsWay` holds.

### Nv12

Operators without state, each the set of bytes, or the byte, that an iteration of a loop
reads or writes, as a function of the loop's variables, with C's division and the `int` and `uint32_t`
arithmetic of `scroll`. There is no run: the theorems speak of every size.

### SessionLog

A file is the second of the launch it is named for; `log[t]` is the set of launches with lines in it. The clock
moves at will, forwards or backwards; deleting, moving or writing a file may fail; the broker
may end anywhere. Pruning lists first and deletes afterwards, one file a step.

## Runs

| Run | Module, bounds | Shows |
|---|---|---|
| `pipe_safe` | `MCFramePipe`; 2 clients, 2 instances, 2 frames of 1 piece, 1 launch | `NoTornFrame`, `InStep`, `Fresh`, `HandlesOwned`, `ClientCountExact`, `StoppedMeansDeaf`; `SomebodyAnswers`: a client in `ReadFile` always has something to read, a thread that will write it, or a broken pipe |
| `pipe_relaunch` | 1 client, 2 instances, 3 frames of 2 pieces, 2 launches | `IInv` (the invariant of the proofs), `NeverBack`, and that `FramePipe` implements `LatestFrame` and `Link` |
| `pipe_live` | 1 client, 2 instances, 1 frame, 2 launches, no symmetry | `FetchReturns`, `ServeThreadsEnd`, `Recovers` |
| `pipe_stop` | 1 client, 2 instances, 1 frame | finding: `StopReturns` is violated |
| `broker` | `RetryFrames = 2` | eight invariants: nothing leaks, callbacks are safe, labels are true, no picture outlives its graph, the user's choice takes effect within a frame, shutdown is quiet, the menu is true, and `IInv`, which says that telemetry lags by one store at most; that `Broker` implements `Feed`; and `Heartbeat`, `GoesLive`, `ExitReachesStop` (after Exit, `wWinMain` gets as far as `g_pipe.Stop()`; that this returns is what finding 1 denies) |
| `broker_fallback` | the same | finding: `FallsBack` is violated |
| `source` | 2 callers | every call that `RETURN_IF_FAILED` guards in `Start` and `Stop` may fail: `StartDecides`: a `Start` that reports success has done what it was asked, or found a stream that runs on without its allocator; `EventsAgree`: the stream runs if and only if the last event told so; `PatternReady`: a running stream has its render target and bitmap; `OneByOneIsSafe`: a Frame Server that makes one call after another meets no null pointer but `_bitmap` (finding 4), whatever failed before; `NoMutualWait`: never do all calls wait for a lock of one another's; `CallsReturn`: every call ends, unless somebody waits in `GetEvent` for an event that does not come |
| `source_race` | 2 callers | finding: `RequestHasBoth` is violated |
| `source_bitmap` | 1 caller | finding: `GuardSuffices` is violated with one call after another |
| `end_to_end` | 2 streams | `TypeOK`; `NoStepBack`: who has shown the test pattern the user chose shows no frame of OBS until the user or a relaunch returns to it; `Follows`: what the broker publishes for good is what every application comes to show; `GoneShowsWaiting`: without a broker, the waiting pattern |
| `system` | `RetryFrames = 1`, 1 stream, any number of launches | that `System` implements `EndToEnd`; 1,212,914 states |
| `session_log` | keep 2, 4 launches, 4 seconds | `TypeOK`, `CountBounded`, `KeepsNewest` |

Every property of a passing run has a mutant of the code's model (definitions named
`X_WhatIsWrong`, next to `X`), with which TLC finds the property violated.

Why the bounds are enough. In the pipe two clients suffice for every pairwise race between
serving threads, and two instances for the accept thread to wait on one while the other is
served, and to run out of instances. Three frames let a client hold one, the pipe carry another
and the server have a third; two pieces make a payload that may end half way; two launches
give a client a connection to a process that is dead while a new one listens. `Parts`,
`MaxFrame` and `MaxLaunch` only bound the runs: the safety proofs hold for every value. In the
broker the retry delay is 60; 2 already has the states "reloaded", "counting" and "expired",
and the proofs hold for every value. In the media source two callers make every conflict of two
methods and every cycle of two locks; a third could only add one more waiter, and its safety is proved for any
number. End to end the streams share nothing but the broker, and two let one be ahead of the other; the broker
may be launched any number of times. In `System` one stream has every answer at every point of the
broker's loop, since streams do not act on one another or on the broker, and the retry delay of 1 has "counting" and "expired". In the session log
four launches with two files to keep have the cases "one file", "full", "one too many" and "two to delete"
(after a deletion that failed), and the clock can repeat a second and go back; the proofs are for all of
these numbers.

## Fairness

- `FramePipe`: weak fairness of the accept thread, of every serving thread, of `Stop`, of
  the steps inside `Fetch` and of the second half of a `Publish`: threads that can run are
  scheduled. Strong fairness of taking `_mtx` in `Serve`: an SRW lock or `std::mutex` is not fair by contract,
  but its critical sections are memory copies, one every 33 ms by the producer and one per
  request by the other threads. Nothing makes the user launch or quit, a client ask, or a process die.
  `Recovers` therefore assumes a broker that stays up with a frame and a client that keeps asking.
- `Broker`: weak fairness of the three threads, of every step of the shutdown but one, and of the graph's
  callback while OBS is there (`up /\ Picture`). The one is `g_pipe.Stop()`, which need not return
  (finding 1): nothing is claimed of what comes after it. The user and OBS itself are not fair.
- `MediaSource`: strong fairness of the steps of a call that has begun (`Fetch` returns, which is
  `FramePipe`'s `FetchReturns`); it says more than weak fairness only where a call waits for an SRW lock, since the other steps of a call are disabled by no other call. Nothing makes an
  event come for a `GetEvent` that waits; `CallsReturn` assumes that nobody waits for ever. Fair locks are an assumption
  on Windows, not something the code provides; what it rules out is one thread that is overtaken for
  ever by another that calls in a loop.
- `EndToEnd`: weak fairness of the steps of a sample, which stands for an application that
  asks for one sample after another and for `FetchReturns`, and strong fairness of a connection that can be
  made again and again (`FramePipe`'s `Recovers`). Nothing makes the user choose, the producer publish, or a process
  start or end: `Follows` and `GoneShowsWaiting` assume of these what they say.
- `SessionLog` has no fairness and no liveness property.

Deadlock is checked in every run. `Broker` and `MediaSource` have an action `Gone` for the
process that has ended.

## What is proved

The proofs are for every value of the constants under the assumptions in the modules:
`Parts` is a positive number, the bounds and `Keep` are natural numbers, `Nobody`, `Stopper` and
`Producer` are distinct from the names they are compared with. Every invariant that a run
checks has a theorem, and so has every action property and every refinement.

- `FramePipeProofs`: `Invariant` (`Spec => []IInv`), and from it `TypeCorrect`, `NoTorn`,
  `HandlesHaveOwners` and `StaysInStep`. `NoTornFrame` is far from inductive: that a client
  has one whole frame follows from what is still in the pipe, which follows from what the serving
  thread copied, which follows from the mutex. `IInv` says it in that order: `Locked`
  (`_hdr` and `_payload` differ only while the producer holds the mutex, and a thread that
  copies sees them equal), `Exchange` (on a connection there is one request or one response,
  and the thread, the pipe and the client have its consecutive parts), `Received` (what the
  client has read is a prefix), with `Wired` and `HandlesOwned` for who is at the two ends of an
  instance: without them a client could be paired with the thread of another. The proof has
  a lemma per conjunct and per group of actions.
- `FramePipeOrderProofs`: the two refinements `PipeIsRegister` and `PipeIsLink`, that every step of the
  transport is a step of `LatestFrame`, and of `Link`, or a stutter; and with them `FetchesAreFresh`,
  `NeverStepsBack`, `CountIsExact`, `StoppedIsDeaf` and `NobodyWaitsInVain`. On top of `IInv` this takes
  `Ordered`: what is served is the newest frame or, after a
  relaunch, none (`Newest`); what is on its way to a client, wherever it is, lies between what
  the client asked from and what has been issued (`InTime`); nothing is sent before a
  connection is served, and every serving thread is counted once (`Quiet`); a thread leaves only when
  its client has gone, and what is buffered for a client that reads is a response to the end
  (`Attended`, which is why nobody waits in vain); the server runs while the process is neither stopping nor
  down, and a client that is not yet served has done no more than ask (`Connected`). The abstract state
  `Answer(c)` is read off the thread, the pipe or the client's buffer; `CallStep` and
  `RegisterMoves` show how it moves, once, for the refinements and for the order. For `Link` most steps
  are steps of nobody: `Unmoved` says when a client's place does not move, `OneMoves` that only one
  does, and `CutOne` what the end of the process does to each.
- `BrokerProofs`: `Invariant`, and from it `TypeCorrect`, `NothingLeaks`, `CallbacksAreSafe`,
  `LabelsTellTheTruth`, `TelemetryReportsWhatIsServed`, `NoPictureOutlivesItsGraph`,
  `ChoiceWins`, `MenuTellsTheTruth`, `ShutdownIsQuiet`; and `BrokerImplementsFeed`. `IInv` has
  the parts `Capturing` (which objects are held at every place of `Start` and `Stop`, and
  that the graph runs only with all of them), `InCall` (which places of the producer are inside a call),
  `Frames` (label, frame and telemetry at every place of the loop), `Late` (a frame of OBS is
  under way only if the loop had read the choice before it changed) and `MainThread` (what is
  alive at every place of `wWinMain`).
- `EndToEndProofs`: `Invariant`, `TypeCorrect` and `NobodyStepsBack`, for any number of streams.
  Once a frame of the test pattern has been published after the choice, no frame of OBS is begun or published
  (`Settled`), and none is on its way to a stream that has shown such a frame (`Seen`).
  `ConnectionsAreLinks`: as far as connections go, `EndToEnd` is a `Link`; so with `PipeIsLink` the pipe gives
  all that it asks.
- `SystemProofs`: `EveryBroker`, that the invariant of `BrokerProofs` holds in every process that is launched,
  whichever step the one before it was ended at, because a new process has its variables as `Init` has them and no stream
  writes any; `SystemImplementsEndToEnd`, with a lemma per action of the broker's process; and through an
  instance of `EndToEndProofs` what is proved there: `NobodyStepsBackInSystem` and `SystemUsesLink`.
- `MediaSourceProofs`: `Invariant`, `TypeCorrect`, `StartDoesWhatItSays`,
  `StateAndEventsAgree`, `PatternIsReady`, `TurnsAreSafe` and `NobodyWaitsInACircle`, for any number of callers. The
  invariant: each lock's holder is at the steps that hold it, and nobody else is (`LocksHeld`); how
  far the one `Start` or `Stop` under the source's lock has come, or was left by the call that failed in it, determines
  state, event, allocator, target and bitmap (`Agreed`); a call that is alone still has what it tested, and a null pointer
  that it uses is `_bitmap` (`Orderly`). That no circle of the two locks arises
  follows from `LocksHeld` alone: who holds the stream's lock never waits for one.
- `SessionLogProofs`: `Invariant`, `TypeCorrect`, `FilesAreBounded` and `NewestAreKept`, for every
  `Keep`. A file's lines come from launches that chose its name (`Dated`); besides the new file and the stuck ones
  `KeepOld` remain (`Spared`), by counting those with fewer than `KeepOld` above them
  (`TopOfSet`); and what pruning takes is old (`Aged`), because each file above it belongs to another
  launch in between (`DoomedAreOld`, an injection).
- `Nv12Proofs`, for every size: the scaler reads luma from the luma of OBS' picture for every pair of sizes that the code
  accepts (`> 0`), and chroma from its chroma for every picture of at least two by two, odd ones included. The code does not
  ask for two by two, and `ThinPicturesReadOutside` shows that it would have to. The scaler's products of `int`s do not overflow for any picture that OBS can make; between equal sizes it is the identity; the test pattern writes every byte of its frame and none
  beyond; the copy and the conversion of the waiting pattern stay within both buffers for every pitch not below the width of a row; the two colour
  conversions, one of which clamps and the other cuts, are equal on every colour; and the
  index of the pattern's bars is in range while `4 * frame + width` fits into an `int`.

Only model-checked: every liveness property, `Follows`, `GoneShowsWaiting`, `CallsReturn`,
`Heartbeat` and the others (this version of TLAPS has neither fairness nor `ENABLED`). That the
fairness of `EndToEnd` follows from that of the detailed modules is argued above and not proved, for the same
reason; the refinements are of the safety parts. `NobodyWaitsInVain` and `NobodyWaitsInACircle` are what can be
proved towards `FetchReturns` and `CallsReturn`: at every moment somebody can go on.

## Findings

1. `Stop` of the server can hang (`pipe_stop`). It connects once to wake the accept
   thread. If that thread has tested `_running` but has no instance yet, nothing is woken; it
   then creates one and waits in `ConnectNamedPipe`, and `join` waits for it
   (`src/src/Vcam.Common/ipc.h:142-145`).
2. When OBS stops after it was live, nothing falls back to the test pattern: the last picture
   is published for ever as live OBS (`broker_fallback`, `src/README.md:70-71`,
   `VCamSample.cpp:256`).
3. `SetDefaultAllocator` and `Shutdown` reset pointers that a `RequestSample` has tested and
   is about to use: they run under another lock (`source_race`, `MediaStream.cpp:94`, `:195`).
4. `RenderFallbackNV12` tests all that it draws with except `_bitmap`, which it reads from. A `Start` that cannot
   queue `MEStreamStarted` (`MediaStream.cpp:71`), another that fails in `CreateBitmap` (`FrameGenerator.cpp:19`), and a
   `RequestSample` while the broker is away, one after the other, use it null (`source_bitmap`, `FrameGenerator.cpp:153`, `:179`).

More observations, without a run of their own:

- `SetStreamState` assigns where it should compare, so a stopped stream becomes paused or "running" without having been
  started, and the next `Start` reports `MESourceStarted` without starting it (`MediaStream.cpp:218`). `SetState` is modelled
  so; the properties of `Start` and of the events claim nothing after it (`forced`).
- A `Stop` that fails half way (`MediaStream.cpp:80`, `:81`) leaves the state running, the allocator perhaps
  uninitialized. The next `Start` takes the stream for selected, leaves the allocator as it is and reports `MESourceStarted`; so it does
  after a `SetDefaultAllocator`. `StartDecides` has this as its exception (`lapsed`).
- Every attribute call after `Shutdown` uses the null `_attributes` (`MediaSource.cpp:162`); the model counts such a call as unruly.
- `GetEvent` waits with a lock held that others need to queue an event or to shut down (`MediaStream.cpp:153`,
  `MediaSource.cpp:105`); `NoMutualWait` and `CallsReturn` are about calls that do not wait for an event.
- `GetFrame` accepts a picture that is one pixel wide or high, whose chroma the scaler then reads beyond the
  buffer (`ObsCapture.cpp:223`, theorem `ThinPicturesReadOutside`).
- From frame 2^29 on, some 200 days of one session, `(int)(frame * 4)` is negative and the test pattern indexes its bars
  below zero (`VCamSample.cpp:211`, theorem `BarLeavesRange`).
- A request before the first `Publish` gets an all-zero header, whose `kFrameMagic` is missing too, where
  `ipc.h:12-13` speaks of a header "with flag_valid clear" (`Fetch` fails either way).
- A launch in the same second as another (or at the same local time, after the clock was set back) shares its log
  file (`log.h:34-36` promises a file of its own). `.1` backups are never pruned (`log.h:131`). For a `keep` of 0 the one
  new file exists, where `log.h:99-100` says at most `keep`; the broker passes 15.

## Abstractions to know of

- A frame is a number or a kind, never pixels; header fields other than the length and the
  kind are left out, and so is a header that claims a length of another frame.
- `Serve`'s test of the request's magic (`ipc.h:188`) is left out: this client sends no other.
- Partial transfers are in units; a transfer that stops half way inside the header is a failed one.
- The pipe's security descriptor, its buffer size and the limit of instances (255, here
  `Instances`) are the operating system's.
- Reads of several atomic counters by telemetry are not modelled: it only watches.
- COM reference counts are not modelled; `held` is ownership by the capture.
- An attribute's value is left out: nothing in the code depends on one but a log line. Of the
  events, those that tell whether the stream runs are kept.
- A `Shutdown` in the middle of a `Fetch` is the end of the process in `EndToEnd`: it takes the queue that
  `RequestSample` is about to use (finding 3).
- In `EndToEnd` a `Fetch` does not say why it failed, and the Frame Server shuts a source down
  before it detaches it, as it does; no line of the repository says what happens otherwise.
- In `Nv12` buffers are as large as the code has checked or asked for them; who allocates a sample is
  `MediaSource`'s matter.

## Not modelled, and why

- Drawing and menus of the tray, the auto-start key, the environment report, tracing, registration of
  the DLL, installer and release script: I/O in a straight line, with no state of their own that
  several actors share. The commands of the menu are actions of `Broker`.
- Crash handlers and minidumps: their effect on everything here is the end of the process,
  `FramePipe`'s `Crash` and `EndToEnd`'s `Die`. What they write is not modelled.
- The old `Logger::Init` with one fixed file, and the mutex of `LogRaw` (one critical section).
- Direct2D, the colour converter of Media Foundation and DirectShow inside: external.
- Two brokers at once (the mutex is per session, the pipe's name is not): it would take every variable of
  the server twice. Threads that outlive `wWinMain` during static destruction: the order is the C
  runtime's, not the source's.

## Plan

Done, in order of importance:

1. `LatestFrame`, `FramePipe`, `FramePipeProofs`: the transport.
2. `ObsCapture`, `Broker`, `BrokerProofs`: the producer's side.
3. `MediaSource`, then its `GetEvent` and attribute calls: the consumer's side.
4. `SessionLog`.
5. `Feed` as what `Broker` implements; `EndToEnd` as what `Feed` and the connections make together.
6. `MediaSourceProofs`, `EndToEndProofs`, `FramePipeOrderProofs`, `SessionLogProofs`.
7. `Nv12`, `Nv12Proofs`.
8. `Link`, which `FramePipe` implements and `EndToEnd` is built on; `System` and `SystemProofs`, which put the
   broker itself in the place of `Feed`.

Left for whoever goes on: the streams of `EndToEnd` replaced by `MediaSource` itself, for a Frame Server that
makes one call after another, with a proof that it implements them; a server with two processes behind one
pipe name; a fair version of `FeedSpec`, so that `Heartbeat` becomes a property of the refinement.
