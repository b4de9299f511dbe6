------------------------------- MODULE Broker -------------------------------
(***************************************************************************)
(* The broker process around its frame server: what is published, and the  *)
(* life of the virtual camera and of the threads.                          *)
(* src/src/Vcam.Broker/VCamSample.cpp, with the capture of ObsCapture.     *)
(*                                                                         *)
(* Threads.  The main thread (ui) runs the tray's message loop and the     *)
(* shutdown; the producer (prod) publishes a frame, 30 times a second, of  *)
(* OBS or of the test pattern; the telemetry thread (tele) only watches.   *)
(* They share g_source, g_quit and the counters, all of them atomic.       *)
(*                                                                         *)
(* A frame is what it shows ("obs" or "test"); a published frame has its   *)
(* label (hdr.sourceKind) too.  How a published frame reaches a client,    *)
(* and what g_pipe.Stop does, is FramePipe's.                              *)
(***************************************************************************)
EXTENDS ObsCapture

CONSTANT RetryFrames   \* 60: frames until opening OBS is tried again

ASSUME RetryAssumption == RetryFrames \in Nat

VARIABLES
  ui,         \* the main thread
  source,     \* g_source
  quit,       \* g_quit
  vcam,       \* g_vcam: null, created, or created and started
  cam,        \* g_camRunning
  served,     \* g_pipe has been started and not stopped
  prod,       \* the producer thread
  src,        \* its local src
  retry,      \* its local retryDelay
  frame,      \* its local buffer frame, as what it shows
  reported,   \* its local reported
  pub,        \* the frame published last
  eff,        \* g_effectiveSource
  tele,       \* the telemetry thread
  late        \* history: OBS frames published since the user chose Test

mainVars == <<ui, source, quit, vcam, cam, served>>
prodVars == <<prod, src, retry, frame, reported, pub, eff>>
vars == <<mainVars, prodVars, tele, late, obsVars>>

Sources == {"obs", "test"}
Pictures == [shows : Sources, old : BOOLEAN]
Unpublished == [label |-> "none", shows |-> "test", old |-> FALSE]

\* Type correctness of the broker.
TypeOK ==
  /\ ObsTypeOK
  /\ ui \in {"boot", "create", "start", "loop", "remove", "quit", "joinProducer",
             "joinTelemetry", "stopCamera", "stopPipe", "done", "failed"}
  /\ source \in Sources
  /\ quit \in BOOLEAN
  /\ vcam \in {"none", "created", "started"}
  /\ cam \in BOOLEAN
  /\ served \in BOOLEAN
  /\ prod \in {"off", "top", "open", "opening", "pick", "closing", "publish",
               "store", "sleep", "stop", "stopping", "ended"}
  /\ src \in Sources
  /\ retry \in 0 .. RetryFrames
  /\ frame \in Pictures
  /\ reported \in Sources
  /\ pub \in [label : Sources \cup {"none"}, shows : Sources, old : BOOLEAN]
  /\ eff \in Sources \cup {"none"}
  /\ tele \in {"off", "on", "ended"}
  /\ late \in 0 .. 2

Init ==
  /\ ObsInit
  /\ ui = "boot"
  /\ source = "obs"
  /\ quit = FALSE
  /\ vcam = "none" /\ cam = FALSE
  /\ served = FALSE
  /\ prod = "off"
  /\ src = "obs" /\ retry = 0 /\ reported = "obs"
  /\ frame = [shows |-> "test", old |-> FALSE]
  /\ pub = Unpublished
  /\ eff = "none"
  /\ tele = "off"
  /\ late = 0

-----------------------------------------------------------------------------
(* The main thread.                                                        *)

\* MFStartup fails: wWinMain returns before anything is started.
BootFails ==
  /\ ui = "boot"
  /\ ui' = "failed"
  /\ UNCHANGED <<source, quit, vcam, cam, served, prodVars, tele, late, obsVars>>

\* The server, the producer and the telemetry thread start; then StartCamera.
Boot ==
  /\ ui = "boot"
  /\ ui' = "create"
  /\ served' = TRUE
  /\ prod' = "top"
  /\ tele' = "on"
  /\ UNCHANGED <<source, quit, vcam, cam, src, retry, frame, reported, pub, eff,
                 late, obsVars>>

\* StartCamera: MFCreateVirtualCamera, which fails if the DLL is not
\* registered...
CreateCamera ==
  /\ ui = "create"
  /\ \/ vcam' = "created" /\ ui' = "start"
     \/ vcam' = vcam /\ ui' = "loop"
  /\ UNCHANGED <<source, quit, cam, served, prodVars, tele, late, obsVars>>

\* Mutant: a camera that does not start is kept.
StartCamera_Keeps ==
  /\ ui = "start"
  /\ ui' = "loop"
  /\ \/ vcam' = "started" /\ cam' = TRUE
     \/ vcam' = vcam /\ cam' = cam
  /\ UNCHANGED <<source, quit, served, prodVars, tele, late, obsVars>>

\* ...and IMFVirtualCamera::Start, with the camera released if it fails.
StartCamera ==
  /\ ui = "start"
  /\ ui' = "loop"
  /\ \/ vcam' = "started" /\ cam' = TRUE
     \/ vcam' = "none" /\ cam' = cam
  /\ UNCHANGED <<source, quit, served, prodVars, tele, late, obsVars>>

\* "Camera active / stopped": stop it if it runs, start it if not.
Toggle ==
  /\ ui = "loop"
  /\ ui' = IF cam THEN "remove" ELSE "create"
  /\ UNCHANGED <<source, quit, vcam, cam, served, prodVars, tele, late, obsVars>>

\* StopCamera: the camera is removed.
StopCamera ==
  IF cam THEN vcam' = "none" /\ cam' = FALSE ELSE UNCHANGED <<vcam, cam>>

RemoveCamera ==
  /\ ui = "remove"
  /\ ui' = "loop"
  /\ StopCamera
  /\ UNCHANGED <<source, quit, served, prodVars, tele, late, obsVars>>

\* "Source: OBS Virtual Camera" and "Source: Test pattern".
Choose(s) ==
  /\ ui = "loop"
  /\ source' = s
  /\ late' = 0
  /\ UNCHANGED <<ui, quit, vcam, cam, served, prodVars, tele, obsVars>>

\* "Exit": the message loop ends.
Leave ==
  /\ ui = "loop"
  /\ ui' = "quit"
  /\ UNCHANGED <<source, quit, vcam, cam, served, prodVars, tele, late, obsVars>>

SetQuit ==
  /\ ui = "quit"
  /\ ui' = "joinProducer"
  /\ quit' = TRUE
  /\ UNCHANGED <<source, vcam, cam, served, prodVars, tele, late, obsVars>>

\* Mutant: the producer is not joined.
JoinProducer_Detaches ==
  /\ ui = "joinProducer"
  /\ ui' = "joinTelemetry"
  /\ UNCHANGED <<source, quit, vcam, cam, served, prodVars, tele, late, obsVars>>

JoinProducer ==
  /\ ui = "joinProducer"
  /\ prod = "ended"
  /\ ui' = "joinTelemetry"
  /\ UNCHANGED <<source, quit, vcam, cam, served, prodVars, tele, late, obsVars>>

JoinTelemetry ==
  /\ ui = "joinTelemetry"
  /\ tele = "ended"
  /\ ui' = "stopCamera"
  /\ UNCHANGED <<source, quit, vcam, cam, served, prodVars, tele, late, obsVars>>

StopCameraAtExit ==
  /\ ui = "stopCamera"
  /\ ui' = "stopPipe"
  /\ StopCamera
  /\ UNCHANGED <<source, quit, served, prodVars, tele, late, obsVars>>

\* g_pipe.Stop() returns, if it does, and wWinMain after it.
StopPipe ==
  /\ ui = "stopPipe"
  /\ ui' = "done"
  /\ served' = FALSE
  /\ vcam' = "none"
  /\ UNCHANGED <<source, quit, cam, prodVars, tele, late, obsVars>>

Main ==
  \/ BootFails \/ Boot \/ CreateCamera \/ StartCamera
  \/ Toggle \/ RemoveCamera \/ (\E s \in Sources : Choose(s)) \/ Leave
  \/ SetQuit \/ JoinProducer \/ JoinTelemetry \/ StopCameraAtExit \/ StopPipe

-----------------------------------------------------------------------------
(* The producer.                                                           *)

\* Mutant: the test of g_quit is lost.
Top_Forever ==
  /\ prod = "top"
  /\ src' = source
  /\ prod' = IF source = "obs" THEN "open" ELSE "closing"
  /\ UNCHANGED <<mainVars, retry, frame, reported, pub, eff, tele, late, obsVars>>

\* Mutant: g_source is read once, before the loop.
Top_ReadsOnce ==
  /\ prod = "top"
  /\ prod' = IF quit THEN "stop" ELSE IF src = "obs" THEN "open" ELSE "closing"
  /\ UNCHANGED <<mainVars, src, retry, frame, reported, pub, eff, tele, late, obsVars>>

\* while (!g_quit.load()), and src = g_source.load(): nothing changes
\* g_source once g_quit is set.
Top ==
  /\ prod = "top"
  /\ src' = source
  /\ prod' = IF quit THEN "stop" ELSE IF source = "obs" THEN "open" ELSE "closing"
  /\ UNCHANGED <<mainVars, retry, frame, reported, pub, eff, tele, late, obsVars>>

\* Mutant: a failed attempt is never made again.
Open_Once ==
  /\ prod = "open"
  /\ IF running \/ retry > 0
     THEN prod' = "pick" /\ UNCHANGED obsVars
     ELSE prod' = "opening" /\ StartBegin
  /\ UNCHANGED <<mainVars, retry, src, frame, reported, pub, eff, tele, late>>

\* OBS is chosen: Start is called if the capture is not running, unless a
\* Start has failed less than retryDelay frames ago.
Open ==
  /\ prod = "open"
  /\ IF running \/ retry > 0
     THEN /\ prod' = "pick"
          /\ retry' = IF running THEN retry ELSE retry - 1
          /\ UNCHANGED obsVars
     ELSE /\ prod' = "opening"
          /\ StartBegin
          /\ UNCHANGED retry
  /\ UNCHANGED <<mainVars, src, frame, reported, pub, eff, tele, late>>

\* Mutant: the producer waits for OBS.
Opened_Waits ==
  /\ prod = "opening"
  /\ call.op = "none"
  /\ IF running THEN prod' = "pick" /\ UNCHANGED obsVars
                ELSE UNCHANGED prod /\ StartBegin
  /\ UNCHANGED <<mainVars, src, retry, frame, reported, pub, eff, tele, late>>

\* Start has returned.
Opened ==
  /\ prod = "opening"
  /\ call.op = "none"
  /\ prod' = "pick"
  /\ retry' = IF running THEN retry ELSE RetryFrames
  /\ UNCHANGED <<mainVars, src, frame, reported, pub, eff, tele, late, obsVars>>

\* Mutant: the frame of the fallback is reported as one of OBS.
Pick_Mislabels ==
  /\ prod = "pick"
  /\ prod' = "publish"
  /\ frame' = IF running /\ GetFrame THEN [shows |-> "obs", old |-> old]
                                     ELSE [shows |-> "test", old |-> FALSE]
  /\ reported' = src
  /\ UNCHANGED <<mainVars, src, retry, pub, eff, tele, late, obsVars>>

\* The newest picture of OBS, or else the test pattern.
Pick ==
  /\ prod = "pick"
  /\ prod' = "publish"
  /\ IF running /\ GetFrame
     THEN /\ frame' = [shows |-> "obs", old |-> old]
          /\ reported' = "obs"
     ELSE /\ frame' = [shows |-> "test", old |-> FALSE]
          /\ reported' = "test"
  /\ UNCHANGED <<mainVars, src, retry, pub, eff, tele, late, obsVars>>

\* Mutant: the capture is left running, and its picture is still used.
Close_Sticks ==
  /\ prod = "closing"
  /\ retry' = 0
  /\ prod' = IF running THEN "pick" ELSE "publish"
  /\ frame' = [shows |-> "test", old |-> FALSE]
  /\ reported' = "test"
  /\ UNCHANGED <<mainVars, src, pub, eff, tele, late, obsVars>>

\* The test pattern is chosen: the capture is stopped first, if it runs.
Close ==
  /\ prod = "closing"
  /\ call.op = "none"
  /\ IF running
     THEN StopBegin /\ UNCHANGED <<prod, retry, frame, reported>>
     ELSE /\ prod' = "publish"
          /\ retry' = 0
          /\ frame' = [shows |-> "test", old |-> FALSE]
          /\ reported' = "test"
          /\ UNCHANGED obsVars
  /\ UNCHANGED <<mainVars, src, pub, eff, tele, late>>

\* g_pipe.Publish(hdr, frame).
Publish ==
  /\ prod = "publish"
  /\ prod' = "store"
  /\ pub' = [label |-> reported, shows |-> frame.shows, old |-> frame.old]
  /\ late' = IF source = "test" /\ reported = "obs" /\ late < 2 THEN late + 1 ELSE late
  /\ UNCHANGED <<mainVars, src, retry, frame, reported, eff, tele, obsVars>>

\* g_effectiveSource and the counters, for telemetry.
Store ==
  /\ prod = "store"
  /\ prod' = "sleep"
  /\ eff' = reported
  /\ UNCHANGED <<mainVars, src, retry, frame, reported, pub, tele, late, obsVars>>

\* Sleep(33).
Wake ==
  /\ prod = "sleep"
  /\ prod' = "top"
  /\ UNCHANGED <<mainVars, src, retry, frame, reported, pub, eff, tele, late, obsVars>>

\* Mutant: the capture is not stopped.
Finish_Leaks ==
  /\ prod = "stop"
  /\ prod' = "stopping"
  /\ UNCHANGED <<mainVars, src, retry, frame, reported, pub, eff, tele, late, obsVars>>

\* The loop has ended: obs.Stop().
Finish ==
  /\ prod = "stop"
  /\ prod' = "stopping"
  /\ StopBegin
  /\ UNCHANGED <<mainVars, src, retry, frame, reported, pub, eff, tele, late>>

End ==
  /\ prod = "stopping"
  /\ call.op = "none"
  /\ prod' = "ended"
  /\ UNCHANGED <<mainVars, src, retry, frame, reported, pub, eff, tele, late, obsVars>>

\* A step of the call into ObsCapture the producer is in.
InCapture == ObsCall /\ UNCHANGED <<mainVars, prodVars, tele, late>>

Producer ==
  \/ Top \/ Open \/ Opened \/ Pick \/ Close \/ Publish \/ Store \/ Wake
  \/ Finish \/ End \/ InCapture

-----------------------------------------------------------------------------
\* The telemetry thread sees g_quit.
Telemetry ==
  /\ tele = "on"
  /\ quit
  /\ tele' = "ended"
  /\ UNCHANGED <<mainVars, prodVars, late, obsVars>>

\* A picture arrives; OBS comes or goes.
Picture == BufferCB /\ UNCHANGED <<mainVars, prodVars, tele, late>>
Environment == Obs /\ UNCHANGED <<mainVars, prodVars, tele, late>>

\* wWinMain has returned.
Gone == ui \in {"done", "failed"} /\ UNCHANGED vars

Next == Main \/ Producer \/ Telemetry \/ Picture \/ Environment \/ Gone

Spec == Init /\ [][Next]_vars

\* Threads that can run do run, a graph that runs delivers the pictures of an
\* OBS that is there, and calls into Windows return.  Nothing makes the user
\* act, or OBS come or go, and g_pipe.Stop() return: it may hang (StopReturns
\* of FramePipe).
Fairness ==
  /\ WF_vars(Boot \/ CreateCamera \/ StartCamera \/ RemoveCamera)
  /\ WF_vars(SetQuit \/ JoinProducer \/ JoinTelemetry \/ StopCameraAtExit)
  /\ WF_vars(Producer)
  /\ WF_vars(Telemetry)
  /\ WF_vars(up /\ Picture)

FairSpec == Spec /\ Fairness

-----------------------------------------------------------------------------
(* Safety.                                                                 *)

\* The kind in a frame's header is what the frame shows, over every fallback
\* and every switch: an application never gets the test pattern as OBS.
LabelTruthful == pub.label # "none" => pub.label = pub.shows

\* A picture of OBS that is published was captured by the graph that is, or
\* was last, running: nothing is left from before the user switched away and
\* back again (ObsCapture::Stop, native.clear()).
NoOldPicture == ~pub.old

\* "Effective source being served ... Reflects auto-fallback, not just the
\* menu choice": telemetry is behind by at most the one frame being stored.
EffectiveSource == prod # "store" => eff = pub.label

\* After the user has chosen the test pattern at most the one frame that was
\* already on its way shows OBS.
AtMostOneLate == late <= 1

\* Once the producer is joined nothing is published and no part of the graph
\* is held; when wWinMain returns the threads are gone and so is the camera.
QuietExit ==
  /\ ui \in {"joinTelemetry", "stopCamera", "stopPipe", "done"} =>
       prod = "ended" /\ held = {} /\ ~streaming
  /\ ui = "done" => tele = "ended" /\ vcam = "none" /\ ~cam
  /\ ~served => prod \in {"off", "ended"}

\* Between two commands of the user g_camRunning, which the menu shows and
\* every command tests, says whether there is a camera: a Start that failed
\* leaves none behind.
CameraMatches == ui = "loop" => vcam = IF cam THEN "started" ELSE "none"

-----------------------------------------------------------------------------
(* The inductive invariant the proofs of BrokerProofs use.                 *)

\* What a call into the capture has acquired or released at its next step.
Acquired == {StartSteps[i] : i \in 1 .. call.at - 1} \cap Objects
Released == {StopSteps[i] : i \in 1 .. call.at - 1}

Capturing ==
  /\ ~old
  /\ call.op = "start" =>
       /\ ~running
       /\ held = Acquired
       /\ sized <=> call.at > 8
       /\ streaming <=> call.at > 10
       /\ call.at <= 10 => native = "none"
  /\ call.op = "stop" =>
       /\ call.at <= Len(StopSteps) + 1
       /\ held \cap Released = {}
       /\ streaming => call.at = 1
  /\ AllOrNothing /\ HeldWhileStreaming

\* Where the producer is while a call into the capture is in progress, and
\* when the capture is known to be stopped.
InCall ==
  /\ call.op = "start" => prod = "opening"
  /\ call.op = "stop" => prod \in {"opening", "closing", "stopping"}
  /\ call.op = "none" /\ prod \in {"off", "stopping", "ended"} => ~running

\* From the picking of a frame to the storing of what it was.
Frames ==
  /\ ~frame.old /\ NoOldPicture
  /\ prod = "publish" => reported = frame.shows
  /\ prod = "store" => pub.label = reported
  /\ LabelTruthful /\ EffectiveSource
  /\ prod = "off" => pub.label = "none"

\* The one late frame has been the last of OBS.
Late ==
  /\ AtMostOneLate
  /\ late = 1 =>
       /\ source = "test"
       /\ prod \notin {"off", "open", "opening", "pick"}
       /\ prod = "publish" => reported = "test"

\* The main thread, step by step.
MainThread ==
  /\ ui \in {"boot", "failed"} <=> prod = "off"
  /\ ui \notin {"boot", "failed", "done"} <=> served
  /\ vcam = "created" <=> ui = "start"
  /\ ui # "start" => (vcam = "started" <=> cam)
  /\ ui \in {"boot", "create", "start", "stopPipe", "done"} => ~cam
  /\ ui \in {"joinTelemetry", "stopCamera", "stopPipe", "done"} => prod = "ended"
  /\ ui \in {"stopCamera", "stopPipe", "done"} => tele = "ended"

IInv == TypeOK /\ Capturing /\ InCall /\ Frames /\ Late /\ MainThread

-----------------------------------------------------------------------------
(* What the broker promises to the consumers: the frames of Feed.          *)

\* A frame of OBS is on its way from the turn of the loop that reads the
\* choice to the frame's publication, or to the fallback.
OnItsWay == prod \in {"open", "opening", "pick"} \/ (prod = "publish" /\ reported = "obs")

FeedOf == INSTANCE Feed WITH begun <- OnItsWay, label <- pub.label, on <- served

\* The broker, with its threads, its capture and its fallbacks, implements
\* Feed: a frame of OBS is begun while OBS is chosen, one at a time, nothing
\* is published before the server starts or after it stops, and the server
\* stops with no frame on its way.
ImplementsFeed == FeedOf!FeedSpec

-----------------------------------------------------------------------------
(* Liveness, under FairSpec.                                               *)

\* "The producer thread's heartbeat": a frame is published again and again,
\* whatever OBS does, until the broker quits.
Heartbeat == prod = "sleep" ~> prod = "store" \/ quit

\* "live OBS": once OBS is there for good and chosen for good, what is
\* published is OBS for good, however many attempts to open it failed.
GoesLive ==
  <>[](up /\ source = "obs" /\ prod # "off" /\ ~quit) => <>[](pub.label = "obs")

\* "Exit": the message loop over, the two joins and StopCamera end, in the
\* middle of whatever the threads do, and wWinMain comes to g_pipe.Stop().
\* (Whether that returns is FramePipe's StopReturns, which does not hold.)
ExitReachesStop == ui = "quit" ~> ui = "stopPipe"

-----------------------------------------------------------------------------
(* What README.md says, and the code does not do.                          *)

\* "auto-falls back to the test pattern when OBS's virtual camera isn't
\* running".
FallsBack ==
  <>[](~up /\ source = "obs" /\ prod # "off" /\ ~quit) => []<>(pub.label = "test")

=============================================================================
