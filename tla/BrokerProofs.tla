---------------------------- MODULE BrokerProofs ----------------------------
(***************************************************************************)
(* Proofs about Broker and ObsCapture, for every value of RetryFrames.     *)
(* (The runs take 2, the code 60.)                                         *)
(***************************************************************************)
EXTENDS Broker, TLAPS

-----------------------------------------------------------------------------
(* The two lists of steps.                                                 *)

\* The ten steps of Start and the seven of Stop, by their places.
LEMMA Steps ==
  /\ Len(StartSteps) = 10 /\ Len(StopSteps) = 7
  /\ StartSteps[1] = "graph" /\ StartSteps[2] = "builder"
  /\ StartSteps[3] = "source" /\ StartSteps[4] = "grabberFilter"
  /\ StartSteps[5] = "grabber" /\ StartSteps[6] = "nullRenderer"
  /\ StartSteps[7] = "connect" /\ StartSteps[8] = "size"
  /\ StartSteps[9] = "control" /\ StartSteps[10] = "run"
  /\ StopSteps[1] = "control" /\ StopSteps[2] = "grabber"
  /\ StopSteps[3] = "grabberFilter" /\ StopSteps[4] = "nullRenderer"
  /\ StopSteps[5] = "source" /\ StopSteps[6] = "builder"
  /\ StopSteps[7] = "graph"
  BY DEF StartSteps, StopSteps

\* "size" is the eighth step of Start and "run" the tenth.
LEMMA StartPlaces ==
  ASSUME NEW i \in 1 .. 10
  PROVE  /\ StartSteps[i] = "size" <=> i = 8
         /\ StartSteps[i] = "run" <=> i = 10
<1>1. i \in {1, 2, 3, 4, 5, 6, 7, 8, 9, 10}
  OBVIOUS
<1> QED BY <1>1, Steps

\* Stop releases the control, and stops the graph, first.
LEMMA StopPlaces ==
  ASSUME NEW i \in 1 .. 7
  PROVE  StopSteps[i] = "control" <=> i = 1
<1>1. i \in {1, 2, 3, 4, 5, 6, 7}
  OBVIOUS
<1> QED BY <1>1, Steps

\* After nine of its steps Start has acquired every object.
LEMMA StartAcquiresAll ==
  ASSUME NEW n \in {9, 10}
  PROVE  {StartSteps[i] : i \in 1 .. n} \cap Objects = Objects
<1>1. {1, 2, 3, 4, 5, 6, 9} \subseteq 1 .. n
  OBVIOUS
<1>2. \A o \in Objects : \E i \in {1, 2, 3, 4, 5, 6, 9} : StartSteps[i] = o
  BY Steps DEF Objects
<1>3. \A o \in Objects : o \in {StartSteps[i] : i \in 1 .. n}
  BY <1>1, <1>2
<1> QED BY <1>3

\* After its seven steps Stop has released every object.
LEMMA StopReleasesAll == Objects \subseteq {StopSteps[i] : i \in 1 .. 7}
<1>1. {1, 2, 3, 4, 5, 6, 7} \subseteq 1 .. 7
  OBVIOUS
<1>2. \A o \in Objects : \E i \in {1, 2, 3, 4, 5, 6, 7} : StopSteps[i] = o
  BY Steps DEF Objects
<1> QED BY <1>1, <1>2

\* One more step adds its own place to the steps taken.
LEMMA OneMoreStep ==
  ASSUME NEW f, NEW n \in Nat \ {0}
  PROVE  {f[i] : i \in 1 .. n} = {f[i] : i \in 1 .. n - 1} \cup {f[n]}
<1>1. 1 .. n = (1 .. n - 1) \cup {n}
  OBVIOUS
<1> QED BY <1>1

-----------------------------------------------------------------------------
(* The capture.                                                            *)

\* Every step of the capture, and of what surrounds it.
CaptureStep ==
  ObsCall \/ StartBegin \/ StopBegin \/ BufferCB \/ Obs \/ UNCHANGED obsVars

\* The capture's variables keep their types.
LEMMA CaptureTypes == ObsTypeOK /\ CaptureStep => ObsTypeOK'
<1> SUFFICES ASSUME ObsTypeOK, CaptureStep PROVE ObsTypeOK'
  OBVIOUS
<1>0. Len(StartSteps) = 10 /\ Len(StopSteps) = 7
  BY Steps
<1>1. CASE StartBegin
  BY <1>0, <1>1 DEF StartBegin, ObsTypeOK
<1>2. CASE StartStep
  BY <1>0, <1>2 DEF StartStep, ObsTypeOK
<1>3. CASE StartFails
  <2>1. streaming' = FALSE \/ streaming' = (StartSteps[call.at] = "run")
    BY <1>3 DEF StartFails
  <2>2. streaming' \in BOOLEAN
    BY <2>1
  <2>3. call' \in [op : {"none", "start", "stop"}, at : 1 .. Len(StartSteps) + 1]
    BY <1>0, <1>3 DEF StartFails
  <2> QED BY <1>3, <2>2, <2>3 DEF StartFails, ObsTypeOK
<1>4. CASE StartReturns
  BY <1>0, <1>4 DEF StartReturns, ObsTypeOK, Idle
<1>5. CASE StopBegin
  BY <1>0, <1>5 DEF StopBegin, ObsTypeOK
<1>6. CASE StopStep
  BY <1>0, <1>6 DEF StopStep, ObsTypeOK
<1>7. CASE StopReturns
  <2>1. call' \in [op : {"none", "start", "stop"}, at : 1 .. Len(StartSteps) + 1]
    BY <1>0, <1>7 DEF StopReturns, Idle
  <2> QED BY <1>7, <2>1 DEF StopReturns, ObsTypeOK
<1>8. CASE BufferCB
  BY <1>8 DEF BufferCB, ObsTypeOK
<1>9. CASE Obs
  BY <1>9 DEF Obs, ObsTypeOK
<1>10. CASE UNCHANGED obsVars
  BY <1>10 DEF obsVars, ObsTypeOK
<1> QED BY <1>1, <1>2, <1>3, <1>4, <1>5, <1>6, <1>7, <1>8, <1>9, <1>10
        DEF CaptureStep, ObsCall

\* Whatever step of Start or Stop comes next, and whatever picture arrives,
\* the graph is acquired and released in order.
LEMMA CaptureKeeps == ObsTypeOK /\ Capturing /\ CaptureStep => Capturing'
<1> SUFFICES ASSUME ObsTypeOK, Capturing, CaptureStep PROVE Capturing'
  OBVIOUS
<1> USE DEF Capturing, AllOrNothing, HeldWhileStreaming
<1>0. Len(StartSteps) = 10 /\ Len(StopSteps) = 7
  BY Steps
<1>1. CASE StartBegin
  <2>1. call.op = "none" /\ ~running /\ held = {} /\ ~sized /\ ~streaming /\ native = "none"
    BY <1>1 DEF StartBegin
  <2>2. call' = [op |-> "start", at |-> 1] /\ ~old'
    BY <1>1, <2>1 DEF StartBegin
  <2>3. Acquired' = {}
    BY <2>2 DEF Acquired
  <2> QED BY <1>1, <2>1, <2>2, <2>3 DEF StartBegin
<1>2. CASE StartStep
  <2>1. call.at \in 1 .. 10 /\ call.op = "start"
    BY <1>0, <1>2 DEF StartStep, ObsTypeOK
  <2>2. call'.op = "start" /\ call'.at = call.at + 1
    BY <1>2 DEF StartStep, ObsTypeOK
  <2>3. held' = Acquired'
    <3>1. {StartSteps[i] : i \in 1 .. call.at} =
            {StartSteps[i] : i \in 1 .. call.at - 1} \cup {StartSteps[call.at]}
      BY <2>1, OneMoreStep
    <3>2. call'.at - 1 = call.at
      BY <2>1, <2>2
    <3> QED BY <1>2, <2>1, <3>1, <3>2 DEF StartStep, Acquired
  <2>4. (sized' <=> call'.at > 8) /\ (streaming' <=> call'.at > 10)
    <3>1. (sized' <=> sized \/ call.at = 8) /\ (streaming' <=> streaming \/ call.at = 10)
      BY <1>2, <2>1, StartPlaces DEF StartStep
    <3>2. (sized <=> call.at > 8) /\ (streaming <=> call.at > 10)
      BY <2>1
    <3> QED BY <2>1, <2>2, <3>1, <3>2
  <2>5. ~streaming /\ native = "none" /\ ~old /\ ~running
    BY <2>1
  <2>6. streaming' => held' = Objects
    <3> SUFFICES ASSUME streaming' PROVE held' = Objects
      OBVIOUS
    <3>1. call'.at = 11
      BY <2>1, <2>2, <2>4
    <3> QED BY <2>3, <3>1, StartAcquiresAll DEF Acquired
  <2> QED BY <1>2, <2>1, <2>2, <2>3, <2>4, <2>5, <2>6 DEF StartStep
<1>3. CASE StartFails
  <2>1. call.at \in 1 .. 10 /\ call.op = "start" /\ call' = [op |-> "stop", at |-> 1]
    BY <1>0, <1>3 DEF StartFails, ObsTypeOK
  <2>2. streaming' => held' = Objects /\ sized'
    <3> SUFFICES ASSUME streaming' PROVE held' = Objects /\ sized'
      OBVIOUS
    <3>1. call.at = 10
      BY <1>3, <2>1, StartPlaces DEF StartFails
    <3>2. held = Objects
      BY <2>1, <3>1, StartAcquiresAll DEF Acquired
    <3> QED BY <1>3, <2>1, <3>1, <3>2 DEF StartFails
  <2>3. Released' = {}
    BY <2>1 DEF Released
  <2> QED BY <1>0, <1>3, <2>1, <2>2, <2>3 DEF StartFails
<1>4. CASE StartReturns
  <2>1. call.at = 11 /\ call.op = "start" /\ call'.op = "none"
    BY <1>0, <1>4 DEF StartReturns, ObsTypeOK, Idle
  <2>2. held = Objects
    BY <2>1, StartAcquiresAll DEF Acquired
  <2> QED BY <1>4, <2>1, <2>2 DEF StartReturns
<1>5. CASE StopBegin
  <2>1. Released' = {}
    BY <1>5 DEF StopBegin, Released
  <2> QED BY <1>0, <1>5, <2>1 DEF StopBegin
<1>6. CASE StopStep
  <2>1. call.at \in 1 .. 7 /\ call.op = "stop"
    BY <1>0, <1>6 DEF StopStep, ObsTypeOK
  <2>2. call'.op = "stop" /\ call'.at = call.at + 1
    BY <1>6 DEF StopStep, ObsTypeOK
  <2>3. held' \cap Released' = {}
    <3>1. {StopSteps[i] : i \in 1 .. call.at} =
            {StopSteps[i] : i \in 1 .. call.at - 1} \cup {StopSteps[call.at]}
      BY <2>1, OneMoreStep
    <3>2. call'.at - 1 = call.at
      BY <2>1, <2>2
    <3>3. held' = held \ {StopSteps[call.at]}
      BY <1>6 DEF StopStep
    <3> QED BY <2>1, <3>1, <3>2, <3>3 DEF Released
  <2>4. ~streaming'
    BY <1>6, <2>1, StopPlaces DEF StopStep
  <2> QED BY <1>0, <1>6, <2>1, <2>2, <2>3, <2>4 DEF StopStep
<1>7. CASE StopReturns
  <2>1. call.at = 8 /\ call.op = "stop" /\ call'.op = "none"
    BY <1>0, <1>7 DEF StopReturns, ObsTypeOK, Idle
  <2>2. held = {}
    BY <2>1, StopReleasesAll DEF Released, ObsTypeOK
  <2> QED BY <1>7, <2>1, <2>2 DEF StopReturns
<1>8. CASE BufferCB
  <2>1. streaming /\ ~old'
    BY <1>8 DEF BufferCB
  <2>2. Acquired' = Acquired /\ Released' = Released
    BY <1>8 DEF BufferCB, Acquired, Released
  <2>3. call.op = "start" => call.at \in Nat /\ ~(call.at <= 10)
    BY <2>1 DEF ObsTypeOK
  <2>4. call.op = "none" => running
    BY <2>1
  <2> QED BY <1>8, <2>1, <2>2, <2>3, <2>4 DEF BufferCB
<1>9. CASE Obs
  BY <1>9 DEF Obs, Acquired, Released
<1>10. CASE UNCHANGED obsVars
  BY <1>10 DEF obsVars, Acquired, Released
<1> QED BY <1>1, <1>2, <1>3, <1>4, <1>5, <1>6, <1>7, <1>8, <1>9, <1>10
        DEF CaptureStep, ObsCall

-----------------------------------------------------------------------------
(* The broker.                                                             *)

\* The invariant without the capture's own part.
BrokerInv == TypeOK /\ InCall /\ Frames /\ Late /\ MainThread

\* Each action is, for the capture, one of its steps or none.
LEMMA EveryStep == [Next]_vars => CaptureStep
<1> SUFFICES ASSUME [Next]_vars PROVE CaptureStep
  OBVIOUS
<1> USE DEF CaptureStep, vars
<1>1. CASE Main
  BY <1>1 DEF Main, BootFails, Boot, CreateCamera, StartCamera, Toggle, RemoveCamera, Leave, SetQuit, JoinProducer, JoinTelemetry, StopCameraAtExit, StopPipe, Choose
<1>2. CASE Producer
  BY <1>2 DEF Producer, Top, Open, Opened, Pick, Close, Publish, Store, Wake, Finish, End, InCapture
<1>3. CASE Telemetry \/ Picture \/ Environment
  BY <1>3 DEF Telemetry, Picture, Environment
<1>4. CASE Gone \/ UNCHANGED vars
  BY <1>4 DEF Gone
<1> QED BY <1>1, <1>2, <1>3, <1>4 DEF Next

\* Each action of the main thread.
LEMMA MainKeeps ==
  ASSUME IInv, Main, ObsTypeOK' PROVE BrokerInv'
<1> USE DEF IInv, BrokerInv, TypeOK, InCall, Frames, NoOldPicture, LabelTruthful,
            EffectiveSource, Late, AtMostOneLate, MainThread, obsVars, prodVars,
            Sources, Pictures
<1>1. CASE BootFails
  BY <1>1 DEF BootFails
<1>2. CASE Boot
  BY <1>2 DEF Boot, Capturing, AllOrNothing
<1>3. CASE CreateCamera
  BY <1>3 DEF CreateCamera
<1>4. CASE StartCamera
  <2>1. CASE vcam' = "started" /\ cam' = TRUE
    BY <1>4, <2>1 DEF StartCamera
  <2>2. CASE vcam' = "none" /\ cam' = cam
    <3>1. ~cam /\ ~cam'
      BY <1>4, <2>2 DEF StartCamera
    <3> QED BY <1>4, <2>2, <3>1 DEF StartCamera
  <2> QED BY <1>4, <2>1, <2>2 DEF StartCamera
<1>5. CASE Toggle
  BY <1>5 DEF Toggle
<1>6. CASE RemoveCamera
  <2>1. cam' = FALSE /\ vcam' = "none"
    BY <1>6 DEF RemoveCamera, StopCamera
  <2>2. TypeOK'
    <3>1. ui' = "loop" /\ UNCHANGED <<source, quit, served, tele, late>>
      BY <1>6 DEF RemoveCamera
    <3>2. UNCHANGED prodVars
      BY <1>6 DEF RemoveCamera
    <3>3. /\ source' \in Sources /\ quit' \in BOOLEAN /\ served' \in BOOLEAN
          /\ tele' \in {"off", "on", "ended"} /\ late' \in 0 .. 2
      BY <3>1
    <3>4. /\ prod' = prod /\ src' = src /\ retry' = retry /\ frame' = frame
          /\ reported' = reported /\ pub' = pub /\ eff' = eff
      BY <3>2
    <3>5. cam' \in BOOLEAN /\ vcam' \in {"none", "created", "started"}
      BY <2>1
    <3> QED BY <3>1, <3>3, <3>4, <3>5
  <2>3. InCall' /\ Frames' /\ Late'
    BY <1>6, <2>1 DEF RemoveCamera
  <2>4. MainThread'
    BY <1>6, <2>1 DEF RemoveCamera
  <2> QED BY <2>2, <2>3, <2>4
<1>7. CASE Leave
  BY <1>7 DEF Leave
<1>8. CASE SetQuit
  BY <1>8 DEF SetQuit
<1>9. CASE JoinProducer
  BY <1>9 DEF JoinProducer
<1>10. CASE JoinTelemetry
  BY <1>10 DEF JoinTelemetry
<1>11. CASE StopCameraAtExit
  <2>1. cam' = FALSE /\ vcam' = "none"
    BY <1>11 DEF StopCameraAtExit, StopCamera
  <2>2. TypeOK'
    BY <1>11, <2>1 DEF StopCameraAtExit
  <2>3. InCall' /\ Frames' /\ Late'
    BY <1>11, <2>1 DEF StopCameraAtExit
  <2>4. MainThread'
    BY <1>11, <2>1 DEF StopCameraAtExit
  <2> QED BY <2>2, <2>3, <2>4
<1>12. CASE StopPipe
  <2>1. cam' = FALSE /\ vcam' = "none"
    BY <1>12 DEF StopPipe
  <2>2. TypeOK'
    BY <1>12, <2>1 DEF StopPipe
  <2>3. InCall' /\ Frames' /\ Late'
    BY <1>12, <2>1 DEF StopPipe
  <2>4. MainThread'
    BY <1>12, <2>1 DEF StopPipe
  <2> QED BY <2>2, <2>3, <2>4
<1>13. CASE \E s \in Sources : Choose(s)
  BY <1>13 DEF Choose
<1> QED BY <1>1, <1>2, <1>3, <1>4, <1>5, <1>6, <1>7, <1>8, <1>9, <1>10, <1>11, <1>12, <1>13 DEF Main

\* Each action of the producer.
LEMMA ProducerKeeps ==
  ASSUME IInv, Producer, ObsTypeOK' PROVE BrokerInv'
<1> USE RetryAssumption
    DEF IInv, BrokerInv, TypeOK, InCall, Frames, NoOldPicture, LabelTruthful,
        EffectiveSource, Late, AtMostOneLate, MainThread, obsVars, mainVars,
        Sources, Pictures
<1>1. CASE Top
  BY <1>1 DEF Top
<1>2. CASE Open
  BY <1>2 DEF Open, StartBegin
<1>3. CASE Opened
  BY <1>3 DEF Opened
<1>4. CASE Pick
  <2>1. old = FALSE
    BY DEF Capturing, ObsTypeOK
  <2>2. CASE running /\ GetFrame
    <3>1. frame' = [shows |-> "obs", old |-> old] /\ reported' = "obs"
      BY <1>4, <2>2 DEF Pick
    <3>2. frame' \in Pictures /\ ~frame'.old /\ frame'.shows = "obs"
      BY <2>1, <3>1 DEF Pictures
    <3> QED BY <1>4, <3>1, <3>2 DEF Pick
  <2>3. CASE ~(running /\ GetFrame)
    <3>1. frame' = [shows |-> "test", old |-> FALSE] /\ reported' = "test"
      BY <1>4, <2>3 DEF Pick
    <3>2. frame' \in Pictures /\ ~frame'.old /\ frame'.shows = "test"
      BY <3>1
    <3> QED BY <1>4, <3>1, <3>2 DEF Pick
  <2> QED BY <2>2, <2>3
<1>5. CASE Close
  <2>1. CASE running
    BY <1>5, <2>1 DEF Close, StopBegin
  <2>2. CASE ~running
    <3>1. frame' = [shows |-> "test", old |-> FALSE] /\ reported' = "test"
      BY <1>5, <2>2 DEF Close
    <3>2. frame' \in Pictures /\ ~frame'.old /\ frame'.shows = "test"
      BY <3>1
    <3> QED BY <1>5, <2>2, <3>1, <3>2 DEF Close
  <2> QED BY <2>1, <2>2
<1>6. CASE Publish
  BY <1>6 DEF Publish
<1>7. CASE Store
  BY <1>7 DEF Store
<1>8. CASE Wake
  BY <1>8 DEF Wake
<1>9. CASE Finish
  BY <1>9 DEF Finish, StopBegin
<1>10. CASE End
  BY <1>10 DEF End
<1>11. CASE InCapture
  <2>1. UNCHANGED <<mainVars, prodVars, tele, late>>
    BY <1>11 DEF InCapture
  <2>2. TypeOK' /\ Frames' /\ Late' /\ MainThread'
    BY <2>1 DEF prodVars
  <2>3. InCall'
    <3>1. CASE StartStep
      BY <2>1, <3>1 DEF prodVars, StartStep, ObsTypeOK
    <3>2. CASE StartFails
      BY <2>1, <3>2 DEF prodVars, StartFails
    <3>3. CASE StartReturns
      BY <2>1, <3>3 DEF prodVars, StartReturns, Idle
    <3>4. CASE StopStep
      BY <2>1, <3>4 DEF prodVars, StopStep, ObsTypeOK
    <3>5. CASE StopReturns
      BY <2>1, <3>5 DEF prodVars, StopReturns, Idle
    <3> QED BY <1>11, <3>1, <3>2, <3>3, <3>4, <3>5 DEF InCapture, ObsCall
  <2> QED BY <2>2, <2>3
<1> QED BY <1>1, <1>2, <1>3, <1>4, <1>5, <1>6, <1>7, <1>8, <1>9, <1>10, <1>11 DEF Producer

\* The telemetry thread, the graph's thread, OBS, and the end.
LEMMA OthersKeep ==
  ASSUME IInv, Telemetry \/ Picture \/ Environment \/ Gone \/ UNCHANGED vars, ObsTypeOK'
  PROVE  BrokerInv'
<1> USE DEF IInv, BrokerInv, TypeOK, InCall, Frames, NoOldPicture, LabelTruthful,
            EffectiveSource, Late, AtMostOneLate, MainThread, mainVars, prodVars
<1>1. CASE Telemetry
  BY <1>1 DEF Telemetry, obsVars
<1>2. CASE Picture
  BY <1>2 DEF Picture, BufferCB
<1>3. CASE Environment
  BY <1>3 DEF Environment, Obs
<1>4. CASE Gone \/ UNCHANGED vars
  BY <1>4 DEF Gone, vars, obsVars
<1> QED BY <1>1, <1>2, <1>3, <1>4

-----------------------------------------------------------------------------
(* The theorems.                                                           *)

\* The broker starts with everything off.
LEMMA InvInit == Init => IInv
<1> SUFFICES ASSUME Init PROVE IInv
  OBVIOUS
<1> USE DEF Init, ObsInit, Idle, Unpublished
<1>1. ObsTypeOK
  <2>1. Len(StartSteps) = 10
    BY Steps
  <2>2. call \in [op : {"none", "start", "stop"}, at : 1 .. Len(StartSteps) + 1]
    BY <2>1
  <2> QED BY <2>2 DEF ObsTypeOK
<1>2. TypeOK
  <2>1. frame \in Pictures
    BY DEF Sources, Pictures
  <2>2. pub \in [label : Sources \cup {"none"}, shows : Sources, old : BOOLEAN]
    BY DEF Sources
  <2>3. retry \in 0 .. RetryFrames /\ late \in 0 .. 2
    BY RetryAssumption
  <2> QED BY <1>1, <2>1, <2>2, <2>3 DEF TypeOK, Sources
<1>3. Capturing
  BY DEF Capturing, AllOrNothing, HeldWhileStreaming, Objects
<1>4. InCall /\ Late /\ MainThread
  BY DEF InCall, Late, AtMostOneLate, MainThread
<1>5. Frames
  BY DEF Frames, NoOldPicture, LabelTruthful, EffectiveSource
<1> QED BY <1>2, <1>3, <1>4, <1>5 DEF IInv

\* Every step of every thread keeps the invariant.
LEMMA InvStep == IInv /\ [Next]_vars => IInv'
<1> SUFFICES ASSUME IInv, [Next]_vars PROVE IInv'
  OBVIOUS
<1>1. CaptureStep
  BY EveryStep
<1>2. ObsTypeOK' /\ Capturing'
  BY <1>1, CaptureTypes, CaptureKeeps DEF IInv, TypeOK
<1>3. BrokerInv'
  BY <1>2, MainKeeps, ProducerKeeps, OthersKeep DEF Next
<1> QED BY <1>2, <1>3 DEF IInv, BrokerInv

\* The inductive invariant holds whatever the user, OBS and the scheduler do,
\* and however many frames lie between two attempts to open OBS.
THEOREM Invariant == Spec => []IInv
  BY InvInit, InvStep, PTL DEF Spec

\* Type correctness: among others, the retry delay is never counted below
\* zero or above RetryFrames.
THEOREM TypeCorrect == Spec => []TypeOK
<1>1. IInv => TypeOK
  BY DEF IInv
<1> QED BY <1>1, Invariant, PTL

\* Whichever step of Start fails, nothing of the graph is left behind.
THEOREM NothingLeaks == Spec => []AllOrNothing
<1>1. IInv => AllOrNothing
  BY DEF IInv, Capturing
<1> QED BY <1>1, Invariant, PTL

\* The graph never runs without its objects.
THEOREM CallbacksAreSafe == Spec => []HeldWhileStreaming
<1>1. IInv => HeldWhileStreaming
  BY DEF IInv, Capturing
<1> QED BY <1>1, Invariant, PTL

\* The kind in a published header is what the frame shows.
THEOREM LabelsTellTheTruth == Spec => []LabelTruthful
<1>1. IInv => LabelTruthful
  BY DEF IInv, Frames
<1> QED BY <1>1, Invariant, PTL

\* What telemetry reports is the label of the frame that is served, except
\* while the producer is about to store it.
THEOREM TelemetryReportsWhatIsServed == Spec => []EffectiveSource
<1>1. IInv => EffectiveSource
  BY DEF IInv, Frames
<1> QED BY <1>1, Invariant, PTL

\* No picture of a graph is published after the graph has been torn down.
THEOREM NoPictureOutlivesItsGraph == Spec => []NoOldPicture
<1>1. IInv => NoOldPicture
  BY DEF IInv, Frames
<1> QED BY <1>1, Invariant, PTL

\* The user's choice of the test pattern wins after at most one frame.
THEOREM ChoiceWins == Spec => []AtMostOneLate
<1>1. IInv => AtMostOneLate
  BY DEF IInv, Late
<1> QED BY <1>1, Invariant, PTL

\* Between commands the camera is there if and only if the menu says so.
THEOREM MenuTellsTheTruth == Spec => []CameraMatches
<1>1. IInv => CameraMatches
  <2> SUFFICES ASSUME IInv, ui = "loop" PROVE vcam = IF cam THEN "started" ELSE "none"
    BY DEF CameraMatches
  <2>1. vcam \in {"none", "started"} /\ (vcam = "started" <=> cam)
    BY DEF IInv, TypeOK, MainThread
  <2> QED BY <2>1
<1> QED BY <1>1, Invariant, PTL

\* Shutdown leaves nothing running and nothing held.
THEOREM ShutdownIsQuiet == Spec => []QuietExit
<1>1. IInv => QuietExit
  <2> SUFFICES ASSUME IInv PROVE QuietExit
    OBVIOUS
  <2>1. prod = "ended" => call.op = "none"
    BY DEF IInv, TypeOK, ObsTypeOK, InCall
  <2>2. prod = "ended" => held = {} /\ ~streaming
    BY <2>1 DEF IInv, InCall, Capturing, AllOrNothing
  <2>3. ui = "done" => tele = "ended" /\ vcam = "none" /\ ~cam
    BY DEF IInv, TypeOK, MainThread
  <2>4. ui \in {"joinTelemetry", "stopCamera", "stopPipe", "done"} => prod = "ended"
    BY DEF IInv, MainThread
  <2>5. ~served => prod \in {"off", "ended"}
    BY DEF IInv, MainThread
  <2> QED BY <2>2, <2>3, <2>4, <2>5 DEF QuietExit
<1> QED BY <1>1, Invariant, PTL

-----------------------------------------------------------------------------
(* The refinement of Feed.                                                 *)

\* The broker starts as Feed does.
LEMMA FeedStarts == Init => FeedOf!FeedInit
  BY DEF Init, Unpublished, OnItsWay, FeedOf!FeedInit

\* A step that disturbs neither the choice, nor what is published, nor
\* whether it is served, nor the frame on its way, is a stutter of Feed.
LEMMA FeedStutters ==
  ASSUME UNCHANGED <<source, pub, served>>, OnItsWay' = OnItsWay
  PROVE  UNCHANGED FeedOf!feedVars
  BY DEF FeedOf!feedVars

\* Each action of the main thread is a step of Feed or a stutter.
LEMMA MainFeeds == ASSUME IInv, Main PROVE [FeedOf!FeedNext]_(FeedOf!feedVars)
<1> USE DEF prodVars, OnItsWay
<1>1. CASE Boot
  <2>1. FeedOf!SwitchOn
    BY <1>1 DEF Boot, IInv, MainThread, Frames, FeedOf!SwitchOn
  <2> QED BY <2>1 DEF FeedOf!FeedNext
<1>2. CASE \E s \in Sources : Choose(s)
  <2>1. PICK s \in Sources : Choose(s)
    BY <1>2
  <2>2. FeedOf!Choose(s)
    BY <2>1 DEF Choose, IInv, MainThread, FeedOf!Choose
  <2> QED BY <2>2 DEF FeedOf!FeedNext, FeedOf!Kinds, Sources
<1>3. CASE StopPipe
  <2>1. FeedOf!SwitchOff
    BY <1>3 DEF StopPipe, IInv, MainThread, FeedOf!SwitchOff
  <2> QED BY <2>1 DEF FeedOf!FeedNext
<1>4. CASE \/ BootFails \/ CreateCamera \/ StartCamera \/ Toggle \/ RemoveCamera \/ Leave
           \/ SetQuit \/ JoinProducer \/ JoinTelemetry \/ StopCameraAtExit
  <2>1. UNCHANGED <<source, prod, reported, pub, served>>
    BY <1>4 DEF BootFails, CreateCamera, StartCamera, Toggle, RemoveCamera, Leave,
                SetQuit, JoinProducer, JoinTelemetry, StopCameraAtExit
  <2> QED BY <2>1, FeedStutters
<1> QED BY <1>1, <1>2, <1>3, <1>4 DEF Main

\* Each action of the producer is a step of Feed or a stutter.
LEMMA ProducerFeeds == ASSUME IInv, Producer PROVE [FeedOf!FeedNext]_(FeedOf!feedVars)
<1>0. prod \notin {"off", "ended"} => served
  BY DEF IInv, MainThread
<1> USE DEF mainVars, OnItsWay
<1>1. CASE Top
  <2>1. CASE prod' = "open"
    <3>1. FeedOf!Take
      BY <1>0, <1>1, <2>1 DEF Top, FeedOf!Take
    <3> QED BY <3>1 DEF FeedOf!FeedNext
  <2>2. CASE prod' # "open"
    <3>1. ~OnItsWay /\ ~OnItsWay'
      BY <1>1, <2>2 DEF Top
    <3> QED BY <1>1, <3>1, FeedStutters DEF Top
  <2> QED BY <2>1, <2>2
<1>2. CASE Pick
  <2>1. CASE reported' = "obs"
    BY <1>2, <2>1, FeedStutters DEF Pick
  <2>2. CASE reported' # "obs"
    <3>1. FeedOf!GiveUp
      BY <1>2, <2>2 DEF Pick, FeedOf!GiveUp
    <3> QED BY <3>1 DEF FeedOf!FeedNext
  <2> QED BY <2>1, <2>2
<1>3. CASE Publish
  <2>1. FeedOf!Publish(reported)
    BY <1>0, <1>3 DEF Publish, FeedOf!Publish
  <2>2. reported \in FeedOf!Kinds
    BY DEF IInv, TypeOK, Sources, FeedOf!Kinds
  <2> QED BY <2>1, <2>2 DEF FeedOf!FeedNext
<1>4. CASE Open \/ Opened
  <2>1. OnItsWay /\ OnItsWay'
    BY <1>4 DEF Open, Opened
  <2> QED BY <1>4, <2>1, FeedStutters DEF Open, Opened
<1>5. CASE Close \/ Store \/ Wake \/ Finish \/ End
  <2>1. ~OnItsWay /\ ~OnItsWay'
    BY <1>5 DEF Close, Store, Wake, Finish, End
  <2> QED BY <1>5, <2>1, FeedStutters DEF Close, Store, Wake, Finish, End
<1>6. CASE InCapture
  BY <1>6, FeedStutters DEF InCapture, prodVars
<1> QED BY <1>1, <1>2, <1>3, <1>4, <1>5, <1>6 DEF Producer

\* The broker, with its threads, its capture and its fallbacks, implements
\* Feed: every execution of the one is, through the refinement mapping, an
\* execution of the other.
THEOREM BrokerImplementsFeed == Spec => ImplementsFeed
<1>1. IInv /\ [Next]_vars => [FeedOf!FeedNext]_(FeedOf!feedVars)
  <2> SUFFICES ASSUME IInv, [Next]_vars PROVE [FeedOf!FeedNext]_(FeedOf!feedVars)
    OBVIOUS
  <2>1. CASE Telemetry \/ Picture \/ Environment \/ Gone \/ UNCHANGED vars
    <3>1. UNCHANGED <<mainVars, prodVars>>
      BY <2>1 DEF Telemetry, Picture, Environment, Gone, vars
    <3> QED BY <3>1, FeedStutters DEF mainVars, prodVars, OnItsWay
  <2> QED BY <2>1, MainFeeds, ProducerFeeds DEF Next
<1> QED BY <1>1, FeedStarts, Invariant, PTL DEF Spec, ImplementsFeed, FeedOf!FeedSpec

=============================================================================
