---------------------------- MODULE SystemProofs ----------------------------
(***************************************************************************)
(* System implements EndToEnd, for any number of streams and any retry     *)
(* delay.  The broker's part rests on the inductive invariant of           *)
(* BrokerProofs, which every process that is launched has anew; what       *)
(* EndToEndProofs shows of EndToEnd then holds of System.                  *)
(***************************************************************************)
EXTENDS System, BrokerProofs

-----------------------------------------------------------------------------
(* The broker's invariant, over every process.                             *)

\* A new process has its statics as Init has them.
LEMMA NewIsInit == up \in BOOLEAN /\ NewProcess => Init'
  BY DEF NewProcess, Init, ObsInit

LEMMA NewKeeps == IInv /\ NewProcess => IInv'
<1>1. IInv => up \in BOOLEAN
  BY DEF IInv, TypeOK, ObsTypeOK
<1> QED BY <1>1, NewIsInit, InvInit, PTL

\* But for the end of a process, a step of System is for the broker one of its
\* own or none.
LEMMA BrokerSteps == [SystemNext]_systemVars => [Next]_vars \/ NewProcess
<1> SUFFICES ASSUME [SystemNext]_systemVars PROVE [Next]_vars \/ NewProcess
  OBVIOUS
<1>1. CASE Launch \/ UNCHANGED systemVars \/ \E s \in Streams : Stream(s)
  BY <1>1 DEF Launch, Stream, systemVars
<1>2. CASE Die
  BY <1>2 DEF Die
<1>3. CASE Command
  BY <1>3 DEF Command, Next, Main
<1>4. CASE PublishFrame
  BY <1>4 DEF PublishFrame, Next, Producer
<1>5. CASE Run
  BY <1>5 DEF Run, Next, Main, Producer
<1>6. CASE ObsAlone
  BY <1>6 DEF ObsAlone, Next
<1> QED BY <1>1, <1>2, <1>3, <1>4, <1>5, <1>6 DEF SystemNext

\* The inductive invariant of one broker holds over every crash and relaunch.
THEOREM EveryBroker == SystemSpec => []IInv
<1>1. SystemInit => IInv
  BY InvInit DEF SystemInit
<1>2. IInv /\ [SystemNext]_systemVars => IInv'
  BY BrokerSteps, InvStep, NewKeeps
<1> QED BY <1>1, <1>2, PTL DEF SystemSpec

-----------------------------------------------------------------------------
(* The refinement of EndToEnd.                                             *)

LEMMA Starts == SystemInit => E!Init
  BY DEF SystemInit, Init, Unpublished, OnItsWay, E!Init, E!FeedInit, E!L!LinkInit

\* A step that disturbs neither the choice, nor what is published, nor
\* whether it is served, nor the frame on its way, and no stream, is a
\* stutter of EndToEnd.
LEMMA Stutters ==
  ASSUME UNCHANGED <<source, pub, served, alive, settled, streams>>, OnItsWay' = OnItsWay
  PROVE  UNCHANGED E!vars
  BY DEF streams, E!vars, E!feedVars, E!streamVars, E!sample

LEMMA LaunchRefines == Launch => E!Launch
  BY DEF Launch, E!Launch, vars, mainVars, prodVars, streams, OnItsWay, E!feedVars,
         E!streamVars, E!sample

LEMMA DieRefines == Die => E!Die
  BY DEF Die, NewProcess, Unpublished, OnItsWay, E!Die

LEMMA CommandRefines == IInv /\ Command => E!Command
<1> SUFFICES ASSUME IInv, Command PROVE E!Command
  OBVIOUS
<1>1. PICK k \in Sources :
        /\ Choose(k)
        /\ IF k = "obs" THEN E!Forget ELSE UNCHANGED <<settled, mark, seen>>
  BY DEF Command
<1>2. E!Choose(k)
  BY <1>1 DEF Choose, IInv, MainThread, prodVars, OnItsWay, E!Choose
<1>3. k \in E!Kinds
  BY DEF Sources, E!Kinds
<1> QED BY <1>1, <1>2, <1>3 DEF Command, E!Command

LEMMA PublishRefines == IInv /\ PublishFrame => E!Produce
<1> SUFFICES ASSUME IInv, PublishFrame PROVE E!Produce
  OBVIOUS
<1>1. served /\ reported \in E!Kinds
  BY DEF PublishFrame, Publish, IInv, TypeOK, MainThread, Sources, E!Kinds
<1>2. E!Publish(reported)
  BY <1>1 DEF PublishFrame, Publish, mainVars, OnItsWay, E!Publish
<1>3. settled' = (settled \/ (reported = "test" /\ source = "test"))
  BY DEF PublishFrame
<1> QED BY <1>1, <1>2, <1>3 DEF PublishFrame, streams, E!Produce, E!streamVars, E!sample

\* Of the other steps of the broker four are steps of the feed: the server is
\* switched on and off, a frame of OBS is begun or given up.
LEMMA RunRefines == IInv /\ Run => E!Produce \/ UNCHANGED E!vars
<1> SUFFICES ASSUME IInv, Run PROVE E!Produce \/ UNCHANGED E!vars
  OBVIOUS
<1>0. alive /\ UNCHANGED <<alive, settled, streams>>
  BY DEF Run
<1>1. ASSUME E!SwitchOn \/ E!Take \/ E!GiveUp \/ E!SwitchOff PROVE E!Produce
  BY <1>0, <1>1 DEF streams, E!Produce, E!streamVars, E!sample
<1>2. CASE Boot
  BY <1>1, <1>2 DEF Boot, prodVars, IInv, MainThread, Frames, OnItsWay, E!SwitchOn
<1>3. CASE StopPipe
  BY <1>1, <1>3 DEF StopPipe, prodVars, IInv, MainThread, OnItsWay, E!SwitchOff
<1>4. CASE Top
  <2>1. CASE prod' = "open"
    BY <1>1, <1>4, <2>1 DEF Top, mainVars, IInv, MainThread, OnItsWay, E!Take
  <2>2. CASE prod' # "open"
    BY <1>0, <1>4, <2>2, Stutters DEF Top, mainVars, OnItsWay
  <2> QED BY <2>1, <2>2
<1>5. CASE Pick
  <2>1. CASE reported' = "obs"
    BY <1>0, <1>5, <2>1, Stutters DEF Pick, mainVars, OnItsWay
  <2>2. CASE reported' # "obs"
    BY <1>1, <1>5, <2>2 DEF Pick, mainVars, OnItsWay, E!GiveUp
  <2> QED BY <2>1, <2>2
<1>6. CASE \/ BootFails \/ CreateCamera \/ StartCamera \/ Toggle \/ RemoveCamera \/ Leave
           \/ SetQuit \/ JoinProducer \/ JoinTelemetry \/ StopCameraAtExit
           \/ InCapture \/ Telemetry \/ Picture
  <2>1. UNCHANGED <<source, pub, served, prod, reported>>
    BY <1>6 DEF BootFails, CreateCamera, StartCamera, Toggle, RemoveCamera, Leave, SetQuit,
                JoinProducer, JoinTelemetry, StopCameraAtExit, InCapture, Telemetry,
                Picture, mainVars, prodVars
  <2> QED BY <1>0, <2>1, Stutters DEF OnItsWay
<1>7. CASE Open \/ Opened \/ Close \/ Store \/ Wake \/ Finish \/ End
  <2>1. UNCHANGED <<source, pub, served>> /\ OnItsWay' = OnItsWay
    BY <1>7 DEF Open, Opened, Close, Store, Wake, Finish, End, mainVars, OnItsWay
  <2> QED BY <1>0, <2>1, Stutters
<1> QED BY <1>2, <1>3, <1>4, <1>5, <1>6, <1>7 DEF Run

LEMMA ObsRefines == ObsAlone => UNCHANGED E!vars
  BY Stutters DEF ObsAlone, Environment, mainVars, prodVars, OnItsWay

\* A stream's steps are those of EndToEnd.
LEMMA StreamRefines == ASSUME NEW s \in Streams, Stream(s) PROVE E!Next
  BY DEF Stream, E!Next

\* What wWinMain, ProducerThread and ObsCapture do, in a process that may end at
\* any line and be launched again, is for the streams what EndToEnd says of a
\* broker: a step of the abstract one, or none.
THEOREM SystemImplementsEndToEnd == SystemSpec => ImplementsEndToEnd
<1>1. IInv /\ [SystemNext]_systemVars => [E!Next]_(E!vars)
  <2> SUFFICES ASSUME IInv, [SystemNext]_systemVars PROVE [E!Next]_(E!vars)
    OBVIOUS
  <2>1. CASE Launch \/ Die \/ Command \/ PublishFrame
    BY <2>1, LaunchRefines, DieRefines, CommandRefines, PublishRefines DEF E!Next
  <2>2. CASE Run
    BY <2>2, RunRefines DEF E!Next
  <2>3. CASE ObsAlone
    BY <2>3, ObsRefines
  <2>4. CASE \E s \in Streams : Stream(s)
    BY <2>4, StreamRefines
  <2>5. CASE UNCHANGED systemVars
    BY <2>5, Stutters DEF systemVars, vars, mainVars, prodVars, OnItsWay
  <2> QED BY <2>1, <2>2, <2>3, <2>4, <2>5 DEF SystemNext
<1> QED BY <1>1, Starts, EveryBroker, PTL DEF SystemSpec, ImplementsEndToEnd, E!Spec

-----------------------------------------------------------------------------
(* What EndToEndProofs shows holds of System.                              *)

P == INSTANCE EndToEndProofs WITH
  up <- alive, cam <- life, begun <- OnItsWay, label <- pub.label, on <- served

\* EndToEndProofs speaks of EndToEnd with the same state for its variables.
LEMMA SameInit == E!Init => P!Init
  BY DEF E!Init, P!Init, E!FeedInit, P!FeedInit, E!L!LinkInit, P!L!LinkInit, E!L!At, P!L!At

LEMMA SameBroker ==
  E!Launch \/ E!Die \/ E!Command \/ E!Produce => P!Launch \/ P!Die \/ P!Command \/ P!Produce
<1>1. E!Die => P!Die
  BY DEF E!Die, P!Die, E!Forget, P!Forget, E!L!Cut, P!L!Cut, E!L!At, P!L!At
<1>2. E!Launch \/ E!Command \/ E!Produce => P!Launch \/ P!Command \/ P!Produce
  BY DEF E!Launch, P!Launch, E!Command, P!Command, E!Produce, P!Produce,
         E!feedVars, P!feedVars, E!streamVars, P!streamVars, E!sample, P!sample,
         E!Forget, P!Forget, E!Kinds, P!Kinds, E!Choose, P!Choose,
         E!SwitchOn, P!SwitchOn, E!Take, P!Take, E!GiveUp, P!GiveUp,
         E!SwitchOff, P!SwitchOff, E!Publish, P!Publish
<1> QED BY <1>1, <1>2

LEMMA SameStream ==
  ASSUME NEW s \in Streams,
         \/ E!CreateInstance(s) \/ E!ActivateObject(s) \/ E!Stop(s) \/ E!Shutdown(s) \/ E!DetachObject(s)
         \/ E!HostEnds(s) \/ E!Sample(s)
  PROVE  \/ P!CreateInstance(s) \/ P!ActivateObject(s) \/ P!Stop(s) \/ P!Shutdown(s) \/ P!DetachObject(s)
         \/ P!HostEnds(s) \/ P!Sample(s)
<1> USE DEF E!choice, P!choice, E!connections, P!connections, E!sample, P!sample,
            E!L!At, P!L!At, E!L!Resting, P!L!Resting
<1>1. CASE E!CreateInstance(s) \/ E!ActivateObject(s) \/ E!Stop(s) \/ E!Shutdown(s)
  BY <1>1 DEF E!CreateInstance, P!CreateInstance, E!ActivateObject, P!ActivateObject,
              E!Stop, P!Stop, E!Shutdown, P!Shutdown
<1>2. CASE E!DetachObject(s) \/ E!HostEnds(s)
  BY <1>2 DEF E!DetachObject, P!DetachObject, E!HostEnds, P!HostEnds, E!Destroyed, P!Destroyed,
              E!L!Close, P!L!Close
<1>3. CASE E!Request(s) \/ E!Connect(s) \/ E!Refuse(s)
  <2>1. P!Request(s) \/ P!Connect(s) \/ P!Refuse(s)
    BY <1>3 DEF E!Request, P!Request, E!Connect, P!Connect, E!Refuse, P!Refuse,
                E!L!Request, P!L!Request, E!L!Connect, P!L!Connect, E!L!Refuse, P!L!Refuse
  <2> QED BY <2>1 DEF P!Sample
<1>4. CASE E!Answer(s) \/ E!Show(s) \/ E!Wait(s)
  <2>1. P!Answer(s) \/ P!Show(s) \/ P!Wait(s)
    BY <1>4 DEF E!Answer, P!Answer, E!Show, P!Show, E!Wait, P!Wait,
                E!L!Answer, P!L!Answer, E!L!Return, P!L!Return, E!L!Fail, P!L!Fail
  <2> QED BY <2>1 DEF P!Sample
<1> QED BY <1>1, <1>2, <1>3, <1>4 DEF E!Sample

LEMMA SameSpec == E!Spec => P!Spec
<1>1. [E!Next]_(E!vars) => [P!Next]_(P!vars)
  BY SameBroker, SameStream
     DEF E!Next, P!Next, E!vars, P!vars, E!feedVars, P!feedVars, E!streamVars, P!streamVars,
         E!sample, P!sample
<1> QED BY <1>1, SameInit, PTL DEF E!Spec, P!Spec

\* No application, of any number, falls back from the test pattern the user
\* chose to a frame of OBS, whatever the broker's producer, its main thread,
\* its capture and OBS are doing at that time, and whatever crashes.
THEOREM NobodyStepsBackInSystem == SystemSpec => []NobodyStepsBack
<1>1. P!NoStepBack => NobodyStepsBack
  BY DEF P!NoStepBack, NobodyStepsBack, E!NoStepBack
<1> QED BY <1>1, SystemImplementsEndToEnd, SameSpec, P!NobodyStepsBack, PTL
        DEF ImplementsEndToEnd

\* What the streams of System have are connections of Link, the ones that the
\* pipe of ipc.h is proved to give: no thread of the broker, and no end of its
\* process, does anything to a connection that the pipe does not.
THEOREM SystemUsesLink == SystemSpec => E!L!LinkSpec
<1>1. P!L!LinkSpec => E!L!LinkSpec
  <2>1. P!L!LinkInit => E!L!LinkInit
    BY DEF E!L!LinkInit, P!L!LinkInit, E!L!At, P!L!At
  <2>2. [P!L!LinkNext]_(P!L!linkVars) => [E!L!LinkNext]_(E!L!linkVars)
    BY DEF E!L!LinkNext, P!L!LinkNext, E!L!linkVars, P!L!linkVars, E!L!At, P!L!At,
           E!L!Resting, P!L!Resting, E!L!SwitchOn, P!L!SwitchOn, E!L!SwitchOff, P!L!SwitchOff,
           E!L!Replace, P!L!Replace, E!L!Cut, P!L!Cut, E!L!Request, P!L!Request,
           E!L!Connect, P!L!Connect, E!L!Refuse, P!L!Refuse, E!L!Answer, P!L!Answer,
           E!L!Return, P!L!Return, E!L!Fail, P!L!Fail, E!L!Close, P!L!Close
  <2> QED BY <2>1, <2>2, PTL DEF E!L!LinkSpec, P!L!LinkSpec
<1> QED BY <1>1, SystemImplementsEndToEnd, SameSpec, P!ConnectionsAreLinks, PTL
        DEF ImplementsEndToEnd

=============================================================================
