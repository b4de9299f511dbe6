-------------------------------- MODULE System --------------------------------
(***************************************************************************)
(* The whole: the broker with its threads and its capture, as Broker, and  *)
(* the media-source streams that fetch its frames, as in EndToEnd.         *)
(*                                                                         *)
(* The broker's process is launched, ends at the end of wWinMain or        *)
(* between any two steps of any of its threads, and is launched again with *)
(* its memory as new.  What a stream sees of it is whether its server is   *)
(* served, the label of the frame published last, and the end of its       *)
(* connections.  System implements EndToEnd, so that what an application   *)
(* is promised there holds of the broker's own threads, and is not a       *)
(* property of the abstract Feed alone.                                    *)
(***************************************************************************)
EXTENDS Broker

CONSTANT Streams   \* media-source streams

VARIABLES
  alive,     \* the broker's process runs
  settled,   \* history: a frame of the test pattern has been published since
             \* the user chose it
  life,      \* life[s]: the media source of s, EndToEnd's cam
  link,      \* link[s]: its connection
  req,       \* req[s]: the Fetch s is in, and the frame that answers it
  pic,       \* pic[s]: what the last sample of s shows
  mark,      \* history: the answer on its way to s was copied since settled
  seen       \* history: s has shown the test pattern since settled

streams == <<life, link, req, pic, mark, seen>>
systemVars == <<vars, alive, settled, streams>>

\* What the streams know of the broker.
E == INSTANCE EndToEnd WITH
  up <- alive, cam <- life, begun <- OnItsWay, label <- pub.label, on <- served

SystemInit ==
  /\ Init
  /\ alive = FALSE
  /\ settled = FALSE
  /\ life = [s \in Streams |-> "none"]
  /\ link = [s \in Streams |-> "none"]
  /\ req = [s \in Streams |-> E!L!At("idle")]
  /\ pic = [s \in Streams |-> "nothing"]
  /\ mark = [s \in Streams |-> FALSE]
  /\ seen = [s \in Streams |-> FALSE]

-----------------------------------------------------------------------------
(* The broker's process.                                                   *)

Launch ==
  /\ ~alive
  /\ alive' = TRUE
  /\ UNCHANGED <<vars, settled, streams>>

\* The statics and the threads' locals of a process that is to come, as Init
\* has them.  OBS is another process.
NewProcess ==
  /\ ui' = "boot" /\ prod' = "off" /\ tele' = "off"
  /\ source' = "obs" /\ quit' = FALSE /\ served' = FALSE
  /\ vcam' = "none" /\ cam' = FALSE
  /\ src' = "obs" /\ retry' = 0 /\ reported' = "obs"
  /\ frame' = [shows |-> "test", old |-> FALSE]
  /\ pub' = Unpublished /\ eff' = "none" /\ late' = 0
  /\ call' = Idle /\ running' = FALSE /\ held' = {}
  /\ sized' = FALSE /\ streaming' = FALSE
  /\ native' = "none" /\ old' = FALSE
  /\ UNCHANGED up

\* The process ends, at the end of wWinMain or in a crash handler, in the
\* middle of whatever its threads do.
Die ==
  /\ alive
  /\ alive' = FALSE
  /\ NewProcess
  /\ E!L!Cut
  /\ E!Forget
  /\ UNCHANGED <<life, pic>>

\* The user chooses.  With OBS, what was seen no longer counts.
Command ==
  /\ alive
  /\ \E k \in Sources :
       /\ Choose(k)
       /\ IF k = "obs" THEN E!Forget ELSE UNCHANGED <<settled, mark, seen>>
  /\ UNCHANGED <<alive, life, link, req, pic>>

\* The producer publishes.
PublishFrame ==
  /\ alive
  /\ Publish
  /\ settled' = (settled \/ (reported = "test" /\ source = "test"))
  /\ UNCHANGED <<alive, streams>>

\* All other steps of the broker's threads, of its graph's and of the main
\* thread.
Run ==
  /\ alive
  /\ \/ BootFails \/ Boot \/ CreateCamera \/ StartCamera
     \/ Toggle \/ RemoveCamera \/ Leave
     \/ SetQuit \/ JoinProducer \/ JoinTelemetry \/ StopCameraAtExit \/ StopPipe
     \/ Top \/ Open \/ Opened \/ Pick \/ Close \/ Store \/ Wake \/ Finish \/ End
     \/ InCapture \/ Telemetry \/ Picture
  /\ UNCHANGED <<alive, settled, streams>>

\* OBS comes or goes, with or without a broker.
ObsAlone == Environment /\ UNCHANGED <<alive, settled, streams>>

-----------------------------------------------------------------------------
\* A stream makes a step of EndToEnd; it changes nothing of the broker.
Stream(s) ==
  /\ UNCHANGED vars
  /\ \/ E!CreateInstance(s) \/ E!ActivateObject(s) \/ E!Stop(s) \/ E!Shutdown(s)
     \/ E!DetachObject(s) \/ E!HostEnds(s)
     \/ E!Sample(s)

SystemNext ==
  \/ Launch \/ Die \/ Command \/ PublishFrame \/ Run \/ ObsAlone
  \/ \E s \in Streams : Stream(s)

SystemSpec == SystemInit /\ [][SystemNext]_systemVars

-----------------------------------------------------------------------------
\* Every behaviour of the broker's threads, its captures, crashes and
\* relaunches, with any number of streams, is one of EndToEnd: a frame of OBS
\* is begun, published and answered only as Feed says, in every process.
ImplementsEndToEnd == E!Spec

\* So no application steps back from the test pattern the user chose to OBS.
NobodyStepsBack == E!NoStepBack

=============================================================================
