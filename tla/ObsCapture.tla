----------------------------- MODULE ObsCapture -----------------------------
(***************************************************************************)
(* The capture of OBS's virtual camera through a DirectShow graph:         *)
(* src/src/Vcam.Broker/ObsCapture.cpp.                                     *)
(*                                                                         *)
(* Start builds the graph object by object; any step may fail and then     *)
(* Stop releases what was acquired so far.  Start, Stop and GetFrame are   *)
(* called by one thread (the broker's producer), BufferCB by a thread of   *)
(* the graph, which runs from control->Run() to control->Stop().           *)
(*                                                                         *)
(* A picture is what the graph delivers: a full NV12 frame, or a buffer    *)
(* shorter than the size of the connected media type calls for.            *)
(***************************************************************************)
EXTENDS Naturals, Sequences, FiniteSets

VARIABLES
  up,         \* OBS's virtual camera is there and delivers pictures
  call,       \* the call in progress: Start or Stop, and its next step
  running,    \* running
  held,       \* which of the seven COM pointers are not null
  sized,      \* srcW and srcH are positive
  streaming,  \* the graph calls BufferCB
  native,     \* native: no picture, a short one, or a full one
  old         \* history: native was captured by a graph before this one

obsVars == <<up, call, running, held, sized, streaming, native, old>>

Objects == {"graph", "builder", "source", "grabberFilter", "grabber",
            "nullRenderer", "control"}

\* The steps of Start that can fail, in order.
StartSteps == <<"graph", "builder", "source", "grabberFilter", "grabber",
                "nullRenderer", "connect", "size", "control", "run">>

\* Mutant: the grabber and its callback are released while the graph runs.
StopSteps_GrabberFirst ==
  <<"grabber", "control", "grabberFilter", "nullRenderer", "source", "builder",
    "graph">>

\* The pointers Stop releases, in order.
StopSteps == <<"control", "grabber", "grabberFilter", "nullRenderer", "source",
               "builder", "graph">>

Idle == [op |-> "none", at |-> 1]

ObsTypeOK ==
  /\ up \in BOOLEAN
  /\ call \in [op : {"none", "start", "stop"}, at : 1 .. Len(StartSteps) + 1]
  /\ running \in BOOLEAN
  /\ held \subseteq Objects
  /\ sized \in BOOLEAN /\ streaming \in BOOLEAN
  /\ native \in {"none", "short", "full"}
  /\ old \in BOOLEAN

ObsInit ==
  /\ up \in BOOLEAN
  /\ call = Idle
  /\ running = FALSE
  /\ held = {}
  /\ sized = FALSE /\ streaming = FALSE
  /\ native = "none"
  /\ old = FALSE

-----------------------------------------------------------------------------
(* Start.                                                                  *)

StartBegin ==
  /\ call.op = "none"
  /\ ~running
  /\ call' = [op |-> "start", at |-> 1]
  /\ old' = (native # "none")
  /\ UNCHANGED <<up, running, held, sized, streaming, native>>

\* A step succeeds: a pointer is set, the filters are connected, the media
\* type tells the size, or the graph runs.
StartStep ==
  LET step == StartSteps[call.at] IN
  /\ call.op = "start"
  /\ call.at <= Len(StartSteps)
  /\ held' = held \cup ({step} \cap Objects)
  /\ sized' = (sized \/ step = "size")
  /\ streaming' = (streaming \/ step = "run")
  /\ call' = [call EXCEPT !.at = @ + 1]
  /\ UNCHANGED <<up, running, native, old>>

\* Mutant: Start gives up without releasing anything.
StartFails_NoStop ==
  /\ call.op = "start"
  /\ call.at <= Len(StartSteps)
  /\ ~up
  /\ call' = Idle
  /\ UNCHANGED <<up, running, held, sized, streaming, native, old>>

\* A step fails, OBS or DirectShow not being there: Stop(); return false.  A
\* Run that fails may have started some of the filters.
StartFails ==
  /\ call.op = "start"
  /\ call.at <= Len(StartSteps)
  /\ ~up
  /\ call' = [op |-> "stop", at |-> 1]
  /\ streaming' \in {FALSE, StartSteps[call.at] = "run"}
  /\ UNCHANGED <<up, running, held, sized, native, old>>

StartReturns ==
  /\ call.op = "start"
  /\ call.at > Len(StartSteps)
  /\ running' = TRUE
  /\ call' = Idle
  /\ UNCHANGED <<up, held, sized, streaming, native, old>>

-----------------------------------------------------------------------------
(* Stop.                                                                   *)

StopBegin ==
  /\ call.op = "none"
  /\ call' = [op |-> "stop", at |-> 1]
  /\ UNCHANGED <<up, running, held, sized, streaming, native, old>>

\* One pointer is released, if it is set; control->Stop() ends the callbacks.
StopStep ==
  LET step == StopSteps[call.at] IN
  /\ call.op = "stop"
  /\ call.at <= Len(StopSteps)
  /\ held' = held \ {step}
  /\ streaming' = (streaming /\ step # "control")
  /\ call' = [call EXCEPT !.at = @ + 1]
  /\ UNCHANGED <<up, running, sized, native, old>>

\* Mutant: the last picture is kept.
StopReturns_KeepsPicture ==
  /\ call.op = "stop"
  /\ call.at > Len(StopSteps)
  /\ sized' = FALSE
  /\ running' = FALSE
  /\ call' = Idle
  /\ UNCHANGED <<up, held, streaming, native, old>>

\* native.clear(), srcW = srcH = 0 under the lock; running = false.
StopReturns ==
  /\ call.op = "stop"
  /\ call.at > Len(StopSteps)
  /\ native' = "none"
  /\ sized' = FALSE
  /\ running' = FALSE
  /\ call' = Idle
  /\ UNCHANGED <<up, held, streaming, old>>

-----------------------------------------------------------------------------
(* The picture, and who delivers it.                                       *)

\* BufferCB, under the lock.  A camera without OBS may still deliver whole
\* pictures (of a placeholder), or nothing, or less than a picture.
BufferCB ==
  /\ streaming
  /\ native' \in {"full"} \cup (IF up THEN {} ELSE {"short"})
  /\ old' = FALSE
  /\ UNCHANGED <<up, call, running, held, sized, streaming>>

\* What GetFrame returns, under the same lock.
GetFrame == sized /\ native = "full"

\* OBS is started or stopped.
Obs ==
  /\ up' = ~up
  /\ UNCHANGED <<call, running, held, sized, streaming, native, old>>

ObsCall == StartStep \/ StartFails \/ StartReturns \/ StopStep \/ StopReturns

-----------------------------------------------------------------------------
(* Safety.                                                                 *)

\* Between calls there is either a whole graph or none of it: whichever step
\* of Start failed, Stop left no object, no size and no picture behind, so a
\* Start that is tried again every two seconds leaks nothing (ObsCapture.cpp,
\* Start's error paths and Stop).
AllOrNothing ==
  call.op = "none" =>
    IF running THEN held = Objects /\ sized /\ streaming
    ELSE held = {} /\ ~sized /\ ~streaming /\ native = "none"

\* While the graph can call BufferCB every object it runs on is still held:
\* Stop stops the graph before it releases anything.
HeldWhileStreaming == streaming => held = Objects /\ sized

=============================================================================
