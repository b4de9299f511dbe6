------------------------------ MODULE EndToEnd ------------------------------
(***************************************************************************)
(* What an application sees: the broker, as Feed, and the media-source     *)
(* streams that fetch its frames, each through a connection of its own.    *)
(*                                                                         *)
(* The broker may end or crash at any moment and be launched again; the    *)
(* user's choice does not outlive the process.  The connections are those  *)
(* of Link, which FramePipe implements, each action of a stream being one  *)
(* of Link's: a request gets the frame published last when it is answered, *)
(* or the connection is lost.  After g_pipe.Stop no connection is made,    *)
(* but those that are there are served until the process ends, by threads  *)
(* nobody joins.                                                           *)
(***************************************************************************)
EXTENDS Feed

CONSTANT Streams   \* media-source streams

VARIABLES
  up,        \* the broker's process runs
  settled,   \* history: a frame of the test pattern has been published since
             \* the user chose it
  cam,       \* cam[s]: no source, one made by the class factory, streaming, or
             \* shut down
  link,      \* link[s]: its connection, as in Link
  req,       \* req[s]: the Fetch s is in, as in Link
  pic,       \* pic[s]: what the last sample of s shows
  mark,      \* history: the answer on its way to s was copied since settled
  seen       \* history: s has shown the test pattern since settled

choice == <<source, begun, up, settled>>
connections == <<on, label, link, req>>
sample == <<pic, mark, seen>>
streamVars == <<cam, link, req, sample>>
vars == <<feedVars, up, settled, streamVars>>

\* The connections carry what a frame shows, for its number.
L == INSTANCE Link WITH None <- "none"

\* Type correctness; only a process that runs serves frames or has connections.
TypeOK ==
  /\ FeedTypeOK
  /\ up \in BOOLEAN
  /\ settled \in BOOLEAN
  /\ cam \in [Streams -> {"none", "made", "streaming", "shut"}]
  /\ link \in [Streams -> {"none", "live", "dead"}]
  /\ req \in [Streams -> [at : {"idle", "connect", "sent", "back", "ok", "failed"},
                          kind : Kinds \cup {"none"}]]
  /\ pic \in [Streams -> {"nothing", "waiting"} \cup Kinds]
  /\ mark \in [Streams -> BOOLEAN]
  /\ seen \in [Streams -> BOOLEAN]
  /\ on => up
  /\ \A s \in Streams : link[s] = "live" => up

Init ==
  /\ FeedInit
  /\ L!LinkInit
  /\ up = FALSE
  /\ settled = FALSE
  /\ cam = [s \in Streams |-> "none"]
  /\ pic = [s \in Streams |-> "nothing"]
  /\ mark = [s \in Streams |-> FALSE]
  /\ seen = [s \in Streams |-> FALSE]

-----------------------------------------------------------------------------
(* The broker.                                                             *)

Launch ==
  /\ ~up
  /\ up' = TRUE
  /\ UNCHANGED <<feedVars, settled, streamVars>>

\* What was seen no longer counts: OBS is chosen, or another broker is to come.
Forget ==
  /\ settled' = FALSE
  /\ mark' = [s \in Streams |-> FALSE]
  /\ seen' = [s \in Streams |-> FALSE]

\* The process ends: at the end of wWinMain, or in a crash handler.
Die ==
  /\ up
  /\ up' = FALSE
  /\ source' = "obs" /\ begun' = FALSE
  /\ L!Cut
  /\ Forget
  /\ UNCHANGED <<cam, pic>>

\* The user chooses.
Command ==
  /\ up
  /\ \E k \in Kinds :
       /\ Choose(k)
       /\ IF k = "obs" THEN Forget ELSE UNCHANGED <<settled, mark, seen>>
  /\ UNCHANGED <<up, cam, link, req, pic>>

\* The producer and the main thread.
Produce ==
  /\ up
  /\ \/ (SwitchOn \/ Take \/ GiveUp \/ SwitchOff) /\ UNCHANGED settled
     \/ \E k \in Kinds :
          /\ Publish(k)
          /\ settled' = (settled \/ (k = "test" /\ source = "test"))
  /\ UNCHANGED <<up, streamVars>>

-----------------------------------------------------------------------------
(* A stream.                                                               *)

\* The class factory makes an Activator, and with it the media source.
CreateInstance(s) ==
  /\ cam[s] = "none"
  /\ cam' = [cam EXCEPT ![s] = "made"]
  /\ UNCHANGED <<choice, connections, sample>>

\* The source is handed out and started, or started again (MediaSource says
\* how).
ActivateObject(s) ==
  /\ cam[s] = "made"
  /\ cam' = [cam EXCEPT ![s] = "streaming"]
  /\ UNCHANGED <<choice, connections, sample>>

\* MediaSource::Stop: no more samples are asked for.  It takes the source's
\* lock only: a Fetch that is under way goes on, and the connection stays.
Stop(s) ==
  /\ cam[s] = "streaming"
  /\ cam' = [cam EXCEPT ![s] = "made"]
  /\ UNCHANGED <<choice, connections, sample>>

\* MediaSource::Shutdown: no more samples ever, and the stream lets go of the
\* source that owns it.  In the middle of a Fetch it takes the queue from
\* RequestSample (MediaSource's broken), which is HostEnds.
Shutdown(s) ==
  /\ cam[s] \in {"made", "streaming"}
  /\ L!Resting(s)
  /\ cam' = [cam EXCEPT ![s] = "shut"]
  /\ UNCHANGED <<choice, connections, sample>>

\* The stream is destroyed, and the destructor of its pipe client, or the
\* system, closes its connection.
Destroyed(s) ==
  /\ cam' = [cam EXCEPT ![s] = "none"]
  /\ L!Close(s)
  /\ pic' = [pic EXCEPT ![s] = "nothing"]
  /\ mark' = [mark EXCEPT ![s] = FALSE]
  /\ seen' = [seen EXCEPT ![s] = FALSE]
  /\ UNCHANGED choice

\* DetachObject lets go of the source, too.
DetachObject(s) == cam[s] = "shut" /\ Destroyed(s)

\* The process the source is in ends, in the middle of whatever it does.
HostEnds(s) == cam[s] # "none" /\ Destroyed(s)

\* RequestSample calls Fetch.
Request(s) ==
  /\ cam[s] = "streaming"
  /\ L!Request(s)
  /\ UNCHANGED <<choice, cam, sample>>

Connect(s) == L!Connect(s) /\ UNCHANGED <<choice, cam, sample>>

Refuse(s) == L!Refuse(s) /\ UNCHANGED <<choice, cam, sample>>

\* A serving thread copies the header and the frame there are.
Answer(s) ==
  /\ L!Answer(s)
  /\ mark' = [mark EXCEPT ![s] = settled]
  /\ UNCHANGED <<choice, cam, pic, seen>>

\* Fetch returns a frame, and the sample shows it.
Show(s) ==
  /\ L!Return(s)
  /\ pic' = [pic EXCEPT ![s] = req[s].kind]
  /\ mark' = [mark EXCEPT ![s] = FALSE]
  /\ seen' = [seen EXCEPT ![s] = @ \/ mark[s]]
  /\ UNCHANGED <<choice, cam>>

\* Mutant: the buffer of the last Fetch is shown again.
Wait_ShowsBuffer(s) ==
  /\ L!Fail(s)
  /\ pic' = [pic EXCEPT ![s] = IF @ \in Kinds THEN @ ELSE "waiting"]
  /\ mark' = [mark EXCEPT ![s] = FALSE]
  /\ UNCHANGED <<choice, cam, seen>>

\* Fetch fails, and the sample shows the waiting pattern.
Wait(s) ==
  /\ L!Fail(s)
  /\ pic' = [pic EXCEPT ![s] = "waiting"]
  /\ mark' = [mark EXCEPT ![s] = FALSE]
  /\ UNCHANGED <<choice, cam, seen>>

Sample(s) == Request(s) \/ Connect(s) \/ Refuse(s) \/ Answer(s) \/ Show(s) \/ Wait(s)

-----------------------------------------------------------------------------
Next ==
  \/ Launch \/ Die \/ Command \/ Produce
  \/ \E s \in Streams :
       \/ CreateInstance(s) \/ ActivateObject(s) \/ Stop(s) \/ Shutdown(s)
       \/ DetachObject(s) \/ HostEnds(s)
       \/ Sample(s)

Spec == Init /\ [][Next]_vars

\* An application that streams asks for one sample after another, each Fetch
\* ends (FramePipe's FetchReturns), and while the server accepts connections
\* not every attempt to connect fails (its Recovers).  Nothing makes the user
\* act, a process end or begin, or the producer publish.
Fairness == \A s \in Streams : WF_vars(Sample(s)) /\ SF_vars(Connect(s))

FairSpec == Spec /\ Fairness

-----------------------------------------------------------------------------
(* Safety.                                                                 *)

\* Once an application has shown the test pattern the user chose, it shows no
\* frame of OBS until the user chooses OBS or the broker is launched anew:
\* not the one that was being made when the user chose, not one that was on
\* its way, and not over a connection that was lost and made again.
NoStepBack == \A s \in Streams : seen[s] => pic[s] # "obs"

-----------------------------------------------------------------------------
(* Liveness, under FairSpec.                                               *)

\* What the broker publishes for good is what every application that streams
\* shows for good, whatever came before: crashes, lost connections, samples
\* without a frame.
Follows ==
  \A s \in Streams, k \in Kinds :
    <>[](on /\ label = k /\ cam[s] = "streaming") => <>[](pic[s] = k)

\* "Waiting for OBS2MF service...": when the broker is gone for good every
\* application that streams comes to show the waiting pattern, and no last
\* frame for ever.
GoneShowsWaiting ==
  \A s \in Streams :
    <>[](~up /\ cam[s] = "streaming") => <>[](pic[s] = "waiting")

-----------------------------------------------------------------------------
(* The inductive invariant behind NoStepBack.                              *)

\* From the first frame of the test pattern on, none of OBS is begun or
\* published...
Settled == settled => source = "test" /\ ~begun /\ label = "test"

\* ...and none is on its way to a stream that has shown the test pattern.
Seen ==
  \A s \in Streams :
    /\ mark[s] => settled /\ req[s].at = "back" /\ req[s].kind = "test"
    /\ seen[s] => settled /\ pic[s] # "obs" /\ req[s].kind # "obs"

IInv == TypeOK /\ Settled /\ Seen

=============================================================================
