-------------------------------- MODULE Link --------------------------------
(***************************************************************************)
(* The connections of media-source streams to the broker, with no pipe     *)
(* instances, no threads and no units of payload.  A stream keeps one      *)
(* connection over its requests, which one broker's server makes and only  *)
(* the end of that broker's process, or the stream, ends.  FramePipe       *)
(* implements it; EndToEnd, and with it System, is built on it.            *)
(*                                                                         *)
(* A request is answered, at one instant, with the frame published last.   *)
(* A server that has been stopped makes no connection, but goes on serving *)
(* those that are there.                                                   *)
(***************************************************************************)
CONSTANTS Streams,   \* media-source streams
          None       \* nothing has been published

VARIABLES on,      \* connections are made
          label,   \* the frame published last
          link,    \* link[s]: no connection, one to the broker, or one to a
                   \* broker that has ended
          req      \* req[s]: how far the Fetch of s has come, or how it ended, and
                   \* the frame that answers it

linkVars == <<on, label, link, req>>

At(where) == [at |-> where, kind |-> None]

\* s is not inside Fetch.
Resting(s) == req[s].at \in {"idle", "ok", "failed"}

LinkInit ==
  /\ on = FALSE
  /\ label = None
  /\ link = [s \in Streams |-> "none"]
  /\ req = [s \in Streams |-> At("idle")]

-----------------------------------------------------------------------------
(* The broker.                                                             *)

SwitchOn ==
  /\ ~on
  /\ label = None
  /\ on' = TRUE
  /\ UNCHANGED <<label, link, req>>

SwitchOff ==
  /\ on
  /\ on' = FALSE
  /\ UNCHANGED <<label, link, req>>

\* A frame is published.
Replace ==
  /\ on
  /\ label' # None
  /\ UNCHANGED <<on, link, req>>

\* Mutant: a connection survives its broker.
Cut_KeepsLinks ==
  /\ on' = FALSE
  /\ label' = None
  /\ UNCHANGED <<link, req>>

\* The process ends, and every connection to it: of the answers on their way
\* some may be lost, and some streams may just have been connected.
Cut ==
  /\ on' = FALSE
  /\ label' = None
  /\ \E lost \in SUBSET {s \in Streams : req[s].at = "back"},
        left \in SUBSET {s \in Streams : req[s].at = "connect"} :
       /\ link' = [s \in Streams |-> IF link[s] = "live" \/ s \in left THEN "dead" ELSE link[s]]
       /\ req' = [s \in Streams |-> IF s \in lost \cup left THEN At("sent") ELSE req[s]]

-----------------------------------------------------------------------------
(* A stream.                                                               *)

\* RequestSample calls Fetch, over the connection there is.
Request(s) ==
  /\ Resting(s)
  /\ req' = [req EXCEPT ![s] = At(IF link[s] = "none" THEN "connect" ELSE "sent")]
  /\ UNCHANGED <<on, label, link>>

Connect(s) ==
  /\ req[s].at = "connect"
  /\ on
  /\ link' = [link EXCEPT ![s] = "live"]
  /\ req' = [req EXCEPT ![s] = At("sent")]
  /\ UNCHANGED <<on, label>>

\* A connection that came too late to be served is closed by the server.
Refuse(s) ==
  /\ req[s].at = "connect"
  /\ ~on
  /\ link' = [link EXCEPT ![s] = "dead"]
  /\ req' = [req EXCEPT ![s] = At("sent")]
  /\ UNCHANGED <<on, label>>

\* A serving thread copies the header and the frame there are.
Answer(s) ==
  /\ req[s].at = "sent"
  /\ link[s] = "live"
  /\ req' = [req EXCEPT ![s] = [at |-> "back", kind |-> label]]
  /\ UNCHANGED <<on, label, link>>

\* Fetch returns the frame.
Return(s) ==
  /\ req[s].at = "back"
  /\ req[s].kind # None
  /\ req' = [req EXCEPT ![s].at = "ok"]
  /\ UNCHANGED <<on, label, link>>

\* Mutant: a failed Fetch does not drop its connection.
Fail_KeepsLink(s) ==
  /\ \/ req[s].at = "connect"
     \/ req[s].at \in {"sent", "back"} /\ link[s] = "dead"
     \/ req[s].at = "back" /\ req[s].kind = None
  /\ req' = [req EXCEPT ![s] = At("failed")]
  /\ UNCHANGED <<on, label, link>>

\* Fetch returns false, and drops its connection: none can be made, the one
\* there was is lost, or the broker has not published yet.
Fail(s) ==
  /\ \/ req[s].at = "connect"
     \/ req[s].at \in {"sent", "back"} /\ link[s] = "dead"
     \/ req[s].at = "back" /\ req[s].kind = None
  /\ link' = [link EXCEPT ![s] = "none"]
  /\ req' = [req EXCEPT ![s] = At("failed")]
  /\ UNCHANGED <<on, label>>

\* The stream goes, with its connection, in the middle of whatever it does.
Close(s) ==
  /\ link' = [link EXCEPT ![s] = "none"]
  /\ req' = [req EXCEPT ![s] = At("idle")]
  /\ UNCHANGED <<on, label>>

LinkNext ==
  \/ SwitchOn \/ SwitchOff \/ Replace \/ Cut
  \/ \E s \in Streams :
       Request(s) \/ Connect(s) \/ Refuse(s) \/ Answer(s) \/ Return(s) \/ Fail(s) \/ Close(s)

LinkSpec == LinkInit /\ [][LinkNext]_linkVars

=============================================================================
