-------------------------------- MODULE Feed --------------------------------
(***************************************************************************)
(* What the broker promises to whoever fetches its frames, with no OBS     *)
(* graph and no threads: a sequence of labelled frames.  Broker implements *)
(* it; EndToEnd composes it with the consumers.                            *)
(*                                                                         *)
(* A frame of OBS is begun only while the user's choice is OBS, one at a   *)
(* time, and is published later or given up for the test pattern.  So of   *)
(* the frames published after the choice of the test pattern at most the   *)
(* first shows OBS.                                                        *)
(***************************************************************************)

VARIABLES source,   \* the user's choice: "obs" or "test"
          begun,    \* a frame of OBS has been begun
          label,    \* what the frame published last shows, or "none"
          on        \* frames are served

feedVars == <<source, begun, label, on>>

Kinds == {"obs", "test"}

FeedTypeOK ==
  /\ source \in Kinds
  /\ begun \in BOOLEAN
  /\ label \in Kinds \cup {"none"}
  /\ on \in BOOLEAN

FeedInit ==
  /\ source = "obs"
  /\ begun = FALSE
  /\ label = "none"
  /\ on = FALSE

\* The frame server and the producer start.
SwitchOn ==
  /\ ~on
  /\ label = "none"
  /\ on' = TRUE
  /\ UNCHANGED <<source, begun, label>>

\* The user chooses.
Choose(s) ==
  /\ on
  /\ source' = s
  /\ UNCHANGED <<begun, label, on>>

\* Mutant: the choice is read once, before the producer's loop.
Take_Always ==
  /\ on
  /\ ~begun
  /\ begun' = TRUE
  /\ UNCHANGED <<source, label, on>>

\* A frame of OBS is begun.
Take ==
  /\ on
  /\ source = "obs"
  /\ ~begun
  /\ begun' = TRUE
  /\ UNCHANGED <<source, label, on>>

\* OBS has no picture for it: the frame becomes one of the test pattern.
GiveUp ==
  /\ begun
  /\ begun' = FALSE
  /\ UNCHANGED <<source, label, on>>

\* A frame is published.
Publish(k) ==
  /\ on
  /\ k = "obs" => begun
  /\ label' = k
  /\ begun' = FALSE
  /\ UNCHANGED <<source, on>>

\* Frames are no longer served.
SwitchOff ==
  /\ on
  /\ ~begun
  /\ on' = FALSE
  /\ UNCHANGED <<source, begun, label>>

FeedNext ==
  \/ SwitchOn \/ Take \/ GiveUp \/ SwitchOff
  \/ \E k \in Kinds : Choose(k) \/ Publish(k)

FeedSpec == FeedInit /\ [][FeedNext]_feedVars

=============================================================================
