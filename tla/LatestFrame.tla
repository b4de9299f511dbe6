---------------------------- MODULE LatestFrame ----------------------------
(***************************************************************************)
(* What the frame transport of OBS2MF promises to the media source, with   *)
(* no pipes, threads or locks: a register that holds the newest published  *)
(* frame.  A Fetch that succeeds returns the frame the register held at    *)
(* one instant between the call and its return; a Fetch may always fail,   *)
(* and the register is emptied when the broker process ends.               *)
(*                                                                         *)
(* Frames are numbered in the order of publication, over every launch of   *)
(* the broker; 0 stands for "nothing published".                           *)
(***************************************************************************)
EXTENDS Naturals

CONSTANTS Clients,   \* the media-source streams that fetch frames
          MaxFrame   \* bound on the number of frames ever published

VARIABLES issued,    \* number of frames published so far
          newest,    \* the register: the newest frame, 0 if there is none
          busy,      \* busy[c]: client c is inside Fetch
          answer,    \* answer[c]: frame read for that call, 0 if none yet
          shown      \* shown[c]: the last frame a Fetch of c returned

vars == <<issued, newest, busy, answer, shown>>

TypeOK ==
  /\ issued \in 0 .. MaxFrame
  /\ newest \in 0 .. MaxFrame
  /\ busy \in [Clients -> BOOLEAN]
  /\ answer \in [Clients -> 0 .. MaxFrame]
  /\ shown \in [Clients -> 0 .. MaxFrame]

Init ==
  /\ issued = 0
  /\ newest = 0
  /\ busy = [c \in Clients |-> FALSE]
  /\ answer = [c \in Clients |-> 0]
  /\ shown = [c \in Clients |-> 0]

\* The producer replaces the newest frame.
Publish ==
  /\ issued < MaxFrame
  /\ issued' = issued + 1
  /\ newest' = issued + 1
  /\ UNCHANGED <<busy, answer, shown>>

\* Client c calls Fetch.
Ask(c) ==
  /\ ~busy[c]
  /\ busy' = [busy EXCEPT ![c] = TRUE]
  /\ UNCHANGED <<issued, newest, answer, shown>>

\* The register is read for the call of c: its linearization point.
Answer(c) ==
  /\ busy[c]
  /\ answer[c] = 0
  /\ newest # 0
  /\ answer' = [answer EXCEPT ![c] = newest]
  /\ UNCHANGED <<issued, newest, busy, shown>>

\* Fetch returns true with the frame that was read.
Return(c) ==
  /\ busy[c]
  /\ answer[c] # 0
  /\ busy' = [busy EXCEPT ![c] = FALSE]
  /\ answer' = [answer EXCEPT ![c] = 0]
  /\ shown' = [shown EXCEPT ![c] = answer[c]]
  /\ UNCHANGED <<issued, newest>>

\* Fetch returns false: no frame, no broker, or the connection broke.
Fail(c) ==
  /\ busy[c]
  /\ busy' = [busy EXCEPT ![c] = FALSE]
  /\ answer' = [answer EXCEPT ![c] = 0]
  /\ UNCHANGED <<issued, newest, shown>>

\* The broker process ends: the frame is gone, and so may answers be that
\* have not reached their client.
Reset ==
  /\ newest' = 0
  /\ answer' \in {a \in [Clients -> 0 .. MaxFrame] :
                    \A c \in Clients : a[c] \in {0, answer[c]}}
  /\ UNCHANGED <<issued, busy, shown>>

Next ==
  \/ Publish
  \/ Reset
  \/ \E c \in Clients : Ask(c) \/ Answer(c) \/ Return(c) \/ Fail(c)

Spec == Init /\ [][Next]_vars

=============================================================================
