------------------------ MODULE FramePipeOrderProofs ------------------------
(***************************************************************************)
(* That FramePipe implements LatestFrame and Link, step by step, and what  *)
(* follows for the order of the frames; for every number of clients,       *)
(* instances, frames, payload units and launches.                          *)
(***************************************************************************)
EXTENDS FramePipeProofs, FiniteSetTheorems

-----------------------------------------------------------------------------
(* The frame that answers a call.                                          *)

LEMMA AnswerIs ==
  ASSUME NEW c \in Clients, NEW i, i = fetch[c].inst
  PROVE  /\ fetch[c].pc = "body" => Answer(c) = fetch[c].hdr
         /\ fetch[c].pc = "header" /\ pipe[i].down # <<>> => Answer(c) = pipe[i].down[1].frame
         /\ fetch[c].pc = "header" /\ pipe[i].down = <<>> /\ serve[i].pc = "write"
              => Answer(c) = serve[i].hdr
         /\ fetch[c].pc = "header" /\ pipe[i].down = <<>> /\ serve[i].pc # "write"
              => Answer(c) = 0
         /\ fetch[c].pc \notin {"header", "body"} => Answer(c) = 0
  BY DEF Answer

LEMMA AnswerIsNext ==
  ASSUME NEW c \in Clients, NEW i, i = fetch'[c].inst
  PROVE  /\ fetch'[c].pc = "body" => Answer(c)' = fetch'[c].hdr
         /\ fetch'[c].pc = "header" /\ pipe'[i].down # <<>> => Answer(c)' = pipe'[i].down[1].frame
         /\ fetch'[c].pc = "header" /\ pipe'[i].down = <<>> /\ serve'[i].pc = "write"
              => Answer(c)' = serve'[i].hdr
         /\ fetch'[c].pc = "header" /\ pipe'[i].down = <<>> /\ serve'[i].pc # "write"
              => Answer(c)' = 0
         /\ fetch'[c].pc \notin {"header", "body"} => Answer(c)' = 0
  BY DEF Answer

\* A step that moves nothing on the way to c leaves its answer as it is.
LEMMA AnswerKept ==
  ASSUME NEW c \in Clients, NEW i, i = fetch[c].inst, fetch'[c] = fetch[c],
         pipe'[i].down = pipe[i].down,
         \/ serve'[i] = serve[i]
         \/ serve[i].pc # "write" /\ serve'[i].pc # "write"
  PROVE  Answer(c)' = Answer(c)
  BY DEF Answer

\* Answers are frames.
LEMMA AnswerType ==
  ASSUME IInv, NEW c \in Clients
  PROVE  Answer(c) \in Frames
<1> DEFINE i == fetch[c].inst
<1>0. /\ TypeOK /\ Wired /\ fetch[c] \in Calls /\ 0 \in Frames
      /\ pipe \in [Instances -> Pipes] /\ serve \in [Instances -> Threads]
  BY BoundsAssumption DEF IInv, TypeOK, Frames
<1>1. fetch[c].hdr \in Frames /\ (fetch[c].pc = "header" => i \in Instances)
  BY <1>0 DEF Calls, Wired
<1>2. CASE fetch[c].pc = "header" /\ pipe[i].down # <<>>
  <2>1. pipe[i].down \in Seq(Units)
    BY <1>0, <1>1, <1>2 DEF Pipes
  <2>2. pipe[i].down[1] \in Units
    BY <1>2, <2>1
  <2> QED BY <1>2, <2>2, AnswerIs DEF Units
<1>3. CASE fetch[c].pc = "header" /\ pipe[i].down = <<>> /\ serve[i].pc = "write"
  <2>1. serve[i].hdr \in Frames
    BY <1>0, <1>1, <1>3 DEF Threads
  <2> QED BY <1>3, <2>1, AnswerIs
<1> QED BY <1>0, <1>1, <1>2, <1>3, AnswerIs


-----------------------------------------------------------------------------
(* Each step of FramePipe is one of LatestFrame, or none.                  *)

\* A step that the register does not see.
LEMMA Silent ==
  ASSUME UNCHANGED <<issued, payload, shown>>,
         \A c \in Clients : Answer(c)' = Answer(c),
         \A c \in Clients : fetch'[c].pc \in Resting <=> fetch[c].pc \in Resting
  PROVE  UNCHANGED Register!vars
<1>1. [c \in Clients |-> Answer(c)]' = [c \in Clients |-> Answer(c)]
  OBVIOUS
<1>2. [c \in Clients |-> fetch[c].pc \notin Resting]' = [c \in Clients |-> fetch[c].pc \notin Resting]
  OBVIOUS
<1> QED BY <1>1, <1>2 DEF Register!vars

\* No client is on an instance that is free or has not been opened.
LEMMA OnInstance ==
  ASSUME IInv, NEW c \in Clients, fetch[c].pc = "header"
  PROVE  /\ fetch[c].inst \in Instances /\ pipe[fetch[c].inst].client = c
         /\ pipe[fetch[c].inst].used /\ pipe[fetch[c].inst].client # Nobody
         /\ Exchange(c)
<1>1. TypeOK /\ Wired /\ fetch[c] \in Calls /\ c # Nobody
  BY NamesAssumption DEF IInv, TypeOK
<1>2. fetch[c].inst # Nobody
  BY <1>1 DEF Wired
<1>3. fetch[c].inst \in Instances /\ pipe[fetch[c].inst].client = c
  BY <1>1, <1>2 DEF Wired, Calls
<1>4. pipe[fetch[c].inst].used
  BY <1>1, <1>3 DEF Wired
<1> QED BY <1>1, <1>2, <1>3, <1>4 DEF IInv

\* Nor does a step change an answer that leaves the call and what is in the
\* middle of a response alone.
LEMMA AnswersKept ==
  ASSUME IInv, NEW c \in Clients, fetch'[c] = fetch[c],
         fetch[c].pc = "header" =>
           /\ pipe'[fetch[c].inst].down = pipe[fetch[c].inst].down
           /\ \/ serve'[fetch[c].inst] = serve[fetch[c].inst]
              \/ /\ serve[fetch[c].inst].pc # "write"
                 /\ serve'[fetch[c].inst].pc # "write"
  PROVE  Answer(c)' = Answer(c)
<1>1. CASE fetch[c].pc = "header"
  BY <1>1, AnswerKept
<1>2. CASE fetch[c].pc # "header"
  <2>1. CASE fetch[c].pc = "body"
    BY <2>1, AnswerIs, AnswerIsNext
  <2>2. CASE fetch[c].pc # "body"
    BY <1>2, <2>2, AnswerIs, AnswerIsNext
  <2> QED BY <2>1, <2>2
<1> QED BY <1>1, <1>2

\* The main thread, Publish, and the end of the process.
LEMMA RegisterMain ==
  ASSUME IInv, Newest,
         Launch \/ PublishHeader \/ PublishPayload \/ Stop \/ Exit \/ Crash
  PROVE  [Register!Next]_(Register!vars)
<1>0. TypeOK /\ Wired /\ pipe \in [Instances -> Pipes]
  BY DEF IInv, TypeOK
<1>1. UNCHANGED <<fetch, shown>>
  BY DEF Launch, PublishHeader, PublishPayload, Stop, StopBegin, StopPoke, StopUnpoke,
     StopJoin, Exit, Crash, EndProcess
<1>2. CASE Launch \/ PublishHeader \/ StopBegin \/ StopJoin \/ PublishPayload
  <2>1. UNCHANGED <<serve, pipe>>
    BY <1>2 DEF Launch, PublishHeader, PublishPayload, StopBegin, StopJoin
  <2>2. \A c \in Clients : Answer(c)' = Answer(c)
    BY <1>1, <2>1, AnswersKept
  <2>3. CASE PublishPayload
    <3>1. hdr = issued + 1 /\ hdr \in Frames /\ issued \in Frames
      BY <1>0, <2>3 DEF Newest, PublishPayload, TypeOK
    <3>2. issued < MaxFrame /\ issued' = issued + 1 /\ payload' = issued + 1
      BY <2>3, <3>1, BoundsAssumption DEF PublishPayload, Frames
    <3>3. [c \in Clients |-> Answer(c)]' = [c \in Clients |-> Answer(c)]
      BY <2>2
    <3>4. Register!Publish
      BY <1>1, <3>2, <3>3 DEF Register!Publish
    <3> QED BY <3>4 DEF Register!Next
  <2>4. CASE ~PublishPayload
    <3>1. UNCHANGED <<issued, payload>>
      BY <1>2, <2>4 DEF Launch, PublishHeader, StopBegin, StopJoin, broker
    <3> QED BY <1>1, <2>2, <3>1, Silent
  <2> QED BY <2>3, <2>4
<1>3. CASE StopPoke \/ StopUnpoke
  <2>1. UNCHANGED <<serve, issued, payload>>
    BY <1>3 DEF StopPoke, StopUnpoke, broker
  <2>2. ASSUME NEW i \in Instances
        PROVE  pipe'[i].down = pipe[i].down
    <3>1. pipe[i] \in Pipes
      BY <1>0
    <3>2. [pipe[i] EXCEPT !.client = Stopper, !.used = TRUE].down = pipe[i].down
      BY <3>1 DEF Pipes
    <3>3. [pipe[i] EXCEPT !.client = Nobody].down = pipe[i].down
      BY <3>1 DEF Pipes
    <3>4. CASE StopPoke
      BY <1>0, <3>2, <3>4 DEF StopPoke, ConnectTo
    <3>5. CASE StopUnpoke
      BY <1>0, <3>3, <3>5 DEF StopUnpoke
    <3> QED BY <1>3, <3>4, <3>5
  <2>3. \A c \in Clients : Answer(c)' = Answer(c)
    BY <1>1, <2>1, <2>2, AnswersKept, OnInstance
  <2> QED BY <1>1, <2>1, <2>3, Silent
<1>4. CASE Exit \/ Crash
  <2>1. EndProcess
    BY <1>4 DEF Exit, Crash
  <2>2. \A i \in Instances : pipe'[i].down = pipe[i].down /\ serve'[i].pc = "none"
    <3> TAKE i \in Instances
    <3>1. serve'[i] = Thread("none") /\ pipe[i] \in Pipes
      BY <1>0, <2>1 DEF EndProcess
    <3>2. pipe'[i].down = pipe[i].down
      BY <2>1, <3>1 DEF EndProcess, Pipes
    <3> QED BY <3>1, <3>2, ThreadFields
  <2>3. \A c \in Clients : Answer(c)' \in {0, Answer(c)}
    <3> TAKE c \in Clients
    <3>1. CASE fetch[c].pc = "header"
      <4>1. fetch[c].inst \in Instances
        BY <3>1, OnInstance
      <4> QED BY <1>1, <2>2, <3>1, <4>1, AnswerIs, AnswerIsNext
    <3>2. CASE fetch[c].pc # "header"
      BY <1>1, <3>2, AnswersKept
    <3> QED BY <3>1, <3>2
  <2> DEFINE a == [c \in Clients |-> Answer(c)']
  <2>4. a \in [Clients -> 0 .. MaxFrame]
    <3>1. \A c \in Clients : Answer(c)' \in Frames
      BY <2>3, AnswerType, BoundsAssumption DEF Frames
    <3> QED BY <3>1 DEF Frames
  <2>5. [c \in Clients |-> Answer(c)]' = a
    OBVIOUS
  <2>6. \A c \in Clients : a[c] \in {0, [d \in Clients |-> Answer(d)][c]}
    BY <2>3
  <2>7. Register!Reset
    <3> HIDE DEF a
    <3> QED BY <1>1, <2>1, <2>4, <2>5, <2>6 DEF Register!Reset, EndProcess
  <2> QED BY <2>7 DEF Register!Next
<1> QED BY <1>2, <1>3, <1>4 DEF Stop

\* The accept thread.
LEMMA RegisterAccept ==
  ASSUME IInv, Quiet, Accept
  PROVE  UNCHANGED Register!vars
<1>0. TypeOK /\ Wired /\ pipe \in [Instances -> Pipes]
  BY DEF IInv, TypeOK
<1>1. UNCHANGED <<fetch, shown, issued, payload>>
  BY DEF Accept, AcceptCheck, AcceptCreate, AcceptCreateFails, AcceptConnect, broker
<1>2. ASSUME NEW c \in Clients, fetch[c].pc = "header"
      PROVE  LET i == fetch[c].inst IN
             /\ pipe'[i].down = pipe[i].down
             /\ \/ serve'[i] = serve[i]
                \/ serve[i].pc # "write" /\ serve'[i].pc # "write"
  <2> DEFINE i == fetch[c].inst
             a == accept.inst
  <2>0. i \in Instances /\ pipe[i].client # Nobody
    BY <1>2, OnInstance
  <2>1. CASE AcceptCheck \/ AcceptCreateFails
    BY <2>1 DEF AcceptCheck, AcceptCreateFails
  <2>2. CASE AcceptCreate
    BY <1>0, <2>0, <2>2 DEF AcceptCreate, Free
  <2>3. CASE AcceptConnect
    <3>1. a \in Instances /\ serve[a].pc = "none" /\ pipe[a].down = <<>>
      BY <1>0, <2>3 DEF AcceptConnect, Wired, TypeOK, Acceptors, Quiet
    <3>2. CASE pipe' = Shut(pipe, a) /\ serve' = serve
      BY <1>0, <2>0, <3>1, <3>2 DEF Shut, Pipes
    <3>3. CASE pipe' = pipe /\ serve' = [serve EXCEPT ![a] = Thread("start")]
      <4>1. serve'[i] = serve[i] \/ (i = a /\ serve'[i] = Thread("start"))
        BY <1>0, <2>0, <3>1, <3>3 DEF TypeOK
      <4> QED BY <3>1, <3>3, <4>1, ThreadFields
    <3> QED BY <2>3, <3>2, <3>3 DEF AcceptConnect
  <2> QED BY <2>1, <2>2, <2>3 DEF Accept
<1>3. \A c \in Clients : Answer(c)' = Answer(c)
  BY <1>1, <1>2, AnswersKept
<1> QED BY <1>1, <1>3, Silent

\* The calls a serving thread is not at work on.
LEMMA ServeElsewhere ==
  ASSUME IInv, NEW i \in Instances, Serve(i), NEW c \in Clients,
         ~(fetch[c].pc = "header" /\ fetch[c].inst = i)
  PROVE  Answer(c)' = Answer(c)
<1>0. /\ TypeOK /\ Wired /\ Locked
      /\ pipe \in [Instances -> Pipes] /\ serve \in [Instances -> Threads]
  BY DEF IInv, TypeOK
<1>1. UNCHANGED <<fetch, shown, issued, payload>>
  BY DEF Serve, ServeStart, ServeRead, ServeReadFails, ServeCopyHeader,
     ServeCopyPayload, ServeWrite, ServeWriteFails, ServeClose, ServeLeave, broker
<1>2. ASSUME fetch[c].pc = "header", fetch[c].inst # i
      PROVE  /\ pipe'[fetch[c].inst].down = pipe[fetch[c].inst].down
             /\ serve'[fetch[c].inst] = serve[fetch[c].inst]
  <2> DEFINE j == fetch[c].inst
  <2>1. j \in Instances /\ j # i
    BY <1>2, OnInstance
  <2>2. pipe'[j] = pipe[j] /\ serve'[j] = serve[j]
    BY <1>0, <2>1 DEF Serve, ServeStart, ServeRead, ServeReadFails, ServeCopyHeader,
     ServeCopyPayload, ServeWrite, ServeWriteFails, ServeClose, ServeLeave, Shut, broker
  <2> QED BY <2>2
<1> QED BY <1>1, <1>2, AnswersKept

\* Nor does a thread change an answer except when it copies the payload.
LEMMA ServeKeeps ==
  ASSUME IInv, NEW i \in Instances, Serve(i), ~ServeCopyPayload(i), NEW c \in Clients
  PROVE  Answer(c)' = Answer(c)
<1>0. /\ TypeOK /\ Wired /\ Locked
      /\ pipe \in [Instances -> Pipes] /\ serve \in [Instances -> Threads]
  BY DEF IInv, TypeOK
<1>1. UNCHANGED <<fetch, shown, issued, payload>>
  BY DEF Serve, ServeStart, ServeRead, ServeReadFails, ServeCopyHeader,
     ServeCopyPayload, ServeWrite, ServeWriteFails, ServeClose, ServeLeave, broker
<1>2. CASE fetch[c].pc = "header" /\ fetch[c].inst = i
  <2>0. pipe[i].client # Nobody /\ Exchange(c)
    BY <1>2, OnInstance
  <2>1. CASE ServeStart(i) \/ ServeRead(i) \/ ServeLeave(i) \/ ServeCopyHeader(i)
    <3>1. pipe'[i].down = pipe[i].down
      BY <1>0, <2>1 DEF ServeStart, ServeRead, ServeLeave, ServeCopyHeader, Pipes
    <3>2. serve[i].pc # "write"
      BY <2>1 DEF ServeStart, ServeRead, ServeLeave, ServeCopyHeader
    <3>3. serve'[i].pc # "write"
      <4>1. CASE ServeCopyHeader(i)
        BY <1>0, <4>1 DEF ServeCopyHeader, Threads
      <4>2. CASE ~ServeCopyHeader(i)
        BY <1>0, <2>1, <4>2, ThreadFields DEF ServeStart, ServeRead, ServeLeave
      <4> QED BY <4>1, <4>2
    <3> QED BY <1>1, <1>2, <3>1, <3>2, <3>3, AnswersKept
  <2>2. CASE ServeReadFails(i) \/ ServeWriteFails(i)
    BY <2>0, <2>2 DEF ServeReadFails, ServeWriteFails
  <2>3. CASE ServeClose(i)
    <3>1. serve[i].pc # "write" /\ serve'[i].pc # "write"
      BY <1>0, <2>3, ThreadFields DEF ServeClose
    <3>2. pipe'[i].down = pipe[i].down
      BY <1>0, <2>0, <2>3 DEF ServeClose, Shut, Pipes
    <3> QED BY <1>1, <1>2, <3>1, <3>2, AnswersKept
  <2>4. CASE ServeWrite(i)
    <3> DEFINE s == serve[i]
               d == pipe[i].down
               unit == [part |-> s.next,
                        frame |-> IF s.next = 0 THEN s.hdr ELSE s.data,
                        len |-> IF s.next = 0 THEN Size(s.data) ELSE 0]
    <3>1. s.pc = "write" /\ s.data = s.hdr /\ s \in Threads /\ d \in Seq(Units)
      BY <1>0, <2>4 DEF ServeWrite, Locked, Pipes
    <3>2. pipe'[i].down = Append(d, unit)
      BY <1>0, <2>4 DEF ServeWrite, Pipes
    <3>3. unit \in Units /\ unit.frame = s.hdr
      BY <1>0, <2>4, <3>1, PartsAssumption DEF Units, Threads, Locked, Size
    <3> HIDE DEF unit, d
    <3>4. Append(d, unit) # <<>> /\ Append(d, unit)[1] = IF d = <<>> THEN unit ELSE d[1]
      <4>1. CASE d = <<>>
        BY <3>1, <3>3, <4>1
      <4>2. CASE d # <<>>
        <5>1. Len(d) \in Nat /\ Len(d) > 0
          BY <3>1, <4>2
        <5> QED BY <3>1, <3>3, <4>2, <5>1
      <4> QED BY <4>1, <4>2
    <3>5. Answer(c)' = Append(d, unit)[1].frame
      BY <1>1, <1>2, <3>2, <3>4, AnswerIsNext
    <3>6. Answer(c) = IF d = <<>> THEN s.hdr ELSE d[1].frame
      BY <1>2, <3>1, AnswerIs DEF d
    <3> QED BY <3>3, <3>4, <3>5, <3>6
  <2> QED BY <2>1, <2>2, <2>3, <2>4 DEF Serve
<1>3. CASE ~(fetch[c].pc = "header" /\ fetch[c].inst = i)
  BY <1>3, ServeElsewhere
<1> QED BY <1>2, <1>3

\* A serving thread: the register is read when the payload is copied, since
\* the mutex holds the producer off from the copy of the header on.
LEMMA RegisterServe ==
  ASSUME IInv, NEW i \in Instances, Serve(i)
  PROVE  [Register!Next]_(Register!vars)
<1>0. /\ TypeOK /\ Wired /\ Locked
      /\ pipe \in [Instances -> Pipes] /\ serve \in [Instances -> Threads]
  BY DEF IInv, TypeOK
<1>1. UNCHANGED <<fetch, shown, issued, payload>>
  BY DEF Serve, ServeStart, ServeRead, ServeReadFails, ServeCopyHeader,
     ServeCopyPayload, ServeWrite, ServeWriteFails, ServeClose, ServeLeave, broker
<1>3. ASSUME NEW c \in Clients, ~(fetch[c].pc = "header" /\ fetch[c].inst = i)
      PROVE  Answer(c)' = Answer(c)
  BY <1>3, ServeElsewhere
<1>4. CASE ~ServeCopyPayload(i)
  BY <1>1, <1>4, ServeKeeps, Silent
<1>5. CASE ServeCopyPayload(i)
  <2>1. /\ serve[i].pc = "copy" /\ serve[i].hdr = payload /\ pipe' = pipe
        /\ serve'[i].pc = "write" /\ serve'[i].hdr = payload
    <3>1. serve[i].pc = "copy" /\ pipe' = pipe
      BY <1>5 DEF ServeCopyPayload
    <3>2. serve[i].hdr = payload
      BY <1>0, <3>1, NamesAssumption DEF Locked
    <3>3. serve'[i].pc = "write" /\ serve'[i].hdr = serve[i].hdr
      BY <1>0, <1>5 DEF ServeCopyPayload, Threads
    <3> QED BY <3>1, <3>2, <3>3
  <2>2. CASE \E c \in Clients : fetch[c].pc = "header" /\ fetch[c].inst = i
    <3>1. PICK c \in Clients : fetch[c].pc = "header" /\ fetch[c].inst = i
      BY <2>2
    <3>2. pipe[i].down = <<>> /\ pipe[i].client = c
      BY <2>1, <3>1, OnInstance DEF Exchange
    <3>3. Answer(c) = 0 /\ Answer(c)' = payload
      BY <1>1, <2>1, <3>1, <3>2, AnswerIs, AnswerIsNext
    <3>4. \A d \in Clients : d # c => Answer(d)' = Answer(d)
      BY <1>3, <3>2, OnInstance
    <3>5. [d \in Clients |-> fetch[d].pc \notin Resting]' = [d \in Clients |-> fetch[d].pc \notin Resting]
      BY <1>1
    <3>6. CASE payload # 0
      <4> DEFINE a == [d \in Clients |-> Answer(d)]
      <4>1. [d \in Clients |-> Answer(d)]' = [a EXCEPT ![c] = payload]
        BY <3>3, <3>4
      <4>2. a[c] = 0 /\ [d \in Clients |-> fetch[d].pc \notin Resting][c]
        BY <3>1, <3>3 DEF Resting
      <4>3. Register!Answer(c)
        BY <1>1, <3>5, <3>6, <4>1, <4>2 DEF Register!Answer
      <4> QED BY <4>3 DEF Register!Next
    <3>7. CASE payload = 0
      <4>1. \A d \in Clients : Answer(d)' = Answer(d)
        BY <3>3, <3>4, <3>7
      <4> QED BY <1>1, <4>1, Silent
    <3> QED BY <3>6, <3>7
  <2>3. CASE ~(\E c \in Clients : fetch[c].pc = "header" /\ fetch[c].inst = i)
    <3>1. \A d \in Clients : Answer(d)' = Answer(d)
      BY <1>3, <2>3
    <3> QED BY <1>1, <3>1, Silent
  <2> QED BY <2>2, <2>3
<1> QED BY <1>4, <1>5

\* What a step of client c is to the register, by what it does to its call.
LEMMA OneClient ==
  ASSUME NEW c \in Clients, UNCHANGED <<issued, payload>>,
         \A d \in Clients : d # c => fetch'[d] = fetch[d] /\ Answer(d)' = Answer(d),
         shown \in [Clients -> Frames],
         \/ /\ fetch[c].pc \in Resting /\ fetch'[c].pc \notin Resting
            /\ Answer(c)' = Answer(c) /\ shown' = shown
         \/ /\ fetch[c].pc \notin Resting /\ fetch'[c].pc \in Resting
            /\ Answer(c)' = 0 /\ shown' = shown
         \/ /\ fetch[c].pc \notin Resting /\ fetch'[c].pc \in Resting
            /\ Answer(c) # 0 /\ Answer(c)' = 0
            /\ shown' = [shown EXCEPT ![c] = Answer(c)]
         \/ /\ fetch[c].pc \in Resting <=> fetch'[c].pc \in Resting
            /\ Answer(c)' = Answer(c) /\ shown' = shown
  PROVE  [Register!Next]_(Register!vars)
<1> DEFINE a == [d \in Clients |-> Answer(d)]
           b == [d \in Clients |-> fetch[d].pc \notin Resting]
<1>1. a' = [a EXCEPT ![c] = Answer(c)']
  OBVIOUS
<1>2. b' = [b EXCEPT ![c] = fetch'[c].pc \notin Resting]
  OBVIOUS
<1>3. a[c] = Answer(c) /\ b[c] = (fetch[c].pc \notin Resting)
  OBVIOUS
<1>4. CASE /\ fetch[c].pc \in Resting /\ fetch'[c].pc \notin Resting
           /\ Answer(c)' = Answer(c) /\ shown' = shown
  <2>1. b' = [b EXCEPT ![c] = TRUE] /\ ~b[c]
    BY <1>2, <1>3, <1>4
  <2>2. a' = a
    BY <1>4
  <2>3. Register!Ask(c)
    BY <1>4, <2>1, <2>2 DEF Register!Ask
  <2> QED BY <2>3 DEF Register!Next
<1>5. CASE /\ fetch[c].pc \notin Resting /\ fetch'[c].pc \in Resting
           /\ Answer(c)' = 0 /\ shown' = shown
  <2>1. b' = [b EXCEPT ![c] = FALSE] /\ b[c]
    BY <1>2, <1>3, <1>5
  <2>2. a' = [a EXCEPT ![c] = 0]
    BY <1>1, <1>5
  <2>3. Register!Fail(c)
    BY <1>5, <2>1, <2>2 DEF Register!Fail
  <2> QED BY <2>3 DEF Register!Next
<1>6. CASE /\ fetch[c].pc \notin Resting /\ fetch'[c].pc \in Resting
           /\ Answer(c) # 0 /\ Answer(c)' = 0
           /\ shown' = [shown EXCEPT ![c] = Answer(c)]
  <2>1. b' = [b EXCEPT ![c] = FALSE] /\ b[c]
    BY <1>2, <1>3, <1>6
  <2>2. a' = [a EXCEPT ![c] = 0] /\ a[c] # 0 /\ shown' = [shown EXCEPT ![c] = a[c]]
    BY <1>1, <1>3, <1>6
  <2>3. Register!Return(c)
    BY <2>1, <2>2 DEF Register!Return
  <2> QED BY <2>3 DEF Register!Next
<1>7. CASE /\ fetch[c].pc \in Resting <=> fetch'[c].pc \in Resting
           /\ Answer(c)' = Answer(c) /\ shown' = shown
  BY <1>7, Silent
<1> QED BY <1>4, <1>5, <1>6, <1>7

\* The calls of the other clients, over a step of client c.
LEMMA OtherAnswers ==
  ASSUME IInv, NEW c \in Clients, BeginFetch(c) \/ Fetch(c) \/ Disconnect(c),
         NEW d \in Clients, d # c
  PROVE  fetch'[d] = fetch[d] /\ Answer(d)' = Answer(d)
<1>0. TypeOK /\ Wired
  BY DEF IInv
<1>1. fetch'[d] = fetch[d] /\ serve' = serve
  BY ClientFrame
<1>2. ASSUME fetch[d].pc = "header"
      PROVE  pipe'[fetch[d].inst] = pipe[fetch[d].inst]
  <2> DEFINE j == fetch[d].inst
  <2>1. j \in Instances /\ j # fetch[c].inst /\ pipe[j].used
    BY <1>0, <1>2, Apart, OnInstance, NamesAssumption
  <2> QED BY <2>1, ClientEffect
<1> QED BY <1>1, <1>2, AnswersKept

\* A client: its call begins, fails, or returns the frame that was read for it.
LEMMA RegisterFetch ==
  ASSUME IInv, NEW c \in Clients, BeginFetch(c) \/ Fetch(c) \/ Disconnect(c)
  PROVE  [Register!Next]_(Register!vars)
<1> DEFINE i == fetch[c].inst
<1>0. /\ TypeOK /\ Wired /\ Received(c) /\ (i # Nobody => Exchange(c))
      /\ fetch \in [Clients -> Calls] /\ pipe \in [Instances -> Pipes]
      /\ shown \in [Clients -> Frames]
  BY DEF IInv, TypeOK
<1>1. UNCHANGED <<issued, payload, serve>>
  BY DEF BeginFetch, Fetch, Connect, ConnectFails, WriteRequest, WriteFails,
     ReadHeader, ReadPayload, ReadFails, Disconnect, broker
<1>2. \A d \in Clients : d # c => fetch'[d] = fetch[d] /\ Answer(d)' = Answer(d)
  BY OtherAnswers
<1>3. i \in Instances \cup {Nobody} /\ (fetch[c].pc \in {"send", "header", "body"} => i \in Instances)
  BY <1>0 DEF Wired, Calls
<1>4. Resting = {"idle", "ok", "failed"}
  BY DEF Resting
<1>5. CASE BeginFetch(c)
  <2>1. fetch'[c] = Call(IF i = Nobody THEN "connect" ELSE "send", i)
    BY <1>0, <1>5 DEF BeginFetch
  <2>2. fetch'[c].pc \in {"connect", "send"}
    BY <2>1, CallFields
  <2>3. fetch[c].pc \in Resting /\ shown' = shown
    BY <1>5 DEF BeginFetch
  <2>4. Answer(c) = 0 /\ Answer(c)' = 0
    BY <1>4, <2>2, <2>3, AnswerIs, AnswerIsNext
  <2> QED BY <1>0, <1>1, <1>2, <1>4, <2>2, <2>3, <2>4, OneClient
<1>6. CASE ConnectFails(c)
  <2>1. fetch'[c] = Call("failed", Nobody)
    BY <1>0, <1>6 DEF ConnectFails
  <2>2. fetch'[c].pc = "failed" /\ fetch[c].pc = "connect" /\ shown' = shown
    BY <1>6, <2>1, CallFields DEF ConnectFails
  <2>3. Answer(c)' = 0
    BY <2>2, AnswerIsNext
  <2> QED BY <1>0, <1>1, <1>2, <1>4, <2>2, <2>3, OneClient
<1>7. CASE Connect(c)
  <2>1. PICK j \in Instances : fetch' = [fetch EXCEPT ![c] = Call("send", j)]
    BY <1>7 DEF Connect
  <2>2. fetch'[c].pc = "send" /\ fetch[c].pc = "connect" /\ shown' = shown
    BY <1>0, <1>7, <2>1, CallFields DEF Connect
  <2>3. Answer(c) = 0 /\ Answer(c)' = 0
    BY <2>2, AnswerIs, AnswerIsNext
  <2> QED BY <1>0, <1>1, <1>2, <1>4, <2>2, <2>3, OneClient
<1>8. ASSUME NEW pc \in {"idle", "failed"}, fetch' = [fetch EXCEPT ![c] = Call(pc, Nobody)],
             shown' = shown
      PROVE  [Register!Next]_(Register!vars)
  <2>1. fetch'[c] = Call(pc, Nobody)
    BY <1>0, <1>8
  <2>2. fetch'[c].pc \in {"idle", "failed"}
    BY <2>1, CallFields
  <2>3. Answer(c)' = 0
    BY <2>2, AnswerIsNext
  <2>4. CASE fetch[c].pc \in Resting
    <3>1. Answer(c) = 0
      BY <1>4, <2>4, AnswerIs
    <3> QED BY <1>0, <1>1, <1>2, <1>4, <1>8, <2>2, <2>3, <2>4, <3>1, OneClient
  <2>5. CASE fetch[c].pc \notin Resting
    BY <1>0, <1>1, <1>2, <1>4, <1>8, <2>2, <2>3, <2>5, OneClient
  <2> QED BY <2>4, <2>5
<1>9. CASE WriteFails(c) \/ ReadFails(c) \/ Disconnect(c)
  BY <1>8, <1>9 DEF WriteFails, ReadFails, Disconnect, Drop
<1>10. CASE WriteRequest(c)
  <2>1. fetch'[c] = Call("header", i)
    BY <1>0, <1>10 DEF WriteRequest
  <2>2. fetch'[c].pc = "header" /\ fetch'[c].inst = i /\ fetch[c].pc = "send" /\ shown' = shown
    BY <1>10, <2>1, CallFields DEF WriteRequest
  <2>3. i \in Instances /\ i # Nobody
    BY <1>3, <2>2, NamesAssumption
  <2>4. pipe[i].down = <<>> /\ serve[i].pc # "write"
    BY <1>0, <2>2, <2>3 DEF Exchange
  <2>5. pipe'[i].down = <<>>
    BY <1>0, <1>10, <2>3, <2>4 DEF WriteRequest, Pipes
  <2>6. Answer(c) = 0 /\ Answer(c)' = 0
    BY <1>1, <2>2, <2>4, <2>5, AnswerIs, AnswerIsNext
  <2> QED BY <1>0, <1>1, <1>2, <1>4, <2>2, <2>6, OneClient
<1>11. CASE ReadHeader(c)
  <2> DEFINE u == Head(pipe[i].down)
  <2>1. fetch[c].pc = "header" /\ pipe[i].down # <<>> /\ i \in Instances /\ i # Nobody
    BY <1>3, <1>11, NamesAssumption DEF ReadHeader
  <2>2. CASE u.part = 0 /\ u.frame # 0
    <3>1. u = pipe[i].down[1] /\ u.len = Parts
      BY <1>0, <2>1, <2>2, HeaderRead
    <3>2. fetch'[c] = [Call("body", i) EXCEPT !.hdr = u.frame, !.len = u.len]
      BY <1>0, <1>11, <2>2, <3>1, PartsAssumption DEF ReadHeader
    <3>3. fetch'[c].pc = "body" /\ fetch'[c].hdr = u.frame
      BY <3>2 DEF Call
    <3>4. shown' = shown
      BY <1>11, <2>2, <3>1, PartsAssumption DEF ReadHeader
    <3>5. Answer(c)' = Answer(c)
      BY <2>1, <3>1, <3>3, AnswerIs, AnswerIsNext
    <3> QED BY <1>0, <1>1, <1>2, <1>4, <2>1, <3>3, <3>4, <3>5, OneClient
  <2>3. CASE ~(u.part = 0 /\ u.frame # 0)
    BY <1>8, <1>11, <2>3 DEF ReadHeader, Drop
  <2> QED BY <2>2, <2>3
<1>12. CASE ReadPayload(c)
  <2> DEFINE u == Head(pipe[i].down)
             done == Len(fetch[c].buf) + 1 >= fetch[c].len
             pc == IF done THEN "ok" ELSE "body"
  <2>1. fetch[c].pc = "body"
    BY <1>12 DEF ReadPayload
  <2>2. fetch'[c] = [fetch[c] EXCEPT !.buf = Append(@, u), !.pc = pc]
    BY <1>0, <1>12 DEF ReadPayload
  <2>3. fetch'[c].pc = pc /\ fetch'[c].hdr = fetch[c].hdr
    <3>1. fetch[c] \in Calls
      BY <1>0
    <3> HIDE DEF u, pc
    <3> QED BY <2>2, <3>1 DEF Calls
  <2>4. shown' = IF done THEN [shown EXCEPT ![c] = fetch[c].hdr] ELSE shown
    BY <1>12 DEF ReadPayload
  <2>5. Answer(c) = fetch[c].hdr /\ fetch[c].hdr # 0
    BY <1>0, <2>1, AnswerIs DEF Received
  <2>6. CASE done
    <3>1. Answer(c)' = 0 /\ fetch'[c].pc = "ok"
      BY <2>3, <2>6, AnswerIsNext
    <3> HIDE DEF done
    <3> QED BY <1>0, <1>1, <1>2, <1>4, <2>1, <2>4, <2>5, <2>6, <3>1, OneClient
  <2>7. CASE ~done
    <3>1. Answer(c)' = Answer(c) /\ fetch'[c].pc = "body"
      BY <2>3, <2>5, <2>7, AnswerIsNext
    <3> HIDE DEF done
    <3> QED BY <1>0, <1>1, <1>2, <1>4, <2>1, <2>4, <2>7, <3>1, OneClient
  <2> QED BY <2>6, <2>7
<1> QED BY <1>5, <1>6, <1>7, <1>9, <1>10, <1>11, <1>12 DEF Fetch

LEMMA RegisterStep ==
  ASSUME IInv, Newest, Quiet, [Next]_vars
  PROVE  [Register!Next]_(Register!vars)
<1>1. CASE UNCHANGED vars
  <2>1. UNCHANGED <<issued, payload, shown, fetch, pipe, serve>>
    BY <1>1 DEF vars, broker
  <2>2. \A c \in Clients : Answer(c)' = Answer(c)
    BY <2>1, AnswersKept
  <2> QED BY <2>1, <2>2, Silent
<1> QED BY <1>1, RegisterMain, RegisterAccept, RegisterServe, RegisterFetch DEF Next

-----------------------------------------------------------------------------
(* The order of the frames.                                                *)

LEMMA NewestStep ==
  ASSUME IInv, Newest, [Next]_vars
  PROVE  Newest'
<1>0. TypeOK
  BY DEF IInv
<1>1. CASE UNCHANGED <<mtx, hdr, payload, issued>>
  BY <1>1 DEF Newest
<1>2. CASE PublishHeader
  BY <1>2 DEF Newest, PublishHeader
<1>3. CASE PublishPayload
  BY <1>3, NamesAssumption DEF Newest, PublishPayload
<1>4. CASE Exit \/ Crash
  BY <1>4, NamesAssumption DEF Newest, Exit, Crash, EndProcess
<1>5. ASSUME NEW i \in Instances, Serve(i)
      PROVE  Newest'
  <2>1. UNCHANGED <<hdr, payload, issued>> /\ (mtx' = mtx \/ mtx' = i \/ mtx' = Nobody)
    BY <1>5 DEF Serve, ServeStart, ServeRead, ServeReadFails, ServeCopyHeader,
       ServeCopyPayload, ServeWrite, ServeWriteFails, ServeClose, ServeLeave, broker
  <2> QED BY <2>1, NamesAssumption DEF Newest
<1>6. CASE Launch \/ Stop \/ Accept
  BY <1>1, <1>6 DEF Launch, Stop, StopBegin, StopPoke, StopUnpoke, StopJoin, Accept,
       AcceptCheck, AcceptCreate, AcceptCreateFails, AcceptConnect, broker
<1>7. ASSUME NEW c \in Clients, BeginFetch(c) \/ Fetch(c) \/ Disconnect(c)
      PROVE  Newest'
  BY <1>1, <1>7 DEF BeginFetch, Fetch, Connect, ConnectFails, WriteRequest,
       WriteFails, ReadHeader, ReadPayload, ReadFails, Disconnect, broker
<1>8. CASE UNCHANGED vars
  BY <1>1, <1>8 DEF vars, broker
<1> QED BY <1>2, <1>3, <1>4, <1>5, <1>6, <1>7, <1>8 DEF Next

\* When a call begins, and what it may return.
LEMMA CallStep ==
  ASSUME IInv, [Next]_vars, NEW c \in Clients
  PROVE  /\ \/ floor'[c] = floor[c]
            \/ floor'[c] = payload /\ Answer(c)' = 0
         /\ fetch'[c].pc = "ok" =>
              /\ floor'[c] = floor[c]
              /\ \/ fetch'[c] = fetch[c]
                 \/ Answer(c) # 0 /\ fetch'[c].hdr = Answer(c)
<1>0. /\ TypeOK /\ Wired /\ Received(c) /\ fetch[c] \in Calls
      /\ floor \in [Clients -> Frames]
  BY DEF IInv, TypeOK
<1>1. CASE UNCHANGED <<fetch, floor>>
  BY <1>1
<1>2. ASSUME NEW d \in Clients, BeginFetch(d) \/ Fetch(d) \/ Disconnect(d), d # c
      PROVE  fetch'[c] = fetch[c] /\ floor'[c] = floor[c]
  <2>1. floor' = floor \/ floor' = [floor EXCEPT ![d] = payload]
    BY <1>2 DEF BeginFetch, Fetch, Connect, ConnectFails, WriteRequest, WriteFails,
       ReadHeader, ReadPayload, ReadFails, Disconnect
  <2>2. floor'[c] = floor[c]
    BY <1>0, <1>2, <2>1
  <2> QED BY <1>2, <2>2, ClientFrame
<1>3. CASE BeginFetch(c)
  <2>1. fetch'[c] = Call(IF fetch[c].inst = Nobody THEN "connect" ELSE "send", fetch[c].inst)
    BY <1>3 DEF BeginFetch, IInv, TypeOK
  <2>2. fetch'[c].pc \in {"connect", "send"}
    BY <2>1, CallFields
  <2>3. Answer(c)' = 0
    BY <2>2, AnswerIsNext
  <2>4. floor'[c] = payload
    BY <1>0, <1>3 DEF BeginFetch
  <2> QED BY <2>2, <2>3, <2>4
<1>4. CASE Fetch(c) \/ Disconnect(c)
  <2>2. floor'[c] = floor[c]
    BY <1>4 DEF Fetch, Connect, ConnectFails, WriteRequest, WriteFails,
       ReadHeader, ReadPayload, ReadFails, Disconnect
  <2>3. ASSUME fetch'[c].pc = "ok"
        PROVE  Answer(c) # 0 /\ fetch'[c].hdr = Answer(c)
    <3> DEFINE i == fetch[c].inst
    <3>1. \/ /\ fetch[c].pc = "header" /\ i \in Instances /\ pipe[i].down # <<>>
             /\ Head(pipe[i].down).part = 0 /\ Head(pipe[i].down).frame # 0
             /\ fetch'[c].pc = IF Head(pipe[i].down).len = 0 THEN "ok" ELSE "body"
          \/ fetch[c].pc = "body" /\ fetch'[c].hdr = fetch[c].hdr
      <4>1. (IF i = Nobody THEN "connect" ELSE "send") # "ok"
        OBVIOUS
      <4> QED BY <1>4, <2>3, <4>1, ClientEffect
    <3>2. CASE fetch[c].pc = "body" /\ fetch'[c].hdr = fetch[c].hdr
      BY <1>0, <3>2, AnswerIs DEF Received
    <3>3. CASE fetch[c].pc # "body"
      <4>1. Head(pipe[i].down).len = Parts
        BY <1>0, <3>1, <3>3, OnInstance, HeaderRead
      <4> QED BY <2>3, <3>1, <3>3, <4>1, PartsAssumption
    <3> QED BY <3>1, <3>2, <3>3
  <2> QED BY <2>2, <2>3
<1>5. CASE ~ \E d \in Clients : BeginFetch(d) \/ Fetch(d) \/ Disconnect(d)
  <2>1. UNCHANGED <<fetch, floor>>
    BY <1>5 DEF Next, vars, broker, Launch, PublishHeader, PublishPayload, Stop, StopBegin,
       StopPoke, StopUnpoke, StopJoin, Exit, Crash, EndProcess, Accept, AcceptCheck,
       AcceptCreate, AcceptCreateFails, AcceptConnect, Serve, ServeStart, ServeRead,
       ServeReadFails, ServeCopyHeader, ServeCopyPayload, ServeWrite, ServeWriteFails,
       ServeClose, ServeLeave
  <2> QED BY <1>1, <2>1
<1>6. CASE \E d \in Clients : d # c /\ (BeginFetch(d) \/ Fetch(d) \/ Disconnect(d))
  BY <1>2, <1>6
<1> QED BY <1>3, <1>4, <1>5, <1>6

\* What a step of the register does to one answer.
LEMMA RegisterMoves ==
  ASSUME IInv, Newest, InTime, [Register!Next]_(Register!vars)
  PROVE  /\ issued' \in Nat /\ issued <= issued'
         /\ \A c \in Clients :
              /\ Answer(c)' \in {0, Answer(c), issued}
              /\ shown'[c] = shown[c] \/ (Answer(c) # 0 /\ Answer(c)' = 0 /\ shown'[c] = Answer(c))
<1> DEFINE a == [c \in Clients |-> Answer(c)]
<1>0. /\ issued \in Nat /\ payload \in {0, issued}
      /\ shown \in [Clients -> Frames]
  BY BoundsAssumption DEF IInv, TypeOK, Frames, Newest
<1>1. \A c \in Clients : a[c] = Answer(c) /\ a'[c] = Answer(c)'
  OBVIOUS
<1>2. a \in [Clients -> Frames]
  BY AnswerType
<1>3. CASE UNCHANGED Register!vars
  <2>1. UNCHANGED <<issued, shown, a>>
    BY <1>3 DEF Register!vars
  <2> HIDE DEF a
  <2> QED BY <1>0, <1>1, <2>1
<1>4. CASE Register!Publish
  <2>1. issued' = issued + 1 /\ UNCHANGED <<shown, a>>
    BY <1>4 DEF Register!Publish
  <2> HIDE DEF a
  <2> QED BY <1>0, <1>1, <2>1
<1>5. CASE Register!Reset
  <2>1. UNCHANGED <<issued, shown>> /\ \A c \in Clients : a'[c] \in {0, a[c]}
    BY <1>5 DEF Register!Reset
  <2> HIDE DEF a
  <2> QED BY <1>0, <1>1, <2>1
<1>6. ASSUME NEW d \in Clients, Register!Ask(d) \/ Register!Answer(d) \/ Register!Fail(d)
      PROVE  /\ UNCHANGED <<issued, shown>>
             /\ \A c \in Clients : a'[c] \in {0, a[c], payload}
  <2>1. UNCHANGED <<issued, shown>>
    BY <1>6 DEF Register!Ask, Register!Answer, Register!Fail
  <2>2. a' = a \/ a' = [a EXCEPT ![d] = 0] \/ a' = [a EXCEPT ![d] = payload]
    BY <1>6 DEF Register!Ask, Register!Answer, Register!Fail
  <2> HIDE DEF a
  <2> QED BY <1>2, <2>1, <2>2
<1>7. ASSUME NEW d \in Clients, Register!Return(d)
      PROVE  /\ issued' = issued
             /\ \A c \in Clients :
                  /\ a'[c] \in {0, a[c]}
                  /\ shown'[c] = shown[c] \/ (a[c] # 0 /\ a'[c] = 0 /\ shown'[c] = a[c])
  <2>1. /\ issued' = issued /\ a[d] # 0
        /\ a' = [a EXCEPT ![d] = 0] /\ shown' = [shown EXCEPT ![d] = a[d]]
    BY <1>7 DEF Register!Return
  <2> HIDE DEF a
  <2> QED BY <1>0, <1>2, <2>1
<1> HIDE DEF a
<1>8. CASE \E d \in Clients : Register!Ask(d) \/ Register!Answer(d) \/ Register!Fail(d)
  BY <1>0, <1>1, <1>6, <1>8
<1>9. CASE \E d \in Clients : Register!Return(d)
  BY <1>0, <1>1, <1>7, <1>9
<1> QED BY <1>3, <1>4, <1>5, <1>8, <1>9 DEF Register!Next

LEMMA InTimeStep ==
  ASSUME IInv, Ordered, [Next]_vars
  PROVE  InTime' /\ Fresh'
<1>1. /\ issued' \in Nat /\ issued <= issued'
      /\ \A c \in Clients :
           /\ Answer(c)' \in {0, Answer(c), issued}
           /\ shown'[c] = shown[c] \/ (Answer(c) # 0 /\ Answer(c)' = 0 /\ shown'[c] = Answer(c))
  BY RegisterStep, RegisterMoves DEF Ordered
<1>2. /\ issued \in Nat /\ payload \in {0, issued}
      /\ \A c \in Clients : floor[c] \in Nat /\ shown[c] \in Nat /\ Answer(c) \in Nat
  BY AnswerType, BoundsAssumption DEF IInv, TypeOK, Frames, Ordered, Newest
<1>3. \A c \in Clients :
        /\ floor'[c] = floor[c] \/ (floor'[c] = payload /\ Answer(c)' = 0)
        /\ fetch'[c].pc = "ok" => /\ floor'[c] = floor[c]
                                  /\ \/ fetch'[c] = fetch[c]
                                     \/ Answer(c) # 0 /\ fetch'[c].hdr = Answer(c)
  BY CallStep
<1>4. ASSUME NEW c \in Clients
      PROVE  /\ floor'[c] <= issued' /\ shown'[c] <= issued'
             /\ Answer(c)' # 0 => /\ floor'[c] <= Answer(c)' /\ shown'[c] <= Answer(c)'
                                  /\ Answer(c)' <= issued'
             /\ fetch'[c].pc = "ok" => fetch'[c].hdr >= floor'[c]
  <2>1. /\ floor[c] <= issued /\ shown[c] <= issued
        /\ Answer(c) # 0 => /\ floor[c] <= Answer(c) /\ shown[c] <= Answer(c)
                            /\ Answer(c) <= issued
        /\ fetch[c].pc = "ok" => fetch[c].hdr >= floor[c]
    BY DEF Ordered, InTime, Fresh
  <2>2. floor'[c] <= issued' /\ shown'[c] <= issued'
    BY <1>1, <1>2, <1>3, <2>1
  <2>3. Answer(c)' # 0 => /\ floor'[c] <= Answer(c)' /\ shown'[c] <= Answer(c)'
                          /\ Answer(c)' <= issued'
    BY <1>1, <1>2, <1>3, <2>1
  <2>4. fetch'[c].pc = "ok" => fetch'[c].hdr >= floor'[c]
    BY <1>2, <1>3, <2>1
  <2> QED BY <2>2, <2>3, <2>4
<1> QED BY <1>4 DEF InTime, Fresh

-----------------------------------------------------------------------------
(* What the accept thread and Stop leave, and the count of the clients.    *)

\* Nothing is sent on an instance before it is served.
LEMMA NothingSentStep ==
  ASSUME IInv, Quiet, [Next]_vars, accept'.inst # Nobody
  PROVE  pipe'[accept'.inst].down = <<>>
<1> DEFINE a == accept.inst
<1>0. TypeOK /\ Wired /\ pipe \in [Instances -> Pipes] /\ accept \in Acceptors
  BY DEF IInv, TypeOK
<1>1. ASSUME accept' = accept
      PROVE  a \in Instances /\ pipe[a].down = <<>> /\ serve[a].pc = "none"
  BY <1>0, <1>1 DEF Quiet, Wired, Acceptors
<1>2. CASE accept' = accept /\ pipe' = pipe
  BY <1>1, <1>2
<1>3. CASE StopPoke \/ StopUnpoke
  <2>1. accept' = accept
    BY <1>3 DEF StopPoke, StopUnpoke
  <2>2. pipe[a] \in Pipes /\ a \in Instances
    BY <1>0, <1>1, <2>1
  <2>3. [pipe[a] EXCEPT !.client = Stopper, !.used = TRUE].down = pipe[a].down
    BY <2>2 DEF Pipes
  <2>4. [pipe[a] EXCEPT !.client = Nobody].down = pipe[a].down
    BY <2>2 DEF Pipes
  <2>5. CASE StopPoke
    BY <1>0, <1>1, <2>1, <2>2, <2>3, <2>5 DEF StopPoke, ConnectTo
  <2>6. CASE StopUnpoke
    BY <1>0, <1>1, <2>1, <2>2, <2>4, <2>6 DEF StopUnpoke
  <2> QED BY <1>3, <2>5, <2>6
<1>4. CASE Exit \/ Crash \/ Launch
  <2>1. \E s \in {"off", "check"} : accept' = [pc |-> s, inst |-> Nobody]
    BY <1>4 DEF Exit, Crash, EndProcess, Launch
  <2>2. accept'.inst = Nobody
    BY <2>1
  <2> QED BY <2>2
<1>5. CASE Accept
  <2>1. CASE AcceptCheck \/ AcceptCreateFails
    <3>1. accept'.inst = a /\ pipe' = pipe
      BY <1>0, <2>1 DEF AcceptCheck, AcceptCreateFails, Acceptors
    <3> QED BY <3>1 DEF Quiet
  <2>2. CASE AcceptCreate
    <3>1. PICK i \in Instances : /\ pipe' = [pipe EXCEPT ![i] = NewPipe(TRUE)]
                                /\ accept' = [pc |-> "connect", inst |-> i]
      BY <2>2 DEF AcceptCreate
    <3> QED BY <1>0, <3>1 DEF NewPipe
  <2>3. CASE AcceptConnect
    BY <2>3 DEF AcceptConnect
  <2> QED BY <1>5, <2>1, <2>2, <2>3 DEF Accept
<1>6. ASSUME NEW i \in Instances, Serve(i)
      PROVE  pipe'[accept'.inst].down = <<>>
  <2>1. accept' = accept /\ serve[i].pc # "none"
    BY <1>6 DEF Serve, ServeStart, ServeRead, ServeReadFails, ServeCopyHeader,
       ServeCopyPayload, ServeWrite, ServeWriteFails, ServeClose, ServeLeave
  <2>2. i # a /\ a \in Instances
    BY <1>1, <2>1
  <2>3. pipe'[a] = pipe[a]
    BY <1>0, <1>6, <2>2 DEF Serve, ServeStart, ServeRead, ServeReadFails, ServeCopyHeader,
       ServeCopyPayload, ServeWrite, ServeWriteFails, ServeClose, ServeLeave, Shut
  <2> QED BY <1>1, <2>1, <2>3
<1>7. ASSUME NEW c \in Clients, BeginFetch(c) \/ Fetch(c) \/ Disconnect(c)
      PROVE  pipe'[accept'.inst].down = <<>>
  <2>1. accept' = accept
    BY <1>7, ClientFrame
  <2>2. a \in Instances /\ pipe[a].down = <<>>
    BY <1>1, <2>1
  <2>3. pipe'[a].down = <<>>
    BY <1>7, <2>2, ClientEffect
  <2> QED BY <2>1, <2>3
<1>8. CASE UNCHANGED vars
  BY <1>2, <1>8 DEF vars
<1>9. CASE PublishHeader \/ PublishPayload \/ StopBegin \/ StopJoin
  BY <1>2, <1>9 DEF PublishHeader, PublishPayload, StopBegin, StopJoin
<1> QED BY <1>3, <1>4, <1>5, <1>6, <1>7, <1>8, <1>9 DEF Next, Stop

\* The accept thread that Stop has joined does not come back.
LEMMA JoinedStep ==
  ASSUME IInv, Quiet, [Next]_vars
  PROVE  (proc = "stopped" => accept.pc = "off")'
<1>0. accept \in Acceptors /\ (proc = "stopped" => accept.pc = "off")
  BY DEF IInv, TypeOK, Quiet
<1>1. CASE UNCHANGED <<proc, accept>>
  BY <1>0, <1>1
<1>2. CASE Launch \/ Exit \/ Crash \/ Stop \/ PublishHeader \/ PublishPayload
  BY <1>0, <1>2 DEF Launch, Exit, Crash, EndProcess, Stop, StopBegin, StopPoke, StopUnpoke,
     StopJoin, PublishHeader, PublishPayload
<1>3. CASE Accept
  <2>1. accept.pc # "off" /\ proc' = proc
    BY <1>3 DEF Accept, AcceptCheck, AcceptCreate, AcceptCreateFails, AcceptConnect
  <2> QED BY <1>0, <2>1
<1>4. ASSUME NEW i \in Instances, Serve(i)
      PROVE  UNCHANGED <<proc, accept>>
  BY <1>4 DEF Serve, ServeStart, ServeRead, ServeReadFails, ServeCopyHeader,
       ServeCopyPayload, ServeWrite, ServeWriteFails, ServeClose, ServeLeave
<1>5. ASSUME NEW c \in Clients, BeginFetch(c) \/ Fetch(c) \/ Disconnect(c)
      PROVE  UNCHANGED <<proc, accept>>
  BY <1>5, ClientFrame
<1>6. CASE UNCHANGED vars
  BY <1>1, <1>6 DEF vars
<1> QED BY <1>1, <1>2, <1>3, <1>4, <1>5, <1>6 DEF Next

Counting == IsFiniteSet(Counted) /\ ClientCountExact

\* The count and the threads change together.
LEMMA CountingKept ==
  ASSUME Counting, UNCHANGED <<clients>>,
         \A i \in Instances : serve'[i].pc \in {"none", "start"} <=> serve[i].pc \in {"none", "start"}
  PROVE  Counting'
<1>1. Counted' = Counted
  BY DEF Counted
<1> QED BY <1>1 DEF Counting, ClientCountExact

LEMMA CountingStep ==
  ASSUME IInv, Counting, [Next]_vars
  PROVE  Counting'
<1>0. TypeOK /\ Wired /\ serve \in [Instances -> Threads] /\ accept \in Acceptors
  BY DEF IInv, TypeOK
<1>1. CASE UNCHANGED <<serve, clients>>
  BY <1>1, CountingKept
<1>2. CASE Launch \/ PublishHeader \/ PublishPayload \/ Stop
  BY <1>1, <1>2 DEF Launch, PublishHeader, PublishPayload, Stop, StopBegin, StopPoke,
     StopUnpoke, StopJoin, broker
<1>3. CASE Exit \/ Crash
  <2>1. clients' = 0 /\ serve' = [i \in Instances |-> Thread("none")]
    BY <1>3 DEF Exit, Crash, EndProcess
  <2>2. \A i \in Instances : serve'[i].pc = "none"
    BY <2>1, ThreadFields
  <2>3. Counted' = {}
    BY <2>2 DEF Counted
  <2>4. IsFiniteSet(Counted') /\ Cardinality(Counted') = 0
    BY <2>3, FS_EmptySet
  <2> QED BY <2>1, <2>4 DEF Counting, ClientCountExact
<1>4. CASE Accept
  <2>1. clients' = clients
    BY <1>4 DEF Accept, AcceptCheck, AcceptCreate, AcceptCreateFails, AcceptConnect, broker
  <2>2. CASE serve' = serve
    BY <1>1, <2>1, <2>2
  <2>3. CASE serve' # serve
    <3>1. /\ serve' = [serve EXCEPT ![accept.inst] = Thread("start")]
          /\ accept.inst \in Instances /\ serve[accept.inst].pc = "none"
      BY <1>0, <1>4, <2>3 DEF Accept, AcceptCheck, AcceptCreate, AcceptCreateFails,
         AcceptConnect, Wired, Acceptors
    <3>2. \A i \in Instances : \/ serve'[i] = serve[i]
                               \/ serve'[i].pc = "start" /\ serve[i].pc = "none"
      BY <1>0, <3>1, ThreadFields
    <3> QED BY <2>1, <3>2, CountingKept
  <2> QED BY <2>2, <2>3
<1>5. ASSUME NEW i \in Instances, Serve(i)
      PROVE  Counting'
  <2>0. /\ \A j \in Instances : j # i => serve'[j] = serve[j]
        /\ clients \in Int
    BY <1>0, <1>5 DEF Serve, ServeStart, ServeRead, ServeReadFails, ServeCopyHeader,
       ServeCopyPayload, ServeWrite, ServeWriteFails, ServeClose, ServeLeave, TypeOK
  <2>1. CASE ServeStart(i)
    <3>1. serve[i].pc = "start" /\ serve'[i] = Thread("read") /\ clients' = clients + 1
      BY <1>0, <2>1 DEF ServeStart
    <3>2. serve'[i].pc = "read"
      BY <3>1, ThreadFields
    <3>3. i \notin Counted /\ Counted' = Counted \cup {i}
      BY <2>0, <3>1, <3>2 DEF Counted
    <3>4. IsFiniteSet(Counted') /\ Cardinality(Counted') = Cardinality(Counted) + 1
      BY <3>3, FS_AddElement DEF Counting
    <3> QED BY <3>1, <3>4 DEF Counting, ClientCountExact
  <2>2. CASE ServeLeave(i)
    <3>1. serve[i].pc = "leave" /\ serve'[i] = Thread("none") /\ clients' = clients - 1
      BY <1>0, <2>2 DEF ServeLeave
    <3>2. serve'[i].pc = "none"
      BY <3>1, ThreadFields
    <3>3. i \in Counted /\ Counted' = Counted \ {i}
      BY <2>0, <3>1, <3>2 DEF Counted
    <3>4. IsFiniteSet(Counted') /\ Cardinality(Counted') = Cardinality(Counted) - 1
      BY <3>3, FS_RemoveElement DEF Counting
    <3> QED BY <3>1, <3>4 DEF Counting, ClientCountExact
  <2>3. CASE ServeRead(i) \/ ServeReadFails(i) \/ ServeWriteFails(i) \/ ServeClose(i)
    <3>1. /\ clients' = clients /\ serve[i].pc \notin {"none", "start"}
          /\ serve'[i].pc \notin {"none", "start"}
      BY <1>0, <2>3, ThreadFields DEF ServeRead, ServeReadFails, ServeWriteFails, ServeClose, broker
    <3> QED BY <2>0, <3>1, CountingKept
  <2>4. CASE ServeCopyHeader(i) \/ ServeCopyPayload(i)
    <3>1. /\ clients' = clients /\ serve[i].pc \notin {"none", "start"}
          /\ serve'[i].pc \notin {"none", "start"}
      BY <1>0, <2>4 DEF ServeCopyHeader, ServeCopyPayload, Threads
    <3> QED BY <2>0, <3>1, CountingKept
  <2>5. CASE ServeWrite(i)
    <3>1. /\ clients' = clients /\ serve[i].pc = "write" /\ serve[i] \in Threads
          /\ \/ serve'[i] = Thread("read")
             \/ serve'[i] = [serve[i] EXCEPT !.next = @ + 1]
      BY <1>0, <2>5 DEF ServeWrite, broker
    <3>2. serve'[i].pc \in {"read", "write"}
      BY <3>1, ThreadFields DEF Threads
    <3> QED BY <2>0, <3>1, <3>2, CountingKept
  <2> QED BY <1>5, <2>1, <2>2, <2>3, <2>4, <2>5 DEF Serve
<1>6. ASSUME NEW c \in Clients, BeginFetch(c) \/ Fetch(c) \/ Disconnect(c)
      PROVE  UNCHANGED <<serve, clients>>
  BY <1>6 DEF BeginFetch, Fetch, Connect, ConnectFails, WriteRequest, WriteFails,
     ReadHeader, ReadPayload, ReadFails, Disconnect, broker
<1>7. CASE UNCHANGED vars
  BY <1>1, <1>7 DEF vars, broker
<1> QED BY <1>1, <1>2, <1>3, <1>4, <1>5, <1>6, <1>7 DEF Next

-----------------------------------------------------------------------------
(* What a client that waits in ReadFile is owed.                           *)

\* A thread is on its way out only when its client has gone.
LEMMA LeavingStep ==
  ASSUME IInv, Attended, [Next]_vars, NEW i \in Instances, serve'[i].pc = "flush"
  PROVE  pipe'[i].client = Nobody
<1>0. /\ TypeOK /\ Wired /\ pipe \in [Instances -> Pipes] /\ serve \in [Instances -> Threads]
      /\ accept \in Acceptors
  BY DEF IInv, TypeOK
<1>1. CASE serve[i].pc = "flush" /\ serve' = serve /\ pipe' = pipe
  BY <1>1 DEF Attended
<1>2. CASE Launch \/ PublishHeader \/ PublishPayload \/ StopBegin \/ StopJoin \/ UNCHANGED vars
  BY <1>1, <1>2 DEF Launch, PublishHeader, PublishPayload, StopBegin, StopJoin, vars
<1>3. CASE StopPoke \/ StopUnpoke
  <2>1. serve[i].pc = "flush" /\ pipe[i].client = Nobody
    BY <1>3 DEF Attended, StopPoke, StopUnpoke
  <2>2. pipe[i].used
    BY <1>0, <2>1 DEF Wired
  <2> QED BY <1>0, <1>3, <2>1, <2>2 DEF StopPoke, StopUnpoke, ConnectTo, Listening, Pipes
<1>4. CASE Exit \/ Crash
  <2>1. serve'[i] = Thread("none")
    BY <1>4 DEF Exit, Crash, EndProcess
  <2> QED BY <2>1, ThreadFields
<1>5. CASE Accept
  <2>0. serve' = serve \/ serve' = [serve EXCEPT ![accept.inst] = Thread("start")]
    BY <1>5 DEF Accept, AcceptCheck, AcceptCreate, AcceptCreateFails, AcceptConnect
  <2>1. serve[i].pc = "flush"
    BY <1>0, <2>0, ThreadFields
  <2>3. accept.inst # i
    BY <1>0, <2>1, NamesAssumption DEF Wired
  <2>2. pipe'[i] = pipe[i]
    BY <1>0, <1>5, <2>1, <2>3 DEF Accept, AcceptCheck, AcceptCreate, AcceptCreateFails,
       AcceptConnect, Shut, Free
  <2> QED BY <2>1, <2>2 DEF Attended
<1>6. ASSUME NEW j \in Instances, Serve(j)
      PROVE  pipe'[i].client = Nobody
  <2>1. CASE i # j
    <3>1. serve'[i] = serve[i] /\ pipe'[i] = pipe[i]
      BY <1>0, <1>6, <2>1 DEF Serve, ServeStart, ServeRead, ServeReadFails, ServeCopyHeader,
         ServeCopyPayload, ServeWrite, ServeWriteFails, ServeClose, ServeLeave, Shut
    <3> QED BY <3>1 DEF Attended
  <2>2. CASE i = j /\ (ServeReadFails(i) \/ ServeWriteFails(i))
    BY <2>2 DEF ServeReadFails, ServeWriteFails
  <2>3. CASE i = j /\ ~(ServeReadFails(i) \/ ServeWriteFails(i))
    <3>1. serve'[i].pc # "flush"
      BY <1>0, <1>6, <2>3, ThreadFields DEF Serve, ServeStart, ServeRead, ServeCopyHeader,
         ServeCopyPayload, ServeWrite, ServeClose, ServeLeave, Threads
    <3> QED BY <3>1
  <2> QED BY <2>1, <2>2, <2>3
<1>7. ASSUME NEW c \in Clients, BeginFetch(c) \/ Fetch(c) \/ Disconnect(c)
      PROVE  pipe'[i].client = Nobody
  <2>1. serve[i].pc = "flush" /\ pipe[i].client = Nobody
    BY <1>7, ClientFrame DEF Attended
  <2>2. pipe[i].used /\ fetch[c].inst # i
    BY <1>0, <2>1, NamesAssumption DEF Wired
  <2>3. pipe'[i] = pipe[i]
    BY <1>7, <2>2, ClientEffect
  <2> QED BY <2>1, <2>3
<1> QED BY <1>2, <1>3, <1>4, <1>5, <1>6, <1>7 DEF Next, Stop

Answering == {"lock", "copy", "write"}

\* A step that moves nothing on the way to c, and takes no thread off it.
LEMMA WholeKept ==
  ASSUME NEW c \in Clients, NEW i, i = fetch[c].inst,
         fetch[c].pc \in {"header", "body"} => Whole(c),
         fetch'[c] = fetch[c],
         pipe'[i].reqs = pipe[i].reqs, pipe'[i].down = pipe[i].down,
         pipe'[i].server => pipe[i].server,
         serve[i].pc \in Answering => serve'[i].pc \in Answering,
         fetch'[c].pc \in {"header", "body"}
  PROVE  Whole(c)'
<1>1. Position(c)' = Position(c) /\ Size(pipe[i].down[1].frame)' = Size(pipe[i].down[1].frame)
  BY DEF Position, Size
<1> QED BY <1>1 DEF Whole, Answering, Size

\* The main thread and Publish touch no response; with the process the
\* server's ends go.
LEMMA WholeMain ==
  ASSUME IInv, Attended,
         Launch \/ PublishHeader \/ PublishPayload \/ Stop \/ Exit \/ Crash,
         NEW c \in Clients, fetch'[c].pc \in {"header", "body"}
  PROVE  Whole(c)'
<1> DEFINE i == fetch[c].inst
<1>0. TypeOK /\ Wired /\ (fetch[c].pc \in {"header", "body"} => Whole(c))
  BY DEF IInv, Attended
<1>1. UNCHANGED fetch
  BY DEF Launch, PublishHeader, PublishPayload, Stop, StopBegin, StopPoke, StopUnpoke,
     StopJoin, Exit, Crash, EndProcess
<1>2. i \in Instances /\ pipe[i].client = c /\ pipe[i] \in Pipes
  BY <1>0, <1>1 DEF TypeOK, Calls, Wired
<1>3. CASE Launch \/ PublishHeader \/ PublishPayload \/ StopBegin \/ StopJoin
  <2>1. UNCHANGED <<serve, pipe>>
    BY <1>3 DEF Launch, PublishHeader, PublishPayload, StopBegin, StopJoin
  <2> QED BY <1>0, <1>1, <2>1, WholeKept
<1>4. CASE StopPoke
  <2>1. \A j \in Instances : Listening(j) => j # i
    BY <1>0, <1>2, NamesAssumption DEF Listening, Wired
  <2>2. serve' = serve /\ pipe'[i] = pipe[i]
    BY <1>0, <1>2, <1>4, <2>1 DEF StopPoke, ConnectTo, TypeOK
  <2> QED BY <1>0, <1>1, <2>2, WholeKept
<1>5. CASE StopUnpoke
  <2>1. /\ serve' = serve /\ pipe'[i].reqs = pipe[i].reqs
        /\ pipe'[i].down = pipe[i].down /\ pipe'[i].server = pipe[i].server
    BY <1>2, <1>5 DEF StopUnpoke, Pipes
  <2> QED BY <1>0, <1>1, <2>1, WholeKept
<1>6. CASE Exit \/ Crash
  <2>0. EndProcess
    BY <1>6 DEF Exit, Crash
  <2>1. ~pipe'[i].server
    BY <1>2, <2>0 DEF EndProcess, Pipes
  <2> QED BY <1>1, <2>1 DEF Whole
<1> QED BY <1>3, <1>4, <1>5, <1>6 DEF Stop

\* The accept thread hands a connection over before anything is sent on it.
LEMMA WholeAccept ==
  ASSUME IInv, Attended, Accept, NEW c \in Clients, fetch'[c].pc \in {"header", "body"}
  PROVE  Whole(c)'
<1> DEFINE i == fetch[c].inst
<1>0. /\ TypeOK /\ Wired /\ (fetch[c].pc \in {"header", "body"} => Whole(c))
      /\ accept \in Acceptors /\ pipe \in [Instances -> Pipes] /\ serve \in [Instances -> Threads]
  BY DEF IInv, TypeOK, Attended
<1>1. UNCHANGED fetch
  BY DEF Accept, AcceptCheck, AcceptCreate, AcceptCreateFails, AcceptConnect
<1>2. i \in Instances /\ pipe[i].client = c /\ pipe[i].client # Nobody
  <2>1. fetch[c].pc \in {"header", "body"} /\ fetch[c] \in Calls
    BY <1>0, <1>1 DEF TypeOK
  <2>2. i # Nobody /\ pipe[i].client = c
    BY <1>0, <2>1 DEF Wired
  <2> QED BY <2>1, <2>2, NamesAssumption DEF Calls
<1>3. CASE pipe'[i] = pipe[i] /\ serve'[i] = serve[i]
  BY <1>0, <1>1, <1>3, WholeKept
<1>4. CASE AcceptCheck \/ AcceptCreate \/ AcceptCreateFails
  <2>1. pipe'[i] = pipe[i] /\ serve'[i] = serve[i]
    BY <1>0, <1>2, <1>4 DEF AcceptCheck, AcceptCreate, AcceptCreateFails, Free
  <2> QED BY <1>3, <2>1
<1>5. CASE AcceptConnect /\ accept.inst # i
  <2>1. pipe'[i] = pipe[i] /\ serve'[i] = serve[i]
    BY <1>0, <1>2, <1>5 DEF AcceptConnect, Shut
  <2> QED BY <1>3, <2>1
<1>6. CASE AcceptConnect /\ accept.inst = i
  <2>1. serve[i].pc = "none"
    BY <1>0, <1>2, <1>6, NamesAssumption DEF Wired
  <2>2. \/ ~pipe'[i].server
        \/ pipe'[i] = pipe[i]
    BY <1>0, <1>2, <1>6 DEF AcceptConnect, Shut, Pipes
  <2>3. CASE ~pipe'[i].server
    BY <1>1, <2>3 DEF Whole
  <2>4. CASE pipe'[i] = pipe[i]
    BY <1>0, <1>1, <2>1, <2>4, WholeKept DEF Answering
  <2> QED BY <2>2, <2>3, <2>4
<1> QED BY <1>4, <1>5, <1>6 DEF Accept

\* A unit behind those in the pipe.
LEMMA Appended ==
  ASSUME NEW d \in Seq(Units), NEW u \in Units
  PROVE  /\ Len(Append(d, u)) = Len(d) + 1 /\ Append(d, u) # <<>>
         /\ Append(d, u)[1] = IF Len(d) = 0 THEN u ELSE d[1]
<1> DEFINE e == Append(d, u)
<1>1. /\ Len(d) \in Nat /\ e \in Seq(Units) /\ Len(e) = Len(d) + 1
      /\ e[Len(d) + 1] = u /\ \A k \in 1 .. Len(d) : e[k] = d[k]
  OBVIOUS
<1>2. e # <<>>
  BY <1>1
<1> HIDE DEF e
<1>3. Len(d) = 0 => e[1] = u
  BY <1>1
<1>4. Len(d) # 0 => e[1] = d[1]
  BY <1>1
<1>5. e[1] = IF Len(d) = 0 THEN u ELSE d[1]
  BY <1>3, <1>4
<1> QED BY <1>1, <1>2, <1>5 DEF e

\* A serving thread ends a response with its last unit.
LEMMA WholeServe ==
  ASSUME IInv, Attended, NEW i \in Instances, Serve(i),
         NEW c \in Clients, fetch'[c].pc \in {"header", "body"}
  PROVE  Whole(c)'
<1> DEFINE j == fetch[c].inst
           s == serve[i]
           d == pipe[i].down
<1>0. /\ TypeOK /\ Wired /\ Locked
      /\ pipe \in [Instances -> Pipes] /\ serve \in [Instances -> Threads]
  BY DEF IInv, TypeOK
<1>1. UNCHANGED fetch
  BY DEF Serve, ServeStart, ServeRead, ServeReadFails, ServeCopyHeader,
     ServeCopyPayload, ServeWrite, ServeWriteFails, ServeClose, ServeLeave
<1>2. fetch[c].pc \in {"header", "body"} /\ fetch[c] \in Calls /\ Whole(c)
  BY <1>0, <1>1 DEF TypeOK, Attended
<1>3. j \in Instances /\ pipe[j].client = c /\ pipe[j].client # Nobody /\ Exchange(c)
  <2>1. j # Nobody /\ pipe[j].client = c
    BY <1>0, <1>2 DEF Wired
  <2> QED BY <1>2, <2>1, NamesAssumption DEF Calls, IInv
<1>4. CASE j # i
  <2>1. pipe'[j] = pipe[j] /\ serve'[j] = serve[j]
    BY <1>0, <1>3, <1>4 DEF Serve, ServeStart, ServeRead, ServeReadFails, ServeCopyHeader,
       ServeCopyPayload, ServeWrite, ServeWriteFails, ServeClose, ServeLeave, Shut
  <2> QED BY <1>1, <1>2, <2>1, WholeKept
<1>5. CASE j = i /\ (ServeStart(i) \/ ServeLeave(i))
  <2>1. pipe'[i] = pipe[i] /\ serve[i].pc \notin Answering
    BY <1>5 DEF ServeStart, ServeLeave, Answering
  <2> QED BY <1>1, <1>2, <1>5, <2>1, WholeKept
<1>6. CASE j = i /\ (ServeReadFails(i) \/ ServeWriteFails(i) \/ ServeClose(i))
  <2>1. pipe[i].client = Nobody
    BY <1>6 DEF ServeReadFails, ServeWriteFails, ServeClose, Attended
  <2> QED BY <1>3, <1>6, <2>1
<1>7. CASE j = i /\ (ServeRead(i) \/ ServeCopyHeader(i) \/ ServeCopyPayload(i))
  <2>1. serve'[i].pc \in {"lock", "copy", "write"}
    BY <1>0, <1>7, ThreadFields DEF ServeRead, ServeCopyHeader, ServeCopyPayload, Threads
  <2> QED BY <1>1, <1>7, <2>1 DEF Whole
<1>8. CASE j = i /\ ServeWrite(i)
  <2> DEFINE u == [part |-> s.next,
                   frame |-> IF s.next = 0 THEN s.hdr ELSE s.data,
                   len |-> IF s.next = 0 THEN Size(s.data) ELSE 0]
             e == Append(d, u)
  <2>1. /\ s.pc = "write" /\ s \in Threads
        /\ pipe' = [pipe EXCEPT ![i].down = e]
        /\ serve'[i] = IF s.next = Size(s.data) THEN Thread("read")
                                                ELSE [s EXCEPT !.next = @ + 1]
    BY <1>0, <1>8 DEF ServeWrite
  <2>2. pipe'[i].down = e
    BY <1>0, <2>1 DEF Pipes
  <2>3. CASE s.next # Size(s.data)
    <3>1. serve'[i].pc = "write"
      BY <2>1, <2>3 DEF Threads
    <3> QED BY <1>1, <1>8, <3>1 DEF Whole
  <2>4. CASE s.next = Size(s.data)
    <3>1. /\ d \in Seq(Units) /\ s.data = s.hdr /\ u.frame = s.hdr
          /\ s.next = Position(c) + Len(d) /\ \A k \in 1 .. Len(d) : d[k].frame = s.hdr
      BY <1>0, <1>3, <1>8, <2>1 DEF Exchange, Locked, Pipes
    <3>2. Position(c) \in Nat /\ Len(d) \in Nat
      BY <1>0, <3>1, PositionType
    <3>7. u \in Units
      BY <1>0, <2>1, PartsAssumption, BoundsAssumption DEF Units, Threads, Size
    <3> HIDE DEF u
    <3>3. /\ Len(e) = Len(d) + 1 /\ e # <<>>
          /\ e[1] = IF Len(d) = 0 THEN u ELSE d[1]
      BY <3>1, <3>7, Appended
    <3>4. e[1].frame = s.hdr
      BY <3>1, <3>2, <3>3
    <3> HIDE DEF d, e
    <3>5. Position(c) + Len(e) = 1 + Size(e[1].frame)
      BY <2>4, <3>1, <3>2, <3>3, <3>4
    <3>6. Position(c)' = Position(c) /\ Size(e[1].frame) = Size(pipe'[i].down[1].frame)
      BY <1>1, <2>2 DEF Position
    <3> QED BY <1>1, <1>8, <2>2, <3>3, <3>5, <3>6 DEF Whole, Size
  <2> QED BY <2>3, <2>4
<1> QED BY <1>4, <1>5, <1>6, <1>7, <1>8 DEF Serve

\* What is left of a response when its first unit has been read.
LEMMA RestIsWhole ==
  ASSUME NEW c \in Clients, NEW d \in Seq(Units), d # <<>>, OneResponse(c, d),
         Position(c) \in Nat, Position(c) < Parts, d[1].frame # 0,
         Position(c) + Len(d) = 1 + Size(d[1].frame)
  PROVE  /\ Tail(d) # <<>> /\ Tail(d)[1].frame = d[1].frame
         /\ Position(c) + 1 + Len(Tail(d)) = 1 + Size(d[1].frame)
<1>1. Size(d[1].frame) = Parts /\ Parts \in Nat
  BY PartsAssumption DEF Size
<1>2. /\ Tail(d) \in Seq(Units) /\ Len(Tail(d)) = Len(d) - 1 /\ Len(d) \in Nat \ {0}
      /\ \A k \in 1 .. Len(Tail(d)) : k + 1 \in 1 .. Len(d) /\ Tail(d)[k] = d[k + 1]
  BY RestOfResponse
<1>3. Len(Tail(d)) \in Nat /\ Len(Tail(d)) > 0
  BY <1>1, <1>2
<1>4. Tail(d)[1] = d[2] /\ 2 \in 1 .. Len(d)
  BY <1>2, <1>3
<1>5. d[2].frame = d[1].frame
  BY <1>4 DEF OneResponse
<1> QED BY <1>1, <1>2, <1>3, <1>4, <1>5

\* The client that takes a step has asked for a response, or read the first
\* unit of the rest of one.
LEMMA WholeOwn ==
  ASSUME IInv, Attended, NEW c \in Clients, BeginFetch(c) \/ Fetch(c) \/ Disconnect(c),
         fetch'[c].pc \in {"header", "body"}
  PROVE  Whole(c)'
<1> DEFINE i == fetch[c].inst
           d == pipe[i].down
<1>0. TypeOK /\ Wired /\ Locked /\ Received(c) /\ (i # Nobody => Exchange(c))
  BY DEF IInv
<1>1. serve' = serve /\ (fetch[c].pc \in {"header", "body"} => Whole(c))
  BY ClientFrame DEF Attended
<1>2. CASE /\ fetch[c].pc = "send" /\ i \in Instances /\ fetch'[c].inst = i
           /\ pipe'[i].reqs = pipe[i].reqs + 1
  <2>1. pipe[i].reqs \in Nat
    BY <1>0, <1>2 DEF TypeOK, Pipes
  <2>2. pipe'[i].reqs # 0
    BY <1>2, <2>1
  <2> QED BY <1>2, <2>2 DEF Whole
<1>3. ASSUME fetch[c].pc \in {"header", "body"}, i \in Instances, d # <<>>,
             fetch'[c].inst = i, pipe'[i].down = Tail(d), pipe'[i].reqs = pipe[i].reqs,
             pipe'[i].server = pipe[i].server,
             d[1].frame # 0, Position(c) < Parts, Position(c)' = Position(c) + 1
      PROVE  Whole(c)'
  <2> SUFFICES ASSUME pipe[i].server, pipe[i].reqs = 0,
                      serve[i].pc \notin {"lock", "copy", "write"}
               PROVE  /\ Tail(d) # <<>>
                      /\ Position(c)' + Len(Tail(d)) = 1 + Size(Tail(d)[1].frame)
    BY <1>1, <1>3 DEF Whole, Size
  <2>1. Exchange(c)
    BY <1>0, <1>3, NamesAssumption
  <2>2. d \in Seq(Units) /\ OneResponse(c, d)
    BY <1>0, <1>3, <2>1, ToRead
  <2>3. Position(c) \in Nat /\ Position(c) + Len(d) = 1 + Size(d[1].frame)
    BY <1>0, <1>1, <1>3, PositionType DEF Whole
  <2> HIDE DEF d
  <2>4. /\ Tail(d) # <<>> /\ Tail(d)[1].frame = d[1].frame
        /\ Position(c) + 1 + Len(Tail(d)) = 1 + Size(d[1].frame)
    BY <1>3, <2>2, <2>3, RestIsWhole
  <2> QED BY <1>3, <2>4
<1>4. CASE /\ fetch[c].pc = "header" /\ i \in Instances /\ d # <<>>
           /\ Head(d).part = 0 /\ Head(d).frame # 0
           /\ fetch'[c].pc = IF Head(d).len = 0 THEN "ok" ELSE "body"
           /\ fetch'[c].inst = i /\ fetch'[c].buf = <<>>
           /\ pipe'[i].down = Tail(d) /\ pipe'[i].reqs = pipe[i].reqs
           /\ pipe'[i].server = pipe[i].server
  <2>0. Exchange(c)
    BY <1>0, <1>4, NamesAssumption
  <2>1. Head(d) = d[1] /\ Position(c) = 0
    BY <1>0, <1>4, <2>0, HeaderRead
  <2>2. fetch'[c].pc = "body"
    BY <1>4
  <2>3. Position(c)' = 1
    BY <1>4, <2>2 DEF Position
  <2> QED BY <1>3, <1>4, <2>1, <2>3, PartsAssumption
<1>5. CASE /\ fetch[c].pc = "body" /\ i \in Instances /\ d # <<>>
           /\ fetch'[c].pc = IF Len(fetch[c].buf) + 1 >= fetch[c].len THEN "ok" ELSE "body"
           /\ fetch'[c].inst = i
           /\ fetch'[c].buf = Append(fetch[c].buf, Head(d))
           /\ pipe'[i].down = Tail(d) /\ pipe'[i].reqs = pipe[i].reqs
           /\ pipe'[i].server = pipe[i].server
  <2> DEFINE n == Len(fetch[c].buf)
  <2>0. Exchange(c)
    BY <1>0, <1>5, NamesAssumption
  <2>1. /\ fetch[c].len = Parts /\ n \in Nat /\ Position(c) = 1 + n /\ fetch[c].hdr # 0
    BY <1>0, <1>5, PositionType DEF Received, Position
  <2>2. fetch'[c].pc = "body" /\ 1 + n < Parts
    BY <1>5, <2>1, PartsAssumption
  <2>3. d \in Seq(Units) /\ OneResponse(c, d)
    BY <1>0, <1>5, <2>0, ToRead
  <2>4. Len(fetch'[c].buf) = n + 1
    <3>1. fetch[c].buf \in Seq(Units) /\ Head(d) \in Units
      BY <1>0, <1>5, <2>3 DEF TypeOK, Calls
    <3>2. \A u \in Units : Len(Append(fetch[c].buf, u)) = n + 1
      BY <3>1
    <3> QED BY <1>5, <3>1, <3>2
  <2>5. Position(c)' = Position(c) + 1
    BY <2>1, <2>2, <2>4 DEF Position
  <2>6. d[1].frame # 0
    <3>1. 1 \in 1 .. Len(d)
      BY <1>5, <2>3
    <3> QED BY <1>5, <2>1, <2>3, <3>1 DEF OneResponse
  <2> QED BY <1>3, <1>5, <2>1, <2>2, <2>5, <2>6
<1> QED BY <1>2, <1>4, <1>5, ClientEffect DEF Resting

\* The clients over a step of one of them.
LEMMA WholeFetch ==
  ASSUME IInv, Attended, NEW c \in Clients, BeginFetch(c) \/ Fetch(c) \/ Disconnect(c),
         NEW d \in Clients, fetch'[d].pc \in {"header", "body"}
  PROVE  Whole(d)'
<1>1. CASE d = c
  BY <1>1, WholeOwn
<1>2. CASE d # c
  <2> DEFINE j == fetch[d].inst
             i == fetch[c].inst
  <2>0. TypeOK /\ Wired /\ fetch[d] \in Calls
    BY DEF IInv, TypeOK
  <2>1. fetch'[d] = fetch[d] /\ serve' = serve
    BY <1>2, ClientFrame
  <2>2. Whole(d) /\ j # Nobody
    BY <2>0, <2>1 DEF Attended, Wired
  <2>3. j \in Instances /\ j # i /\ pipe[j].client = d /\ pipe[j].used
    BY <1>2, <2>0, <2>1, <2>2, Apart, NamesAssumption DEF Wired
  <2>4. pipe'[j] = pipe[j]
    BY <2>3, ClientEffect
  <2> QED BY <2>1, <2>2, <2>4, WholeKept
<1> QED BY <1>1, <1>2

LEMMA AttendedStep ==
  ASSUME IInv, Attended, [Next]_vars
  PROVE  Attended'
<1> SUFFICES ASSUME NEW c \in Clients, fetch'[c].pc \in {"header", "body"}
             PROVE  Whole(c)'
  BY LeavingStep DEF Attended
<1>1. CASE UNCHANGED vars
  BY <1>1, WholeKept DEF Attended, vars
<1> QED BY <1>1, WholeMain, WholeAccept, WholeServe, WholeFetch DEF Next

-----------------------------------------------------------------------------
(* What holds of the connections.                                          *)

LEMMA ConnectedStep ==
  ASSUME IInv, Quiet, Connected, [Next]_vars
  PROVE  Connected'
<1>0. /\ TypeOK /\ Wired /\ Locked /\ fetch \in [Clients -> Calls] /\ accept \in Acceptors
      /\ pipe \in [Instances -> Pipes]
  BY DEF IInv, TypeOK
<1>1. /\ (running <=> proc = "up")'
      /\ (proc = "down" => payload = 0)'
      /\ (mtx = Producer => proc = "up")'
  <2>1. CASE Launch \/ PublishHeader \/ PublishPayload \/ Stop
    BY <2>1, NamesAssumption DEF Connected, Launch, PublishHeader, PublishPayload, Stop, StopBegin,
       StopPoke, StopUnpoke, StopJoin, broker
  <2>2. CASE Exit \/ Crash
    BY <2>2, NamesAssumption DEF Exit, Crash, EndProcess
  <2>3. ASSUME Accept
        PROVE  UNCHANGED <<running, proc, payload, mtx>>
    BY <2>3 DEF Accept, AcceptCheck, AcceptCreate, AcceptCreateFails, AcceptConnect, broker
  <2>4. ASSUME NEW i \in Instances, Serve(i)
        PROVE  UNCHANGED <<running, proc, payload>> /\ (mtx' = mtx \/ mtx' \in {i, Nobody})
    BY <2>4 DEF Serve, ServeStart, ServeRead, ServeReadFails, ServeCopyHeader,
       ServeCopyPayload, ServeWrite, ServeWriteFails, ServeClose, ServeLeave, broker
  <2>5. ASSUME NEW c \in Clients, BeginFetch(c) \/ Fetch(c) \/ Disconnect(c)
        PROVE  UNCHANGED <<running, proc, payload, mtx>>
    BY <2>5 DEF BeginFetch, Fetch, Connect, ConnectFails, WriteRequest, WriteFails,
       ReadHeader, ReadPayload, ReadFails, Disconnect, broker
  <2>6. CASE UNCHANGED vars
    BY <2>6 DEF Connected, vars, broker
  <2> QED BY <2>1, <2>2, <2>3, <2>4, <2>5, <2>6, NamesAssumption DEF Connected, Next
<1> SUFFICES ASSUME NEW c \in Clients, accept'.inst # Nobody, fetch'[c].inst = accept'.inst
             PROVE  fetch'[c].pc \in {"send", "header"}
  BY <1>1 DEF Connected
<1>2. CASE fetch'[c] = fetch[c] /\ accept'.inst = accept.inst
  BY <1>2 DEF Connected
<1>3. CASE Launch \/ PublishHeader \/ PublishPayload \/ Stop \/ Exit \/ Crash
  <2>1. fetch' = fetch
    BY <1>3 DEF Launch, PublishHeader, PublishPayload, Stop, StopBegin, StopPoke, StopUnpoke,
       StopJoin, Exit, Crash, EndProcess
  <2>2. CASE Launch \/ Exit \/ Crash
    <3>1. \E pc : accept' = [pc |-> pc, inst |-> Nobody]
      BY <2>2 DEF Launch, Exit, Crash, EndProcess
    <3> QED BY <3>1
  <2>3. CASE PublishHeader \/ PublishPayload \/ Stop
    <3>1. accept' = accept
      BY <2>3 DEF PublishHeader, PublishPayload, Stop, StopBegin, StopPoke, StopUnpoke, StopJoin
    <3> QED BY <1>2, <2>1, <3>1
  <2> QED BY <1>3, <2>2, <2>3
<1>4. CASE Accept
  <2>1. fetch' = fetch
    BY <1>4 DEF Accept, AcceptCheck, AcceptCreate, AcceptCreateFails, AcceptConnect
  <2>2. CASE AcceptCheck \/ AcceptCreateFails
    <3>1. accept'.inst = accept.inst
      BY <1>0, <2>2 DEF AcceptCheck, AcceptCreateFails, Acceptors
    <3> QED BY <1>2, <2>1, <3>1
  <2>3. CASE AcceptCreate
    <3>1. accept'.inst \in Instances /\ pipe[accept'.inst].client = Nobody
      BY <2>3 DEF AcceptCreate, Free
    <3> QED BY <1>0, <2>1, <3>1, NamesAssumption DEF Wired
  <2>4. CASE AcceptConnect
    BY <2>4 DEF AcceptConnect
  <2> QED BY <1>4, <2>2, <2>3, <2>4 DEF Accept
<1>5. ASSUME NEW i \in Instances, Serve(i)
      PROVE  fetch' = fetch /\ accept' = accept
  BY <1>5 DEF Serve, ServeStart, ServeRead, ServeReadFails, ServeCopyHeader,
     ServeCopyPayload, ServeWrite, ServeWriteFails, ServeClose, ServeLeave
<1>6. ASSUME NEW d \in Clients, BeginFetch(d) \/ Fetch(d) \/ Disconnect(d)
      PROVE  fetch'[c].pc \in {"send", "header"}
  <2>1. accept' = accept /\ (c # d => fetch'[c] = fetch[c])
    BY <1>6, ClientFrame
  <2>2. CASE c = d
    <3>1. fetch[c].inst = accept.inst => fetch[c].pc \in {"send", "header"}
      BY <2>1 DEF Connected
    <3>2. fetch[c].inst = accept.inst => pipe[accept.inst].down = <<>>
      BY <2>1 DEF Quiet
    <3> QED BY <1>6, <2>1, <2>2, <3>1, <3>2, ClientEffect DEF Resting
  <2> QED BY <1>2, <2>1, <2>2
<1>7. CASE UNCHANGED vars
  BY <1>2, <1>7 DEF vars
<1> QED BY <1>2, <1>3, <1>4, <1>5, <1>6, <1>7 DEF Next

-----------------------------------------------------------------------------
(* Each step of FramePipe is one of Link, or none.                         *)

\* A step that moves nothing that Link sees of c.
LEMMA Unmoved ==
  ASSUME IInv, NEW c \in Clients, NEW i, i = fetch[c].inst, fetch'[c] = fetch[c],
         Answer(c)' = Answer(c),
         i \in Instances =>
           /\ accept'.inst = i <=> accept.inst = i
           /\ pipe'[i].server = pipe[i].server
           /\ (pipe'[i].down # <<>> \/ serve'[i].pc = "write")
                <=> (pipe[i].down # <<>> \/ serve[i].pc = "write")
  PROVE  /\ LinkOf(c)' = LinkOf(c)
         /\ WhereOf(c)' = WhereOf(c) /\ KindOf(c)' = KindOf(c)
<1>1. i \in Instances \cup {Nobody}
  BY DEF IInv, TypeOK, Calls
<1>2. CASE i = Nobody
  BY <1>2 DEF LinkOf, WhereOf, KindOf, Resting
<1>3. CASE i \in Instances
  <2>1. LinkOf(c)' = LinkOf(c)
    BY <1>3 DEF LinkOf
  <2>2. WhereOf(c)' = WhereOf(c)
    BY <1>3 DEF WhereOf
  <2> QED BY <2>1, <2>2 DEF KindOf
<1> QED BY <1>1, <1>2, <1>3

Links == [c \in Clients |-> LinkOf(c)]
Reqs == [c \in Clients |-> [at |-> WhereOf(c), kind |-> KindOf(c)]]

LEMMA NothingMoves ==
  ASSUME \A c \in Clients : LinkOf(c)' = LinkOf(c) /\ WhereOf(c)' = WhereOf(c)
                             /\ KindOf(c)' = KindOf(c)
  PROVE  Links' = Links /\ Reqs' = Reqs
  BY DEF Links, Reqs

\* Where a client is, by its call.
LEMMA WhereIs ==
  ASSUME NEW c \in Clients, NEW i, i = fetch[c].inst
  PROVE  /\ fetch[c].pc \in Resting => WhereOf(c) = fetch[c].pc
         /\ fetch[c].pc \notin Resting /\ i \in {Nobody, accept.inst} => WhereOf(c) = "connect"
         /\ fetch[c].pc = "body" /\ i \notin {Nobody, accept.inst} => WhereOf(c) = "back"
         /\ fetch[c].pc = "header" /\ i \notin {Nobody, accept.inst}
              => WhereOf(c) = IF pipe[i].down # <<>> \/ serve[i].pc = "write"
                              THEN "back" ELSE "sent"
         /\ fetch[c].pc \notin Resting \cup {"header", "body"} /\ i \notin {Nobody, accept.inst}
              => WhereOf(c) = "sent"
  BY DEF WhereOf, Resting

LEMMA WhereIsNext ==
  ASSUME NEW c \in Clients, NEW i, i = fetch'[c].inst
  PROVE  /\ fetch'[c].pc \in Resting => WhereOf(c)' = fetch'[c].pc
         /\ fetch'[c].pc \notin Resting /\ i \in {Nobody, accept'.inst} => WhereOf(c)' = "connect"
         /\ fetch'[c].pc = "body" /\ i \notin {Nobody, accept'.inst} => WhereOf(c)' = "back"
         /\ fetch'[c].pc = "header" /\ i \notin {Nobody, accept'.inst}
              => WhereOf(c)' = IF pipe'[i].down # <<>> \/ serve'[i].pc = "write"
                               THEN "back" ELSE "sent"
         /\ fetch'[c].pc \notin Resting \cup {"header", "body"} /\ i \notin {Nobody, accept'.inst}
              => WhereOf(c)' = "sent"
  BY DEF WhereOf, Resting

\* What the end of the process does to a stream.
LEMMA CutOne ==
  ASSUME IInv, Quiet, Connected, EndProcess, NEW c \in Clients, NEW i, i = fetch[c].inst
  PROVE  LET left == WhereOf(c) = "connect" /\ i # Nobody
             lost == WhereOf(c) = "back" /\ WhereOf(c)' = "sent"
         IN
         /\ LinkOf(c)' = IF LinkOf(c) = "live" \/ left THEN "dead" ELSE LinkOf(c)
         /\ IF left \/ lost THEN WhereOf(c)' = "sent" /\ KindOf(c)' = 0
            ELSE WhereOf(c)' = WhereOf(c) /\ KindOf(c)' = KindOf(c)
<1>0. /\ TypeOK /\ Wired /\ fetch[c] \in Calls /\ accept \in Acceptors
      /\ pipe \in [Instances -> Pipes]
  BY DEF IInv, TypeOK
<1>1. fetch' = fetch /\ accept'.inst = Nobody /\ i \in Instances \cup {Nobody}
  BY <1>0 DEF EndProcess, Calls
<1>2. ASSUME i \in Instances
      PROVE  pipe'[i].down = pipe[i].down /\ ~pipe'[i].server /\ serve'[i].pc = "none"
  <2>1. pipe[i] \in Pipes /\ serve'[i] = Thread("none")
    BY <1>0, <1>2 DEF EndProcess
  <2>2. pipe'[i].down = pipe[i].down /\ ~pipe'[i].server
    BY <1>2, <2>1 DEF EndProcess, Pipes
  <2> QED BY <2>1, <2>2, ThreadFields
<1>3. CASE i = Nobody
  <2>1. fetch[c].pc \in {"idle", "connect", "failed"}
    BY <1>0, <1>3 DEF Wired
  <2>2. CASE fetch[c].pc = "connect"
    <3>1. WhereOf(c) = "connect" /\ WhereOf(c)' = "connect"
      BY <1>1, <1>3, <2>2, WhereIs, WhereIsNext DEF Resting
    <3> QED BY <1>1, <1>3, <3>1 DEF KindOf, LinkOf
  <2>3. CASE fetch[c].pc \in Resting
    <3>1. WhereOf(c) = fetch[c].pc /\ WhereOf(c)' = fetch[c].pc
      BY <1>1, <2>3, WhereIs, WhereIsNext
    <3> QED BY <1>1, <1>3, <2>1, <2>3, <3>1 DEF KindOf, LinkOf, Resting
  <2> QED BY <2>1, <2>2, <2>3 DEF Resting
<1>4. CASE i \in Instances
  <2>0. i # Nobody /\ accept'.inst # i
    BY <1>1, <1>4, NamesAssumption
  <2>1. LinkOf(c)' = "dead"
    BY <1>1, <1>2, <1>4, <2>0 DEF LinkOf
  <2>2. LinkOf(c) # "none" \/ (LinkOf(c) = "none" /\ i = accept.inst)
    BY <2>0 DEF LinkOf
  <2>3. CASE i = accept.inst
    <3>1. fetch[c].pc \in {"send", "header"} /\ pipe[i].down = <<>>
      BY <2>0, <2>3 DEF Connected, Quiet
    <3>2. WhereOf(c) = "connect" /\ WhereOf(c)' = "sent"
      BY <1>1, <1>2, <1>4, <2>0, <2>3, <3>1, WhereIs, WhereIsNext DEF Resting
    <3> QED BY <2>0, <2>1, <3>2 DEF KindOf
  <2>4. CASE i # accept.inst /\ fetch[c].pc = "ok"
    <3>1. WhereOf(c) = "ok" /\ WhereOf(c)' = "ok"
      BY <1>1, <2>4, WhereIs, WhereIsNext DEF Resting
    <3> QED BY <1>1, <2>0, <2>1, <2>4, <3>1 DEF KindOf, LinkOf
  <2>5. CASE i # accept.inst /\ fetch[c].pc = "send"
    <3>1. WhereOf(c) = "sent" /\ WhereOf(c)' = "sent"
      BY <1>1, <2>0, <2>5, WhereIs, WhereIsNext DEF Resting
    <3> QED BY <1>1, <2>0, <2>1, <2>5, <3>1 DEF KindOf, LinkOf
  <2>6. CASE i # accept.inst /\ fetch[c].pc = "body"
    <3>1. WhereOf(c) = "back" /\ WhereOf(c)' = "back"
      BY <1>1, <2>0, <2>6, WhereIs, WhereIsNext DEF Resting
    <3>2. Answer(c)' = Answer(c)
      BY <1>1, <2>6, AnswersKept
    <3> QED BY <1>1, <2>0, <2>1, <2>6, <3>1, <3>2 DEF KindOf, LinkOf
  <2>7. CASE i # accept.inst /\ fetch[c].pc = "header" /\ pipe[i].down # <<>>
    <3>1. WhereOf(c) = "back" /\ WhereOf(c)' = "back"
      BY <1>1, <1>2, <1>4, <2>0, <2>7, WhereIs, WhereIsNext DEF Resting
    <3>2. Answer(c)' = Answer(c)
      BY <1>1, <1>2, <1>4, <2>7, AnswerIs, AnswerIsNext
    <3> QED BY <1>1, <2>0, <2>1, <2>7, <3>1, <3>2 DEF KindOf, LinkOf
  <2>8. CASE i # accept.inst /\ fetch[c].pc = "header" /\ pipe[i].down = <<>>
    <3>1. WhereOf(c) \in {"back", "sent"} /\ WhereOf(c)' = "sent"
      BY <1>1, <1>2, <1>4, <2>0, <2>8, WhereIs, WhereIsNext DEF Resting
    <3> QED BY <1>1, <2>0, <2>1, <2>8, <3>1 DEF KindOf, LinkOf
  <2>9. fetch[c].pc \in {"send", "header", "body", "ok"}
    BY <1>0, <1>4, <2>0 DEF Wired, Calls
  <2> QED BY <2>3, <2>4, <2>5, <2>6, <2>7, <2>8, <2>9
<1> QED BY <1>1, <1>3, <1>4

\* The main thread, Publish, and the end of the process.
LEMMA LinkMain ==
  ASSUME IInv, Quiet, Connected,
         Launch \/ PublishHeader \/ PublishPayload \/ Stop \/ Exit \/ Crash
  PROVE  [Connections!LinkNext]_(Connections!linkVars)
<1>0. /\ TypeOK /\ Wired /\ Locked /\ pipe \in [Instances -> Pipes] /\ accept \in Acceptors
  BY DEF IInv, TypeOK
<1>1. CASE Exit \/ Crash
  <2>1. EndProcess
    BY <1>1 DEF Exit, Crash
  <2> DEFINE lost == {c \in Clients : WhereOf(c) = "back" /\ WhereOf(c)' = "sent"}
             left == {c \in Clients : WhereOf(c) = "connect" /\ fetch[c].inst # Nobody}
  <2>2. /\ lost \in SUBSET {c \in Clients : Reqs[c].at = "back"}
        /\ left \in SUBSET {c \in Clients : Reqs[c].at = "connect"}
    BY DEF Reqs
  <2>3. Links' = [c \in Clients |-> IF Links[c] = "live" \/ c \in left THEN "dead" ELSE Links[c]]
    BY <2>1, CutOne DEF Links
  <2>4. Reqs' = [c \in Clients |-> IF c \in lost \cup left
                                   THEN [at |-> "sent", kind |-> 0] ELSE Reqs[c]]
    BY <2>1, CutOne DEF Reqs
  <2>5. running' = FALSE /\ payload' = 0
    BY <2>1 DEF EndProcess
  <2>6. Connections!Cut
    <3> HIDE DEF lost, left
    <3>1. \E lo \in SUBSET {c \in Clients : Reqs[c].at = "back"},
             le \in SUBSET {c \in Clients : Reqs[c].at = "connect"} :
            /\ Links' = [c \in Clients |-> IF Links[c] = "live" \/ c \in le THEN "dead" ELSE Links[c]]
            /\ Reqs' = [c \in Clients |-> IF c \in lo \cup le
                                          THEN [at |-> "sent", kind |-> 0] ELSE Reqs[c]]
      BY <2>2, <2>3, <2>4
    <3> QED BY <2>5, <3>1 DEF Connections!Cut, Connections!At, Links, Reqs
  <2> QED BY <2>6 DEF Connections!LinkNext
<1>2. CASE Launch \/ PublishHeader \/ PublishPayload \/ Stop
  <2>1. UNCHANGED <<fetch, serve>>
    BY <1>2 DEF Launch, PublishHeader, PublishPayload, Stop, StopBegin, StopPoke, StopUnpoke,
       StopJoin
  <2>2. accept'.inst = accept.inst
    <3>1. CASE Launch
      <4>1. accept.inst = Nobody /\ accept' = [pc |-> "check", inst |-> Nobody]
        BY <1>0, <3>1 DEF Launch, Wired
      <4> QED BY <4>1
    <3>2. CASE ~Launch
      BY <1>2, <3>2 DEF PublishHeader, PublishPayload, Stop, StopBegin, StopPoke, StopUnpoke,
         StopJoin
    <3> QED BY <3>1, <3>2
  <2>3. ASSUME NEW i \in Instances
        PROVE  pipe'[i].down = pipe[i].down /\ pipe'[i].server = pipe[i].server
    <3>1. pipe[i] \in Pipes
      BY <1>0
    <3>2. /\ [pipe[i] EXCEPT !.client = Stopper, !.used = TRUE].down = pipe[i].down
          /\ [pipe[i] EXCEPT !.client = Stopper, !.used = TRUE].server = pipe[i].server
      BY <3>1 DEF Pipes
    <3>3. /\ [pipe[i] EXCEPT !.client = Nobody].down = pipe[i].down
          /\ [pipe[i] EXCEPT !.client = Nobody].server = pipe[i].server
      BY <3>1 DEF Pipes
    <3>4. CASE StopPoke
      BY <1>0, <3>2, <3>4 DEF StopPoke, ConnectTo
    <3>5. CASE StopUnpoke
      BY <1>0, <3>3, <3>5 DEF StopUnpoke
    <3>6. CASE ~StopPoke /\ ~StopUnpoke
      BY <1>2, <3>6 DEF Launch, PublishHeader, PublishPayload, Stop, StopBegin, StopJoin
    <3> QED BY <3>4, <3>5, <3>6
  <2>4. \A c \in Clients : Answer(c)' = Answer(c)
    BY <2>1, <2>3, AnswersKept, OnInstance
  <2>5. Links' = Links /\ Reqs' = Reqs
    BY <2>1, <2>2, <2>3, <2>4, Unmoved, NothingMoves
  <2>6. CASE Launch
    <3>1. Connections!SwitchOn
      BY <2>5, <2>6 DEF Launch, Connected, Connections!SwitchOn, Links, Reqs
    <3> QED BY <3>1 DEF Connections!LinkNext
  <2>7. CASE StopBegin
    <3>1. Connections!SwitchOff
      BY <2>5, <2>7 DEF StopBegin, Connected, Connections!SwitchOff, Links, Reqs
    <3> QED BY <3>1 DEF Connections!LinkNext
  <2>8. CASE PublishPayload
    <3>1. Connections!Replace
      BY <1>0, <2>5, <2>8 DEF PublishPayload, Connected, Locked, Connections!Replace, Links, Reqs
    <3> QED BY <3>1 DEF Connections!LinkNext
  <2>9. CASE PublishHeader \/ StopPoke \/ StopUnpoke \/ StopJoin
    <3>1. UNCHANGED <<running, payload>>
      BY <2>9 DEF PublishHeader, StopPoke, StopUnpoke, StopJoin, broker
    <3> QED BY <2>5, <3>1 DEF Connections!linkVars, Links, Reqs
  <2> QED BY <1>2, <2>6, <2>7, <2>8, <2>9 DEF Stop
<1> QED BY <1>1, <1>2

\* A step that Link sees of one stream only.
LEMMA OneMoves ==
  ASSUME NEW c \in Clients,
         \A d \in Clients : d # c => /\ LinkOf(d)' = LinkOf(d) /\ WhereOf(d)' = WhereOf(d)
                                     /\ KindOf(d)' = KindOf(d)
  PROVE  /\ Links' = [Links EXCEPT ![c] = LinkOf(c)']
         /\ Reqs' = [Reqs EXCEPT ![c] = [at |-> WhereOf(c)', kind |-> KindOf(c)']]
         /\ Links[c] = LinkOf(c)
         /\ Reqs[c].at = WhereOf(c) /\ Reqs[c].kind = KindOf(c)
         /\ LinkOf(c)' = LinkOf(c) => Links' = Links
         /\ WhereOf(c)' = WhereOf(c) /\ KindOf(c)' = KindOf(c) => Reqs' = Reqs
  BY DEF Links, Reqs

\* The accept thread: a connection is made, or refused, when it takes it up.
LEMMA LinkAccept ==
  ASSUME IInv, Quiet, Connected, Accept
  PROVE  [Connections!LinkNext]_(Connections!linkVars)
<1> DEFINE a == accept.inst
<1>0. /\ TypeOK /\ Wired /\ HandlesOwned
      /\ pipe \in [Instances -> Pipes] /\ serve \in [Instances -> Threads]
      /\ accept \in Acceptors
  BY DEF IInv, TypeOK
<1>1. UNCHANGED <<fetch, running, payload>>
  BY DEF Accept, AcceptCheck, AcceptCreate, AcceptCreateFails, AcceptConnect, broker
<1>2. \A c \in Clients : Answer(c)' = Answer(c)
  <2>1. [c \in Clients |-> Answer(c)]' = [c \in Clients |-> Answer(c)]
    BY RegisterAccept DEF Register!vars
  <2> DEFINE f == [c \in Clients |-> Answer(c)]
             g == [c \in Clients |-> Answer(c)']
  <2>2. f = g
    BY <2>1
  <2>3. \A c \in Clients : f[c] = Answer(c) /\ g[c] = Answer(c)'
    OBVIOUS
  <2> HIDE DEF f, g
  <2> QED BY <2>2, <2>3
<1>3. ASSUME Links' = Links, Reqs' = Reqs
      PROVE  [Connections!LinkNext]_(Connections!linkVars)
  BY <1>1, <1>3 DEF Connections!linkVars, Links, Reqs
<1>4. CASE AcceptCheck \/ AcceptCreateFails
  <2>1. accept'.inst = a /\ pipe' = pipe /\ serve' = serve
    BY <1>0, <1>4 DEF AcceptCheck, AcceptCreateFails, Acceptors
  <2> QED BY <1>1, <1>2, <1>3, <2>1, Unmoved, NothingMoves
<1>5. CASE AcceptCreate
  <2>1. PICK i \in Instances : /\ Free(i) /\ pipe' = [pipe EXCEPT ![i] = NewPipe(TRUE)]
                              /\ accept' = [pc |-> "connect", inst |-> i]
    BY <1>5 DEF AcceptCreate
  <2>2. accept'.inst = i /\ serve' = serve /\ a = Nobody
    BY <1>0, <1>5, <2>1 DEF AcceptCreate, Wired
  <2>3. ASSUME NEW c \in Clients, fetch[c].inst \in Instances
        PROVE  fetch[c].inst # i /\ pipe'[fetch[c].inst] = pipe[fetch[c].inst]
    <3>1. pipe[fetch[c].inst].client = c /\ pipe[i].client = Nobody
      BY <1>0, <2>1, <2>3, NamesAssumption DEF Wired, Free
    <3> QED BY <1>0, <2>1, <2>3, <3>1, NamesAssumption
  <2>4. \A c \in Clients : LinkOf(c)' = LinkOf(c) /\ WhereOf(c)' = WhereOf(c)
                             /\ KindOf(c)' = KindOf(c)
    <3> TAKE c \in Clients
    <3>1. fetch[c].inst \in Instances => fetch[c].inst # a
      BY <2>2, NamesAssumption
    <3> QED BY <1>1, <1>2, <2>2, <2>3, <3>1, Unmoved
  <2> QED BY <1>3, <2>4, NothingMoves
<1>6. CASE AcceptConnect
  <2>0. a \in Instances /\ a # Nobody /\ serve[a].pc = "none" /\ pipe[a].server
    <3>1. a \in Instances /\ a # Nobody /\ serve[a].pc = "none"
      BY <1>0, <1>6, NamesAssumption DEF AcceptConnect, Wired, Acceptors
    <3> QED BY <1>0, <3>1 DEF HandlesOwned
  <2>1. /\ accept'.inst = Nobody
        /\ \A i \in Instances : i # a => pipe'[i] = pipe[i] /\ serve'[i] = serve[i]
    <3>1. \E pc : accept' = [pc |-> pc, inst |-> Nobody]
      BY <1>6 DEF AcceptConnect
    <3>2. pipe' = pipe \/ pipe' = Shut(pipe, a)
      BY <1>6 DEF AcceptConnect
    <3>3. serve' = serve \/ serve' = [serve EXCEPT ![a] = Thread("start")]
      BY <1>6 DEF AcceptConnect
    <3> QED BY <1>0, <2>0, <3>1, <3>2, <3>3 DEF Shut
  <2>2. ASSUME NEW d \in Clients, fetch[d].inst # a
        PROVE  LinkOf(d)' = LinkOf(d) /\ WhereOf(d)' = WhereOf(d) /\ KindOf(d)' = KindOf(d)
    <3>1. fetch[d].inst \in Instances => accept'.inst # fetch[d].inst
      BY <2>1, NamesAssumption
    <3> QED BY <1>1, <1>2, <2>1, <2>2, <3>1, Unmoved
  <2>3. CASE \A d \in Clients : fetch[d].inst # a
    BY <1>3, <2>2, <2>3, NothingMoves
  <2>4. ASSUME NEW c \in Clients, fetch[c].inst = a
        PROVE  [Connections!LinkNext]_(Connections!linkVars)
    <3>1. /\ fetch[c].pc \in {"send", "header"} /\ pipe[a].down = <<>>
          /\ pipe[a].client = c /\ pipe[a].client # Nobody
      BY <1>0, <2>0, <2>4, NamesAssumption DEF Connected, Quiet, Wired
    <3>2. \A d \in Clients : d # c => fetch[d].inst # a
      BY <1>0, <2>0, <2>4, Apart
    <3>3. WhereOf(c) = "connect" /\ KindOf(c) = 0 /\ LinkOf(c) = "none"
      <4>1. WhereOf(c) = "connect"
        BY <2>4, <3>1, WhereIs DEF Resting
      <4> QED BY <2>4, <4>1 DEF KindOf, LinkOf
    <3>4. pipe'[a].down = <<>> /\ serve'[a].pc # "write"
      <4>1. pipe'[a].down = <<>>
        BY <1>0, <1>6, <2>0, <3>1 DEF AcceptConnect, Shut, Pipes
      <4>2. serve'[a] = serve[a] \/ serve'[a] = Thread("start")
        BY <1>0, <1>6, <2>0 DEF AcceptConnect
      <4> QED BY <2>0, <4>1, <4>2, ThreadFields
    <3>5. WhereOf(c)' = "sent" /\ KindOf(c)' = 0
      <4>1. WhereOf(c)' = "sent"
        BY <1>1, <2>0, <2>1, <2>4, <3>1, <3>4, WhereIsNext, NamesAssumption DEF Resting
      <4> QED BY <4>1 DEF KindOf
    <3>6. LinkOf(c)' = IF pipe'[a].server THEN "live" ELSE "dead"
      BY <1>1, <2>0, <2>1, <2>4 DEF LinkOf
    <3>7. /\ Links' = [Links EXCEPT ![c] = LinkOf(c)']
          /\ Reqs' = [Reqs EXCEPT ![c] = [at |-> WhereOf(c)', kind |-> KindOf(c)']]
          /\ Reqs[c].at = "connect"
      BY <2>2, <3>2, <3>3, OneMoves
    <3>8. CASE running
      <4>1. pipe' = pipe
        BY <1>6, <3>1, <3>8 DEF AcceptConnect
      <4>2. LinkOf(c)' = "live"
        BY <2>0, <3>6, <4>1
      <4>3. Connections!Connect(c)
        BY <1>1, <3>5, <3>7, <3>8, <4>2 DEF Connections!Connect, Connections!At, Links, Reqs
      <4> QED BY <4>3 DEF Connections!LinkNext
    <3>9. CASE ~running
      <4>1. pipe' = Shut(pipe, a)
        BY <1>6, <3>9 DEF AcceptConnect
      <4>2. LinkOf(c)' = "dead"
        BY <1>0, <2>0, <3>6, <4>1 DEF Shut, Pipes
      <4>3. Connections!Refuse(c)
        BY <1>1, <3>5, <3>7, <3>9, <4>2 DEF Connections!Refuse, Connections!At, Links, Reqs
      <4> QED BY <4>3 DEF Connections!LinkNext
    <3> QED BY <3>8, <3>9
  <2> QED BY <2>3, <2>4
<1> QED BY <1>4, <1>5, <1>6 DEF Accept

\* A serving thread: the request is answered when the payload is copied.
LEMMA LinkServe ==
  ASSUME IInv, Attended, NEW i \in Instances, Serve(i)
  PROVE  [Connections!LinkNext]_(Connections!linkVars)
<1>0. /\ TypeOK /\ Wired /\ Locked /\ HandlesOwned
      /\ pipe \in [Instances -> Pipes] /\ serve \in [Instances -> Threads]
  BY DEF IInv, TypeOK
<1>1. UNCHANGED <<fetch, accept, running, payload>>
  BY DEF Serve, ServeStart, ServeRead, ServeReadFails, ServeCopyHeader,
     ServeCopyPayload, ServeWrite, ServeWriteFails, ServeClose, ServeLeave, broker
<1>2. ASSUME NEW c \in Clients, fetch[c].inst # i
      PROVE  LinkOf(c)' = LinkOf(c) /\ WhereOf(c)' = WhereOf(c) /\ KindOf(c)' = KindOf(c)
  <2>1. Answer(c)' = Answer(c)
    BY <1>2, ServeElsewhere
  <2>2. \A j \in Instances : j # i => pipe'[j] = pipe[j] /\ serve'[j] = serve[j]
    BY <1>0 DEF Serve, ServeStart, ServeRead, ServeReadFails, ServeCopyHeader,
     ServeCopyPayload, ServeWrite, ServeWriteFails, ServeClose, ServeLeave, Shut, broker
  <2> QED BY <1>1, <1>2, <2>1, <2>2, Unmoved
<1>3. ASSUME Links' = Links, Reqs' = Reqs
      PROVE  [Connections!LinkNext]_(Connections!linkVars)
  BY <1>1, <1>3 DEF Connections!linkVars, Links, Reqs
<1>4. CASE \A c \in Clients : fetch[c].inst # i
  BY <1>2, <1>3, <1>4, NothingMoves
<1>5. ASSUME NEW c \in Clients, fetch[c].inst = i
      PROVE  [Connections!LinkNext]_(Connections!linkVars)
  <2>0. /\ pipe[i].client = c /\ pipe[i].client # Nobody /\ Exchange(c)
        /\ \A d \in Clients : d # c => fetch[d].inst # i
    <3>1. i # Nobody
      BY NamesAssumption
    <3>2. pipe[i].client = c /\ Exchange(c) /\ c # Nobody
      BY <1>0, <1>5, <3>1, NamesAssumption DEF Wired, IInv
    <3>3. \A d \in Clients : d # c => fetch[d].inst # i
      BY <1>0, <1>5, <3>1, Apart
    <3> QED BY <3>2, <3>3
  <2>1. CASE ~ServeCopyPayload(i)
    <3>1. Answer(c)' = Answer(c)
      BY <2>1, ServeKeeps
    <3>2. /\ pipe'[i].server = pipe[i].server
          /\ (pipe'[i].down # <<>> \/ serve'[i].pc = "write")
               <=> (pipe[i].down # <<>> \/ serve[i].pc = "write")
      <4>1. CASE ServeStart(i) \/ ServeRead(i) \/ ServeLeave(i) \/ ServeCopyHeader(i)
        <5>1. pipe'[i].down = pipe[i].down /\ pipe'[i].server = pipe[i].server
          BY <1>0, <4>1 DEF ServeStart, ServeRead, ServeLeave, ServeCopyHeader, Pipes
        <5>2. serve[i].pc # "write"
          BY <4>1 DEF ServeStart, ServeRead, ServeLeave, ServeCopyHeader
        <5>3. serve'[i].pc # "write"
          <6>1. CASE ServeCopyHeader(i)
            BY <1>0, <6>1 DEF ServeCopyHeader, Threads
          <6>2. CASE ~ServeCopyHeader(i)
            BY <1>0, <4>1, <6>2, ThreadFields DEF ServeStart, ServeRead, ServeLeave
          <6> QED BY <6>1, <6>2
        <5> QED BY <5>1, <5>2, <5>3
      <4>2. CASE ServeReadFails(i) \/ ServeWriteFails(i)
        BY <2>0, <4>2 DEF ServeReadFails, ServeWriteFails
      <4>3. CASE ServeClose(i)
        BY <2>0, <4>3 DEF ServeClose, Attended
      <4>4. CASE ServeWrite(i)
        <5> DEFINE s == serve[i]
                   d == pipe[i].down
                   unit == [part |-> s.next,
                            frame |-> IF s.next = 0 THEN s.hdr ELSE s.data,
                            len |-> IF s.next = 0 THEN Size(s.data) ELSE 0]
        <5>1. s.pc = "write" /\ s \in Threads /\ d \in Seq(Units)
          BY <1>0, <4>4 DEF ServeWrite, Pipes
        <5>2. pipe'[i].down = Append(d, unit) /\ pipe'[i].server = pipe[i].server
          BY <1>0, <4>4 DEF ServeWrite, Pipes
        <5>3. unit \in Units
          BY <1>0, <5>1, PartsAssumption, BoundsAssumption DEF Units, Threads, Size
        <5> HIDE DEF unit, d
        <5>4. Append(d, unit) # <<>>
          BY <5>1, <5>3, Appended
        <5> QED BY <5>1, <5>2, <5>4
      <4> QED BY <2>1, <4>1, <4>2, <4>3, <4>4 DEF Serve
    <3>3. LinkOf(c)' = LinkOf(c) /\ WhereOf(c)' = WhereOf(c) /\ KindOf(c)' = KindOf(c)
      BY <1>1, <1>5, <3>1, <3>2, Unmoved
    <3> QED BY <1>2, <1>3, <2>0, <3>3, NothingMoves
  <2>2. CASE ServeCopyPayload(i)
    <3>1. /\ serve[i].pc = "copy" /\ serve[i].hdr = payload /\ pipe' = pipe
          /\ serve'[i].pc = "write" /\ serve'[i].hdr = payload
      <4>1. serve[i].pc = "copy" /\ pipe' = pipe
        BY <2>2 DEF ServeCopyPayload
      <4>2. serve[i].hdr = payload
        BY <1>0, <4>1, NamesAssumption DEF Locked
      <4>3. serve'[i].pc = "write" /\ serve'[i].hdr = serve[i].hdr
        BY <1>0, <2>2 DEF ServeCopyPayload, Threads
      <4> QED BY <4>1, <4>2, <4>3
    <3>2. fetch[c].pc = "header" /\ pipe[i].down = <<>>
      BY <1>5, <2>0, <3>1 DEF Exchange
    <3>3. i # accept.inst /\ i # Nobody /\ pipe[i].server
      BY <1>0, <3>1, NamesAssumption DEF Wired, HandlesOwned
    <3>4. LinkOf(c) = "live" /\ LinkOf(c)' = "live"
      BY <1>1, <1>5, <3>1, <3>3 DEF LinkOf
    <3>5. WhereOf(c) = "sent" /\ WhereOf(c)' = "back"
      BY <1>1, <1>5, <3>1, <3>2, <3>3, WhereIs, WhereIsNext
    <3>6. KindOf(c)' = payload
      BY <1>1, <1>5, <3>1, <3>2, <3>5, AnswerIsNext DEF KindOf
    <3>7. /\ Links' = Links /\ Links[c] = "live" /\ Reqs[c].at = "sent"
          /\ Reqs' = [Reqs EXCEPT ![c] = [at |-> WhereOf(c)', kind |-> KindOf(c)']]
      BY <1>2, <2>0, <3>4, <3>5, OneMoves
    <3>8. Connections!Answer(c)
      BY <1>1, <3>5, <3>6, <3>7 DEF Connections!Answer, Links, Reqs
    <3> QED BY <3>8 DEF Connections!LinkNext
  <2> QED BY <2>1, <2>2
<1> QED BY <1>4, <1>5

\* The other streams, over a step of client c.
LEMMA OthersStay ==
  ASSUME IInv, NEW c \in Clients, BeginFetch(c) \/ Fetch(c) \/ Disconnect(c),
         NEW d \in Clients, d # c
  PROVE  LinkOf(d)' = LinkOf(d) /\ WhereOf(d)' = WhereOf(d) /\ KindOf(d)' = KindOf(d)
<1>0. TypeOK /\ Wired
  BY DEF IInv
<1>1. fetch'[d] = fetch[d] /\ serve' = serve /\ accept' = accept /\ Answer(d)' = Answer(d)
  BY ClientFrame, OtherAnswers
<1>2. ASSUME fetch[d].inst \in Instances
      PROVE  pipe'[fetch[d].inst] = pipe[fetch[d].inst]
  <2> DEFINE j == fetch[d].inst
  <2>1. j # fetch[c].inst /\ pipe[j].used
    BY <1>0, <1>2, Apart, NamesAssumption DEF Wired
  <2> QED BY <1>2, <2>1, ClientEffect
<1> QED BY <1>1, <1>2, Unmoved

\* A client, by what its step does to its call and to its instance.
LEMMA LinkFetch ==
  ASSUME IInv, Quiet, Connected, NEW c \in Clients, BeginFetch(c) \/ Fetch(c) \/ Disconnect(c)
  PROVE  [Connections!LinkNext]_(Connections!linkVars)
<1> DEFINE i == fetch[c].inst
           a == accept.inst
<1>0. /\ TypeOK /\ Wired /\ HandlesOwned /\ Received(c) /\ (i # Nobody => Exchange(c))
      /\ fetch \in [Clients -> Calls] /\ pipe \in [Instances -> Pipes]
  BY DEF IInv, TypeOK
<1>1. UNCHANGED <<running, payload, serve, accept>>
  BY DEF BeginFetch, Fetch, Connect, ConnectFails, WriteRequest, WriteFails,
     ReadHeader, ReadPayload, ReadFails, Disconnect, broker
<1>2. /\ Links' = [Links EXCEPT ![c] = LinkOf(c)']
      /\ Reqs' = [Reqs EXCEPT ![c] = [at |-> WhereOf(c)', kind |-> KindOf(c)']]
      /\ Links[c] = LinkOf(c)
      /\ Reqs[c].at = WhereOf(c) /\ Reqs[c].kind = KindOf(c)
      /\ LinkOf(c)' = LinkOf(c) => Links' = Links
      /\ WhereOf(c)' = WhereOf(c) /\ KindOf(c)' = KindOf(c) => Reqs' = Reqs
  BY OthersStay, OneMoves
<1>3. i \in Instances \cup {Nobody} /\ (fetch[c].pc \in {"send", "header", "body"} => i \in Instances)
  BY <1>0 DEF Wired, Calls
<1>4. i \in Instances /\ i = a => fetch[c].pc \in {"send", "header"} /\ pipe[i].down = <<>>
  BY NamesAssumption DEF Connected, Quiet
<1>5. ASSUME LinkOf(c)' = LinkOf(c), WhereOf(c)' = WhereOf(c), KindOf(c)' = KindOf(c)
      PROVE  [Connections!LinkNext]_(Connections!linkVars)
  BY <1>1, <1>2, <1>5 DEF Connections!linkVars, Links, Reqs
<1>6. ASSUME NEW pc \in {"idle", "failed"}, fetch'[c] = Call(pc, Nobody)
      PROVE  LinkOf(c)' = "none" /\ WhereOf(c)' = pc /\ KindOf(c)' = 0
  <2>1. fetch'[c].pc = pc /\ fetch'[c].inst = Nobody
    BY <1>6, CallFields
  <2>2. WhereOf(c)' = pc
    BY <2>1, WhereIsNext DEF Resting
  <2> QED BY <2>1, <2>2 DEF LinkOf, KindOf
<1>7. ASSUME fetch'[c] = Call("failed", Nobody),
             \/ WhereOf(c) = "connect"
             \/ WhereOf(c) \in {"sent", "back"} /\ LinkOf(c) = "dead"
             \/ WhereOf(c) = "back" /\ KindOf(c) = 0
      PROVE  [Connections!LinkNext]_(Connections!linkVars)
  <2>1. Links' = [Links EXCEPT ![c] = "none"]
    BY <1>2, <1>6, <1>7
  <2>2. Reqs' = [Reqs EXCEPT ![c] = [at |-> "failed", kind |-> 0]]
    BY <1>2, <1>6, <1>7
  <2>3. Connections!Fail(c)
    BY <1>1, <1>2, <1>7, <2>1, <2>2 DEF Connections!Fail, Connections!At, Links, Reqs
  <2> QED BY <2>3 DEF Connections!LinkNext
<1>8. CASE BeginFetch(c)
  <2>1. fetch'[c] = Call(IF i = Nobody THEN "connect" ELSE "send", i) /\ fetch[c].pc \in Resting
    BY <1>0, <1>8 DEF BeginFetch
  <2>2. /\ fetch'[c].pc = IF i = Nobody THEN "connect" ELSE "send"
        /\ fetch'[c].inst = i
    BY <2>1, CallFields
  <2>3. pipe' = pipe /\ (i \in Instances => i # a)
    BY <1>4, <1>8, <2>1 DEF BeginFetch, Resting
  <2>4. LinkOf(c)' = LinkOf(c) /\ WhereOf(c) = fetch[c].pc
    BY <1>1, <2>1, <2>2, <2>3, WhereIs DEF LinkOf
  <2>5. WhereOf(c)' = IF LinkOf(c) = "none" THEN "connect" ELSE "sent"
    <3>1. CASE i = Nobody
      <4>1. WhereOf(c)' = "connect" /\ LinkOf(c) = "none"
        BY <2>2, <3>1, WhereIsNext DEF Resting, LinkOf
      <4> QED BY <4>1
    <3>2. CASE i \in Instances
      <4>1. i # Nobody /\ i # a
        BY <2>3, <3>2, NamesAssumption
      <4>2. WhereOf(c)' = "sent"
        BY <1>1, <2>2, <4>1, WhereIsNext DEF Resting
      <4>3. LinkOf(c) # "none"
        BY <4>1 DEF LinkOf
      <4> QED BY <4>2, <4>3
    <3> QED BY <1>3, <3>1, <3>2
  <2>6. KindOf(c)' = 0
    BY <2>5 DEF KindOf
  <2>7. Reqs' = [Reqs EXCEPT ![c] =
                   [at |-> IF Links[c] = "none" THEN "connect" ELSE "sent", kind |-> 0]]
    BY <1>2, <2>5, <2>6
  <2>8. Connections!Request(c)
    BY <1>1, <1>2, <2>1, <2>4, <2>7
       DEF Connections!Request, Connections!At, Connections!Resting, Links, Reqs, Resting
  <2> QED BY <2>8 DEF Connections!LinkNext
<1>9. CASE ConnectFails(c)
  <2>1. fetch'[c] = Call("failed", Nobody) /\ fetch[c].pc = "connect"
    BY <1>0, <1>9 DEF ConnectFails
  <2>2. i = Nobody
    BY <1>0, <2>1 DEF Wired
  <2>3. WhereOf(c) = "connect"
    BY <2>1, <2>2, WhereIs DEF Resting
  <2> QED BY <1>7, <2>1, <2>3
<1>10. CASE Connect(c)
  <2>1. PICK j \in Instances : /\ Listening(j) /\ fetch' = [fetch EXCEPT ![c] = Call("send", j)]
    BY <1>10 DEF Connect
  <2>2. fetch'[c].pc = "send" /\ fetch'[c].inst = j /\ fetch[c].pc = "connect"
    BY <1>0, <1>10, <2>1, CallFields DEF Connect
  <2>3. j = a /\ i = Nobody
    BY <1>0, <2>1, <2>2 DEF Listening, Wired, HandlesOwned
  <2>4. WhereOf(c) = "connect" /\ WhereOf(c)' = "connect"
    BY <1>1, <2>2, <2>3, WhereIs, WhereIsNext DEF Resting
  <2>5. LinkOf(c) = "none" /\ LinkOf(c)' = "none"
    BY <1>1, <2>2, <2>3 DEF LinkOf
  <2> QED BY <1>5, <2>4, <2>5 DEF KindOf
<1>11. CASE WriteRequest(c)
  <2>1. fetch'[c] = Call("header", i)
    BY <1>0, <1>11 DEF WriteRequest
  <2>2. fetch'[c].pc = "header" /\ fetch'[c].inst = i /\ fetch[c].pc = "send"
    BY <1>11, <2>1, CallFields DEF WriteRequest
  <2>3. i \in Instances /\ i # Nobody
    BY <1>3, <2>2, NamesAssumption
  <2>4. pipe[i].down = <<>> /\ serve[i].pc # "write"
    BY <1>0, <2>2, <2>3 DEF Exchange
  <2>5. pipe'[i].down = <<>> /\ pipe'[i].server = pipe[i].server
    BY <1>0, <1>11, <2>3, <2>4 DEF WriteRequest, Pipes
  <2>6. LinkOf(c)' = LinkOf(c)
    BY <1>1, <2>2, <2>5 DEF LinkOf
  <2>7. WhereOf(c) = IF i = a THEN "connect" ELSE "sent"
    BY <2>2, <2>3, WhereIs DEF Resting
  <2>8. WhereOf(c)' = IF i = a THEN "connect" ELSE "sent"
    BY <1>1, <2>2, <2>3, <2>4, <2>5, WhereIsNext DEF Resting
  <2> QED BY <1>5, <2>6, <2>7, <2>8 DEF KindOf
<1>12. CASE WriteFails(c) \/ ReadFails(c)
  <2>1. /\ fetch[c].pc \in {"send", "header", "body"} /\ ~pipe[i].server
        /\ fetch'[c] = Call("failed", Nobody)
    BY <1>0, <1>12 DEF WriteFails, ReadFails, Drop
  <2>2. i \in Instances /\ i # Nobody /\ i # a
    BY <1>0, <1>3, <2>1, NamesAssumption DEF HandlesOwned
  <2>3. LinkOf(c) = "dead"
    BY <2>1, <2>2 DEF LinkOf
  <2>4. WhereOf(c) \in {"sent", "back"}
    BY <2>1, <2>2, WhereIs DEF Resting
  <2> QED BY <1>7, <2>1, <2>3, <2>4
<1>13. CASE Disconnect(c)
  <2>1. fetch'[c] = Call("idle", Nobody)
    BY <1>0, <1>13 DEF Disconnect
  <2>2. LinkOf(c)' = "none" /\ WhereOf(c)' = "idle" /\ KindOf(c)' = 0
    BY <1>6, <2>1
  <2>3. Connections!Close(c)
    BY <1>1, <1>2, <2>2 DEF Connections!Close, Connections!At, Links, Reqs
  <2> QED BY <2>3 DEF Connections!LinkNext
<1>14. CASE ReadHeader(c)
  <2> DEFINE u == Head(pipe[i].down)
  <2>1. fetch[c].pc = "header" /\ pipe[i].down # <<>> /\ i \in Instances /\ i # Nobody
    BY <1>3, <1>14, NamesAssumption DEF ReadHeader
  <2>2. i # a
    BY <1>4, <2>1
  <2>3. WhereOf(c) = "back" /\ KindOf(c) = pipe[i].down[1].frame
    <3>1. WhereOf(c) = "back"
      BY <2>1, <2>2, WhereIs
    <3> QED BY <2>1, <3>1, AnswerIs DEF KindOf
  <2>4. u = pipe[i].down[1] /\ u.part = 0
    <3> DEFINE d == pipe[i].down
    <3>1. d \in Seq(Units) /\ OneResponse(c, d)
      BY <1>0, <2>1, ToRead
    <3>2. Head(d) = d[1] /\ 1 \in 1 .. Len(d)
      BY <2>1, <3>1, RestOfResponse
    <3>3. Position(c) = 0
      BY <2>1 DEF Position
    <3>4. d[1].part = 0
      BY <3>1, <3>2, <3>3 DEF OneResponse
    <3> QED BY <3>2, <3>4
  <2>5. CASE u.frame # 0
    <3>1. u.len = Parts
      BY <1>0, <2>1, <2>4, <2>5, HeaderRead
    <3>2. fetch'[c] = [Call("body", i) EXCEPT !.hdr = u.frame, !.len = u.len]
      BY <1>0, <1>14, <2>4, <2>5, <3>1, PartsAssumption DEF ReadHeader
    <3>3. fetch'[c].pc = "body" /\ fetch'[c].hdr = u.frame /\ fetch'[c].inst = i
      BY <3>2 DEF Call
    <3>4. pipe'[i].server = pipe[i].server
      BY <1>0, <1>14, <2>1, <2>4, <2>5 DEF ReadHeader, Pipes
    <3>5. LinkOf(c)' = LinkOf(c)
      BY <1>1, <3>3, <3>4 DEF LinkOf
    <3>6. WhereOf(c)' = "back"
      BY <1>1, <2>1, <2>2, <3>3, WhereIsNext
    <3>7. KindOf(c)' = u.frame
      BY <3>3, <3>6, AnswerIsNext DEF KindOf
    <3> QED BY <1>5, <2>3, <2>4, <3>5, <3>6, <3>7
  <2>6. CASE u.frame = 0
    <3>1. fetch'[c] = Call("failed", Nobody)
      BY <1>0, <1>14, <2>6 DEF ReadHeader, Drop
    <3> QED BY <1>7, <2>3, <2>4, <2>6, <3>1
  <2> QED BY <2>5, <2>6
<1>15. CASE ReadPayload(c)
  <2> DEFINE u == Head(pipe[i].down)
             pc == IF Len(fetch[c].buf) + 1 >= fetch[c].len THEN "ok" ELSE "body"
  <2>1. fetch[c].pc = "body" /\ pipe[i].down # <<>> /\ i \in Instances /\ i # Nobody
    BY <1>3, <1>15, NamesAssumption DEF ReadPayload
  <2>2. i # a
    BY <1>4, <2>1
  <2>3. fetch'[c] = [fetch[c] EXCEPT !.buf = Append(@, u), !.pc = pc]
    BY <1>0, <1>15 DEF ReadPayload
  <2>4. fetch'[c].pc = pc /\ fetch'[c].hdr = fetch[c].hdr /\ fetch'[c].inst = i
    <3>1. fetch[c] \in Calls
      BY <1>0
    <3> HIDE DEF u, pc
    <3> QED BY <2>3, <3>1 DEF Calls
  <2>5. pipe'[i].server = pipe[i].server
    BY <1>0, <1>15, <2>1 DEF ReadPayload, Pipes
  <2>6. LinkOf(c)' = LinkOf(c)
    BY <1>1, <2>4, <2>5 DEF LinkOf
  <2>7. WhereOf(c) = "back" /\ KindOf(c) = fetch[c].hdr /\ fetch[c].hdr # 0
    <3>1. WhereOf(c) = "back"
      BY <2>1, <2>2, WhereIs
    <3>2. KindOf(c) = fetch[c].hdr
      BY <2>1, <3>1, AnswerIs DEF KindOf
    <3> QED BY <1>0, <2>1, <3>1, <3>2 DEF Received
  <2> HIDE DEF u
  <2>8. CASE pc = "body"
    <3>1. WhereOf(c)' = "back"
      BY <1>1, <2>1, <2>2, <2>4, <2>8, WhereIsNext
    <3>2. KindOf(c)' = fetch[c].hdr
      BY <2>4, <2>8, <3>1, AnswerIsNext DEF KindOf
    <3> QED BY <1>5, <2>6, <2>7, <3>1, <3>2
  <2>9. CASE pc = "ok"
    <3>1. WhereOf(c)' = "ok"
      BY <2>4, <2>9, WhereIsNext DEF Resting
    <3>2. KindOf(c)' = KindOf(c)
      BY <2>4, <2>7, <3>1 DEF KindOf
    <3>3. Reqs' = [Reqs EXCEPT ![c].at = "ok"]
      BY <3>1, <3>2, OthersStay DEF Reqs
    <3>4. Connections!Return(c)
      BY <1>1, <1>2, <2>6, <2>7, <3>3 DEF Connections!Return, Links, Reqs
    <3> QED BY <3>4 DEF Connections!LinkNext
  <2> QED BY <2>8, <2>9
<1> QED BY <1>8, <1>9, <1>10, <1>11, <1>12, <1>13, <1>14, <1>15 DEF Fetch

LEMMA LinkStep ==
  ASSUME IInv, Quiet, Attended, Connected, [Next]_vars
  PROVE  [Connections!LinkNext]_(Connections!linkVars)
<1>1. CASE UNCHANGED vars
  <2>1. UNCHANGED <<running, payload, fetch, pipe, serve, accept>>
    BY <1>1 DEF vars, broker
  <2>2. \A c \in Clients : Answer(c)' = Answer(c)
    BY <2>1, AnswersKept
  <2>3. Links' = Links /\ Reqs' = Reqs
    BY <2>1, <2>2, Unmoved, NothingMoves
  <2> QED BY <2>1, <2>3 DEF Connections!linkVars, Links, Reqs
<1> QED BY <1>1, LinkMain, LinkAccept, LinkServe, LinkFetch DEF Next

-----------------------------------------------------------------------------
(* The theorems.                                                           *)

LEMMA OrderInit == Init => Ordered
<1> SUFFICES ASSUME Init PROVE Ordered
  OBVIOUS
<1>1. \A c \in Clients : fetch[c] = Call("idle", Nobody)
  BY DEF Init
<1>2. \A c \in Clients : fetch[c].pc = "idle"
  BY <1>1, CallFields
<1>3. \A c \in Clients : Answer(c) = 0
  BY <1>2, AnswerIs
<1>4. \A i \in Instances : serve[i].pc = "none"
  <2>1. \A i \in Instances : serve[i] = Thread("none")
    BY DEF Init
  <2> QED BY <2>1, ThreadFields
<1>5. Counted = {}
  BY <1>4 DEF Counted
<1>6. IsFiniteSet(Counted) /\ ClientCountExact
  BY <1>5, FS_EmptySet DEF ClientCountExact, Init
<1>7. Newest /\ InTime /\ Fresh /\ Quiet
  BY <1>2, <1>3, <1>6, NamesAssumption DEF Init, Newest, InTime, Fresh, Quiet
<1>8. Attended
  BY <1>2, <1>4 DEF Attended
<1>9. Connected
  BY NamesAssumption DEF Init, Connected
<1> QED BY <1>7, <1>8, <1>9 DEF Ordered

LEMMA OrderStep == IInv /\ Ordered /\ [Next]_vars => Ordered'
<1> SUFFICES ASSUME IInv, Ordered, [Next]_vars PROVE Ordered'
  OBVIOUS
<1>1. Newest' /\ InTime' /\ Fresh'
  BY NewestStep, InTimeStep DEF Ordered
<1>2. Quiet'
  BY NothingSentStep, JoinedStep, CountingStep DEF Ordered, Quiet, Counting
<1>3. Attended'
  BY AttendedStep DEF Ordered
<1>4. Connected'
  BY ConnectedStep DEF Ordered
<1> QED BY <1>1, <1>2, <1>3, <1>4 DEF Ordered

\* On top of IInv, the order of the frames and the count of the clients hold
\* between any two steps (ipc.h:129-213, ipc.h:95-124).
THEOREM OrderInvariant == Spec => []Ordered
  BY OrderInit, OrderStep, Invariant, PTL DEF Spec

\* A Fetch never returns a frame older than the newest that was complete when
\* it was called (ipc.h:95-109, ipc.h:183-199), over crashes and relaunches.
THEOREM FetchesAreFresh == Spec => []Fresh
<1>1. Ordered => Fresh
  BY DEF Ordered
<1> QED BY <1>1, OrderInvariant, PTL

\* _clients (ipc.h:184, ipc.h:203) counts the serving threads exactly.
THEOREM CountIsExact == Spec => []ClientCountExact
<1>1. Ordered => ClientCountExact
  BY DEF Ordered, Quiet
<1> QED BY <1>1, OrderInvariant, PTL

\* When Stop (ipc.h:140-147) has returned no client can connect any more.
THEOREM StoppedIsDeaf == Spec => []StoppedMeansDeaf
<1>1. IInv /\ Ordered => StoppedMeansDeaf
  <2> SUFFICES ASSUME IInv, Ordered, proc = "stopped"
               PROVE  accept.pc = "off" /\ \A i \in Instances : ~Listening(i)
    BY DEF StoppedMeansDeaf
  <2>1. accept.pc = "off"
    BY DEF Ordered, Quiet
  <2>2. accept.inst = Nobody
    BY <2>1 DEF IInv, Wired
  <2>3. ASSUME NEW i \in Instances, Listening(i) PROVE FALSE
    <3>1. serve[i].pc = "none"
      BY <2>3 DEF IInv, Wired, Listening
    <3>2. accept.inst = i
      BY <2>3, <3>1 DEF IInv, HandlesOwned, Listening
    <3> QED BY <2>2, <3>2, NamesAssumption
  <2> QED BY <2>1, <2>3
<1> QED BY <1>1, Invariant, OrderInvariant, PTL

\* Whoever waits in ReadFile (ipc.h:99-105) has something to read, a thread
\* that is going to answer, or a broken pipe.
THEOREM NobodyWaitsInVain == Spec => []SomebodyAnswers
<1>1. IInv /\ Ordered => SomebodyAnswers
  <2> SUFFICES ASSUME IInv, Ordered, NEW c \in Clients, NEW i, i = fetch[c].inst,
                      fetch[c].pc \in {"header", "body"}, pipe[i].down = <<>>, pipe[i].server,
                      serve[i].pc \notin {"lock", "copy", "write"}
               PROVE  pipe[i].reqs > 0 /\ (accept.inst = i \/ serve[i].pc \in {"start", "read"})
    BY DEF SomebodyAnswers
  <2>1. i # Nobody /\ pipe[i].client = c /\ fetch[c] \in Calls
    BY DEF IInv, Wired, TypeOK
  <2>2. i \in Instances /\ pipe[i].client # Nobody
    BY <2>1, NamesAssumption DEF Calls
  <2>3. pipe[i].reqs \in Nat /\ serve[i] \in Threads
    BY <2>2 DEF IInv, TypeOK, Pipes
  <2>4. pipe[i].reqs # 0
    BY DEF Ordered, Attended, Whole
  <2>5. serve[i].pc # "flush"
    BY <2>2 DEF Ordered, Attended
  <2>6. accept.inst = i \/ serve[i].pc \notin {"none", "leave"}
    BY <2>2 DEF IInv, HandlesOwned
  <2> QED BY <2>3, <2>4, <2>5, <2>6 DEF Threads
<1> QED BY <1>1, Invariant, OrderInvariant, PTL

\* Nor is a client given a frame older than one it was given before.
THEOREM NeverStepsBack == Spec => NeverBack
<1>1. IInv /\ Ordered /\ [Next]_vars => [\A c \in Clients : shown'[c] >= shown[c]]_shown
  <2> SUFFICES ASSUME IInv, Ordered, [Next]_vars, NEW c \in Clients
               PROVE  shown'[c] >= shown[c]
    OBVIOUS
  <2>1. shown'[c] = shown[c] \/ (Answer(c) # 0 /\ shown'[c] = Answer(c))
    BY RegisterStep, RegisterMoves DEF Ordered
  <2>2. shown[c] \in Nat /\ Answer(c) \in Nat /\ (Answer(c) # 0 => shown[c] <= Answer(c))
    BY AnswerType, BoundsAssumption DEF IInv, TypeOK, Frames, Ordered, InTime
  <2> QED BY <2>1, <2>2
<1> QED BY <1>1, Invariant, OrderInvariant, PTL DEF Spec, NeverBack

\* The pipe, with its threads, its buffers and its broken connections, is a
\* register of the newest frame: every execution of FramePipe is, through the
\* refinement mapping, one of LatestFrame.
THEOREM PipeIsRegister == Spec => ImplementsRegister
<1>1. Init => Register!Init
  <2> SUFFICES ASSUME Init PROVE Register!Init
    OBVIOUS
  <2>1. \A c \in Clients : fetch[c] = Call("idle", Nobody)
    BY DEF Init
  <2>2. \A c \in Clients : fetch[c].pc = "idle"
    BY <2>1, CallFields
  <2>3. \A c \in Clients : Answer(c) = 0 /\ fetch[c].pc \in Resting
    BY <2>2, AnswerIs DEF Resting
  <2> QED BY <2>3 DEF Init, Register!Init
<1>2. IInv /\ Ordered /\ [Next]_vars => [Register!Next]_(Register!vars)
  BY RegisterStep DEF Ordered
<1> QED BY <1>1, <1>2, Invariant, OrderInvariant, PTL DEF Spec, ImplementsRegister, Register!Spec

\* The connections EndToEnd and System are built on are those the pipe gives
\* (ipc.h:69-213): every execution of FramePipe is, through the refinement
\* mapping, one of Link, with every step of a crash in it.
THEOREM PipeIsLink == Spec => ImplementsLink
<1>1. Init => Connections!LinkInit
  <2> SUFFICES ASSUME Init PROVE Connections!LinkInit
    OBVIOUS
  <2>1. \A c \in Clients : fetch[c] = Call("idle", Nobody)
    BY DEF Init
  <2>2. \A c \in Clients : fetch[c].pc = "idle" /\ fetch[c].inst = Nobody
    BY <2>1, CallFields
  <2>3. \A c \in Clients : WhereOf(c) = "idle"
    BY <2>2, WhereIs DEF Resting
  <2>4. \A c \in Clients : LinkOf(c) = "none" /\ KindOf(c) = 0
    BY <2>2, <2>3 DEF LinkOf, KindOf
  <2> QED BY <2>3, <2>4 DEF Init, Connections!LinkInit, Connections!At
<1>2. IInv /\ Ordered /\ [Next]_vars => [Connections!LinkNext]_(Connections!linkVars)
  BY LinkStep DEF Ordered
<1> QED BY <1>1, <1>2, Invariant, OrderInvariant, PTL
        DEF Spec, ImplementsLink, Connections!LinkSpec

=============================================================================
