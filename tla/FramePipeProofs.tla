--------------------------- MODULE FramePipeProofs ---------------------------
(***************************************************************************)
(* Proofs about FramePipe, for every number of clients, instances, frames, *)
(* payload units and launches.                                             *)
(***************************************************************************)
EXTENDS FramePipe, TLAPS

\* The empty pipe, and the empty buffer of a call, hold units.
LEMMA NoUnits == <<>> \in Seq(Units)
  OBVIOUS

\* The operations on the instances keep their type.
LEMMA PipeTypes ==
  ASSUME NEW p \in [Instances -> Pipes], NEW i \in Instances
  PROVE  /\ \A who \in Clients \cup {Stopper} :
              ConnectTo(p, i, who) \in [Instances -> Pipes]
         /\ HangUp(p, i) \in [Instances -> Pipes]
         /\ Shut(p, i) \in [Instances -> Pipes]
<1>1. \A who \in Clients \cup {Stopper} :
        [p[i] EXCEPT !.client = who, !.used = TRUE] \in Pipes
  BY DEF Pipes
<1>2. [p[i] EXCEPT !.client = Nobody, !.down = <<>>] \in Pipes
  BY NoUnits DEF Pipes
<1>3. [p[i] EXCEPT !.server = FALSE, !.down = <<>>] \in Pipes
  BY NoUnits DEF Pipes
<1> QED BY <1>1, <1>2, <1>3 DEF ConnectTo, HangUp, Shut

\* The initial values of a thread, an instance and a call have their type.
LEMMA NewTypes ==
  /\ \A pc \in {"none", "start", "read", "lock", "flush", "leave"} :
       Thread(pc) \in Threads
  /\ \A open \in BOOLEAN : NewPipe(open) \in Pipes
  /\ \A pc \in {"idle", "connect", "send", "header", "failed"},
        i \in Instances \cup {Nobody} : Call(pc, i) \in Calls
<1>1. 0 \in Frames /\ 0 \in 0 .. Parts
  BY PartsAssumption, BoundsAssumption DEF Frames
<1>2. \A pc \in {"none", "start", "read", "lock", "flush", "leave"} :
        Thread(pc) \in Threads
  BY <1>1 DEF Thread, Threads
<1>3. \A open \in BOOLEAN : NewPipe(open) \in Pipes
  BY NoUnits DEF NewPipe, Pipes
<1>4. \A pc \in {"idle", "connect", "send", "header", "failed"},
         i \in Instances \cup {Nobody} : Call(pc, i) \in Calls
  BY <1>1, NoUnits DEF Call, Calls
<1> QED BY <1>2, <1>3, <1>4

\* The values the accept thread is given have their type.
LEMMA AcceptorTypes ==
  \A pc \in {"off", "check", "create", "connect"}, i \in Instances \cup {Nobody} :
    [pc |-> pc, inst |-> i] \in Acceptors
  BY DEF Acceptors

\* So do assignments to one field of an instance.
LEMMA FieldTypes ==
  ASSUME NEW p \in Pipes, NEW n \in Nat, NEW d \in Seq(Units)
  PROVE  [p EXCEPT !.reqs = n] \in Pipes /\ [p EXCEPT !.down = d] \in Pipes
  BY DEF Pipes

-----------------------------------------------------------------------------
(* Type correctness, thread by thread.                                     *)

\* Types over a step of the main thread or the producer, or the process's end.
LEMMA TypeMain ==
  ASSUME IInv,
         Launch \/ PublishHeader \/ PublishPayload \/ Stop \/ Exit \/ Crash
  PROVE  TypeOK'
<1>0. TypeOK
  BY DEF IInv
<1>1. CASE Launch
  <2>1. accept' \in Acceptors
    BY <1>1, AcceptorTypes DEF Launch
  <2> QED BY <1>0, <1>1, <2>1, BoundsAssumption DEF Launch, TypeOK
<1>2. CASE PublishHeader
  BY <1>0, <1>2, BoundsAssumption DEF PublishHeader, TypeOK, Frames
<1>3. CASE PublishPayload
  BY <1>0, <1>3 DEF PublishPayload, TypeOK
<1>4. CASE StopBegin
  BY <1>0, <1>4 DEF StopBegin, TypeOK
<1>5. CASE StopPoke
  <2>1. pipe' \in [Instances -> Pipes]
    BY <1>0, <1>5, PipeTypes DEF StopPoke, TypeOK
  <2> QED BY <1>0, <1>5, <2>1 DEF StopPoke, TypeOK, broker
<1>6. CASE StopUnpoke
  <2>1. \A i \in Instances : [pipe[i] EXCEPT !.client = Nobody] \in Pipes
    BY <1>0 DEF TypeOK, Pipes
  <2>2. pipe' \in [Instances -> Pipes]
    BY <1>0, <1>6, <2>1 DEF StopUnpoke, TypeOK
  <2> QED BY <1>0, <1>6, <2>2 DEF StopUnpoke, TypeOK, broker
<1>7. CASE StopJoin
  BY <1>0, <1>7 DEF StopJoin, TypeOK, broker
<1>8. CASE Exit \/ Crash
  <2>0. EndProcess
    BY <1>8 DEF Exit, Crash
  <2>1. \A i \in Instances :
          [pipe[i] EXCEPT !.server = FALSE,
             !.client = IF pipe[i].client = Stopper THEN Nobody
                                                    ELSE pipe[i].client] \in Pipes
    BY <1>0 DEF TypeOK, Pipes
  <2>2. pipe' \in [Instances -> Pipes]
    BY <2>0, <2>1 DEF EndProcess
  <2>3. serve' \in [Instances -> Threads]
    BY <2>0, NewTypes DEF EndProcess
  <2>4. 0 \in Frames
    BY BoundsAssumption DEF Frames
  <2>5. accept' \in Acceptors
    BY <2>0, AcceptorTypes DEF EndProcess
  <2>6. /\ proc' = "down" /\ running' = FALSE /\ clients' = 0 /\ mtx' = Nobody
        /\ hdr' = 0 /\ payload' = 0
        /\ UNCHANGED <<issued, launches, fetch, floor, shown>>
    BY <2>0 DEF EndProcess
  <2>7. /\ proc' \in {"down", "up", "poke", "unpoke", "join", "stopped"}
        /\ clients' \in Int
        /\ mtx' \in Instances \cup {Nobody, Producer}
    BY <2>6
  <2>10. running' \in BOOLEAN
    BY <2>6, Zenon
  <2>8. hdr' \in Frames /\ payload' \in Frames /\ issued' \in Frames
    BY <1>0, <2>4, <2>6 DEF TypeOK
  <2>9. /\ launches' \in 0 .. MaxLaunch /\ fetch' \in [Clients -> Calls]
        /\ floor' \in [Clients -> Frames] /\ shown' \in [Clients -> Frames]
    BY <1>0, <2>6 DEF TypeOK
  <2> QED BY <2>2, <2>3, <2>5, <2>7, <2>8, <2>9, <2>10 DEF TypeOK
<1> QED BY <1>1, <1>2, <1>3, <1>4, <1>5, <1>6, <1>7, <1>8 DEF Stop

\* Types over a step of AcceptLoop.
LEMMA TypeAccept ==
  ASSUME IInv, Accept
  PROVE  TypeOK'
<1>0. TypeOK /\ Wired
  BY DEF IInv
<1>1. CASE AcceptCheck
  <2>1. accept' \in Acceptors
    BY <1>0, <1>1 DEF AcceptCheck, TypeOK, Acceptors
  <2> QED BY <1>0, <1>1, <2>1 DEF AcceptCheck, TypeOK, broker
<1>2. CASE AcceptCreate
  <2>0. PICK i \in Instances : /\ pipe' = [pipe EXCEPT ![i] = NewPipe(TRUE)]
                               /\ accept' = [pc |-> "connect", inst |-> i]
    BY <1>2 DEF AcceptCreate
  <2>1. accept' \in Acceptors /\ pipe' \in [Instances -> Pipes]
    BY <1>0, <2>0, NewTypes DEF TypeOK, Acceptors
  <2> QED BY <1>0, <1>2, <2>1 DEF AcceptCreate, TypeOK, broker
<1>3. CASE AcceptCreateFails
  <2>1. accept' \in Acceptors
    BY <1>0, <1>3 DEF AcceptCreateFails, TypeOK, Acceptors
  <2> QED BY <1>0, <1>3, <2>1 DEF AcceptCreateFails, TypeOK, broker
<1>4. CASE AcceptConnect
  <2>1. accept.inst \in Instances
    BY <1>0, <1>4 DEF AcceptConnect, Wired, TypeOK, Acceptors
  <2>2. accept' \in Acceptors
    BY <1>4, AcceptorTypes DEF AcceptConnect
  <2>3. pipe' \in [Instances -> Pipes]
    BY <1>0, <1>4, <2>1, PipeTypes DEF AcceptConnect, TypeOK
  <2>4. serve' \in [Instances -> Threads]
    BY <1>0, <1>4, <2>1, NewTypes DEF AcceptConnect, TypeOK
  <2> QED BY <1>0, <1>4, <2>2, <2>3, <2>4
       DEF AcceptConnect, TypeOK, broker
<1> QED BY <1>1, <1>2, <1>3, <1>4 DEF Accept

\* Types over a step of a serving thread.
LEMMA TypeServe ==
  ASSUME IInv, NEW i \in Instances, Serve(i)
  PROVE  TypeOK'
<1>0. TypeOK /\ Locked
  BY DEF IInv
<1>1. CASE ServeStart(i)
  <2>1. serve' \in [Instances -> Threads]
    BY <1>0, <1>1, NewTypes DEF ServeStart, TypeOK
  <2> QED BY <1>0, <1>1, <2>1 DEF ServeStart, TypeOK
<1>2. CASE ServeRead(i)
  <2>0. pipe[i] \in Pipes /\ pipe[i].reqs - 1 \in Nat
    BY <1>0, <1>2 DEF ServeRead, TypeOK, Pipes
  <2>1. [pipe[i] EXCEPT !.reqs = pipe[i].reqs - 1] \in Pipes
    BY <2>0, NoUnits, FieldTypes
  <2>2. pipe' \in [Instances -> Pipes]
    BY <1>0, <1>2, <2>1 DEF ServeRead, TypeOK
  <2>3. serve' \in [Instances -> Threads]
    BY <1>0, <1>2, NewTypes DEF ServeRead, TypeOK
  <2> QED BY <1>0, <1>2, <2>2, <2>3 DEF ServeRead, TypeOK, broker
<1>3. CASE ServeReadFails(i)
  <2>1. serve' \in [Instances -> Threads]
    BY <1>0, <1>3, NewTypes DEF ServeReadFails, TypeOK
  <2> QED BY <1>0, <1>3, <2>1 DEF ServeReadFails, TypeOK, broker
<1>4. CASE ServeCopyHeader(i)
  <2>1. serve' \in [Instances -> Threads]
    BY <1>0, <1>4 DEF ServeCopyHeader, TypeOK, Threads
  <2> QED BY <1>0, <1>4, <2>1 DEF ServeCopyHeader, TypeOK
<1>5. CASE ServeCopyPayload(i)
  <2>1. serve' \in [Instances -> Threads]
    BY <1>0, <1>5 DEF ServeCopyPayload, TypeOK, Threads
  <2> QED BY <1>0, <1>5, <2>1 DEF ServeCopyPayload, TypeOK
<1>6. CASE ServeWrite(i)
  <2> DEFINE s == serve[i]
             unit == [part |-> s.next,
                      frame |-> IF s.next = 0 THEN s.hdr ELSE s.data,
                      len |-> IF s.next = 0 THEN Size(s.data) ELSE 0]
  <2>0. s \in Threads /\ Size(s.data) \in 0 .. Parts
    BY <1>0, PartsAssumption DEF TypeOK, Threads, Size
  <2>1. unit \in Units
    BY <2>0, PartsAssumption DEF Units, Threads
  <2>2. [pipe[i] EXCEPT !.down = Append(pipe[i].down, unit)] \in Pipes
    <3> HIDE DEF unit
    <3>1. pipe[i] \in Pipes /\ pipe[i].down \in Seq(Units)
      BY <1>0 DEF TypeOK, Pipes
    <3>2. Append(pipe[i].down, unit) \in Seq(Units)
      BY <2>1, <3>1
    <3> QED BY <3>1, <3>2, FieldTypes
  <2>3. pipe' \in [Instances -> Pipes]
    BY <1>0, <1>6, <2>2 DEF ServeWrite, TypeOK
  <2>4. ASSUME s.next # Size(s.data)
        PROVE  [s EXCEPT !.next = s.next + 1] \in Threads
    <3>1. s.next + 1 \in 0 .. Parts
      BY <1>0, <1>6, <2>0, <2>4, PartsAssumption DEF ServeWrite, Locked, Threads
    <3> QED BY <2>0, <3>1 DEF Threads
  <2>5. serve' \in [Instances -> Threads]
    BY <1>0, <1>6, <2>4, NewTypes DEF ServeWrite, TypeOK
  <2> QED BY <1>0, <1>6, <2>3, <2>5 DEF ServeWrite, TypeOK, broker
<1>7. CASE ServeWriteFails(i)
  <2>1. serve' \in [Instances -> Threads]
    BY <1>0, <1>7, NewTypes DEF ServeWriteFails, TypeOK
  <2> QED BY <1>0, <1>7, <2>1 DEF ServeWriteFails, TypeOK, broker
<1>8. CASE ServeClose(i)
  <2>1. serve' \in [Instances -> Threads] /\ pipe' \in [Instances -> Pipes]
    BY <1>0, <1>8, NewTypes, PipeTypes DEF ServeClose, TypeOK
  <2> QED BY <1>0, <1>8, <2>1 DEF ServeClose, TypeOK, broker
<1>9. CASE ServeLeave(i)
  <2>1. serve' \in [Instances -> Threads]
    BY <1>0, <1>9, NewTypes DEF ServeLeave, TypeOK
  <2> QED BY <1>0, <1>9, <2>1 DEF ServeLeave, TypeOK
<1> QED BY <1>1, <1>2, <1>3, <1>4, <1>5, <1>6, <1>7, <1>8, <1>9 DEF Serve

\* Types over a step of a client.
LEMMA TypeFetch ==
  ASSUME IInv, NEW c \in Clients, BeginFetch(c) \/ Fetch(c) \/ Disconnect(c)
  PROVE  TypeOK'
<1>0. TypeOK /\ Wired
  BY DEF IInv
<1>1. fetch[c] \in Calls /\ fetch[c].inst \in Instances \cup {Nobody}
  BY <1>0 DEF TypeOK, Calls
<1>2. fetch[c].pc \in {"send", "header", "body"} => fetch[c].inst \in Instances
  BY <1>0, <1>1 DEF Wired
<1>3. Parts # 0 /\ 0 \in Frames /\ 0 \in 0 .. Parts
  BY PartsAssumption, BoundsAssumption DEF Frames
<1>4. CASE BeginFetch(c)
  <2>1. fetch' \in [Clients -> Calls]
    BY <1>0, <1>1, <1>4, NewTypes DEF BeginFetch, TypeOK
  <2> QED BY <1>0, <1>4, <2>1 DEF BeginFetch, TypeOK, broker
<1>5. CASE Connect(c)
  <2>0. PICK i \in Instances : /\ pipe' = ConnectTo(pipe, i, c)
                               /\ fetch' = [fetch EXCEPT ![c] = Call("send", i)]
    BY <1>5 DEF Connect
  <2>1. fetch' \in [Clients -> Calls] /\ pipe' \in [Instances -> Pipes]
    BY <1>0, <2>0, NewTypes, PipeTypes DEF TypeOK
  <2> QED BY <1>0, <1>5, <2>1 DEF Connect, TypeOK, broker
<1>6. CASE ConnectFails(c)
  <2>1. fetch' \in [Clients -> Calls]
    BY <1>0, <1>6, NewTypes DEF ConnectFails, TypeOK
  <2> QED BY <1>0, <1>6, <2>1 DEF ConnectFails, TypeOK, broker
<1>7. CASE WriteRequest(c)
  <2> DEFINE i == fetch[c].inst
  <2>0. i \in Instances
    BY <1>2, <1>7 DEF WriteRequest
  <2>1. pipe[i] \in Pipes /\ pipe[i].reqs + 1 \in Nat
    BY <1>0, <2>0 DEF TypeOK, Pipes
  <2>2. [pipe[i] EXCEPT !.reqs = pipe[i].reqs + 1] \in Pipes
    BY <2>1, NoUnits, FieldTypes
  <2>3. pipe' \in [Instances -> Pipes]
    BY <1>0, <1>7, <2>0, <2>2 DEF WriteRequest, TypeOK
  <2>4. fetch' \in [Clients -> Calls]
    BY <1>0, <1>7, <2>0, NewTypes DEF WriteRequest, TypeOK
  <2> QED BY <1>0, <1>7, <2>3, <2>4 DEF WriteRequest, TypeOK, broker
<1>8. ASSUME fetch[c].inst \in Instances, Drop(c) \/ Disconnect(c)
      PROVE  fetch' \in [Clients -> Calls] /\ pipe' \in [Instances -> Pipes]
  <2>1. Call("failed", Nobody) \in Calls /\ Call("idle", Nobody) \in Calls
    BY NewTypes
  <2>2. HangUp(pipe, fetch[c].inst) \in [Instances -> Pipes]
    BY <1>0, <1>8, PipeTypes DEF TypeOK
  <2> QED BY <1>0, <1>8, <2>1, <2>2 DEF Drop, Disconnect, TypeOK
<1>9. CASE WriteFails(c) \/ ReadFails(c)
  <2>1. fetch' \in [Clients -> Calls] /\ pipe' \in [Instances -> Pipes]
    BY <1>2, <1>8, <1>9 DEF WriteFails, ReadFails
  <2> QED BY <1>0, <1>9, <2>1 DEF WriteFails, ReadFails, TypeOK, broker
<1>10. CASE Disconnect(c)
  <2>1. fetch' \in [Clients -> Calls] /\ pipe' \in [Instances -> Pipes]
    BY <1>1, <1>8, <1>10 DEF Disconnect
  <2> QED BY <1>0, <1>10, <2>1 DEF Disconnect, TypeOK, broker
<1>11. ASSUME fetch[c].inst \in Instances, pipe[fetch[c].inst].down # <<>>
       PROVE  /\ Head(pipe[fetch[c].inst].down) \in Units
              /\ [pipe[fetch[c].inst] EXCEPT !.down = Tail(pipe[fetch[c].inst].down)]
                   \in Pipes
  <2> DEFINE p == pipe[fetch[c].inst]
  <2>1. p \in Pipes /\ p.down \in Seq(Units)
    BY <1>0, <1>11 DEF TypeOK, Pipes
  <2>2. Head(p.down) \in Units /\ Tail(p.down) \in Seq(Units)
    BY <1>11, <2>1
  <2> HIDE DEF p
  <2>3. [p EXCEPT !.down = Tail(p.down)] \in Pipes
    BY <2>1, <2>2, FieldTypes
  <2> QED BY <2>2, <2>3 DEF p
<1>12. CASE ReadHeader(c)
  <2> DEFINE i == fetch[c].inst
             u == Head(pipe[i].down)
             pc == IF u.len = 0 THEN "ok" ELSE "body"
  <2>0. i \in Instances /\ pipe[i].down # <<>>
    BY <1>2, <1>12 DEF ReadHeader
  <2>1. u \in Units
    BY <1>11, <2>0
  <2>2. CASE u.part = 0 /\ u.frame # 0
    <3>1. pipe' = [pipe EXCEPT ![i] = [pipe[i] EXCEPT !.down = Tail(pipe[i].down)]]
      BY <1>0, <1>12, <2>2 DEF ReadHeader, TypeOK
    <3>2. pipe' \in [Instances -> Pipes]
      BY <1>0, <1>11, <2>0, <3>1 DEF TypeOK
    <3>3. [Call(pc, i) EXCEPT !.hdr = u.frame, !.len = u.len] \in Calls
      BY <1>3, <2>0, <2>1, NoUnits DEF Units, Call, Calls
    <3>4. fetch' \in [Clients -> Calls]
      BY <1>0, <1>12, <2>2, <3>3 DEF ReadHeader, TypeOK
    <3>5. u.frame \in Frames
      BY <2>1 DEF Units
    <3>6. shown' \in [Clients -> Frames]
      BY <1>0, <1>12, <2>2, <3>5 DEF ReadHeader, TypeOK
    <3> QED BY <1>0, <1>12, <3>2, <3>4, <3>6 DEF ReadHeader, TypeOK, broker
  <2>3. CASE ~(u.part = 0 /\ u.frame # 0)
    <3>1. Drop(c) /\ UNCHANGED shown
      BY <1>12, <2>3 DEF ReadHeader
    <3>2. fetch' \in [Clients -> Calls] /\ pipe' \in [Instances -> Pipes]
      BY <1>8, <2>0, <3>1
    <3> QED BY <1>0, <1>12, <3>1, <3>2 DEF ReadHeader, TypeOK, broker
  <2> QED BY <2>2, <2>3
<1>13. CASE ReadPayload(c)
  <2> DEFINE i == fetch[c].inst
             f == fetch[c]
             u == Head(pipe[i].down)
             pc == IF Len(f.buf) + 1 >= f.len THEN "ok" ELSE "body"
  <2>0. i \in Instances /\ pipe[i].down # <<>>
    BY <1>2, <1>13 DEF ReadPayload
  <2>1. u \in Units
    BY <1>11, <2>0
  <2>2. pipe' = [pipe EXCEPT ![i] = [pipe[i] EXCEPT !.down = Tail(pipe[i].down)]]
    BY <1>0, <1>13 DEF ReadPayload, TypeOK
  <2>3. pipe' \in [Instances -> Pipes]
    BY <1>0, <1>11, <2>0, <2>2 DEF TypeOK
  <2>4. f.buf \in Seq(Units) /\ Append(f.buf, u) \in Seq(Units)
    <3> HIDE DEF u
    <3> QED BY <1>1, <2>1 DEF Calls
  <2>5. [f EXCEPT !.buf = Append(f.buf, u), !.pc = pc] \in Calls
    <3> DEFINE b == Append(f.buf, u)
    <3>1. b \in Seq(Units)
      BY <2>4
    <3> HIDE DEF b
    <3>2. [f EXCEPT !.buf = b, !.pc = pc] \in Calls
      BY <1>1, <3>1 DEF Calls
    <3> QED BY <3>2 DEF b
  <2>6. fetch' = [fetch EXCEPT ![c] = [f EXCEPT !.buf = Append(f.buf, u), !.pc = pc]]
    BY <1>0, <1>13 DEF ReadPayload, TypeOK
  <2>7. fetch' \in [Clients -> Calls]
    BY <1>0, <2>5, <2>6 DEF TypeOK
  <2>8. shown' \in [Clients -> Frames]
    BY <1>0, <1>1, <1>13 DEF ReadPayload, TypeOK, Calls
  <2> QED BY <1>0, <1>13, <2>3, <2>7, <2>8 DEF ReadPayload, TypeOK, broker
<1> QED BY <1>4, <1>5, <1>6, <1>7, <1>9, <1>10, <1>12, <1>13 DEF Fetch

\* Types over every step.
LEMMA TypeStep ==
  ASSUME IInv, [Next]_vars
  PROVE  TypeOK'
<1>1. CASE UNCHANGED vars
  BY <1>1 DEF IInv, TypeOK, vars, broker
<1> QED BY <1>1, TypeMain, TypeAccept, TypeServe, TypeFetch DEF Next

\* A thread made by Thread.
LEMMA ThreadFields ==
  \A pc : Thread(pc).pc = pc /\ Thread(pc).hdr = 0 /\ Thread(pc).next = 0
  BY DEF Thread

-----------------------------------------------------------------------------
(* The mutex.                                                              *)
LEMMA LockedStep ==
  ASSUME IInv, [Next]_vars
  PROVE  Locked'
<1>0. TypeOK /\ Locked
  BY DEF IInv
<1>1. \A i \in Instances : serve[i] \in Threads
  BY <1>0 DEF TypeOK
<1>2. CASE UNCHANGED <<mtx, hdr, payload, serve>>
  BY <1>0, <1>2 DEF Locked, Size
<1>3. CASE PublishHeader
  BY <1>0, <1>3, NamesAssumption DEF PublishHeader, Locked, TypeOK, Frames, Size
<1>4. CASE PublishPayload
  BY <1>0, <1>4, NamesAssumption DEF PublishPayload, Locked, Size
<1>5. CASE Exit \/ Crash
  <2>1. /\ mtx' = Nobody /\ hdr' = 0 /\ payload' = 0
        /\ \A i \in Instances : serve'[i].pc = "none"
    <3>1. EndProcess
      BY <1>5 DEF Exit, Crash
    <3>2. serve' = [i \in Instances |-> Thread("none")]
      BY <3>1 DEF EndProcess
    <3> QED BY <3>1, <3>2, ThreadFields DEF EndProcess
  <2> QED BY <2>1, NamesAssumption DEF Locked
<1>6. CASE AcceptConnect
  <2>1. accept.inst \in Instances /\ serve[accept.inst].pc = "none"
    BY <1>6 DEF IInv, AcceptConnect, Wired, TypeOK, Acceptors
  <2>2. \A i \in Instances : \/ serve'[i] = serve[i]
                             \/ serve'[i].pc = "start" /\ serve[i].pc = "none"
    <3>1. serve' = serve \/ serve' = [serve EXCEPT ![accept.inst] = Thread("start")]
      BY <1>6 DEF AcceptConnect
    <3>2. Thread("start").pc = "start"
      BY DEF Thread
    <3> TAKE i \in Instances
    <3> QED BY <1>0, <2>1, <3>1, <3>2 DEF TypeOK
  <2>3. UNCHANGED <<mtx, hdr, payload>>
    BY <1>6 DEF AcceptConnect, broker
  <2> QED BY <1>0, <2>1, <2>2, <2>3 DEF Locked, Size
<1>7. ASSUME NEW i \in Instances, Serve(i)
      PROVE  Locked'
  <2> DEFINE others == \A j \in Instances : j # i => serve'[j] = serve[j]
  <2>1. CASE /\ others /\ UNCHANGED <<mtx, hdr, payload>>
             /\ serve[i].pc # "copy"
             /\ serve'[i].pc \notin {"copy", "write"}
             /\ serve'[i].pc = "lock" => serve'[i].next = 0
    BY <1>0, <2>1 DEF Locked, Size
  <2>2. CASE ServeStart(i) \/ ServeRead(i) \/ ServeReadFails(i)
             \/ ServeWriteFails(i) \/ ServeClose(i) \/ ServeLeave(i)
    <3>1. /\ others /\ UNCHANGED <<mtx, hdr, payload>>
          /\ serve[i].pc # "copy"
          /\ serve'[i].pc \notin {"copy", "write"}
          /\ serve'[i].pc = "lock" => serve'[i].next = 0
      BY <1>0, <2>2, ThreadFields DEF ServeStart, ServeRead, ServeReadFails, ServeWriteFails,
           ServeClose, ServeLeave, TypeOK, broker
    <3> QED BY <2>1, <3>1
  <2>3. CASE ServeCopyHeader(i)
    <3>1. /\ serve'[i].pc = "copy" /\ serve'[i].hdr = hdr /\ others
          /\ mtx = Nobody /\ mtx' = i /\ UNCHANGED <<hdr, payload>>
          /\ serve'[i].next = 0
      BY <1>0, <1>1, <2>3 DEF ServeCopyHeader, Locked, TypeOK, Threads
    <3> QED BY <1>0, <3>1, NamesAssumption DEF Locked, Size
  <2>4. CASE ServeCopyPayload(i)
    <3>1. /\ serve[i].pc = "copy" /\ mtx' = Nobody
          /\ serve'[i].pc = "write" /\ serve'[i].hdr = serve[i].hdr
          /\ serve'[i].data = payload /\ serve'[i].next = serve[i].next
          /\ others /\ UNCHANGED <<hdr, payload>>
      BY <1>0, <1>1, <2>4 DEF ServeCopyPayload, TypeOK, Threads
    <3>2. mtx = i /\ serve[i].next = 0 /\ serve[i].hdr = payload
      BY <1>0, <3>1, NamesAssumption DEF Locked
    <3> QED BY <1>0, <3>1, <3>2, PartsAssumption, NamesAssumption DEF Locked, Size
  <2>5. CASE ServeWrite(i)
    <3>1. others /\ UNCHANGED <<mtx, hdr, payload>>
      BY <1>0, <2>5 DEF ServeWrite, TypeOK, broker
    <3>2. \/ serve'[i].pc = "read"
          \/ /\ serve'[i].pc = "write" /\ serve'[i].data = serve[i].data
             /\ serve'[i].hdr = serve[i].hdr /\ serve'[i].next = serve[i].next + 1
             /\ serve[i].next # Size(serve[i].data)
      BY <1>0, <1>1, <2>5, ThreadFields DEF ServeWrite, TypeOK, Threads
    <3>3. serve[i].pc = "write"
      BY <2>5 DEF ServeWrite
    <3> QED BY <1>0, <1>1, <3>1, <3>2, <3>3, PartsAssumption DEF Locked, Size, Threads
  <2> QED BY <1>7, <2>2, <2>3, <2>4, <2>5 DEF Serve
<1>8. CASE Launch \/ Stop \/ AcceptCheck \/ AcceptCreate \/ AcceptCreateFails
  BY <1>2, <1>8 DEF Launch, Stop, StopBegin, StopPoke, StopUnpoke, StopJoin,
       AcceptCheck, AcceptCreate, AcceptCreateFails, broker
<1>9. ASSUME NEW c \in Clients, BeginFetch(c) \/ Fetch(c) \/ Disconnect(c)
      PROVE  Locked'
  BY <1>2, <1>9 DEF BeginFetch, Fetch, Connect, ConnectFails, WriteRequest,
       WriteFails, ReadHeader, ReadPayload, ReadFails, Disconnect, broker
<1>10. CASE UNCHANGED vars
  BY <1>2, <1>10 DEF vars, broker
<1> QED BY <1>3, <1>4, <1>5, <1>6, <1>7, <1>8, <1>9, <1>10 DEF Next, Accept

\* A call made by Call.
LEMMA CallFields ==
  \A pc, i : /\ Call(pc, i).pc = pc /\ Call(pc, i).inst = i
             /\ Call(pc, i).hdr = 0 /\ Call(pc, i).buf = <<>>
  BY DEF Call

-----------------------------------------------------------------------------
(* The handles.                                                            *)

\* A step of a serving thread leaves every client end alone.
LEMMA WiredServe ==
  ASSUME IInv, NEW i \in Instances, Serve(i)
  PROVE  HandlesOwned' /\ Wired'
<1>0. TypeOK /\ HandlesOwned /\ Wired
  BY DEF IInv
<1>1. UNCHANGED <<accept, fetch, proc>>
  BY DEF Serve, ServeStart, ServeRead, ServeReadFails, ServeCopyHeader,
     ServeCopyPayload, ServeWrite, ServeWriteFails, ServeClose, ServeLeave
<1>2. \A j \in Instances : j # i => serve'[j] = serve[j] /\ pipe'[j] = pipe[j]
  <2>1. CASE ServeClose(i)
    BY <1>0, <2>1 DEF ServeClose, Shut, TypeOK
  <2> QED BY <1>0, <2>1 DEF Serve, ServeStart, ServeRead, ServeReadFails,
        ServeCopyHeader, ServeCopyPayload, ServeWrite, ServeWriteFails, ServeLeave,
        TypeOK
<1>3. serve[i].pc # "none"
  BY DEF Serve, ServeStart, ServeRead, ServeReadFails, ServeCopyHeader,
     ServeCopyPayload, ServeWrite, ServeWriteFails, ServeClose, ServeLeave
<1>4. pipe[i] \in Pipes /\ serve[i] \in Threads
  BY <1>0 DEF TypeOK
<1>5. pipe'[i].client = pipe[i].client /\ pipe'[i].used = pipe[i].used
  <2>1. CASE ServeClose(i)
    BY <1>0, <2>1 DEF ServeClose, TypeOK, Shut, Pipes
  <2> QED BY <1>0, <1>4, <2>1 DEF Serve, ServeStart, ServeRead, ServeReadFails,
        ServeCopyHeader, ServeCopyPayload, ServeWrite, ServeWriteFails, ServeLeave,
        TypeOK, Pipes
<1>6. \/ /\ serve[i].pc \notin {"none", "leave"} /\ serve'[i].pc \notin {"none", "leave"}
         /\ pipe'[i].server = pipe[i].server
      \/ /\ serve[i].pc \notin {"none", "leave"} /\ serve'[i].pc \in {"none", "leave"}
         /\ pipe'[i].server = FALSE
      \/ /\ serve[i].pc \in {"none", "leave"} /\ serve'[i].pc \in {"none", "leave"}
         /\ pipe'[i].server = pipe[i].server
  <2>1. CASE ServeClose(i)
    <3>1. serve[i].pc = "flush" /\ serve'[i].pc = "leave"
      BY <1>0, <2>1, ThreadFields DEF ServeClose, TypeOK
    <3>2. pipe'[i].server = FALSE
      BY <1>0, <2>1 DEF ServeClose, TypeOK, Shut, Pipes
    <3> QED BY <3>1, <3>2
  <2>2. CASE ServeLeave(i)
    BY <1>0, <2>2, ThreadFields DEF ServeLeave, TypeOK
  <2>3. CASE ServeStart(i) \/ ServeReadFails(i) \/ ServeWriteFails(i)
    BY <1>0, <2>3, ThreadFields DEF ServeStart, ServeReadFails, ServeWriteFails, TypeOK
  <2>4. CASE ServeRead(i)
    BY <1>0, <1>4, <2>4, ThreadFields DEF ServeRead, TypeOK, Pipes
  <2>5. CASE ServeCopyHeader(i) \/ ServeCopyPayload(i)
    BY <1>0, <1>4, <2>5 DEF ServeCopyHeader, ServeCopyPayload, TypeOK, Threads
  <2>6. CASE ServeWrite(i)
    <3>1. pipe'[i].server = pipe[i].server
      BY <1>0, <1>4, <2>6 DEF ServeWrite, TypeOK, Pipes
    <3>2. serve[i].pc = "write" /\ serve'[i].pc \in {"read", "write"}
      BY <1>0, <1>4, <2>6, ThreadFields DEF ServeWrite, TypeOK, Threads
    <3> QED BY <3>1, <3>2
  <2> QED BY <2>1, <2>2, <2>3, <2>4, <2>5, <2>6 DEF Serve
<1>7. accept.inst # i
  BY <1>0, <1>3, NamesAssumption DEF Wired
<1>8. HandlesOwned'
  BY <1>0, <1>1, <1>2, <1>6, <1>7 DEF HandlesOwned
<1>9. pipe[i].used
  BY <1>0, <1>3, <1>4 DEF Wired, Pipes
<1>10. Wired'
  <2>1. \A j \in Instances : pipe'[j].client = pipe[j].client /\ pipe'[j].used = pipe[j].used
    BY <1>2, <1>5
  <2>2. \A j \in Instances : ~pipe[j].used => serve'[j] = serve[j] /\ pipe'[j] = pipe[j]
    BY <1>2, <1>9
  <2>3. \A c \in Clients : fetch[c].inst # Nobody => fetch[c].inst \in Instances
    BY <1>0 DEF TypeOK, Calls
  <2>4. accept.inst # Nobody => accept.inst \in Instances
    BY <1>0 DEF TypeOK, Acceptors
  <2> QED BY <1>0, <1>1, <1>2, <1>7, <2>1, <2>2, <2>3, <2>4 DEF Wired
<1> QED BY <1>8, <1>10

\* The wiring over a step of the main thread, of Publish, or the process's end.
LEMMA WiredMain ==
  ASSUME IInv,
         Launch \/ PublishHeader \/ PublishPayload \/ Stop \/ Exit \/ Crash
  PROVE  HandlesOwned' /\ Wired'
<1>0. TypeOK /\ HandlesOwned /\ Wired
  BY DEF IInv
<1>1a. pipe \in [Instances -> Pipes]
  BY <1>0 DEF TypeOK
<1>1. CASE PublishHeader \/ PublishPayload \/ StopBegin \/ StopJoin
  <2>1. UNCHANGED <<accept, serve, pipe, fetch>> /\ proc' \in {proc, "poke", "stopped"}
    BY <1>1 DEF PublishHeader, PublishPayload, StopBegin, StopJoin
  <2> QED BY <1>0, <2>1 DEF HandlesOwned, Wired
<1>2. CASE Launch
  <2>1. UNCHANGED <<serve, pipe, fetch>> /\ accept.inst = Nobody /\ proc' # "down"
    BY <1>0, <1>2 DEF Launch, Wired
  <2>2. accept'.inst = Nobody /\ accept'.pc = "check"
    BY <1>2 DEF Launch
  <2> QED BY <1>0, <2>1, <2>2 DEF HandlesOwned, Wired
<1>3. CASE StopPoke
  <2>1. UNCHANGED <<accept, serve, fetch>> /\ proc' # "down"
    BY <1>3 DEF StopPoke
  <2>2. CASE UNCHANGED pipe
    BY <1>0, <2>1, <2>2 DEF HandlesOwned, Wired
  <2>3. CASE \E i \in Instances : Listening(i) /\ pipe' = ConnectTo(pipe, i, Stopper)
    <3>1. PICK i \in Instances : Listening(i) /\ pipe' = ConnectTo(pipe, i, Stopper)
      BY <2>3
    <3>2. /\ \A j \in Instances : j # i => pipe'[j] = pipe[j]
          /\ pipe'[i].client = Stopper /\ pipe'[i].used
          /\ pipe'[i].server = pipe[i].server
      BY <1>1a, <3>1 DEF ConnectTo, Pipes
    <3>3. ~pipe[i].used /\ pipe[i].client = Nobody
      BY <1>0, <3>1 DEF Listening, Wired
    <3>4. \A c \in Clients : fetch[c].inst \in Instances \cup {Nobody} /\ fetch[c].inst # i
      BY <1>0, <3>3, NamesAssumption DEF Wired, TypeOK, Calls
    <3>5. HandlesOwned'
      BY <1>0, <2>1, <3>2 DEF HandlesOwned
    <3>6. Wired'
      BY <1>0, <2>1, <3>2, <3>3, <3>4, NamesAssumption DEF Wired
    <3> QED BY <3>5, <3>6
  <2> QED BY <1>3, <2>2, <2>3 DEF StopPoke
<1>4. CASE StopUnpoke
  <2>1. UNCHANGED <<accept, serve, fetch>> /\ proc' # "down"
    BY <1>4 DEF StopUnpoke
  <2>2. \A j \in Instances :
          /\ pipe'[j].client = IF pipe[j].client = Stopper THEN Nobody ELSE pipe[j].client
          /\ pipe'[j].used = pipe[j].used
          /\ pipe'[j].server = pipe[j].server /\ pipe'[j].reqs = pipe[j].reqs
          /\ pipe'[j].down = pipe[j].down
    BY <1>0, <1>4 DEF StopUnpoke, TypeOK, Pipes
  <2>3. \A c \in Clients : fetch[c].inst \in Instances \cup {Nobody}
    BY <1>0 DEF TypeOK, Calls
  <2>4. HandlesOwned'
    BY <1>0, <2>1, <2>2 DEF HandlesOwned
  <2>5. Wired'
    BY <1>0, <2>1, <2>2, <2>3, NamesAssumption DEF Wired
  <2> QED BY <2>4, <2>5
<1>5. CASE Exit \/ Crash
  <2>1. EndProcess
    BY <1>5 DEF Exit, Crash
  <2>2. /\ accept'.inst = Nobody /\ accept'.pc = "off" /\ fetch' = fetch
        /\ serve' = [i \in Instances |-> Thread("none")]
    BY <2>1 DEF EndProcess
  <2>3. \A j \in Instances :
          /\ pipe'[j].client = IF pipe[j].client = Stopper THEN Nobody ELSE pipe[j].client
          /\ pipe'[j].used = pipe[j].used
          /\ pipe'[j].server = FALSE /\ pipe'[j].reqs = pipe[j].reqs
          /\ pipe'[j].down = pipe[j].down
          /\ serve'[j].pc = "none"
    <3> TAKE j \in Instances
    <3>1. serve'[j].pc = "none"
      BY <2>2, ThreadFields
    <3>2. pipe[j] \in Pipes
      BY <1>0 DEF TypeOK
    <3>3. pipe'[j] = [pipe[j] EXCEPT !.server = FALSE,
                        !.client = IF pipe[j].client = Stopper THEN Nobody
                                                               ELSE pipe[j].client]
      BY <2>1 DEF EndProcess
    <3> QED BY <3>1, <3>2, <3>3 DEF Pipes
  <2>4. \A c \in Clients : fetch[c].inst \in Instances \cup {Nobody}
    BY <1>0 DEF TypeOK, Calls
  <2>5. HandlesOwned'
    BY <2>2, <2>3, NamesAssumption DEF HandlesOwned
  <2>6. Wired'
    BY <1>0, <2>2, <2>3, <2>4, NamesAssumption DEF Wired
  <2> QED BY <2>5, <2>6
<1> QED BY <1>1, <1>2, <1>3, <1>4, <1>5 DEF Stop

\* The wiring over a step of AcceptLoop.
LEMMA WiredAccept ==
  ASSUME IInv, Accept
  PROVE  HandlesOwned' /\ Wired'
<1>0. TypeOK /\ HandlesOwned /\ Wired
  BY DEF IInv
<1>1a. pipe \in [Instances -> Pipes]
  BY <1>0 DEF TypeOK
<1>1. UNCHANGED <<fetch, proc>> /\ \A c \in Clients : fetch[c].inst \in Instances \cup {Nobody}
  BY <1>0 DEF Accept, AcceptCheck, AcceptCreate, AcceptCreateFails, AcceptConnect,
       TypeOK, Calls
<1>2. CASE AcceptCheck \/ AcceptCreateFails
  <2>1. /\ UNCHANGED <<serve, pipe>> /\ accept'.inst = accept.inst
        /\ accept.pc \in {"check", "create"} /\ accept'.pc # "connect"
    BY <1>0, <1>2 DEF AcceptCheck, AcceptCreateFails, TypeOK, Acceptors
  <2> QED BY <1>0, <1>1, <2>1 DEF HandlesOwned, Wired
<1>3. CASE AcceptCreate
  <2>1. PICK i \in Instances : /\ Free(i)
                              /\ pipe' = [pipe EXCEPT ![i] = NewPipe(TRUE)]
                              /\ accept' = [pc |-> "connect", inst |-> i]
    BY <1>3 DEF AcceptCreate
  <2>2. serve' = serve /\ accept.inst = Nobody /\ proc # "down"
    BY <1>0, <1>3 DEF AcceptCreate, Wired
  <2>3. \A j \in Instances : j # i => pipe'[j] = pipe[j]
    BY <1>0, <2>1 DEF TypeOK
  <2>4. /\ pipe'[i].server = TRUE /\ pipe'[i].client = Nobody /\ pipe'[i].used = FALSE
        /\ pipe'[i].reqs = 0 /\ pipe'[i].down = <<>>
    BY <1>0, <2>1 DEF TypeOK, NewPipe
  <2>5. serve[i].pc = "none" /\ pipe[i].client = Nobody
    BY <2>1 DEF Free
  <2>6. \A c \in Clients : fetch[c].inst # i
    BY <1>0, <1>1, <2>5, NamesAssumption DEF Wired
  <2>7. accept'.inst = i /\ accept'.pc = "connect" /\ i # Nobody
    BY <2>1, NamesAssumption
  <2>8. HandlesOwned'
    BY <1>0, <2>2, <2>3, <2>4, <2>5, <2>7, NamesAssumption DEF HandlesOwned
  <2>9. Wired'
    BY <1>0, <1>1, <2>2, <2>3, <2>4, <2>5, <2>6, <2>7, NamesAssumption DEF Wired
  <2> QED BY <2>8, <2>9
<1>4. CASE AcceptConnect
  <2> DEFINE i == accept.inst
  <2>1. i \in Instances /\ serve[i].pc = "none" /\ pipe[i].used /\ proc # "down"
    BY <1>0, <1>4 DEF AcceptConnect, Wired, TypeOK, Acceptors
  <2>2. accept'.inst = Nobody /\ accept'.pc # "connect"
    BY <1>4 DEF AcceptConnect
  <2>3. CASE pipe' = Shut(pipe, i) /\ serve' = serve
    <3>1. /\ \A j \in Instances : j # i => pipe'[j] = pipe[j]
          /\ ~pipe'[i].server /\ pipe'[i].client = pipe[i].client /\ pipe'[i].used
      BY <1>1a, <2>1, <2>3 DEF Shut, Pipes
    <3>2. HandlesOwned'
      BY <1>0, <2>1, <2>2, <2>3, <3>1, NamesAssumption DEF HandlesOwned
    <3>3. Wired'
      BY <1>0, <1>1, <2>1, <2>2, <2>3, <3>1, NamesAssumption DEF Wired
    <3> QED BY <3>2, <3>3
  <2>4. CASE pipe' = pipe /\ serve' = [serve EXCEPT ![i] = Thread("start")]
    <3>1. \A j \in Instances : j # i => serve'[j] = serve[j]
      BY <1>0, <2>4 DEF TypeOK
    <3>2. serve'[i].pc = "start"
      BY <1>0, <2>1, <2>4, ThreadFields DEF TypeOK
    <3>3. HandlesOwned'
      BY <1>0, <2>1, <2>2, <2>4, <3>1, <3>2, NamesAssumption DEF HandlesOwned
    <3>4. Wired'
      BY <1>0, <1>1, <2>1, <2>2, <2>4, <3>1, <3>2, NamesAssumption DEF Wired
    <3> QED BY <3>3, <3>4
  <2> QED BY <1>4, <2>3, <2>4 DEF AcceptConnect
<1> QED BY <1>2, <1>3, <1>4 DEF Accept

\* What a step of client c leaves alone.
LEMMA ClientFrame ==
  ASSUME IInv, NEW c \in Clients, BeginFetch(c) \/ Fetch(c) \/ Disconnect(c)
  PROVE  /\ UNCHANGED <<proc, accept, serve, mtx, hdr, payload>>
         /\ \A d \in Clients : d # c => fetch'[d] = fetch[d]
<1>1. fetch \in [Clients -> Calls]
  BY DEF IInv, TypeOK
<1>2. UNCHANGED <<proc, accept, serve, mtx, hdr, payload>>
  BY DEF BeginFetch, Fetch, Connect, ConnectFails, WriteRequest, WriteFails,
     ReadHeader, ReadPayload, ReadFails, Disconnect, broker
<1>3. fetch' = [fetch EXCEPT ![c] = fetch'[c]]
  <2>1. \E f : fetch' = [fetch EXCEPT ![c] = f]
    BY <1>1 DEF BeginFetch, Fetch, Connect, ConnectFails, WriteRequest, WriteFails,
       ReadHeader, ReadPayload, ReadFails, Disconnect, Drop
  <2> QED BY <1>1, <2>1
<1> QED BY <1>1, <1>2, <1>3

\* Each step of a client, as what becomes of its call and of its instance.
LEMMA ClientEffect ==
  ASSUME IInv, NEW c \in Clients, BeginFetch(c) \/ Fetch(c) \/ Disconnect(c),
         NEW i, i = fetch[c].inst
  PROVE
    \/ /\ fetch[c].pc \in Resting
       /\ pipe' = pipe /\ fetch'[c].inst = i /\ fetch'[c].buf = <<>>
       /\ fetch'[c].pc = IF i = Nobody THEN "connect" ELSE "send"
    \/ /\ fetch[c].pc = "connect"
       /\ pipe' = pipe /\ fetch'[c].inst = Nobody /\ fetch'[c].pc = "failed"
    \/ /\ fetch[c].pc = "connect"
       /\ fetch'[c].pc = "send" /\ fetch'[c].buf = <<>>
       /\ \E j \in Instances :
            /\ pipe[j].server /\ ~pipe[j].used /\ fetch'[c].inst = j
            /\ pipe'[j].client = c /\ pipe'[j].used
            /\ pipe'[j].server = pipe[j].server
            /\ pipe'[j].reqs = pipe[j].reqs /\ pipe'[j].down = pipe[j].down
            /\ \A k \in Instances : k # j => pipe'[k] = pipe[k]
    \/ /\ i \in Instances
       /\ fetch'[c].inst = Nobody /\ fetch'[c].pc \in {"idle", "failed"}
       /\ pipe'[i].client = Nobody /\ pipe'[i].down = <<>>
       /\ pipe'[i].server = pipe[i].server /\ pipe'[i].used = pipe[i].used
       /\ pipe'[i].reqs = pipe[i].reqs
       /\ \A k \in Instances : k # i => pipe'[k] = pipe[k]
    \/ /\ fetch[c].pc = "send" /\ i \in Instances
       /\ fetch'[c].pc = "header" /\ fetch'[c].inst = i /\ fetch'[c].buf = <<>>
       /\ pipe'[i].reqs = pipe[i].reqs + 1 /\ pipe'[i].down = pipe[i].down
       /\ pipe'[i].server = pipe[i].server /\ pipe'[i].used = pipe[i].used
       /\ pipe'[i].client = pipe[i].client
       /\ \A k \in Instances : k # i => pipe'[k] = pipe[k]
    \/ /\ fetch[c].pc = "header" /\ i \in Instances
       /\ pipe[i].down # <<>>
       /\ Head(pipe[i].down).part = 0 /\ Head(pipe[i].down).frame # 0
       /\ fetch'[c].pc = IF Head(pipe[i].down).len = 0 THEN "ok" ELSE "body"
       /\ fetch'[c].inst = i /\ fetch'[c].buf = <<>>
       /\ fetch'[c].hdr = Head(pipe[i].down).frame
       /\ fetch'[c].len = Head(pipe[i].down).len
       /\ pipe'[i].down = Tail(pipe[i].down) /\ pipe'[i].reqs = pipe[i].reqs
       /\ pipe'[i].server = pipe[i].server /\ pipe'[i].used = pipe[i].used
       /\ pipe'[i].client = pipe[i].client
       /\ \A k \in Instances : k # i => pipe'[k] = pipe[k]
    \/ /\ fetch[c].pc = "body" /\ i \in Instances
       /\ pipe[i].down # <<>>
       /\ fetch'[c].pc = IF Len(fetch[c].buf) + 1 >= fetch[c].len THEN "ok" ELSE "body"
       /\ fetch'[c].inst = i
       /\ fetch'[c].buf = Append(fetch[c].buf, Head(pipe[i].down))
       /\ fetch'[c].hdr = fetch[c].hdr /\ fetch'[c].len = fetch[c].len
       /\ pipe'[i].down = Tail(pipe[i].down) /\ pipe'[i].reqs = pipe[i].reqs
       /\ pipe'[i].server = pipe[i].server /\ pipe'[i].used = pipe[i].used
       /\ pipe'[i].client = pipe[i].client
       /\ \A k \in Instances : k # i => pipe'[k] = pipe[k]
<1>0. TypeOK /\ Wired
  BY DEF IInv
<1>1. pipe \in [Instances -> Pipes] /\ fetch \in [Clients -> Calls]
  BY <1>0 DEF TypeOK
<1>2. i \in Instances \cup {Nobody} /\ (fetch[c].pc \in {"send", "header", "body"} => i \in Instances)
  BY <1>0, <1>1 DEF Wired, Calls
<1>3. CASE BeginFetch(c)
  <2>1. fetch'[c] = Call(IF i = Nobody THEN "connect" ELSE "send", i)
    BY <1>1, <1>3 DEF BeginFetch
  <2>2. fetch'[c].pc = IF i = Nobody THEN "connect" ELSE "send"
    BY <2>1, CallFields
  <2>3. fetch'[c].inst = i /\ fetch'[c].buf = <<>>
    BY <2>1, CallFields
  <2> QED BY <1>3, <2>2, <2>3 DEF BeginFetch
<1>4. CASE ConnectFails(c)
  <2>1. fetch'[c] = Call("failed", Nobody)
    BY <1>1, <1>4 DEF ConnectFails
  <2> QED BY <1>4, <2>1, CallFields DEF ConnectFails
<1>5. CASE Connect(c)
  <2>1. PICK j \in Instances : /\ Listening(j) /\ pipe' = ConnectTo(pipe, j, c)
                              /\ fetch' = [fetch EXCEPT ![c] = Call("send", j)]
    BY <1>5 DEF Connect
  <2>2. fetch'[c].pc = "send" /\ fetch'[c].inst = j /\ fetch'[c].buf = <<>>
    BY <1>1, <2>1, CallFields
  <2>3. /\ \A k \in Instances : k # j => pipe'[k] = pipe[k]
        /\ pipe'[j].client = c /\ pipe'[j].used
        /\ pipe'[j].server = pipe[j].server
        /\ pipe'[j].reqs = pipe[j].reqs /\ pipe'[j].down = pipe[j].down
    BY <1>1, <2>1 DEF ConnectTo, Pipes
  <2> QED BY <1>5, <2>1, <2>2, <2>3 DEF Listening, Connect
<1>6. ASSUME i \in Instances, pipe' = HangUp(pipe, i),
             NEW pc \in {"idle", "failed"}, fetch' = [fetch EXCEPT ![c] = Call(pc, Nobody)]
      PROVE  /\ fetch'[c].inst = Nobody /\ fetch'[c].pc \in {"idle", "failed"}
             /\ pipe'[i].client = Nobody /\ pipe'[i].down = <<>>
             /\ pipe'[i].server = pipe[i].server /\ pipe'[i].used = pipe[i].used
             /\ pipe'[i].reqs = pipe[i].reqs
             /\ \A k \in Instances : k # i => pipe'[k] = pipe[k]
  <2>1. fetch'[c] = Call(pc, Nobody)
    BY <1>1, <1>6
  <2>2. fetch'[c].inst = Nobody /\ fetch'[c].pc \in {"idle", "failed"}
    BY <2>1, CallFields
  <2>3. /\ pipe'[i].client = Nobody /\ pipe'[i].down = <<>>
        /\ pipe'[i].server = pipe[i].server /\ pipe'[i].used = pipe[i].used
        /\ pipe'[i].reqs = pipe[i].reqs
        /\ \A k \in Instances : k # i => pipe'[k] = pipe[k]
    BY <1>1, <1>6 DEF HangUp, Pipes
  <2> QED BY <2>2, <2>3
<1>7. CASE WriteFails(c) \/ ReadFails(c)
  BY <1>2, <1>6, <1>7 DEF WriteFails, ReadFails, Drop
<1>8. CASE Disconnect(c)
  BY <1>2, <1>6, <1>8 DEF Disconnect
<1>9. CASE WriteRequest(c)
  <2>1. fetch'[c] = Call("header", i)
    BY <1>1, <1>9 DEF WriteRequest
  <2>2. fetch'[c].pc = "header" /\ fetch'[c].inst = i /\ fetch'[c].buf = <<>>
    BY <2>1, CallFields
  <2>3. fetch[c].pc = "send" /\ i \in Instances
    BY <1>2, <1>9 DEF WriteRequest
  <2>4. /\ pipe'[i].reqs = pipe[i].reqs + 1 /\ pipe'[i].down = pipe[i].down
        /\ pipe'[i].server = pipe[i].server /\ pipe'[i].used = pipe[i].used
        /\ pipe'[i].client = pipe[i].client
        /\ \A k \in Instances : k # i => pipe'[k] = pipe[k]
    BY <1>1, <1>9, <2>3 DEF WriteRequest, Pipes
  <2> QED BY <2>2, <2>3, <2>4
<1>10. ASSUME i \in Instances, pipe' = [pipe EXCEPT ![i].down = Tail(@)]
       PROVE  /\ pipe'[i].down = Tail(pipe[i].down) /\ pipe'[i].reqs = pipe[i].reqs
              /\ pipe'[i].server = pipe[i].server /\ pipe'[i].used = pipe[i].used
              /\ pipe'[i].client = pipe[i].client
              /\ \A k \in Instances : k # i => pipe'[k] = pipe[k]
  BY <1>1, <1>10 DEF Pipes
<1>11. CASE ReadHeader(c)
  <2> DEFINE u == Head(pipe[i].down)
             pc == IF u.len = 0 THEN "ok" ELSE "body"
  <2>1. i \in Instances /\ pipe[i].down # <<>> /\ fetch[c].pc = "header"
    BY <1>2, <1>11 DEF ReadHeader
  <2>2. CASE u.part = 0 /\ u.frame # 0
    <3>1. pipe' = [pipe EXCEPT ![i].down = Tail(@)]
      BY <1>11, <2>2 DEF ReadHeader
    <3>2. fetch'[c] = [Call(pc, i) EXCEPT !.hdr = u.frame, !.len = u.len]
      BY <1>1, <1>11, <2>2 DEF ReadHeader
    <3>3. /\ fetch'[c].pc = pc /\ fetch'[c].inst = i /\ fetch'[c].buf = <<>>
          /\ fetch'[c].hdr = u.frame /\ fetch'[c].len = u.len
      BY <3>2 DEF Call
    <3> QED BY <1>10, <2>1, <2>2, <3>1, <3>3
  <2>3. CASE ~(u.part = 0 /\ u.frame # 0)
    <3>1. Drop(c)
      BY <1>11, <2>3 DEF ReadHeader
    <3> QED BY <1>6, <2>1, <3>1 DEF Drop
  <2> QED BY <2>2, <2>3
<1>12. CASE ReadPayload(c)
  <2> DEFINE u == Head(pipe[i].down)
             pc == IF Len(fetch[c].buf) + 1 >= fetch[c].len THEN "ok" ELSE "body"
  <2>1. i \in Instances /\ pipe[i].down # <<>> /\ fetch[c].pc = "body"
    BY <1>2, <1>12 DEF ReadPayload
  <2>2. pipe' = [pipe EXCEPT ![i].down = Tail(@)]
    BY <1>12 DEF ReadPayload
  <2>3. fetch'[c] = [fetch[c] EXCEPT !.buf = Append(@, u), !.pc = pc]
    BY <1>1, <1>12 DEF ReadPayload
  <2>4. /\ fetch'[c].pc = pc /\ fetch'[c].inst = i
        /\ fetch'[c].buf = Append(fetch[c].buf, u)
        /\ fetch'[c].hdr = fetch[c].hdr /\ fetch'[c].len = fetch[c].len
    <3>1. fetch[c] \in Calls
      BY <1>1
    <3> HIDE DEF u, pc
    <3> QED BY <2>3, <3>1 DEF Calls
  <2> QED BY <1>10, <2>1, <2>2, <2>4
<1> QED BY <1>3, <1>4, <1>5, <1>7, <1>8, <1>9, <1>11, <1>12 DEF Fetch

\* The wiring over a step of a client.
LEMMA WiredFetch ==
  ASSUME IInv, NEW c \in Clients, BeginFetch(c) \/ Fetch(c) \/ Disconnect(c)
  PROVE  HandlesOwned' /\ Wired'
<1> DEFINE i == fetch[c].inst
<1>0. TypeOK /\ HandlesOwned /\ Wired
  BY DEF IInv
<1>1. /\ UNCHANGED <<proc, accept, serve>>
      /\ \A d \in Clients : d # c => fetch'[d] = fetch[d]
  BY ClientFrame
<1>3. i # Nobody => pipe[i].client = c
  BY <1>0 DEF Wired
<1>2. \A d \in Clients : d # c /\ fetch[d].inst # Nobody =>
        fetch[d].inst \in Instances /\ fetch[d].inst # i
  <2> TAKE d \in Clients
  <2>1. fetch[d].inst \in Instances \cup {Nobody}
    BY <1>0 DEF TypeOK, Calls
  <2>2. fetch[d].inst # Nobody => pipe[fetch[d].inst].client = d
    BY <1>0 DEF Wired
  <2> QED BY <1>3, <2>1, <2>2
<1>4. \A j \in Instances : pipe[j].used \in BOOLEAN
  BY <1>0 DEF TypeOK, Pipes
<1>5. CASE /\ fetch[c].pc \in Resting
           /\ pipe' = pipe /\ fetch'[c].inst = i
           /\ fetch'[c].pc = IF i = Nobody THEN "connect" ELSE "send"
  <2>1. i = Nobody <=> fetch'[c].pc \in {"idle", "connect", "failed"}
    BY <1>5
  <2>2. HandlesOwned'
    BY <1>0, <1>1, <1>5 DEF HandlesOwned
  <2>3. Wired'
    BY <1>0, <1>1, <1>2, <1>3, <1>5, <2>1 DEF Wired
  <2> QED BY <2>2, <2>3
<1>6. CASE /\ fetch[c].pc = "connect"
           /\ pipe' = pipe /\ fetch'[c].inst = Nobody /\ fetch'[c].pc = "failed"
  <2>1. i = Nobody
    BY <1>0, <1>6 DEF Wired
  <2> QED BY <1>0, <1>1, <1>6, <2>1 DEF HandlesOwned, Wired
<1>7. CASE /\ fetch[c].pc = "connect" /\ fetch'[c].pc = "send"
           /\ \E j \in Instances :
                /\ ~pipe[j].used /\ fetch'[c].inst = j
                /\ pipe'[j].client = c /\ pipe'[j].used
                /\ pipe'[j].server = pipe[j].server
                /\ \A k \in Instances : k # j => pipe'[k] = pipe[k]
  <2>1. PICK j \in Instances :
                /\ ~pipe[j].used /\ fetch'[c].inst = j
                /\ pipe'[j].client = c /\ pipe'[j].used
                /\ pipe'[j].server = pipe[j].server
                /\ \A k \in Instances : k # j => pipe'[k] = pipe[k]
    BY <1>7
  <2>2. pipe[j].client = Nobody /\ i = Nobody /\ j # Nobody
    BY <1>0, <1>7, <2>1, NamesAssumption DEF Wired
  <2>3. \A d \in Clients : fetch[d].inst # j
    BY <1>0, <2>2, NamesAssumption DEF Wired
  <2>4. \A k \in Instances : pipe[k].client # c
    BY <1>0, <2>2, NamesAssumption DEF Wired
  <2>5. HandlesOwned'
    BY <1>0, <1>1, <2>1 DEF HandlesOwned
  <2>6. Wired'
    BY <1>0, <1>1, <1>2, <1>7, <2>1, <2>2, <2>3, <2>4, NamesAssumption DEF Wired
  <2> QED BY <2>5, <2>6
<1>8. CASE /\ i \in Instances
           /\ fetch'[c].inst = Nobody /\ fetch'[c].pc \in {"idle", "failed"}
           /\ pipe'[i].client = Nobody
           /\ pipe'[i].server = pipe[i].server /\ pipe'[i].used = pipe[i].used
           /\ \A k \in Instances : k # i => pipe'[k] = pipe[k]
  <2>1. i # Nobody /\ pipe[i].client = c /\ pipe[i].used /\ c # Nobody
    BY <1>0, <1>3, <1>8, NamesAssumption DEF Wired
  <2>2. HandlesOwned'
    BY <1>0, <1>1, <1>8 DEF HandlesOwned
  <2>3. \A k \in Instances : k # i => pipe[k].client # c
    BY <1>0 DEF Wired
  <2>4. \A d \in Clients : fetch'[d].inst # Nobody => pipe'[fetch'[d].inst].client = d
    BY <1>0, <1>1, <1>2, <1>8 DEF Wired
  <2>5. \A k \in Instances :
          pipe'[k].client \in Clients => fetch'[pipe'[k].client].inst = k
    BY <1>0, <1>1, <1>8, <2>3, NamesAssumption DEF Wired
  <2>6. pipe'[i].used
    BY <1>8, <2>1
  <2>7. Wired'
    BY <1>0, <1>1, <1>8, <2>4, <2>5, <2>6 DEF Wired
  <2> QED BY <2>2, <2>7
<1>9. CASE /\ i \in Instances
           /\ fetch'[c].inst = i /\ fetch'[c].pc \in {"header", "body", "ok"}
           /\ pipe'[i].client = pipe[i].client
           /\ pipe'[i].server = pipe[i].server /\ pipe'[i].used = pipe[i].used
           /\ \A k \in Instances : k # i => pipe'[k] = pipe[k]
  <2>1. i # Nobody /\ pipe[i].client = c /\ pipe[i].used /\ c # Nobody
    BY <1>0, <1>3, <1>9, NamesAssumption DEF Wired
  <2>2. HandlesOwned'
    BY <1>0, <1>1, <1>9 DEF HandlesOwned
  <2>3. \A d \in Clients : fetch'[d].inst # Nobody => pipe'[fetch'[d].inst].client = d
    BY <1>0, <1>1, <1>2, <1>9, <2>1 DEF Wired
  <2>4. \A k \in Instances :
          pipe'[k].client \in Clients => fetch'[pipe'[k].client].inst = k
    BY <1>0, <1>1, <1>9, <2>1 DEF Wired
  <2>5. pipe'[i].used
    BY <1>9, <2>1
  <2>6. Wired'
    BY <1>0, <1>1, <1>9, <2>1, <2>3, <2>4, <2>5 DEF Wired
  <2> QED BY <2>2, <2>6
<1> QED BY <1>5, <1>6, <1>7, <1>8, <1>9, ClientEffect

\* The wiring over every step.
LEMMA WiredStep ==
  ASSUME IInv, [Next]_vars
  PROVE  HandlesOwned' /\ Wired'
<1>1. CASE UNCHANGED vars
  BY <1>1 DEF IInv, HandlesOwned, Wired, vars
<1> QED BY <1>1, WiredMain, WiredAccept, WiredServe, WiredFetch DEF Next

-----------------------------------------------------------------------------
(* What a client has received.                                             *)

\* What a client has received stays one frame, whoever takes the step.
LEMMA ReceivedStep ==
  ASSUME IInv, [Next]_vars
  PROVE  \A c \in Clients : Received(c)'
<1>0. /\ TypeOK /\ Wired
      /\ \A c \in Clients : Received(c)
      /\ \A c \in Clients : fetch[c].inst # Nobody => Exchange(c)
  BY DEF IInv
<1>1. CASE UNCHANGED fetch
  BY <1>0, <1>1 DEF Received
<1>2. ASSUME NEW c \in Clients, BeginFetch(c) \/ Fetch(c) \/ Disconnect(c)
      PROVE  Received(c)'
  <2> DEFINE i == fetch[c].inst
             u == Head(pipe[i].down)
  <2>0. fetch[c] \in Calls /\ fetch[c].buf \in Seq(Units)
    BY <1>0 DEF TypeOK, Calls
  <2>1. CASE fetch'[c].pc \in {"idle", "connect", "failed"}
    BY <2>1 DEF Received
  <2>2. CASE fetch'[c].pc \in {"send", "header"} /\ fetch'[c].buf = <<>>
    BY <2>2 DEF Received
  <2>3. ASSUME i \in Instances, pipe[i].down # <<>>,
               fetch[c].pc \in {"header", "body"}
        PROVE  /\ u \in Units
               /\ u.part = Position(c) /\ u.part <= Size(u.frame)
               /\ u.len = IF u.part = 0 THEN Size(u.frame) ELSE 0
               /\ fetch[c].pc = "body" => u.frame = fetch[c].hdr
    <3>1. pipe[i].down \in Seq(Units) /\ Len(pipe[i].down) \in Nat \ {0}
      BY <1>0, <2>3 DEF TypeOK, Pipes
    <3>2. u = pipe[i].down[1] /\ u \in Units /\ 1 \in 1 .. Len(pipe[i].down)
      BY <2>3, <3>1
    <3>3. OneResponse(c, pipe[i].down)
      BY <1>0, <2>3, NamesAssumption DEF Exchange
    <3>4. Position(c) \in Nat
      BY <2>0 DEF Position
    <3> HIDE DEF u
    <3> QED BY <3>2, <3>3, <3>4 DEF OneResponse, Units
  <2>4. CASE /\ fetch[c].pc = "header" /\ i \in Instances
             /\ pipe[i].down # <<>> /\ u.part = 0 /\ u.frame # 0
             /\ fetch'[c].pc = IF u.len = 0 THEN "ok" ELSE "body"
             /\ fetch'[c].buf = <<>>
             /\ fetch'[c].hdr = u.frame /\ fetch'[c].len = u.len
    <3>1. u.len = Parts /\ fetch'[c].pc = "body"
      BY <2>3, <2>4, PartsAssumption DEF Size
    <3>2. Len(fetch'[c].buf) = 0
      BY <2>4
    <3> HIDE DEF u
    <3> QED BY <2>4, <3>1, <3>2, PartsAssumption DEF Received
  <2>5. CASE /\ fetch[c].pc = "body" /\ i \in Instances /\ pipe[i].down # <<>>
             /\ fetch'[c].pc = IF Len(fetch[c].buf) + 1 >= fetch[c].len
                               THEN "ok" ELSE "body"
             /\ fetch'[c].buf = Append(fetch[c].buf, u)
             /\ fetch'[c].hdr = fetch[c].hdr /\ fetch'[c].len = fetch[c].len
    <3> DEFINE n == Len(fetch[c].buf)
               b == fetch'[c].buf
    <3>1. /\ fetch[c].hdr # 0 /\ fetch[c].len = Parts /\ n < Parts /\ n \in Nat
          /\ \A k \in 1 .. n : fetch[c].buf[k] =
               [part |-> k, frame |-> fetch[c].hdr, len |-> 0]
      BY <1>0, <2>0, <2>5 DEF Received
    <3>2. u \in Units /\ u.part = 1 + n /\ u.frame = fetch[c].hdr /\ u.len = 0
      BY <2>3, <2>5, <3>1 DEF Position
    <3>3. u = [part |-> n + 1, frame |-> fetch[c].hdr, len |-> 0]
      BY <3>1, <3>2 DEF Units
    <3> HIDE DEF u
    <3>4. /\ Len(b) = n + 1 /\ b[n + 1] = u
          /\ \A k \in 1 .. n : b[k] = fetch[c].buf[k]
      BY <2>0, <2>5, <3>2
    <3>5. \A k \in 1 .. Len(b) : b[k] = [part |-> k, frame |-> fetch'[c].hdr, len |-> 0]
      <4> TAKE k \in 1 .. Len(b)
      <4>1. k \in 1 .. n \/ k = n + 1
        BY <3>1, <3>4
      <4> QED BY <2>5, <3>1, <3>3, <3>4, <4>1
    <3>6. Len(b) = Parts <=> fetch'[c].pc = "ok"
      BY <2>5, <3>1, <3>4, PartsAssumption
    <3>7. fetch'[c].pc \in {"ok", "body"}
      BY <2>5
    <3> QED BY <2>5, <3>1, <3>4, <3>5, <3>6, <3>7, PartsAssumption DEF Received
  <2>6. CASE /\ fetch[c].pc \in Resting
             /\ fetch'[c].buf = <<>>
             /\ fetch'[c].pc = IF i = Nobody THEN "connect" ELSE "send"
    BY <2>1, <2>2, <2>6
  <2> QED BY <1>2, <2>1, <2>2, <2>4, <2>5, <2>6, ClientEffect
<1>3. ASSUME NEW c \in Clients, BeginFetch(c) \/ Fetch(c) \/ Disconnect(c)
      PROVE  \A d \in Clients : Received(d)'
  <2>1. \A d \in Clients : d # c => fetch'[d] = fetch[d]
    BY <1>3, ClientFrame
  <2> QED BY <1>0, <1>2, <1>3, <2>1 DEF Received
<1>4. CASE Launch \/ PublishHeader \/ PublishPayload \/ Stop \/ Exit \/ Crash
  BY <1>1, <1>4 DEF Launch, PublishHeader, PublishPayload, Stop, StopBegin, StopPoke,
       StopUnpoke, StopJoin, Exit, Crash, EndProcess
<1>5. CASE Accept
  BY <1>1, <1>5 DEF Accept, AcceptCheck, AcceptCreate, AcceptCreateFails, AcceptConnect
<1>6. CASE \E i \in Instances : Serve(i)
  BY <1>1, <1>6 DEF Serve, ServeStart, ServeRead, ServeReadFails, ServeCopyHeader,
     ServeCopyPayload, ServeWrite, ServeWriteFails, ServeClose, ServeLeave
<1>7. CASE UNCHANGED vars
  BY <1>1, <1>7 DEF vars
<1> QED BY <1>3, <1>4, <1>5, <1>6, <1>7 DEF Next

-----------------------------------------------------------------------------
(* The exchange on each connection.                                        *)

\* An exchange is disturbed only by a step that moves a unit or a request,
\* or by one that brings a thread into the middle of a response.
LEMMA ExchangeKept ==
  ASSUME NEW c \in Clients, NEW i, i = fetch[c].inst, Exchange(c),
         fetch'[c] = fetch[c],
         pipe'[i].reqs = pipe[i].reqs, pipe'[i].down = pipe[i].down,
         \/ serve'[i] = serve[i]
         \/ serve'[i].pc \notin {"lock", "copy", "write"}
  PROVE  Exchange(c)'
<1>1. OneResponse(c, pipe[i].down)'
  BY DEF Exchange, OneResponse, Position, Size
<1>2. Position(c)' = Position(c)
  BY DEF Position
<1> QED BY <1>1, <1>2 DEF Exchange

\* Two clients are never on one instance.
LEMMA Apart ==
  ASSUME TypeOK, Wired, NEW c \in Clients, NEW d \in Clients, c # d,
         fetch[d].inst # Nobody
  PROVE  fetch[d].inst \in Instances /\ fetch[d].inst # fetch[c].inst
<1>1. fetch[d].inst \in Instances
  BY DEF TypeOK, Calls
<1>2. pipe[fetch[d].inst].client = d /\ (fetch[c].inst # Nobody => pipe[fetch[c].inst].client = c)
  BY DEF Wired
<1> QED BY <1>1, <1>2, NamesAssumption

\* The exchanges over a step of the main thread, of Publish, or the process's end.
LEMMA ExchangeMain ==
  ASSUME IInv,
         Launch \/ PublishHeader \/ PublishPayload \/ Stop \/ Exit \/ Crash,
         NEW c \in Clients, fetch'[c].inst # Nobody
  PROVE  Exchange(c)'
<1> DEFINE i == fetch[c].inst
<1>0. TypeOK /\ Wired
  BY DEF IInv
<1>1. UNCHANGED fetch
  BY DEF Launch, PublishHeader, PublishPayload, Stop, StopBegin, StopPoke, StopUnpoke,
     StopJoin, Exit, Crash, EndProcess
<1>2. Exchange(c) /\ i \in Instances /\ pipe[i].client = c
  BY <1>1 DEF IInv, TypeOK, Calls, Wired
<1>3. CASE Launch \/ PublishHeader \/ PublishPayload \/ StopBegin \/ StopJoin
  <2>1. UNCHANGED <<serve, pipe>>
    BY <1>3 DEF Launch, PublishHeader, PublishPayload, StopBegin, StopJoin
  <2> QED BY <1>1, <1>2, <2>1, ExchangeKept
<1>4. CASE StopPoke
  <2>1. \A j \in Instances : Listening(j) => j # i
    BY <1>0, <1>2, NamesAssumption DEF Listening, Wired
  <2>2. serve' = serve /\ pipe'[i] = pipe[i]
    BY <1>0, <1>2, <1>4, <2>1 DEF StopPoke, ConnectTo, TypeOK
  <2> QED BY <1>1, <1>2, <2>2, ExchangeKept
<1>5. CASE StopUnpoke
  <2>1. pipe[i] \in Pipes
    BY <1>0, <1>2 DEF TypeOK
  <2>2. /\ serve' = serve /\ pipe'[i].reqs = pipe[i].reqs
        /\ pipe'[i].down = pipe[i].down
    BY <1>2, <1>5, <2>1 DEF StopUnpoke, Pipes
  <2> QED BY <1>1, <1>2, <2>2, ExchangeKept
<1>6. CASE Exit \/ Crash
  <2>1. EndProcess /\ pipe[i] \in Pipes
    BY <1>0, <1>2, <1>6 DEF Exit, Crash, TypeOK
  <2>2. pipe'[i].reqs = pipe[i].reqs /\ pipe'[i].down = pipe[i].down
    BY <1>2, <2>1 DEF EndProcess, Pipes
  <2>3. serve'[i] = Thread("none")
    BY <1>2, <2>1 DEF EndProcess
  <2>4. serve'[i].pc = "none"
    BY <2>3, ThreadFields
  <2> QED BY <1>1, <1>2, <2>2, <2>4, ExchangeKept
<1> QED BY <1>3, <1>4, <1>5, <1>6 DEF Stop

\* The exchanges over a step of AcceptLoop.
LEMMA ExchangeAccept ==
  ASSUME IInv, Accept, NEW c \in Clients, fetch'[c].inst # Nobody
  PROVE  Exchange(c)'
<1> DEFINE i == fetch[c].inst
<1>0. TypeOK /\ Wired
  BY DEF IInv
<1>1. UNCHANGED fetch
  BY DEF Accept, AcceptCheck, AcceptCreate, AcceptCreateFails, AcceptConnect
<1>2. Exchange(c) /\ i \in Instances /\ pipe[i].client = c
  BY <1>1 DEF IInv, TypeOK, Calls, Wired
<1>3. CASE AcceptCheck \/ AcceptCreateFails
  <2>1. UNCHANGED <<serve, pipe>>
    BY <1>3 DEF AcceptCheck, AcceptCreateFails
  <2> QED BY <1>1, <1>2, <2>1, ExchangeKept
<1>4. CASE AcceptCreate
  <2>1. \A j \in Instances : Free(j) => j # i
    BY <1>2, NamesAssumption DEF Free
  <2>2. serve' = serve /\ pipe'[i] = pipe[i]
    BY <1>0, <1>2, <1>4, <2>1 DEF AcceptCreate, TypeOK
  <2> QED BY <1>1, <1>2, <2>2, ExchangeKept
<1>5. CASE AcceptConnect
  <2> DEFINE a == accept.inst
  <2>0. a \in Instances /\ serve[a].pc = "none"
    BY <1>0, <1>5 DEF AcceptConnect, Wired, TypeOK, Acceptors
  <2>1. CASE pipe' = Shut(pipe, a) /\ serve' = serve
    <3>1. CASE a = i
      <4>1. pipe'[i].down = <<>> /\ pipe'[i].reqs = pipe[i].reqs
        BY <1>0, <1>2, <2>1, <3>1 DEF Shut, TypeOK, Pipes
      <4>2. OneResponse(c, pipe[i].down)'
        <5>1. 1 .. Len(pipe'[fetch'[c].inst].down) = {}
          BY <1>1, <4>1
        <5> QED BY <5>1 DEF OneResponse
      <4> QED BY <1>1, <1>2, <2>0, <2>1, <3>1, <4>1, <4>2 DEF Exchange
    <3>2. CASE a # i
      <4>1. pipe'[i] = pipe[i]
        BY <1>0, <1>2, <2>0, <2>1, <3>2 DEF Shut, TypeOK
      <4> QED BY <1>1, <1>2, <2>1, <4>1, ExchangeKept
    <3> QED BY <3>1, <3>2
  <2>2. CASE pipe' = pipe /\ serve' = [serve EXCEPT ![a] = Thread("start")]
    <3>1. serve'[i] = serve[i] \/ serve'[i] = Thread("start")
      BY <1>0, <1>2, <2>0, <2>2 DEF TypeOK
    <3>2. serve'[i] = serve[i] \/ serve'[i].pc = "start"
      BY <3>1, ThreadFields
    <3> QED BY <1>1, <1>2, <2>2, <3>2, ExchangeKept
  <2> QED BY <1>5, <2>1, <2>2 DEF AcceptConnect
<1> QED BY <1>3, <1>4, <1>5 DEF Accept


\* The next unit of a response, put behind those already in the pipe.
LEMMA NextUnit ==
  ASSUME NEW c \in Clients, NEW d \in Seq(Units), NEW u \in Units,
         OneResponse(c, d), Position(c) \in Nat,
         u.part = Position(c) + Len(d), u.part <= Size(u.frame),
         u.len = IF u.part = 0 THEN Size(u.frame) ELSE 0,
         \A k \in 1 .. Len(d) : d[k].frame = u.frame,
         fetch[c].pc = "body" => u.frame = fetch[c].hdr
  PROVE  OneResponse(c, Append(d, u))
<1> DEFINE e == Append(d, u)
<1>1. /\ Len(d) \in Nat /\ Len(e) = Len(d) + 1 /\ e[Len(d) + 1] = u
      /\ \A k \in 1 .. Len(d) : e[k] = d[k]
  OBVIOUS
<1>2. \A k \in 1 .. Len(e) : e[k].frame = u.frame
  BY <1>1
<1> HIDE DEF e
<1>3. \A k \in 1 .. Len(e) :
        /\ e[k].part = Position(c) + k - 1
        /\ e[k].part <= Size(e[k].frame)
        /\ e[k].len = IF e[k].part = 0 THEN Size(e[k].frame) ELSE 0
  <2> TAKE k \in 1 .. Len(e)
  <2>1. CASE k \in 1 .. Len(d)
    BY <1>1, <2>1 DEF OneResponse
  <2>2. CASE k = Len(d) + 1
    BY <1>1, <2>2
  <2> QED BY <1>1, <2>1, <2>2
<1>4. 1 \in 1 .. Len(e)
  BY <1>1
<1>5. OneResponse(c, e)
  BY <1>2, <1>3, <1>4 DEF OneResponse
<1> QED BY <1>5 DEF e

\* The exchanges over a step of a serving thread.
LEMMA ExchangeServe ==
  ASSUME IInv, NEW i \in Instances, Serve(i),
         NEW c \in Clients, fetch'[c].inst # Nobody
  PROVE  Exchange(c)'
<1> DEFINE j == fetch[c].inst
<1>0. /\ TypeOK /\ Wired /\ Locked
      /\ pipe \in [Instances -> Pipes] /\ serve \in [Instances -> Threads]
  BY DEF IInv, TypeOK
<1>1. UNCHANGED fetch
  BY DEF Serve, ServeStart, ServeRead, ServeReadFails, ServeCopyHeader,
     ServeCopyPayload, ServeWrite, ServeWriteFails, ServeClose, ServeLeave
<1>2. Exchange(c) /\ j \in Instances /\ pipe[j].client = c
  BY <1>1 DEF IInv, TypeOK, Calls, Wired
<1>3. pipe[j].client # Nobody
  BY <1>2, NamesAssumption
<1>4. CASE j # i
  <2>1. pipe'[j] = pipe[j] /\ serve'[j] = serve[j]
    BY <1>0, <1>2, <1>4 DEF Serve, ServeStart, ServeRead, ServeReadFails, ServeCopyHeader,
     ServeCopyPayload, ServeWrite, ServeWriteFails, ServeClose, ServeLeave, Shut, broker
  <2> QED BY <1>1, <1>2, <2>1, ExchangeKept
<1>5. CASE j = i /\ (ServeStart(i) \/ ServeLeave(i))
  <2>1. serve'[i] = Thread("read") \/ serve'[i] = Thread("none")
    BY <1>0, <1>5 DEF ServeStart, ServeLeave
  <2>2. serve'[i].pc \in {"read", "none"} /\ pipe' = pipe
    BY <1>5, <2>1, ThreadFields DEF ServeStart, ServeLeave
  <2> QED BY <1>1, <1>2, <1>5, <2>2, ExchangeKept
<1>6. CASE j = i /\ ServeClose(i)
  <2>1. serve'[i].pc = "leave"
    BY <1>0, <1>6, ThreadFields DEF ServeClose
  <2>2. pipe'[i].reqs = pipe[i].reqs /\ pipe'[i].down = pipe[i].down
    BY <1>0, <1>3, <1>6 DEF ServeClose, Shut, Pipes
  <2> QED BY <1>1, <1>2, <1>6, <2>1, <2>2, ExchangeKept
<1>7. CASE j = i /\ (ServeReadFails(i) \/ ServeWriteFails(i))
  BY <1>3, <1>7 DEF ServeReadFails, ServeWriteFails
<1>8. CASE j = i /\ (ServeRead(i) \/ ServeCopyHeader(i) \/ ServeCopyPayload(i))
  <2>1. fetch[c].pc = "header" /\ pipe[i].down = <<>> /\ Position(c) = 0
    BY <1>0, <1>2, <1>8 DEF Exchange, ServeRead, ServeCopyHeader, ServeCopyPayload, Position
  <2>2. pipe[i].reqs = IF serve[i].pc = "read" THEN 1 ELSE 0
    BY <1>0, <1>2, <1>8 DEF Exchange, ServeRead, ServeCopyHeader, ServeCopyPayload, Pipes
  <2>3. pipe'[i].down = <<>> /\ pipe'[i].reqs = 0
    BY <1>0, <1>8, <2>1, <2>2 DEF ServeRead, ServeCopyHeader, ServeCopyPayload, Pipes
  <2>4. \/ serve'[i].pc \in {"lock", "copy"}
        \/ serve'[i].pc = "write" /\ serve'[i].next = 0
    <3>1. CASE ServeRead(i)
      <4>1. serve'[i] = Thread("lock")
        BY <1>0, <3>1 DEF ServeRead
      <4> QED BY <4>1, ThreadFields
    <3>2. CASE ServeCopyHeader(i)
      BY <1>0, <3>2 DEF ServeCopyHeader, Threads
    <3>3. CASE ServeCopyPayload(i)
      BY <1>0, <3>3 DEF ServeCopyPayload, Threads, Locked
    <3> QED BY <1>8, <3>1, <3>2, <3>3
  <2>5. 1 .. Len(pipe'[i].down) = {} /\ Len(pipe'[i].down) = 0
    BY <2>3
  <2>6. OneResponse(c, pipe[j].down)'
    BY <1>1, <1>8, <2>5 DEF OneResponse
  <2>7. Position(c)' = 0
    BY <1>1, <2>1 DEF Position
  <2> QED BY <1>1, <1>8, <2>1, <2>3, <2>4, <2>5, <2>6, <2>7 DEF Exchange
<1>9. CASE j = i /\ ServeWrite(i)
  <2> DEFINE s == serve[i]
             d == pipe[i].down
             unit == [part |-> s.next,
                      frame |-> IF s.next = 0 THEN s.hdr ELSE s.data,
                      len |-> IF s.next = 0 THEN Size(s.data) ELSE 0]
  <2>1. /\ s \in Threads /\ s.pc = "write" /\ s.data = s.hdr /\ s.next <= Size(s.data)
        /\ d \in Seq(Units) /\ Size(s.data) \in 0 .. Parts
    BY <1>0, <1>9, PartsAssumption DEF ServeWrite, Locked, Threads, Pipes, Size
  <2>2. /\ fetch[c].pc \in {"header", "body"}
        /\ s.next = Position(c) + Len(d)
        /\ fetch[c].pc = "body" => fetch[c].hdr = s.hdr
        /\ \A k \in 1 .. Len(d) : d[k].frame = s.hdr
        /\ OneResponse(c, d) /\ pipe[i].reqs = 0
    BY <1>0, <1>2, <1>9, <2>1 DEF Exchange, Pipes
  <2>3. unit \in Units /\ unit.frame = s.hdr
    BY <2>1, PartsAssumption DEF Units, Threads
  <2>4. Position(c) \in Nat
    <3>1. fetch[c].buf \in Seq(Units)
      BY <1>0 DEF TypeOK, Calls
    <3> QED BY <3>1 DEF Position
  <2>5. /\ unit.part = Position(c) + Len(d) /\ unit.part <= Size(unit.frame)
        /\ unit.len = IF unit.part = 0 THEN Size(unit.frame) ELSE 0
        /\ \A k \in 1 .. Len(d) : d[k].frame = unit.frame
        /\ fetch[c].pc = "body" => unit.frame = fetch[c].hdr
    BY <2>1, <2>2, <2>3
  <2>6. /\ pipe'[i].down = Append(d, unit) /\ pipe'[i].reqs = 0
    BY <1>0, <1>9, <2>2 DEF ServeWrite, Pipes
  <2>7. \/ serve'[i] = Thread("read")
        \/ serve'[i] = [s EXCEPT !.next = @ + 1]
    BY <1>0, <1>9 DEF ServeWrite
  <2>8. \/ serve'[i].pc = "read"
        \/ /\ serve'[i].pc = "write" /\ serve'[i].next = s.next + 1
           /\ serve'[i].hdr = s.hdr
    BY <2>1, <2>7, ThreadFields DEF Threads
  <2> HIDE DEF unit, d
  <2>9. /\ Len(Append(d, unit)) = Len(d) + 1 /\ Len(d) \in Nat
        /\ \A k \in 1 .. Len(d) + 1 : Append(d, unit)[k].frame = s.hdr
    <3>1. \A k \in 1 .. Len(d) : Append(d, unit)[k] = d[k]
      BY <2>1, <2>3
    <3>2. Append(d, unit)[Len(d) + 1] = unit
      BY <2>1, <2>3
    <3> QED BY <2>1, <2>2, <2>3, <3>1, <3>2
  <2>10. OneResponse(c, Append(d, unit))
    BY <2>1, <2>2, <2>3, <2>4, <2>5, NextUnit
  <2>11. Position(c)' = Position(c)
    BY <1>1 DEF Position
  <2>12. OneResponse(c, pipe[j].down)'
    BY <1>1, <1>9, <2>6, <2>10, <2>11 DEF OneResponse, Size
  <2> QED BY <1>1, <1>9, <2>2, <2>4, <2>6, <2>8, <2>9, <2>11, <2>12 DEF Exchange
<1> QED BY <1>4, <1>5, <1>6, <1>7, <1>8, <1>9 DEF Serve


\* The rest of a response, when its first unit has been read.
LEMMA RestOfResponse ==
  ASSUME NEW d \in Seq(Units), d # <<>>
  PROVE  /\ Tail(d) \in Seq(Units) /\ Len(Tail(d)) = Len(d) - 1
         /\ Len(d) \in Nat \ {0} /\ Head(d) = d[1]
         /\ \A k \in 1 .. Len(Tail(d)) : k + 1 \in 1 .. Len(d) /\ Tail(d)[k] = d[k + 1]
  OBVIOUS

\* The place of a client in its response is a number.
LEMMA PositionType ==
  ASSUME TypeOK, NEW c \in Clients
  PROVE  Position(c) \in Nat /\ Len(fetch[c].buf) \in Nat
<1>1. fetch[c].buf \in Seq(Units)
  BY DEF TypeOK, Calls
<1> QED BY <1>1 DEF Position

\* A connection with something to read.
LEMMA ToRead ==
  ASSUME TypeOK, NEW c \in Clients, NEW i \in Instances, i = fetch[c].inst,
         Exchange(c), pipe[i].down # <<>>
  PROVE  /\ pipe[i].down \in Seq(Units) /\ pipe[i].reqs = 0
         /\ OneResponse(c, pipe[i].down)
         /\ serve[i].pc \notin {"lock", "copy"}
         /\ serve[i].pc = "write" =>
              /\ serve[i].next = Position(c) + Len(pipe[i].down)
              /\ \A k \in 1 .. Len(pipe[i].down) : pipe[i].down[k].frame = serve[i].hdr
              /\ fetch[c].pc = "body" => fetch[c].hdr = serve[i].hdr
<1>1. pipe[i].down \in Seq(Units) /\ pipe[i].reqs \in Nat
  BY DEF TypeOK, Pipes
<1>2. ~(pipe[i].reqs > 0)
  BY DEF Exchange
<1>3. pipe[i].reqs = 0
  BY <1>1, <1>2
<1> QED BY <1>1, <1>3 DEF Exchange

\* The client reads a unit and stays in the body of the response.
LEMMA ExchangeReads ==
  ASSUME TypeOK, NEW c \in Clients, NEW i \in Instances, i = fetch[c].inst,
         Exchange(c), serve'[i] = serve[i], fetch'[c].inst = i,
         pipe[i].down # <<>>, pipe'[i].down = Tail(pipe[i].down),
         pipe'[i].reqs = pipe[i].reqs,
         fetch'[c].pc = "body", Position(c)' = Position(c) + 1,
         fetch'[c].hdr = pipe[i].down[1].frame
  PROVE  Exchange(c)'
<1> DEFINE d == pipe[i].down
           e == Tail(d)
           s == serve[i]
<1>1. /\ d \in Seq(Units) /\ pipe[i].reqs = 0 /\ OneResponse(c, d)
      /\ s.pc \notin {"lock", "copy"} /\ Position(c) \in Nat
  BY ToRead, PositionType
<1>2. s.pc = "write" => /\ s.next = Position(c) + Len(d)
                        /\ \A k \in 1 .. Len(d) : d[k].frame = s.hdr
  BY ToRead
<1>3. /\ e \in Seq(Units) /\ Len(e) = Len(d) - 1 /\ Len(d) \in Nat \ {0}
      /\ \A k \in 1 .. Len(e) : k + 1 \in 1 .. Len(d) /\ e[k] = d[k + 1]
  BY <1>1, RestOfResponse
<1>4. pipe'[i].down = e
  OBVIOUS
<1> HIDE DEF d, e
<1>5. \A k \in 1 .. Len(e) :
        /\ e[k].part = Position(c)' + k - 1
        /\ e[k].part <= Size(e[k].frame)
        /\ e[k].len = IF e[k].part = 0 THEN Size(e[k].frame) ELSE 0
        /\ e[k].frame = d[1].frame
  <2> TAKE k \in 1 .. Len(e)
  <2>1. k + 1 \in 1 .. Len(d) /\ e[k] = d[k + 1]
    BY <1>3
  <2>2. /\ e[k].part = Position(c) + (k + 1) - 1
        /\ e[k].part <= Size(e[k].frame)
        /\ e[k].len = IF e[k].part = 0 THEN Size(e[k].frame) ELSE 0
        /\ e[k].frame = d[1].frame
    BY <1>1, <2>1 DEF OneResponse
  <2> QED BY <1>1, <2>2
<1>6. \A k \in 1 .. Len(e) : 1 \in 1 .. Len(e)
  BY <1>3
<1>7. fetch'[c].hdr = d[1].frame
  BY DEF d
<1>8. OneResponse(c, pipe[i].down)'
  BY <1>4, <1>5, <1>6, <1>7 DEF OneResponse, Size
<1>9. s.pc = "write" => /\ s.next = Position(c)' + Len(e)
                        /\ \A k \in 1 .. Len(e) : e[k].frame = s.hdr
                        /\ fetch'[c].hdr = s.hdr
  <2>1. 1 \in 1 .. Len(d)
    BY <1>3
  <2>2. s.pc = "write" => d[1].frame = s.hdr
    BY <1>2, <2>1
  <2> QED BY <1>1, <1>2, <1>3, <1>5, <1>7, <2>2
<1>10. pipe'[i].reqs = 0
  BY <1>1
<1> QED BY <1>1, <1>4, <1>8, <1>9, <1>10 DEF Exchange


\* In the header of a response is the length of the payload that follows.
LEMMA HeaderRead ==
  ASSUME TypeOK, NEW c \in Clients, NEW i \in Instances, i = fetch[c].inst,
         Exchange(c), pipe[i].down # <<>>, fetch[c].pc = "header",
         Head(pipe[i].down).part = 0, Head(pipe[i].down).frame # 0
  PROVE  /\ Head(pipe[i].down) = pipe[i].down[1]
         /\ Head(pipe[i].down).len = Parts /\ Position(c) = 0
<1> DEFINE d == pipe[i].down
<1>1. d \in Seq(Units) /\ OneResponse(c, d)
  BY ToRead
<1>2. Len(d) \in Nat \ {0} /\ Head(d) = d[1]
  BY <1>1, RestOfResponse
<1>3. 1 \in 1 .. Len(d)
  BY <1>2
<1>4. d[1].part = 0 /\ d[1].frame # 0
  BY <1>2
<1> HIDE DEF d
<1>5. d[1].len = Parts
  BY <1>1, <1>3, <1>4 DEF OneResponse, Size
<1> QED BY <1>2, <1>5 DEF Position, d

\* The last piece of the payload is the last unit in the pipe, and the
\* serving thread is done with the response.
LEMMA LastPiece ==
  ASSUME TypeOK, Locked, NEW c \in Clients, NEW i \in Instances, i = fetch[c].inst,
         Exchange(c), pipe[i].down # <<>>, fetch[c].pc = "body",
         Len(fetch[c].buf) + 1 = Parts
  PROVE  Tail(pipe[i].down) = <<>> /\ serve[i].pc # "write"
<1> DEFINE d == pipe[i].down
           s == serve[i]
<1>1. d \in Seq(Units) /\ OneResponse(c, d)
  BY ToRead
<1>2. s.pc = "write" => s.next = Position(c) + Len(d) /\ s.next <= Size(s.data)
  BY ToRead DEF Locked
<1>3. Position(c) = Parts
  BY PartsAssumption, PositionType DEF Position
<1>4. Len(d) \in Nat \ {0} /\ Tail(d) \in Seq(Units) /\ Len(Tail(d)) = Len(d) - 1
  BY <1>1, RestOfResponse
<1> HIDE DEF d
<1>5. \A k \in 1 .. Len(d) : k = 1
  <2> TAKE k \in 1 .. Len(d)
  <2>1. d[k].part = Parts + k - 1 /\ d[k].part <= Size(d[k].frame)
    BY <1>1, <1>3 DEF OneResponse
  <2>2. Size(d[k].frame) \in 0 .. Parts
    BY PartsAssumption DEF Size
  <2> QED BY <2>1, <2>2, PartsAssumption
<1>6. Len(d) = 1
  BY <1>4, <1>5
<1>7. Tail(d) = <<>>
  <2>1. \A e \in Seq(Units) : Len(e) = 0 => e = <<>>
    OBVIOUS
  <2>2. Len(Tail(d)) = 0
    BY <1>4, <1>6
  <2> QED BY <1>4, <2>1, <2>2
<1>8. Size(s.data) \in 0 .. Parts
  BY PartsAssumption DEF Size
<1>9. s.pc # "write"
  BY <1>2, <1>3, <1>6, <1>8, PartsAssumption
<1> QED BY <1>7, <1>9 DEF d

\* The exchange of the client that takes a step.
LEMMA ExchangeOwn ==
  ASSUME IInv, NEW c \in Clients, BeginFetch(c) \/ Fetch(c) \/ Disconnect(c),
         fetch'[c].inst # Nobody
  PROVE  Exchange(c)'
<1> DEFINE i == fetch[c].inst
           j == fetch'[c].inst
<1>0. TypeOK /\ Wired /\ Locked /\ Received(c) /\ (i # Nobody => Exchange(c))
  BY DEF IInv
<1>1. serve' = serve
  BY ClientFrame
<1>2. i \in Instances \cup {Nobody}
  BY <1>0 DEF TypeOK, Calls
<1>3. ASSUME pipe'[j].down = <<>>, pipe'[j].reqs = 0,
             serve[j].pc \notin {"lock", "copy", "write"}
      PROVE  Exchange(c)'
  <2>1. 1 .. Len(pipe'[j].down) = {}
    BY <1>3
  <2>2. OneResponse(c, pipe[i].down)'
    BY <2>1 DEF OneResponse
  <2> QED BY <1>1, <1>3, <2>2 DEF Exchange
<1>4. CASE /\ fetch[c].pc \in Resting
           /\ pipe' = pipe /\ fetch'[c].inst = i
           /\ fetch'[c].pc = IF i = Nobody THEN "connect" ELSE "send"
  <2>1. fetch[c].pc = "ok"
    BY <1>0, <1>4 DEF Wired, Resting
  <2>2. pipe[i].down = <<>> /\ pipe[i].reqs = 0 /\ serve[i].pc \notin {"lock", "copy", "write"}
    BY <1>0, <1>4, <2>1 DEF Exchange
  <2> QED BY <1>3, <1>4, <2>2
<1>5. CASE \E k \in Instances :
             /\ ~pipe[k].used /\ fetch'[c].inst = k
             /\ pipe'[k].reqs = pipe[k].reqs /\ pipe'[k].down = pipe[k].down
  BY <1>0, <1>3, <1>5 DEF Wired
<1>6. CASE /\ fetch[c].pc = "send" /\ i \in Instances
           /\ fetch'[c].pc = "header" /\ fetch'[c].inst = i
           /\ pipe'[i].reqs = pipe[i].reqs + 1 /\ pipe'[i].down = pipe[i].down
  <2>1. Exchange(c)
    BY <1>0, <1>6, NamesAssumption
  <2>2. pipe[i].down = <<>> /\ pipe[i].reqs = 0 /\ serve[i].pc \notin {"lock", "copy", "write"}
    BY <1>6, <2>1 DEF Exchange
  <2>3. pipe'[i].down = <<>> /\ pipe'[i].reqs = 1
    BY <1>6, <2>2
  <2>4. 1 .. Len(pipe'[i].down) = {}
    BY <2>3
  <2>5. OneResponse(c, pipe[i].down)'
    BY <1>6, <2>4 DEF OneResponse
  <2> QED BY <1>1, <1>6, <2>2, <2>3, <2>5 DEF Exchange
<1>7. CASE /\ fetch[c].pc = "header" /\ i \in Instances
           /\ pipe[i].down # <<>>
           /\ Head(pipe[i].down).part = 0 /\ Head(pipe[i].down).frame # 0
           /\ fetch'[c].pc = IF Head(pipe[i].down).len = 0 THEN "ok" ELSE "body"
           /\ fetch'[c].inst = i /\ fetch'[c].buf = <<>>
           /\ fetch'[c].hdr = Head(pipe[i].down).frame
           /\ pipe'[i].down = Tail(pipe[i].down) /\ pipe'[i].reqs = pipe[i].reqs
  <2>0. Exchange(c) /\ i \in Instances /\ fetch[c].pc = "header" /\ pipe[i].down # <<>>
        /\ Head(pipe[i].down).part = 0 /\ Head(pipe[i].down).frame # 0
    BY <1>0, <1>7, NamesAssumption
  <2>1. /\ Head(pipe[i].down) = pipe[i].down[1]
        /\ Head(pipe[i].down).len = Parts /\ Position(c) = 0
    BY <1>0, <2>0, HeaderRead
  <2>2. fetch'[c].pc = "body" /\ Len(fetch'[c].buf) = 0
    BY <1>7, <2>1, PartsAssumption
  <2>3. Position(c)' = Position(c) + 1
    BY <2>1, <2>2 DEF Position
  <2>4. fetch'[c].hdr = pipe[i].down[1].frame
    BY <1>7, <2>1
  <2>5. /\ serve'[i] = serve[i] /\ fetch'[c].inst = i
        /\ pipe'[i].down = Tail(pipe[i].down) /\ pipe'[i].reqs = pipe[i].reqs
    BY <1>1, <1>7
  <2> QED BY <1>0, <2>0, <2>2, <2>3, <2>4, <2>5, ExchangeReads
<1>8. CASE /\ fetch[c].pc = "body" /\ i \in Instances
           /\ pipe[i].down # <<>>
           /\ fetch'[c].pc = IF Len(fetch[c].buf) + 1 >= fetch[c].len THEN "ok" ELSE "body"
           /\ fetch'[c].inst = i
           /\ fetch'[c].buf = Append(fetch[c].buf, Head(pipe[i].down))
           /\ fetch'[c].hdr = fetch[c].hdr
           /\ pipe'[i].down = Tail(pipe[i].down) /\ pipe'[i].reqs = pipe[i].reqs
  <2> DEFINE n == Len(fetch[c].buf)
  <2>0. Exchange(c) /\ i \in Instances /\ pipe[i].down # <<>>
    BY <1>0, <1>8, NamesAssumption
  <2>1. /\ fetch[c].len = Parts /\ n < Parts /\ n \in Nat
        /\ Position(c) \in Nat /\ Position(c) = 1 + n
    BY <1>0, <1>8, PositionType DEF Received, Position
  <2>2. pipe[i].down \in Seq(Units) /\ pipe[i].reqs = 0 /\ OneResponse(c, pipe[i].down)
    BY <1>0, <2>0, ToRead
  <2>3. 1 \in 1 .. Len(pipe[i].down) /\ Head(pipe[i].down) \in Units
    BY <2>0, <2>2
  <2>4. fetch'[c].hdr = pipe[i].down[1].frame
    BY <1>8, <2>2, <2>3 DEF OneResponse
  <2>5. Len(fetch'[c].buf) = n + 1
    <3>1. fetch[c].buf \in Seq(Units)
      BY <1>0 DEF TypeOK, Calls
    <3>2. \A u \in Units : Len(Append(fetch[c].buf, u)) = n + 1
      BY <3>1
    <3> QED BY <1>8, <2>3, <3>2
  <2>6. /\ serve'[i] = serve[i] /\ fetch'[c].inst = i
        /\ pipe'[i].down = Tail(pipe[i].down) /\ pipe'[i].reqs = pipe[i].reqs
    BY <1>1, <1>8
  <2>7. CASE n + 1 # Parts
    <3>1. fetch'[c].pc = "body"
      BY <1>8, <2>1, <2>7, PartsAssumption
    <3>2. Position(c)' = Position(c) + 1
      BY <2>1, <2>5, <3>1 DEF Position
    <3> QED BY <1>0, <2>0, <2>4, <2>6, <3>1, <3>2, ExchangeReads
  <2>8. CASE n + 1 = Parts
    <3>1. Tail(pipe[i].down) = <<>> /\ serve[i].pc # "write"
      BY <1>0, <1>8, <2>0, <2>8, LastPiece
    <3>2. serve[i].pc \notin {"lock", "copy"}
      BY <1>0, <2>0, ToRead
    <3> QED BY <1>3, <2>2, <2>6, <3>1, <3>2
  <2> QED BY <2>7, <2>8
<1> QED BY <1>4, <1>5, <1>6, <1>7, <1>8, ClientEffect

\* The exchanges over a step of a client, its own and the others'.
LEMMA ExchangeFetch ==
  ASSUME IInv, NEW c \in Clients, BeginFetch(c) \/ Fetch(c) \/ Disconnect(c),
         NEW d \in Clients, fetch'[d].inst # Nobody
  PROVE  Exchange(d)'
<1>1. CASE d = c
  BY <1>1, ExchangeOwn
<1>2. CASE d # c
  <2> DEFINE j == fetch[d].inst
             i == fetch[c].inst
  <2>0. TypeOK /\ Wired
    BY DEF IInv
  <2>1. fetch'[d] = fetch[d] /\ serve' = serve
    BY <1>2, ClientFrame
  <2>2. Exchange(d)
    BY <2>1 DEF IInv
  <2>3. j \in Instances /\ j # i /\ pipe[j].client = d /\ pipe[j].used
    BY <1>2, <2>0, <2>1, Apart, NamesAssumption DEF Wired
  <2>4. pipe'[j] = pipe[j]
    BY <2>3, ClientEffect
  <2> QED BY <2>1, <2>2, <2>4, ExchangeKept
<1> QED BY <1>1, <1>2

\* The exchanges over every step.
LEMMA ExchangeStep ==
  ASSUME IInv, [Next]_vars, NEW c \in Clients, fetch'[c].inst # Nobody
  PROVE  Exchange(c)'
<1>1. CASE UNCHANGED vars
  <2>1. UNCHANGED <<fetch, pipe, serve>>
    BY <1>1 DEF vars
  <2>2. Exchange(c)
    BY <2>1 DEF IInv
  <2> QED BY <2>1, <2>2, ExchangeKept
<1> QED BY <1>1, ExchangeMain, ExchangeAccept, ExchangeServe, ExchangeFetch DEF Next


-----------------------------------------------------------------------------
(* The invariant.                                                          *)

\* The invariant holds before the broker's first launch...
LEMMA InvInit == Init => IInv
<1> SUFFICES ASSUME Init PROVE IInv
  OBVIOUS
<1>1. 0 \in Frames /\ 0 \in 0 .. MaxLaunch
  BY BoundsAssumption DEF Frames
<1>2. accept \in Acceptors
  BY AcceptorTypes DEF Init
<1>3. serve \in [Instances -> Threads] /\ pipe \in [Instances -> Pipes]
  BY NewTypes DEF Init
<1>4. fetch \in [Clients -> Calls]
  BY NewTypes DEF Init
<1>5. floor \in [Clients -> Frames] /\ shown \in [Clients -> Frames]
  BY <1>1 DEF Init
<1>6. TypeOK
  <2>1. running \in BOOLEAN
    BY Zenon DEF Init
  <2>2. /\ proc \in {"down", "up", "poke", "unpoke", "join", "stopped"}
        /\ clients \in Int /\ mtx \in Instances \cup {Nobody, Producer}
        /\ hdr \in Frames /\ payload \in Frames /\ issued \in Frames
        /\ launches \in 0 .. MaxLaunch
    BY <1>1 DEF Init
  <2> QED BY <1>2, <1>3, <1>4, <1>5, <2>1, <2>2 DEF TypeOK
<1>7. \A i \in Instances : pipe[i] = NewPipe(FALSE)
  BY DEF Init
<1>8. /\ \A i \in Instances : serve[i].pc = "none"
      /\ \A c \in Clients : fetch[c].pc = "idle" /\ fetch[c].inst = Nobody
  <2>1. \A i \in Instances : serve[i] = Thread("none")
    BY DEF Init
  <2>2. \A i \in Instances : serve[i].pc = "none"
    BY <2>1, ThreadFields
  <2>3. \A c \in Clients : fetch[c] = Call("idle", Nobody)
    BY DEF Init
  <2>4. \A c \in Clients : fetch[c].pc = "idle" /\ fetch[c].inst = Nobody
    BY <2>3, CallFields
  <2> QED BY <2>2, <2>4
<1>9. \A i \in Instances : /\ ~pipe[i].server /\ pipe[i].client = Nobody
                           /\ pipe[i].reqs = 0 /\ pipe[i].down = <<>>
  BY <1>7 DEF NewPipe
<1>10. HandlesOwned
  BY <1>8, <1>9, NamesAssumption DEF HandlesOwned, Init
<1>11. Wired
  BY <1>8, <1>9, NamesAssumption DEF Wired, Init
<1>12. Locked
  BY <1>8, NamesAssumption DEF Locked, Init
<1>13. \A c \in Clients : Received(c)
  BY <1>8 DEF Received
<1> QED BY <1>6, <1>8, <1>10, <1>11, <1>12, <1>13 DEF IInv

\* ...and over every step of every thread and of every client.
LEMMA InvStep == IInv /\ [Next]_vars => IInv'
<1> SUFFICES ASSUME IInv, [Next]_vars PROVE IInv'
  OBVIOUS
<1>1. TypeOK'
  BY TypeStep
<1>2. HandlesOwned' /\ Wired'
  BY WiredStep
<1>3. Locked'
  BY LockedStep
<1>4. \A c \in Clients : Received(c)'
  BY ReceivedStep
<1>5. \A c \in Clients : fetch'[c].inst # Nobody => Exchange(c)'
  BY ExchangeStep
<1> QED BY <1>1, <1>2, <1>3, <1>4, <1>5 DEF IInv

\* IInv holds between any two steps of any two threads of the broker and of
\* the clients, crashes and relaunches included (ipc.h, all of it).
THEOREM Invariant == Spec => []IInv
  BY InvInit, InvStep, PTL DEF Spec

\* Every variable of the transport keeps its type: the request count, the
\* loop counters and the frames never leave their ranges.
THEOREM TypeCorrect == Spec => []TypeOK
<1>1. IInv => TypeOK
  BY DEF IInv
<1> QED BY <1>1, Invariant, PTL

\* A Fetch that returns true (ipc.h:95-108) returns the header and all of
\* the payload of one frame, for any number of clients and payload pieces.
THEOREM NoTorn == Spec => []NoTornFrame
<1>1. IInv => NoTornFrame
  BY DEF IInv, Received, NoTornFrame
<1> QED BY <1>1, Invariant, PTL

\* Every server handle AcceptLoop creates (ipc.h:163) has one owner that will
\* close it, or the process has ended and the system has closed it.
THEOREM HandlesHaveOwners == Spec => []HandlesOwned
<1>1. IInv => HandlesOwned
  BY DEF IInv
<1> QED BY <1>1, Invariant, PTL

\* A connection used for call after call holds at most one request or the
\* rest of one response, and the client reads it from the right place.
THEOREM StaysInStep == Spec => []InStep
<1>1. IInv => InStep
  <2> SUFFICES ASSUME IInv, NEW c \in Clients, fetch[c].inst # Nobody
               PROVE  /\ pipe[fetch[c].inst].client = c
                      /\ pipe[fetch[c].inst].reqs + Len(pipe[fetch[c].inst].down) > 0
                           => fetch[c].pc \in {"header", "body"}
                      /\ pipe[fetch[c].inst].reqs <= 1
                      /\ Position(c) + Len(pipe[fetch[c].inst].down) <= 1 + Parts
                      /\ \A k \in 1 .. Len(pipe[fetch[c].inst].down) :
                           pipe[fetch[c].inst].down[k].part = Position(c) + k - 1
    BY DEF InStep
  <2> DEFINE i == fetch[c].inst
             d == pipe[i].down
             r == pipe[i].reqs
  <2>0. TypeOK /\ Wired /\ Received(c) /\ Exchange(c)
    BY DEF IInv
  <2>1. i \in Instances /\ d \in Seq(Units) /\ r \in Nat /\ Len(d) \in Nat
    BY <2>0 DEF TypeOK, Calls, Pipes
  <2>2. pipe[i].client = c /\ OneResponse(c, d)
    BY <2>0 DEF Wired, Exchange
  <2>3. fetch[c].pc \in {"idle", "connect", "send", "header", "body", "ok", "failed"}
    BY <2>0 DEF TypeOK, Calls
  <2>4. fetch[c].pc \in {"send", "header", "body", "ok"}
    BY <2>0, <2>3 DEF Wired
  <2>5. r <= 1
    BY <2>0, <2>1 DEF Exchange
  <2>6. fetch[c].pc \in {"send", "ok"} => r = 0 /\ Len(d) = 0
    BY <2>0 DEF Exchange
  <2>7. Position(c) \in 0 .. Parts
    BY <2>0, PositionType, PartsAssumption DEF Position, Received
  <2>8. Position(c) + Len(d) <= 1 + Parts
    <3>1. CASE Len(d) = 0
      BY <2>7, <3>1, PartsAssumption
    <3>2. CASE Len(d) # 0
      <4>1. Len(d) \in 1 .. Len(d)
        BY <2>1, <3>2
      <4> HIDE DEF d
      <4>2. d[Len(d)].part = Position(c) + Len(d) - 1 /\ d[Len(d)].part <= Size(d[Len(d)].frame)
        BY <2>2, <4>1 DEF OneResponse
      <4>3. Size(d[Len(d)].frame) \in 0 .. Parts
        BY PartsAssumption DEF Size
      <4> QED BY <2>1, <2>7, <4>2, <4>3, PartsAssumption
    <3> QED BY <3>1, <3>2
  <2>9. r + Len(d) > 0 => fetch[c].pc \in {"header", "body"}
    <3> HIDE DEF d, r
    <3> QED BY <2>1, <2>4, <2>6
  <2>10. \A k \in 1 .. Len(d) : d[k].part = Position(c) + k - 1
    BY <2>2 DEF OneResponse
  <2> QED BY <2>2, <2>5, <2>8, <2>9, <2>10
<1> QED BY <1>1, Invariant, PTL

=============================================================================
