------------------------------ MODULE FramePipe ------------------------------
(***************************************************************************)
(* The frame transport between the broker and the media source:            *)
(* src/src/Vcam.Common/ipc.h, run by the broker's wWinMain.                *)
(*                                                                         *)
(* Threads.  The broker's main thread (proc) starts and stops the server;  *)
(* the producer thread publishes frames; the accept thread (accept) makes  *)
(* one pipe instance at a time and waits for a client on it; one detached  *)
(* thread per connection (serve) answers requests.  Each media-source      *)
(* stream is a client whose Fetch call is a sequence of steps (fetch).     *)
(* The broker may die between any two steps and be launched again.         *)
(*                                                                         *)
(* Data.  A frame is its number in the order of publication, over every    *)
(* launch; 0 is the zero-initialised FrameHeader{} or the empty vector.    *)
(* A response is a header unit followed by Parts payload units, the pieces *)
(* in which ReadFile and WriteFile may transfer the payload.               *)
(*                                                                         *)
(* The pipe itself is the operating system's: an instance listens from its *)
(* creation until its one client, a client's close lets the server drain   *)
(* what was sent, and a server's close lets the client drain or fail.      *)
(***************************************************************************)
EXTENDS Integers, Sequences, FiniteSets

CONSTANTS Clients,     \* media-source streams, each with its FramePipeClient
          Instances,   \* pipe instances the system can hold at a time
          MaxFrame,    \* bound on the frames published
          Parts,       \* units the payload of a frame is transferred in
          MaxLaunch,   \* bound on the launches of the broker
          Nobody,      \* no client, no thread, no instance
          Stopper,     \* the main thread, as the client Stop connects
          Producer     \* the producer thread, as a holder of the mutex

ASSUME PartsAssumption == Parts \in Nat \ {0}
ASSUME BoundsAssumption == MaxFrame \in Nat /\ MaxLaunch \in Nat
ASSUME NamesAssumption ==
  /\ Nobody \notin Clients \cup Instances
  /\ Stopper \notin Clients
  /\ Producer \notin Instances
  /\ Nobody # Stopper
  /\ Nobody # Producer

VARIABLES
  proc,      \* the broker's main thread
  running,   \* _running
  clients,   \* _clients
  mtx,       \* who holds _mtx
  hdr,       \* _hdr, as the number of its frame
  payload,   \* _payload, likewise
  issued,    \* frames published so far
  launches,  \* launches so far
  accept,    \* the accept thread and the instance it is waiting on
  serve,     \* serve[i]: the thread serving instance i
  pipe,      \* pipe[i]: the two ends of instance i and the data between them
  fetch,     \* fetch[c]: the client's handle and its Fetch call
  floor,     \* history: newest frame complete when the call of c began
  shown      \* history: the last frame a Fetch of c returned

broker == <<running, clients, mtx, hdr, payload, issued>>
vars == <<proc, broker, launches, accept, serve, pipe, fetch, floor, shown>>

Frames == 0 .. MaxFrame

\* One transfer: part 0 is the header, which carries the payload's length.
Units == [part : 0 .. Parts, frame : Frames, len : 0 .. Parts]

\* data.size(), in units: an empty vector before the first Publish.
Size(data) == IF data = 0 THEN 0 ELSE Parts

\* A serving thread that holds no frame, a new instance, and a call that has
\* received nothing.
Thread(pc) == [pc |-> pc, hdr |-> 0, data |-> 0, next |-> 0]
NewPipe(open) == [server |-> open, client |-> Nobody, used |-> FALSE,
                     reqs |-> 0, down |-> <<>>]
Call(pc, i) == [pc |-> pc, inst |-> i, hdr |-> 0, len |-> 0, buf |-> <<>>]

Resting == {"idle", "ok", "failed"}   \* the client is not inside Fetch

\* What the accept thread, a serving thread, an instance and a client can be.
Acceptors ==
  [pc : {"off", "check", "create", "connect"}, inst : Instances \cup {Nobody}]
Threads ==
  [pc : {"none", "start", "read", "lock", "copy", "write", "flush", "leave"},
   hdr : Frames, data : Frames, next : 0 .. Parts]
Pipes ==
  [server : BOOLEAN, client : Clients \cup {Stopper, Nobody}, used : BOOLEAN,
   reqs : Nat, down : Seq(Units)]
Calls ==
  [pc : {"idle", "connect", "send", "header", "body", "ok", "failed"},
   inst : Instances \cup {Nobody}, hdr : Frames, len : 0 .. Parts, buf : Seq(Units)]

\* Type correctness: every variable of the transport stays in its range; in
\* particular no counter underflows and no length exceeds a payload's.
TypeOK ==
  /\ proc \in {"down", "up", "poke", "unpoke", "join", "stopped"}
  /\ running \in BOOLEAN
  /\ clients \in Int
  /\ mtx \in Instances \cup {Nobody, Producer}
  /\ hdr \in Frames /\ payload \in Frames /\ issued \in Frames
  /\ launches \in 0 .. MaxLaunch
  /\ accept \in Acceptors
  /\ serve \in [Instances -> Threads]
  /\ pipe \in [Instances -> Pipes]
  /\ fetch \in [Clients -> Calls]
  /\ floor \in [Clients -> Frames]
  /\ shown \in [Clients -> Frames]

Init ==
  /\ proc = "down"
  /\ running = FALSE
  /\ clients = 0
  /\ mtx = Nobody
  /\ hdr = 0 /\ payload = 0 /\ issued = 0
  /\ launches = 0
  /\ accept = [pc |-> "off", inst |-> Nobody]
  /\ serve = [i \in Instances |-> Thread("none")]
  /\ pipe = [i \in Instances |-> NewPipe(FALSE)]
  /\ fetch = [c \in Clients |-> Call("idle", Nobody)]
  /\ floor = [c \in Clients |-> 0]
  /\ shown = [c \in Clients |-> 0]

-----------------------------------------------------------------------------
(* The named pipe, as the operating system keeps it.                       *)

\* An instance CreateFileW can open: it exists and has had no client yet.
Listening(i) == pipe[i].server /\ ~pipe[i].used

\* An instance CreateNamedPipeW can make: both ends of the last use are
\* closed and no thread still uses its handle.
Free(i) == ~pipe[i].server /\ pipe[i].client = Nobody /\ serve[i].pc = "none"

ConnectTo(p, i, who) == [p EXCEPT ![i].client = who, ![i].used = TRUE]

\* The client's handle to instance i is closed: what was sent to it is lost.
HangUp(p, i) == [p EXCEPT ![i].client = Nobody, ![i].down = <<>>]

\* The server's handle to instance i is closed.
Shut(p, i) == [p EXCEPT ![i].server = FALSE, ![i].down = <<>>]

-----------------------------------------------------------------------------
(* The broker process.                                                     *)

\* wWinMain: the server starts, its accept thread with it.
Launch ==
  /\ proc = "down"
  /\ launches < MaxLaunch
  /\ proc' = "up"
  /\ launches' = launches + 1
  /\ running' = TRUE
  /\ accept' = [pc |-> "check", inst |-> Nobody]
  /\ UNCHANGED <<clients, mtx, hdr, payload, issued, serve, pipe, fetch, floor, shown>>

\* Mutant: the producer may hand over a buffer it has published before.
PublishHeader_Reissues ==
  /\ proc = "up"
  /\ issued < MaxFrame
  /\ mtx = Nobody
  /\ mtx' = Producer
  /\ hdr' \in 1 .. issued + 1
  /\ UNCHANGED <<proc, running, clients, payload, issued, launches, accept, serve,
                 pipe, fetch, floor, shown>>

\* Publish, first half: the producer takes the mutex and assigns _hdr.
PublishHeader ==
  /\ proc = "up"
  /\ issued < MaxFrame
  /\ mtx = Nobody
  /\ mtx' = Producer
  /\ hdr' = issued + 1
  /\ UNCHANGED <<proc, running, clients, payload, issued, launches, accept, serve,
                 pipe, fetch, floor, shown>>

\* Publish, second half: _payload is assigned and the mutex released.
PublishPayload ==
  /\ mtx = Producer
  /\ mtx' = Nobody
  /\ payload' = hdr
  /\ issued' = hdr
  /\ UNCHANGED <<proc, running, clients, hdr, launches, accept, serve, pipe,
                 fetch, floor, shown>>

\* The user quits: the producer has been joined, Stop clears _running.
StopBegin ==
  /\ proc = "up"
  /\ mtx # Producer
  /\ proc' = "poke"
  /\ running' = FALSE
  /\ UNCHANGED <<clients, mtx, hdr, payload, issued, launches, accept, serve,
                 pipe, fetch, floor, shown>>

\* Stop connects once, to wake the accept thread...
StopPoke ==
  /\ proc = "poke"
  /\ \/ \E i \in Instances :
          /\ Listening(i)
          /\ pipe' = ConnectTo(pipe, i, Stopper)
          /\ proc' = "unpoke"
     \/ /\ \A i \in Instances : ~Listening(i)
        /\ proc' = "join"
        /\ UNCHANGED pipe
  /\ UNCHANGED <<broker, launches, accept, serve, fetch, floor, shown>>

\* ...and closes that connection.
StopUnpoke ==
  /\ proc = "unpoke"
  /\ proc' = "join"
  /\ pipe' = [i \in Instances |-> IF pipe[i].client = Stopper
                                  THEN [pipe[i] EXCEPT !.client = Nobody]
                                  ELSE pipe[i]]
  /\ UNCHANGED <<broker, launches, accept, serve, fetch, floor, shown>>

\* Mutant: the accept thread is detached, not joined.
StopJoin_Detaches ==
  /\ proc = "join"
  /\ proc' = "stopped"
  /\ UNCHANGED <<broker, launches, accept, serve, pipe, fetch, floor, shown>>

\* Stop joins the accept thread, and returns.
StopJoin ==
  /\ proc = "join"
  /\ accept.pc = "off"
  /\ proc' = "stopped"
  /\ UNCHANGED <<broker, launches, accept, serve, pipe, fetch, floor, shown>>

\* The process is gone, and its threads, its memory and its handles with it.
EndProcess ==
  /\ proc' = "down"
  /\ running' = FALSE
  /\ clients' = 0
  /\ mtx' = Nobody
  /\ hdr' = 0 /\ payload' = 0
  /\ accept' = [pc |-> "off", inst |-> Nobody]
  /\ serve' = [i \in Instances |-> Thread("none")]
  /\ pipe' = [i \in Instances |->
                [pipe[i] EXCEPT !.server = FALSE,
                   !.client = IF pipe[i].client = Stopper THEN Nobody
                                                          ELSE pipe[i].client]]
  /\ UNCHANGED <<issued, launches, fetch, floor, shown>>

\* wWinMain returns.
Exit == proc = "stopped" /\ EndProcess

\* The process is killed, or one of its crash handlers ends it.
Crash == proc # "down" /\ EndProcess

-----------------------------------------------------------------------------
(* The accept thread.                                                      *)

\* while (_running.load())
AcceptCheck ==
  /\ accept.pc = "check"
  /\ accept' = [accept EXCEPT !.pc = IF running THEN "create" ELSE "off"]
  /\ UNCHANGED <<proc, broker, launches, serve, pipe, fetch, floor, shown>>

AcceptCreate ==
  /\ accept.pc = "create"
  /\ \E i \in Instances :
       /\ Free(i)
       /\ pipe' = [pipe EXCEPT ![i] = NewPipe(TRUE)]
       /\ accept' = [pc |-> "connect", inst |-> i]
  /\ UNCHANGED <<proc, broker, launches, serve, fetch, floor, shown>>

\* CreateNamedPipeW fails; after Sleep(200) the loop tests _running again.
AcceptCreateFails ==
  /\ accept.pc = "create"
  /\ \A i \in Instances : ~Free(i)
  /\ accept' = [accept EXCEPT !.pc = "check"]
  /\ UNCHANGED <<proc, broker, launches, serve, pipe, fetch, floor, shown>>

\* Mutant: the handle is not closed when the server is stopping.
AcceptConnect_Leaks ==
  LET i == accept.inst IN
  /\ accept.pc = "connect"
  /\ pipe[i].used
  /\ \/ /\ ~running
        /\ accept' = [pc |-> "off", inst |-> Nobody]
        /\ UNCHANGED <<serve, pipe>>
     \/ /\ running
        /\ pipe[i].client = Nobody
        /\ pipe' = Shut(pipe, i)
        /\ accept' = [pc |-> "check", inst |-> Nobody]
        /\ UNCHANGED serve
     \/ /\ running
        /\ pipe[i].client # Nobody
        /\ serve' = [serve EXCEPT ![i] = Thread("start")]
        /\ accept' = [pc |-> "check", inst |-> Nobody]
        /\ UNCHANGED pipe
  /\ UNCHANGED <<proc, broker, launches, fetch, floor, shown>>

\* ConnectNamedPipe has returned.  Either the server is stopping, or the
\* client came and went (ERROR_NO_DATA), or a thread is started for it.
AcceptConnect ==
  LET i == accept.inst IN
  /\ accept.pc = "connect"
  /\ pipe[i].used
  /\ \/ /\ ~running
        /\ pipe' = Shut(pipe, i)
        /\ accept' = [pc |-> "off", inst |-> Nobody]
        /\ UNCHANGED serve
     \/ /\ running
        /\ pipe[i].client = Nobody
        /\ pipe' = Shut(pipe, i)
        /\ accept' = [pc |-> "check", inst |-> Nobody]
        /\ UNCHANGED serve
     \/ /\ running
        /\ pipe[i].client # Nobody
        /\ serve' = [serve EXCEPT ![i] = Thread("start")]
        /\ accept' = [pc |-> "check", inst |-> Nobody]
        /\ UNCHANGED pipe
  /\ UNCHANGED <<proc, broker, launches, fetch, floor, shown>>

-----------------------------------------------------------------------------
(* The thread that serves instance i.                                      *)

ServeStart(i) ==
  /\ serve[i].pc = "start"
  /\ clients' = clients + 1
  /\ serve' = [serve EXCEPT ![i] = Thread("read")]
  /\ UNCHANGED <<proc, running, mtx, hdr, payload, issued, launches, accept, pipe,
                 fetch, floor, shown>>

\* ReadExact returns a request.
ServeRead(i) ==
  /\ serve[i].pc = "read"
  /\ pipe[i].reqs > 0
  /\ pipe' = [pipe EXCEPT ![i].reqs = @ - 1]
  /\ serve' = [serve EXCEPT ![i] = Thread("lock")]
  /\ UNCHANGED <<proc, broker, launches, accept, fetch, floor, shown>>

\* Mutant: the loop goes on when ReadExact fails.
ServeReadFails_Continues(i) ==
  /\ serve[i].pc = "read"
  /\ pipe[i].reqs = 0
  /\ pipe[i].client = Nobody
  /\ UNCHANGED vars

\* ReadExact fails: the client has closed its end.
ServeReadFails(i) ==
  /\ serve[i].pc = "read"
  /\ pipe[i].reqs = 0
  /\ pipe[i].client = Nobody
  /\ serve' = [serve EXCEPT ![i] = Thread("flush")]
  /\ UNCHANGED <<proc, broker, launches, accept, pipe, fetch, floor, shown>>

\* Mutant: the copy is made without the mutex.
ServeCopyHeader_Unlocked(i) ==
  /\ serve[i].pc = "lock"
  /\ serve' = [serve EXCEPT ![i].pc = "copy", ![i].hdr = hdr]
  /\ UNCHANGED <<proc, broker, launches, accept, pipe, fetch, floor, shown>>

\* The mutex is taken and the header copied...
ServeCopyHeader(i) ==
  /\ serve[i].pc = "lock"
  /\ mtx = Nobody
  /\ mtx' = i
  /\ serve' = [serve EXCEPT ![i].pc = "copy", ![i].hdr = hdr]
  /\ UNCHANGED <<proc, running, clients, hdr, payload, issued, launches, accept,
                 pipe, fetch, floor, shown>>

\* ...the payload is copied and the mutex released.
ServeCopyPayload(i) ==
  /\ serve[i].pc = "copy"
  /\ mtx' = Nobody
  /\ serve' = [serve EXCEPT ![i].pc = "write", ![i].data = payload]
  /\ UNCHANGED <<proc, running, clients, hdr, payload, issued, launches, accept,
                 pipe, fetch, floor, shown>>

\* Mutant: the next frame is sent without waiting for a request.
ServeWrite_Pushes(i) ==
  LET s == serve[i]
      unit == [part |-> s.next,
               frame |-> IF s.next = 0 THEN s.hdr ELSE s.data,
               len |-> IF s.next = 0 THEN Size(s.data) ELSE 0]
  IN
  /\ s.pc = "write"
  /\ pipe[i].client # Nobody
  /\ Len(pipe[i].down) <= 2 * Parts
  /\ pipe' = [pipe EXCEPT ![i].down = Append(@, unit)]
  /\ serve' = [serve EXCEPT ![i] =
                 IF s.next = Size(s.data) THEN Thread("lock")
                                          ELSE [s EXCEPT !.next = @ + 1]]
  /\ UNCHANGED <<proc, broker, launches, accept, fetch, floor, shown>>

\* Mutant: the last piece is not written.
ServeWrite_OneShort(i) ==
  LET s == serve[i]
      unit == [part |-> s.next,
               frame |-> IF s.next = 0 THEN s.hdr ELSE s.data,
               len |-> IF s.next = 0 THEN Size(s.data) ELSE 0]
  IN
  /\ s.pc = "write"
  /\ pipe[i].client # Nobody
  /\ pipe' = [pipe EXCEPT ![i].down = Append(@, unit)]
  /\ serve' = [serve EXCEPT ![i] =
                 IF s.next + 1 >= Size(s.data) THEN Thread("read")
                                               ELSE [s EXCEPT !.next = @ + 1]]
  /\ UNCHANGED <<proc, broker, launches, accept, fetch, floor, shown>>

\* WriteExact of the header (next = 0) or of one piece of the payload.
ServeWrite(i) ==
  LET s == serve[i]
      unit == [part |-> s.next,
               frame |-> IF s.next = 0 THEN s.hdr ELSE s.data,
               len |-> IF s.next = 0 THEN Size(s.data) ELSE 0]
  IN
  /\ s.pc = "write"
  /\ pipe[i].client # Nobody
  /\ pipe' = [pipe EXCEPT ![i].down = Append(@, unit)]
  /\ serve' = [serve EXCEPT ![i] =
                 IF s.next = Size(s.data) THEN Thread("read")
                                          ELSE [s EXCEPT !.next = @ + 1]]
  /\ UNCHANGED <<proc, broker, launches, accept, fetch, floor, shown>>

ServeWriteFails(i) ==
  /\ serve[i].pc = "write"
  /\ pipe[i].client = Nobody
  /\ serve' = [serve EXCEPT ![i] = Thread("flush")]
  /\ UNCHANGED <<proc, broker, launches, accept, pipe, fetch, floor, shown>>

\* FlushFileBuffers, DisconnectNamedPipe, CloseHandle.
ServeClose(i) ==
  /\ serve[i].pc = "flush"
  /\ pipe[i].client = Nobody \/ pipe[i].down = <<>>
  /\ pipe' = Shut(pipe, i)
  /\ serve' = [serve EXCEPT ![i] = Thread("leave")]
  /\ UNCHANGED <<proc, broker, launches, accept, fetch, floor, shown>>

\* Mutant: the thread ends without counting itself out.
ServeLeave_Uncounted(i) ==
  /\ serve[i].pc = "leave"
  /\ serve' = [serve EXCEPT ![i] = Thread("none")]
  /\ UNCHANGED <<proc, broker, launches, accept, pipe, fetch, floor, shown>>

\* The thread ends.
ServeLeave(i) ==
  /\ serve[i].pc = "leave"
  /\ clients' = clients - 1
  /\ serve' = [serve EXCEPT ![i] = Thread("none")]
  /\ UNCHANGED <<proc, running, mtx, hdr, payload, issued, launches, accept, pipe,
                 fetch, floor, shown>>

-----------------------------------------------------------------------------
(* The client c.                                                           *)

\* Mutant: a failed call keeps its handle.
Drop_KeepsHandle(c) ==
  /\ fetch' = [fetch EXCEPT ![c] = Call("failed", fetch[c].inst)]
  /\ UNCHANGED pipe

\* Close() and return false.
Drop(c) ==
  /\ fetch' = [fetch EXCEPT ![c] = Call("failed", Nobody)]
  /\ pipe' = HangUp(pipe, fetch[c].inst)

\* RequestSample calls Fetch; a connection that is open is used again.
BeginFetch(c) ==
  /\ fetch[c].pc \in Resting
  /\ fetch' = [fetch EXCEPT ![c] =
       Call(IF fetch[c].inst = Nobody THEN "connect" ELSE "send", fetch[c].inst)]
  /\ floor' = [floor EXCEPT ![c] = payload]
  /\ UNCHANGED <<proc, broker, launches, accept, serve, pipe, shown>>

\* EnsureConnected: CreateFileW opens a listening instance...
Connect(c) ==
  /\ fetch[c].pc = "connect"
  /\ \E i \in Instances :
       /\ Listening(i)
       /\ pipe' = ConnectTo(pipe, i, c)
       /\ fetch' = [fetch EXCEPT ![c] = Call("send", i)]
  /\ UNCHANGED <<proc, broker, launches, accept, serve, floor, shown>>

\* ...or finds none: not found, or every instance busy.
ConnectFails(c) ==
  /\ fetch[c].pc = "connect"
  /\ \A i \in Instances : ~Listening(i)
  /\ fetch' = [fetch EXCEPT ![c] = Call("failed", Nobody)]
  /\ UNCHANGED <<proc, broker, launches, accept, serve, pipe, floor, shown>>

WriteRequest(c) ==
  /\ fetch[c].pc = "send"
  /\ pipe[fetch[c].inst].server
  /\ pipe' = [pipe EXCEPT ![fetch[c].inst].reqs = @ + 1]
  /\ fetch' = [fetch EXCEPT ![c] = Call("header", fetch[c].inst)]
  /\ UNCHANGED <<proc, broker, launches, accept, serve, floor, shown>>

\* WriteExact fails: the server has closed its end.
WriteFails(c) ==
  /\ fetch[c].pc = "send"
  /\ ~pipe[fetch[c].inst].server
  /\ Drop(c)
  /\ UNCHANGED <<proc, broker, launches, accept, serve, floor, shown>>

\* Mutant: the last piece of the payload is left in the pipe.
ReadHeader_LeavesLast(c) ==
  LET i == fetch[c].inst
      u == Head(pipe[i].down)
  IN
  /\ fetch[c].pc = "header"
  /\ pipe[i].down # <<>>
  /\ IF u.part = 0 /\ u.frame # 0
     THEN /\ pipe' = [pipe EXCEPT ![i].down = Tail(@)]
          /\ fetch' = [fetch EXCEPT ![c] =
               [Call(IF u.len <= 1 THEN "ok" ELSE "body", i)
                  EXCEPT !.hdr = u.frame, !.len = u.len - 1]]
          /\ shown' = IF u.len <= 1 THEN [shown EXCEPT ![c] = u.frame] ELSE shown
     ELSE Drop(c) /\ UNCHANGED shown
  /\ UNCHANGED <<proc, broker, launches, accept, serve, floor>>

\* ReadExact of the header.  A header without kFrameMagic, here one of frame
\* 0 or a payload unit taken for a header, ends the connection.
ReadHeader(c) ==
  LET i == fetch[c].inst
      u == Head(pipe[i].down)
  IN
  /\ fetch[c].pc = "header"
  /\ pipe[i].down # <<>>
  /\ IF u.part = 0 /\ u.frame # 0
     THEN /\ pipe' = [pipe EXCEPT ![i].down = Tail(@)]
          /\ fetch' = [fetch EXCEPT ![c] =
               [Call(IF u.len = 0 THEN "ok" ELSE "body", i)
                  EXCEPT !.hdr = u.frame, !.len = u.len]]
          /\ shown' = IF u.len = 0 THEN [shown EXCEPT ![c] = u.frame] ELSE shown
     ELSE Drop(c) /\ UNCHANGED shown
  /\ UNCHANGED <<proc, broker, launches, accept, serve, floor>>

\* One ReadFile of ReadExact's loop over the payload; the last one returns.
ReadPayload(c) ==
  LET i == fetch[c].inst
      done == Len(fetch[c].buf) + 1 >= fetch[c].len
  IN
  /\ fetch[c].pc = "body"
  /\ pipe[i].down # <<>>
  /\ pipe' = [pipe EXCEPT ![i].down = Tail(@)]
  /\ fetch' = [fetch EXCEPT ![c].buf = Append(@, Head(pipe[i].down)),
                            ![c].pc = IF done THEN "ok" ELSE "body"]
  /\ shown' = IF done THEN [shown EXCEPT ![c] = fetch[c].hdr] ELSE shown
  /\ UNCHANGED <<proc, broker, launches, accept, serve, floor>>

\* ReadFile fails: the server's end is closed.
ReadFails(c) ==
  /\ fetch[c].pc \in {"header", "body"}
  /\ ~pipe[fetch[c].inst].server
  /\ Drop(c)
  /\ UNCHANGED <<proc, broker, launches, accept, serve, floor, shown>>

\* The client is destroyed, by its destructor or with the Frame Server.
Disconnect(c) ==
  /\ fetch[c].inst # Nobody
  /\ fetch' = [fetch EXCEPT ![c] = Call("idle", Nobody)]
  /\ pipe' = HangUp(pipe, fetch[c].inst)
  /\ UNCHANGED <<proc, broker, launches, accept, serve, floor, shown>>

-----------------------------------------------------------------------------
Stop == StopBegin \/ StopPoke \/ StopUnpoke \/ StopJoin

Accept == AcceptCheck \/ AcceptCreate \/ AcceptCreateFails \/ AcceptConnect

Serve(i) ==
  \/ ServeStart(i) \/ ServeRead(i) \/ ServeReadFails(i)
  \/ ServeCopyHeader(i) \/ ServeCopyPayload(i)
  \/ ServeWrite(i) \/ ServeWriteFails(i)
  \/ ServeClose(i) \/ ServeLeave(i)

\* The steps of a Fetch that has begun.
Fetch(c) ==
  \/ Connect(c) \/ ConnectFails(c)
  \/ WriteRequest(c) \/ WriteFails(c)
  \/ ReadHeader(c) \/ ReadPayload(c) \/ ReadFails(c)

Next ==
  \/ Launch \/ PublishHeader \/ PublishPayload \/ Stop \/ Exit \/ Crash
  \/ Accept
  \/ \E i \in Instances : Serve(i)
  \/ \E c \in Clients : BeginFetch(c) \/ Fetch(c) \/ Disconnect(c)

Spec == Init /\ [][Next]_vars

\* Threads that can run do run, ReadFile fails once its pipe is broken, and
\* a Publish that has begun ends.  A thread waiting for _mtx gets it if it is
\* released again and again (strong fairness): the critical sections copy
\* memory, and each is followed by a Sleep(33) or a read from the pipe.
\* Nothing makes the user launch or quit the broker, an application ask for
\* a frame, or a process die.
Fairness ==
  /\ WF_vars(PublishPayload)
  /\ WF_vars(StopPoke \/ StopUnpoke \/ StopJoin)
  /\ WF_vars(Accept)
  /\ \A i \in Instances : WF_vars(Serve(i)) /\ SF_vars(ServeCopyHeader(i))
  /\ \A c \in Clients : WF_vars(Fetch(c))

FairSpec == Spec /\ Fairness

-----------------------------------------------------------------------------
(* Safety.                                                                 *)

\* The frame number that heads a response is the number of every piece of
\* payload below it, all pieces are there and in order: Publish and Serve
\* never let a client see half of one frame and half of another, whatever
\* the interleaving, the crash or the reuse of a connection.
NoTornFrame ==
  \A c \in Clients :
    fetch[c].pc = "ok" =>
      /\ Len(fetch[c].buf) = Parts
      /\ \A k \in 1 .. Parts :
           fetch[c].buf[k] = [part |-> k, frame |-> fetch[c].hdr, len |-> 0]

\* How many units of the current response c has read.
Position(c) == IF fetch[c].pc = "body" THEN 1 + Len(fetch[c].buf) ELSE 0

\* Client and server stay in step on a connection that is used again and
\* again: what is in the pipe is the rest of the one response asked for, so
\* a header is never taken for payload nor payload for a header, and the
\* 4 MB the pipe is created with always has room for a response.
InStep ==
  \A c \in Clients : LET i == fetch[c].inst IN i # Nobody =>
    /\ pipe[i].client = c
    /\ pipe[i].reqs + Len(pipe[i].down) > 0 => fetch[c].pc \in {"header", "body"}
    /\ pipe[i].reqs <= 1
    /\ Position(c) + Len(pipe[i].down) <= 1 + Parts
    /\ \A k \in 1 .. Len(pipe[i].down) :
         pipe[i].down[k].part = Position(c) + k - 1

\* "The server keeps only the newest frame; each request returns that frame":
\* a Fetch never returns a frame older than the newest one that was complete
\* when the call began, not even over a crash and a relaunch of the broker.
Fresh ==
  \A c \in Clients : fetch[c].pc = "ok" => fetch[c].hdr >= floor[c]

\* An open server handle always has exactly one owner that will close it:
\* the accept thread until it is handed over, then the thread serving it.
HandlesOwned ==
  \A i \in Instances :
    /\ pipe[i].server <=> \/ accept.inst = i
                          \/ serve[i].pc \notin {"none", "leave"}
    /\ accept.inst = i => serve[i].pc \in {"none", "leave"}

\* The serving threads between their fetch_add and their fetch_sub.
Counted == {i \in Instances : serve[i].pc \notin {"none", "start"}}

\* _clients, read by the tray menu and the telemetry thread, is the number
\* of threads between their fetch_add and their fetch_sub: it cannot drift
\* however connections come and go.
ClientCountExact == clients = Cardinality(Counted)

\* When Stop has returned no pipe instance is left listening, so no client
\* can connect to a broker that is on its way out.
StoppedMeansDeaf ==
  proc = "stopped" => /\ accept.pc = "off"
                      /\ \A i \in Instances : ~Listening(i)

\* ReadFile has no timeout, so whoever waits in it must be owed something: a
\* client that has sent its request can read, or its ReadFile fails because
\* the server's end is closed, or a thread is at work on its answer, or one
\* has yet to take the request up.  No request is forgotten, and no response
\* ends before the last piece its header announces.
SomebodyAnswers ==
  \A c \in Clients : LET i == fetch[c].inst IN fetch[c].pc \in {"header", "body"} =>
    \/ pipe[i].down # <<>>
    \/ ~pipe[i].server
    \/ serve[i].pc \in {"lock", "copy", "write"}
    \/ pipe[i].reqs > 0 /\ (accept.inst = i \/ serve[i].pc \in {"start", "read"})

\* The frames a client is given never go back in time.
NeverBack == [][\A c \in Clients : shown'[c] >= shown[c]]_shown

-----------------------------------------------------------------------------
(* The inductive invariant behind NoTornFrame, InStep and HandlesOwned.    *)

\* Handles: who is at either end of each instance.
Wired ==
  /\ \A c \in Clients :
       /\ fetch[c].inst = Nobody <=> fetch[c].pc \in {"idle", "connect", "failed"}
       /\ fetch[c].inst # Nobody => pipe[fetch[c].inst].client = c
  /\ \A i \in Instances :
       /\ pipe[i].client \in Clients => fetch[pipe[i].client].inst = i
       /\ ~pipe[i].used => /\ pipe[i].client = Nobody
                           /\ pipe[i].reqs = 0 /\ pipe[i].down = <<>>
                           /\ serve[i].pc = "none"
  /\ accept.inst # Nobody <=> accept.pc = "connect"
  /\ proc = "down" => accept.pc = "off"
  /\ accept.inst # Nobody => serve[accept.inst].pc = "none"

\* The mutex: _hdr and _payload differ only while the producer holds it.
Locked ==
  /\ mtx # Producer => hdr = payload
  /\ mtx = Producer => hdr # 0
  /\ \A i \in Instances : serve[i].pc = "copy" <=> mtx = i
  /\ \A i \in Instances : serve[i].pc = "copy" => serve[i].hdr = hdr
  /\ \A i \in Instances : serve[i].pc \in {"lock", "copy"} => serve[i].next = 0
  /\ \A i \in Instances :
       serve[i].pc = "write" => /\ serve[i].data = serve[i].hdr
                               /\ serve[i].next <= Size(serve[i].data)

\* What is in the pipe is the rest of one response, of one frame.
OneResponse(c, down) ==
  \A k \in 1 .. Len(down) :
    /\ down[k].part = Position(c) + k - 1
    /\ down[k].part <= Size(down[k].frame)
    /\ down[k].len = IF down[k].part = 0 THEN Size(down[k].frame) ELSE 0
    /\ down[k].frame = down[1].frame
    /\ fetch[c].pc = "body" => down[k].frame = fetch[c].hdr

\* One request at a time: where it is, and which thread is at work on it.
Exchange(c) ==
  LET i == fetch[c].inst
      p == pipe[i]
      s == serve[i]
  IN
  /\ fetch[c].pc \in {"send", "ok"} => p.reqs = 0 /\ p.down = <<>>
  /\ p.reqs > 0 => /\ p.reqs = 1 /\ fetch[c].pc = "header" /\ p.down = <<>>
                   /\ s.pc \notin {"lock", "copy", "write"}
  /\ s.pc \in {"lock", "copy"} => fetch[c].pc = "header" /\ p.down = <<>>
  /\ s.pc = "write" =>
       /\ fetch[c].pc \in {"header", "body"}
       /\ s.next = Position(c) + Len(p.down)
       /\ fetch[c].pc = "body" => fetch[c].hdr = s.hdr
       /\ \A k \in 1 .. Len(p.down) : p.down[k].frame = s.hdr
  /\ OneResponse(c, p.down)

\* What the client has received.
Received(c) ==
  /\ fetch[c].pc \in {"send", "header"} => fetch[c].buf = <<>>
  /\ fetch[c].pc = "body" => /\ fetch[c].hdr # 0
                             /\ fetch[c].len = Parts
                             /\ Len(fetch[c].buf) < Parts
  /\ fetch[c].pc = "ok" => Len(fetch[c].buf) = Parts
  /\ fetch[c].pc \in {"body", "ok"} =>
       \A k \in 1 .. Len(fetch[c].buf) :
         fetch[c].buf[k] = [part |-> k, frame |-> fetch[c].hdr, len |-> 0]

\* All of it, together: the state between any two steps of any two threads.
IInv ==
  /\ TypeOK /\ HandlesOwned /\ Wired /\ Locked
  /\ \A c \in Clients : Received(c)
  /\ \A c \in Clients : fetch[c].inst # Nobody => Exchange(c)

-----------------------------------------------------------------------------
(* The transport implements LatestFrame.                                   *)

\* The frame already read for the call of c: copied by the thread serving
\* it, on its way through the pipe, or with its header already received.
Answer(c) ==
  LET i == fetch[c].inst IN
  CASE fetch[c].pc = "body" -> fetch[c].hdr
    [] fetch[c].pc = "header" /\ pipe[i].down # <<>> -> pipe[i].down[1].frame
    [] fetch[c].pc = "header" /\ pipe[i].down = <<>> /\ serve[i].pc = "write"
         -> serve[i].hdr
    [] OTHER -> 0

\* _payload is assigned last: it is the newest frame that is complete.
Register == INSTANCE LatestFrame WITH
  newest <- payload,
  busy <- [c \in Clients |-> fetch[c].pc \notin Resting],
  answer <- [c \in Clients |-> Answer(c)]

\* A Fetch that succeeds returns the frame that was the newest at one
\* instant between its call and its return.
ImplementsRegister == Register!Spec

-----------------------------------------------------------------------------
(* The transport implements Link, on which EndToEnd is built.              *)

\* A connection is made when the accept thread hands it over.
LinkOf(c) ==
  LET i == fetch[c].inst IN
  IF i \in {Nobody, accept.inst} THEN "none"
  ELSE IF pipe[i].server THEN "live" ELSE "dead"

\* Where the Fetch of c is, or how it ended: its request is on its way back
\* once its frame has been copied.
WhereOf(c) ==
  LET i == fetch[c].inst
      copied == \/ fetch[c].pc = "body"
                \/ fetch[c].pc = "header" /\ (pipe[i].down # <<>> \/ serve[i].pc = "write")
  IN
  IF fetch[c].pc \in Resting THEN fetch[c].pc
  ELSE IF i \in {Nobody, accept.inst} THEN "connect"
  ELSE IF copied THEN "back" ELSE "sent"

\* The frame that answers it, or did.
KindOf(c) ==
  IF WhereOf(c) = "back" THEN Answer(c)
  ELSE IF WhereOf(c) = "ok" THEN fetch[c].hdr ELSE 0

Connections == INSTANCE Link WITH
  Streams <- Clients, None <- 0,
  on <- running, label <- payload,
  link <- [c \in Clients |-> LinkOf(c)],
  req <- [c \in Clients |-> [at |-> WhereOf(c), kind |-> KindOf(c)]]

\* What EndToEnd and System assume of a connection is what the pipe gives: a
\* request is answered once, with the frame there is at one instant, a stream
\* that has been connected stays so until it goes or the process ends, and a
\* Fetch fails for one of Link's reasons only and then drops its connection.
ImplementsLink == Connections!LinkSpec

-----------------------------------------------------------------------------
(* The inductive invariant behind Fresh, NeverBack, ImplementsRegister,    *)
(* StoppedMeansDeaf, ClientCountExact, SomebodyAnswers and ImplementsLink, *)
(* on top of IInv.                                                         *)

\* The frame that is served is the newest there is, or none after a relaunch.
Newest ==
  /\ payload \in {0, issued}
  /\ mtx = Producer => hdr = issued + 1

\* What is under way to a client is neither older than what was there when it
\* called nor than what it has been given before.
InTime ==
  /\ \A c \in Clients : floor[c] <= issued /\ shown[c] <= issued
  /\ \A c \in Clients :
       Answer(c) # 0 => /\ floor[c] <= Answer(c) /\ shown[c] <= Answer(c)
                        /\ Answer(c) <= issued

\* Nothing has been sent where nobody serves yet; an accept thread that has
\* been joined has ended; every thread is counted once.
Quiet ==
  /\ accept.inst # Nobody => pipe[accept.inst].down = <<>>
  /\ proc = "stopped" => accept.pc = "off"
  /\ IsFiniteSet(Counted) /\ ClientCountExact

\* A response that nobody is at work on any more is in the pipe to its end.
Whole(c) ==
  LET i == fetch[c].inst
      p == pipe[i]
  IN
  p.server /\ p.reqs = 0 /\ serve[i].pc \notin {"lock", "copy", "write"} =>
    /\ p.down # <<>>
    /\ Position(c) + Len(p.down) = 1 + Size(p.down[1].frame)

\* A thread leaves only when its client has gone.
Attended ==
  /\ \A i \in Instances : serve[i].pc = "flush" => pipe[i].client = Nobody
  /\ \A c \in Clients : fetch[c].pc \in {"header", "body"} => Whole(c)

\* The server runs from Launch to StopBegin; a process that is to come has
\* published nothing; a client nobody serves yet has at most sent its request.
Connected ==
  /\ running <=> proc = "up"
  /\ proc = "down" => payload = 0
  /\ mtx = Producer => proc = "up"
  /\ \A c \in Clients :
       accept.inst # Nobody /\ fetch[c].inst = accept.inst
         => fetch[c].pc \in {"send", "header"}

Ordered == Newest /\ InTime /\ Fresh /\ Quiet /\ Attended /\ Connected

-----------------------------------------------------------------------------
(* Liveness, under FairSpec.                                               *)

\* Fetch has no timeout (every ReadFile blocks), so the media source relies
\* on the broker, on the kernel breaking the pipe of a dead broker, and on
\* Stop, for its call to end at all.
FetchReturns ==
  \A c \in Clients : fetch[c].pc \notin Resting ~> fetch[c].pc \in Resting

\* The thread of a client that has gone ends and its instance is free again:
\* nothing else ever reclaims the detached threads.
ServeThreadsEnd ==
  \A i \in Instances :
    serve[i].pc # "none" /\ pipe[i].client = Nobody ~> serve[i].pc = "none"

\* "so the next call transparently reconnects": while a broker with a frame
\* stays up, a client that keeps calling Fetch gets frames for ever, even
\* after crashes, failed calls and connections lost.
KeepsAsking(c) == []<>(fetch[c].pc \notin Resting)
Recovers ==
  \A c \in Clients :
    /\ <>[](proc = "up" /\ payload # 0)
    /\ KeepsAsking(c)
    /\ <>[][~Disconnect(c)]_vars
    => []<>(fetch[c].pc = "ok")

-----------------------------------------------------------------------------
(* What a comment of ipc.h says, and the code does not do.                 *)

\* "Poke the accept loop out of ConnectNamedPipe by connecting once": Stop
\* returns, if the process lives.
StopReturns == proc = "join" ~> proc # "join"

=============================================================================
