---------------------------- MODULE MediaSource ----------------------------
(***************************************************************************)
(* The media source and its one stream, as the Windows Camera Frame Server *)
(* calls them: src/src/Vcam.MediaSource/MediaSource.cpp, MediaStream.cpp   *)
(* and FrameGenerator.cpp.                                                 *)
(*                                                                         *)
(* Each caller is a thread that makes one call at a time.  The source's    *)
(* methods hold the source's lock and reach into the stream without the    *)
(* stream's; RequestSample holds the stream's lock, from its first test to *)
(* the end, through a Fetch that waits for the broker (FramePipe); a       *)
(* GetEvent holds its object's lock while it waits for an event; and       *)
(* SetStreamState and the attribute calls hold neither.                    *)
(*                                                                         *)
(* An event queue is there or it is not; of the events, the last of        *)
(* MEStreamStarted and MEStreamStopped is kept.  Every call that is in a   *)
(* RETURN_IF_FAILED may fail, and leaves what was done before it.  A null  *)
(* pointer that is used, or a render target replaced while it is drawn on, *)
(* may end the process: broken says so and nothing happens after.          *)
(***************************************************************************)
EXTENDS Naturals, FiniteSets

CONSTANTS Callers,   \* threads of the Frame Server
          Nobody     \* no caller: the lock is free

ASSUME NobodyAssumption == Nobody \notin Callers

VARIABLES
  call,      \* call[c]: the method c is in, its next step and its argument
  srcLock,   \* who holds MediaSource::_lock
  strLock,   \* who holds MediaStream::_lock
  open,      \* the source's _queue and _descriptor, and the stream's
             \* _descriptor, are not null
  queue,     \* the stream's _queue is not null
  alloc,     \* the stream's _allocator: null, provided, or initialized
  state,     \* the stream's _state
  target,    \* _generator has _renderTarget, _textFormat, _dwrite and
             \* _whiteBrush
  bitmap,    \* _generator has _bitmap, which the render target draws on
  started,   \* history: MEStreamStarted came after the last MEStreamStopped
  lapsed,    \* history: since that event a Stop has let go of the allocator
             \* the stream started with, or SetDefaultAllocator has replaced it
             \* (kept until SetStreamState is called)
  forced,    \* history: SetStreamState has been called
  unruly,    \* history: calls have overlapped, or an attribute has been asked
             \* for after Shutdown
  broken     \* the process has hit undefined behaviour

stream == <<queue, alloc, state, target, bitmap, started, lapsed>>
history == <<forced, unruly>>
vars == <<call, srcLock, strLock, open, stream, history, broken>>

States == {"stopped", "paused", "running"}

Ready == [op |-> "none", at |-> "idle", arg |-> "stopped"]

Ops == {"start", "stop", "shutdown", "allocator", "request", "setState", "ask", "askStream",
        "usage", "event", "sourceEvent", "attribute", "getSource"}

\* The steps of each method.
Steps(op) ==
  CASE op = "none" -> {"idle"}
    [] op = "start" -> {"lock", "index", "select", "stream", "target", "started",
                        "halt", "release", "stopped", "done"}
    [] op = "stop" -> {"lock", "halt", "release", "stopped", "done"}
    [] op = "shutdown" -> {"lock", "queue", "rest"}
    [] op = "allocator" -> {"lock", "index", "reset", "set"}
    [] op = "request" -> {"lock", "allocate", "fetch", "render", "deliver"}
    [] op = "setState" -> {"set", "halt", "release", "stopped"}
    [] op \in {"ask", "askStream"} -> {"lock"}
    [] op = "usage" -> {"lock", "index"}
    [] op = "event" -> {"lock", "wait", "wake"}
    [] op = "sourceEvent" -> {"lock", "wait"}
    [] op \in {"attribute", "getSource"} -> {"use"}

\* Where a method begins.
FirstStep(op) ==
  CASE op = "setState" -> "set"
    [] op \in {"attribute", "getSource"} -> "use"
    [] OTHER -> "lock"

Calls == UNION {[op : {o}, at : Steps(o), arg : States] : o \in Ops \cup {"none"}}

\* Type correctness; each method is at one of its own steps.
TypeOK ==
  /\ call \in [Callers -> Calls]
  /\ srcLock \in Callers \cup {Nobody}
  /\ strLock \in Callers \cup {Nobody}
  /\ open \in BOOLEAN /\ queue \in BOOLEAN
  /\ alloc \in {"null", "provided", "initialized"}
  /\ state \in States
  /\ target \in BOOLEAN /\ bitmap \in BOOLEAN
  /\ started \in BOOLEAN /\ lapsed \in BOOLEAN
  /\ forced \in BOOLEAN /\ unruly \in BOOLEAN /\ broken \in BOOLEAN

\* MediaStream::Initialize has made the queue and the descriptor; the
\* allocator, the target and its bitmap come later.
StreamInit ==
  /\ queue = TRUE
  /\ alloc = "null"
  /\ state = "stopped"
  /\ target = FALSE /\ bitmap = FALSE
  /\ started = FALSE /\ lapsed = FALSE

\* MediaSource::Initialize has made the source's queue and descriptor.
SourceInit == open = TRUE

\* The constructor ignores what the stream's Initialize returns, but a stream
\* without a descriptor makes the source's Initialize fail, and there is no
\* source.
Init ==
  /\ StreamInit
  /\ SourceInit
  /\ call = [c \in Callers |-> Ready]
  /\ srcLock = Nobody /\ strLock = Nobody
  /\ forced = FALSE /\ unruly = FALSE /\ broken = FALSE

-----------------------------------------------------------------------------
At(c, op, at) == ~broken /\ call[c].op = op /\ call[c].at = at

Goto(c, at) == call' = [call EXCEPT ![c].at = at]

\* A caller that waits in the stream's GetEvent is woken.
Waken(f) ==
  [d \in Callers |-> IF f[d].op = "event" /\ f[d].at = "wait"
                     THEN [f[d] EXCEPT !.at = "wake"] ELSE f[d]]

\* The method returns, and lets go of the lock it holds.
Return(c) ==
  /\ call' = [call EXCEPT ![c] = Ready]
  /\ srcLock' = IF srcLock = c THEN Nobody ELSE srcLock
  /\ strLock' = IF strLock = c THEN Nobody ELSE strLock

Locks == <<srcLock, strLock>>

\* The Frame Server calls a method: Start selects the stream (arg "running")
\* or not, SetStreamState has the state as its argument.
Begin(c) ==
  /\ ~broken
  /\ call[c] = Ready
  /\ \E op \in Ops, arg \in States :
       /\ op \notin {"start", "setState"} => arg = "stopped"
       /\ op = "start" => arg # "paused"
       /\ call' = [call EXCEPT ![c] =
            [op |-> op, at |-> FirstStep(op), arg |-> arg]]
       /\ unruly' = \/ unruly
                    \/ \E d \in Callers : call[d] # Ready
                    \/ op = "attribute" /\ ~open
  /\ UNCHANGED <<Locks, open, stream, forced, broken>>

\* Start, Stop and Shutdown take the source's lock and test _queue and
\* _descriptor; SetDefaultAllocator and GetAllocatorUsage only take the lock.
\* All but Shutdown may also fail for one of their arguments, or for memory.
LockSource(c) ==
  /\ \E op \in {"start", "stop", "shutdown", "allocator", "usage"} : At(c, op, "lock")
  /\ srcLock = Nobody
  /\ \/ /\ open \/ call[c].op \in {"allocator", "usage"}
        /\ srcLock' = c
        /\ Goto(c, CASE call[c].op \in {"start", "allocator", "usage"} -> "index"
                     [] call[c].op = "stop" -> "halt"
                     [] call[c].op = "shutdown" -> "queue")
        /\ UNCHANGED strLock
     \/ (~open \/ call[c].op # "shutdown") /\ Return(c)
  /\ UNCHANGED <<open, stream, history, broken>>

\* GetStreamIndexById asks the stream for its descriptor, under the stream's
\* lock: it waits for a RequestSample to end.  GetAllocatorUsage has its
\* answer then; the others return if there is no such stream, and Start if
\* anything it asks the two presentation descriptors for fails.
Index(c) ==
  /\ \E op \in {"start", "allocator", "usage"} : At(c, op, "index")
  /\ strLock = Nobody
  /\ \/ /\ open /\ call[c].op # "usage"
        /\ Goto(c, IF call[c].op = "start" THEN "select" ELSE "reset")
        /\ UNCHANGED Locks
     \/ Return(c)
  /\ UNCHANGED <<open, stream, history, broken>>

-----------------------------------------------------------------------------
(* Start.                                                                  *)

\* Mutant: a stream that is no longer wanted runs on.
Select_OnlyStarts(c) ==
  LET select == call[c].arg = "running"
      thisSelected == state # "stopped"
  IN
  /\ At(c, "start", "select")
  /\ Goto(c, IF select /\ ~thisSelected THEN "stream" ELSE "done")
  /\ UNCHANGED <<Locks, open, stream, history, broken>>

\* The stream counts as selected if its state is not stopped, whatever the
\* descriptor says.  If that is to change, SelectStream or DeselectStream is
\* called first, and for the former MENewStream queued; any of them may fail.
Select(c) ==
  LET select == call[c].arg = "running"
      thisSelected == state # "stopped"
  IN
  /\ At(c, "start", "select")
  /\ \/ select = thisSelected /\ Goto(c, "done") /\ UNCHANGED Locks
     \/ select # thisSelected /\ Goto(c, IF select THEN "stream" ELSE "halt") /\ UNCHANGED Locks
     \/ select # thisSelected /\ Return(c)
  /\ UNCHANGED <<open, stream, history, broken>>

\* MediaStream::Start.  Without an allocator, or a format in the type, it
\* fails, and MediaSource::Start with it; the descriptor stays as it is.
StartStream(c) ==
  /\ At(c, "start", "stream")
  /\ \/ queue /\ alloc # "null" /\ Goto(c, "target") /\ UNCHANGED Locks
     \/ Return(c)
  /\ UNCHANGED <<open, stream, history, broken>>

\* Mutant: what EnsureRenderTarget returns is ignored.
Prepare_Ignores(c) ==
  /\ At(c, "start", "target")
  /\ Goto(c, "started")
  /\ \/ UNCHANGED <<target, bitmap>>
     \/ bitmap' = FALSE /\ UNCHANGED target
     \/ bitmap' = TRUE /\ target' \in BOOLEAN
  /\ alloc' = "initialized"
  /\ broken' \in {FALSE, \E d \in Callers : At(d, "request", "render")}
  /\ UNCHANGED <<Locks, open, queue, state, started, lapsed, history>>

\* EnsureRenderTarget replaces the bitmap and the target, even while a
\* RequestSample draws on it; then the allocator is initialized.  Each step may
\* fail, and the pointer it was to set is null then: the factories, which are
\* local; the bitmap, beside the target of an earlier Start; the target or what
\* it needs; or the allocator, which may have lost what it had.
Prepare(c) ==
  /\ At(c, "start", "target")
  /\ \/ /\ Goto(c, "started")
        /\ target' = TRUE /\ bitmap' = TRUE
        /\ alloc' = "initialized"
        /\ UNCHANGED Locks
     \/ Return(c) /\ UNCHANGED <<target, bitmap, alloc>>
     \/ Return(c) /\ bitmap' = FALSE /\ UNCHANGED <<target, alloc>>
     \/ Return(c) /\ bitmap' = TRUE /\ target' \in BOOLEAN /\ UNCHANGED alloc
     \/ Return(c) /\ bitmap' = TRUE /\ target' = TRUE /\ alloc' = "provided"
  /\ broken' \in {FALSE, \E d \in Callers : At(d, "request", "render")}
  /\ UNCHANGED <<open, queue, state, started, lapsed, history>>

\* Mutant: the state is set first, and stays when the event is not queued.
Started_StateFirst(c) ==
  /\ At(c, "start", "started")
  /\ state' = "running"
  /\ lapsed' = FALSE
  /\ \/ started' = TRUE /\ call' = Waken([call EXCEPT ![c].at = "done"]) /\ UNCHANGED Locks
     \/ Return(c) /\ UNCHANGED started
  /\ UNCHANGED <<open, queue, alloc, target, bitmap, history, broken>>

\* MEStreamStarted is queued and the state set; if it cannot be queued, Start
\* fails, the state as it was and the allocator initialized.
Started(c) ==
  /\ At(c, "start", "started")
  /\ \/ /\ started' = TRUE
        /\ state' = "running"
        /\ lapsed' = FALSE
        /\ call' = Waken([call EXCEPT ![c].at = "done"])
        /\ UNCHANGED Locks
     \/ Return(c) /\ UNCHANGED <<state, started, lapsed>>
  /\ UNCHANGED <<open, queue, alloc, target, bitmap, history, broken>>

\* MESourceStarted, or for Stop DeselectStream and MESourceStopped.
Done(c) ==
  /\ At(c, "start", "done") \/ At(c, "stop", "done")
  /\ Return(c)
  /\ UNCHANGED <<open, stream, history, broken>>

-----------------------------------------------------------------------------
(* MediaStream::Stop, called by Start, by Stop and by SetStreamState.      *)

Halting(c, at) == \E op \in {"start", "stop", "setState"} : At(c, op, at)

Halt(c) ==
  /\ Halting(c, "halt")
  /\ IF queue /\ alloc # "null" THEN Goto(c, "release") /\ UNCHANGED Locks
                              ELSE Return(c)
  /\ UNCHANGED <<open, stream, history, broken>>

\* UninitializeSampleAllocator, through a pointer that SetAllocator may have
\* reset meanwhile if the caller is SetStreamState.  If it fails, Stop does,
\* the state as it was and the allocator initialized or not.
Release(c) ==
  /\ Halting(c, "release")
  /\ \/ /\ alloc # "null"
        /\ lapsed' = (started /\ ~forced)
        /\ \/ Goto(c, "stopped") /\ alloc' = "provided" /\ UNCHANGED Locks
           \/ Return(c) /\ alloc' \in {alloc, "provided"}
        /\ UNCHANGED broken
     \/ alloc = "null" /\ broken' = TRUE /\ UNCHANGED <<call, Locks, alloc, lapsed>>
  /\ UNCHANGED <<open, queue, state, target, bitmap, started, history>>

\* MEStreamStopped is queued and the state set; if it cannot be queued, Stop
\* fails, the state as it was and the allocator let go.
Stopped(c) ==
  /\ Halting(c, "stopped")
  /\ \/ /\ queue
        /\ started' = FALSE /\ lapsed' = FALSE
        /\ state' = "stopped"
        /\ call' = Waken([call EXCEPT ![c] =
             IF @.op = "setState" THEN Ready ELSE [@ EXCEPT !.at = "done"]])
        /\ UNCHANGED <<Locks, broken>>
     \/ queue /\ Return(c) /\ UNCHANGED <<started, lapsed, state, broken>>
     \/ ~queue /\ broken' = TRUE /\ UNCHANGED <<started, lapsed, state, call, Locks>>
  /\ UNCHANGED <<open, queue, alloc, target, bitmap, history>>

-----------------------------------------------------------------------------
(* Shutdown and SetDefaultAllocator.                                       *)

\* MediaStream::Shutdown, under the source's lock alone, resets the stream's
\* queue...
ShutdownQueue(c) ==
  /\ At(c, "shutdown", "queue")
  /\ queue' = FALSE
  /\ call' = Waken([call EXCEPT ![c].at = "rest"])
  /\ UNCHANGED <<Locks, open, alloc, state, target, bitmap, started, lapsed, history, broken>>

\* ...and the descriptors.
ShutdownRest(c) ==
  /\ At(c, "shutdown", "rest")
  /\ open' = FALSE
  /\ Return(c)
  /\ UNCHANGED <<stream, history, broken>>

\* SetAllocator resets _allocator...
ResetAllocator(c) ==
  /\ At(c, "allocator", "reset")
  /\ alloc' = "null"
  /\ lapsed' = (started /\ ~forced)
  /\ Goto(c, "set")
  /\ UNCHANGED <<Locks, open, queue, state, target, bitmap, started, history, broken>>

\* ...and sets it, if what was passed is one.
SetAllocator(c) ==
  /\ At(c, "allocator", "set")
  /\ alloc' \in {alloc, "provided"}
  /\ lapsed' = (started /\ ~forced)
  /\ Return(c)
  /\ UNCHANGED <<open, queue, state, target, bitmap, started, history, broken>>

-----------------------------------------------------------------------------
(* RequestSample, under the stream's lock.                                 *)

\* Mutant: the test of _allocator is missing.
LockStream_OnlyQueue(c) ==
  /\ At(c, "request", "lock")
  /\ strLock = Nobody
  /\ IF queue
     THEN strLock' = c /\ Goto(c, "allocate") /\ UNCHANGED srcLock
     ELSE Return(c)
  /\ UNCHANGED <<open, stream, history, broken>>

LockStream(c) ==
  /\ At(c, "request", "lock")
  /\ strLock = Nobody
  /\ IF queue /\ alloc # "null"
     THEN strLock' = c /\ Goto(c, "allocate") /\ UNCHANGED srcLock
     ELSE Return(c)
  /\ UNCHANGED <<open, stream, history, broken>>

\* AllocateSample, which fails if the allocator is not initialized or all of
\* its 10 samples are in use.
Allocate(c) ==
  /\ At(c, "request", "allocate")
  /\ \/ /\ alloc = "null"
        /\ broken' = TRUE
        /\ UNCHANGED <<call, Locks>>
     \/ alloc = "initialized" /\ Goto(c, "fetch") /\ UNCHANGED <<Locks, broken>>
     \/ alloc # "null" /\ Return(c) /\ UNCHANGED broken
  /\ UNCHANGED <<open, stream, history>>

\* Fetch returns a frame of the broker, or none that can be used.
Fetch(c) ==
  /\ At(c, "request", "fetch")
  /\ \E at \in {"deliver", "render"} : Goto(c, at)
  /\ UNCHANGED <<Locks, open, stream, history, broken>>

\* Mutant: a sample that could not be made is requested again from within.
Render_Again(c) ==
  /\ At(c, "request", "render")
  /\ Goto(c, IF target THEN "deliver" ELSE "lock")
  /\ UNCHANGED <<Locks, open, stream, history, broken>>

\* Without a frame the waiting pattern is rendered, if there is a target, and
\* read from the bitmap, which is not asked for; each step may fail.
Render(c) ==
  /\ At(c, "request", "render")
  /\ \/ target /\ bitmap /\ Goto(c, "deliver") /\ UNCHANGED <<Locks, broken>>
     \/ target /\ ~bitmap /\ broken' = TRUE /\ UNCHANGED <<call, Locks>>
     \/ Return(c) /\ UNCHANGED broken
  /\ UNCHANGED <<open, stream, history>>

\* Mutant: the event is queued under the source's lock.
Deliver_BothLocks(c) ==
  /\ At(c, "request", "deliver")
  /\ srcLock = Nobody
  /\ \/ Return(c) /\ UNCHANGED broken
     \/ ~queue /\ broken' = TRUE /\ UNCHANGED <<call, Locks>>
  /\ UNCHANGED <<open, stream, history>>

\* The token is set on the sample, which may fail, and MEMediaSample queued.
Deliver(c) ==
  /\ At(c, "request", "deliver")
  /\ \/ Return(c) /\ UNCHANGED broken
     \/ ~queue /\ broken' = TRUE /\ UNCHANGED <<call, Locks>>
  /\ UNCHANGED <<open, stream, history>>

-----------------------------------------------------------------------------
\* SetStreamState: "if (_state = value) return S_OK" assigns.  What is not
\* stopped, which is 0, is then the state, and nothing else is done.
SetState(c) ==
  /\ At(c, "setState", "set")
  /\ state' = call[c].arg
  /\ forced' = TRUE /\ lapsed' = FALSE
  /\ IF call[c].arg = "stopped" THEN Goto(c, "halt") /\ UNCHANGED Locks
                                ELSE Return(c)
  /\ UNCHANGED <<open, queue, alloc, target, bitmap, started, unruly, broken>>

-----------------------------------------------------------------------------
(* Calls that change nothing of the stream, but take locks or take none.   *)

\* BeginGetEvent, EndGetEvent, QueueEvent, CreatePresentationDescriptor and
\* the other queries of the source, from lock to return.
AskSource(c) ==
  /\ At(c, "ask", "lock")
  /\ srcLock = Nobody
  /\ Return(c)
  /\ UNCHANGED <<open, stream, history, broken>>

ShuttingDown == \E d \in Callers : At(d, "shutdown", "rest")

\* The same of the stream: its lock is taken alone, so that a Shutdown may
\* come between the test of _queue or _descriptor and its use.
AskStream(c) ==
  /\ At(c, "askStream", "lock")
  /\ strLock = Nobody
  /\ \/ Return(c) /\ UNCHANGED broken
     \/ ShuttingDown /\ broken' = TRUE /\ UNCHANGED <<call, Locks>>
  /\ UNCHANGED <<open, stream, history>>

\* The stream's GetEvent, without MF_EVENT_FLAG_NO_WAIT: an event is there,
\* or it waits for one with the lock held.
GetEvent(c) ==
  /\ At(c, "event", "lock")
  /\ strLock = Nobody
  /\ \/ Return(c)
     \/ queue /\ Goto(c, "wait") /\ strLock' = c /\ UNCHANGED srcLock
  /\ UNCHANGED <<open, stream, history, broken>>

\* The event it waits for, or the end of the queue, has come; Shutdown may
\* have released the queue the wait was in.
GotEvent(c) ==
  /\ At(c, "event", "wake")
  /\ \/ Return(c) /\ UNCHANGED broken
     \/ ~queue /\ broken' = TRUE /\ UNCHANGED <<call, Locks>>
  /\ UNCHANGED <<open, stream, history>>

\* The source's GetEvent.  Whoever queues an event of the source, or ends the
\* queue, holds the source's lock, so that a wait never ends.
GetSourceEvent(c) ==
  /\ At(c, "sourceEvent", "lock")
  /\ srcLock = Nobody
  /\ \/ Return(c)
     \/ open /\ Goto(c, "wait") /\ srcLock' = c /\ UNCHANGED strLock
  /\ UNCHANGED <<open, stream, history, broken>>

\* The methods of IMFAttributes use _attributes, which Shutdown resets, with
\* no lock and no test but an assert...
Attribute(c) ==
  /\ At(c, "attribute", "use")
  /\ \/ open /\ Return(c) /\ UNCHANGED broken
     \/ (~open \/ ShuttingDown) /\ broken' = TRUE /\ UNCHANGED <<call, Locks>>
  /\ UNCHANGED <<open, stream, history>>

\* ...and GetMediaSource uses _source with a test and no lock.
GetMediaSource(c) ==
  /\ At(c, "getSource", "use")
  /\ \/ Return(c) /\ UNCHANGED broken
     \/ ShuttingDown /\ broken' = TRUE /\ UNCHANGED <<call, Locks>>
  /\ UNCHANGED <<open, stream, history>>

-----------------------------------------------------------------------------
\* The steps of a call that has begun.
Work(c) ==
  \/ LockSource(c) \/ Index(c)
  \/ Select(c) \/ StartStream(c) \/ Prepare(c) \/ Started(c) \/ Done(c)
  \/ Halt(c) \/ Release(c) \/ Stopped(c)
  \/ ShutdownQueue(c) \/ ShutdownRest(c)
  \/ ResetAllocator(c) \/ SetAllocator(c)
  \/ LockStream(c) \/ Allocate(c) \/ Fetch(c) \/ Render(c) \/ Deliver(c)
  \/ SetState(c)
  \/ AskSource(c) \/ AskStream(c) \/ GetEvent(c) \/ GotEvent(c) \/ GetSourceEvent(c)
  \/ Attribute(c) \/ GetMediaSource(c)

\* A caller waits in GetEvent for an event.
Waiting == \E c \in Callers : call[c].op \in {"event", "sourceEvent"} /\ call[c].at = "wait"

\* The process has ended, or everybody waits for an event.
Gone == (broken \/ Waiting) /\ UNCHANGED vars

Next == (\E c \in Callers : Begin(c) \/ Work(c)) \/ Gone

Spec == Init /\ [][Next]_vars

\* Threads in a call run, Fetch returns (FramePipe's FetchReturns), and a
\* lock that is free again and again is got at last.  Only where a call waits
\* for a lock is this more than weak fairness: no other step, once enabled, is
\* disabled by another caller unless the process ends.
Fairness == \A c \in Callers : SF_vars(Work(c))

FairSpec == Spec /\ Fairness

-----------------------------------------------------------------------------
(* Safety.                                                                 *)

\* When MediaSource::Start is about to queue MESourceStarted the stream is
\* what its caller asked for, whichever of the calls that RETURN_IF_FAILED
\* guards has failed in an earlier Start or Stop: stopped, or started and its
\* allocator initialized.  The one exception is a stream that runs on after a
\* Stop that failed at UninitializeSampleAllocator or at MEStreamStopped, or
\* after SetDefaultAllocator (lapsed): Start takes it for selected and leaves
\* the allocator as it is.  After SetStreamState (forced) nothing is claimed.
StartDecides ==
  \A c \in Callers :
    call[c].op = "start" /\ call[c].at = "done" /\ ~forced /\ ~broken =>
      IF call[c].arg = "running"
      THEN state = "running" /\ started /\ (alloc = "initialized" \/ lapsed)
      ELSE state = "stopped" /\ ~started

\* Whenever no call holds the source's lock, the state and the events agree:
\* the stream runs if and only if the last it told is that it started,
\* wherever an earlier Start or Stop has failed, at the queueing of
\* MEStreamStarted and of MEStreamStopped too.  (Not after SetStreamState.)
EventsAgree ==
  srcLock = Nobody /\ ~forced /\ ~broken => (state = "running" <=> started)

\* A stream that runs can render the waiting pattern: a RequestSample for
\* which the broker has no frame finds the target and the bitmap below it,
\* though a later Start may have failed at any step of EnsureRenderTarget.
PatternReady == state = "running" /\ ~forced => target /\ bitmap

\* RequestSample is about to render the pattern, and of what that needs
\* _bitmap alone, for which RenderFallbackNV12 does not look, is null.
Blind(c) ==
  call[c].op = "request" /\ call[c].at = "render" /\ target /\ ~bitmap

\* A Frame Server that makes one call after the other, in whatever order, and
\* asks for no attribute after Shutdown (which unruly counts) makes the code
\* use a null pointer, or a target it has replaced, in one way only: the null
\* _bitmap.  Everywhere else the tests at the head of each method are enough,
\* wherever an earlier call has failed.
OneByOneIsSafe == broken => unruly \/ \E c \in Callers : Blind(c)

\* Where a method waits for a lock: at its entry, and the source's methods in
\* the stream's GetStreamDescriptor, their own lock held.  The locks are not
\* recursive.
NeedsSource(c) ==
  /\ call[c].op \in {"start", "stop", "shutdown", "allocator", "usage", "ask", "sourceEvent"}
  /\ call[c].at = "lock"
NeedsStream(c) ==
  \/ call[c].at = "index"
  \/ call[c].op \in {"request", "askStream", "event"} /\ call[c].at = "lock"

Blocked(c) ==
  \/ NeedsSource(c) /\ srcLock # Nobody
  \/ NeedsStream(c) /\ strLock # Nobody

\* The two locks are never waited for in a circle: while calls are under way
\* and nobody waits for an event, one of them can go on, whatever the number
\* of threads and wherever each of them is.
NoMutualWait ==
  (\E c \in Callers : call[c] # Ready) /\ ~Waiting /\ ~broken =>
    \E c \in Callers : call[c] # Ready /\ ~Blocked(c)

-----------------------------------------------------------------------------
(* The inductive invariant the proofs of MediaSourceProofs use.            *)

\* Who is at which step holds which lock.
HoldsSource(c) ==
  /\ call[c].op \in {"start", "stop", "shutdown", "allocator", "usage", "sourceEvent"}
  /\ call[c].at # "lock"
HoldsStream(c) == call[c].op \in {"request", "event"} /\ call[c].at # "lock"

LocksHeld ==
  \A c \in Callers : (srcLock = c <=> HoldsSource(c)) /\ (strLock = c <=> HoldsStream(c))

\* How far a Start has come, and what the stream is meanwhile, which only the
\* holder of the source's lock and SetStreamState change.
Starting(c) ==
  /\ call[c].at \in {"stream", "target", "started"} =>
       state = "stopped" /\ call[c].arg = "running"
  /\ call[c].at = "started" => target /\ bitmap /\ alloc = "initialized"
  /\ call[c].at \in {"halt", "release", "stopped"} => call[c].arg # "running"
  /\ call[c].at = "done" => (call[c].arg = "running" <=> state = "running")

Agreed ==
  ~forced =>
    /\ state # "paused"
    /\ state = "running" <=> started
    /\ state = "running" => target /\ bitmap /\ (alloc = "initialized" \/ lapsed)
    /\ \A c \in Callers : call[c].op = "start" => Starting(c)
    /\ \A c \in Callers : call[c].op = "setState" => call[c].at = "set"

\* What a call that is alone has found still holds when it is used.
Tested(c) ==
  /\ call[c].op = "request" =>
       /\ call[c].at # "lock" => queue
       /\ call[c].at = "allocate" => alloc # "null"
  /\ call[c].op \in {"start", "stop", "setState"} =>
       /\ call[c].at \in {"release", "stopped"} => queue
       /\ call[c].at = "release" => alloc # "null"
  /\ call[c].op = "attribute" => open
  /\ call[c].op = "event" => call[c].at # "wake"

Orderly ==
  ~unruly =>
    /\ broken => \E c \in Callers : Blind(c)
    /\ \A c, d \in Callers : call[c] # Ready /\ call[d] # Ready => c = d
    /\ \A c \in Callers : Tested(c)

IInv == TypeOK /\ LocksHeld /\ Agreed /\ Orderly

-----------------------------------------------------------------------------
(* Liveness, under FairSpec.                                               *)

\* Every call returns: a Start that waits for a RequestSample that waits for
\* the broker waits no longer than that.  Only a GetEvent that waits for ever
\* can keep the others from returning.
CallsReturn ==
  []<>~Waiting => \A c \in Callers : call[c] # Ready ~> call[c] = Ready \/ broken

-----------------------------------------------------------------------------
(* What the code says of itself, and does not do.                          *)

\* "RETURN_HR_IF(MF_E_SHUTDOWN, !_allocator || !_queue)": a RequestSample that
\* passes this test can use both to its end.
RequestHasBoth ==
  \A c \in Callers :
    /\ At(c, "request", "allocate") => alloc # "null"
    /\ At(c, "request", "deliver") => queue

\* "if (!(_renderTarget && _textFormat && _dwrite && _whiteBrush)) return
\* E_FAIL": a request for the waiting pattern that passes this test has all
\* that the pattern is drawn with, and read from.
GuardSuffices == \A c \in Callers : At(c, "request", "render") /\ target => bitmap

=============================================================================
