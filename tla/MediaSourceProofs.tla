------------------------- MODULE MediaSourceProofs -------------------------
(***************************************************************************)
(* What holds of the media source for any number of callers.  The parts of *)
(* the inductive invariant build on each other: the types, then who holds  *)
(* which lock, then the agreement of state and events, then the safety of  *)
(* callers that take turns.                                                *)
(***************************************************************************)
EXTENDS MediaSource, TLAPS

-----------------------------------------------------------------------------
(* Records of calls, and the ways a step changes them.                     *)

\* What a call record is made of.
LEMMA CallIs ==
  ASSUME NEW r \in Calls
  PROVE  /\ r = [op |-> r.op, at |-> r.at, arg |-> r.arg]
         /\ r.op \in Ops \cup {"none"}
         /\ r.at \in Steps(r.op)
         /\ r.arg \in States
<1>1. PICK o \in Ops \cup {"none"} : r \in [op : {o}, at : Steps(o), arg : States]
  BY DEF Calls
<1> QED
  BY <1>1

\* Any operation with one of its steps and a state is a call record.
LEMMA MakeCall ==
  ASSUME NEW o \in Ops \cup {"none"}, NEW a \in Steps(o), NEW g \in States
  PROVE  [op |-> o, at |-> a, arg |-> g] \in Calls
<1>1. [op |-> o, at |-> a, arg |-> g] \in [op : {o}, at : Steps(o), arg : States]
  OBVIOUS
<1> QED
  BY <1>1 DEF Calls

LEMMA ReadyIsCall == Ready \in Calls
<1>1. "none" \in Ops \cup {"none"} /\ "idle" \in Steps("none") /\ "stopped" \in States
  BY DEF Steps, States
<1> QED
  BY <1>1, MakeCall DEF Ready

\* The calls of the others are what they were.
Kept(c) == \A d \in Callers \ {c} : call'[d] = call[d]

\* The same, but for one that waited in GetEvent and is woken.
KeptOrWoken(c) ==
  \A d \in Callers \ {c} :
    /\ call'[d].op = call[d].op
    /\ call'[d].arg = call[d].arg
    /\ \/ call'[d] = call[d]
       \/ call[d].op = "event" /\ call[d].at = "wait" /\ call'[d].at = "wake"

Typed == call \in [Callers -> Calls]

\* Goto changes the step of one call.
LEMMA Moves ==
  ASSUME Typed, NEW c \in Callers, NEW at \in Steps(call[c].op), Goto(c, at)
  PROVE  /\ Typed'
         /\ call'[c].op = call[c].op /\ call'[c].arg = call[c].arg /\ call'[c].at = at
         /\ Kept(c)
<1> DEFINE r == [op |-> call[c].op, at |-> at, arg |-> call[c].arg]
<1>1. call[c] \in Calls
  BY DEF Typed
<1>2. /\ call[c] = [op |-> call[c].op, at |-> call[c].at, arg |-> call[c].arg]
      /\ call[c].op \in Ops \cup {"none"} /\ call[c].arg \in States
  BY <1>1, CallIs
<1>3. r \in Calls
  BY <1>2, MakeCall
<1>4. [call[c] EXCEPT !.at = at] = r
  BY <1>2
<1>5. call' = [call EXCEPT ![c] = r]
  BY <1>4 DEF Goto
<1> QED
  BY <1>3, <1>5 DEF Typed, Kept

\* Return makes one caller ready.
LEMMA Returns ==
  ASSUME Typed, NEW c \in Callers, Return(c)
  PROVE  /\ Typed'
         /\ call'[c] = Ready
         /\ Kept(c)
BY ReadyIsCall DEF Typed, Return, Kept

\* A step of c that wakes a waiting caller.
LEMMA Wakes ==
  ASSUME Typed, NEW c \in Callers, call[c].op # "event", NEW r \in Calls, r.op # "event",
         call' = Waken([call EXCEPT ![c] = r])
  PROVE  Typed' /\ call'[c] = r /\ KeptOrWoken(c)
<1> DEFINE f == [call EXCEPT ![c] = r]
<1>1. f \in [Callers -> Calls] /\ f[c] = r /\ \A d \in Callers \ {c} : f[d] = call[d]
  BY DEF Typed
<1> DEFINE w(d) == IF f[d].op = "event" /\ f[d].at = "wait" THEN [f[d] EXCEPT !.at = "wake"]
                   ELSE f[d]
<1>2. call' = [d \in Callers |-> w(d)]
  BY DEF Waken
<1>3. ASSUME NEW d \in Callers
      PROVE  /\ w(d) \in Calls
             /\ w(d).op = f[d].op /\ w(d).arg = f[d].arg
             /\ \/ w(d) = f[d]
                \/ f[d].op = "event" /\ f[d].at = "wait" /\ w(d).at = "wake"
  <2>1. CASE f[d].op = "event" /\ f[d].at = "wait"
    <3>1. f[d] = [op |-> f[d].op, at |-> f[d].at, arg |-> f[d].arg] /\ f[d].arg \in States
      BY <1>1, CallIs
    <3>2. w(d) = [op |-> "event", at |-> "wake", arg |-> f[d].arg]
      BY <2>1, <3>1
    <3>3. "event" \in Ops \cup {"none"} /\ "wake" \in Steps("event")
      BY DEF Ops, Steps
    <3> HIDE DEF w
    <3> QED
      BY <2>1, <3>1, <3>2, <3>3, MakeCall
  <2>2. CASE ~(f[d].op = "event" /\ f[d].at = "wait")
    BY <1>1, <2>2
  <2> QED
    BY <2>1, <2>2
<1> HIDE DEF f, w
<1>4. \A d \in Callers : call'[d] = w(d)
  BY <1>2
<1>5. Typed'
  BY <1>2, <1>3 DEF Typed
<1>6. call'[c] = r
  BY <1>1, <1>3, <1>4
<1>7. KeptOrWoken(c)
  BY <1>1, <1>3, <1>4 DEF KeptOrWoken
<1> QED
  BY <1>5, <1>6, <1>7

\* A step of c that wakes a waiting caller and moves c on.
LEMMA WakesAndMoves ==
  ASSUME Typed, NEW c \in Callers, call[c].op # "event", NEW at \in Steps(call[c].op),
         call' = Waken([call EXCEPT ![c].at = at])
  PROVE  /\ Typed'
         /\ call'[c].op = call[c].op /\ call'[c].arg = call[c].arg /\ call'[c].at = at
         /\ KeptOrWoken(c)
<1> DEFINE r == [op |-> call[c].op, at |-> at, arg |-> call[c].arg]
<1>1. call[c] \in Calls
  BY DEF Typed
<1>2. /\ call[c] = [op |-> call[c].op, at |-> call[c].at, arg |-> call[c].arg]
      /\ call[c].op \in Ops \cup {"none"} /\ call[c].arg \in States
  BY <1>1, CallIs
<1>3. r \in Calls /\ r.op # "event"
  BY <1>2, MakeCall
<1>4. [call[c] EXCEPT !.at = at] = r
  BY <1>2
<1>6. call' = Waken([call EXCEPT ![c] = r])
  BY <1>4
<1>5. Typed' /\ call'[c] = r /\ KeptOrWoken(c)
  <2> HIDE DEF r
  <2> QED
    BY <1>3, <1>6, Wakes
<1> QED
  BY <1>5

\* MediaStream::Stop, when it has stopped: SetStreamState returns, Start and
\* Stop of the source go on.
HasStopped(c) ==
  call' = Waken([call EXCEPT ![c] =
    IF @.op = "setState" THEN Ready ELSE [@ EXCEPT !.at = "done"]])

LEMMA StoppedMoves ==
  ASSUME Typed, NEW c \in Callers, Halting(c, "stopped"), HasStopped(c)
  PROVE  /\ Typed'
         /\ KeptOrWoken(c)
         /\ call[c].op = "setState" => call'[c] = Ready
         /\ call[c].op # "setState" =>
              call'[c].op = call[c].op /\ call'[c].arg = call[c].arg /\ call'[c].at = "done"
<1>1. call[c].op \in {"start", "stop", "setState"}
  BY DEF Halting, At
<1>2. CASE call[c].op = "setState"
  <2>1. call' = Waken([call EXCEPT ![c] = Ready])
    BY <1>2 DEF HasStopped
  <2> QED
    BY <1>2, <2>1, Wakes, ReadyIsCall DEF Ready
<1>3. CASE call[c].op # "setState"
  <2>1. call' = Waken([call EXCEPT ![c].at = "done"])
    BY <1>3 DEF HasStopped
  <2>2. "done" \in Steps(call[c].op)
    BY <1>1, <1>3 DEF Steps
  <2> QED
    BY <1>1, <1>3, <2>1, <2>2, WakesAndMoves
<1> QED
  BY <1>2, <1>3

\* The steps that Start, Stop and SetStreamState share.
LEMMA HaltingSteps ==
  ASSUME NEW c, NEW at, Halting(c, at)
  PROVE  {"halt", "release", "stopped"} \subseteq Steps(call[c].op)
BY DEF Halting, At, Steps

LEMMA KeptIsKeptOrWoken == ASSUME NEW c, Kept(c) PROVE KeptOrWoken(c)
BY DEF Kept, KeptOrWoken

-----------------------------------------------------------------------------
(* Types.                                                                  *)

\* Init has the types of TypeOK.
LEMMA InitTypes == Init => TypeOK
BY ReadyIsCall DEF Init, StreamInit, SourceInit, TypeOK, States

\* So has every step that keeps them...
LEMMA BeginTypes ==
  ASSUME TypeOK, NEW c \in Callers, Begin(c)
  PROVE  TypeOK'
<1>1. PICK op \in Ops, arg \in States :
        call' = [call EXCEPT ![c] = [op |-> op, at |-> FirstStep(op), arg |-> arg]]
  BY DEF Begin
<1>2. FirstStep(op) \in Steps(op)
  BY DEF Ops, FirstStep, Steps
<1>3. [op |-> op, at |-> FirstStep(op), arg |-> arg] \in Calls
  BY <1>2, MakeCall
<1>4. unruly' \in BOOLEAN
  BY DEF Begin, TypeOK
<1> QED
  BY <1>1, <1>3, <1>4 DEF Begin, TypeOK, Locks, stream, history

LEMMA WorkTypes ==
  ASSUME TypeOK, NEW c \in Callers, Work(c)
  PROVE  TypeOK'
<1> USE DEF TypeOK, Typed, At, Locks, stream, history
<1>1. CASE LockSource(c)
  BY <1>1, Moves, Returns DEF LockSource, Return, Steps
<1>2. CASE Index(c)
  BY <1>2, Moves, Returns DEF Index, Return, Steps
<1>3. CASE Select(c)
  BY <1>3, Moves, Returns DEF Select, Return, Steps
<1>4. CASE StartStream(c)
  BY <1>4, Moves, Returns DEF StartStream, Return, Steps
<1>5. CASE Prepare(c)
  BY <1>5, Moves, Returns DEF Prepare, Return, Steps
<1>6. CASE Started(c)
  <2>1. CASE Return(c)
    BY <1>6, <2>1, Returns DEF Started, Return, States
  <2>2. CASE ~Return(c)
    <3>1. Typed'
      BY <1>6, <2>2, WakesAndMoves DEF Started, Steps
    <3> QED
      BY <1>6, <2>2, <3>1 DEF Started, States
  <2> QED
    BY <2>1, <2>2
<1>7. CASE Done(c)
  BY <1>7, Returns DEF Done, Return
<1>8. CASE Halt(c)
  BY <1>8, Moves, Returns DEF Halt, Halting, Return, Steps
<1>9. CASE Release(c)
  <2>1. CASE Return(c)
    BY <1>9, <2>1, Returns DEF Release, Return
  <2>2. CASE ~Return(c)
    BY <1>9, <2>2, Moves, HaltingSteps DEF Release
  <2> QED
    BY <2>1, <2>2
<1>10. CASE Stopped(c)
  <2>1. CASE Return(c)
    BY <1>10, <2>1, Returns DEF Stopped, Return, States
  <2>2. CASE ~Return(c)
    BY <1>10, <2>2, StoppedMoves DEF Stopped, HasStopped, States
  <2> QED
    BY <2>1, <2>2
<1>11. CASE ShutdownQueue(c)
  <2>1. Typed'
    BY <1>11, WakesAndMoves DEF ShutdownQueue, Steps
  <2> QED
    BY <1>11, <2>1 DEF ShutdownQueue
<1>12. CASE ShutdownRest(c)
  BY <1>12, Returns DEF ShutdownRest, Return
<1>13. CASE ResetAllocator(c)
  BY <1>13, Moves DEF ResetAllocator, Steps
<1>14. CASE SetAllocator(c)
  BY <1>14, Returns DEF SetAllocator, Return
<1>15. CASE LockStream(c)
  BY <1>15, Moves, Returns DEF LockStream, Return, Steps
<1>16. CASE Allocate(c)
  BY <1>16, Moves, Returns DEF Allocate, Return, Steps
<1>17. CASE Fetch(c)
  BY <1>17, Moves DEF Fetch, Steps
<1>18. CASE Render(c)
  BY <1>18, Moves, Returns DEF Render, Return, Steps
<1>19. CASE Deliver(c)
  BY <1>19, Returns DEF Deliver, Return
<1>20. CASE SetState(c)
  BY <1>20, Moves, Returns, CallIs DEF SetState, Return, Steps, States
<1>21. CASE AskSource(c)
  BY <1>21, Returns DEF AskSource, Return
<1>22. CASE AskStream(c)
  BY <1>22, Returns DEF AskStream, Return
<1>23. CASE GetEvent(c)
  BY <1>23, Moves, Returns DEF GetEvent, Return, Steps
<1>24. CASE GotEvent(c)
  BY <1>24, Returns DEF GotEvent, Return
<1>25. CASE GetSourceEvent(c)
  BY <1>25, Moves, Returns DEF GetSourceEvent, Return, Steps
<1>26. CASE Attribute(c)
  BY <1>26, Returns DEF Attribute, Return
<1>27. CASE GetMediaSource(c)
  BY <1>27, Returns DEF GetMediaSource, Return
<1> QED
  BY <1>1, <1>2, <1>3, <1>4, <1>5, <1>6, <1>7, <1>8, <1>9, <1>10, <1>11, <1>12, <1>13, <1>14, <1>15, <1>16, <1>17, <1>18, <1>19, <1>20, <1>21, <1>22, <1>23, <1>24, <1>25, <1>26, <1>27 DEF Work

-----------------------------------------------------------------------------
(* Locks.                                                                  *)

\* The callers that are only woken hold what they held.
LEMMA LocksFrame ==
  ASSUME LocksHeld, NEW c \in Callers, KeptOrWoken(c),
         srcLock' = c <=> HoldsSource(c)',
         strLock' = c <=> HoldsStream(c)',
         \A d \in Callers \ {c} : (srcLock' = d <=> srcLock = d) /\ (strLock' = d <=> strLock = d)
  PROVE  LocksHeld'
<1> SUFFICES ASSUME NEW d \in Callers
             PROVE  /\ srcLock' = d <=> HoldsSource(d)'
                    /\ strLock' = d <=> HoldsStream(d)'
  BY DEF LocksHeld
<1>1. CASE d = c
  BY <1>1
<1>2. CASE d # c
  <2>1. HoldsSource(d)' <=> HoldsSource(d)
    BY <1>2 DEF KeptOrWoken, HoldsSource
  <2>2. HoldsStream(d)' <=> HoldsStream(d)
    BY <1>2 DEF KeptOrWoken, HoldsStream
  <2> QED
    BY <1>2, <2>1, <2>2 DEF LocksHeld
<1> QED
  BY <1>1, <1>2

LEMMA ReturnLocks ==
  ASSUME TypeOK, LocksHeld, NEW c \in Callers, Return(c)
  PROVE  LocksHeld'
<1>1. call'[c] = Ready /\ KeptOrWoken(c)
  BY Returns, KeptIsKeptOrWoken DEF TypeOK, Typed
<1>2. ~HoldsSource(c)' /\ ~HoldsStream(c)'
  BY <1>1 DEF Ready, HoldsSource, HoldsStream
<1>3. srcLock' # c /\ strLock' # c
  BY NobodyAssumption DEF Return
<1>4. \A d \in Callers \ {c} : (srcLock' = d <=> srcLock = d) /\ (strLock' = d <=> strLock = d)
  BY NobodyAssumption DEF Return
<1> QED
  BY <1>1, <1>2, <1>3, <1>4, LocksFrame

\* A move between two steps that hold the same locks.
LEMMA MoveLocks ==
  ASSUME TypeOK, LocksHeld, NEW c \in Callers, NEW at \in Steps(call[c].op),
         KeptOrWoken(c), call'[c].op = call[c].op, call'[c].at = at,
         (call[c].at = "lock") = (at = "lock"), UNCHANGED Locks
  PROVE  LocksHeld'
<1>1. srcLock' = c <=> HoldsSource(c)'
  BY DEF LocksHeld, HoldsSource, Locks
<1>2. strLock' = c <=> HoldsStream(c)'
  BY DEF LocksHeld, HoldsStream, Locks
<1> QED
  BY <1>1, <1>2, LocksFrame DEF Locks

\* A step that changes neither the calls nor the locks.
LEMMA StillLocks ==
  ASSUME LocksHeld, UNCHANGED <<call, Locks>>
  PROVE  LocksHeld'
BY DEF LocksHeld, HoldsSource, HoldsStream, Locks

\* A step that takes the source's lock.
LEMMA TakeSource ==
  ASSUME LocksHeld, NEW c \in Callers, NEW at,
         call[c].op \in {"start", "stop", "shutdown", "allocator", "usage", "sourceEvent"},
         KeptOrWoken(c), call'[c].op = call[c].op, call'[c].at = at, at # "lock",
         srcLock = Nobody, srcLock' = c, strLock' = strLock
  PROVE  LocksHeld'
<1>1. srcLock' = c <=> HoldsSource(c)'
  BY DEF HoldsSource
<1>2. strLock' = c <=> HoldsStream(c)'
  BY DEF HoldsStream, LocksHeld
<1>3. \A d \in Callers \ {c} : (srcLock' = d <=> srcLock = d) /\ (strLock' = d <=> strLock = d)
  BY NobodyAssumption
<1> QED
  BY <1>1, <1>2, <1>3, LocksFrame

\* A step that takes the stream's lock.
LEMMA TakeStream ==
  ASSUME LocksHeld, NEW c \in Callers, NEW at,
         call[c].op \in {"request", "event"},
         KeptOrWoken(c), call'[c].op = call[c].op, call'[c].at = at, at # "lock",
         strLock = Nobody, strLock' = c, srcLock' = srcLock
  PROVE  LocksHeld'
<1>1. srcLock' = c <=> HoldsSource(c)'
  BY DEF HoldsSource, LocksHeld
<1>2. strLock' = c <=> HoldsStream(c)'
  BY DEF HoldsStream
<1>3. \A d \in Callers \ {c} : (srcLock' = d <=> srcLock = d) /\ (strLock' = d <=> strLock = d)
  BY NobodyAssumption
<1> QED
  BY <1>1, <1>2, <1>3, LocksFrame

LEMMA BeginLocks ==
  ASSUME TypeOK, LocksHeld, NEW c \in Callers, Begin(c)
  PROVE  LocksHeld'
<1>1. PICK op \in Ops, arg \in States :
        call' = [call EXCEPT ![c] = [op |-> op, at |-> FirstStep(op), arg |-> arg]]
  BY DEF Begin
<1>2. call'[c].op = op /\ call'[c].at = FirstStep(op) /\ KeptOrWoken(c)
  BY <1>1 DEF KeptOrWoken, TypeOK
<1>3. ~HoldsSource(c)' /\ ~HoldsStream(c)'
  BY <1>2 DEF HoldsSource, HoldsStream, FirstStep, Ops
<1>4. ~HoldsSource(c) /\ ~HoldsStream(c)
  BY DEF Begin, Ready, HoldsSource, HoldsStream
<1> QED
  BY <1>2, <1>3, <1>4, LocksFrame DEF Begin, Locks, LocksHeld

LEMMA WorkLocks ==
  ASSUME TypeOK, LocksHeld, NEW c \in Callers, Work(c)
  PROVE  LocksHeld'
<1> USE DEF Typed, At
<1>0. Typed
  BY DEF TypeOK
<1>1. CASE LockSource(c)
  <2>1. CASE Return(c)
    BY <2>1, ReturnLocks
  <2>2. CASE ~Return(c)
    <3>1. PICK op \in {"start", "stop", "shutdown", "allocator", "usage"} :
            call[c].op = op /\ call[c].at = "lock"
      BY <1>1 DEF LockSource
    <3>2. PICK at \in {"index", "halt", "queue"} : Goto(c, at) /\ at \in Steps(call[c].op)
      BY <1>1, <2>2, <3>1 DEF LockSource, Steps
    <3>3. KeptOrWoken(c) /\ call'[c].op = call[c].op /\ call'[c].at = at
      BY <1>0, <3>2, Moves, KeptIsKeptOrWoken
    <3> QED
      BY <1>1, <2>2, <3>1, <3>3, TakeSource DEF LockSource
  <2> QED
    BY <2>1, <2>2
<1>2. CASE Index(c)
  BY <1>0, <1>2, Moves, KeptIsKeptOrWoken, MoveLocks, ReturnLocks DEF Index, Steps
<1>3. CASE Select(c)
  BY <1>0, <1>3, Moves, KeptIsKeptOrWoken, MoveLocks, ReturnLocks DEF Select, Steps
<1>4. CASE StartStream(c)
  BY <1>0, <1>4, Moves, KeptIsKeptOrWoken, MoveLocks, ReturnLocks DEF StartStream, Steps
<1>5. CASE Prepare(c)
  BY <1>0, <1>5, Moves, KeptIsKeptOrWoken, MoveLocks, ReturnLocks DEF Prepare, Steps
<1>6. CASE Started(c)
  BY <1>0, <1>6, WakesAndMoves, MoveLocks, ReturnLocks DEF Started, Steps
<1>7. CASE Done(c)
  BY <1>0, <1>7, ReturnLocks DEF Done
<1>8. CASE Halt(c)
  BY <1>0, <1>8, Moves, KeptIsKeptOrWoken, HaltingSteps, MoveLocks, ReturnLocks DEF Halt, Halting
<1>9. CASE Release(c)
  BY <1>0, <1>9, Moves, KeptIsKeptOrWoken, HaltingSteps, MoveLocks, ReturnLocks, StillLocks DEF Release, Halting
<1>10. CASE Stopped(c)
  <2>1. CASE UNCHANGED <<call, Locks>>
    BY <2>1, StillLocks
  <2>2. CASE Return(c)
    BY <2>2, ReturnLocks
  <2>3. CASE HasStopped(c) /\ UNCHANGED Locks /\ call[c].op = "setState"
    <3>1. call'[c] = Ready /\ KeptOrWoken(c)
      BY <1>0, <1>10, <2>3, StoppedMoves DEF Stopped
    <3>2. ~HoldsSource(c) /\ ~HoldsStream(c) /\ ~HoldsSource(c)' /\ ~HoldsStream(c)'
      BY <2>3, <3>1 DEF Ready, HoldsSource, HoldsStream
    <3> QED
      BY <2>3, <3>1, <3>2, LocksFrame DEF Locks, LocksHeld
  <2>4. CASE HasStopped(c) /\ UNCHANGED Locks /\ call[c].op # "setState"
    <3>1. call'[c].op = call[c].op /\ call'[c].at = "done" /\ KeptOrWoken(c)
      BY <1>0, <1>10, <2>4, StoppedMoves DEF Stopped
    <3>2. call[c].at = "stopped" /\ "done" \in Steps(call[c].op)
      BY <1>10, <2>4 DEF Stopped, Halting, Steps
    <3> QED
      BY <2>4, <3>1, <3>2, MoveLocks
  <2> QED
    BY <1>10, <2>1, <2>2, <2>3, <2>4 DEF Stopped, HasStopped
<1>11. CASE ShutdownQueue(c)
  BY <1>0, <1>11, WakesAndMoves, MoveLocks DEF ShutdownQueue, Steps
<1>12. CASE ShutdownRest(c)
  BY <1>0, <1>12, ReturnLocks DEF ShutdownRest
<1>13. CASE ResetAllocator(c)
  BY <1>0, <1>13, Moves, KeptIsKeptOrWoken, MoveLocks DEF ResetAllocator, Steps
<1>14. CASE SetAllocator(c)
  BY <1>0, <1>14, ReturnLocks DEF SetAllocator
<1>15. CASE LockStream(c)
  <2>1. CASE Return(c)
    BY <2>1, ReturnLocks
  <2>2. CASE ~Return(c)
    <3>1. Goto(c, "allocate") /\ call[c].op = "request" /\ "allocate" \in Steps(call[c].op)
      BY <1>15, <2>2 DEF LockStream, Steps
    <3>2. KeptOrWoken(c) /\ call'[c].op = call[c].op /\ call'[c].at = "allocate"
      BY <1>0, <3>1, Moves, KeptIsKeptOrWoken
    <3> QED
      BY <1>15, <2>2, <3>1, <3>2, TakeStream DEF LockStream
  <2> QED
    BY <2>1, <2>2
<1>16. CASE Allocate(c)
  BY <1>0, <1>16, Moves, KeptIsKeptOrWoken, MoveLocks, ReturnLocks, StillLocks DEF Allocate, Steps
<1>17. CASE Fetch(c)
  BY <1>0, <1>17, Moves, KeptIsKeptOrWoken, MoveLocks DEF Fetch, Steps
<1>18. CASE Render(c)
  BY <1>0, <1>18, Moves, KeptIsKeptOrWoken, MoveLocks, ReturnLocks, StillLocks DEF Render, Steps
<1>19. CASE Deliver(c)
  BY <1>0, <1>19, ReturnLocks, StillLocks DEF Deliver
<1>20. CASE SetState(c)
  BY <1>0, <1>20, Moves, KeptIsKeptOrWoken, MoveLocks, ReturnLocks DEF SetState, Steps
<1>21. CASE AskSource(c)
  BY <1>0, <1>21, ReturnLocks DEF AskSource
<1>22. CASE AskStream(c)
  BY <1>0, <1>22, ReturnLocks, StillLocks DEF AskStream
<1>23. CASE GetEvent(c)
  <2>1. CASE Return(c)
    BY <2>1, ReturnLocks
  <2>2. CASE ~Return(c)
    <3>1. Goto(c, "wait") /\ call[c].op = "event" /\ "wait" \in Steps(call[c].op)
      BY <1>23, <2>2 DEF GetEvent, Steps
    <3>2. KeptOrWoken(c) /\ call'[c].op = call[c].op /\ call'[c].at = "wait"
      BY <1>0, <3>1, Moves, KeptIsKeptOrWoken
    <3> QED
      BY <1>23, <2>2, <3>1, <3>2, TakeStream DEF GetEvent
  <2> QED
    BY <2>1, <2>2
<1>24. CASE GotEvent(c)
  BY <1>0, <1>24, ReturnLocks, StillLocks DEF GotEvent
<1>25. CASE GetSourceEvent(c)
  <2>1. CASE Return(c)
    BY <2>1, ReturnLocks
  <2>2. CASE ~Return(c)
    <3>1. Goto(c, "wait") /\ call[c].op = "sourceEvent" /\ "wait" \in Steps(call[c].op)
      BY <1>25, <2>2 DEF GetSourceEvent, Steps
    <3>2. KeptOrWoken(c) /\ call'[c].op = call[c].op /\ call'[c].at = "wait"
      BY <1>0, <3>1, Moves, KeptIsKeptOrWoken
    <3> QED
      BY <1>25, <2>2, <3>1, <3>2, TakeSource DEF GetSourceEvent
  <2> QED
    BY <2>1, <2>2
<1>26. CASE Attribute(c)
  BY <1>0, <1>26, ReturnLocks, StillLocks DEF Attribute
<1>27. CASE GetMediaSource(c)
  BY <1>0, <1>27, ReturnLocks, StillLocks DEF GetMediaSource
<1> QED
  BY <1>1, <1>2, <1>3, <1>4, <1>5, <1>6, <1>7, <1>8, <1>9, <1>10, <1>11, <1>12, <1>13, <1>14, <1>15, <1>16, <1>17, <1>18, <1>19, <1>20, <1>21, <1>22, <1>23, <1>24, <1>25, <1>26, <1>27 DEF Work

-----------------------------------------------------------------------------
(* State and events.                                                       *)

\* The source's lock excludes.
LEMMA OneHolder ==
  ASSUME LocksHeld, NEW c \in Callers, HoldsSource(c), NEW d \in Callers \ {c}
  PROVE  ~HoldsSource(d)
BY DEF LocksHeld

\* State, events, target and allocator are left alone.
Settled == UNCHANGED <<state, target, bitmap, started, alloc, lapsed, forced>>

\* What a step of c that leaves them alone must show.
LEMMA AgreedFrame ==
  ASSUME Agreed, NEW c \in Callers, KeptOrWoken(c), Settled,
         ~forced /\ call'[c].op = "start" => Starting(c)',
         ~forced /\ call'[c].op = "setState" => call'[c].at = "set"
  PROVE  Agreed'
<1>1. ASSUME ~forced, NEW d \in Callers, call'[d].op = "start"
      PROVE  Starting(d)'
  <2>1. CASE d = c
    BY <1>1, <2>1
  <2>2. CASE d # c
    <3>1. call'[d] = call[d]
      BY <1>1, <2>2 DEF KeptOrWoken
    <3> QED
      BY <1>1, <2>2, <3>1 DEF Agreed, Starting, Settled
  <2> QED
    BY <2>1, <2>2
<1>2. ASSUME ~forced, NEW d \in Callers, call'[d].op = "setState"
      PROVE  call'[d].at = "set"
  BY <1>2 DEF KeptOrWoken, Agreed
<1> QED
  BY <1>1, <1>2 DEF Agreed, Settled

LEMMA ReturnAgreed ==
  ASSUME TypeOK, Agreed, NEW c \in Callers, Return(c), Settled
  PROVE  Agreed'
<1>1. call'[c] = Ready /\ KeptOrWoken(c)
  BY Returns, KeptIsKeptOrWoken DEF TypeOK, Typed
<1> QED
  BY <1>1, AgreedFrame DEF Ready

\* The steps of the calls that are neither Start nor SetStreamState.
LEMMA MoveAgreed ==
  ASSUME TypeOK, Agreed, NEW c \in Callers, NEW at \in Steps(call[c].op), Goto(c, at),
         call[c].op \notin {"start", "setState"}, Settled
  PROVE  Agreed'
<1>1. call'[c].op = call[c].op /\ KeptOrWoken(c)
  BY Moves, KeptIsKeptOrWoken DEF TypeOK, Typed
<1> QED
  BY <1>1, AgreedFrame

LEMMA StillAgreed ==
  ASSUME Agreed, UNCHANGED call, Settled
  PROVE  Agreed'
BY DEF Agreed, Starting, Settled

\* While c holds the source's lock no other Start is beyond it, so that
\* nothing is claimed of theirs.
LEMMA OthersWait ==
  ASSUME TypeOK, LocksHeld, NEW c \in Callers, HoldsSource(c), KeptOrWoken(c),
         NEW d \in Callers \ {c}, call'[d].op = "start"
  PROVE  Starting(d)'
<1>1. call'[d] = call[d]
  BY DEF KeptOrWoken
<1>2. call'[d].at = "lock"
  BY <1>1, OneHolder DEF HoldsSource
<1> QED
  BY <1>2 DEF Starting

\* What a step that lets go of the allocator or replaces it must show.
LEMMA AllocatorAgreed ==
  ASSUME TypeOK, LocksHeld, Agreed, NEW c \in Callers, ~forced => HoldsSource(c), KeptOrWoken(c),
         UNCHANGED <<state, target, bitmap, started, forced>>,
         ~forced => (state = "running" => alloc' = "initialized" \/ lapsed'),
         ~forced /\ call'[c].op = "start" => Starting(c)',
         call'[c].op # "setState"
  PROVE  Agreed'
<1> SUFFICES ASSUME ~forced
             PROVE  Agreed'
  BY DEF Agreed
<1>1. ASSUME NEW d \in Callers, call'[d].op = "start"
      PROVE  Starting(d)'
  <2>1. CASE d = c
    BY <1>1, <2>1
  <2>2. CASE d # c
    BY <1>1, <2>2, OthersWait
  <2> QED
    BY <2>1, <2>2
<1>2. ASSUME NEW d \in Callers, call'[d].op = "setState"
      PROVE  call'[d].at = "set"
  BY <1>2 DEF KeptOrWoken, Agreed
<1> QED
  BY <1>1, <1>2 DEF Agreed

LEMMA BeginAgreed ==
  ASSUME TypeOK, Agreed, NEW c \in Callers, Begin(c)
  PROVE  Agreed'
<1>1. PICK op \in Ops, arg \in States :
        call' = [call EXCEPT ![c] = [op |-> op, at |-> FirstStep(op), arg |-> arg]]
  BY DEF Begin
<1>2. call'[c].op = op /\ call'[c].at = FirstStep(op) /\ KeptOrWoken(c)
  BY <1>1 DEF KeptOrWoken, TypeOK
<1>3. op = "start" => Starting(c)'
  BY <1>2 DEF Starting, FirstStep
<1>4. op = "setState" => call'[c].at = "set"
  BY <1>2 DEF FirstStep
<1> QED
  BY <1>2, <1>3, <1>4, AgreedFrame DEF Begin, stream, Settled

LEMMA WorkAgreed ==
  ASSUME TypeOK, LocksHeld, Agreed, NEW c \in Callers, Work(c)
  PROVE  Agreed'
<1> USE DEF Typed, At, stream, history, Settled
<1>0. Typed
  BY DEF TypeOK
<1>1. CASE LockSource(c)
  <2>1. CASE Return(c)
    BY <1>1, <2>1, ReturnAgreed DEF LockSource
  <2>2. CASE ~Return(c)
    <3>1. PICK op \in {"start", "stop", "shutdown", "allocator", "usage"} :
            call[c].op = op /\ call[c].at = "lock"
      BY <1>1 DEF LockSource
    <3>2. PICK at \in {"index", "halt", "queue"} :
            Goto(c, at) /\ at \in Steps(call[c].op) /\ (op = "start" => at = "index")
      BY <1>1, <2>2, <3>1 DEF LockSource, Steps
    <3>3. KeptOrWoken(c) /\ call'[c].op = call[c].op /\ call'[c].at = at
      BY <1>0, <3>2, Moves, KeptIsKeptOrWoken
    <3> QED
      BY <1>1, <3>1, <3>2, <3>3, AgreedFrame DEF LockSource, Starting
  <2> QED
    BY <2>1, <2>2
<1>2. CASE Index(c)
  <2>1. CASE Return(c)
    BY <1>2, <2>1, ReturnAgreed DEF Index
  <2>2. CASE ~Return(c)
    <3>1. PICK at \in {"select", "reset"} :
            /\ Goto(c, at) /\ at \in Steps(call[c].op)
            /\ call[c].op = "start" => at = "select"
            /\ call[c].op # "setState"
      BY <1>2, <2>2 DEF Index, Steps
    <3>2. KeptOrWoken(c) /\ call'[c].op = call[c].op /\ call'[c].at = at
      BY <1>0, <3>1, Moves, KeptIsKeptOrWoken
    <3> QED
      BY <1>2, <3>1, <3>2, AgreedFrame DEF Index, Starting
  <2> QED
    BY <2>1, <2>2
<1>3. CASE Select(c)
  <2>1. CASE Return(c)
    BY <1>3, <2>1, ReturnAgreed DEF Select
  <2>2. CASE ~Return(c)
    <3>1. PICK at \in {"done", "stream", "halt"} :
            /\ Goto(c, at)
            /\ at = "stream" => call[c].arg = "running" /\ state = "stopped"
            /\ at = "halt" => call[c].arg # "running"
            /\ at = "done" => (call[c].arg = "running" <=> state # "stopped")
      BY <1>3, <2>2 DEF Select
    <3>2. KeptOrWoken(c) /\ call'[c].op = call[c].op /\ call'[c].arg = call[c].arg /\ call'[c].at = at
      BY <1>0, <1>3, <3>1, Moves, KeptIsKeptOrWoken DEF Select, Steps
    <3>3. ~forced => state \in {"stopped", "running"}
      BY DEF TypeOK, States, Agreed
    <3>4. ~forced => Starting(c)'
      BY <1>3, <3>1, <3>2, <3>3 DEF Select, Starting
    <3> QED
      BY <1>3, <3>2, <3>4, AgreedFrame DEF Select
  <2> QED
    BY <2>1, <2>2
<1>4. CASE StartStream(c)
  <2>1. CASE Return(c)
    BY <1>4, <2>1, ReturnAgreed DEF StartStream
  <2>2. CASE ~Return(c)
    <3>1. Goto(c, "target") /\ "target" \in Steps(call[c].op)
      BY <1>4, <2>2 DEF StartStream, Steps
    <3>2. KeptOrWoken(c) /\ call'[c].op = "start" /\ call'[c].arg = call[c].arg /\ call'[c].at = "target"
      BY <1>0, <1>4, <3>1, Moves, KeptIsKeptOrWoken DEF StartStream
    <3>3. ~forced => Starting(c)'
      BY <1>4, <3>2 DEF StartStream, Starting, Agreed
    <3> QED
      BY <1>4, <3>2, <3>3, AgreedFrame DEF StartStream
  <2> QED
    BY <2>1, <2>2
<1>5. CASE Prepare(c)
  <2>1. HoldsSource(c)
    BY <1>5 DEF Prepare, HoldsSource
  <2>2. /\ KeptOrWoken(c)
        /\ \/ call'[c] = Ready
           \/ /\ call'[c].op = "start" /\ call'[c].arg = call[c].arg /\ call'[c].at = "started"
              /\ target' /\ bitmap' /\ alloc' = "initialized"
    BY <1>0, <1>5, Moves, Returns, KeptIsKeptOrWoken DEF Prepare, Steps
  <2>3. CASE forced
    BY <1>5, <2>3 DEF Prepare, Agreed
  <2>4. CASE ~forced
    <3>1. state = "stopped" /\ call[c].arg = "running"
      BY <1>5, <2>4 DEF Prepare, Agreed, Starting
    <3>2. ASSUME NEW d \in Callers, call'[d].op = "start"
          PROVE  Starting(d)'
      <4>1. CASE d = c
        BY <1>5, <2>2, <3>1, <3>2, <4>1 DEF Prepare, Starting, Ready
      <4>2. CASE d # c
        BY <2>1, <2>2, <3>2, <4>2, OthersWait
      <4> QED
        BY <4>1, <4>2
    <3>3. ASSUME NEW d \in Callers, call'[d].op = "setState"
          PROVE  call'[d].at = "set"
      BY <2>2, <2>4, <3>3 DEF KeptOrWoken, Agreed, Ready
    <3> QED
      BY <1>5, <2>4, <3>1, <3>2, <3>3 DEF Prepare, Agreed
  <2> QED
    BY <2>3, <2>4
<1>6. CASE Started(c)
  <2>1. CASE Return(c) /\ UNCHANGED <<state, started, lapsed>>
    BY <1>6, <2>1, ReturnAgreed DEF Started
  <2>2. CASE ~(Return(c) /\ UNCHANGED <<state, started, lapsed>>)
    <3>1. started' /\ state' = "running"
      BY <1>6, <2>2 DEF Started
    <3>2. /\ HoldsSource(c) /\ KeptOrWoken(c)
          /\ call'[c].op = "start" /\ call'[c].arg = call[c].arg /\ call'[c].at = "done"
      BY <1>0, <1>6, <2>2, WakesAndMoves DEF Started, Steps, HoldsSource
    <3>3. CASE forced
      BY <1>6, <3>3 DEF Started, Agreed
    <3>4. CASE ~forced
      <4>1. target /\ bitmap /\ alloc = "initialized" /\ call[c].arg = "running"
        BY <1>6, <3>4 DEF Started, Agreed, Starting
      <4>2. ASSUME NEW d \in Callers, call'[d].op = "start"
            PROVE  Starting(d)'
        <5>1. CASE d = c
          BY <3>1, <3>2, <4>1, <4>2, <5>1 DEF Starting
        <5>2. CASE d # c
          BY <3>2, <4>2, <5>2, OthersWait
        <5> QED
          BY <5>1, <5>2
      <4>3. ASSUME NEW d \in Callers, call'[d].op = "setState"
            PROVE  call'[d].at = "set"
        BY <3>2, <3>4, <4>3 DEF KeptOrWoken, Agreed
      <4> QED
        BY <1>6, <3>1, <3>4, <4>1, <4>2, <4>3 DEF Started, Agreed
    <3> QED
      BY <3>3, <3>4
  <2> QED
    BY <2>1, <2>2
<1>7. CASE Done(c)
  BY <1>7, ReturnAgreed DEF Done
<1>8. CASE Halt(c)
  <2>1. CASE Return(c)
    BY <1>8, <2>1, ReturnAgreed DEF Halt
  <2>2. CASE ~Return(c)
    <3>1. Goto(c, "release") /\ "release" \in Steps(call[c].op)
      BY <1>8, <2>2, HaltingSteps DEF Halt
    <3>2. KeptOrWoken(c) /\ call'[c].op = call[c].op /\ call'[c].arg = call[c].arg /\ call'[c].at = "release"
      BY <1>0, <3>1, Moves, KeptIsKeptOrWoken
    <3>3. ~forced => call[c].op # "setState"
      BY <1>8 DEF Halt, Halting, Agreed
    <3>4. ~forced /\ call[c].op = "start" => Starting(c)'
      BY <1>8, <3>2 DEF Halt, Halting, Agreed, Starting
    <3> QED
      BY <1>8, <3>2, <3>3, <3>4, AgreedFrame DEF Halt
  <2> QED
    BY <2>1, <2>2
<1>9. CASE Release(c)
  <2>1. CASE alloc = "null"
    BY <1>9, <2>1, StillAgreed DEF Release
  <2>2. CASE alloc # "null" /\ forced
    BY <1>9, <2>2 DEF Release, Agreed
  <2>3. CASE alloc # "null" /\ ~forced
    <3>1. call[c].op \in {"start", "stop"} /\ HoldsSource(c)
      BY <1>9, <2>3 DEF Release, Halting, Agreed, HoldsSource
    <3>2. state = "running" => lapsed'
      BY <1>9, <2>3 DEF Release, Agreed
    <3>3. "stopped" \in Steps(call[c].op)
      BY <1>9, HaltingSteps DEF Release
    <3>4. /\ KeptOrWoken(c)
          /\ \/ call'[c] = Ready
             \/ call'[c].op = call[c].op /\ call'[c].arg = call[c].arg /\ call'[c].at = "stopped"
      BY <1>0, <1>9, <2>3, <3>3, Moves, Returns, KeptIsKeptOrWoken DEF Release
    <3>5. call'[c].op = "start" => Starting(c)'
      BY <1>9, <2>3, <3>4 DEF Release, Halting, Agreed, Starting, Ready
    <3>6. call'[c].op # "setState"
      BY <3>1, <3>4 DEF Ready
    <3> QED
      BY <1>9, <3>1, <3>2, <3>4, <3>5, <3>6, AllocatorAgreed DEF Release
  <2> QED
    BY <2>1, <2>2, <2>3
<1>10. CASE Stopped(c)
  <2>1. CASE ~queue
    BY <1>10, <2>1, StillAgreed DEF Stopped
  <2>2. CASE queue /\ Return(c) /\ UNCHANGED <<started, lapsed, state>>
    BY <1>10, <2>2, ReturnAgreed DEF Stopped
  <2>3. CASE queue /\ forced
    BY <1>10, <2>3 DEF Stopped, Agreed
  <2>4. CASE queue /\ ~forced /\ HasStopped(c) /\ started' = FALSE /\ state' = "stopped"
    <3>1. call[c].op \in {"start", "stop"} /\ HoldsSource(c)
      BY <1>10, <2>4 DEF Stopped, Halting, Agreed, HoldsSource
    <3>2. /\ KeptOrWoken(c)
          /\ call'[c].op = call[c].op /\ call'[c].arg = call[c].arg /\ call'[c].at = "done"
      BY <1>0, <1>10, <2>4, <3>1, StoppedMoves DEF Stopped
    <3>3. call[c].op = "start" => call[c].arg # "running"
      BY <1>10, <2>4 DEF Stopped, Halting, Agreed, Starting
    <3>4. ASSUME NEW d \in Callers, call'[d].op = "start"
          PROVE  Starting(d)'
      <4>1. CASE d = c
        BY <2>4, <3>2, <3>3, <3>4, <4>1 DEF Starting
      <4>2. CASE d # c
        BY <3>1, <3>2, <3>4, <4>2, OthersWait
      <4> QED
        BY <4>1, <4>2
    <3>5. ASSUME NEW d \in Callers, call'[d].op = "setState"
          PROVE  call'[d].at = "set"
      BY <2>4, <3>1, <3>2, <3>5 DEF KeptOrWoken, Agreed
    <3> QED
      BY <1>10, <2>4, <3>4, <3>5 DEF Stopped, Agreed
  <2> QED
    BY <1>10, <2>1, <2>2, <2>3, <2>4 DEF Stopped, HasStopped
<1>11. CASE ShutdownQueue(c)
  <2>1. KeptOrWoken(c) /\ call'[c].op = "shutdown"
    BY <1>0, <1>11, WakesAndMoves DEF ShutdownQueue, Steps
  <2> QED
    BY <1>11, <2>1, AgreedFrame DEF ShutdownQueue
<1>12. CASE ShutdownRest(c)
  BY <1>12, ReturnAgreed DEF ShutdownRest
<1>13. CASE ResetAllocator(c)
  <2>1. HoldsSource(c)
    BY <1>13 DEF ResetAllocator, HoldsSource
  <2>2. KeptOrWoken(c) /\ call'[c].op = "allocator"
    BY <1>0, <1>13, Moves, KeptIsKeptOrWoken DEF ResetAllocator, Steps
  <2>3. ~forced => (state = "running" => lapsed')
    BY <1>13 DEF ResetAllocator, Agreed
  <2> QED
    BY <1>13, <2>1, <2>2, <2>3, AllocatorAgreed DEF ResetAllocator
<1>14. CASE SetAllocator(c)
  <2>1. HoldsSource(c)
    BY <1>14 DEF SetAllocator, HoldsSource
  <2>2. KeptOrWoken(c) /\ call'[c] = Ready
    BY <1>0, <1>14, Returns, KeptIsKeptOrWoken DEF SetAllocator
  <2>3. ~forced => (state = "running" => lapsed')
    BY <1>14 DEF SetAllocator, Agreed
  <2> QED
    BY <1>14, <2>1, <2>2, <2>3, AllocatorAgreed DEF SetAllocator, Ready
<1>15. CASE LockStream(c)
  BY <1>15, MoveAgreed, ReturnAgreed DEF LockStream, Steps
<1>16. CASE Allocate(c)
  BY <1>16, MoveAgreed, ReturnAgreed, StillAgreed DEF Allocate, Steps
<1>17. CASE Fetch(c)
  BY <1>17, MoveAgreed DEF Fetch, Steps
<1>18. CASE Render(c)
  BY <1>18, MoveAgreed, ReturnAgreed, StillAgreed DEF Render, Steps
<1>19. CASE Deliver(c)
  BY <1>19, ReturnAgreed, StillAgreed DEF Deliver
<1>20. CASE SetState(c)
  BY <1>20 DEF SetState, Agreed
<1>21. CASE AskSource(c)
  BY <1>21, ReturnAgreed DEF AskSource
<1>22. CASE AskStream(c)
  BY <1>22, ReturnAgreed, StillAgreed DEF AskStream
<1>23. CASE GetEvent(c)
  BY <1>23, MoveAgreed, ReturnAgreed DEF GetEvent, Steps
<1>24. CASE GotEvent(c)
  BY <1>24, ReturnAgreed, StillAgreed DEF GotEvent
<1>25. CASE GetSourceEvent(c)
  BY <1>25, MoveAgreed, ReturnAgreed DEF GetSourceEvent, Steps
<1>26. CASE Attribute(c)
  BY <1>26, ReturnAgreed, StillAgreed DEF Attribute
<1>27. CASE GetMediaSource(c)
  BY <1>27, ReturnAgreed, StillAgreed DEF GetMediaSource
<1> QED
  BY <1>1, <1>2, <1>3, <1>4, <1>5, <1>6, <1>7, <1>8, <1>9, <1>10, <1>11, <1>12, <1>13, <1>14, <1>15, <1>16, <1>17, <1>18, <1>19, <1>20, <1>21, <1>22, <1>23, <1>24, <1>25, <1>26, <1>27 DEF Work

-----------------------------------------------------------------------------
(* Callers that take turns.                                                *)

\* What a step of c must show: with nobody else in a call, only c's tests
\* count.
LEMMA OrderlyFrame ==
  ASSUME Orderly, NEW c \in Callers, call[c] # Ready, KeptOrWoken(c), unruly' = unruly,
         ~unruly => (broken' => Blind(c)') /\ Tested(c)'
  PROVE  Orderly'
<1>1. ASSUME ~unruly, NEW d \in Callers \ {c}
      PROVE  call'[d] = Ready /\ Tested(d)'
  <2>1. call[d] = Ready
    BY <1>1 DEF Orderly
  <2>2. call'[d] = Ready
    BY <2>1 DEF KeptOrWoken, Ready
  <2> QED
    BY <2>2 DEF Tested, Ready
<1>2. ASSUME ~unruly, NEW d \in Callers, NEW e \in Callers, call'[d] # Ready, call'[e] # Ready
      PROVE  d = e
  BY <1>1, <1>2
<1>3. ASSUME ~unruly, NEW d \in Callers
      PROVE  Tested(d)'
  BY <1>1, <1>3
<1> QED
  BY <1>2, <1>3 DEF Orderly

\* While c is in a call nobody else is.
LEMMA Alone ==
  ASSUME Orderly, ~unruly, NEW c \in Callers, call[c] # Ready, NEW d \in Callers \ {c}
  PROVE  call[d] = Ready
BY DEF Orderly

LEMMA ReturnOrderly ==
  ASSUME TypeOK, Orderly, NEW c \in Callers, call[c] # Ready, Return(c), ~broken, UNCHANGED <<unruly, broken>>
  PROVE  Orderly'
<1>1. call'[c] = Ready /\ KeptOrWoken(c)
  BY Returns, KeptIsKeptOrWoken DEF TypeOK, Typed
<1> QED
  BY <1>1, OrderlyFrame DEF Orderly, Tested, Ready

\* A move to a step before which nothing has been tested.
LEMMA MoveOrderly ==
  ASSUME TypeOK, Orderly, NEW c \in Callers, call[c] # Ready, NEW at \in Steps(call[c].op),
         KeptOrWoken(c), call'[c].op = call[c].op, call'[c].at = at,
         call[c].op \notin {"request", "attribute"}, at \notin {"release", "stopped", "wake"},
         ~broken, UNCHANGED <<unruly, broken>>
  PROVE  Orderly'
BY OrderlyFrame DEF Orderly, Tested

LEMMA BeginOrderly ==
  ASSUME TypeOK, Orderly, NEW c \in Callers, Begin(c)
  PROVE  Orderly'
<1> SUFFICES ASSUME ~unruly'
             PROVE  Orderly'
  BY DEF Orderly
<1>1. PICK op \in Ops, arg \in States :
        /\ call' = [call EXCEPT ![c] = [op |-> op, at |-> FirstStep(op), arg |-> arg]]
        /\ unruly' = (unruly \/ (\E d \in Callers : call[d] # Ready) \/ (op = "attribute" /\ ~open))
  BY DEF Begin
<1>2. call'[c].op = op /\ call'[c].at = FirstStep(op) /\ Kept(c)
  BY <1>1 DEF Kept, TypeOK
<1>3. ~unruly /\ (op = "attribute" => open) /\ \A d \in Callers : call[d] = Ready
  BY <1>1
<1>4. \A d \in Callers \ {c} : call'[d] = Ready
  BY <1>2, <1>3 DEF Kept
<1>5. Tested(c)'
  BY <1>2, <1>3 DEF Begin, Tested, FirstStep, stream
<1>6. \A d \in Callers \ {c} : Tested(d)'
  BY <1>4 DEF Tested, Ready
<1>7. ~broken'
  BY DEF Begin
<1> QED
  BY <1>4, <1>5, <1>6, <1>7 DEF Orderly

LEMMA WorkOrderly ==
  ASSUME TypeOK, Orderly, NEW c \in Callers, Work(c)
  PROVE  Orderly'
<1> USE DEF Typed, At, stream, history
<1>0. Typed
  BY DEF TypeOK
<1>r. call[c] # Ready
  <2> USE DEF Ready, Halting
  <2>1. CASE LockSource(c) \/ Index(c)
    <3>1. \E op \in {"start", "stop", "shutdown", "allocator", "usage"} : call[c].op = op
      BY <2>1 DEF LockSource, Index
    <3> QED
      BY <3>1
  <2>5. CASE Select(c) \/ StartStream(c) \/ Prepare(c) \/ Started(c)
    <3>1. call[c].op = "start"
      BY <2>5, Zenon DEF Select, StartStream, Prepare, Started
    <3> QED
      BY <3>1
  <2>2. CASE Done(c) \/ Halt(c) \/ Release(c) \/ Stopped(c)
           \/ ShutdownQueue(c) \/ ShutdownRest(c)
    BY <2>2 DEF Done, Halt, Release, Stopped, ShutdownQueue, ShutdownRest
  <2>3. CASE ResetAllocator(c) \/ SetAllocator(c) \/ LockStream(c) \/ Allocate(c)
           \/ Fetch(c) \/ Render(c) \/ Deliver(c)
    BY <2>3 DEF ResetAllocator, SetAllocator, LockStream, Allocate, Fetch, Render, Deliver
  <2>4. CASE SetState(c) \/ AskSource(c) \/ AskStream(c) \/ GetEvent(c)
           \/ GotEvent(c) \/ GetSourceEvent(c) \/ Attribute(c) \/ GetMediaSource(c)
    BY <2>4 DEF SetState, AskSource, AskStream, GetEvent, GotEvent, GetSourceEvent, Attribute, GetMediaSource
  <2> QED
    BY <2>1, <2>2, <2>3, <2>4, <2>5 DEF Work
<1>1. CASE LockSource(c)
  <2>1. CASE Return(c)
    BY <1>r, <1>1, <2>1, ReturnOrderly DEF LockSource
  <2>2. CASE ~Return(c)
    <3>1. PICK op \in {"start", "stop", "shutdown", "allocator", "usage"} :
            call[c].op = op /\ call[c].at = "lock"
      BY <1>1 DEF LockSource
    <3>2. PICK at \in {"index", "halt", "queue"} : Goto(c, at) /\ at \in Steps(call[c].op)
      BY <1>1, <2>2, <3>1 DEF LockSource, Steps
    <3>3. KeptOrWoken(c) /\ call'[c].op = call[c].op /\ call'[c].at = at
      BY <1>0, <3>2, Moves, KeptIsKeptOrWoken
    <3> QED
      BY <1>r, <1>1, <3>1, <3>2, <3>3, MoveOrderly DEF LockSource
  <2> QED
    BY <2>1, <2>2
<1>2. CASE Index(c)
  <2>1. CASE Return(c)
    BY <1>r, <1>2, <2>1, ReturnOrderly DEF Index
  <2>2. CASE ~Return(c)
    <3>1. PICK at \in {"select", "reset"} : Goto(c, at) /\ at \in Steps(call[c].op)
      BY <1>2, <2>2 DEF Index, Steps
    <3>2. KeptOrWoken(c) /\ call'[c].op = call[c].op /\ call'[c].at = at
      BY <1>0, <3>1, Moves, KeptIsKeptOrWoken
    <3> QED
      BY <1>r, <1>2, <3>1, <3>2, MoveOrderly DEF Index
  <2> QED
    BY <2>1, <2>2
<1>3. CASE Select(c)
  <2>1. CASE Return(c)
    BY <1>r, <1>3, <2>1, ReturnOrderly DEF Select
  <2>2. CASE ~Return(c)
    <3>1. PICK at \in {"done", "stream", "halt"} : Goto(c, at)
      BY <1>3, <2>2 DEF Select
    <3>2. at \in Steps(call[c].op)
      BY <1>3 DEF Select, Steps
    <3>3. KeptOrWoken(c) /\ call'[c].op = call[c].op /\ call'[c].at = at
      BY <1>0, <3>1, <3>2, Moves, KeptIsKeptOrWoken
    <3> QED
      BY <1>r, <1>3, <3>2, <3>3, MoveOrderly DEF Select
  <2> QED
    BY <2>1, <2>2
<1>4. CASE StartStream(c)
  <2>1. CASE Return(c)
    BY <1>r, <1>4, <2>1, ReturnOrderly DEF StartStream
  <2>2. CASE ~Return(c)
    <3>1. Goto(c, "target") /\ "target" \in Steps(call[c].op)
      BY <1>4, <2>2 DEF StartStream, Steps
    <3>2. KeptOrWoken(c) /\ call'[c].op = call[c].op /\ call'[c].at = "target"
      BY <1>0, <3>1, Moves, KeptIsKeptOrWoken
    <3> QED
      BY <1>r, <1>4, <3>1, <3>2, MoveOrderly DEF StartStream
  <2> QED
    BY <2>1, <2>2
<1>5. CASE Prepare(c)
  <2>1. ~unruly => ~\E d \in Callers : At(d, "request", "render")
    BY <1>r, <1>5, Alone DEF Prepare, Ready
  <2>2. ~unruly => ~broken'
    BY <1>5, <2>1 DEF Prepare, Orderly
  <2>3. /\ KeptOrWoken(c)
        /\ call'[c] = Ready \/ (call'[c].op = "start" /\ call'[c].at = "started")
    BY <1>0, <1>5, Moves, Returns, KeptIsKeptOrWoken DEF Prepare, Steps
  <2>4. Tested(c)'
    BY <2>3 DEF Tested, Ready
  <2> QED
    BY <1>r, <1>5, <2>2, <2>3, <2>4, OrderlyFrame DEF Prepare
<1>6. CASE Started(c)
  <2>1. CASE Return(c)
    BY <1>r, <1>6, <2>1, ReturnOrderly DEF Started
  <2>2. CASE ~Return(c)
    <3>1. /\ KeptOrWoken(c) /\ call'[c].op = "start" /\ call'[c].at = "done"
          /\ "done" \in Steps("start")
      BY <1>0, <1>6, <2>2, WakesAndMoves DEF Started, Steps
    <3> QED
      BY <1>r, <1>6, <3>1, MoveOrderly DEF Started
  <2> QED
    BY <2>1, <2>2
<1>7. CASE Done(c)
  BY <1>r, <1>7, ReturnOrderly DEF Done
<1>8. CASE Halt(c)
  <2>1. CASE Return(c)
    BY <1>r, <1>8, <2>1, ReturnOrderly DEF Halt, Halting
  <2>2. CASE ~Return(c)
    <3>1. Goto(c, "release") /\ "release" \in Steps(call[c].op) /\ queue /\ alloc # "null"
      BY <1>8, <2>2, HaltingSteps DEF Halt
    <3>2. KeptOrWoken(c) /\ call'[c].op = call[c].op /\ call'[c].at = "release"
      BY <1>0, <3>1, Moves, KeptIsKeptOrWoken
    <3>3. Tested(c)'
      BY <1>8, <3>1, <3>2 DEF Halt, Halting, Tested
    <3> QED
      BY <1>r, <1>8, <3>2, <3>3, OrderlyFrame DEF Halt, Halting
  <2> QED
    BY <2>1, <2>2
<1>9. CASE Release(c)
  <2>1. CASE unruly /\ alloc = "null"
    BY <1>9, <2>1 DEF Release, Orderly
  <2>2. CASE ~unruly /\ alloc = "null"
    BY <1>9, <2>2 DEF Release, Halting, Orderly, Tested
  <2>3. CASE alloc # "null" /\ Return(c)
    BY <1>r, <1>9, <2>3, ReturnOrderly DEF Release, Halting
  <2>4. CASE alloc # "null" /\ ~Return(c)
    <3>1. Goto(c, "stopped") /\ "stopped" \in Steps(call[c].op)
      BY <1>9, <2>4, HaltingSteps DEF Release
    <3>2. KeptOrWoken(c) /\ call'[c].op = call[c].op /\ call'[c].at = "stopped"
      BY <1>0, <3>1, Moves, KeptIsKeptOrWoken
    <3>3. ~unruly => Tested(c)'
      BY <1>9, <3>2 DEF Release, Halting, Orderly, Tested
    <3>4. ~broken'
      BY <1>9, <2>4 DEF Release, Halting
    <3> QED
      BY <1>r, <1>9, <3>2, <3>3, <3>4, OrderlyFrame DEF Release
  <2> QED
    BY <2>1, <2>2, <2>3, <2>4
<1>10. CASE Stopped(c)
  <2>1. CASE unruly
    BY <1>10, <2>1 DEF Stopped, Orderly
  <2>2. CASE ~unruly
    <3>1. queue
      BY <1>10, <2>2 DEF Stopped, Halting, Orderly, Tested
    <3>2. /\ KeptOrWoken(c)
          /\ \/ call'[c] = Ready
             \/ call'[c].op \in {"start", "stop"} /\ call'[c].at = "done"
      <4>1. CASE Return(c)
        BY <1>0, <4>1, Returns, KeptIsKeptOrWoken
      <4>2. CASE HasStopped(c)
        BY <1>0, <1>10, <4>2, StoppedMoves DEF Stopped, Halting
      <4> QED
        BY <1>10, <3>1, <4>1, <4>2 DEF Stopped, HasStopped
    <3>3. Tested(c)'
      BY <3>2 DEF Tested, Ready
    <3>4. ~broken' /\ unruly' = unruly
      BY <1>10, <3>1 DEF Stopped, Halting
    <3> QED
      BY <1>r, <3>2, <3>3, <3>4, OrderlyFrame
  <2> QED
    BY <2>1, <2>2
<1>11. CASE ShutdownQueue(c)
  <2>1. KeptOrWoken(c) /\ call'[c].op = "shutdown" /\ call'[c].at = "rest" /\ "rest" \in Steps("shutdown")
    BY <1>0, <1>11, WakesAndMoves DEF ShutdownQueue, Steps
  <2> QED
    BY <1>r, <1>11, <2>1, MoveOrderly DEF ShutdownQueue
<1>12. CASE ShutdownRest(c)
  BY <1>r, <1>12, ReturnOrderly DEF ShutdownRest
<1>13. CASE ResetAllocator(c)
  <2>1. Goto(c, "set") /\ "set" \in Steps(call[c].op)
    BY <1>13 DEF ResetAllocator, Steps
  <2>2. KeptOrWoken(c) /\ call'[c].op = call[c].op /\ call'[c].at = "set"
    BY <1>0, <2>1, Moves, KeptIsKeptOrWoken
  <2> QED
    BY <1>r, <1>13, <2>1, <2>2, MoveOrderly DEF ResetAllocator
<1>14. CASE SetAllocator(c)
  BY <1>r, <1>14, ReturnOrderly DEF SetAllocator
<1>15. CASE LockStream(c)
  <2>1. CASE Return(c)
    BY <1>r, <1>15, <2>1, ReturnOrderly DEF LockStream
  <2>2. CASE ~Return(c)
    <3>1. Goto(c, "allocate") /\ "allocate" \in Steps(call[c].op) /\ queue /\ alloc # "null"
      BY <1>15, <2>2 DEF LockStream, Steps
    <3>2. KeptOrWoken(c) /\ call'[c].op = "request" /\ call'[c].at = "allocate"
      BY <1>0, <1>15, <3>1, Moves, KeptIsKeptOrWoken DEF LockStream
    <3>3. Tested(c)'
      BY <1>15, <3>1, <3>2 DEF LockStream, Tested
    <3> QED
      BY <1>r, <1>15, <3>2, <3>3, OrderlyFrame DEF LockStream, Orderly
  <2> QED
    BY <2>1, <2>2
<1>16. CASE Allocate(c)
  <2>1. CASE unruly
    BY <1>16, <2>1 DEF Allocate, Orderly
  <2>2. CASE ~unruly /\ Return(c)
    BY <1>r, <1>16, <2>2, ReturnOrderly DEF Allocate, Orderly, Tested
  <2>3. CASE ~unruly /\ ~Return(c)
    <3>1. Goto(c, "fetch") /\ "fetch" \in Steps(call[c].op) /\ queue /\ broken' = broken
      BY <1>16, <2>3 DEF Allocate, Steps, Orderly, Tested
    <3>2. KeptOrWoken(c) /\ call'[c].op = "request" /\ call'[c].at = "fetch"
      BY <1>0, <1>16, <3>1, Moves, KeptIsKeptOrWoken DEF Allocate
    <3>3. Tested(c)'
      BY <1>16, <3>1, <3>2 DEF Allocate, Tested
    <3> QED
      BY <1>r, <1>16, <3>1, <3>2, <3>3, OrderlyFrame DEF Allocate, Orderly
  <2> QED
    BY <2>1, <2>2, <2>3
<1>17. CASE Fetch(c)
  <2>1. PICK at \in {"deliver", "render"} : Goto(c, at)
    BY <1>17 DEF Fetch
  <2>2. at \in Steps(call[c].op)
    BY <1>17 DEF Fetch, Steps
  <2>3. KeptOrWoken(c) /\ call'[c].op = "request" /\ call'[c].at = at
    BY <1>0, <1>17, <2>1, <2>2, Moves, KeptIsKeptOrWoken DEF Fetch
  <2>4. ~unruly => Tested(c)'
    BY <1>17, <2>3 DEF Fetch, Orderly, Tested
  <2> QED
    BY <1>r, <1>17, <2>3, <2>4, OrderlyFrame DEF Fetch, Orderly
<1>18. CASE Render(c)
  <2>1. CASE Return(c) /\ UNCHANGED broken
    BY <1>r, <1>18, <2>1, ReturnOrderly DEF Render
  <2>2. CASE Goto(c, "deliver") /\ UNCHANGED broken
    <3>1. "deliver" \in Steps(call[c].op)
      BY <1>18 DEF Render, Steps
    <3>2. KeptOrWoken(c) /\ call'[c].op = "request" /\ call'[c].at = "deliver"
      BY <1>0, <1>18, <2>2, <3>1, Moves, KeptIsKeptOrWoken DEF Render
    <3>3. ~unruly => Tested(c)'
      BY <1>18, <3>2 DEF Render, Orderly, Tested
    <3> QED
      BY <1>r, <1>18, <2>2, <3>2, <3>3, OrderlyFrame DEF Render
  <2>3. CASE target /\ ~bitmap /\ UNCHANGED call
    <3>1. Blind(c)'
      BY <1>18, <2>3 DEF Render, Blind
    <3>2. ~unruly => Tested(c)'
      BY <1>18, <2>3 DEF Render, Orderly, Tested
    <3>3. KeptOrWoken(c)
      BY <2>3 DEF KeptOrWoken
    <3> QED
      BY <1>r, <1>18, <3>1, <3>2, <3>3, OrderlyFrame DEF Render
  <2> QED
    BY <1>18, <2>1, <2>2, <2>3 DEF Render
<1>19. CASE Deliver(c)
  <2>1. CASE unruly
    BY <1>19, <2>1 DEF Deliver, Orderly
  <2>2. CASE ~unruly
    BY <1>r, <1>19, <2>2, ReturnOrderly DEF Deliver, Orderly, Tested
  <2> QED
    BY <2>1, <2>2
<1>20. CASE SetState(c)
  <2>1. CASE Return(c)
    BY <1>r, <1>20, <2>1, ReturnOrderly DEF SetState
  <2>2. CASE ~Return(c)
    <3>1. Goto(c, "halt") /\ "halt" \in Steps(call[c].op)
      BY <1>20, <2>2 DEF SetState, Steps
    <3>2. KeptOrWoken(c) /\ call'[c].op = call[c].op /\ call'[c].at = "halt"
      BY <1>0, <3>1, Moves, KeptIsKeptOrWoken
    <3> QED
      BY <1>r, <1>20, <3>1, <3>2, MoveOrderly DEF SetState
  <2> QED
    BY <2>1, <2>2
<1>21. CASE AskSource(c)
  BY <1>r, <1>21, ReturnOrderly DEF AskSource
<1>22. CASE AskStream(c)
  <2>1. CASE unruly
    BY <1>22, <2>1 DEF AskStream, Orderly
  <2>2. CASE ~unruly
    <3>1. ~ShuttingDown
      BY <1>r, <1>22, <2>2, Alone DEF AskStream, ShuttingDown, Ready
    <3> QED
      BY <1>r, <1>22, <2>2, <3>1, ReturnOrderly DEF AskStream
  <2> QED
    BY <2>1, <2>2
<1>23. CASE GetEvent(c)
  <2>1. CASE Return(c)
    BY <1>r, <1>23, <2>1, ReturnOrderly DEF GetEvent
  <2>2. CASE ~Return(c)
    <3>1. Goto(c, "wait") /\ "wait" \in Steps(call[c].op)
      BY <1>23, <2>2 DEF GetEvent, Steps
    <3>2. KeptOrWoken(c) /\ call'[c].op = call[c].op /\ call'[c].at = "wait"
      BY <1>0, <3>1, Moves, KeptIsKeptOrWoken
    <3> QED
      BY <1>r, <1>23, <3>1, <3>2, MoveOrderly DEF GetEvent
  <2> QED
    BY <2>1, <2>2
<1>24. CASE GotEvent(c)
  <2>1. CASE unruly
    BY <1>24, <2>1 DEF GotEvent, Orderly
  <2>2. CASE ~unruly
    BY <1>24, <2>2 DEF GotEvent, Orderly, Tested
  <2> QED
    BY <2>1, <2>2
<1>25. CASE GetSourceEvent(c)
  <2>1. CASE Return(c)
    BY <1>r, <1>25, <2>1, ReturnOrderly DEF GetSourceEvent
  <2>2. CASE ~Return(c)
    <3>1. Goto(c, "wait") /\ "wait" \in Steps(call[c].op)
      BY <1>25, <2>2 DEF GetSourceEvent, Steps
    <3>2. KeptOrWoken(c) /\ call'[c].op = call[c].op /\ call'[c].at = "wait"
      BY <1>0, <3>1, Moves, KeptIsKeptOrWoken
    <3> QED
      BY <1>r, <1>25, <3>1, <3>2, MoveOrderly DEF GetSourceEvent
  <2> QED
    BY <2>1, <2>2
<1>26. CASE Attribute(c)
  <2>1. CASE unruly
    BY <1>26, <2>1 DEF Attribute, Orderly
  <2>2. CASE ~unruly
    <3>1. ~ShuttingDown
      BY <1>r, <1>26, <2>2, Alone DEF Attribute, ShuttingDown, Ready
    <3> QED
      BY <1>r, <1>26, <2>2, <3>1, ReturnOrderly DEF Attribute, Orderly, Tested
  <2> QED
    BY <2>1, <2>2
<1>27. CASE GetMediaSource(c)
  <2>1. CASE unruly
    BY <1>27, <2>1 DEF GetMediaSource, Orderly
  <2>2. CASE ~unruly
    <3>1. ~ShuttingDown
      BY <1>r, <1>27, <2>2, Alone DEF GetMediaSource, ShuttingDown, Ready
    <3> QED
      BY <1>r, <1>27, <2>2, <3>1, ReturnOrderly DEF GetMediaSource
  <2> QED
    BY <2>1, <2>2
<1> QED
  BY <1>1, <1>2, <1>3, <1>4, <1>5, <1>6, <1>7, <1>8, <1>9, <1>10, <1>11, <1>12, <1>13, <1>14, <1>15, <1>16, <1>17, <1>18, <1>19, <1>20, <1>21, <1>22, <1>23, <1>24, <1>25, <1>26, <1>27 DEF Work

-----------------------------------------------------------------------------
(* The theorems.                                                           *)

LEMMA InitIInv == Init => IInv
<1> SUFFICES ASSUME Init
             PROVE  IInv
  OBVIOUS
<1> USE DEF Init, StreamInit, SourceInit
<1>1. \A c \in Callers : call[c] = Ready
  OBVIOUS
<1>2. TypeOK
  BY InitTypes
<1>3. LocksHeld
  BY <1>1, NobodyAssumption DEF LocksHeld, HoldsSource, HoldsStream, Ready
<1>4. Agreed
  BY <1>1 DEF Agreed, Starting, Ready
<1>5. Orderly
  BY <1>1 DEF Orderly, Tested, Ready
<1> QED
  BY <1>2, <1>3, <1>4, <1>5 DEF IInv

LEMMA StepIInv == IInv /\ [Next]_vars => IInv'
<1> SUFFICES ASSUME IInv, [Next]_vars
             PROVE  IInv'
  OBVIOUS
<1> USE DEF IInv
<1>1. ASSUME NEW c \in Callers, Begin(c)
      PROVE  IInv'
  BY <1>1, BeginTypes, BeginLocks, BeginAgreed, BeginOrderly
<1>2. ASSUME NEW c \in Callers, Work(c)
      PROVE  IInv'
  BY <1>2, WorkTypes, WorkLocks, WorkAgreed, WorkOrderly
<1>3. CASE UNCHANGED vars
  <2> USE <1>3 DEF vars, stream, history
  <2>1. TypeOK'
    BY DEF TypeOK
  <2>2. LocksHeld'
    BY DEF LocksHeld, HoldsSource, HoldsStream
  <2>3. Agreed'
    BY DEF Agreed, Starting
  <2>4. Orderly'
    BY DEF Orderly, Tested, Blind
  <2> QED
    BY <2>1, <2>2, <2>3, <2>4
<1> QED
  BY <1>1, <1>2, <1>3 DEF Next, Gone

\* The inductive invariant holds in every reachable state.
THEOREM Invariant == Spec => []IInv
BY InitIInv, StepIInv, PTL DEF Spec

\* Every method is at one of its own steps, whatever the others do.
THEOREM TypeCorrect == Spec => []TypeOK
<1>1. IInv => TypeOK
  BY DEF IInv
<1> QED
  BY <1>1, Invariant, PTL

\* A Start that is about to say MESourceStarted has done what it was asked, or
\* found a stream that runs on without the allocator it started with; each of
\* the calls in Start and Stop may have failed before, in any order.
THEOREM StartDoesWhatItSays == Spec => []StartDecides
<1>1. IInv => StartDecides
  <2> SUFFICES ASSUME IInv, NEW c \in Callers, call[c].op = "start", call[c].at = "done", ~forced
               PROVE  IF call[c].arg = "running"
                      THEN state = "running" /\ started /\ (alloc = "initialized" \/ lapsed)
                      ELSE state = "stopped" /\ ~started
    BY DEF StartDecides
  <2>1. call[c].arg = "running" <=> state = "running"
    BY DEF IInv, Agreed, Starting
  <2>2. state \in {"stopped", "running"} /\ (state = "running" <=> started)
    BY DEF IInv, Agreed, TypeOK, States
  <2>3. state = "running" => alloc = "initialized" \/ lapsed
    BY DEF IInv, Agreed
  <2> QED
    BY <2>1, <2>2, <2>3
<1> QED
  BY <1>1, Invariant, PTL

\* The state and the events agree whenever the source's lock is free, though
\* the queueing of an event or the allocator may have failed; until somebody
\* calls SetStreamState.
THEOREM StateAndEventsAgree == Spec => []EventsAgree
<1>1. IInv => EventsAgree
  BY DEF IInv, Agreed, EventsAgree
<1> QED
  BY <1>1, Invariant, PTL

\* A running stream has the target and the bitmap the waiting pattern needs.
THEOREM PatternIsReady == Spec => []PatternReady
<1>1. IInv => PatternReady
  BY DEF IInv, Agreed, PatternReady
<1> QED
  BY <1>1, Invariant, PTL

\* Callers that take turns meet no null pointer but _bitmap, in
\* RenderFallbackNV12, after a Start that failed at CreateBitmap.
THEOREM TurnsAreSafe == Spec => []OneByOneIsSafe
<1>1. IInv => OneByOneIsSafe
  BY DEF IInv, Orderly, OneByOneIsSafe
<1> QED
  BY <1>1, Invariant, PTL

\* Threads that wait for the two locks never wait for each other in a circle:
\* the holder of the stream's lock waits for none, and if nobody has that, the
\* holder of the source's waits for none.
THEOREM NobodyWaitsInACircle == Spec => []NoMutualWait
<1>1. IInv => NoMutualWait
  <2> SUFFICES ASSUME IInv, NEW b \in Callers, call[b] # Ready, ~Waiting
               PROVE  \E c \in Callers : call[c] # Ready /\ ~Blocked(c)
    BY DEF NoMutualWait
  <2>1. CASE strLock # Nobody
    <3>1. strLock \in Callers
      BY <2>1 DEF IInv, TypeOK
    <3>2. HoldsStream(strLock)
      BY <3>1 DEF IInv, LocksHeld
    <3>3. call[strLock] \in Calls
      BY <3>1 DEF IInv, TypeOK
    <3>4. call[strLock].at \in Steps(call[strLock].op)
      BY <3>3, CallIs
    <3>5. call[strLock].at # "index"
      BY <3>2, <3>4 DEF HoldsStream, Steps
    <3> QED
      BY <3>1, <3>2, <3>5 DEF HoldsStream, Blocked, NeedsSource, NeedsStream, Ready
  <2>2. CASE strLock = Nobody /\ srcLock # Nobody
    <3>1. srcLock \in Callers
      BY <2>2 DEF IInv, TypeOK
    <3>2. HoldsSource(srcLock)
      BY <3>1 DEF IInv, LocksHeld
    <3> QED
      BY <2>2, <3>1, <3>2 DEF HoldsSource, Blocked, NeedsSource, Ready
  <2>3. CASE strLock = Nobody /\ srcLock = Nobody
    BY <2>3 DEF Blocked
  <2> QED
    BY <2>1, <2>2, <2>3
<1> QED
  BY <1>1, Invariant, PTL

=============================================================================
