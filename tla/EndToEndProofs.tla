--------------------------- MODULE EndToEndProofs ---------------------------
(***************************************************************************)
(* Proofs about Feed, Link and EndToEnd, for any set of streams.           *)
(***************************************************************************)
EXTENDS EndToEnd, TLAPS

-----------------------------------------------------------------------------
(* What a request may be, and what Link does to one.                       *)

Wheres == {"idle", "connect", "sent", "back", "ok", "failed"}
ReqType == [at : Wheres, kind : Kinds \cup {"none"}]

\* A request that is none for a frame yet, or has come to nothing.
LEMMA Requests ==
  ASSUME NEW where \in Wheres
  PROVE  /\ L!At(where).at = where /\ L!At(where).kind = "none"
         /\ L!At(where) \in ReqType
  BY DEF L!At, ReqType

\* Each step of the broker keeps the feed's types.
LEMMA FeedTypes == FeedTypeOK /\ [FeedNext]_feedVars => FeedTypeOK'
  BY DEF FeedTypeOK, FeedNext, feedVars, SwitchOn, Take, GiveUp, SwitchOff, Choose,
         Publish, Kinds

\* Once the test pattern has been published as chosen, a step of the broker
\* other than a choice neither begins nor publishes a frame of OBS.
LEMMA StaysSettled ==
  ASSUME Settled, settled, SwitchOn \/ Take \/ GiveUp \/ SwitchOff \/ \E k \in Kinds : Publish(k)
  PROVE  source' = "test" /\ ~begun' /\ label' = "test"
  BY DEF Settled, SwitchOn, Take, GiveUp, SwitchOff, Publish, Kinds

\* The end of the process leaves no live connection, and gives no stream an
\* answer it did not have.
LEMMA CutRequests ==
  ASSUME TypeOK, L!Cut
  PROVE  /\ on' = FALSE /\ label' = "none"
         /\ link' \in [Streams -> {"none", "live", "dead"}]
         /\ req' \in [Streams -> ReqType]
         /\ \A s \in Streams : link'[s] # "live"
<1>1. PICK lost \in SUBSET {s \in Streams : req[s].at = "back"},
           left \in SUBSET {s \in Streams : req[s].at = "connect"} :
        /\ link' = [s \in Streams |-> IF link[s] = "live" \/ s \in left THEN "dead" ELSE link[s]]
        /\ req' = [s \in Streams |-> IF s \in lost \cup left THEN L!At("sent") ELSE req[s]]
  BY DEF L!Cut
<1>2. on' = FALSE /\ label' = "none"
  BY DEF L!Cut
<1>3. req \in [Streams -> ReqType] /\ link \in [Streams -> {"none", "live", "dead"}]
  BY DEF TypeOK, ReqType, Wheres
<1>4. req' \in [Streams -> ReqType]
  BY <1>1, <1>3, Requests DEF Wheres
<1> QED BY <1>1, <1>2, <1>3, <1>4

-----------------------------------------------------------------------------
(* The steps of the broker.                                                *)

LEMMA BrokerKeeps ==
  ASSUME IInv, Launch \/ Die \/ Command \/ Produce
  PROVE  IInv'
<1> USE DEF IInv, TypeOK, Wheres, ReqType
<1>1. CASE Launch
  <2>1. TypeOK'
    BY <1>1 DEF Launch, feedVars, streamVars, sample, FeedTypeOK
  <2>2. Settled' /\ Seen'
    BY <1>1 DEF Launch, feedVars, streamVars, sample, Settled, Seen
  <2> QED BY <2>1, <2>2
<1>2. CASE Die
  <2>1. /\ ~on' /\ label' = "none" /\ link' \in [Streams -> {"none", "live", "dead"}]
        /\ req' \in [Streams -> ReqType] /\ \A s \in Streams : link'[s] # "live"
    BY <1>2, CutRequests DEF Die
  <2>2. FeedTypeOK'
    BY <1>2, CutRequests DEF Die, FeedTypeOK, Kinds
  <2>3. /\ settled' = FALSE
        /\ mark' = [s \in Streams |-> FALSE] /\ seen' = [s \in Streams |-> FALSE]
    BY <1>2 DEF Die, Forget
  <2>4. TypeOK'
    BY <1>2, <2>1, <2>2, <2>3 DEF Die
  <2>5. Settled' /\ Seen'
    BY <2>3 DEF Settled, Seen
  <2> QED BY <2>4, <2>5
<1>3. CASE Command
  <2>1. PICK k \in Kinds :
          Choose(k) /\ IF k = "obs" THEN Forget ELSE UNCHANGED <<settled, mark, seen>>
    BY <1>3 DEF Command
  <2>2. UNCHANGED <<up, cam, link, req, pic>> /\ up
    BY <1>3 DEF Command
  <2>3. FeedTypeOK'
    BY <2>1, FeedTypes DEF FeedNext
  <2>4. CASE k = "obs"
    <3>1. /\ settled' = FALSE
          /\ mark' = [s \in Streams |-> FALSE] /\ seen' = [s \in Streams |-> FALSE]
      BY <2>1, <2>4 DEF Forget
    <3>2. TypeOK'
      BY <2>2, <2>3, <3>1
    <3>3. Settled' /\ Seen'
      BY <3>1 DEF Settled, Seen
    <3> QED BY <3>2, <3>3
  <2>5. CASE k # "obs"
    <3>1. k = "test" /\ UNCHANGED <<settled, mark, seen>>
      BY <2>1, <2>5 DEF Kinds
    <3>2. TypeOK'
      BY <2>2, <2>3, <3>1
    <3>3. source' = "test" /\ UNCHANGED <<begun, label>>
      BY <2>1, <3>1 DEF Choose
    <3>4. Settled' /\ Seen'
      BY <2>2, <3>1, <3>3 DEF Settled, Seen
    <3> QED BY <3>2, <3>4
  <2> QED BY <2>4, <2>5
<1>4. CASE Produce
  <2>1. UNCHANGED <<up, streamVars>> /\ up
    BY <1>4 DEF Produce
  <2>2. FeedTypeOK'
    BY <1>4, FeedTypes DEF Produce, FeedNext
  <2>3. settled => settled'
    BY <1>4 DEF Produce
  <2>4. settled' \in BOOLEAN
    <3>1. settled' = settled \/ \E k \in Kinds : settled' = (settled \/ (k = "test" /\ source = "test"))
      BY <1>4 DEF Produce
    <3> QED BY <3>1
  <2>5. TypeOK'
    BY <2>1, <2>2, <2>4 DEF streamVars, sample
  <2>6. Settled'
    <3> SUFFICES ASSUME settled' PROVE source' = "test" /\ ~begun' /\ label' = "test"
      BY DEF Settled
    <3>1. CASE settled
      BY <1>4, <3>1, StaysSettled DEF Produce
    <3>2. CASE ~settled
      <4>1. Publish("test") /\ source = "test"
        BY <1>4, <3>2 DEF Produce
      <4> QED BY <4>1 DEF Publish
    <3> QED BY <3>1, <3>2
  <2>7. Seen'
    BY <2>1, <2>3 DEF streamVars, sample, Seen
  <2> QED BY <2>5, <2>6, <2>7
<1> QED BY <1>1, <1>2, <1>3, <1>4

-----------------------------------------------------------------------------
(* The steps of a stream.                                                  *)

\* No step of a stream has to do with the user's choice or with what is
\* published.
LEMMA StreamFrame ==
  ASSUME NEW s \in Streams,
         \/ CreateInstance(s) \/ ActivateObject(s) \/ Stop(s) \/ Shutdown(s) \/ DetachObject(s)
         \/ HostEnds(s) \/ Sample(s)
  PROVE  UNCHANGED <<choice, on, label>>
  BY DEF CreateInstance, ActivateObject, Stop, Shutdown, DetachObject, HostEnds, Destroyed, Sample,
         Request, Connect, Refuse, Answer, Show, Wait, connections,
         L!Request, L!Connect, L!Refuse, L!Answer, L!Return, L!Fail, L!Close

LEMMA StreamKeeps ==
  ASSUME IInv, NEW s \in Streams,
         \/ CreateInstance(s) \/ ActivateObject(s) \/ Stop(s) \/ Shutdown(s) \/ DetachObject(s)
         \/ HostEnds(s) \/ Sample(s)
  PROVE  IInv'
<1> USE DEF IInv, TypeOK, FeedTypeOK, choice, Wheres, ReqType
<1>0. UNCHANGED <<choice, on, label>>
  BY StreamFrame
<1>1. Settled'
  BY <1>0 DEF Settled
<1>2. CASE CreateInstance(s) \/ ActivateObject(s) \/ Stop(s) \/ Shutdown(s)
  BY <1>1, <1>2 DEF CreateInstance, ActivateObject, Stop, Shutdown, connections, sample, Seen
<1>3. CASE DetachObject(s) \/ HostEnds(s)
  <2>1. Destroyed(s)
    BY <1>3 DEF DetachObject, HostEnds
  <2>2. req' = [req EXCEPT ![s] = L!At("idle")] /\ link' = [link EXCEPT ![s] = "none"]
    BY <2>1 DEF Destroyed, L!Close
  <2>3. TypeOK'
    BY <1>0, <2>1, <2>2, Requests DEF Destroyed
  <2>4. Seen'
    BY <1>0, <2>1, <2>2, Requests DEF Destroyed, Seen
  <2> QED BY <1>1, <2>3, <2>4
<1>4. CASE Request(s) \/ Connect(s) \/ Refuse(s)
  <2>1. PICK where \in {"connect", "sent"} :
          req' = [req EXCEPT ![s] = L!At(where)] /\ req[s].at # "back"
    BY <1>4 DEF Request, Connect, Refuse, L!Request, L!Connect, L!Refuse, L!Resting
  <2>2. /\ link' \in [Streams -> {"none", "live", "dead"}]
        /\ \A t \in Streams : link'[t] = "live" => up
    BY <1>4 DEF Request, Connect, Refuse, L!Request, L!Connect, L!Refuse
  <2>3. UNCHANGED <<cam, sample>>
    BY <1>4 DEF Request, Connect, Refuse
  <2>4. TypeOK'
    BY <1>0, <2>1, <2>2, <2>3, Requests DEF sample
  <2>5. Seen'
    BY <1>0, <2>1, <2>3, Requests DEF Seen, sample
  <2> QED BY <1>1, <2>4, <2>5
<1>5. CASE Answer(s)
  <2>1. /\ req' = [req EXCEPT ![s] = [at |-> "back", kind |-> label]] /\ link' = link
        /\ mark' = [mark EXCEPT ![s] = settled] /\ UNCHANGED <<cam, pic, seen>>
    BY <1>5 DEF Answer, L!Answer
  <2>2. TypeOK'
    BY <1>0, <2>1
  <2>3. Seen'
    BY <1>0, <2>1 DEF Seen, Settled
  <2> QED BY <1>1, <2>2, <2>3
<1>6. CASE Show(s)
  <2>1. /\ req' = [req EXCEPT ![s].at = "ok"] /\ link' = link /\ req[s].kind # "none"
        /\ pic' = [pic EXCEPT ![s] = req[s].kind]
        /\ mark' = [mark EXCEPT ![s] = FALSE]
        /\ seen' = [seen EXCEPT ![s] = seen[s] \/ mark[s]]
        /\ cam' = cam
    BY <1>6 DEF Show, L!Return
  <2>2. TypeOK'
    BY <1>0, <2>1
  <2>3. Seen'
    <3> SUFFICES ASSUME NEW t \in Streams
                 PROVE  /\ mark'[t] => settled' /\ req'[t].at = "back" /\ req'[t].kind = "test"
                        /\ seen'[t] => settled' /\ pic'[t] # "obs" /\ req'[t].kind # "obs"
      BY DEF Seen
    <3>1. req'[t].kind = req[t].kind /\ (t # s => req'[t] = req[t])
      BY <2>1
    <3>2. CASE t = s
      <4>1. ~mark'[t] /\ pic'[t] = req[t].kind /\ (seen'[t] => seen[t] \/ mark[t])
        BY <2>1, <3>2
      <4> QED BY <1>0, <3>1, <4>1 DEF Seen
    <3>3. CASE t # s
      <4>1. mark'[t] = mark[t] /\ pic'[t] = pic[t] /\ seen'[t] = seen[t]
        BY <2>1, <3>3
      <4> QED BY <1>0, <3>1, <3>3, <4>1 DEF Seen
    <3> QED BY <3>2, <3>3
  <2> QED BY <1>1, <2>2, <2>3
<1>7. CASE Wait(s)
  <2>1. /\ req' = [req EXCEPT ![s] = L!At("failed")] /\ link' = [link EXCEPT ![s] = "none"]
        /\ pic' = [pic EXCEPT ![s] = "waiting"]
        /\ mark' = [mark EXCEPT ![s] = FALSE]
        /\ UNCHANGED <<cam, seen>>
    BY <1>7 DEF Wait, L!Fail
  <2>2. TypeOK'
    BY <1>0, <2>1, Requests
  <2>3. Seen'
    BY <1>0, <2>1, Requests DEF Seen
  <2> QED BY <1>1, <2>2, <2>3
<1> QED BY <1>2, <1>3, <1>4, <1>5, <1>6, <1>7 DEF Sample

-----------------------------------------------------------------------------
(* The theorems.                                                           *)

\* The inductive invariant holds over every crash and relaunch.
THEOREM Invariant == Spec => []IInv
<1>1. Init => IInv
  <2> SUFFICES ASSUME Init PROVE IInv
    OBVIOUS
  <2>1. req = [s \in Streams |-> L!At("idle")]
    BY DEF Init, L!LinkInit
  <2>2. TypeOK
    BY <2>1, Requests DEF Init, FeedInit, L!LinkInit, TypeOK, FeedTypeOK, Kinds, Wheres, ReqType
  <2>3. Settled /\ Seen
    BY DEF Init, Settled, Seen
  <2> QED BY <2>2, <2>3 DEF IInv
<1>2. IInv /\ [Next]_vars => IInv'
  <2> SUFFICES ASSUME IInv, [Next]_vars PROVE IInv'
    OBVIOUS
  <2>1. CASE UNCHANGED vars
    <3>1. UNCHANGED <<feedVars, up, settled, streamVars>>
      BY <2>1 DEF vars
    <3>2. TypeOK'
      BY <3>1 DEF feedVars, streamVars, sample, IInv, TypeOK, FeedTypeOK
    <3>3. Settled' /\ Seen'
      BY <3>1 DEF feedVars, streamVars, sample, IInv, Settled, Seen
    <3> QED BY <3>2, <3>3 DEF IInv
  <2> QED BY <2>1, BrokerKeeps, StreamKeeps DEF Next
<1> QED BY <1>1, <1>2, PTL DEF Spec

\* Type correctness; a stream holds a live connection only while a broker
\* runs.
THEOREM TypeCorrect == Spec => []TypeOK
<1>1. IInv => TypeOK
  BY DEF IInv
<1> QED BY <1>1, Invariant, PTL

\* No application falls back from the test pattern the user chose to a frame
\* of OBS, however many streams there are and whatever crashes.
THEOREM NobodyStepsBack == Spec => []NoStepBack
<1>1. IInv => NoStepBack
  BY DEF IInv, Seen, NoStepBack
<1> QED BY <1>1, Invariant, PTL

\* EndToEnd asks no more of the connections than Link, which is what the pipe
\* of ipc.h gives: whatever the broker and the streams do, to a connection it
\* is one of Link's steps, or none.
THEOREM ConnectionsAreLinks == Spec => L!LinkSpec
<1>1. Init => L!LinkInit
  BY DEF Init
<1>2. [Next]_vars => [L!LinkNext]_(L!linkVars)
  <2> SUFFICES ASSUME [Next]_vars PROVE [L!LinkNext]_(L!linkVars)
    OBVIOUS
  <2>1. CASE Launch \/ Command \/ UNCHANGED vars
    BY <2>1 DEF Launch, Command, Choose, vars, feedVars, streamVars, L!linkVars
  <2>2. CASE Die
    BY <2>2 DEF Die, L!LinkNext
  <2>3. CASE Produce
    <3>1. UNCHANGED <<link, req>>
      BY <2>3 DEF Produce, streamVars
    <3>2. CASE SwitchOn
      BY <3>1, <3>2 DEF SwitchOn, L!SwitchOn, L!LinkNext
    <3>3. CASE SwitchOff
      BY <3>1, <3>3 DEF SwitchOff, L!SwitchOff, L!LinkNext
    <3>4. CASE Take \/ GiveUp
      BY <3>1, <3>4 DEF Take, GiveUp, L!linkVars
    <3>5. ASSUME NEW k \in Kinds, Publish(k)
          PROVE  L!Replace
      BY <3>1, <3>5 DEF Publish, Kinds, L!Replace
    <3> QED BY <2>3, <3>2, <3>3, <3>4, <3>5 DEF Produce, L!LinkNext
  <2>4. ASSUME NEW s \in Streams, CreateInstance(s) \/ ActivateObject(s) \/ Stop(s) \/ Shutdown(s)
        PROVE  UNCHANGED L!linkVars
    BY <2>4 DEF CreateInstance, ActivateObject, Stop, Shutdown, connections, L!linkVars
  <2>5. ASSUME NEW s \in Streams, DetachObject(s) \/ HostEnds(s) \/ Sample(s)
        PROVE  L!LinkNext
    BY <2>5 DEF DetachObject, HostEnds, Destroyed, Sample, Request, Connect, Refuse, Answer,
                Show, Wait, L!LinkNext
  <2> QED BY <2>1, <2>2, <2>3, <2>4, <2>5 DEF Next
<1> QED BY <1>1, <1>2, PTL DEF Spec, L!LinkSpec

=============================================================================
