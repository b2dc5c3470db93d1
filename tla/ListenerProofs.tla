--------------------------- MODULE ListenerProofs ---------------------------
(***************************************************************************)
(* Proofs about Listener for every number and mix of sources, any set of   *)
(* clients and both values of sleep_on_errors: that a task parked in       *)
(* accept cannot miss its wakeup, and that the backoff survives cancelled  *)
(* accepts.                                                                *)
(***************************************************************************)
EXTENDS Listener, TLAPS

(***************************************************************************)
(* NoLostWakeup speaks of a parked task only, so it is not inductive: what *)
(* makes it true is that every source polled so far in the present call is *)
(* watched already, though the kernel and the reactor act meanwhile.       *)
(***************************************************************************)

(* Poll has been through source s since the task was last resumed. *)
Polled(s) ==
  \/ task = "polling" /\ s < cursor
  \/ task = "parked" /\ timeout = "none"

(* A polled source is watched, or the task is going to be polled again. *)
PolledWatched == \A s \in Source : Polled(s) => woken \/ Watched(s)

(* Tokio knows, or is going to be told, of a socket with a client waiting. *)
ReadinessKnown ==
  /\ \A s \in Source : IsSocket(s) /\ queue[s] # <<>> => s \in ready \union events
  /\ \A s \in ready : IsSocket(s)

(* The sources are polled with no backoff timer set. *)
TimerBeforeSources ==
  /\ task # "polling" => cursor = 0
  /\ cursor # 0 => timeout = "none"

(* Parked on the timer, the task is woken by it. *)
TimerWatched ==
  /\ task = "parked" /\ timeout = "armed" => woken \/ Timer \in interest
  /\ task = "parked" /\ timeout = "elapsed" => woken

LoopInv ==
  /\ TypeOK
  /\ PolledWatched
  /\ ReadinessKnown
  /\ TimerBeforeSources
  /\ TimerWatched

(* The timer is armed for as long as the second of an error runs. *)
CoolingArmed == sleep_on_errors /\ cooling => timeout = "armed"

-----------------------------------------------------------------------------
(* A source is a positive number, so it is not the Timer. *)
LEMMA SourceNotTimer == \A s \in Source : s # Timer /\ s \in Nat /\ s >= 1
BY ListenerAssumption DEF Source, Timer

(* Taking the head of a queue leaves a queue. *)
LEMMA DequeueType ==
  ASSUME TypeOK, NEW s \in Source, queue[s] # <<>>
  PROVE  /\ [queue EXCEPT ![s] = Tail(@)] \in [Source -> Seq(Conns)]
         /\ Head(queue[s]) \in Conns
<1>1. queue[s] \in Seq(Conns)
  BY DEF TypeOK
<1>2. Tail(queue[s]) \in Seq(Conns) /\ Head(queue[s]) \in Conns
  BY <1>1
<1> QED
  BY <1>2 DEF TypeOK

LEMMA InitType == Init => TypeOK
<1> SUFFICES ASSUME Init PROVE TypeOK
  OBVIOUS
<1>1. <<>> \in Seq(Conns) /\ 0 \in 0 .. N
  BY ListenerAssumption
<1> QED
  BY <1>1, ListenerAssumption DEF Init, TypeOK

LEMMA TypeStep == TypeOK /\ [Next]_vars => TypeOK'
<1> SUFFICES ASSUME TypeOK, [Next]_vars PROVE TypeOK'
  OBVIOUS
<1>1. ASSUME NEW c \in Conns, Connect(c) PROVE TypeOK'
  <2>1. Append(queue[Target[c]], c) \in Seq(Conns) /\ Target[c] \in Source
    BY ListenerAssumption DEF TypeOK
  <2> QED
    BY <1>1, <2>1 DEF TypeOK, Connect, loopVars
<1>2. ASSUME NEW c \in Conns, Abort(c) \/ Hangup(c) PROVE TypeOK'
  BY <1>2 DEF TypeOK, Abort, Hangup, wakeVars, loopVars
<1>3. ASSUME NEW s \in Source, CloseSenders(s) \/ ReleaseStdio(s) PROVE TypeOK'
  BY <1>3 DEF TypeOK, CloseSenders, ReleaseStdio, loopVars
<1>4. CASE Exhaust \/ Recover
  BY <1>4 DEF TypeOK, Exhaust, Recover, wakeVars, loopVars
<1>5. ASSUME NEW s \in Source, Deliver(s) PROVE TypeOK'
  BY <1>5 DEF TypeOK, Deliver, Notify, sourceVars, loopVars
<1>6. CASE SecondPasses
  BY <1>6 DEF TypeOK, SecondPasses, Notify, sourceVars
<1>7. CASE Resume
  BY <1>7 DEF TypeOK, Resume, sourceVars
<1>8. CASE Call
  BY <1>8 DEF TypeOK, Call, sourceVars
<1>9. CASE Cancel
  BY <1>9 DEF TypeOK, Cancel, sourceVars, wakeVars
<1>10. CASE CheckTimer
  <2>1. 1 \in 0 .. N
    BY ListenerAssumption
  <2> QED
    BY <1>10, <2>1 DEF TypeOK, CheckTimer, sourceVars
<1>11. ASSUME NEW s \in Source, PollPending(s) PROVE TypeOK'
  <2>1. s # N => s + 1 \in 0 .. N
    BY ListenerAssumption DEF Source
  <2>2. 0 \in 0 .. N
    BY ListenerAssumption
  <2> QED
    BY <1>11, <2>1, <2>2 DEF TypeOK, PollPending, Pending, sourceVars
<1>12. ASSUME NEW s \in Source, NEW e \in {"os", "broken", "taken"}, Fail(e)
       PROVE  timeout' \in {"none", "armed", "elapsed"} /\ cursor' \in 0 .. N
              /\ task' \in {"idle", "polling", "parked"} /\ cooling' \in BOOLEAN
              /\ result' \in {"none", "conn", "os", "broken", "taken"}
  BY <1>12, ListenerAssumption DEF TypeOK, Fail, Return
<1>13. ASSUME NEW s \in Source, AcceptFails(s) PROVE TypeOK'
  BY <1>12, <1>13 DEF TypeOK, AcceptFails, sourceVars, wakeVars
<1>14. ASSUME NEW s \in Source, AcceptAborted(s) PROVE TypeOK'
  <2>1. queue' \in [Source -> Seq(Conns)] /\ aborted' \subseteq Conns
    BY <1>14, DequeueType DEF AcceptAborted, CanAccept, Dequeue, TypeOK
  <2>2. CASE Retry
    BY <1>14, <2>1, <2>2, ListenerAssumption DEF TypeOK, AcceptAborted, Retry, wakeVars
  <2>3. CASE Fail("os")
    BY <1>12, <1>14, <2>1, <2>3 DEF TypeOK, AcceptAborted, wakeVars
  <2> QED
    BY <1>14, <2>2, <2>3 DEF AcceptAborted
<1>15. ASSUME NEW s \in Source, AcceptOk(s) PROVE TypeOK'
  <2>1. queue' \in [Source -> Seq(Conns)] /\ aborted' \subseteq Conns
        /\ held' \subseteq Conns
    BY <1>15, DequeueType DEF AcceptOk, CanAccept, Dequeue, TypeOK
  <2> QED
    BY <1>15, <2>1, ListenerAssumption DEF TypeOK, AcceptOk, Return, wakeVars
<1>16. ASSUME NEW s \in Source, AcceptRejected(s) PROVE TypeOK'
  <2>1. queue' \in [Source -> Seq(Conns)] /\ aborted' \subseteq Conns
    BY <1>16, DequeueType DEF AcceptRejected, CanAccept, Dequeue, TypeOK
  <2> QED
    BY <1>12, <1>16, <2>1 DEF TypeOK, AcceptRejected, wakeVars
<1>17. ASSUME NEW s \in Source, StdioAccept(s) PROVE TypeOK'
  BY <1>17, ListenerAssumption DEF TypeOK, StdioAccept, Return, wakeVars
<1>18. ASSUME NEW s \in Source, StdioTaken(s) PROVE TypeOK'
  BY <1>12, <1>18 DEF TypeOK, StdioTaken, wakeVars
<1>19. ASSUME NEW s \in Source, MpscRecv(s) PROVE TypeOK'
  <2>1. queue' \in [Source -> Seq(Conns)] /\ held' \subseteq Conns
    BY <1>19, DequeueType DEF MpscRecv, TypeOK
  <2> QED
    BY <1>19, <2>1, ListenerAssumption DEF TypeOK, MpscRecv, Return, wakeVars
<1>20. ASSUME NEW s \in Source, MpscBroken(s) PROVE TypeOK'
  BY <1>12, <1>20 DEF TypeOK, MpscBroken, sourceVars, wakeVars
<1>21. CASE UNCHANGED vars
  BY <1>21 DEF TypeOK, vars, sourceVars, wakeVars, loopVars
<1> QED
  BY <1>1, <1>2, <1>3, <1>4, <1>5, <1>6, <1>7, <1>8, <1>9, <1>10, <1>11, <1>13,
     <1>14, <1>15, <1>16, <1>17, <1>18, <1>19, <1>20, <1>21
     DEF Next, Environment, Runtime, PollAccept, PollSource

(* Every variable keeps its type, whatever the sources and the clients. *)
THEOREM TypeCorrect == Spec => []TypeOK
BY InitType, TypeStep, PTL DEF Spec

-----------------------------------------------------------------------------
LEMMA LoopInvInit == Init => LoopInv
<1> SUFFICES ASSUME Init PROVE LoopInv
  OBVIOUS
<1>1. TypeOK
  BY InitType
<1>2. PolledWatched /\ TimerBeforeSources /\ TimerWatched
  BY DEF Init, PolledWatched, Polled, TimerBeforeSources, TimerWatched
<1>3. ReadinessKnown
  BY DEF Init, ReadinessKnown
<1> QED
  BY <1>1, <1>2, <1>3 DEF LoopInv

(* A step that ends the call, or starts the loop over, leaves no source    *)
(* polled; readiness is kept if no queue grows and `ready' stays.          *)
LEMMA TopOfLoop ==
  ASSUME LoopInv, TypeOK', cursor' = 0, task' # "parked",
         ready' = ready, events' = events,
         \A s \in Source : IsSocket(s) /\ queue'[s] # <<>> => queue[s] # <<>>
  PROVE  LoopInv'
<1>1. PolledWatched'
  <2> SUFFICES ASSUME NEW s \in Source PROVE ~Polled(s)'
    BY DEF PolledWatched
  <2> QED
    BY SourceNotTimer DEF Polled
<1>2. ReadinessKnown'
  BY DEF LoopInv, ReadinessKnown, IsSocket
<1>3. TimerBeforeSources' /\ TimerWatched'
  BY DEF TimerBeforeSources, TimerWatched
<1> QED
  BY <1>1, <1>2, <1>3 DEF LoopInv

(* A step of the surroundings makes the event that says what it offers.    *)
LEMMA SurroundingsStep ==
  ASSUME LoopInv, TypeOK', UNCHANGED <<ready, interest, woken, loopVars>>,
         events \subseteq events',
         \A s \in Source : Over(s) => Over(s)',
         \A s \in Source : HasWork(s)' => HasWork(s) \/ s \in events'
  PROVE  LoopInv'
<1>1. ReadinessKnown'
  BY DEF LoopInv, ReadinessKnown, HasWork, IsSocket, SocketKinds
<1>2. PolledWatched'
  <2> SUFFICES ASSUME NEW s \in Source, Polled(s)' PROVE (woken \/ Watched(s))'
    BY DEF PolledWatched
  <2>1. woken \/ Watched(s)
    BY DEF LoopInv, PolledWatched, Polled, loopVars
  <2> QED
    BY <2>1 DEF Watched
<1>3. TimerBeforeSources' /\ TimerWatched'
  BY DEF LoopInv, TimerBeforeSources, TimerWatched, loopVars
<1> QED
  BY <1>1, <1>2, <1>3 DEF LoopInv

LEMMA LoopInvStep == LoopInv /\ [Next]_vars => LoopInv'
<1> SUFFICES ASSUME LoopInv, [Next]_vars PROVE LoopInv'
  OBVIOUS
<1>0. TypeOK /\ TypeOK'
  BY TypeStep DEF LoopInv
<1>1. ASSUME NEW c \in Conns, Connect(c) PROVE LoopInv'
  <2>1. \A s \in Source : HasWork(s)' => HasWork(s) \/ s \in events'
    BY <1>0, <1>1, ListenerAssumption DEF Connect, HasWork, IsSocket, TypeOK
  <2>2. \A s \in Source : Over(s) => Over(s)'
    BY <1>1 DEF Connect, Over
  <2> QED
    BY <1>0, <1>1, <2>1, <2>2, SurroundingsStep DEF Connect
<1>2. ASSUME NEW c \in Conns, Abort(c) \/ Hangup(c) PROVE LoopInv'
  BY <1>0, <1>2, SurroundingsStep
     DEF Abort, Hangup, HasWork, Over, IsSocket, wakeVars
<1>3. ASSUME NEW s \in Source, CloseSenders(s) PROVE LoopInv'
  <2>1. \A t \in Source : HasWork(t)' => HasWork(t) \/ t \in events'
    BY <1>3 DEF CloseSenders, HasWork, IsSocket
  <2> QED
    BY <1>0, <1>3, <2>1, SurroundingsStep DEF CloseSenders, Over
<1>4. ASSUME NEW s \in Source, ReleaseStdio(s) PROVE LoopInv'
  <2>1. \A t \in Source : HasWork(t)' => HasWork(t) \/ t \in events'
    BY <1>0, <1>4 DEF ReleaseStdio, HasWork, IsSocket, TypeOK
  <2>2. \A t \in Source : Over(t) => Over(t)'
    BY <1>0, <1>4 DEF ReleaseStdio, Over, TypeOK
  <2> QED
    BY <1>0, <1>4, <2>1, <2>2, SurroundingsStep DEF ReleaseStdio
<1>5. CASE Exhaust \/ Recover
  BY <1>0, <1>5, SurroundingsStep
     DEF Exhaust, Recover, HasWork, Over, IsSocket, wakeVars
<1>6. ASSUME NEW s \in Source, Deliver(s) PROVE LoopInv'
  <2>1. ReadinessKnown'
    BY <1>6 DEF LoopInv, ReadinessKnown, Deliver, sourceVars, IsSocket
  <2>2. PolledWatched'
    <3> SUFFICES ASSUME NEW t \in Source, Polled(t)', ~woken' PROVE Watched(t)'
      BY DEF PolledWatched
    <3>1. Watched(t) /\ s \notin interest
      BY <1>6 DEF LoopInv, PolledWatched, Polled, Deliver, Notify, loopVars
    <3>2. CASE t = s
      BY <1>6, <3>1, <3>2
         DEF Watched, Deliver, Over, HasWork, IsSocket, SocketKinds, sourceVars
    <3>3. CASE t # s
      BY <1>6, <3>1, <3>3
         DEF Watched, Deliver, Notify, Over, HasWork, IsSocket, sourceVars
    <3> QED
      BY <3>2, <3>3
  <2>3. TimerBeforeSources' /\ TimerWatched'
    BY <1>6, SourceNotTimer
       DEF LoopInv, TimerBeforeSources, TimerWatched, Deliver, Notify, loopVars
  <2> QED
    BY <1>0, <2>1, <2>2, <2>3 DEF LoopInv
<1>7. CASE SecondPasses
  <2>1. ReadinessKnown'
    BY <1>7 DEF LoopInv, ReadinessKnown, SecondPasses, sourceVars, IsSocket
  <2>2. PolledWatched'
    <3> SUFFICES ASSUME NEW t \in Source, Polled(t)' PROVE (woken \/ Watched(t))'
      BY DEF PolledWatched
    <3>1. timeout # "armed"
      BY <1>7, <1>0, SourceNotTimer
         DEF LoopInv, TimerBeforeSources, SecondPasses, Polled, TypeOK
    <3> QED
      BY <1>7, <3>1 DEF LoopInv, PolledWatched, Polled, SecondPasses, Watched,
                        Over, HasWork, IsSocket, sourceVars
  <2>3. TimerBeforeSources' /\ TimerWatched'
    BY <1>7 DEF LoopInv, TimerBeforeSources, TimerWatched, SecondPasses, Notify
  <2> QED
    BY <1>0, <2>1, <2>2, <2>3 DEF LoopInv
<1>8. CASE Resume \/ Call
  <2>1. cursor' = 0
    BY <1>8 DEF LoopInv, TimerBeforeSources, Resume, Call
  <2> QED
    BY <1>0, <1>8, <2>1, TopOfLoop DEF Resume, Call, sourceVars
<1>9. CASE Cancel
  <2>1. cursor' = 0
    BY <1>9 DEF LoopInv, TimerBeforeSources, Cancel
  <2> QED
    BY <1>0, <1>9, <2>1, TopOfLoop DEF Cancel, sourceVars, wakeVars
<1>10. CASE CheckTimer
  <2>1. ReadinessKnown'
    BY <1>10 DEF LoopInv, ReadinessKnown, CheckTimer, sourceVars, IsSocket
  <2>2. PolledWatched'
    <3> SUFFICES ASSUME NEW t \in Source PROVE ~Polled(t)'
      BY DEF PolledWatched
    <3> QED
      BY <1>10, SourceNotTimer DEF CheckTimer, Polled
  <2>3. TimerBeforeSources' /\ TimerWatched'
    BY <1>10 DEF LoopInv, TimerBeforeSources, TimerWatched, CheckTimer, Timer
  <2> QED
    BY <1>0, <2>1, <2>2, <2>3 DEF LoopInv
<1>11. ASSUME NEW s \in Source, PollPending(s) PROVE LoopInv'
  <2>1. timeout = "none" /\ timeout' = "none"
    BY <1>11, SourceNotTimer
       DEF LoopInv, TimerBeforeSources, PollPending, Polls, Timer
  <2>2. ReadinessKnown'
    BY <1>11 DEF LoopInv, ReadinessKnown, PollPending, NothingAt, CanAccept,
                 IsSocket, SocketKinds, sourceVars
  <2>3. PolledWatched'
    <3> SUFFICES ASSUME NEW t \in Source, Polled(t)', ~woken' PROVE Watched(t)'
      BY DEF PolledWatched
    <3>1. CASE t = s
      BY <1>11, <3>1 DEF LoopInv, ReadinessKnown, PollPending, Pending,
           NothingAt, Watched, HasWork, Over, IsSocket, SocketKinds, sourceVars
    <3>2. CASE t # s
      <4>1. t < s
        BY <1>11, <3>2, ListenerAssumption
           DEF Polled, PollPending, Pending, Polls, Source
      <4>2. Watched(t)
        BY <1>11, <4>1 DEF LoopInv, PolledWatched, Polled, PollPending, Polls
      <4> QED
        BY <1>11, <3>2, <4>2
           DEF PollPending, Pending, Watched, HasWork, Over, IsSocket, sourceVars
    <3> QED
      BY <3>1, <3>2
  <2>4. TimerBeforeSources' /\ TimerWatched'
    BY <1>11, <2>1
       DEF TimerBeforeSources, TimerWatched, PollPending, Pending, Polls
  <2> QED
    BY <1>0, <2>2, <2>3, <2>4 DEF LoopInv
<1>12. ASSUME NEW s \in Source, Polls(s), NEW e, Fail(e)
       PROVE  cursor' = 0 /\ task' # "parked"
  BY <1>12 DEF Fail, Return, Polls
<1>13. ASSUME NEW s \in Source, AcceptFails(s) PROVE LoopInv'
  BY <1>0, <1>12, <1>13, TopOfLoop DEF AcceptFails, sourceVars, wakeVars
<1>14. ASSUME NEW s \in Source,
              AcceptAborted(s) \/ AcceptOk(s) \/ AcceptRejected(s)
       PROVE  LoopInv'
  <2>1. \A t \in Source : IsSocket(t) /\ queue'[t] # <<>> => queue[t] # <<>>
    BY <1>0, <1>14 DEF AcceptAborted, AcceptOk, AcceptRejected, CanAccept,
                       Dequeue, TypeOK
  <2>2. cursor' = 0 /\ task' # "parked"
    BY <1>12, <1>14 DEF AcceptAborted, AcceptOk, AcceptRejected, CanAccept,
                        Retry, Return, Polls
  <2> QED
    BY <1>0, <1>14, <2>1, <2>2, TopOfLoop
       DEF AcceptAborted, AcceptOk, AcceptRejected, wakeVars
<1>15. ASSUME NEW s \in Source, StdioAccept(s) \/ StdioTaken(s) PROVE LoopInv'
  BY <1>0, <1>12, <1>15, TopOfLoop DEF StdioAccept, StdioTaken, Return, wakeVars
<1>16. ASSUME NEW s \in Source, MpscRecv(s) PROVE LoopInv'
  <2>1. \A t \in Source : IsSocket(t) /\ queue'[t] # <<>> => queue[t] # <<>>
    BY <1>0, <1>16 DEF MpscRecv, TypeOK
  <2> QED
    BY <1>0, <1>16, <2>1, TopOfLoop DEF MpscRecv, Return, wakeVars
<1>17. ASSUME NEW s \in Source, MpscBroken(s) PROVE LoopInv'
  BY <1>0, <1>12, <1>17, TopOfLoop DEF MpscBroken, sourceVars, wakeVars
<1>18. CASE UNCHANGED vars
  BY <1>0, <1>18, SurroundingsStep
     DEF vars, sourceVars, wakeVars, HasWork, Over, IsSocket
<1> QED
  BY <1>1, <1>2, <1>3, <1>4, <1>5, <1>6, <1>7, <1>8, <1>9, <1>10, <1>11, <1>13,
     <1>14, <1>15, <1>16, <1>17, <1>18
     DEF Next, Environment, Runtime, PollAccept, PollSource

LEMMA LoopInvImpliesNoLostWakeup == LoopInv => NoLostWakeup
BY DEF LoopInv, TypeOK, NoLostWakeup, PolledWatched, Polled, TimerWatched

(* A task parked in accept is woken by its timer or by any of its sources. *)
THEOREM WakeupsAreKept == Spec => []NoLostWakeup
BY LoopInvInit, LoopInvStep, LoopInvImpliesNoLostWakeup, PTL DEF Spec

-----------------------------------------------------------------------------
(* With sleep_on_errors the timer runs for as long as an error's second.   *)
LEMMA CoolingStep ==
  ASSUME ~StdioOnly, LoopInv, CoolingArmed, [Next]_vars
  PROVE  CoolingArmed'
<1>1. CASE Environment
  BY <1>1 DEF CoolingArmed, Environment, Connect, Abort, Hangup, CloseSenders,
              ReleaseStdio, Exhaust, Recover, sourceVars, loopVars
<1>2. CASE Runtime
  BY <1>2 DEF CoolingArmed, Runtime, SecondPasses, Resume, Deliver,
              sourceVars, loopVars
<1>3. CASE Call \/ Cancel \/ CheckTimer
  BY <1>3 DEF CoolingArmed, Call, Cancel, CheckTimer, sourceVars
<1>4. ASSUME NEW e, Fail(e), UNCHANGED sleep_on_errors PROVE CoolingArmed'
  BY <1>4 DEF CoolingArmed, Fail
<1>5. ASSUME NEW s \in Source, PollSource(s) PROVE CoolingArmed'
  BY <1>4, <1>5 DEF CoolingArmed, PollSource, PollPending, AcceptFails,
       AcceptAborted, Retry, AcceptOk, AcceptRejected, StdioAccept,
       StdioTaken, MpscRecv, MpscBroken, sourceVars
<1>6. CASE UNCHANGED vars
  BY <1>6 DEF CoolingArmed, vars, sourceVars, loopVars
<1> QED
  BY <1>1, <1>2, <1>3, <1>5, <1>6 DEF Next, PollAccept

(* With sleep_on_errors, and whatever the caller does with its accept      *)
(* futures, no source is polled in the second after an error that is not a *)
(* connection error.                                                       *)
THEOREM BackoffIsKept ==
  ASSUME ~StdioOnly
  PROVE  Spec => [](sleep_on_errors => NoAcceptWhileCooling)
<1>1. Init => CoolingArmed
  BY DEF Init, CoolingArmed
<1>2. LoopInv /\ CoolingArmed /\ [Next]_vars => CoolingArmed'
  BY CoolingStep
<1>3. LoopInv /\ CoolingArmed => (sleep_on_errors => NoAcceptWhileCooling)
  BY DEF LoopInv, TimerBeforeSources, CoolingArmed, NoAcceptWhileCooling
<1> QED
  BY LoopInvInit, LoopInvStep, <1>1, <1>2, <1>3, PTL DEF Spec
=============================================================================
