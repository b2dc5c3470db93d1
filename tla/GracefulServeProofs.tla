------------------------ MODULE GracefulServeProofs ------------------------
(***************************************************************************)
(* Proofs about GracefulServe for any set of clients.                      *)
(***************************************************************************)
EXTENDS GracefulServe, TLAPS

(* Every task that was spawned and has not ended holds close_rx. *)
TasksHoldRx == \A c \in Conns : phase[c] \in Tasked => c \in taskRx

(* At most one connection is between accept and its task, and the server   *)
(* is setting it up.                                                       *)
SetupByMain ==
  \A c, d \in Conns :
    phase[c] = "setup" /\ phase[d] = "setup" => main = "setup" /\ c = d

(* close_tx.closed() was over when the server returned. *)
ReturnedUnheld == main = "returned" => taskRx = {}

(* The stream of a connection that is being set up, or that hyper serves,  *)
(* was not yet shut down.                                                  *)
ServedIsOpen ==
  \A c \in Conns :
    phase[c] \in {"setup", "spawned", "serving", "graceful"} => c \in open

(* An inetd server that left its loop unsignalled found the stream of its  *)
(* connection shut down or dropped, and no client is refused.              *)
LeftAfterSession ==
  main \in {"draining", "returned"} /\ inetd /\ ~signalled =>
    \A c \in Conns : c \notin open /\ phase[c] \notin {"waiting", "refused"}

(* An inetd listener drops its client only when it was signalled.          *)
RefusedBySignal ==
  inetd /\ ~signalled => \A c \in Conns : phase[c] # "refused"

GracefulInv ==
  /\ TypeOK
  /\ TasksHoldRx
  /\ SetupByMain
  /\ ReturnedUnheld
  /\ ServedIsOpen
  /\ LeftAfterSession
  /\ RefusedBySignal

LEMMA GracefulInit == Init => GracefulInv
<1> SUFFICES ASSUME Init PROVE GracefulInv
  OBVIOUS
<1>1. phase \in [Conns -> {"out", "waiting"}]
  BY DEF Init
<1> QED
  BY <1>1 DEF Init, GracefulInv, TypeOK, TasksHoldRx, SetupByMain,
              ReturnedUnheld, ServedIsOpen, LeftAfterSession,
              RefusedBySignal, Phases, Tasked

LEMMA BreakStep ==
  ASSUME GracefulInv, main \in {"select", "sleeping"}, Break, UNCHANGED inetd,
         inetd /\ ~signalled =>
           \A c \in Conns : phase[c] # "waiting" /\ c \notin open
  PROVE  GracefulInv'
<1>1. TypeOK'
  BY DEF GracefulInv, TypeOK, Break, Phases
<1>2. TasksHoldRx' /\ SetupByMain' /\ ReturnedUnheld'
  BY DEF GracefulInv, TasksHoldRx, SetupByMain, ReturnedUnheld, Break, Tasked
<1>3. LeftAfterSession' /\ RefusedBySignal'
  BY DEF GracefulInv, TypeOK, LeftAfterSession, RefusedBySignal, Break
<1>4. ServedIsOpen'
  BY DEF GracefulInv, TypeOK, ServedIsOpen, Break
<1> QED
  BY <1>1, <1>2, <1>3, <1>4 DEF GracefulInv

LEMMA GracefulStep == GracefulInv /\ [Next]_vars => GracefulInv'
<1> SUFFICES ASSUME GracefulInv, [Next]_vars PROVE GracefulInv'
  OBVIOUS
<1> USE DEF GracefulInv, TypeOK, TasksHoldRx, SetupByMain, ReturnedUnheld,
            ServedIsOpen, LeftAfterSession, RefusedBySignal, Phases, Tasked
<1>1. ASSUME Up, Signal PROVE GracefulInv'
  BY <1>1 DEF Up, Signal
<1>2. ASSUME Up, AcceptFails \/ SleepOver PROVE GracefulInv'
  BY <1>2 DEF Up, AcceptFails, SleepOver
<1>3. ASSUME Up, SignalBranch PROVE GracefulInv'
  BY <1>3, BreakStep DEF Up, SignalBranch
<1>4. ASSUME Up, NoMoreConnections PROVE GracefulInv'
  BY <1>4, BreakStep DEF Up, NoMoreConnections
<1>5. ASSUME Up, Return PROVE GracefulInv'
  BY <1>5 DEF Up, Return
<1>6. ASSUME Up, NEW c \in Conns, Connect(c) PROVE GracefulInv'
  BY <1>6 DEF Up, Connect, Moves
<1>7. ASSUME Up, NEW c \in Conns, Accept(c) PROVE GracefulInv'
  BY <1>7 DEF Up, Accept, Moves
<1>8. ASSUME Up, NEW c \in Conns, Spawn(c) PROVE GracefulInv'
  BY <1>8 DEF Up, Spawn, Moves
<1>9. ASSUME Up, NEW c \in Conns, Start(c) \/ SignalInTask(c)
      PROVE  GracefulInv'
  BY <1>9 DEF Up, Start, SignalInTask, Moves
<1>10. ASSUME Up, NEW c \in Conns, Shut(c) \/ DropConn(c) \/ UpgradedEnds(c)
       PROVE  GracefulInv'
  BY <1>10 DEF Up, Shut, DropConn, UpgradedEnds, Closes, Moves
<1>11. ASSUME Up, NEW c \in Conns, Finish(c) \/ Upgrade(c) PROVE GracefulInv'
  BY <1>11 DEF Up, Finish, Upgrade, DropRx, Moves
<1>12. ASSUME Up, NEW c \in Conns, Panic(c) PROVE GracefulInv'
  BY <1>12 DEF Up, Panic, Closes, DropRx, Moves
<1>13. ASSUME Up, NEW c \in Conns, ShutUpgraded(c) PROVE GracefulInv'
  BY <1>13 DEF Up, ShutUpgraded, Closes
<1>14. CASE UNCHANGED vars
  BY <1>14 DEF vars
<1> QED
  BY <1>1, <1>2, <1>3, <1>4, <1>5, <1>6, <1>7, <1>8, <1>9, <1>10, <1>11,
     <1>12, <1>13, <1>14 DEF Next, Running, Server, Task

LEMMA GracefulInvariant == Spec => []GracefulInv
BY GracefulInit, GracefulStep, PTL DEF Spec

(* The server returns only when no connection has a task or awaits one. *)
THEOREM ReturnIsClean == Spec => []ReturnsAfterTasks
<1>1. GracefulInv => ReturnsAfterTasks
  BY DEF GracefulInv, TasksHoldRx, SetupByMain, ReturnedUnheld,
         ReturnsAfterTasks
<1> QED
  BY GracefulInvariant, <1>1, PTL

(* Unsignalled, an inetd server returns after the stream of its one        *)
(* connection, upgraded or not, was shut down or dropped.                  *)
THEOREM InetdIsServed == Spec => []InetdServedToTheEnd
<1>1. GracefulInv => InetdServedToTheEnd
  BY DEF GracefulInv, TypeOK, TasksHoldRx, ReturnedUnheld, ServedIsOpen,
         LeftAfterSession, Tasked, Phases, InetdServedToTheEnd
<1> QED
  BY GracefulInvariant, <1>1, PTL

(* A step of the server moves at most one connection in or out of the busy *)
(* ones, or the stage.                                                     *)
LEMMA DrainStep ==
  ASSUME GracefulInv, [Next]_vars
  PROVE  [Drain!Next]_(Drain!vars)
<1> USE DEF GracefulInv, TypeOK
<1> DEFINE Abstract == [Drain!Next]_(Drain!vars)
<1>1. ASSUME UNCHANGED inetd, UNCHANGED signalled, Stage' = Stage, Busy' = Busy
      PROVE  Abstract
  BY <1>1 DEF Drain!vars
(* The connection stays busy, or stays no concern of the server. *)
<1>2. ASSUME NEW c \in Conns, NEW x \in Phases, phase' = [phase EXCEPT ![c] = x],
             phase[c] \in Tasked \union {"setup"} <=> x \in Tasked \union {"setup"}
      PROVE  Busy' = Busy
  BY <1>2 DEF Busy
<1>3. ASSUME Up, Signal PROVE Abstract
  <2>1. Stage' = Stage /\ Busy' = Busy
    BY <1>3 DEF Signal, Stage, Busy
  <2> QED
    BY <1>3, <2>1 DEF Up, Signal, Drain!Next, Drain!Tell
<1>4. ASSUME Up, AcceptFails \/ SleepOver PROVE Abstract
  <2>1. Stage' = Stage /\ Busy' = Busy
    BY <1>4 DEF AcceptFails, SleepOver, Stage, Busy
  <2> QED
    BY <1>1, <1>4, <2>1 DEF Up, AcceptFails, SleepOver
<1>5. ASSUME Up, SignalBranch \/ NoMoreConnections PROVE Abstract
  <2>1. Stage = "accepting" /\ Stage' = "draining" /\ (signalled \/ inetd)
    BY <1>5 DEF SignalBranch, NoMoreConnections, Break, Stage
  <2>2. Busy' = Busy
    BY <1>5 DEF SignalBranch, NoMoreConnections, Break, Busy, Tasked
  <2> QED
    BY <1>5, <2>1, <2>2 DEF Up, SignalBranch, NoMoreConnections, Break, Drain!Next, Drain!Leave
<1>6. ASSUME Up, Return PROVE Abstract
  <2>1. Stage = "draining" /\ Stage' = "returned" /\ Busy' = Busy
    BY <1>6 DEF Return, Stage, Busy
  <2>2. Busy = {}
    BY <1>6 DEF Return, Busy, TasksHoldRx, SetupByMain
  <2> QED
    BY <1>6, <2>1, <2>2 DEF Up, Return, Drain!Next, Drain!Return
<1>7. ASSUME Up, NEW c \in Conns, Connect(c) PROVE Abstract
  <2>1. Busy' = Busy
    BY <1>2, <1>7 DEF Connect, Moves, Tasked, Phases
  <2> QED
    BY <1>1, <1>7, <2>1 DEF Up, Connect, Stage
<1>8. ASSUME Up, NEW c \in Conns, Accept(c) PROVE Abstract
  <2>1. Busy' = Busy \union {c} /\ c \notin Busy
    BY <1>8 DEF Accept, Moves, Busy, Tasked
  <2>2. Stage = "accepting" /\ Stage' = Stage
    BY <1>8 DEF Accept, Stage
  <2> QED
    BY <1>8, <2>1, <2>2 DEF Up, Accept, Drain!Next, Drain!Take
<1>9. ASSUME Up, NEW c \in Conns, Spawn(c) PROVE Abstract
  <2>1. Busy' = Busy
    BY <1>2, <1>9 DEF Spawn, Moves, Tasked, Phases
  <2>2. Stage' = Stage
    BY <1>9 DEF Spawn, Stage
  <2> QED
    BY <1>1, <1>9, <2>1, <2>2 DEF Up, Spawn
<1>10. ASSUME Up, NEW c \in Conns,
              \/ Start(c) \/ SignalInTask(c) \/ Shut(c)
              \/ DropConn(c) \/ UpgradedEnds(c)
       PROVE  Abstract
  <2>1. Busy' = Busy
    BY <1>2, <1>10 DEF Start, SignalInTask, Shut, DropConn, UpgradedEnds,
                       Moves, Tasked, Phases
  <2>2. Stage' = Stage
    BY <1>10 DEF Start, SignalInTask, Shut, DropConn, UpgradedEnds, Stage
  <2> QED
    BY <1>1, <1>10, <2>1, <2>2 DEF Up, Start, SignalInTask, Shut, DropConn,
                                   UpgradedEnds
<1>11. ASSUME Up, NEW c \in Conns, Finish(c) \/ Panic(c) \/ Upgrade(c)
       PROVE  Abstract
  <2>1. Busy' = Busy \ {c} /\ c \in Busy
    BY <1>11 DEF Finish, Panic, Upgrade, Moves, Busy, Tasked
  <2>2. Stage' = Stage
    BY <1>11 DEF Finish, Panic, Upgrade, DropRx, Stage
  <2> QED
    BY <1>11, <2>1, <2>2 DEF Up, Finish, Panic, Upgrade, DropRx, Drain!Next, Drain!End
<1>12. ASSUME Up, NEW c \in Conns, ShutUpgraded(c) PROVE Abstract
  <2>1. Stage' = Stage /\ Busy' = Busy
    BY <1>12 DEF ShutUpgraded, Stage, Busy
  <2> QED
    BY <1>1, <1>12, <2>1 DEF Up, ShutUpgraded
<1>13. CASE UNCHANGED vars
  BY <1>1, <1>13 DEF vars, Stage, Busy
<1> QED
  BY <1>3, <1>4, <1>5, <1>6, <1>7, <1>8, <1>9, <1>10, <1>11, <1>12, <1>13
     DEF Next, Running, Server, Task

(* The steps of a server with graceful shutdown are those of DrainPromise, *)
(* in their order: on sockets it leaves its loop only after the signal, it *)
(* takes no connection after that, and it returns with none left.          *)
THEOREM DrainsInOrder == Spec => Drain!Order
<1>1. Init => Drain!Init
  <2> SUFFICES ASSUME Init PROVE Drain!Init
    OBVIOUS
  <2>1. phase \in [Conns -> {"out", "waiting"}]
    BY DEF Init
  <2> QED
    BY <2>1 DEF Init, Drain!Init, Stage, Busy, Tasked
<1>2. GracefulInv /\ [Next]_vars => [Drain!Next]_(Drain!vars)
  BY DrainStep
<1> QED
  BY <1>1, <1>2, GracefulInvariant, PTL DEF Spec, Drain!Order
=============================================================================
