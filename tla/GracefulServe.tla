--------------------------- MODULE GracefulServe ---------------------------
(***************************************************************************)
(* axum07::WithGracefulShutdown (src/src/axum07.rs 313-427): the server's  *)
(* loop selects between accept and the shutdown signal; a task per         *)
(* connection selects between serving it and the same signal; the server   *)
(* returns when every task has dropped its clone of close_rx.              *)
(*                                                                         *)
(* The listener is reduced to what Listener and Serving show of accept: it *)
(* may give any waiting client, or an error that puts tokio_listener_accept*)
(* to sleep, or, over inetd, the error that says that no connection is to  *)
(* come.  tokio::select! polls its branches in random order.               *)
(***************************************************************************)
CONSTANT Conns  (* the clients *)

VARIABLES
  inetd,     (* the listener is the pseudo-socket of one client           *)
  main,      (* where the future of serve is                              *)
  phase,     (* per client: what became of its connection                 *)
  signalled, (* the signal is over: its task dropped signal_rx            *)
  mainRx,    (* the server holds close_rx, and its listener               *)
  taskRx,    (* connections whose task holds a clone of close_rx          *)
  open       (* connections taken whose stream was not yet shut down or   *)
             (* dropped: over inetd the stream holds the Sender till then *)

vars == <<inetd, main, phase, signalled, mainRx, taskRx, open>>

(* "shut": hyper has shut the stream down.  "upgraded": it lives on as a   *)
(* websocket or the like, in a task that holds no close_rx.  "finished":   *)
(* the task has dropped close_rx, not yet the connection.                  *)
Phases == {"out", "waiting", "refused", "setup", "spawned", "serving",
           "graceful", "shut", "upgraded", "finished", "gone"}

(* The connection has a task that runs or is about to. *)
Tasked == {"spawned", "serving", "graceful", "shut"}

TypeOK ==
  /\ inetd \in BOOLEAN
  /\ main \in {"select", "sleeping", "setup", "draining", "returned"}
  /\ phase \in [Conns -> Phases]
  /\ signalled \in BOOLEAN
  /\ mainRx \in BOOLEAN
  /\ taskRx \subseteq Conns
  /\ open \subseteq Conns

Init ==
  /\ inetd \in BOOLEAN
  /\ main = "select"
  /\ IF inetd
     THEN \E one \in Conns :
            phase = [c \in Conns |-> IF c = one THEN "waiting" ELSE "out"]
     ELSE phase = [c \in Conns |-> "out"]
  /\ signalled = FALSE
  /\ mainRx = TRUE
  /\ taskRx = {}
  /\ open = {}

Moves(c, from, to) ==
  /\ phase[c] \in from
  /\ phase' = [phase EXCEPT ![c] = to]

-----------------------------------------------------------------------------
(* Clients, and the task that awaits the signal. *)

(* A client connects, perhaps again. *)
Connect(c) ==
  /\ ~inetd /\ mainRx
  /\ Moves(c, {"out", "gone"}, "waiting")
  /\ UNCHANGED <<main, signalled, mainRx, taskRx, open>>

(* The signal future completes, or panics and is dropped. *)
Signal ==
  /\ ~signalled
  /\ signalled' = TRUE
  /\ UNCHANGED <<main, phase, mainRx, taskRx, open>>

-----------------------------------------------------------------------------
(* The server's loop. *)

Accept(c) ==
  /\ main = "select"
  /\ main' = "setup"
  /\ Moves(c, {"waiting"}, "setup")
  /\ open' = open \union {c}
  /\ UNCHANGED <<signalled, mainRx, taskRx>>

(* A loop that an error of accept ends. *)
AcceptFailsEnds ==
  /\ main = "select" /\ ~inetd
  /\ main' = "draining" /\ mainRx' = FALSE
  /\ UNCHANGED <<phase, signalled, taskRx, open>>

(* tokio_listener_accept sleeps a second, inside the accept branch. *)
AcceptFails ==
  /\ main = "select" /\ ~inetd
  /\ main' = "sleeping"
  /\ UNCHANGED <<phase, signalled, mainRx, taskRx, open>>

SleepOver ==
  /\ main = "sleeping"
  /\ main' = "select"
  /\ UNCHANGED <<phase, signalled, mainRx, taskRx, open>>

(* make_service is done: close_rx is cloned before the task is spawned. *)
SpawnWithoutRx(c) ==
  /\ main = "setup"
  /\ main' = "select"
  /\ Moves(c, {"setup"}, "spawned")
  /\ UNCHANGED <<signalled, mainRx, taskRx, open>>

SpawnUnlessSignalled(c) ==
  /\ main = "setup"
  /\ main' = "select"
  /\ Moves(c, {"setup"}, IF signalled THEN "gone" ELSE "spawned")
  /\ taskRx' = IF signalled THEN taskRx ELSE taskRx \union {c}
  /\ open' = IF signalled THEN open \ {c} ELSE open
  /\ UNCHANGED <<signalled, mainRx>>

Spawn(c) ==
  /\ main = "setup"
  /\ main' = "select"
  /\ Moves(c, {"setup"}, "spawned")
  /\ taskRx' = taskRx \union {c}
  /\ UNCHANGED <<signalled, mainRx, open>>

(* The loop is left: close_rx and the listener are dropped, and with it    *)
(* the clients that wait in its queue.                                     *)
Break ==
  /\ main' = "draining"
  /\ mainRx' = FALSE
  /\ phase' = [c \in Conns |->
                 IF phase[c] = "waiting" THEN "refused" ELSE phase[c]]
  /\ UNCHANGED <<signalled, taskRx, open>>

(* A biased select! that polls accept first. *)
SignalBranchBiased ==
  /\ main \in {"select", "sleeping"} /\ signalled
  /\ \A c \in Conns : phase[c] # "waiting"
  /\ Break

SignalBranch ==
  /\ main \in {"select", "sleeping"} /\ signalled
  /\ Break

(* The inetd connection is taken. *)
NoMoreConnectionsEarly ==
  /\ main = "select" /\ inetd
  /\ \A c \in Conns : phase[c] # "waiting"
  /\ Break

(* The Sender of the inetd connection was used or dropped, though what the *)
(* connection was upgraded to may still run.                               *)
NoMoreConnections ==
  /\ main = "select" /\ inetd
  /\ \A c \in Conns : phase[c] # "waiting" /\ c \notin open
  /\ Break

(* close_tx.closed() *)
Return ==
  /\ main = "draining" /\ taskRx = {}
  /\ main' = "returned"
  /\ UNCHANGED <<phase, signalled, mainRx, taskRx, open>>

-----------------------------------------------------------------------------
(* The task of a connection. *)

Start(c) ==
  /\ Moves(c, {"spawned"}, "serving")
  /\ UNCHANGED <<main, signalled, mainRx, taskRx, open>>

(* signal_closed, fused: conn.graceful_shutdown() is called once. *)
SignalInTask(c) ==
  /\ signalled
  /\ Moves(c, {"serving"}, "graceful")
  /\ UNCHANGED <<main, signalled, mainRx, taskRx, open>>

(* The stream of the connection is shut down, or dropped. *)
Closes(c) == open' = open \ {c}

(* hyper is done with the connection's requests and shuts the stream down. *)
Shut(c) ==
  /\ Moves(c, {"serving", "graceful"}, "shut")
  /\ Closes(c)
  /\ UNCHANGED <<main, signalled, mainRx, taskRx>>

DropRx(c) ==
  /\ taskRx' = taskRx \ {c}
  /\ UNCHANGED <<main, signalled, mainRx>>

(* conn is Ready, with an error or after the shutdown: close_rx is dropped *)
(* first, conn at the end of its scope.                                    *)
Finish(c) ==
  /\ Moves(c, {"serving", "graceful", "shut"}, "finished")
  /\ DropRx(c)
  /\ UNCHANGED open

DropConn(c) ==
  /\ Moves(c, {"finished"}, "gone")
  /\ Closes(c)
  /\ UNCHANGED <<main, signalled, mainRx, taskRx>>

(* The unwinding drops conn, and then close_rx. *)
Panic(c) ==
  /\ Moves(c, {"serving", "graceful", "shut"}, "gone")
  /\ Closes(c)
  /\ DropRx(c)

(* serve_connection_with_upgrades is Ready, the stream goes to another task.*)
Upgrade(c) ==
  /\ Moves(c, {"serving", "graceful"}, "upgraded")
  /\ DropRx(c)
  /\ UNCHANGED open

(* That task shuts the stream down, and may go on: a websocket reads on    *)
(* after it has sent its last frame.                                       *)
ShutUpgraded(c) ==
  /\ phase[c] = "upgraded" /\ c \in open
  /\ Closes(c)
  /\ UNCHANGED <<main, phase, signalled, mainRx, taskRx>>

UpgradedEnds(c) ==
  /\ Moves(c, {"upgraded"}, "gone")
  /\ Closes(c)
  /\ UNCHANGED <<main, signalled, mainRx, taskRx>>

-----------------------------------------------------------------------------
Server ==
  \/ \E c \in Conns : Spawn(c)
  \/ SleepOver
  \/ NoMoreConnections
  \/ Return

Task(c) ==
  \/ Start(c) \/ SignalInTask(c)
  \/ Shut(c) \/ Finish(c) \/ DropConn(c) \/ Panic(c)
  \/ Upgrade(c) \/ ShutUpgraded(c) \/ UpgradedEnds(c)

Running ==
  \/ Signal
  \/ AcceptFails
  \/ SignalBranch
  \/ Server
  \/ \E c \in Conns : Connect(c) \/ Accept(c) \/ Task(c)

(* When serve returns, main does, and the process ends. *)
Up == main # "returned" /\ UNCHANGED inetd

Next ==
  \/ Up /\ Running
  \/ main = "returned" /\ UNCHANGED vars

Spec == Init /\ [][Next]_vars

(***************************************************************************)
(* The runtime polls what is ready.  Of the branches of a select! that are *)
(* ready again and again none is passed over for ever, the order being     *)
(* random, hence SF.  A connection that was shut down is Ready in the same *)
(* poll.  How long one is served, told to shut down gracefully or not, is  *)
(* up to its client and to the application: the Builder is given no timer, *)
(* so nothing is assumed of its end.                                       *)
(***************************************************************************)
Fairness ==
  /\ WF_vars(Up /\ Server)
  /\ SF_vars(Up /\ SignalBranch)
  /\ \A c \in Conns :
       /\ WF_vars(Up /\ (Start(c) \/ SignalInTask(c)))
       /\ WF_vars(Up /\ phase[c] = "shut" /\ (Finish(c) \/ Panic(c)))
       /\ WF_vars(Up /\ DropConn(c))

FairSpec == Spec /\ Fairness

-----------------------------------------------------------------------------
(* Properties. *)

(* The server waits "for all tasks to finish" (axum07.rs 418-422): when it *)
(* has returned, no connection that it accepted is without its task, or    *)
(* has one that still runs.                                                *)
ReturnsAfterTasks ==
  main = "returned" => \A c \in Conns : phase[c] \notin Tasked \union {"setup"}

(* Where the promise sees the server, and the connections it has taken. *)
Stage == IF main \in {"draining", "returned"} THEN main ELSE "accepting"
Busy == {c \in Conns : phase[c] \in Tasked \union {"setup"}}

Drain == INSTANCE DrainPromise
           WITH only <- inetd, told <- signalled, server <- Stage, busy <- Busy

(* GracefulServe implements DrainPromise, fairness included: failed        *)
(* accepts, a signal during make_service, clients that wait or come back,  *)
(* idle connections and upgrades do not break the order of a drain.        *)
KeepsDrainPromise == Drain!Spec

(* Over inetd the server does not return before the signal unless all that *)
(* the client was to get is out: its stream, the websocket's too (the      *)
(* Sender moves with it), was shut down or dropped.                        *)
InetdServedToTheEnd ==
  main = "returned" /\ inetd /\ ~signalled =>
    \A c \in Conns :
      c \notin open /\ phase[c] \in {"out", "upgraded", "finished", "gone"}

(* A connection taken from the listener is served, though the signal may   *)
(* come while the server awaits make_service.                              *)
AcceptedIsServed ==
  \A c \in Conns : phase[c] = "setup" ~> phase[c] = "serving"

(* No client and no application lets a request last for ever once its      *)
(* connection was told to shut down: nothing in the code sees to that.     *)
RequestsEnd == \A c \in Conns : []<>(phase[c] # "graceful")

(* The signal makes the server leave its loop, wherever that is, however   *)
(* many clients keep connecting; and the server returns, though idle       *)
(* connections would stay, if the requests in flight end.                  *)
SignalStopsServer ==
  /\ signalled ~> main \in {"draining", "returned"}
  /\ RequestsEnd => (signalled ~> main = "returned")
=============================================================================
