------------------------------ MODULE Serving ------------------------------
(***************************************************************************)
(* The servers that call Listener::accept in a loop, and the Connection of *)
(* the inetd pseudo-socket: axum07::Serve (src/src/axum07.rs), the Accept  *)
(* of hyper 0.14 (hyper014.rs), the Listener of axum 0.8 (axum08.rs), the  *)
(* Stream of Listener under tonic, and the loop of the examples,           *)
(* `while let Ok(..) = listener.accept().await'.                           *)
(*                                                                         *)
(* When the server returns, the program's main function does too, and the  *)
(* tasks of the connections end with the process.                          *)
(***************************************************************************)
EXTENDS Listener

CONSTANT Servers  (* the servers, one of which runs: each a pair of an adapter *)
                  (* and the sleep_on_errors of the listener it is given       *)

Adapters == {"axum07", "hyper014", "axum08", "tonic", "while_let_ok"}

ASSUME ServingAssumption == Servers \subseteq Adapters \X BOOLEAN

VARIABLES
  adapter, (* the server that runs                                    *)
  server,  (* where the server's loop is                              *)
  conn,    (* the stdio Connection: in the hands of the server's loop *)
           (* ("held"), then of its own task, which may take it apart *)
  output   (* what was written to its stdout: in tokio's buffer       *)
           (* ("dirty"), lost to an error, or neither                 *)

servingVars == <<vars, adapter, server, conn, output>>

ServingTypeOK ==
  /\ TypeOK
  /\ adapter \in Adapters
  /\ server \in {"loop", "accepting", "setup", "sleeping", "hanging",
                 "returned", "failed"}
  /\ conn \in {"none", "held", "open", "parts", "shut", "gone"}
  /\ output \in {"clean", "dirty", "failed"}

ServingInit ==
  /\ Init
  /\ adapter \in Adapters
  /\ <<adapter, sleep_on_errors>> \in Servers
  /\ server = "loop"
  /\ conn = "none"
  /\ output = "clean"

Stopped == server \in {"returned", "failed"}

(* Listener::no_more_connections.  hyper014.rs asks before it polls; the   *)
(* answer is the same, for a poll that takes the token returns no error.   *)
no_more_connections == StdioOnly /\ token[1] # "kept"

-----------------------------------------------------------------------------
(* The server's loop.                                                        *)

CallAccept ==
  /\ server = "loop"
  /\ Call
  /\ server' = "accepting"
  /\ UNCHANGED <<conn, output>>

ListenerStep ==
  /\ Runtime \/ PollAccept
  /\ conn' = IF \E s \in Source : token[s] = "kept" /\ token'[s] = "lent"
             THEN "held" ELSE conn
  /\ UNCHANGED <<server, output>>

Accepted(r) == server = "accepting" /\ task = "idle" /\ result = r

(* The connection's task is spawned with the stdio Connection, if the      *)
(* connection accepted is that one.                                        *)
Spawned == IF conn = "held" THEN "open" ELSE conn

(* axum awaits make_service before it spawns the connection's task. *)
TakeConnection ==
  /\ Accepted("conn")
  /\ \/ /\ adapter \in {"axum07", "axum08"}
        /\ server' = "setup"
        /\ UNCHANGED conn
     \/ /\ adapter \in {"hyper014", "tonic", "while_let_ok"}
        /\ server' = "loop"
        /\ conn' = Spawned
  /\ UNCHANGED <<vars, output>>

SpawnConnection ==
  /\ server = "setup"
  /\ server' = "loop"
  /\ conn' = Spawned
  /\ UNCHANGED <<vars, output>>

(* tokio_listener_accept and the loop around it.  A connection error does  *)
(* not come out of Listener::poll_accept.                                  *)
Axum07ErrorNoSleep ==
  /\ adapter = "axum07"
  /\ server' = IF no_more_connections THEN "returned" ELSE "loop"

Axum07Error ==
  /\ adapter = "axum07"
  /\ server' = IF no_more_connections THEN "returned" ELSE "sleeping"

(* An adapter that hands on the end of the session as any other error. *)
Hyper014Fails ==
  /\ adapter = "hyper014"
  /\ server' = "failed"

(* hyper's Server ends without an error for `None', with one for `Err'. *)
Hyper014Error ==
  /\ adapter = "hyper014"
  /\ server' = IF no_more_connections THEN "returned" ELSE "failed"

(* std::future::pending().await *)
Axum08Error ==
  /\ adapter = "axum08"
  /\ server' = "hanging"

(* poll_next hands on the error, and never ends.  What is made of it is up *)
(* to tonic: here it asks again after any error, as its versions do for    *)
(* those they take for passing.                                            *)
TonicError ==
  /\ adapter = "tonic"
  /\ server' = "loop"

WhileLetOkError ==
  /\ adapter = "while_let_ok"
  /\ server' = "returned"

TakeError(e) ==
  /\ Accepted(e)
  /\ \/ Axum07Error \/ Hyper014Error \/ Axum08Error \/ TonicError
     \/ WhileLetOkError
  /\ UNCHANGED <<vars, conn, output>>

(* The sleep began after the error, so the error's second is over too. *)
WakeUp ==
  /\ server = "sleeping" /\ ~cooling
  /\ server' = "loop"
  /\ UNCHANGED <<vars, conn, output>>

-----------------------------------------------------------------------------
(* The stdio Connection.                                                     *)

Write ==
  /\ conn \in {"open", "parts"} /\ ~Stopped
  /\ output' = "dirty"
  /\ UNCHANGED <<vars, server, conn>>

(* tokio's blocking thread has written the buffer out, or failed to. *)
Written ==
  /\ output = "dirty" /\ ~Stopped
  /\ output' \in {"clean", "failed"}
  /\ UNCHANGED <<vars, server, conn>>

(* The Sender is taken and used before the poll of stdout's shutdown. *)
PollShutdownSendsFirst(s) ==
  /\ conn = "open" /\ ~Stopped
  /\ conn' = "shut"
  /\ ReleaseStdio(s)
  /\ UNCHANGED <<server, output>>

(* Connection::poll_shutdown is Pending while stdout has something to      *)
(* flush.  Once that is Ready, be it with an error, the Sender is used.    *)
PollShutdown(s) ==
  /\ conn = "open" /\ ~Stopped
  /\ output # "dirty"
  /\ conn' = "shut"
  /\ ReleaseStdio(s)
  /\ UNCHANGED <<server, output>>

(* try_into_stdio, and From<(Stdin, Stdout, Option<Sender>)> back again. *)
TakeApart ==
  /\ ~Stopped
  /\ \/ conn = "open" /\ conn' = "parts"
     \/ conn = "parts" /\ conn' = "open"
  /\ UNCHANGED <<vars, server, output>>

(* The Sender of the connection outlives it. *)
DropConnectionLeaks(s) ==
  /\ conn \in {"open", "parts", "shut"} /\ ~Stopped
  /\ conn' = "gone"
  /\ Kind[s] = "stdio" /\ UNCHANGED vars
  /\ UNCHANGED <<server, output>>

(* The task drops the connection, and the Sender with it if it still is    *)
(* there; of its parts the Sender is the last that is used or dropped.     *)
DropConnection(s) ==
  /\ conn \in {"open", "parts", "shut"} /\ ~Stopped
  /\ conn' = "gone"
  /\ \/ conn \in {"open", "parts"} /\ ReleaseStdio(s)
     \/ conn = "shut" /\ Kind[s] = "stdio" /\ UNCHANGED vars
  /\ UNCHANGED <<server, output>>

-----------------------------------------------------------------------------
(* Clients, senders and owners of other connections, and the kernel. *)
Surroundings ==
  /\ ~Stopped
  /\ \/ \E c \in Conns : Connect(c) \/ Abort(c) \/ Hangup(c)
     \/ \E s \in Source : CloseSenders(s)
     \/ Exhaust
     \/ Recover
  /\ UNCHANGED <<server, conn, output>>

(* The process has ended. *)
Exited == Stopped /\ UNCHANGED <<vars, server, conn, output>>

Errors == {"os", "broken", "taken"}

Server ==
  \/ CallAccept
  \/ TakeConnection
  \/ SpawnConnection
  \/ \E e \in Errors : TakeError(e)
  \/ WakeUp

ServingNext ==
  /\ \/ Server
     \/ ListenerStep
     \/ Write
     \/ Written
     \/ TakeApart
     \/ \E s \in Source : PollShutdown(s) \/ DropConnection(s)
     \/ Surroundings
     \/ Exited
  /\ UNCHANGED adapter

(***************************************************************************)
(* As in Listener: the runtime polls what it has woken, timers fire, and   *)
(* the server's loop goes round.  Nothing is assumed of connections.       *)
(***************************************************************************)
ServingFairness ==
  /\ WF_servingVars(Server /\ UNCHANGED adapter)
  /\ WF_servingVars(ListenerStep /\ PollAccept /\ UNCHANGED adapter)
  /\ WF_servingVars(ListenerStep /\ Resume /\ UNCHANGED adapter)
  /\ WF_servingVars(ListenerStep /\ SecondPasses /\ UNCHANGED adapter)
  /\ \A s \in Source :
       WF_servingVars(ListenerStep /\ Deliver(s) /\ UNCHANGED adapter)

ServingSpec ==
  ServingInit /\ [][ServingNext]_servingVars /\ ServingFairness

-----------------------------------------------------------------------------
(* Properties.                                                               *)

(* What an observer of the inetd process sees. *)
Session ==
  CASE conn = "none"                      -> "waiting"
    [] conn \in {"held", "open", "parts"} -> "serving"
    [] OTHER                              -> "finished"

AcceptLoop == IF Stopped THEN server ELSE "up"

Promise == INSTANCE InetdPromise WITH session <- Session, server <- AcceptLoop

(* The accept loop of an inetd server keeps the promise of error.rs 79-88: *)
(* it serves the one connection, goes on until stdout is shut down or the  *)
(* connection dropped, and returns after that, not as a server that failed.*)
KeepsInetdPromise == Promise!Spec

(* A server whose connection was shut down in an orderly way has not       *)
(* returned, and let the process end, with output still in tokio's buffer  *)
(* (connection.rs 345-357: Pending while stdout flushes).                  *)
OutputOutlivesServer == Stopped /\ conn = "shut" => output # "dirty"

(* With sleep_on_errors no error of the operating system gets through to a *)
(* server, and none stops or hangs because of one (listener.rs 641-643).   *)
RetrierKeepsServersUp == ~Stopped /\ server # "hanging"

(* "tokio-listener takes care not to trigger this error prematurely, when  *)
(* the first connection is still being served" (error.rs:86): the accept   *)
(* loop runs as long as the task has the connection.                       *)
NotPremature == Stopped => conn = "gone"

(* "this error is used to bubble up from accept loop and exit process"     *)
(* (error.rs:83): once the connection is gone the server returns.          *)
ExitsProcess == conn = "gone" ~> Stopped

(* "There is an internal retrier within tokio_listener, so failed accept   *)
(* is not expected to be retriable here" (axum08.rs:10): the adapter gives *)
(* up on no error of the operating system, that passes.                    *)
NoRetriableHang == server = "hanging" => result # "os"
=============================================================================
