---------------------------- MODULE InetdPromise ----------------------------
(***************************************************************************)
(* What tokio-listener promises of a process started by inetd (error.rs    *)
(* 79-88, connection.rs 104-108): the one session is served, the server    *)
(* does not leave its accept loop while that goes on, and it does leave it *)
(* afterwards, with no error: to fail is no step of this module.           *)
(***************************************************************************)
VARIABLES
  session,  (* the connection on stdin and stdout *)
  server    (* the accept loop                    *)

vars == <<session, server>>

Init == session = "waiting" /\ server = "up"

Accept ==
  /\ session = "waiting" /\ server = "up"
  /\ session' = "serving"
  /\ UNCHANGED server

Finish ==
  /\ session = "serving" /\ server = "up"
  /\ session' = "finished"
  /\ UNCHANGED server

Return ==
  /\ session = "finished" /\ server = "up"
  /\ server' = "returned"
  /\ UNCHANGED session

Next == Accept \/ Finish \/ Return

(* What never happens: no step is out of order. *)
Order == Init /\ [][Next]_vars

Spec == Order /\ WF_vars(Accept) /\ WF_vars(Return)
=============================================================================
