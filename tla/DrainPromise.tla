---------------------------- MODULE DrainPromise ----------------------------
(***************************************************************************)
(* What serve(..).with_graceful_shutdown(signal) promises: connections are *)
(* taken until the signal comes (or, on the pseudo-socket of inetd, until  *)
(* no more of them can come), none is taken after that, and when each of   *)
(* those taken is at its end, then only, and then surely, does the server  *)
(* return.  When a connection ends is up to its client.                    *)
(***************************************************************************)
CONSTANT Conns

VARIABLES
  only,    (* there is one connection to serve, that of inetd *)
  told,    (* the signal has come                             *)
  server,  (* "accepting", "draining" or "returned"           *)
  busy     (* connections taken and not yet at their end      *)

vars == <<only, told, server, busy>>

Init == only \in BOOLEAN /\ ~told /\ server = "accepting" /\ busy = {}

Tell ==
  /\ ~told
  /\ told' = TRUE
  /\ UNCHANGED <<only, server, busy>>

Take(c) ==
  /\ server = "accepting" /\ c \notin busy
  /\ busy' = busy \union {c}
  /\ UNCHANGED <<only, told, server>>

End(c) ==
  /\ c \in busy
  /\ busy' = busy \ {c}
  /\ UNCHANGED <<only, told, server>>

Leave ==
  /\ server = "accepting" /\ (told \/ only)
  /\ server' = "draining"
  /\ UNCHANGED <<only, told, busy>>

Return ==
  /\ server = "draining" /\ busy = {}
  /\ server' = "returned"
  /\ UNCHANGED <<only, told, busy>>

Next == Tell \/ Leave \/ Return \/ \E c \in Conns : Take(c) \/ End(c)

(* What never happens: no step is out of order. *)
Order == Init /\ [][Next]_vars

Spec ==
  /\ Order
  /\ WF_vars(told /\ Leave)
  /\ WF_vars(Return)
=============================================================================
