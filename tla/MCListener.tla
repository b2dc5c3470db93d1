----------------------------- MODULE MCListener -----------------------------
(* Instances of Listener for TLC. *)
EXTENDS Listener, TLC

CONSTANTS a, b, c

(* The inetd pseudo-socket, a vsock and a UNIX socket (TCP is in Serving),  *)
(* with one client each.                                                   *)
MultiKind  == <<"stdio", "vsock", "unix">>
PairTarget == (a :> 2) @@ (c :> 3)

(* Three senders of an mpsc channel. *)
MpscKind   == <<"mpsc">>
MpscTarget == (a :> 1) @@ (b :> 1) @@ (c :> 1)
=============================================================================
