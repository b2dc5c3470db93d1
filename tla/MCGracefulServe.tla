-------------------------- MODULE MCGracefulServe --------------------------
(* Three clients of GracefulServe for TLC. *)
EXTENDS GracefulServe

CONSTANTS a, b, c
=============================================================================
