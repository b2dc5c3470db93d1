----------------------------- MODULE MCServing -----------------------------
(* Instances of Serving for TLC. *)
EXTENDS Serving, TLC

CONSTANTS a, b

(* The inetd pseudo-socket alone: nobody connects to anything. *)
InetdKind == <<"stdio">>
NoTarget  == <<>>

(* A TCP socket with two clients. *)
TcpKind   == <<"tcp">>
TcpTarget == (a :> 1) @@ (b :> 1)

(* The servers of an inetd session that end after it, with the retrier.    *)
InetdServers == {"axum07", "hyper014", "while_let_ok"} \X {TRUE}

(* Those that stay up: with the retrier all, without it axum 0.7, and      *)
(* tonic too, but that one has no backoff then.                            *)
LastingServers == (Adapters \X {TRUE}) \union {<<"axum07", FALSE>>}

PlainLoop     == {<<"while_let_ok", TRUE>>}

(* Those that take the end of an inetd session for a passing error.        *)
NeverEnding   == {"axum08", "tonic"} \X {TRUE}

Axum08NoRetry == {<<"axum08", FALSE>>}
=============================================================================
