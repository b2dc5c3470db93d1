------------------------------ MODULE SdListen ------------------------------
(***************************************************************************)
(* What the LISTEN_* variables say of inherited descriptors.  An           *)
(* environment env is a record: pid says that LISTEN_PID is this process,  *)
(* fds is LISTEN_FDS, or something outside I32 when it is missing or no    *)
(* number, and names is LISTEN_FDNAMES split at its colons (empty when the *)
(* variable is missing: a present one has at least one chunk).             *)
(***************************************************************************)
EXTENDS Integers, Sequences

I32Max == 2147483647
I32 == (-I32Max - 1) .. I32Max

SD_LISTEN_FDS_START == 3

FromFd(n) == [kind |-> "fd", name |-> n]

\* An address whose binding fails before it touches anything.
Unusable == [kind |-> "unusable", name |-> 0]

\* Variant: the first number past the last passes.
check_env_one_more(env, n) ==
    /\ env.pid
    /\ env.fds \in I32
    /\ n >= SD_LISTEN_FDS_START
    /\ env.fds <= I32Max - SD_LISTEN_FDS_START
    /\ n <= SD_LISTEN_FDS_START + env.fds

\* checked_add yields None when the sum is no i32.
check_env_for_fd(env, n) ==
    /\ env.pid
    /\ env.fds \in I32
    /\ n >= SD_LISTEN_FDS_START
    /\ env.fds <= I32Max - SD_LISTEN_FDS_START
    /\ n < SD_LISTEN_FDS_START + env.fds

\* The position of a name among LISTEN_FDNAMES, the first if there are several.
IsFirst(env, name, j) ==
    /\ j \in DOMAIN env.names
    /\ env.names[j] = name
    /\ \A m \in 1..(j - 1) : env.names[m] # name

\* What "sd-listen:name" amounts to.
listen_from_fd_named(env, name) ==
    IF \E j \in DOMAIN env.names : env.names[j] = name
    THEN FromFd(SD_LISTEN_FDS_START - 1
                  + CHOOSE j \in DOMAIN env.names : IsFirst(env, name, j))
    ELSE Unusable

\* As many as "sd-listen:*" adopts.
MaxPassed == 4095

\* Variant: the range ends at n, not at SD_LISTEN_FDS_START + n.
listen_from_fd_short(env) ==
    IF env.fds \in 1..MaxPassed
    THEN [j \in 1..(env.fds - SD_LISTEN_FDS_START) |-> FromFd(SD_LISTEN_FDS_START + j - 1)]
    ELSE <<Unusable>>

\* What "sd-listen:*" amounts to: the addresses it hands to bind_multiple.
listen_from_fd_all(env) ==
    IF env.fds \in 1..MaxPassed
    THEN [j \in 1..env.fds |-> FromFd(SD_LISTEN_FDS_START + j - 1)]
    ELSE <<Unusable>>
=============================================================================
