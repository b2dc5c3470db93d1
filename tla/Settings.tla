------------------------------ MODULE Settings ------------------------------
(***************************************************************************)
(* The life of one setting of a service: a user writes it, or a program    *)
(* makes its value; a program reads it with FromStr and writes it back     *)
(* with Display (what serde and clap do, too), and so does the next one;   *)
(* and what an sd-listen address adopts when it is bound, whatever the     *)
(* LISTEN_* variables say.                                                 *)
(***************************************************************************)
EXTENDS SettingText

CONSTANTS
    Texts,          \* per type of setting: what a user may write
    Values,         \* per type of setting: what a program may make
    Environments    \* the LISTEN_* variables a service may find

ValuesOf == [address |-> AddressValues, keepalive |-> KeepaliveValues, chmod |-> ChmodVariants]

ASSUME SettingsAssumption ==
    /\ \A e \in Environments : e.names \in Seq(Seq(STRING))
    /\ \A s \in DOMAIN ValuesOf : /\ Texts[s] \subseteq {t \in Seq(STRING) : IsUtf8(t)}
                                  /\ Values[s] \subseteq ValuesOf[s]

VARIABLES
    type,       \* of the setting
    origin,     \* who it comes from
    pc,         \* "written", "read", "refused"; "bound"; "set", "rejected"
    text,       \* the setting as it is written
    value,      \* the setting as it was last read or made
    saved,      \* the values that Display wrote, at most one
    env,        \* the LISTEN_* variables at the bind
    adopted     \* the descriptors the bind took for its own

vars == <<type, origin, pc, text, value, saved, env, adopted>>

NoValue == <<>>
NoEnv == [pid |-> FALSE, fds |-> 0, names |-> <<>>]

FromStr(t) ==
    IF type = "address" THEN AddressFromStr(t)
    ELSE IF type = "keepalive" THEN KeepaliveFromStr(t)
    ELSE ChmodFromStr(t)

Display(x) ==
    IF type = "address" THEN AddressDisplay(x)
    ELSE IF type = "keepalive" THEN KeepaliveDisplay(x)
    ELSE ChmodDisplay(x)

Init ==
    /\ type \in DOMAIN ValuesOf
    /\ \/ /\ origin = "user" /\ pc = "written"
          /\ text \in Texts[type] /\ value = NoValue
       \/ /\ origin = "program" /\ pc = "read"
          /\ text = <<>> /\ value \in Values[type]
    /\ saved = {}
    /\ env = NoEnv
    /\ adopted = {}

Read ==
    /\ pc = "written"
    /\ LET r == FromStr(text) IN
       \/ r # Error /\ pc' = "read" /\ value' = r[1]
       \/ r = Error /\ pc' = "refused" /\ UNCHANGED value
    /\ UNCHANGED <<type, origin, text, saved, env, adopted>>

Write ==
    /\ pc = "read"
    /\ pc' = "written"
    /\ text' = Display(value)
    /\ saved' = {value}
    /\ UNCHANGED <<type, origin, value, env, adopted>>

-----------------------------------------------------------------------------
SdListens(a) == a[1] \in {"FromFd", "FromFdNamed"}
All == <<"*">>

\* The addresses of descriptors that an sd-listen address stands for.
Resolve(e, a) ==
    IF a[1] = "FromFd" THEN <<FromFd(a[2])>>
    ELSE IF a[2] = All THEN listen_from_fd_all(e)
    ELSE <<listen_from_fd_named(e, a[2])>>

\* bind_multiple takes all of them or none.
Adopts(e, a) ==
    LET l == Resolve(e, a) IN
    IF \A k \in DOMAIN l : l[k] # Unusable /\ check_env_for_fd(e, l[k].name)
    THEN {l[k].name : k \in DOMAIN l}
    ELSE {}

Bind ==
    /\ pc = "read" /\ type = "address" /\ SdListens(value)
    /\ pc' = "bound"
    /\ \E e \in Environments : env' = e /\ adopted' = Adopts(e, value)
    /\ text' = <<>>
    /\ saved' = {}
    /\ UNCHANGED <<type, origin, value>>

\* apply_tcp_keepalive_opts on an accepted stream, which is dropped if that fails.
Apply ==
    /\ pc = "read" /\ type = "keepalive"
    /\ pc' = IF KernelTakes(value) THEN "set" ELSE "rejected"
    /\ UNCHANGED <<type, origin, text, value, saved, env, adopted>>

Next == Read \/ Write \/ Bind \/ Apply

Spec == Init /\ [][Next]_vars

-----------------------------------------------------------------------------
(***************************************************************************)
(* "it is serialized/deserialized the same as string, same as as in the CLI" *)
(* (listener_address.rs 8): what a user wrote, and any keepalive or chmod  *)
(* option, is read back as it was when Display has written it.             *)
(***************************************************************************)
ReadsBack == ((origin = "user" \/ type # "address") /\ saved # {}) =>
    /\ pc # "refused"
    /\ pc = "read" => value \in saved

(***************************************************************************)
(* An address that a program made need not be one that can be written: a   *)
(* number other than 3, a relative path, a name with a colon.  Read back   *)
(* it is refused or leads to the same socket; it never silently becomes    *)
(* another one ("@x" and "inetd" are good file names).  Only a path that   *)
(* is no UTF-8 does.                                                       *)
(***************************************************************************)
NeverElsewhere == (type = "address" /\ pc = "read") =>
    \A a \in saved : (a[1] = "Path" => IsUtf8(a[2])) => SameSocket(value, a)

(***************************************************************************)
(* check_env_for_fd and listen_from_fd_all read LISTEN_FDS on their own:   *)
(* "sd-listen:*" adopts all that was passed, up to 4095 descriptors, and   *)
(* the check refuses none of them.                                         *)
(***************************************************************************)
AllPassed ==
    (pc = "bound" /\ value = <<"FromFdNamed", All>> /\ env.pid /\ env.fds \in 1..MaxPassed) =>
        adopted = SD_LISTEN_FDS_START .. (SD_LISTEN_FDS_START + env.fds - 1)

(***************************************************************************)
(* "Timeout (in milliseconds)", "Interval of pings (in milliseconds)"      *)
(* (tcp_keepalive_params.rs 9-11): an option that FromStr takes from a     *)
(* user can be set on the streams of the listener.                         *)
(***************************************************************************)
KeepaliveCanBeSet == origin = "user" => pc # "rejected"
=============================================================================
