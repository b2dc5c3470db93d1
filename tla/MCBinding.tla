------------------------------ MODULE MCBinding ------------------------------
(***************************************************************************)
(* Two instances of a service with a port, a name and two paths, and two   *)
(* inherited descriptors that LISTEN_FDNAMES calls web and ctl.            *)
(***************************************************************************)
EXTENDS Binding, SequencesExt

CONSTANTS i1, i2, web, ctl, port, name, sock, sock2

MCEnv == [pid |-> TRUE, fds |-> 2, names |-> <<web, ctl>>]

Tcp == [kind |-> "tcp4", name |-> port]
Abstract == [kind |-> "abstract", name |-> name]
Path == [kind |-> "path", name |-> sock]
Path2 == [kind |-> "path", name |-> sock2]
Inetd == [kind |-> "inetd", name |-> NoFd]
Ctl == listen_from_fd_named(MCEnv, ctl)

MCAddressLists ==
    { <<>>, <<Path>>, <<Tcp, Path>>, <<Path, Tcp>>, <<Abstract, Path, Path2>>,
      <<Ctl, Tcp>>, <<Tcp, Ctl, Inetd>>, <<FromFd(4), Ctl>>,
      <<FromFd(SD_LISTEN_FDS_START + 2), Path>>,
      listen_from_fd_all(MCEnv) \o <<Tcp, listen_from_fd_named(MCEnv, name)>> }

MCAddresses == UNION {ToSet(l) : l \in MCAddressLists}

Defaults == [unlink |-> FALSE, tools |-> {}, reusePort |-> FALSE, onlyV6 |-> FALSE,
             backlog |-> "default", ignoreEnv |-> FALSE]

MCOptionSets ==
    { Defaults, [Defaults EXCEPT !.unlink = TRUE, !.tools = {"chmod", "chown"}],
      [Defaults EXCEPT !.unlink = TRUE, !.tools = {"chown"}, !.reusePort = TRUE],
      [Defaults EXCEPT !.unlink = TRUE, !.backlog = "some"],
      [Defaults EXCEPT !.onlyV6 = TRUE], [Defaults EXCEPT !.backlog = "huge", !.ignoreEnv = TRUE] }
=============================================================================
