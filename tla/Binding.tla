------------------------------- MODULE Binding -------------------------------
(***************************************************************************)
(* Listener::bind_multiple, and Listener::bind as its case of one address, *)
(* run by several processes of one service: restarts after a crash, an old *)
(* and a new instance that overlap, a second one started by mistake.  They *)
(* have the same addresses and options and share ports, names and paths.   *)
(* One step is one system call that another process or thread can notice.  *)
(***************************************************************************)
EXTENDS SdListen

CONSTANTS
    Instances,      \* the processes
    Paths,          \* file names
    Addresses,      \* what a listener may be asked to bind
    AddressLists,   \* the lists of addresses a service may be given
    OptionSets,     \* the UserOptions it may be given
    Env,            \* its LISTEN_* variables
    MaxFd,          \* bound: the largest descriptor number in use
    MaxCalls,       \* bound: calls of bind_multiple in the life of a process
    MaxTroubles     \* bound: crashes and refusals of the kernel, together

\* The kinds whose name the kernel frees when their last socket is closed.  Each is
\* a name of its own: a port 0, for which the kernel picks one, is left out.
Ports == {"tcp4", "tcp6"}
Named == {"tcp4", "tcp6", "abstract", "vsock"}
Kinds == Named \cup {"path", "inetd", "fd", "unusable"}
Tools == {"chmod", "chown"}
Fds == SD_LISTEN_FDS_START .. MaxFd

ASSUME BindingAssumption ==
    /\ Instances # {}
    /\ MaxFd \in Nat /\ MaxCalls \in Nat \ {0} /\ MaxTroubles \in Nat
    /\ AddressLists \subseteq Seq(Addresses)
    /\ \A a \in Addresses : /\ a.kind \in Kinds
                            /\ a.kind = "path" => a.name \in Paths
                            /\ a.kind = "fd" => a.name \in Int
    /\ \A o \in OptionSets : o.tools \subseteq Tools

VARIABLES
    addrs,      \* the addresses, "sd-listen:..." resolved
    opts,       \* the options
    pc,         \* where each process is
    v,          \* its listeners so far: address and descriptor of each
    fds,        \* what each descriptor number of each process refers to
    calls,      \* how often each process has called bind_multiple
    file,       \* the socket that made the file at a path
    granted,    \* which of chmod and chown the file at a path has had
    troubles,   \* crashes and refusals so far
    lingering   \* TCP addresses with connections of a former process in TIME_WAIT

bindVars == <<addrs, opts, pc, v, fds, calls, file, granted, troubles>>
vars == <<bindVars, lingering>>

NoFd == 0               \* the inetd listener has no descriptor here
NoFile == <<>>

Free == [is |-> "free", at |-> 0]
Inherited == [is |-> "inherited", at |-> 0]
Other == [is |-> "other", at |-> 0]         \* something else of the process
Own(k) == [is |-> "own", at |-> k]          \* the socket bound for addrs[k]

Passed == IF Env.fds \in I32 THEN SD_LISTEN_FDS_START .. (SD_LISTEN_FDS_START - 1 + Env.fds) ELSE {}

\* The position of the address to bind next.
At(i) == Len(v[i]) + 1

Live(i, k) == \E n \in Fds : fds[i][n] = Own(k)

BindingTypeOK ==
    /\ addrs \in Seq(Addresses)
    /\ opts.tools \subseteq Tools
    /\ pc \in [Instances -> {"down", "binding", "backlog", "unlinked", "chmod", "chown",
                             "failing", "failed", "up"}]
    /\ v \in [Instances -> Seq(Int)]
    /\ fds \in [Instances -> [Fds -> {Free, Inherited, Other} \cup {Own(k) : k \in DOMAIN addrs}]]
    /\ calls \in [Instances -> 0..MaxCalls]
    /\ file \in [Paths -> {NoFile} \cup (Instances \X DOMAIN addrs)]
    /\ granted \in [Paths -> SUBSET Tools]
    /\ troubles \in 0..MaxTroubles
    /\ lingering \subseteq Addresses

Init ==
    /\ addrs \in AddressLists
    /\ opts \in OptionSets
    /\ pc = [i \in Instances |-> "down"]
    /\ v = [i \in Instances |-> <<>>]
    /\ fds = [i \in Instances |-> [n \in Fds |-> Free]]
    /\ calls = [i \in Instances |-> 0]
    /\ file = [p \in Paths |-> NoFile]
    /\ granted = [p \in Paths |-> {}]
    /\ troubles = 0
    /\ lingering = {}

Goes(i, place) == pc' = [pc EXCEPT ![i] = place]

Binding(i, kinds) ==
    /\ pc[i] = "binding"
    /\ At(i) \in DOMAIN addrs
    /\ addrs[At(i)].kind \in kinds

\* The kernel gives out the lowest free number.
Lowest(i, n) == /\ fds[i][n] = Free
                /\ \A m \in Fds : m < n => fds[i][m] # Free

\* Variant: the index is taken after the push.
OpensAfterPush(i) == \E n \in Fds :
    /\ Lowest(i, n)
    /\ fds' = [fds EXCEPT ![i][n] = Own(At(i) + 1)]
    /\ v' = [v EXCEPT ![i] = Append(@, n)]

\* A socket for the current address is there and belongs to the listener.
Opens(i) == \E n \in Fds :
    /\ Lowest(i, n)
    /\ fds' = [fds EXCEPT ![i][n] = Own(At(i))]
    /\ v' = [v EXCEPT ![i] = Append(@, n)]

\* close(2) of a number that refers to nothing does nothing.
Closes(i, n) == fds' = IF n \in Fds THEN [fds EXCEPT ![i][n] = Free] ELSE fds

-----------------------------------------------------------------------------
(***************************************************************************)
(* listen_tcp, listen_abstract and listen_vsock                            *)
(***************************************************************************)
\* IPV6_V6ONLY is no option of an IPv4 socket.
BadV6Only(a) == a.kind = "tcp4" /\ opts.onlyV6

\* A backlog must be a c_int.
BadBacklog(a) == a.kind \in Ports /\ opts.backlog = "huge"

\* The options that TcpListener::bind does not have.
UsesSocket2 == opts.onlyV6 \/ opts.reusePort \/ opts.backlog # "default"

\* Variant: no socket has SO_REUSEADDR.
MayReuseNever(a) == a \notin lingering

\* TcpListener::bind sets SO_REUSEADDR, the socket of the options does not.
MayReuse(a) == a \notin lingering \/ ~UsesSocket2 \/ opts.reusePort

\* Variant: SO_REUSEPORT is set whatever the options say.
AvailableShared(a) ==
    \/ a.kind \in Ports
    \/ ~ \E i \in Instances, k \in DOMAIN addrs : addrs[k] = a /\ Live(i, k)

\* SO_REUSEPORT lets sockets share a port that all have it.
Available(a) ==
    \/ a.kind \in Ports /\ opts.reusePort
    \/ ~ \E i \in Instances, k \in DOMAIN addrs : addrs[k] = a /\ Live(i, k)

listen_named(i) ==
    /\ Binding(i, Named)
    /\ LET a == addrs[At(i)] IN
       IF Available(a) /\ MayReuse(a) /\ ~BadV6Only(a)
       THEN Opens(i) /\ IF BadBacklog(a) THEN Goes(i, "backlog") ELSE UNCHANGED pc
       ELSE Goes(i, "failing") /\ UNCHANGED <<fds, v>>
    /\ UNCHANGED <<addrs, opts, calls, file, granted, troubles, lingering>>

\* The socket just bound is dropped; its file stays.
DropsLast(i) ==
    /\ Closes(i, v[i][Len(v[i])])
    /\ v' = [v EXCEPT ![i] = SubSeq(@, 1, Len(@) - 1)]
    /\ Goes(i, "failing")

\* Variant: the refused socket is leaked.
BacklogRefusedLeaks(i) ==
    /\ pc[i] = "backlog"
    /\ Goes(i, "failing")
    /\ v' = [v EXCEPT ![i] = SubSeq(@, 1, Len(@) - 1)]
    /\ UNCHANGED <<addrs, opts, fds, calls, file, granted, troubles, lingering>>

\* The backlog is looked at when the port is taken.
BacklogRefused(i) ==
    /\ pc[i] = "backlog"
    /\ DropsLast(i)
    /\ UNCHANGED <<addrs, opts, calls, file, granted, troubles, lingering>>

-----------------------------------------------------------------------------
(***************************************************************************)
(* listen_path                                                             *)
(***************************************************************************)
\* Variant: the option is ignored.
PathUnlinkNever(i) ==
    /\ Binding(i, {"path"})
    /\ Goes(i, "unlinked")
    /\ UNCHANGED <<addrs, opts, v, fds, calls, file, granted, troubles, lingering>>

PathUnlink(i) ==
    /\ Binding(i, {"path"})
    /\ Goes(i, "unlinked")
    /\ file' = IF opts.unlink THEN [file EXCEPT ![addrs[At(i)].name] = NoFile] ELSE file
    /\ UNCHANGED <<addrs, opts, v, fds, calls, granted, troubles, lingering>>

\* Variant: a failed bind removes the file at its path.
PathBindCleansUp(i) ==
    LET p == addrs[At(i)].name IN
    /\ pc[i] = "unlinked"
    /\ IF file[p] = NoFile
       THEN /\ Opens(i)
            /\ file' = [file EXCEPT ![p] = <<i, At(i)>>]
            /\ granted' = [granted EXCEPT ![p] = {}]
            /\ Goes(i, "chmod")
       ELSE /\ Goes(i, "failing") /\ UNCHANGED <<fds, v, granted>>
            /\ file' = [file EXCEPT ![p] = NoFile]
    /\ UNCHANGED <<addrs, opts, calls, troubles, lingering>>

\* bind(2) makes the file and fails if there is one.
PathBind(i) ==
    LET p == addrs[At(i)].name IN
    /\ pc[i] = "unlinked"
    /\ IF file[p] = NoFile
       THEN /\ Opens(i)
            /\ file' = [file EXCEPT ![p] = <<i, At(i)>>]
            /\ granted' = [granted EXCEPT ![p] = {}]
            /\ Goes(i, "chmod")
       ELSE Goes(i, "failing") /\ UNCHANGED <<fds, v, file, granted>>
    /\ UNCHANGED <<addrs, opts, calls, troubles, lingering>>

\* The error of remove_file is ignored, and bind finds the file.  One step: a refused
\* removal changes nothing, so what others do before bind can come before both.
UnlinkRefused(i) ==
    /\ Binding(i, {"path"})
    /\ opts.unlink /\ file[addrs[At(i)].name] # NoFile
    /\ Goes(i, "failing")
    /\ UNCHANGED <<fds, v, file, granted>>

\* Variant: chmod returns early.
AfterReturns(tool) == "binding"

After(tool) == IF tool = "chmod" THEN "chown" ELSE "binding"

\* chmod and chown go by the path: to whatever file is there by then.
PathTool(i, tool) ==
    LET p == addrs[Len(v[i])].name IN
    /\ pc[i] = tool
    /\ \/ /\ tool \notin opts.tools
          /\ Goes(i, After(tool))
          /\ UNCHANGED <<fds, v, granted>>
       \/ /\ tool \in opts.tools /\ file[p] # NoFile
          /\ granted' = [granted EXCEPT ![p] = @ \cup {tool}]
          /\ Goes(i, After(tool))
          /\ UNCHANGED <<fds, v>>
       \/ /\ tool \in opts.tools /\ file[p] = NoFile
          /\ DropsLast(i)
          /\ UNCHANGED granted
    /\ UNCHANGED <<addrs, opts, calls, file, troubles, lingering>>

-----------------------------------------------------------------------------
(***************************************************************************)
(* listen_from_fd                                                          *)
(***************************************************************************)
Refers(i, n) == IF n \in Fds THEN fds[i][n] ELSE Free

Allowed(n) == opts.ignoreEnv \/ check_env_for_fd(Env, n)

\* epoll knows the descriptors of the listeners there are already.
Registered(i, n) == \E k \in DOMAIN v[i] : v[i][k] = n

EnvRefuses(i) ==
    /\ Binding(i, {"fd"})
    /\ ~Allowed(addrs[At(i)].name)
    /\ Goes(i, "failing")
    /\ UNCHANGED <<addrs, opts, v, fds, calls, file, granted, troubles, lingering>>

\* Variant: into_raw_fd is forgotten, and the drop of s closes the number.
AdoptFdAndCloses(i) ==
    LET n == addrs[At(i)].name IN
    /\ Binding(i, {"fd"})
    /\ Allowed(n)
    /\ Refers(i, n) # Free /\ ~Registered(i, n)
    /\ v' = [v EXCEPT ![i] = Append(@, n)]
    /\ Closes(i, n)
    /\ UNCHANGED <<addrs, opts, pc, calls, file, granted, troubles, lingering>>

\* Whatever socket the number refers to is taken for the inherited one.
AdoptFd(i) ==
    LET n == addrs[At(i)].name IN
    /\ Binding(i, {"fd"})
    /\ Allowed(n)
    /\ Refers(i, n) # Free /\ ~Registered(i, n)
    /\ v' = [v EXCEPT ![i] = Append(@, n)]
    /\ UNCHANGED <<addrs, opts, pc, fds, calls, file, granted, troubles, lingering>>

\* local_addr fails, or epoll refuses: the number is closed, whoever owns it.
RejectFd(i) ==
    LET n == addrs[At(i)].name IN
    /\ Binding(i, {"fd"})
    /\ Allowed(n)
    /\ Refers(i, n) \in {Free, Other} \/ Registered(i, n)
    /\ Closes(i, n)
    /\ Goes(i, "failing")
    /\ UNCHANGED <<addrs, opts, v, calls, file, granted, troubles, lingering>>

-----------------------------------------------------------------------------
(***************************************************************************)
(* bind and bind_multiple                                                  *)
(***************************************************************************)
BindInetd(i) ==
    /\ Binding(i, {"inetd"})
    /\ v' = [v EXCEPT ![i] = Append(@, NoFd)]
    /\ UNCHANGED <<addrs, opts, pc, fds, calls, file, granted, troubles, lingering>>

BindUnusable(i) ==
    /\ Binding(i, {"unusable"})
    /\ Goes(i, "failing")
    /\ UNCHANGED <<addrs, opts, v, fds, calls, file, granted, troubles, lingering>>

BindDone(i) ==
    /\ pc[i] = "binding"
    /\ At(i) \notin DOMAIN addrs
    /\ Goes(i, IF addrs = <<>> THEN "failing" ELSE "up")
    /\ UNCHANGED <<addrs, opts, v, fds, calls, file, granted, troubles, lingering>>

\* Variant: the Vec is leaked.
DropNextLeaks(i) ==
    /\ pc[i] = "failing"
    /\ Goes(i, "failed")
    /\ v' = [v EXCEPT ![i] = <<>>]
    /\ UNCHANGED <<addrs, opts, fds, calls, file, granted, troubles, lingering>>

\* The early return drops the listeners there are, in the order of the Vec.
DropNext(i) ==
    /\ pc[i] = "failing"
    /\ IF v[i] = <<>>
       THEN Goes(i, "failed") /\ UNCHANGED <<fds, v>>
       ELSE /\ Closes(i, Head(v[i]))
            /\ v' = [v EXCEPT ![i] = Tail(@)]
            /\ UNCHANGED pc
    /\ UNCHANGED <<addrs, opts, calls, file, granted, troubles, lingering>>

BindStep(i) ==
    \/ listen_named(i) \/ BacklogRefused(i) \/ PathUnlink(i) \/ PathBind(i)
    \/ \E tool \in Tools : PathTool(i, tool)
    \/ EnvRefuses(i) \/ AdoptFd(i) \/ RejectFd(i)
    \/ BindInetd(i) \/ BindUnusable(i) \/ BindDone(i) \/ DropNext(i)

-----------------------------------------------------------------------------
(***************************************************************************)
(* The surroundings                                                        *)
(***************************************************************************)
\* A process begins with the descriptors that were passed to it.
Start(i) ==
    /\ pc[i] = "down"
    /\ Goes(i, "binding")
    /\ fds' = [fds EXCEPT ![i] = [n \in Fds |-> IF n \in Passed THEN Inherited ELSE Free]]
    /\ calls' = [calls EXCEPT ![i] = 1]
    /\ UNCHANGED <<addrs, opts, v, file, granted, troubles, lingering>>

\* The caller of bind_multiple tries again.
Retry(i) ==
    /\ pc[i] = "failed" /\ calls[i] < MaxCalls
    /\ Goes(i, "binding")
    /\ calls' = [calls EXCEPT ![i] = @ + 1]
    /\ UNCHANGED <<addrs, opts, v, fds, file, granted, troubles, lingering>>

\* Where a process may have connections of which it closes its end first.
Serves(i) == {a \in {addrs[k] : k \in DOMAIN addrs} : pc[i] = "up" /\ a.kind \in Ports}

\* The end of a process closes its descriptors and leaves its files.
Ends(i) ==
    /\ Goes(i, "down")
    /\ fds' = [fds EXCEPT ![i] = [n \in Fds |-> Free]]
    /\ v' = [v EXCEPT ![i] = <<>>]
    /\ \E A \in SUBSET Serves(i) : lingering' = lingering \cup A
    /\ UNCHANGED <<addrs, opts, calls, file, granted>>

Exit(i) == pc[i] = "failed" /\ Ends(i) /\ UNCHANGED troubles

Trouble == troubles < MaxTroubles /\ troubles' = troubles + 1

Crash(i) == pc[i] # "down" /\ Ends(i) /\ Trouble

\* No memory, no descriptors, no permission, a missing directory...
KernelRefuses(i) ==
    /\ Trouble
    /\ \/ /\ Binding(i, Named) \/ pc[i] = "unlinked"
          /\ Goes(i, "failing") /\ UNCHANGED <<fds, v, file, granted>>
       \/ UnlinkRefused(i)
       \/ LET p == addrs[At(i)].name IN        \* after bind(2) made the file
          /\ pc[i] = "unlinked" /\ file[p] = NoFile
          /\ file' = [file EXCEPT ![p] = <<i, At(i)>>]
          /\ granted' = [granted EXCEPT ![p] = {}]
          /\ Goes(i, "failing") /\ UNCHANGED <<fds, v>>
       \/ pc[i] \in opts.tools /\ DropsLast(i) /\ UNCHANGED <<file, granted>>
       \/ /\ Binding(i, {"fd"}) /\ Allowed(addrs[At(i)].name)
          /\ Closes(i, addrs[At(i)].name)
          /\ Goes(i, "failing") /\ UNCHANGED <<v, file, granted>>
    /\ UNCHANGED <<addrs, opts, calls, lingering>>

\* Another thread of the process opens a descriptor of its own.
OtherOpens(i) ==
    /\ pc[i] # "down"
    /\ \A n \in Fds : fds[i][n] # Other
    /\ \E n \in Fds : Lowest(i, n) /\ fds' = [fds EXCEPT ![i][n] = Other]
    /\ UNCHANGED <<addrs, opts, pc, v, calls, file, granted, troubles, lingering>>

\* The kernel forgets the last of the old connections.
TimeWaitOver ==
    /\ \E a \in lingering : lingering' = lingering \ {a}
    /\ UNCHANGED bindVars

InstanceStep(i) ==
    \/ BindStep(i) \/ Start(i) \/ Retry(i) \/ Exit(i)
    \/ Crash(i) \/ KernelRefuses(i) \/ OtherOpens(i)

Next == TimeWaitOver \/ \E i \in Instances : InstanceStep(i)

Spec == Init /\ [][Next]_vars

\* bind does not wait for others, a supervisor starts what has ended, and
\* TIME_WAIT has an end.
FairSpec ==
    /\ Spec
    /\ WF_vars(TimeWaitOver)
    /\ \A i \in Instances : WF_vars(BindStep(i)) /\ WF_vars(Start(i)) /\ WF_vars(Exit(i))

-----------------------------------------------------------------------------
\* A name that only one socket may have and that comes before every path.
IsLock(k) ==
    /\ k \in DOMAIN addrs /\ addrs[k].kind \in Named
    /\ addrs[k].kind \in Ports => ~opts.reusePort
    /\ \A j \in DOMAIN addrs : addrs[j].kind = "path" => k < j

Locked == \E k \in DOMAIN addrs : IsLock(k)

(***************************************************************************)
(* A service that binds such a name first (the ? of bind_multiple ends a   *)
(* second process there) keeps its paths: while an instance is up its      *)
(* files lead to it, and no other process, unlinking or not, takes them.   *)
(***************************************************************************)
LockKeepsPaths == Locked => \A i \in Instances : pc[i] = "up" =>
    \A k \in DOMAIN addrs : addrs[k].kind = "path" => /\ file[addrs[k].name] # NoFile
                                                      /\ file[addrs[k].name][1] = i

\* Where the service is, seen from its lock; without one nothing is promised.
Lock == CHOOSE k \in DOMAIN addrs : IsLock(k)
Holder == IF Locked THEN {i \in Instances : Live(i, Lock)} ELSE {}
Up == IF Locked THEN {i \in Instances : pc[i] = "up"} ELSE {}
PathNames == {addrs[k].name : k \in {j \in DOMAIN addrs : Locked /\ addrs[j].kind = "path"}}
Leads == [p \in PathNames |-> {i \in Instances : file[p] # NoFile /\ file[p][1] = i}]

Guard == INSTANCE GuardedPaths WITH holder <- Holder, up <- Up, leads <- Leads

(***************************************************************************)
(* Binding implements GuardedPaths: from the first address on, and through *)
(* crashes, failures and restarts, what the processes of a service with a  *)
(* lock do to its name and its files is what one of them at a time does,   *)
(* and only while no instance is up.                                       *)
(***************************************************************************)
KeepsPathsGuarded == Guard!Spec

(***************************************************************************)
(* chmod and chown of listen_path go by the path and may hit the file of   *)
(* another process, but a file that leads to an instance that is up has    *)
(* had all that the options ask for.                                       *)
(***************************************************************************)
GrantedWhenUp == \A i \in Instances, p \in Paths :
    (pc[i] = "up" /\ file[p] # NoFile /\ file[p][1] = i) => opts.tools \subseteq granted[p]

(***************************************************************************)
(* The ? of bind_multiple: an instance that is up has an open descriptor   *)
(* for each of its addresses, no two the same; one whose bind failed has   *)
(* no socket left that it bound.                                           *)
(***************************************************************************)
AllOrNothing == \A i \in Instances :
    /\ pc[i] = "up" => \A k \in DOMAIN addrs : addrs[k].kind # "inetd" =>
            /\ Refers(i, v[i][k]) # Free
            /\ \A j \in DOMAIN addrs : v[i][j] = v[i][k] => j = k
    /\ pc[i] = "failed" => \A k \in DOMAIN addrs : ~Live(i, k)

\* The service is one path and nothing went wrong.
OnePath == Len(addrs) = 1 /\ addrs[1].kind = "path" /\ troubles = 0

(***************************************************************************)
(* Processes that race through remove_file, bind, chmod and chown of one   *)
(* path can make each other fail, but not all of them: when each has       *)
(* finished, the path leads to one that is up.                             *)
(***************************************************************************)
SomeoneWins ==
    (OnePath /\ \A i \in Instances : pc[i] \in {"up", "failed"}) =>
        \E i \in Instances : pc[i] = "up" /\ file[addrs[1].name] = <<i, 1>>

\* No descriptor is listed twice.
DistinctFds == \A j, k \in DOMAIN addrs :
    (addrs[j].kind = "fd" /\ addrs[k].kind = "fd" /\ addrs[k].name = addrs[j].name) => j = k

(***************************************************************************)
(* The first call of bind_multiple never closes a descriptor that is not   *)
(* its own, if the environment is checked and no number is listed twice.   *)
(***************************************************************************)
OthersKept == [][\A i \in Instances, n \in Fds :
    (/\ fds[i][n] = Other /\ pc'[i] # "down"
     /\ calls[i] = 1 /\ DistinctFds /\ ~opts.ignoreEnv) => fds'[i][n] = Other]_vars

(***************************************************************************)
(* listen_from_fd says it checks the environment to "ensure specified file *)
(* descriptor is valid to use as a socket": what the check lets pass is an *)
(* inherited descriptor.                                                   *)
(***************************************************************************)
CheckedIsValid == \A i \in Instances :
    (Binding(i, {"fd"}) /\ ~opts.ignoreEnv /\ DistinctFds /\ Allowed(addrs[At(i)].name))
        => Refers(i, addrs[At(i)].name) = Inherited

(***************************************************************************)
(* In the first call of a process it is so, though a failure closes them,  *)
(* a number may be listed twice and other threads open descriptors: what   *)
(* the check lets pass has never been closed or reused.                    *)
(***************************************************************************)
FirstCheckIsValid == \A i \in Instances :
    (calls[i] = 1 /\ Binding(i, {"fd"}) /\ check_env_for_fd(Env, addrs[At(i)].name))
        => Refers(i, addrs[At(i)].name) = Inherited

\* All can be bound, paths are unlinked first and a name guards them.  A lone path
\* needs none unless it is chmodded: two processes can then fail by turns for ever.
Recoverable ==
    /\ addrs # <<>> /\ DistinctFds /\ opts.unlink
    /\ Locked \/ (Len(addrs) = 1 /\ opts.tools = {})
    /\ \A k \in DOMAIN addrs : /\ addrs[k].kind # "unusable"
                               /\ ~BadV6Only(addrs[k]) /\ ~BadBacklog(addrs[k])
                               /\ addrs[k].kind = "fd" => addrs[k].name \in Passed /\ Allowed(addrs[k].name)
                               /\ \A j \in DOMAIN addrs : addrs[j] = addrs[k] => j = k

(***************************************************************************)
(* Crashes in the middle of bind_multiple, the files they leave and the    *)
(* races of restarted processes do not keep a service with                 *)
(* unix_listen_unlink down: in the end one instance is up and reached at   *)
(* all of its paths.                                                       *)
(***************************************************************************)
Recovers == Recoverable => <>[](\E i \in Instances :
    /\ pc[i] = "up"
    /\ \A k \in DOMAIN addrs : addrs[k].kind = "path" => file[addrs[k].name] = <<i, k>>)

(***************************************************************************)
(* A service with unix_listen_unlink and a name of its own needs no second *)
(* attempt to come back when all its other processes have gone: a restart  *)
(* is not refused for what they left behind.  Only the socket2 branch of   *)
(* listen_tcp has to wait for the end of TIME_WAIT.                        *)
(***************************************************************************)
RestartsAtOnce == [][\A i \in Instances :
    (/\ Recoverable /\ Locked /\ calls[i] = 1 /\ UNCHANGED troubles
     /\ \A j \in Instances \ {i} : pc[j] = "down"
     /\ pc[i] # "failing" /\ pc'[i] = "failing")
    => /\ pc[i] = "binding" /\ addrs[At(i)] \in lingering
       /\ UsesSocket2 /\ ~opts.reusePort]_vars
=============================================================================
