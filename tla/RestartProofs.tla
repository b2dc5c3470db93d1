--------------------------- MODULE RestartProofs ---------------------------
(***************************************************************************)
(* A restart: what a process that is alone finds of those before it.  It   *)
(* has bound nothing beyond its listeners, and the path that it has        *)
(* removed is still free, for nobody else is past the lock.                *)
(***************************************************************************)
EXTENDS DescriptorProofs

OwnedBelow == \A i \in Instances, n \in Fds, k \in DOMAIN addrs :
    (pc[i] \in Good /\ fds[i][n] = Own(k)) => k <= Len(v[i])

PathFree == (Locked /\ opts.unlink) => \A i \in Instances :
    pc[i] = "unlinked" => file[addrs[At(i)].name] = NoFile

LEMMA OwnedBelowStep ==
    ASSUME TypeInv, ListedInv, OwnedBelow, NEW p \in Instances, InstanceStep(p)
    PROVE  OwnedBelow'
<1>. SUFFICES ASSUME NEW i \in Instances, NEW n \in Fds, NEW k \in DOMAIN addrs,
                     pc'[i] \in Good, fds'[i][n] = Own(k)
              PROVE  k <= Len(v'[i])
  BY OnlyActor DEF OwnedBelow
<1>0. v[p] \in Seq(Int) /\ Len(v[p]) \in Nat /\ k \in Nat /\ n \in Int
  BY AddressOK, NumbersAreInts DEF TypeInv, BindingTypeOK
<1>1. CASE i # p
  BY <1>1, OnlyActor DEF OwnedBelow
<1>2. CASE i = p /\ (Start(p) \/ Exit(p) \/ Crash(p))
  BY <1>2, Distinction DEF Start, Exit, Crash, Ends, Goes, Good, TypeInv, BindingTypeOK
<1>3. CASE i = p /\ Retry(p)
  BY <1>3, Distinction DEF Retry, ListedInv, TypeInv, PlaceOK
<1>4. CASE i = p /\ Binds(p)
  <2>1. PICK m \in Fds : /\ fds' = [fds EXCEPT ![p][m] = Own(At(p))]
                         /\ v' = [v EXCEPT ![p] = Append(@, m)]
    BY <1>4 DEF Binds
  <2>2. Len(v'[p]) = Len(v[p]) + 1 /\ pc[p] \in Good
    BY <1>0, <1>4, <2>1, NumbersAreInts DEF Binds, Good, TypeInv, BindingTypeOK
  <2>3. CASE n = m
    BY <1>0, <1>4, <2>1, <2>2, <2>3, Distinction DEF At, TypeInv, BindingTypeOK
  <2>4. CASE n # m
    BY <1>0, <1>4, <2>1, <2>2, <2>4 DEF OwnedBelow, TypeInv, BindingTypeOK
  <2>. QED
    BY <2>3, <2>4
<1>5. CASE i = p /\ Adopts(p)
  <2>1. Len(v'[p]) = Len(v[p]) + 1 /\ pc[p] \in Good /\ fds' = fds
    BY <1>0, <1>5 DEF Adopts, Good, TypeInv, BindingTypeOK
  <2>. QED
    BY <1>0, <1>5, <2>1 DEF OwnedBelow
<1>6. CASE i = p /\ Quiet(p)
  BY <1>6, Distinction DEF Quiet, OwnedBelow
<1>7. CASE i = p /\ \E m : CloseOf(p, m)
  BY <1>7 DEF CloseOf
<1>. QED
  BY <1>1, <1>2, <1>3, <1>4, <1>5, <1>6, <1>7, CloseShapes

LEMMA PathFreeStep ==
    ASSUME LockInv, PathFree, NEW p \in Instances, InstanceStep(p)
    PROVE  PathFree'
<1>. USE DEF LockInv
<1>. SUFFICES ASSUME Locked, opts.unlink, NEW i \in Instances, pc'[i] = "unlinked"
              PROVE  (file[addrs[At(i)].name] = NoFile)'
  BY OnlyActor DEF PathFree, Locked, IsLock
<1>1. CASE i # p
  <2>1. pc[i] = "unlinked" /\ At(i)' = At(i) /\ UNCHANGED addrs
    BY <1>1, OnlyActor DEF At
  <2>2. PICK l \in DOMAIN addrs : IsLock(l)
    BY DEF Locked, IsLock
  <2>3. l < At(i) /\ l \in Nat /\ Len(v[i]) \in Nat
    BY <2>1, <2>2 DEF IsLock, TypeInv, PlaceOK, BindingTypeOK
  <2>4. pc[i] \in Good /\ l <= Len(v[i])
    BY <2>1, <2>3 DEF Good, At
  <2>5. file' = file
    BY <1>1, <2>2, <2>4, FileChange, Alone
  <2>. QED
    BY <2>1, <2>5 DEF PathFree
<1>2. CASE i = p /\ PathUnlink(p)
  <2>1. addrs[At(p)].name \in Paths
    BY <1>2, AddressOK DEF PathUnlink, Binding, TypeInv
  <2>. QED
    BY <1>2, <2>1 DEF PathUnlink, At, TypeInv, BindingTypeOK
<1>3. CASE i = p /\ ~PathUnlink(p)
  <2>1. OtherOpens(p)
    BY <1>3 DEF InstanceStep, BindStep, listen_named, BacklogRefused, PathBind, PathTool, EnvRefuses, AdoptFd,
       RejectFd, BindInetd, BindUnusable, BindDone, DropNext, DropsLast, KernelRefuses, UnlinkRefused, Start, Retry,
       Exit, Crash, Ends, Goes, After, Binding, TypeInv, BindingTypeOK
  <2>. QED
    BY <1>3, <2>1 DEF OtherOpens, At, PathFree
<1>. QED
  BY <1>1, <1>2, <1>3

\* The first call of a process that is alone fails only for TIME_WAIT.
LEMMA AloneFails ==
    ASSUME Passed \subseteq Fds, LockInv, FirstCallInv, OwnedBelow, PathFree,
           NEW i \in Instances, InstanceStep(i), Recoverable, Locked, calls[i] = 1, UNCHANGED troubles,
           \A j \in Instances \ {i} : pc[j] = "down", pc[i] # "failing", pc'[i] = "failing"
    PROVE  pc[i] = "binding" /\ addrs[At(i)] \in lingering /\ UsesSocket2 /\ ~opts.reusePort
<1>. USE DEF LockInv
<1>. DEFINE a == addrs[At(i)]
<1>0. /\ pc \in [Instances -> {"down", "binding", "backlog", "unlinked", "chmod", "chown", "failing", "failed", "up"}]
      /\ v[i] \in Seq(Int) /\ Len(v[i]) \in Nat /\ troubles \in Nat
      /\ At(i) \notin DOMAIN v[i] /\ ~(At(i) <= Len(v[i]))
  <2>1. v[i] \in Seq(Int) /\ Len(v[i]) \in Nat /\ troubles \in Nat
    BY BindingAssumption DEF TypeInv, BindingTypeOK
  <2>. QED
    BY <2>1 DEF At, TypeInv, BindingTypeOK
<1>1. CASE listen_named(i)
  <2>1. At(i) \in DOMAIN addrs /\ pc[i] = "binding" /\ ~BadV6Only(a)
    BY <1>1 DEF listen_named, Binding, Recoverable
  <2>5. ~BadBacklog(a)
    BY <2>1 DEF Recoverable
  <2>2. ASSUME NEW j \in Instances, NEW k \in DOMAIN addrs, addrs[k] = a, Live(j, k) PROVE FALSE
    <3>1. PICK n \in Fds : fds[j][n] = Own(k)
      BY <2>2 DEF Live
    <3>2. j = i
      BY <3>1, Distinction DEF FirstCallInv
    <3>3. k = At(i)
      BY <2>1, <2>2 DEF Recoverable
    <3>. QED
      BY <1>0, <2>1, <3>1, <3>2, <3>3 DEF OwnedBelow, Good
  <2>3. Available(a)
    BY <2>2 DEF Available
  <2>4. ~MayReuse(a)
    BY <1>0, <1>1, <2>1, <2>3, <2>5 DEF listen_named, Goes
  <2>. QED
    BY <2>1, <2>4 DEF MayReuse
<1>2. CASE PathBind(i)
  <2>1. file[a.name] = NoFile
    BY <1>2 DEF PathBind, PathFree, Recoverable
  <2>. QED
    BY <1>0, <1>2, <2>1 DEF PathBind, Goes
<1>3. CASE \E tool \in Tools : PathTool(i, tool)
  <2>1. PICK tool \in Tools : PathTool(i, tool)
    BY <1>3
  <2>2. pc[i] = tool /\ tool \in {"chmod", "chown"}
    BY <2>1 DEF PathTool, Tools
  <2>3. Len(v[i]) \in DOMAIN addrs /\ addrs[Len(v[i])].kind = "path"
    BY <2>2 DEF TypeInv, PlaceOK
  <2>4. file[addrs[Len(v[i])].name] # NoFile
    BY <1>0, <2>2, <2>3 DEF FileInv, LeadsTo, Good
  <2>. QED
    BY <1>0, <2>1, <2>2, <2>4 DEF PathTool, Goes, After
<1>8. CASE BacklogRefused(i)
  BY <1>8 DEF BacklogRefused, TypeInv, PlaceOK, Recoverable
<1>4. CASE EnvRefuses(i) \/ BindUnusable(i) \/ BindDone(i)
  BY <1>0, <1>4 DEF EnvRefuses, BindUnusable, BindDone, Binding, Goes, Recoverable
<1>5. CASE RejectFd(i)
  <2>1. At(i) \in DOMAIN addrs /\ a.kind = "fd" /\ pc[i] \in Good
    BY <1>5 DEF RejectFd, Binding, Good
  <2>2. a.name \in Passed /\ a.name \in Fds
    BY <2>1 DEF Recoverable
  <2>3. InheritedStill(i)
    BY DEF FirstCallInv
  <2>4. Refers(i, a.name) = Inherited
    BY <2>1, <2>2, <2>3 DEF InheritedStill, Refers
  <2>5. ASSUME NEW k \in DOMAIN v[i], v[i][k] = a.name PROVE FALSE
    <3>1. k \in DOMAIN addrs /\ addrs[k].kind = "fd" /\ addrs[k].name = a.name
      BY <2>1, <2>2, <2>3, <2>5 DEF InheritedStill
    <3>2. k = At(i)
      BY <2>1, <3>1 DEF Recoverable, DistinctFds
    <3>. QED
      BY <1>0, <3>2
  <2>. QED
    BY <1>5, <2>4, <2>5, Distinction DEF RejectFd, Registered
<1>6. CASE KernelRefuses(i) \/ Crash(i)
  BY <1>0, <1>6 DEF KernelRefuses, UnlinkRefused, Crash, Trouble
<1>7. CASE PathUnlink(i) \/ AdoptFd(i) \/ BindInetd(i) \/ DropNext(i) \/ Start(i) \/ Retry(i) \/ Exit(i) \/ OtherOpens(i)
  BY <1>0, <1>7 DEF PathUnlink, AdoptFd, BindInetd, DropNext, Start, Retry, Exit, Ends, OtherOpens,
     Goes, Binding
<1>. QED
  BY <1>1, <1>2, <1>3, <1>4, <1>5, <1>6, <1>7, <1>8 DEF InstanceStep, BindStep

(***************************************************************************)
(* However its processes crashed, raced or were stopped before, a service  *)
(* with unix_listen_unlink and a name of its own binds all its addresses   *)
(* at the first attempt of a process that is alone, but for the TIME_WAIT  *)
(* of the socket2 branch of listen_tcp.  MaxFd has to leave room for the   *)
(* numbers that are passed.                                                *)
(***************************************************************************)
THEOREM FirstAttemptBinds == ASSUME Passed \subseteq Fds PROVE Spec => RestartsAtOnce
<1>. DEFINE RestartInv == LockInv /\ ListedInv /\ FirstCallInv /\ OwnedBelow /\ PathFree
            AtOnce == \A i \in Instances :
                (/\ Recoverable /\ Locked /\ calls[i] = 1 /\ UNCHANGED troubles
                 /\ \A j \in Instances \ {i} : pc[j] = "down"
                 /\ pc[i] # "failing" /\ pc'[i] = "failing")
                => /\ pc[i] = "binding" /\ addrs[At(i)] \in lingering
                   /\ UsesSocket2 /\ ~opts.reusePort
<1>1. Init => RestartInv
  <2>. SUFFICES ASSUME Init PROVE RestartInv
    OBVIOUS
  <2>1. ListedInv /\ OwnedBelow /\ PathFree
    BY DEF Init, ListedInv, OwnedBelow, PathFree, Good
  <2>. QED
    BY <2>1, LockInit, FirstCallInit
<1>2. RestartInv /\ [Next]_vars => RestartInv'
  <2>. SUFFICES ASSUME RestartInv, [Next]_vars PROVE RestartInv'
    OBVIOUS
  <2>1. LockInv' /\ FirstCallInv'
    BY LockNext, FirstCallNext DEF LockInv
  <2>2. CASE UNCHANGED bindVars
    BY <2>1, <2>2 DEF bindVars, Locked, IsLock, At, ListedInv, OwnedBelow, PathFree
  <2>3. ASSUME NEW p \in Instances, InstanceStep(p) PROVE RestartInv'
    BY <2>1, <2>3, ListedStep, OwnedBelowStep, PathFreeStep DEF LockInv
  <2>. QED
    BY <2>2, <2>3 DEF Next, TimeWaitOver, vars
<1>3. RestartInv /\ [Next]_vars => [AtOnce]_vars
  <2>. SUFFICES ASSUME RestartInv, Next, NEW i \in Instances,
                       Recoverable, Locked, calls[i] = 1, UNCHANGED troubles,
                       \A j \in Instances \ {i} : pc[j] = "down",
                       pc[i] # "failing", pc'[i] = "failing"
                PROVE  pc[i] = "binding" /\ addrs[At(i)] \in lingering /\ UsesSocket2 /\ ~opts.reusePort
    OBVIOUS
  <2>1. PICK p \in Instances : InstanceStep(p)
    BY DEF Next, TimeWaitOver, bindVars
  <2>2. p = i
    BY <2>1, OnlyActor DEF LockInv
  <2>. QED
    BY <2>1, <2>2, AloneFails
<1>. QED
  BY <1>1, <1>2, <1>3, PTL DEF Spec, RestartsAtOnce
=============================================================================
