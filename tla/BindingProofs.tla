---------------------------- MODULE BindingProofs ----------------------------
(***************************************************************************)
(* Theorems about Binding, for any number of processes and for all lists   *)
(* of addresses and options.                                               *)
(***************************************************************************)
EXTENDS Binding, SequenceTheorems, TLAPS

Things == {Free, Inherited, Other} \cup {Own(k) : k \in DOMAIN addrs}

\* While bind_multiple has not failed, and after it succeeded.  A refused backlog
\* is a failure.
Good == {"binding", "unlinked", "chmod", "chown", "up"}

(***************************************************************************)
(* Which address each place in the code is about.                          *)
(***************************************************************************)
PlaceOK == \A i \in Instances :
    /\ pc[i] = "unlinked" => At(i) \in DOMAIN addrs /\ addrs[At(i)].kind = "path"
    /\ pc[i] \in {"chmod", "chown"} =>
            Len(v[i]) \in DOMAIN addrs /\ addrs[Len(v[i])].kind = "path"
    /\ pc[i] = "backlog" => Len(v[i]) \in DOMAIN addrs /\ BadBacklog(addrs[Len(v[i])])
    /\ pc[i] \in {"down", "failed"} => v[i] = <<>>
    /\ pc[i] = "up" => \A k \in DOMAIN addrs : k <= Len(v[i])

TypeInv == BindingTypeOK /\ PlaceOK

LEMMA Distinction ==
    /\ Free # Inherited /\ Free # Other /\ Inherited # Other
    /\ \A k : Own(k) \notin {Free, Inherited, Other}
    /\ \A j, k : Own(j) = Own(k) => j = k
BY DEF Free, Inherited, Other, Own

LEMMA Shortened ==
    ASSUME NEW s \in Seq(Int), s # <<>>
    PROVE  SubSeq(s, 1, Len(s) - 1) \in Seq(Int)
OBVIOUS

\* The descriptor tables after a close and after an open.
LEMMA ClosesType ==
    ASSUME BindingTypeOK, NEW i \in Instances, NEW n, Closes(i, n)
    PROVE  /\ fds' \in [Instances -> [Fds -> Things]]
           /\ \A j \in Instances, m \in Fds : fds'[j][m] # fds[j][m] => j = i /\ m = n /\ fds'[j][m] = Free
BY DEF BindingTypeOK, Closes, Things

LEMMA OpensType ==
    ASSUME BindingTypeOK, NEW i \in Instances, At(i) \in DOMAIN addrs, Opens(i)
    PROVE  /\ fds' \in [Instances -> [Fds -> Things]]
           /\ v' \in [Instances -> Seq(Int)]
           /\ \E n \in Fds : /\ fds[i][n] = Free
                             /\ fds' = [fds EXCEPT ![i][n] = Own(At(i))]
                             /\ v' = [v EXCEPT ![i] = Append(@, n)]
<1>1. PICK n \in Fds : /\ Lowest(i, n)
                       /\ fds' = [fds EXCEPT ![i][n] = Own(At(i))]
                       /\ v' = [v EXCEPT ![i] = Append(@, n)]
  BY DEF Opens
<1>2. n \in Int
  BY BindingAssumption DEF Fds, SD_LISTEN_FDS_START
<1>3. Append(v[i], n) \in Seq(Int)
  BY <1>2 DEF BindingTypeOK
<1>. QED
  BY <1>1, <1>3 DEF BindingTypeOK, Lowest, Things

LEMMA OpensGrows ==
    ASSUME BindingTypeOK, NEW i \in Instances, At(i) \in DOMAIN addrs, Opens(i)
    PROVE  \E n \in Fds : v'[i] = Append(v[i], n)
<1>1. PICK n \in Fds : v' = [v EXCEPT ![i] = Append(@, n)]
  BY OpensType
<1>. QED
  BY <1>1 DEF BindingTypeOK

LEMMA AddressOK ==
    ASSUME BindingTypeOK, NEW k \in DOMAIN addrs
    PROVE  /\ k \in Nat
           /\ addrs[k].kind \in Kinds
           /\ addrs[k].kind = "path" => addrs[k].name \in Paths
           /\ addrs[k].kind = "fd" => addrs[k].name \in Int
<1>1. k \in 1..Len(addrs) /\ addrs[k] \in Addresses
  BY DEF BindingTypeOK
<1>. QED
  BY <1>1, BindingAssumption

(***************************************************************************)
(* TypeInv is inductive, one action at a time.                             *)
(***************************************************************************)
LEMMA TypeInit == Init => TypeInv
BY BindingAssumption DEF Init, TypeInv, BindingTypeOK, PlaceOK, NoFile

LEMMA TypeStep == TypeInv /\ [Next]_vars => TypeInv'
<1>. SUFFICES ASSUME TypeInv, [Next]_vars PROVE TypeInv'
  OBVIOUS
<1>. USE DEF TypeInv, BadBacklog
<1>0. lingering' \subseteq Addresses
  <2>1. ASSUME NEW i \in Instances, Ends(i) PROVE lingering' \subseteq Addresses
    BY <2>1 DEF Ends, Serves, BindingTypeOK
  <2>2. CASE TimeWaitOver \/ UNCHANGED vars
    BY <2>2 DEF TimeWaitOver, vars, BindingTypeOK
  <2>3. ASSUME NEW i \in Instances, InstanceStep(i), ~Ends(i)
        PROVE  UNCHANGED lingering
    BY <2>3 DEF InstanceStep, BindStep, listen_named, BacklogRefused, PathUnlink, PathBind, PathTool,
       EnvRefuses, AdoptFd, RejectFd, BindInetd, BindUnusable, BindDone, DropNext,
       Start, Retry, Exit, Crash, KernelRefuses, UnlinkRefused, OtherOpens
  <2>. QED
    BY <2>1, <2>2, <2>3 DEF Next, BindingTypeOK
<1>1. CASE UNCHANGED bindVars
  BY <1>0, <1>1 DEF bindVars, BindingTypeOK, PlaceOK, At
<1>2. ASSUME NEW i \in Instances, listen_named(i) PROVE TypeInv'
  <2>1. CASE Opens(i) /\ UNCHANGED pc
    <3>1. At(i) \in DOMAIN addrs /\ pc[i] = "binding"
      BY <1>2 DEF listen_named, Binding
    <3>2. BindingTypeOK'
      BY <1>2, <2>1, <3>1, OpensType DEF listen_named, BindingTypeOK, Things
    <3>3. \A j \in Instances : pc'[j] = pc[j] /\ (j # i => v'[j] = v[j])
      BY <2>1, <3>1, OpensType DEF BindingTypeOK
    <3>. QED
      BY <1>2, <3>1, <3>2, <3>3 DEF PlaceOK, At, listen_named
  <2>2. CASE Goes(i, "failing") /\ UNCHANGED <<fds, v>>
    BY <1>2, <2>2 DEF listen_named, Goes, BindingTypeOK, PlaceOK, At
  <2>3. CASE Opens(i) /\ BadBacklog(addrs[At(i)]) /\ Goes(i, "backlog")
    <3>1. At(i) \in DOMAIN addrs
      BY <1>2 DEF listen_named, Binding
    <3>2. BindingTypeOK'
      BY <1>2, <2>3, <3>1, OpensType DEF listen_named, BindingTypeOK, Things, Goes
    <3>3. Len(v'[i]) = At(i)
      BY <2>3, <3>1, OpensGrows DEF BindingTypeOK, At
    <3>4. pc'[i] = "backlog" /\ \A j \in Instances : j # i => pc'[j] = pc[j] /\ v'[j] = v[j]
      BY <2>3, <3>1, OpensType DEF BindingTypeOK, Goes
    <3>5. UNCHANGED <<addrs, opts>>
      BY <1>2 DEF listen_named
    <3>. QED
      BY <2>3, <3>1, <3>2, <3>3, <3>4, <3>5 DEF PlaceOK, At
  <2>. QED
    BY <1>2, <2>1, <2>2, <2>3 DEF listen_named
<1>3. ASSUME NEW i \in Instances, PathUnlink(i) PROVE TypeInv'
  BY <1>3, AddressOK DEF PathUnlink, Binding, Goes, BindingTypeOK, PlaceOK, At
<1>4. ASSUME NEW i \in Instances, PathBind(i) PROVE TypeInv'
  <2>1. At(i) \in DOMAIN addrs /\ addrs[At(i)].kind = "path" /\ addrs[At(i)].name \in Paths
    BY <1>4, AddressOK DEF PathBind, PlaceOK
  <2>2. CASE file[addrs[At(i)].name] = NoFile
    <3>1. PICK n \in Fds : v' = [v EXCEPT ![i] = Append(@, n)]
      BY <1>4, <2>1, <2>2, OpensType DEF PathBind
    <3>2. BindingTypeOK'
      <4>1. Opens(i)
        BY <1>4, <2>2 DEF PathBind
      <4>2. fds' \in [Instances -> [Fds -> Things]]
        BY <2>1, <4>1, OpensType
      <4>3. v' \in [Instances -> Seq(Int)]
        BY <2>1, <4>1, OpensType
      <4>4. file' \in [Paths -> {NoFile} \cup (Instances \X DOMAIN addrs)]
        <5>1. <<i, At(i)>> \in Instances \X DOMAIN addrs
          BY <2>1
        <5>2. file' = [file EXCEPT ![addrs[At(i)].name] = <<i, At(i)>>]
          BY <1>4, <2>2 DEF PathBind
        <5>. QED
          BY <5>1, <5>2 DEF BindingTypeOK
      <4>5. granted' \in [Paths -> SUBSET Tools]
        BY <1>4, <2>1, <2>2 DEF PathBind, BindingTypeOK
      <4>. QED
        BY <1>4, <2>2, <4>2, <4>3, <4>4, <4>5 DEF PathBind, BindingTypeOK, Things, Goes
    <3>3. Len(v'[i]) = At(i)
      BY <3>1 DEF BindingTypeOK, At
    <3>4. PlaceOK'
      <4>1. pc' = [pc EXCEPT ![i] = "chmod"] /\ addrs' = addrs /\ opts' = opts
        BY <1>4, <2>2 DEF PathBind, Goes
      <4>2. Len(v'[i]) \in DOMAIN addrs /\ addrs[Len(v'[i])].kind = "path"
        BY <2>1, <3>3
      <4>3. pc'[i] = "chmod" /\ \A j \in Instances : j # i => pc'[j] = pc[j] /\ v'[j] = v[j]
        BY <3>1, <4>1 DEF BindingTypeOK
      <4>. QED
        BY <4>1, <4>2, <4>3 DEF PlaceOK, At
    <3>. QED
      BY <3>2, <3>4
  <2>3. CASE file[addrs[At(i)].name] # NoFile
    <3>1. /\ pc' = [pc EXCEPT ![i] = "failing"]
          /\ UNCHANGED <<addrs, opts, v, fds, calls, file, granted, troubles, lingering>>
      BY <1>4, <2>3 DEF PathBind, Goes
    <3>2. BindingTypeOK'
      BY <3>1 DEF BindingTypeOK
    <3>. QED
      BY <3>1, <3>2 DEF BindingTypeOK, PlaceOK, At
  <2>. QED
    BY <2>2, <2>3
<1>5. ASSUME NEW i \in Instances, DropsLast(i), pc[i] \in Tools \cup {"backlog"},
             UNCHANGED <<addrs, opts, calls>>, troubles' \in 0..MaxTroubles,
             UNCHANGED <<file, granted>>
      PROVE  TypeInv'
  <2>1. v[i] \in Seq(Int) /\ v[i] # <<>>
    <3>1. Len(v[i]) \in DOMAIN addrs
      BY <1>5 DEF PlaceOK, Tools
    <3>. QED
      BY <3>1 DEF BindingTypeOK
  <2>2. v' \in [Instances -> Seq(Int)]
    BY <1>5, <2>1, Shortened DEF DropsLast, BindingTypeOK
  <2>3. BindingTypeOK'
    BY <1>0, <1>5, <2>2, ClosesType DEF DropsLast, BindingTypeOK, Things, Goes
  <2>. QED
    BY <1>5, <2>3 DEF DropsLast, Goes, PlaceOK, At, BindingTypeOK
<1>21. ASSUME NEW i \in Instances, BacklogRefused(i) PROVE TypeInv'
  BY <1>5, <1>21 DEF BacklogRefused, BindingTypeOK
<1>6. ASSUME NEW i \in Instances, NEW tool \in Tools, PathTool(i, tool) PROVE TypeInv'
  <2>1. CASE DropsLast(i) /\ UNCHANGED granted
    BY <1>5, <1>6, <2>1 DEF PathTool, BindingTypeOK
  <2>2. CASE Goes(i, After(tool)) /\ UNCHANGED <<fds, v>>
    <3>1. Len(v[i]) \in DOMAIN addrs /\ addrs[Len(v[i])].kind = "path" /\ addrs[Len(v[i])].name \in Paths
      BY <1>6, AddressOK DEF PathTool, PlaceOK, Tools
    <3>2. granted' \in [Paths -> SUBSET Tools]
      BY <1>6, <3>1 DEF PathTool, BindingTypeOK, DropsLast
    <3>3. After(tool) \in {"chown", "binding"}
      BY DEF After
    <3>. QED
      BY <1>6, <2>2, <3>1, <3>2, <3>3 DEF PathTool, Goes, BindingTypeOK, PlaceOK, At
  <2>. QED
    BY <1>6, <2>1, <2>2 DEF PathTool
<1>7. ASSUME NEW i \in Instances, EnvRefuses(i) \/ BindUnusable(i) PROVE TypeInv'
  BY <1>7 DEF EnvRefuses, BindUnusable, Goes, BindingTypeOK, PlaceOK, At
<1>8. ASSUME NEW i \in Instances, NEW n \in Int, v' = [v EXCEPT ![i] = Append(@, n)],
             pc[i] = "binding", UNCHANGED <<addrs, opts, pc, fds, calls, file, granted, troubles>>
      PROVE  TypeInv'
  <2>1. BindingTypeOK'
    BY <1>0, <1>8 DEF BindingTypeOK
  <2>. QED
    BY <1>8, <2>1 DEF BindingTypeOK, PlaceOK, At
<1>9. ASSUME NEW i \in Instances, AdoptFd(i) PROVE TypeInv'
  <2>1. addrs[At(i)].name \in Int /\ pc[i] = "binding"
    BY <1>9, AddressOK DEF AdoptFd, Binding
  <2>. QED
    BY <1>8, <1>9, <2>1 DEF AdoptFd
<1>10. ASSUME NEW i \in Instances, BindInetd(i) PROVE TypeInv'
  <2>1. NoFd \in Int /\ pc[i] = "binding"
    BY <1>10 DEF BindInetd, Binding, NoFd
  <2>. QED
    BY <1>8, <1>10, <2>1 DEF BindInetd
<1>11. ASSUME NEW i \in Instances, RejectFd(i) PROVE TypeInv'
  <2>1. BindingTypeOK'
    BY <1>11, ClosesType DEF RejectFd, BindingTypeOK, Things, Goes
  <2>. QED
    BY <1>11, <2>1 DEF RejectFd, Goes, PlaceOK, At, BindingTypeOK
<1>12. ASSUME NEW i \in Instances, BindDone(i) PROVE TypeInv'
  <2>1. BindingTypeOK'
    BY <1>12 DEF BindDone, Goes, BindingTypeOK
  <2>2. \A k \in DOMAIN addrs : k <= Len(v[i])
    BY <1>12 DEF BindDone, At, BindingTypeOK
  <2>. QED
    BY <1>12, <2>1, <2>2 DEF BindDone, Goes, PlaceOK, At, BindingTypeOK
<1>13. ASSUME NEW i \in Instances, DropNext(i) PROVE TypeInv'
  <2>1. CASE v[i] = <<>>
    <3>1. /\ pc' = [pc EXCEPT ![i] = "failed"]
          /\ UNCHANGED <<addrs, opts, fds, v, calls, file, granted, troubles, lingering>>
      BY <1>13, <2>1 DEF DropNext, Goes
    <3>2. BindingTypeOK'
      BY <3>1 DEF BindingTypeOK
    <3>3. PlaceOK'
      BY <2>1, <3>1 DEF BindingTypeOK, PlaceOK, At
    <3>. QED
      BY <3>2, <3>3
  <2>2. CASE v[i] # <<>>
    <3>1. BindingTypeOK'
      <4>1. fds' \in [Instances -> [Fds -> Things]]
        BY <1>13, <2>2, ClosesType DEF DropNext
      <4>2. Tail(v[i]) \in Seq(Int)
        BY <2>2 DEF BindingTypeOK
      <4>3. v' = [v EXCEPT ![i] = Tail(@)]
        BY <1>13, <2>2 DEF DropNext
      <4>4. v' \in [Instances -> Seq(Int)]
        BY <4>2, <4>3 DEF BindingTypeOK
      <4>. QED
        BY <1>13, <2>2, <4>1, <4>4 DEF DropNext, BindingTypeOK, Things
    <3>. QED
      BY <1>13, <2>2, <3>1 DEF DropNext, PlaceOK, At, BindingTypeOK
  <2>. QED
    BY <2>1, <2>2
<1>14. ASSUME NEW i \in Instances, Start(i) PROVE TypeInv'
  <2>1. fds' \in [Instances -> [Fds -> Things]]
    BY <1>14 DEF Start, BindingTypeOK, Things
  <2>2. BindingTypeOK'
    BY <1>14, <2>1, BindingAssumption DEF Start, Goes, BindingTypeOK, Things
  <2>. QED
    BY <1>14, <2>2 DEF Start, Goes, PlaceOK, At, BindingTypeOK
<1>15. ASSUME NEW i \in Instances, Retry(i) PROVE TypeInv'
  BY <1>15, BindingAssumption DEF Retry, Goes, BindingTypeOK, PlaceOK, At
<1>16. ASSUME NEW i \in Instances, Ends(i), troubles' \in 0..MaxTroubles PROVE TypeInv'
  <2>1. fds' \in [Instances -> [Fds -> Things]]
    BY <1>16 DEF Ends, BindingTypeOK, Things
  <2>2. BindingTypeOK'
    BY <1>0, <1>16, <2>1 DEF Ends, Goes, BindingTypeOK, Things
  <2>. QED
    BY <1>16, <2>2 DEF Ends, Goes, PlaceOK, At, BindingTypeOK
<1>17. Trouble => troubles' \in 0..MaxTroubles
  BY BindingAssumption DEF Trouble, BindingTypeOK
<1>18. ASSUME NEW i \in Instances, Exit(i) \/ Crash(i) PROVE TypeInv'
  BY <1>16, <1>17, <1>18 DEF Exit, Crash, BindingTypeOK
<1>19. ASSUME NEW i \in Instances, KernelRefuses(i) PROVE TypeInv'
  <2>1. CASE Goes(i, "failing") /\ UNCHANGED <<fds, v, file, granted>>
    BY <1>17, <1>19, <2>1 DEF KernelRefuses, UnlinkRefused, Goes, BindingTypeOK, PlaceOK, At
  <2>2. CASE /\ pc[i] = "unlinked"
             /\ file' = [file EXCEPT ![addrs[At(i)].name] = <<i, At(i)>>]
             /\ granted' = [granted EXCEPT ![addrs[At(i)].name] = {}]
             /\ Goes(i, "failing") /\ UNCHANGED <<fds, v>>
    <3>1. At(i) \in DOMAIN addrs /\ addrs[At(i)].name \in Paths
      BY <2>2, AddressOK DEF PlaceOK
    <3>. QED
      BY <1>17, <1>19, <2>2, <3>1 DEF KernelRefuses, UnlinkRefused, Goes, BindingTypeOK, PlaceOK, At
  <2>3. CASE pc[i] \in opts.tools /\ DropsLast(i) /\ UNCHANGED <<file, granted>>
    BY <1>5, <1>17, <1>19, <2>3 DEF KernelRefuses, UnlinkRefused, BindingTypeOK
  <2>4. CASE /\ Closes(i, addrs[At(i)].name)
             /\ Goes(i, "failing") /\ UNCHANGED <<v, file, granted>>
    <3>1. BindingTypeOK'
      BY <1>17, <1>19, <2>4, ClosesType DEF KernelRefuses, UnlinkRefused, BindingTypeOK, Things, Goes
    <3>. QED
      BY <1>19, <2>4, <3>1 DEF KernelRefuses, UnlinkRefused, Goes, PlaceOK, At, BindingTypeOK
  <2>. QED
    BY <1>19, <2>1, <2>2, <2>3, <2>4 DEF KernelRefuses, UnlinkRefused
<1>20. ASSUME NEW i \in Instances, OtherOpens(i) PROVE TypeInv'
  <2>1. fds' \in [Instances -> [Fds -> Things]]
    BY <1>20 DEF OtherOpens, BindingTypeOK, Things
  <2>. QED
    BY <1>20, <2>1 DEF OtherOpens, BindingTypeOK, PlaceOK, At, Things
<1>. QED
  BY <1>1, <1>2, <1>3, <1>4, <1>6, <1>7, <1>9, <1>10, <1>11, <1>12, <1>13, <1>14, <1>15,
     <1>18, <1>19, <1>20, <1>21 DEF Next, InstanceStep, BindStep, TimeWaitOver, vars

(***************************************************************************)
(* Every variable of Binding keeps its type, for all services.             *)
(***************************************************************************)
THEOREM BindingTypeCorrect == Spec => []BindingTypeOK
<1>1. Spec => []TypeInv
  BY TypeInit, TypeStep, PTL DEF Spec
<1>. QED
  BY <1>1, PTL DEF TypeInv

-----------------------------------------------------------------------------
(***************************************************************************)
(* A name bound before every path is a lock: who is past it has it, and    *)
(* only one process can be past it.                                        *)
(***************************************************************************)
\* A listener on a name has the socket that was bound for it.
OwnedInv == \A i \in Instances, k \in DOMAIN addrs :
    (pc[i] \in Good /\ k <= Len(v[i]) /\ addrs[k].kind \in Named) =>
        v[i][k] \in Fds /\ fds[i][v[i][k]] = Own(k)

ExclusiveInv == \A k \in DOMAIN addrs : IsLock(k) =>
    \A i, j \in Instances : Live(i, k) /\ Live(j, k) => i = j

LeadsTo(i, p) == file[p] # NoFile /\ file[p][1] = i

\* A path that is bound leads here, unless it is listed twice and bound anew.
FileInv == Locked => \A i \in Instances, k \in DOMAIN addrs :
    (/\ pc[i] \in Good /\ k <= Len(v[i]) /\ addrs[k].kind = "path"
     /\ pc[i] = "unlinked" => addrs[At(i)].name # addrs[k].name) => LeadsTo(i, addrs[k].name)

LockInv == TypeInv /\ OwnedInv /\ ExclusiveInv /\ FileInv

LEMMA OnlyActor ==
    ASSUME TypeInv, NEW p \in Instances, InstanceStep(p)
    PROVE  /\ UNCHANGED <<addrs, opts>>
           /\ \A q \in Instances : q # p => /\ pc'[q] = pc[q] /\ v'[q] = v[q] /\ fds'[q] = fds[q]
<1>. USE DEF TypeInv, BindingTypeOK, Goes
<1>1. ASSUME BindStep(p) PROVE UNCHANGED <<addrs, opts>>
  BY <1>1 DEF BindStep, listen_named, BacklogRefused, PathUnlink, PathBind, PathTool, EnvRefuses, AdoptFd,
              RejectFd, BindInetd, BindUnusable, BindDone, DropNext
<1>2. ASSUME listen_named(p) \/ PathBind(p), NEW q \in Instances, q # p
      PROVE  pc'[q] = pc[q] /\ v'[q] = v[q] /\ fds'[q] = fds[q]
  BY <1>2 DEF listen_named, PathBind, Opens
<1>3. ASSUME \/ PathUnlink(p) \/ EnvRefuses(p) \/ AdoptFd(p) \/ BindInetd(p)
             \/ BindUnusable(p) \/ BindDone(p) \/ Start(p) \/ Retry(p) \/ Exit(p) \/ Crash(p),
             NEW q \in Instances, q # p
      PROVE  pc'[q] = pc[q] /\ v'[q] = v[q] /\ fds'[q] = fds[q]
  BY <1>3 DEF PathUnlink, EnvRefuses, AdoptFd, BindInetd, BindUnusable, BindDone, Start,
              Retry, Exit, Crash, Ends
<1>4. ASSUME \/ \E tool \in Tools : PathTool(p, tool)
             \/ BacklogRefused(p) \/ RejectFd(p) \/ DropNext(p) \/ KernelRefuses(p) \/ OtherOpens(p),
             NEW q \in Instances, q # p
      PROVE  pc'[q] = pc[q] /\ v'[q] = v[q] /\ fds'[q] = fds[q]
  BY <1>4 DEF PathTool, BacklogRefused, RejectFd, DropNext, KernelRefuses, UnlinkRefused, OtherOpens, DropsLast, Closes
<1>5. ASSUME Start(p) \/ Retry(p) \/ Exit(p) \/ Crash(p) \/ KernelRefuses(p) \/ OtherOpens(p)
      PROVE  UNCHANGED <<addrs, opts>>
  BY <1>5 DEF Start, Retry, Exit, Crash, Ends, KernelRefuses, UnlinkRefused, OtherOpens
<1>. QED
  BY <1>1, <1>2, <1>3, <1>4, <1>5 DEF InstanceStep, BindStep

\* What a step can do to the listeners and descriptors of its process.
Gives_up(p) == /\ pc'[p] \notin Good
               /\ \A n \in Fds : fds'[p][n] \in {fds[p][n], Free}

Binds(p) == /\ pc[p] \in {"binding", "unlinked"} /\ At(p) \in DOMAIN addrs
            /\ \E n \in Fds : /\ fds[p][n] = Free
                              /\ fds' = [fds EXCEPT ![p][n] = Own(At(p))]
                              /\ v' = [v EXCEPT ![p] = Append(@, n)]
            /\ addrs[At(p)].kind \in Named => Available(addrs[At(p)])
            /\ pc[p] = "binding" => addrs[At(p)].kind \in Named

Adopts(p) == /\ pc[p] = "binding" /\ At(p) \in DOMAIN addrs
             /\ addrs[At(p)].kind \in {"fd", "inetd"}
             /\ \E n \in Int :
                    /\ v' = [v EXCEPT ![p] = Append(@, n)]
                    /\ addrs[At(p)].kind = "inetd" => n = NoFd
                    /\ addrs[At(p)].kind = "fd" => /\ n = addrs[At(p)].name /\ Allowed(n)
                                                   /\ Refers(p, n) # Free /\ ~Registered(p, n)
             /\ fds' = fds

Moves(p) == /\ v' = v
            /\ pc[p] \in Good \/ v[p] = <<>> \/ pc'[p] \notin Good
            /\ \A n \in Fds : fds'[p][n] # fds[p][n] =>
                    fds[p][n] = Free /\ fds'[p][n] = Other

Begins(p) == /\ v'[p] = <<>>
             /\ \A n \in Fds : fds'[p][n] \in {Free, Inherited}

LEMMA Shapes ==
    ASSUME TypeInv, NEW p \in Instances, InstanceStep(p)
    PROVE  Gives_up(p) \/ Binds(p) \/ Adopts(p) \/ Moves(p) \/ Begins(p)
<1>. USE DEF TypeInv, Goes
<1>0. pc \in [Instances -> {"down", "binding", "backlog", "unlinked", "chmod", "chown", "failing", "failed", "up"}]
  BY DEF BindingTypeOK
<1>1. ASSUME listen_named(p) PROVE Binds(p) \/ Moves(p)
  <2>. DEFINE a == addrs[At(p)]
  <2>1. CASE Available(a) /\ MayReuse(a) /\ ~BadV6Only(a)
    <3>1. Opens(p) /\ At(p) \in DOMAIN addrs /\ pc[p] = "binding" /\ addrs[At(p)].kind \in Named
      BY <1>1, <2>1 DEF listen_named, Binding
    <3>2. \E n \in Fds : /\ fds[p][n] = Free
                         /\ fds' = [fds EXCEPT ![p][n] = Own(At(p))]
                         /\ v' = [v EXCEPT ![p] = Append(@, n)]
      BY <3>1, OpensType
    <3>. QED
      BY <2>1, <3>1, <3>2 DEF Binds
  <2>2. CASE ~(Available(a) /\ MayReuse(a) /\ ~BadV6Only(a))
    BY <1>0, <1>1, <2>2 DEF listen_named, Moves, Good
  <2>. QED
    BY <2>1, <2>2
<1>2. ASSUME PathBind(p) PROVE Binds(p) \/ Moves(p)
  <2>1. CASE Opens(p)
    <3>1. At(p) \in DOMAIN addrs /\ addrs[At(p)].kind \notin Named
      BY <1>2 DEF PathBind, PlaceOK, Named
    <3>. QED
      BY <1>2, <2>1, <3>1, OpensType DEF PathBind, Binds
  <2>2. CASE ~Opens(p)
    BY <1>0, <1>2, <2>2 DEF PathBind, Moves, Good
  <2>. QED
    BY <2>1, <2>2
<1>3. ASSUME \/ PathUnlink(p) \/ EnvRefuses(p) \/ BindUnusable(p) \/ BindDone(p)
             \/ Retry(p) \/ \E tool \in Tools : PathTool(p, tool) /\ ~DropsLast(p)
      PROVE  Moves(p)
  BY <1>0, <1>3 DEF PathUnlink, EnvRefuses, BindUnusable, BindDone, Retry, PathTool, Moves,
                    Good, Binding, PlaceOK, Tools
<1>4. ASSUME NEW n, Closes(p, n), pc'[p] \notin Good PROVE Gives_up(p)
  BY <1>4, ClosesType DEF Gives_up
<1>5. ASSUME DropsLast(p) PROVE Gives_up(p)
  BY <1>0, <1>4, <1>5 DEF DropsLast, Good
<1>13. ASSUME BacklogRefused(p) PROVE Gives_up(p)
  BY <1>5, <1>13 DEF BacklogRefused
<1>6. ASSUME AdoptFd(p) \/ BindInetd(p) PROVE Adopts(p)
  <2>1. CASE AdoptFd(p)
    <3>1. addrs[At(p)].kind = "fd" /\ addrs[At(p)].name \in Int /\ At(p) \in DOMAIN addrs
      BY <2>1, AddressOK DEF AdoptFd, Binding
    <3>. QED
      BY <2>1, <3>1 DEF AdoptFd, Binding, Adopts
  <2>2. CASE BindInetd(p)
    <3>1. addrs[At(p)].kind = "inetd" /\ NoFd \in Int
      BY <2>2 DEF BindInetd, Binding, NoFd
    <3>2. v' = [v EXCEPT ![p] = Append(@, NoFd)] /\ UNCHANGED fds
      BY <2>2 DEF BindInetd
    <3>. QED
      BY <2>2, <3>1, <3>2 DEF BindInetd, Binding, Adopts
  <2>. QED
    BY <1>6, <2>1, <2>2
<1>7. ASSUME RejectFd(p) PROVE Gives_up(p)
  BY <1>0, <1>4, <1>7 DEF RejectFd, Good
<1>8. ASSUME DropNext(p) PROVE Gives_up(p)
  BY <1>0, <1>4, <1>8 DEF DropNext, Good, Gives_up
<1>9. ASSUME Start(p) PROVE Begins(p)
  BY <1>9 DEF Start, Begins, BindingTypeOK, PlaceOK
<1>10. ASSUME Exit(p) \/ Crash(p) PROVE Begins(p)
  BY <1>10 DEF Exit, Crash, Ends, Begins, BindingTypeOK
<1>11. ASSUME KernelRefuses(p) PROVE Gives_up(p) \/ Moves(p)
  BY <1>0, <1>4, <1>5, <1>11 DEF KernelRefuses, UnlinkRefused, Moves, Good
<1>12. ASSUME OtherOpens(p) PROVE Moves(p)
  BY <1>0, <1>12 DEF OtherOpens, Moves, Lowest, BindingTypeOK, PlaceOK
<1>. QED
  BY <1>1, <1>2, <1>3, <1>5, <1>6, <1>7, <1>8, <1>9, <1>10, <1>11, <1>12, <1>13 DEF InstanceStep, BindStep

(***************************************************************************)
(* The three parts of LockInv, by the shape of the step.                   *)
(***************************************************************************)
LEMMA OwnedStep ==
    ASSUME TypeInv, OwnedInv, NEW p \in Instances, InstanceStep(p)
    PROVE  OwnedInv'
<1>. SUFFICES ASSUME NEW i \in Instances, NEW k \in DOMAIN addrs,
                     pc'[i] \in Good, k <= Len(v'[i]), addrs[k].kind \in Named
              PROVE  v'[i][k] \in Fds /\ fds'[i][v'[i][k]] = Own(k)
  BY OnlyActor DEF OwnedInv
<1>0. k \in Nat /\ k >= 1 /\ Len(v[p]) \in Nat
  BY DEF TypeInv, BindingTypeOK
<1>1. CASE i # p
  BY <1>1, OnlyActor DEF OwnedInv
<1>2. CASE i = p /\ Binds(p)
  <2>1. PICK n \in Fds : /\ fds[p][n] = Free
                         /\ fds' = [fds EXCEPT ![p][n] = Own(At(p))]
                         /\ v' = [v EXCEPT ![p] = Append(@, n)]
    BY <1>2 DEF Binds
  <2>2. v'[p] = Append(v[p], n) /\ v[p] \in Seq(Int) /\ n \in Int
    BY <2>1, BindingAssumption DEF TypeInv, BindingTypeOK, Fds, SD_LISTEN_FDS_START
  <2>3. CASE k = At(p)
    BY <1>2, <2>1, <2>2, <2>3 DEF At, TypeInv, BindingTypeOK
  <2>4. CASE k # At(p)
    <3>1. k <= Len(v[p]) /\ v'[p][k] = v[p][k]
      BY <1>0, <1>2, <2>2, <2>4 DEF At
    <3>2. v[p][k] \in Fds /\ fds[p][v[p][k]] = Own(k)
      BY <1>2, <3>1 DEF OwnedInv, Binds, Good
    <3>3. v[p][k] # n
      BY <2>1, <3>2, Distinction
    <3>. QED
      BY <1>2, <2>1, <3>1, <3>2, <3>3 DEF TypeInv, BindingTypeOK
  <2>. QED
    BY <2>3, <2>4
<1>3. CASE i = p /\ Adopts(p)
  <2>1. PICK n \in Int : v' = [v EXCEPT ![p] = Append(@, n)]
    BY <1>3 DEF Adopts
  <2>2. v'[p] = Append(v[p], n) /\ v[p] \in Seq(Int)
    BY <2>1 DEF TypeInv, BindingTypeOK
  <2>3. k # At(p)
    BY <1>3 DEF Adopts, Named
  <2>4. k <= Len(v[p]) /\ v'[p][k] = v[p][k]
    BY <1>0, <1>3, <2>2, <2>3 DEF At
  <2>. QED
    BY <1>3, <2>4 DEF OwnedInv, Adopts, Good
<1>4. CASE i = p /\ Moves(p)
  <2>1. v[p] # <<>>
    BY <1>0, <1>4 DEF Moves
  <2>2. v[p][k] \in Fds /\ fds[p][v[p][k]] = Own(k)
    BY <1>4, <2>1 DEF OwnedInv, Moves
  <2>. QED
    BY <1>4, <2>2, Distinction DEF Moves
<1>5. CASE i = p /\ Begins(p)
  BY <1>0, <1>5 DEF Begins
<1>6. CASE i = p /\ Gives_up(p)
  BY <1>6 DEF Gives_up
<1>. QED
  BY <1>1, <1>2, <1>3, <1>4, <1>5, <1>6, Shapes

LEMMA ExclusiveStep ==
    ASSUME TypeInv, ExclusiveInv, NEW p \in Instances, InstanceStep(p)
    PROVE  ExclusiveInv'
<1>. SUFFICES ASSUME NEW k \in DOMAIN addrs, IsLock(k),
                     NEW i \in Instances, NEW j \in Instances, Live(i, k)', Live(j, k)'
              PROVE  i = j
  BY OnlyActor DEF ExclusiveInv, IsLock
\* A process other than the actor keeps what it has.
<1>1. \A q \in Instances : (q # p /\ Live(q, k)') => Live(q, k)
  BY OnlyActor DEF Live
\* The actor gets the lock only if nobody has it.
<1>2. Live(p, k)' => Live(p, k) \/ \A q \in Instances : ~Live(q, k)
  <2>. SUFFICES ASSUME Live(p, k)', ~Live(p, k) PROVE \A q \in Instances : ~Live(q, k)
    OBVIOUS
  <2>1. PICK n \in Fds : fds'[p][n] = Own(k) /\ fds[p][n] # Own(k)
    BY DEF Live
  <2>2. ~Gives_up(p) /\ ~Adopts(p) /\ ~Moves(p) /\ ~Begins(p)
    BY <2>1, Distinction DEF Gives_up, Adopts, Moves, Begins
  <2>3. Binds(p)
    BY <2>2, Shapes
  <2>4. k = At(p)
    BY <2>1, <2>3, Distinction DEF Binds, TypeInv, BindingTypeOK
  <2>. QED
    BY <2>3, <2>4 DEF Binds, Available, IsLock
<1>. QED
  BY <1>1, <1>2 DEF ExclusiveInv

\* Whoever is past the lock is alone there.
LEMMA Alone ==
    ASSUME TypeInv, OwnedInv, ExclusiveInv, NEW k, IsLock(k),
           NEW i \in Instances, pc[i] \in Good, k <= Len(v[i]),
           NEW j \in Instances, pc[j] \in Good, k <= Len(v[j])
    PROVE  i = j
<1>1. Live(i, k) /\ Live(j, k)
  BY DEF OwnedInv, IsLock, Live
<1>. QED
  BY <1>1 DEF ExclusiveInv, IsLock

\* Files are removed and made only by who is past the lock.
LEMMA FileChange ==
    ASSUME TypeInv, NEW p \in Instances, InstanceStep(p), NEW l, IsLock(l), file' # file
    PROVE  pc[p] \in Good /\ l <= Len(v[p])
<1>1. PathUnlink(p) \/ PathBind(p) \/ (KernelRefuses(p) /\ pc[p] = "unlinked")
  BY DEF InstanceStep, BindStep, listen_named, BacklogRefused, PathTool, EnvRefuses, AdoptFd, RejectFd, BindInetd,
         BindUnusable, BindDone, DropNext, Start, Retry, Exit, Crash, Ends, KernelRefuses, UnlinkRefused, OtherOpens
<1>2. pc[p] \in Good /\ At(p) \in DOMAIN addrs /\ addrs[At(p)].kind = "path"
  BY <1>1 DEF PathUnlink, PathBind, Binding, Good, TypeInv, PlaceOK
<1>3. l < At(p) /\ l \in Nat /\ Len(v[p]) \in Nat
  BY <1>2 DEF IsLock, TypeInv, BindingTypeOK
<1>. QED
  BY <1>2, <1>3 DEF At

LEMMA FileStep ==
    ASSUME LockInv, NEW p \in Instances, InstanceStep(p)
    PROVE  FileInv'
<1>. SUFFICES ASSUME Locked,
                     NEW i \in Instances, NEW k \in DOMAIN addrs, addrs[k].kind = "path",
                     pc'[i] \in Good, k <= Len(v'[i]),
                     pc'[i] = "unlinked" => addrs[At(i)'].name # addrs[k].name
              PROVE  LeadsTo(i, addrs[k].name)'
  BY OnlyActor DEF FileInv, LockInv, Locked, IsLock
<1>. USE DEF LockInv, TypeInv
<1>a. PICK l \in DOMAIN addrs : IsLock(l)
  BY DEF Locked, IsLock
<1>0. IsLock(l) /\ l < k /\ l \in Nat
  BY <1>a DEF IsLock, BindingTypeOK
<1>1. /\ k \in Nat /\ k >= 1 /\ Len(v[p]) \in Nat /\ addrs[k].name \in Paths
      /\ pc \in [Instances -> {"down", "binding", "backlog", "unlinked", "chmod", "chown", "failing", "failed", "up"}]
      /\ v[p] \in Seq(Int)
  <2>1. k \in Nat /\ addrs[k].name \in Paths
    BY AddressOK
  <2>4. k >= 1
    BY DEF BindingTypeOK
  <2>2. v[p] \in Seq(Int)
    BY DEF BindingTypeOK
  <2>3. pc \in [Instances -> {"down", "binding", "backlog", "unlinked", "chmod", "chown", "failing", "failed", "up"}]
    BY DEF BindingTypeOK
  <2>. QED
    BY <2>1, <2>2, <2>3, <2>4
<1>. DEFINE Before == /\ pc[i] \in Good /\ k <= Len(v[i])
                      /\ pc[i] = "unlinked" => addrs[At(i)].name # addrs[k].name
<1>2. Before => LeadsTo(i, addrs[k].name)
  BY DEF FileInv
<1>3. CASE i # p
  <2>1. Before
    BY <1>3, OnlyActor DEF At
  <2>2. l <= Len(v[i])
    BY <1>0, <1>1, <2>1 DEF BindingTypeOK
  <2>3. file' = file
    BY <1>0, <1>3, <2>1, <2>2, FileChange, Alone
  <2>. QED
    BY <1>2, <2>1, <2>3, OnlyActor DEF LeadsTo
<1>4. CASE i = p /\ PathUnlink(p)
  <2>1. Before /\ addrs[At(p)].name # addrs[k].name
    BY <1>1, <1>4 DEF PathUnlink, Binding, Goes, Good, At
  <2>2. file'[addrs[k].name] = file[addrs[k].name]
    BY <1>1, <1>4, <2>1 DEF PathUnlink, BindingTypeOK
  <2>. QED
    BY <1>2, <1>4, <2>1, <2>2, OnlyActor DEF LeadsTo
<1>5. CASE i = p /\ PathBind(p)
  <2>1. file[addrs[At(p)].name] = NoFile
    BY <1>1, <1>5 DEF PathBind, Goes, Good
  <2>2. file' = [file EXCEPT ![addrs[At(p)].name] = <<p, At(p)>>]
    BY <1>5, <2>1 DEF PathBind
  <2>3. At(p) \in DOMAIN addrs /\ Opens(p)
    BY <1>5, <2>1 DEF PathBind, PlaceOK
  <2>4. PICK n \in Fds : v'[p] = Append(v[p], n)
    BY <2>3, OpensGrows
  <2>5. CASE addrs[k].name = addrs[At(p)].name
    BY <1>1, <1>5, <2>2, <2>5, OnlyActor DEF LeadsTo, NoFile, BindingTypeOK
  <2>6. CASE addrs[k].name # addrs[At(p)].name
    <3>1. k <= Len(v[p])
      BY <1>1, <1>5, <2>4, <2>6 DEF At
    <3>2. Before
      BY <1>5, <2>6, <3>1 DEF PathBind, Good
    <3>. QED
      BY <1>1, <1>2, <1>5, <2>2, <2>6, <3>2, OnlyActor DEF LeadsTo, BindingTypeOK
  <2>. QED
    BY <2>5, <2>6
<1>6. CASE i = p /\ OtherOpens(p)
  BY <1>2, <1>6 DEF OtherOpens, At, LeadsTo
<1>7. CASE i = p /\ KernelRefuses(p)
  BY <1>1, <1>7 DEF KernelRefuses, UnlinkRefused, DropsLast, Goes, Good
<1>8. CASE i = p /\ InstanceStep(p) /\ ~PathUnlink(p) /\ ~PathBind(p) /\ ~OtherOpens(p) /\ ~KernelRefuses(p)
  <2>1. pc[p] # "unlinked" /\ file' = file
    <3>1. CASE BindStep(p)
      BY <1>8, <3>1 DEF BindStep, listen_named, BacklogRefused, PathTool, EnvRefuses, AdoptFd, RejectFd, BindInetd,
                        BindUnusable, BindDone, DropNext, Binding, Tools
    <3>2. CASE Exit(p) \/ Crash(p)
      BY <1>1, <1>8, <3>2 DEF Exit, Crash, Ends, Goes, Good
    <3>. QED
      BY <1>8, <3>1, <3>2 DEF InstanceStep, Start, Retry
  <2>2. pc[p] \in Good /\ k <= Len(v[p])
    <3>1. CASE Binds(p)
      <4>1. k # At(p)
        BY <2>1, <3>1 DEF Binds, Named
      <4>. QED
        BY <1>1, <1>8, <3>1, <4>1 DEF Binds, Good, At
    <3>2. CASE Adopts(p)
      <4>1. k # At(p)
        BY <3>2 DEF Adopts
      <4>. QED
        BY <1>1, <1>8, <3>2, <4>1 DEF Adopts, Good, At, BindingTypeOK
    <3>3. CASE Moves(p)
      BY <1>1, <1>8, <3>3 DEF Moves
    <3>4. CASE Begins(p)
      BY <1>1, <1>8, <3>4 DEF Begins
    <3>. QED
      BY <1>8, <3>1, <3>2, <3>3, <3>4, Shapes DEF Gives_up
  <2>. QED
    BY <1>2, <1>8, <2>1, <2>2, OnlyActor DEF LeadsTo
<1>. QED
  BY <1>3, <1>4, <1>5, <1>6, <1>7, <1>8

LEMMA LockInit == Init => LockInv
<1>. SUFFICES ASSUME Init PROVE LockInv
  OBVIOUS
<1>1. TypeInv
  BY TypeInit
<1>. QED
  BY <1>1, Distinction DEF Init, LockInv, OwnedInv, ExclusiveInv, FileInv, Live, Good

LEMMA LockNext == LockInv /\ [Next]_vars => LockInv'
<1>. SUFFICES ASSUME LockInv, [Next]_vars PROVE LockInv'
  OBVIOUS
<1>1. TypeInv'
  BY TypeStep DEF LockInv
<1>2. CASE UNCHANGED bindVars
  BY <1>1, <1>2 DEF bindVars, LockInv, OwnedInv, ExclusiveInv, FileInv, Live, IsLock, Locked, LeadsTo, At
<1>3. ASSUME NEW p \in Instances, InstanceStep(p) PROVE LockInv'
  BY <1>1, <1>3, OwnedStep, ExclusiveStep, FileStep DEF LockInv
<1>. QED
  BY <1>2, <1>3 DEF Next, TimeWaitOver, vars

(***************************************************************************)
(* A service that binds a name first keeps its paths, however many         *)
(* processes of it are started, crash and are restarted.                   *)
(***************************************************************************)
THEOREM LockIsEnough == Spec => []LockKeepsPaths
<1>1. LockInv => LockKeepsPaths
  <2>. SUFFICES ASSUME LockInv, Locked, NEW i \in Instances, pc[i] = "up",
                       NEW k \in DOMAIN addrs, addrs[k].kind = "path"
                PROVE  LeadsTo(i, addrs[k].name)
    BY DEF LockKeepsPaths, LeadsTo
  <2>1. k <= Len(v[i])
    BY DEF LockInv, TypeInv, PlaceOK
  <2>. QED
    BY <2>1 DEF LockInv, FileInv, Good
<1>. QED
  BY LockInit, LockNext, <1>1, PTL DEF Spec

-----------------------------------------------------------------------------
(***************************************************************************)
(* The refinement: each step maps to one of GuardedPaths, or to none.      *)
(***************************************************************************)
LEMMA TheLock == Locked => IsLock(Lock)
BY DEF Locked, Lock, IsLock

LEMMA LockStays ==
    ASSUME addrs' = addrs, opts' = opts
    PROVE  Lock' = Lock /\ PathNames' = PathNames /\ (Locked' <=> Locked)
<1>1. \A k : IsLock(k)' <=> IsLock(k)
  BY DEF IsLock
<1>2. Locked' <=> Locked
  BY <1>1 DEF Locked
<1>3. Lock' = Lock
  BY <1>1 DEF Lock
<1>4. PathNames' = PathNames
  BY <1>2 DEF PathNames
<1>. QED
  BY <1>2, <1>3, <1>4

\* One instance holds the lock or none does; who is up does, and has the files.
HolderFacts == Locked =>
    /\ \A i, j \in Instances : Live(i, Lock) /\ Live(j, Lock) => i = j
    /\ \A i \in Instances : (pc[i] \in Good /\ Lock <= Len(v[i])) => Live(i, Lock)
    /\ \A i \in Instances : pc[i] = "up" =>
            Live(i, Lock) /\ \A n \in PathNames : LeadsTo(i, n)

LEMMA HolderIsOne == LockInv => HolderFacts
<1>. SUFFICES ASSUME LockInv, Locked PROVE HolderFacts
  BY DEF HolderFacts
<1>1. IsLock(Lock) /\ Lock \in DOMAIN addrs
  BY TheLock DEF IsLock
<1>2. \A i, j \in Instances : Live(i, Lock) /\ Live(j, Lock) => i = j
  BY <1>1 DEF LockInv, ExclusiveInv
<1>3. ASSUME NEW i \in Instances, pc[i] \in Good, Lock <= Len(v[i])
      PROVE  Live(i, Lock)
  BY <1>1, <1>3 DEF LockInv, OwnedInv, IsLock, Live
<1>4. ASSUME NEW i \in Instances, pc[i] = "up"
      PROVE  Live(i, Lock)
  BY <1>1, <1>3, <1>4 DEF LockInv, TypeInv, PlaceOK, Good
<1>5. ASSUME NEW i \in Instances, pc[i] = "up", NEW n \in PathNames
      PROVE  LeadsTo(i, n)
  <2>1. PICK k \in DOMAIN addrs : addrs[k].kind = "path" /\ addrs[k].name = n
    BY DEF PathNames
  <2>2. k <= Len(v[i])
    BY <1>5 DEF LockInv, TypeInv, PlaceOK
  <2>. QED
    BY <1>5, <2>1, <2>2 DEF LockInv, FileInv, Good
<1>. QED
  BY <1>2, <1>3, <1>4, <1>5 DEF HolderFacts

\* The file at a path of the service is removed or made, by whoever holds the lock.
LEMMA FileTouched ==
    ASSUME LockInv, Locked, NEW p \in Instances, InstanceStep(p), file' # file
    PROVE  /\ Live(p, Lock) /\ pc[p] # "up" /\ pc'[p] # "up"
           /\ \E n \in PathNames :
                  \/ file' = [file EXCEPT ![n] = NoFile]
                  \/ file[n] = NoFile /\ file' = [file EXCEPT ![n] = <<p, At(p)>>]
           /\ \A n \in Fds : fds[p][n] # Free => fds'[p][n] = fds[p][n]
<1>. USE DEF LockInv, TypeInv
<1>0. pc \in [Instances -> {"down", "binding", "backlog", "unlinked", "chmod", "chown", "failing", "failed", "up"}]
  BY DEF BindingTypeOK
<1>1. IsLock(Lock)
  BY TheLock
<1>2. Live(p, Lock)
  BY <1>1, FileChange, HolderIsOne DEF HolderFacts
<1>3. PathUnlink(p) \/ PathBind(p) \/ (KernelRefuses(p) /\ pc[p] = "unlinked")
  BY DEF InstanceStep, BindStep, listen_named, BacklogRefused, PathTool, EnvRefuses, AdoptFd, RejectFd, BindInetd,
         BindUnusable, BindDone, DropNext, Start, Retry, Exit, Crash, Ends, KernelRefuses, UnlinkRefused, OtherOpens
<1>4. At(p) \in DOMAIN addrs /\ addrs[At(p)].kind = "path"
  BY <1>3 DEF PathUnlink, Binding, PathBind, PlaceOK
<1>5. addrs[At(p)].name \in PathNames
  BY <1>4 DEF PathNames
<1>. DEFINE n == addrs[At(p)].name
<1>6. CASE PathUnlink(p)
  <2>1. file' = [file EXCEPT ![n] = NoFile] /\ fds' = fds /\ pc[p] = "binding" /\ pc'[p] = "unlinked"
    BY <1>0, <1>6 DEF PathUnlink, Binding, Goes
  <2>. QED
    BY <1>2, <1>5, <2>1
<1>7. CASE PathBind(p)
  <2>1. /\ file[n] = NoFile /\ file' = [file EXCEPT ![n] = <<p, At(p)>>] /\ Opens(p)
        /\ pc[p] = "unlinked" /\ pc'[p] = "chmod"
    BY <1>0, <1>7 DEF PathBind, Goes
  <2>2. \A m \in Fds : fds[p][m] # Free => fds'[p][m] = fds[p][m]
    BY <1>4, <2>1, OpensType DEF BindingTypeOK
  <2>. QED
    BY <1>2, <1>5, <2>1, <2>2
<1>8. CASE KernelRefuses(p) /\ pc[p] = "unlinked"
  <2>1. /\ file[n] = NoFile /\ file' = [file EXCEPT ![n] = <<p, At(p)>>] /\ fds' = fds
        /\ pc'[p] = "failing"
    BY <1>0, <1>8 DEF KernelRefuses, UnlinkRefused, Goes, Binding, DropsLast
  <2>. QED
    BY <1>2, <1>5, <1>8, <2>1
<1>. QED
  BY <1>3, <1>6, <1>7, <1>8

\* An instance gets up as the last step of a bind, and stays up until it ends.
LEMMA UpChanges ==
    ASSUME TypeInv, NEW p \in Instances, InstanceStep(p), (pc[p] = "up") # (pc'[p] = "up")
    PROVE  \/ pc'[p] = "up" /\ UNCHANGED fds
           \/ pc[p] = "up" /\ \A n \in Fds : fds'[p][n] = Free
<1>. USE DEF TypeInv
<1>0. pc \in [Instances -> {"down", "binding", "backlog", "unlinked", "chmod", "chown", "failing", "failed", "up"}]
  BY DEF BindingTypeOK
<1>1. CASE pc'[p] = "up" /\ pc[p] # "up"
  <2>1. BindDone(p)
    BY <1>0, <1>1 DEF InstanceStep, BindStep, listen_named, BacklogRefused, PathUnlink, PathBind, PathTool, EnvRefuses,
       AdoptFd, RejectFd, BindInetd, BindUnusable, DropNext, Start, Retry, Exit, Crash, Ends,
       KernelRefuses, UnlinkRefused, OtherOpens, DropsLast, After, Goes
  <2>. QED
    BY <1>1, <2>1 DEF BindDone
<1>2. CASE pc[p] = "up" /\ pc'[p] # "up"
  <2>1. Crash(p)
    BY <1>0, <1>2 DEF InstanceStep, BindStep, listen_named, BacklogRefused, PathUnlink, PathBind, PathTool, EnvRefuses,
       AdoptFd, RejectFd, BindInetd, BindUnusable, BindDone, DropNext, Start, Retry, Exit,
       KernelRefuses, UnlinkRefused, OtherOpens, Binding, Tools, BindingTypeOK
  <2>. QED
    BY <1>2, <2>1 DEF Crash, Ends, BindingTypeOK
<1>. QED
  BY <1>1, <1>2

\* A service with no lock does nothing that the mapping shows.
LEMMA GuardIdle ==
    ASSUME addrs' = addrs, opts' = opts, ~Locked
    PROVE  UNCHANGED <<Holder, Up, Leads>>
<1>1. ~Locked' /\ PathNames' = PathNames
  BY LockStays
<1>2. PathNames = {}
  BY DEF PathNames
<1>. QED
  BY <1>1, <1>2 DEF Holder, Up, Leads

LEMMA GuardStep ==
    ASSUME LockInv, HolderFacts, HolderFacts', NEW p \in Instances, InstanceStep(p)
    PROVE  [Guard!Next]_(Guard!vars)
<1>1. /\ addrs' = addrs /\ opts' = opts
      /\ Lock' = Lock /\ PathNames' = PathNames /\ (Locked' <=> Locked)
  BY OnlyActor, LockStays DEF LockInv
<1>2. CASE ~Locked
  BY <1>1, <1>2, GuardIdle DEF Guard!vars
<1>3. CASE Locked
  <2>. USE <1>3
  <2>1. /\ Holder = {i \in Instances : Live(i, Lock)}
        /\ Holder' = {i \in Instances : Live(i, Lock)'}
        /\ Up = {i \in Instances : pc[i] = "up"}
        /\ Up' = {i \in Instances : pc'[i] = "up"}
    BY <1>1 DEF Holder, Up
  <2>2. \A i \in Instances : i # p => (Live(i, Lock)' <=> Live(i, Lock)) /\ pc'[i] = pc[i]
    BY <1>1, OnlyActor DEF LockInv, Live
  <2>3. /\ \A i, j \in Instances : Live(i, Lock) /\ Live(j, Lock) => i = j
        /\ \A i \in Instances : pc[i] = "up" => Live(i, Lock)
    BY DEF HolderFacts
  <2>4. /\ \A i, j \in Instances : Live(i, Lock)' /\ Live(j, Lock)' => i = j
        /\ \A i \in Instances : pc'[i] = "up" => Live(i, Lock)'
        /\ \A i \in Instances : pc'[i] = "up" => \A n \in PathNames : LeadsTo(i, n)'
    BY <1>1 DEF HolderFacts
  <2>5. CASE file' # file
    <3>1. /\ Live(p, Lock) /\ pc[p] # "up" /\ pc'[p] # "up"
          /\ \A n \in Fds : fds[p][n] # Free => fds'[p][n] = fds[p][n]
      BY <2>5, FileTouched
    <3>2. Live(p, Lock)'
      BY <1>1, <3>1, Distinction DEF Live
    <3>3. Holder = {p} /\ Holder' = {p} /\ Up = {} /\ Up' = {}
      BY <2>1, <2>2, <2>3, <3>1, <3>2
    <3>4. PICK n \in PathNames : \/ file' = [file EXCEPT ![n] = NoFile]
                                \/ /\ file[n] = NoFile
                                   /\ file' = [file EXCEPT ![n] = <<p, At(p)>>]
      BY <2>5, FileTouched
    <3>5. PathNames \subseteq Paths /\ DOMAIN file = Paths
      BY AddressOK DEF PathNames, LockInv, TypeInv, BindingTypeOK
    <3>6. CASE file' = [file EXCEPT ![n] = NoFile]
      <4>1. Leads' = [Leads EXCEPT ![n] = {}] /\ n \in DOMAIN Leads
        BY <1>1, <3>4, <3>5, <3>6 DEF Leads
      <4>. QED
        BY <3>3, <4>1 DEF Guard!Next, Guard!Unlink
    <3>7. CASE file[n] = NoFile /\ file' = [file EXCEPT ![n] = <<p, At(p)>>]
      <4>1. Leads' = [Leads EXCEPT ![n] = {p}] /\ n \in DOMAIN Leads /\ Leads[n] = {}
        BY <1>1, <3>4, <3>5, <3>7 DEF Leads, NoFile
      <4>. QED
        BY <3>3, <4>1 DEF Guard!Next, Guard!Make
    <3>. QED
      BY <3>4, <3>6, <3>7
  <2>6. CASE file' = file
    <3>1. Leads' = Leads
      BY <1>1, <2>6 DEF Leads
    <3>2. CASE Live(p, Lock) /\ ~Live(p, Lock)'
      <4>1. Holder = {p} /\ Holder' = {} /\ Up' = {}
        BY <2>1, <2>2, <2>3, <2>4, <3>2
      <4>. QED
        BY <3>1, <4>1 DEF Guard!Next, Guard!Release
    <3>3. CASE ~Live(p, Lock) /\ Live(p, Lock)'
      <4>1. Holder = {} /\ Holder' = {p} /\ Up = {}
        BY <2>1, <2>2, <2>3, <2>4, <3>3
      <4>2. pc[p] # "up" /\ pc'[p] # "up"
        <5>1. fds' # fds
          BY <1>1, <3>3 DEF Live
        <5>. QED
          BY <2>3, <3>3, <5>1, UpChanges DEF LockInv
      <4>3. Up' = {}
        BY <2>1, <2>2, <4>1, <4>2
      <4>. QED
        BY <3>1, <4>1, <4>3 DEF Guard!Next, Guard!Acquire
    <3>4. CASE Live(p, Lock) <=> Live(p, Lock)'
      <4>1. Holder' = Holder
        BY <2>1, <2>2, <3>4
      <4>2. CASE pc[p] = "up" <=> pc'[p] = "up"
        <5>1. Up' = Up
          BY <2>1, <2>2, <4>2
        <5>. QED
          BY <3>1, <4>1, <5>1 DEF Guard!vars
      <4>3. CASE ~(pc[p] = "up" <=> pc'[p] = "up")
        <5>1. pc[p] # "up" /\ pc'[p] = "up"
          <6>. SUFFICES ASSUME pc[p] = "up", pc'[p] # "up" PROVE FALSE
            BY <4>3
          <6>1. \A n \in Fds : fds'[p][n] = Free
            BY UpChanges DEF LockInv
          <6>2. ~Live(p, Lock)'
            BY <6>1, Distinction DEF Live
          <6>. QED
            BY <2>3, <3>4, <6>2
        <5>2. Holder = {p} /\ Up = {} /\ Up' = {p}
          BY <2>1, <2>2, <2>3, <2>4, <3>4, <5>1
        <5>3. \A n \in DOMAIN Leads : Leads[n] = {p}
          BY <1>1, <2>4, <2>6, <5>1 DEF Leads, LeadsTo
        <5>. QED
          BY <3>1, <4>1, <5>2, <5>3 DEF Guard!Next, Guard!Serve
      <4>. QED
        BY <4>2, <4>3
    <3>. QED
      BY <3>2, <3>3, <3>4
  <2>. QED
    BY <2>5, <2>6
<1>. QED
  BY <1>2, <1>3

(***************************************************************************)
(* However many processes of a service with a lock are started, crash and  *)
(* are restarted: what they do to its files is what one of them at a time  *)
(* does while it holds the lock, and only while none is up.                *)
(***************************************************************************)
THEOREM GuardsItsPaths == Spec => KeepsPathsGuarded
<1>1. Init => LockInv /\ Guard!Init
  <2>. SUFFICES ASSUME Init PROVE Guard!Init
    BY LockInit
  <2>1. \A i \in Instances, k \in Int : ~Live(i, k)
    BY Distinction DEF Init, Live
  <2>2. Locked => Lock \in Int
    BY TheLock, TypeInit DEF IsLock, TypeInv, BindingTypeOK
  <2>3. Holder = {} /\ Up = {}
    BY <2>1, <2>2 DEF Holder, Up, Init
  <2>4. PathNames \subseteq Paths
    BY AddressOK, TypeInit DEF PathNames, TypeInv
  <2>5. \A n \in DOMAIN Leads : Leads[n] = {}
    BY <2>4 DEF Leads, Init
  <2>. QED
    BY <2>3, <2>5 DEF Guard!Init
<1>2. LockInv /\ HolderFacts /\ HolderFacts' /\ [Next]_vars => [Guard!Next]_(Guard!vars)
  <2>. SUFFICES ASSUME LockInv, HolderFacts, HolderFacts', [Next]_vars
                PROVE  [Guard!Next]_(Guard!vars)
    OBVIOUS
  <2>1. CASE UNCHANGED bindVars
    <3>1. /\ addrs' = addrs /\ opts' = opts /\ pc' = pc /\ fds' = fds /\ file' = file
      BY <2>1 DEF bindVars
    <3>2. Lock' = Lock /\ PathNames' = PathNames /\ (Locked' <=> Locked)
      BY <3>1, LockStays
    <3>. QED
      BY <3>1, <3>2 DEF Guard!vars, Holder, Up, Leads, Live
  <2>2. ASSUME NEW p \in Instances, InstanceStep(p) PROVE [Guard!Next]_(Guard!vars)
    BY <2>2, GuardStep
  <2>. QED
    BY <2>1, <2>2 DEF Next, TimeWaitOver, vars
<1>. QED
  BY <1>1, <1>2, LockNext, HolderIsOne, PTL DEF Spec, KeepsPathsGuarded, Guard!Spec

-----------------------------------------------------------------------------
(***************************************************************************)
(* The race for one path.  Whoever removed the file last leaves it to the  *)
(* first that binds after it, and nobody takes that file away again.       *)
(***************************************************************************)
\* A process that has yet to remove the file, if it does.
Ahead(i) == pc[i] = "down" \/ (pc[i] = "binding" /\ v[i] = <<>>)

\* A process that has the path and cannot fail any more while it has it.
Holds(i) == /\ file[addrs[1].name] = <<i, 1>>
            /\ pc[i] \in {"chmod", "chown", "up"} \/ (pc[i] = "binding" /\ v[i] # <<>>)

RaceInv == OnePath =>
    /\ \/ \E i \in Instances : Ahead(i) \/ Holds(i)
       \/ file[addrs[1].name] = NoFile /\ \E i \in Instances : pc[i] = "unlinked"
    /\ opts.unlink \/ file[addrs[1].name] = NoFile \/ \E i \in Instances : Holds(i)

LEMMA RaceStep ==
    ASSUME TypeInv, RaceInv, NEW p \in Instances, InstanceStep(p)
    PROVE  RaceInv'
<1>. SUFFICES ASSUME OnePath' PROVE RaceInv'
  BY DEF RaceInv
<1>. USE DEF TypeInv
<1>. DEFINE name == addrs[1].name
<1>1. addrs' = addrs /\ opts' = opts
  BY OnlyActor
<1>2. Len(addrs) = 1 /\ addrs[1].kind = "path" /\ troubles' = 0 /\ 1 \in DOMAIN addrs
  BY <1>1 DEF OnePath, BindingTypeOK
<1>3. ~Crash(p) /\ ~KernelRefuses(p)
  BY <1>2 DEF Crash, KernelRefuses, UnlinkRefused, Trouble, BindingTypeOK
<1>4. OnePath
  BY <1>1, <1>2, <1>3 DEF OnePath, InstanceStep, BindStep, listen_named, BacklogRefused, PathUnlink, PathBind, PathTool,
     EnvRefuses, AdoptFd, RejectFd, BindInetd, BindUnusable, BindDone, DropNext, Start, Retry, Exit, Ends, OtherOpens
<1>5. /\ pc \in [Instances -> {"down", "binding", "backlog", "unlinked", "chmod", "chown", "failing", "failed", "up"}]
      /\ name \in Paths
      /\ \A i \in Instances : v[i] \in Seq(Int) /\ Len(v[i]) \in Nat
      /\ \A k \in DOMAIN addrs : k = 1
  BY <1>2, AddressOK DEF BindingTypeOK
<1>6. \A i \in Instances : At(i) \in DOMAIN addrs <=> v[i] = <<>>
  BY <1>2, <1>5 DEF At
\* A process that holds the path goes on holding it until another step removes it.
<1>7. ASSUME NEW i \in Instances, Holds(i), i # p, file'[name] = file[name]
      PROVE  Holds(i)'
  BY <1>1, <1>7, OnlyActor DEF Holds
<1>8. ASSUME NEW i \in Instances, Ahead(i), i # p
      PROVE  Ahead(i)'
  BY <1>8, OnlyActor DEF Ahead
<1>9. CASE PathUnlink(p)
  <2>1. pc'[p] = "unlinked" /\ v[p] = <<>> /\ addrs[At(p)].name = name
    BY <1>5, <1>6, <1>9 DEF PathUnlink, Binding, Goes, At
  <2>2. CASE opts.unlink
    <3>1. file'[name] = NoFile
      BY <1>5, <1>9, <2>1, <2>2 DEF PathUnlink, BindingTypeOK
    <3>. QED
      BY <1>1, <2>1, <2>2, <3>1 DEF RaceInv
  <2>3. CASE ~opts.unlink
    <3>1. file' = file
      BY <1>9, <2>3 DEF PathUnlink
    <3>2. ~Holds(p)
      BY <1>9, <2>1 DEF Holds, PathUnlink, Binding
    <3>3. file[name] = NoFile \/ \E i \in Instances : Holds(i)'
      BY <1>4, <1>7, <2>3, <3>1, <3>2 DEF RaceInv
    <3>. QED
      BY <1>1, <2>1, <2>3, <3>1, <3>3 DEF RaceInv
  <2>. QED
    BY <2>2, <2>3
<1>10. CASE PathBind(p)
  <2>1. At(p) = 1 /\ addrs[At(p)].name = name
    BY <1>5, <1>10 DEF PathBind, PlaceOK
  <2>2. CASE file[name] = NoFile
    <3>1. Holds(p)'
      BY <1>1, <1>5, <1>10, <2>1, <2>2 DEF Holds, PathBind, Goes, BindingTypeOK
    <3>. QED
      BY <3>1 DEF RaceInv
  <2>3. CASE file[name] # NoFile
    <3>1. file' = file /\ ~Holds(p) /\ ~Ahead(p)
      BY <1>10, <2>1, <2>3 DEF PathBind, Holds, Ahead
    <3>. QED
      BY <1>1, <1>4, <1>7, <1>8, <2>3, <3>1 DEF RaceInv
  <2>. QED
    BY <2>2, <2>3
<1>11. CASE Start(p) \/ Retry(p) \/ Exit(p)
  <2>1. Ahead(p)' /\ file' = file /\ ~Holds(p)
    BY <1>5, <1>11 DEF Start, Retry, Exit, Ends, Goes, Ahead, Holds, PlaceOK
  <2>. QED
    BY <1>1, <1>4, <1>7, <2>1 DEF RaceInv
<1>12. CASE \E tool \in Tools : PathTool(p, tool)
  <2>1. PICK tool \in Tools : PathTool(p, tool)
    BY <1>12
  <2>2. addrs[Len(v[p])].name = name /\ v[p] # <<>> /\ pc[p] = tool
    BY <1>5, <2>1 DEF PathTool, PlaceOK, Tools
  <2>3. Holds(p) => Holds(p)'
    BY <1>1, <1>5, <2>1, <2>2 DEF Holds, PathTool, NoFile, Goes, After
  <2>4. file' = file /\ ~Ahead(p) /\ pc[p] # "unlinked"
    BY <2>1, <2>2 DEF PathTool, Ahead, Tools
  <2>. QED
    BY <1>1, <1>4, <1>7, <1>8, <2>3, <2>4, OnlyActor DEF RaceInv
<1>13. CASE BindDone(p)
  <2>1. file' = file /\ v[p] # <<>> /\ pc[p] = "binding" /\ pc'[p] = "up"
    <3>1. file' = file /\ pc[p] = "binding" /\ At(p) \notin DOMAIN addrs
      BY <1>13 DEF BindDone
    <3>2. v[p] # <<>> /\ addrs # <<>>
      BY <1>2, <1>6, <3>1
    <3>. QED
      BY <1>5, <1>13, <3>1, <3>2 DEF BindDone, Goes
  <2>2. (Holds(p) => Holds(p)') /\ ~Ahead(p)
    BY <1>1, <2>1 DEF Holds, Ahead
  <2>. QED
    BY <1>1, <1>4, <1>7, <1>8, <2>1, <2>2, OnlyActor DEF RaceInv
<1>14. CASE DropNext(p)
  <2>1. ~Holds(p) /\ file' = file /\ ~Ahead(p) /\ pc[p] # "unlinked"
    BY <1>14 DEF Holds, DropNext, Ahead
  <2>. QED
    BY <1>1, <1>4, <1>7, <1>8, <2>1, OnlyActor DEF RaceInv
<1>15. CASE OtherOpens(p)
  BY <1>1, <1>4, <1>15 DEF RaceInv, OtherOpens, Holds, Ahead
<1>16. ~ (listen_named(p) \/ BacklogRefused(p) \/ EnvRefuses(p) \/ AdoptFd(p) \/ RejectFd(p) \/ BindInetd(p) \/ BindUnusable(p))
  BY <1>2, <1>5 DEF listen_named, BacklogRefused, EnvRefuses, AdoptFd, RejectFd, BindInetd, BindUnusable, Binding,
                    Named, PlaceOK, BadBacklog, Ports
<1>. QED
  BY <1>3, <1>9, <1>10, <1>11, <1>12, <1>13, <1>14, <1>15, <1>16 DEF InstanceStep, BindStep

(***************************************************************************)
(* However many processes race for one path, with or without unlinking,    *)
(* when all have finished one of them is up and the path leads to it.      *)
(***************************************************************************)
THEOREM RaceHasWinner == Spec => []SomeoneWins
<1>1. Init => TypeInv /\ RaceInv
  <2>. SUFFICES ASSUME Init PROVE RaceInv
    BY TypeInit
  <2>. QED
    BY BindingAssumption, TypeInit, AddressOK DEF Init, RaceInv, Ahead, OnePath, TypeInv, BindingTypeOK
<1>2. TypeInv /\ RaceInv /\ [Next]_vars => (TypeInv /\ RaceInv)'
  <2>. SUFFICES ASSUME TypeInv, RaceInv, [Next]_vars PROVE RaceInv'
    BY TypeStep
  <2>1. CASE UNCHANGED bindVars
    BY <2>1 DEF bindVars, RaceInv, OnePath, Ahead, Holds
  <2>2. ASSUME NEW p \in Instances, InstanceStep(p) PROVE RaceInv'
    BY <2>2, RaceStep
  <2>. QED
    BY <2>1, <2>2 DEF Next, TimeWaitOver, vars
<1>3. RaceInv => SomeoneWins
  BY DEF RaceInv, SomeoneWins, Ahead, Holds
<1>. QED
  BY <1>1, <1>2, <1>3, PTL DEF Spec

-----------------------------------------------------------------------------
(***************************************************************************)
(* The tools that have run on the file of the k-th listener of a process.  *)
(***************************************************************************)
Applied(i, k) ==
    IF k = Len(v[i]) /\ pc[i] = "chmod" THEN {}
    ELSE IF k = Len(v[i]) /\ pc[i] = "chown" THEN {"chmod"}
    ELSE Tools

GrantInv == \A i \in Instances, k \in DOMAIN addrs, p \in Paths : file[p] = <<i, k>> =>
    /\ addrs[k].kind = "path" /\ addrs[k].name = p
    /\ (pc[i] \in Good /\ k <= Len(v[i])) => opts.tools \cap Applied(i, k) \subseteq granted[p]

LEMMA GrantStep ==
    ASSUME TypeInv, GrantInv, NEW q \in Instances, InstanceStep(q)
    PROVE  GrantInv'
<1>. SUFFICES ASSUME NEW i \in Instances, NEW k \in DOMAIN addrs, NEW p \in Paths,
                     file'[p] = <<i, k>>
              PROVE  /\ addrs[k].kind = "path" /\ addrs[k].name = p
                     /\ (pc'[i] \in Good /\ k <= Len(v'[i])) =>
                            opts.tools \cap Applied(i, k)' \subseteq granted'[p]
  BY OnlyActor DEF GrantInv
<1>. USE DEF TypeInv
<1>1. /\ k \in Nat /\ k >= 1 /\ NoFile # <<i, k>>
      /\ pc \in [Instances -> {"down", "binding", "backlog", "unlinked", "chmod", "chown", "failing", "failed", "up"}]
      /\ \A j \in Instances : v[j] \in Seq(Int) /\ Len(v[j]) \in Nat
  BY DEF BindingTypeOK, NoFile
\* The file is made by this step.
<1>2. CASE PathBind(q) \/ KernelRefuses(q)
  <2>1. CASE file' = file /\ granted' = granted
    <3>1. CASE i = q
      <4>1. CASE PathBind(q)
        <5>1. addrs[At(q)].name \in Paths
          BY <4>1, AddressOK DEF PathBind, PlaceOK
        <5>2. file[addrs[At(q)].name] # NoFile
          <6>. SUFFICES ASSUME file[addrs[At(q)].name] = NoFile PROVE FALSE
            OBVIOUS
          <6>1. file' = [file EXCEPT ![addrs[At(q)].name] = <<q, At(q)>>]
            BY <4>1 DEF PathBind
          <6>2. file'[addrs[At(q)].name] = <<q, At(q)>>
            BY <5>1, <6>1 DEF BindingTypeOK
          <6>3. <<q, At(q)>> # NoFile
            BY DEF NoFile
          <6>. QED
            BY <2>1, <6>2, <6>3
        <5>3. pc'[q] = "failing"
          BY <1>1, <4>1, <5>2 DEF PathBind, Goes
        <5>. QED
          BY <2>1, <3>1, <5>3 DEF GrantInv, Good
      <4>2. CASE KernelRefuses(q)
        <5>1. pc'[q] = "failing"
          BY <1>1, <4>2 DEF KernelRefuses, UnlinkRefused, DropsLast, Goes
        <5>. QED
          BY <2>1, <3>1, <5>1 DEF GrantInv, Good
      <4>. QED
        BY <1>2, <4>1, <4>2
    <3>2. CASE i # q
      BY <2>1, <3>2, OnlyActor DEF GrantInv, Applied
    <3>. QED
      BY <3>1, <3>2
  <2>2. CASE ~(file' = file /\ granted' = granted)
    <3>. DEFINE name == addrs[At(q)].name
    <3>1. /\ file' = [file EXCEPT ![name] = <<q, At(q)>>]
          /\ granted' = [granted EXCEPT ![name] = {}]
          /\ pc'[q] = "failing" \/ (pc'[q] = "chmod" /\ Opens(q))
          /\ pc[q] = "unlinked"
      BY <1>1, <1>2, <2>2 DEF PathBind, KernelRefuses, UnlinkRefused, Goes
    <3>2. At(q) \in DOMAIN addrs /\ addrs[At(q)].kind = "path" /\ name \in Paths
      BY <3>1, AddressOK DEF PlaceOK
    <3>3. CASE p # name
      <4>1. file[p] = <<i, k>> /\ granted'[p] = granted[p]
        BY <3>1, <3>2, <3>3 DEF BindingTypeOK
      <4>2. CASE i # q
        BY <4>1, <4>2, OnlyActor DEF GrantInv, Applied
      <4>3. CASE i = q /\ pc'[q] = "failing"
        BY <4>1, <4>3 DEF GrantInv, Good
      <4>4. CASE i = q /\ Opens(q)
        <5>1. k # At(q)
          BY <3>3, <4>1 DEF GrantInv
        <5>2. Len(v'[q]) = At(q)
          <6>1. PICK n \in Fds : v'[q] = Append(v[q], n)
            BY <3>2, <4>4, OpensGrows
          <6>. QED
            BY <1>1, <6>1 DEF At
        <5>3. k <= Len(v'[q]) => k <= Len(v[q])
          BY <1>1, <5>1, <5>2 DEF At
        <5>4. Applied(q, k) = Tools
          BY <3>1 DEF Applied
        <5>5. opts.tools \subseteq Tools
          BY DEF BindingTypeOK
        <5>6. k <= Len(v[q]) => opts.tools \subseteq granted[p]
          BY <3>1, <4>1, <4>4, <5>4, <5>5 DEF GrantInv, Good
        <5>. QED
          BY <4>1, <4>4, <5>3, <5>6 DEF GrantInv
      <4>. QED
        BY <3>1, <4>2, <4>3, <4>4
    <3>4. CASE p = name
      <4>1. i = q /\ k = At(q)
        BY <3>1, <3>2, <3>4 DEF BindingTypeOK
      <4>2. CASE pc'[q] = "chmod" /\ Opens(q)
        <5>1. PICK n \in Fds : v'[q] = Append(v[q], n)
          BY <3>2, <4>2, OpensGrows
        <5>2. Len(v'[q]) = At(q)
          BY <1>1, <5>1 DEF At
        <5>. QED
          BY <3>2, <3>4, <4>1, <4>2, <5>2 DEF Applied
      <4>. QED
        BY <3>1, <3>2, <3>4, <4>1, <4>2 DEF Good
    <3>. QED
      BY <3>3, <3>4
  <2>. QED
    BY <2>1, <2>2
<1>3. CASE PathUnlink(q)
  <2>1. file[p] = <<i, k>> /\ granted' = granted
    BY <1>1, <1>3, AddressOK DEF PathUnlink, Binding, BindingTypeOK
  <2>2. i = q => Applied(i, k)' = Tools /\ Applied(i, k) = Tools
    BY <1>1, <1>3 DEF PathUnlink, Binding, Goes, Applied
  <2>. QED
    BY <1>1, <1>3, <2>1, <2>2, OnlyActor DEF GrantInv, PathUnlink, Binding, Applied, Good
<1>4. CASE \E tool \in Tools : PathTool(q, tool)
  <2>1. PICK tool \in Tools : PathTool(q, tool)
    BY <1>4
  <2>2. Len(v[q]) \in DOMAIN addrs /\ pc[q] = tool
    BY <2>1 DEF PathTool, PlaceOK, Tools
  <2>3. addrs[Len(v[q])].name \in Paths
    BY <2>1, <2>2, AddressOK DEF PlaceOK, Tools
  <2>4. file[p] = <<i, k>> /\ granted[p] \subseteq granted'[p]
    BY <2>1, <2>3 DEF PathTool, BindingTypeOK
  <2>5. CASE i # q
    BY <2>4, <2>5, OnlyActor DEF GrantInv, Applied
  <2>6. CASE i = q /\ DropsLast(q)
    BY <1>1, <2>4, <2>6 DEF GrantInv, DropsLast, Goes, Good
  <2>7. CASE i = q /\ ~DropsLast(q)
    <3>1. v' = v /\ pc'[q] = After(tool) /\ pc[q] \in Good
      BY <1>1, <2>1, <2>2, <2>7 DEF PathTool, Goes, Good, Tools
    <3>2. CASE k = Len(v[q])
      <4>1. addrs[k].name = p
        BY <2>4 DEF GrantInv
      <4>2. opts.tools \cap {tool} \subseteq granted'[p]
        BY <2>1, <2>3, <2>7, <3>2, <4>1 DEF PathTool, BindingTypeOK
      <4>3. opts.tools \cap Applied(i, k)' \subseteq (opts.tools \cap Applied(i, k)) \cup (opts.tools \cap {tool})
        BY <2>2, <2>7, <3>1, <3>2 DEF Applied, After, Tools
      <4>4. k <= Len(v[i])
        BY <1>1, <2>7, <3>2
      <4>5. opts.tools \cap Applied(i, k) \subseteq granted[p]
        BY <2>4, <2>7, <3>1, <4>4 DEF GrantInv
      <4>. QED
        BY <2>4, <4>2, <4>3, <4>5 DEF GrantInv
    <3>3. CASE k # Len(v[q])
      BY <2>4, <2>7, <3>1, <3>3 DEF GrantInv, Applied
    <3>. QED
      BY <3>2, <3>3
  <2>. QED
    BY <2>5, <2>6, <2>7
<1>5. CASE ~(PathBind(q) \/ KernelRefuses(q) \/ PathUnlink(q) \/ \E tool \in Tools : PathTool(q, tool))
  <2>1. file' = file /\ granted' = granted
    BY <1>5 DEF InstanceStep, BindStep, listen_named, BacklogRefused, EnvRefuses, AdoptFd, RejectFd, BindInetd,
       BindUnusable, BindDone, DropNext, Start, Retry, Exit, Crash, Ends, OtherOpens
  <2>2. CASE i # q
    BY <2>1, <2>2, OnlyActor DEF GrantInv, Applied
  <2>3. CASE i = q /\ OtherOpens(q)
    BY <2>1, <2>3 DEF GrantInv, Applied, OtherOpens
  <2>4. CASE i = q /\ ~OtherOpens(q) /\ pc'[q] \in Good /\ k <= Len(v'[q])
    <3>1. pc[q] \in {"binding", "down", "failed"}
      BY <1>1, <1>5, <2>4 DEF InstanceStep, BindStep, listen_named, BacklogRefused, EnvRefuses, AdoptFd, RejectFd, BindInetd,
         BindUnusable, BindDone, DropNext, Start, Retry, Exit, Crash, Ends, Binding, DropsLast, Goes, Good
    <3>2. addrs[k].kind = "path"
      BY <2>1 DEF GrantInv
    <3>3. k <= Len(v[q]) /\ pc[q] = "binding"
      <4>1. CASE Binds(q)
        <5>1. k # At(q)
          BY <3>1, <3>2, <4>1 DEF Binds, Named
        <5>. QED
          BY <1>1, <2>4, <3>1, <4>1, <5>1 DEF Binds, At
      <4>2. CASE Adopts(q)
        <5>1. k # At(q)
          BY <3>2, <4>2 DEF Adopts
        <5>. QED
          BY <1>1, <2>4, <4>2, <5>1 DEF Adopts, At, BindingTypeOK
      <4>3. CASE Moves(q)
        BY <1>1, <2>4, <3>1, <4>3 DEF Moves, PlaceOK
      <4>4. CASE Begins(q)
        BY <1>1, <2>4, <4>4 DEF Begins
      <4>. QED
        BY <2>4, <4>1, <4>2, <4>3, <4>4, Shapes DEF Gives_up
    <3>4. Applied(q, k) = Tools
      BY <3>3 DEF Applied
    <3>5. opts.tools \subseteq granted[p]
      BY <2>1, <2>4, <3>3, <3>4 DEF GrantInv, Good, BindingTypeOK
    <3>. QED
      BY <2>1, <3>5 DEF GrantInv
  <2>. QED
    BY <2>1, <2>2, <2>3, <2>4 DEF GrantInv
<1>. QED
  BY <1>2, <1>3, <1>4, <1>5

(***************************************************************************)
(* Whatever the processes do to each other's files, a file that leads to   *)
(* an instance that is up has the mode and owner that the options ask for. *)
(***************************************************************************)
THEOREM ModeIsSet == Spec => []GrantedWhenUp
<1>1. Init => TypeInv /\ GrantInv
  BY TypeInit DEF Init, GrantInv, NoFile
<1>2. TypeInv /\ GrantInv /\ [Next]_vars => (TypeInv /\ GrantInv)'
  <2>. SUFFICES ASSUME TypeInv, GrantInv, [Next]_vars PROVE GrantInv'
    BY TypeStep
  <2>1. CASE UNCHANGED bindVars
    BY <2>1 DEF bindVars, GrantInv, Applied
  <2>2. ASSUME NEW p \in Instances, InstanceStep(p) PROVE GrantInv'
    BY <2>2, GrantStep
  <2>. QED
    BY <2>1, <2>2 DEF Next, TimeWaitOver, vars
<1>3. TypeInv /\ GrantInv => GrantedWhenUp
  <2>. SUFFICES ASSUME TypeInv, GrantInv, NEW i \in Instances, NEW p \in Paths,
                       pc[i] = "up", file[p] # NoFile, file[p][1] = i
                PROVE  opts.tools \subseteq granted[p]
    BY DEF GrantedWhenUp
  <2>1. PICK k \in DOMAIN addrs : file[p] = <<i, k>>
    BY DEF TypeInv, BindingTypeOK
  <2>2. k <= Len(v[i]) /\ Applied(i, k) = Tools
    BY DEF TypeInv, PlaceOK, Applied
  <2>. QED
    BY <2>1, <2>2 DEF GrantInv, Good, TypeInv, BindingTypeOK
<1>. QED
  BY <1>1, <1>2, <1>3, PTL DEF Spec
=============================================================================
