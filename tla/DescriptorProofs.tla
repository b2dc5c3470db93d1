-------------------------- MODULE DescriptorProofs --------------------------
(***************************************************************************)
(* Who owns which descriptor: what a bind_multiple that succeeds has, what *)
(* one that fails leaves, and which numbers it may close.                  *)
(***************************************************************************)
EXTENDS BindingProofs

\* A listener has an open descriptor that no other listener of the process has.
OpenInv == \A i \in Instances, k \in DOMAIN addrs :
    (pc[i] \in Good /\ k <= Len(v[i])) =>
        IF addrs[k].kind = "inetd" THEN v[i][k] = NoFd
        ELSE /\ v[i][k] \in Fds /\ fds[i][v[i][k]] # Free
             /\ \A j \in DOMAIN addrs : (j <= Len(v[i]) /\ v[i][j] = v[i][k]) => j = k

\* A socket that was bound belongs to a listener.
ListedInv == \A i \in Instances, n \in Fds :
    fds[i][n] \notin {Free, Inherited, Other} => \E j \in DOMAIN v[i] : v[i][j] = n

LEMMA NumbersAreInts == Fds \subseteq Int /\ NoFd \in Int /\ NoFd \notin Fds
BY BindingAssumption DEF Fds, SD_LISTEN_FDS_START, NoFd

LEMMA OpenStep ==
    ASSUME TypeInv, OpenInv, NEW p \in Instances, InstanceStep(p)
    PROVE  OpenInv'
<1>. DEFINE Fine(i, k) ==
        IF addrs[k].kind = "inetd" THEN v[i][k] = NoFd
        ELSE /\ v[i][k] \in Fds /\ fds[i][v[i][k]] # Free
             /\ \A j \in DOMAIN addrs : (j <= Len(v[i]) /\ v[i][j] = v[i][k]) => j = k
<1>. SUFFICES ASSUME NEW i \in Instances, NEW k \in DOMAIN addrs,
                     pc'[i] \in Good, k <= Len(v'[i])
              PROVE  Fine(i, k)'
  BY OnlyActor DEF OpenInv
<1>0. /\ DOMAIN addrs \subseteq Nat \ {0} /\ k \in Nat \ {0}
      /\ v[p] \in Seq(Int) /\ Len(v[p]) \in Nat /\ UNCHANGED addrs
  <2>1. UNCHANGED addrs
    BY OnlyActor
  <2>2. DOMAIN addrs \subseteq Nat \ {0} /\ k \in Nat \ {0}
    BY DEF TypeInv, BindingTypeOK
  <2>3. v[p] \in Seq(Int) /\ Len(v[p]) \in Nat
    BY DEF TypeInv, BindingTypeOK
  <2>. QED
    BY <2>1, <2>2, <2>3
<1>1. CASE i # p
  <2>1. pc'[i] = pc[i] /\ v'[i] = v[i] /\ fds'[i] = fds[i]
    BY <1>1, OnlyActor
  <2>2. Fine(i, k)
    BY <2>1 DEF OpenInv
  <2>. QED
    BY <1>0, <2>1, <2>2
<1>2. ASSUME i = p, pc[p] \in Good, k <= Len(v[p]), NEW n \in Int, v'[p] = Append(v[p], n),
             \A m \in Fds : fds'[p][m] = fds[p][m] \/ (fds[p][m] = Free /\ fds'[p][m] # Free),
             \A j \in 1..Len(v[p]) : v[p][j] = n => n = NoFd
      PROVE  Fine(i, k)'
  <2>1. Fine(p, k)
    BY <1>2 DEF OpenInv
  <2>2. v'[p][k] = v[p][k] /\ Len(v'[p]) = Len(v[p]) + 1 /\ v'[p][Len(v[p]) + 1] = n
        /\ \A j \in 1..Len(v[p]) : v'[p][j] = v[p][j]
    BY <1>0, <1>2
  <2>3. CASE addrs[k].kind = "inetd"
    BY <1>0, <1>2, <2>1, <2>2, <2>3
  <2>4. CASE addrs[k].kind # "inetd"
    <3>1. v'[p][k] \in Fds /\ fds'[p][v'[p][k]] # Free
      BY <1>2, <2>1, <2>2, <2>4
    <3>2. ASSUME NEW j \in DOMAIN addrs, j <= Len(v'[p]), v'[p][j] = v'[p][k] PROVE j = k
      <4>1. CASE j <= Len(v[p])
        <5>1. \A m \in DOMAIN addrs : (m <= Len(v[p]) /\ v[p][m] = v[p][k]) => m = k
          BY <2>1, <2>4
        <5>2. j \in 1..Len(v[p])
          BY <1>0, <3>2, <4>1
        <5>3. v[p][j] = v[p][k]
          BY <2>2, <3>2, <5>2
        <5>. QED
          BY <3>2, <4>1, <5>1, <5>3
      <4>2. CASE j = Len(v[p]) + 1
        <5>1. v[p][k] = n /\ k \in 1..Len(v[p])
          BY <1>0, <1>2, <2>2, <3>2, <4>2
        <5>. QED
          BY <1>2, <2>1, <2>4, <5>1, NumbersAreInts
      <4>. QED
        BY <1>0, <2>2, <3>2, <4>1, <4>2
    <3>. QED
      BY <1>0, <1>2, <2>4, <3>1, <3>2
  <2>. QED
    BY <2>3, <2>4
<1>3. CASE i = p /\ Binds(p)
  <2>1. PICK n \in Fds : /\ fds[p][n] = Free
                         /\ fds' = [fds EXCEPT ![p][n] = Own(At(p))]
                         /\ v' = [v EXCEPT ![p] = Append(@, n)]
    BY <1>3 DEF Binds
  <2>2. /\ v'[p] = Append(v[p], n) /\ pc[p] \in Good /\ n \in Int /\ n # NoFd
        /\ fds'[p][n] = Own(At(p))
        /\ \A m \in Fds : fds'[p][m] = fds[p][m] \/ (fds[p][m] = Free /\ fds'[p][m] # Free)
    <3>1. v'[p] = Append(v[p], n) /\ fds'[p] = [fds[p] EXCEPT ![n] = Own(At(p))]
      BY <2>1 DEF TypeInv, BindingTypeOK
    <3>2. fds'[p][n] = Own(At(p)) /\ \A m \in Fds : m # n => fds'[p][m] = fds[p][m]
      BY <3>1 DEF TypeInv, BindingTypeOK
    <3>3. pc[p] \in Good
      BY <1>3 DEF Binds, Good
    <3>4. n \in Int /\ n # NoFd
      BY NumbersAreInts
    <3>5. ASSUME NEW m \in Fds PROVE fds'[p][m] = fds[p][m] \/ (fds[p][m] = Free /\ fds'[p][m] # Free)
      <4>1. CASE m = n
        BY <2>1, <3>2, <4>1, Distinction
      <4>2. CASE m # n
        BY <3>2, <4>2
      <4>. QED
        BY <4>1, <4>2
    <3>. QED
      BY <3>1, <3>2, <3>3, <3>4, <3>5
  <2>3. ASSUME NEW j \in DOMAIN addrs, j <= Len(v[p]) PROVE v[p][j] # n
    BY <2>1, <2>2, <2>3 DEF OpenInv
  <2>4. At(p) \in DOMAIN addrs /\ addrs[At(p)].kind # "inetd"
    BY <1>3 DEF Binds, Named, TypeInv, PlaceOK
  <2>5. \A j \in 1..Len(v[p]) : j \in DOMAIN addrs /\ v[p][j] # n
    <3>1. 1..Len(v[p]) \subseteq DOMAIN addrs
      BY <1>0, <2>4 DEF At, TypeInv, BindingTypeOK
    <3>. QED
      BY <1>0, <2>3, <3>1
  <2>6. CASE k = At(p)
    <3>1. v'[p][k] = n /\ Len(v'[p]) = k /\ \A j \in 1..Len(v[p]) : v'[p][j] = v[p][j]
      BY <1>0, <2>2, <2>6 DEF At
    <3>2. ASSUME NEW j \in DOMAIN addrs, j <= Len(v'[p]), v'[p][j] = v'[p][k] PROVE j = k
      <4>. SUFFICES ASSUME j # k PROVE FALSE
        OBVIOUS
      <4>1. j \in 1..Len(v[p])
        BY <1>0, <2>6, <3>1, <3>2 DEF At
      <4>. QED
        BY <2>5, <3>1, <3>2, <4>1
    <3>3. v'[p][k] \in Fds /\ fds'[p][v'[p][k]] # Free
      BY <2>2, <3>1, Distinction
    <3>. QED
      BY <1>0, <1>3, <2>4, <2>6, <3>2, <3>3
  <2>7. CASE k # At(p)
    <3>1. k <= Len(v[p])
      BY <1>0, <1>3, <2>2, <2>7 DEF At
    <3>. QED
      BY <1>2, <1>3, <2>2, <2>5, <3>1
  <2>. QED
    BY <2>6, <2>7
<1>4. CASE i = p /\ Adopts(p)
  <2>1. PICK n \in Int : /\ v' = [v EXCEPT ![p] = Append(@, n)]
                         /\ addrs[At(p)].kind = "inetd" => n = NoFd
                         /\ addrs[At(p)].kind = "fd" => Refers(p, n) # Free /\ ~Registered(p, n)
    BY <1>4 DEF Adopts
  <2>2. /\ v'[p] = Append(v[p], n) /\ pc[p] \in Good /\ fds' = fds
        /\ At(p) \in DOMAIN addrs /\ addrs[At(p)].kind \in {"inetd", "fd"}
    BY <1>4, <2>1 DEF Adopts, TypeInv, BindingTypeOK, Good
  <2>3. \A j \in 1..Len(v[p]) : v[p][j] = n => n = NoFd
    BY <1>0, <2>1, <2>2 DEF Registered
  <2>4. CASE k = At(p)
    <3>1. v'[p][k] = n /\ Len(v'[p]) = k /\ \A j \in 1..Len(v[p]) : v'[p][j] = v[p][j]
      BY <1>0, <2>2, <2>4 DEF At
    <3>2. CASE addrs[k].kind = "inetd"
      BY <1>0, <1>4, <2>1, <2>4, <3>1, <3>2
    <3>3. CASE addrs[k].kind = "fd"
      <4>1. n \in Fds /\ fds[p][n] # Free
        BY <2>1, <2>4, <3>3 DEF Refers
      <4>2. ASSUME NEW j \in DOMAIN addrs, j <= Len(v'[p]), v'[p][j] = v'[p][k] PROVE j = k
        <5>1. CASE j \in 1..Len(v[p])
          <6>1. v[p][j] = n
            BY <3>1, <4>2, <5>1
          <6>. QED
            BY <2>3, <4>1, <5>1, <6>1, NumbersAreInts
        <5>2. CASE j \notin 1..Len(v[p])
          BY <1>0, <2>4, <3>1, <4>2, <5>2 DEF At
        <5>. QED
          BY <5>1, <5>2
      <4>. QED
        BY <1>0, <1>4, <2>2, <3>1, <3>3, <4>1, <4>2
    <3>. QED
      BY <2>2, <2>4, <3>2, <3>3
  <2>5. CASE k # At(p)
    <3>1. k <= Len(v[p])
      BY <1>0, <1>4, <2>2, <2>5 DEF At
    <3>. QED
      <4>1. \A m \in Fds : fds'[p][m] = fds[p][m]
        BY <2>2
      <4>2. \A m \in Fds : fds'[p][m] = fds[p][m] \/ (fds[p][m] = Free /\ fds'[p][m] # Free)
        BY <4>1
      <4>3. i = p /\ n \in Int /\ v'[p] = Append(v[p], n) /\ pc[p] \in Good
        BY <1>4, <2>2
      <4>. QED
        BY <1>2, <2>3, <3>1, <4>2, <4>3
  <2>. QED
    BY <2>4, <2>5
<1>5. CASE i = p /\ Moves(p)
  <2>1. v' = v /\ v[p] # <<>> /\ pc[p] \in Good
    BY <1>0, <1>5 DEF Moves
  <2>2. Fine(p, k)
    BY <1>5, <2>1 DEF OpenInv
  <2>3. \A n \in Fds : fds[p][n] # Free => fds'[p][n] # Free
    BY <1>5, Distinction DEF Moves
  <2>. QED
    BY <1>0, <1>5, <2>1, <2>2, <2>3
<1>6. CASE i = p /\ Begins(p)
  BY <1>0, <1>6 DEF Begins
<1>7. CASE i = p /\ Gives_up(p)
  BY <1>7 DEF Gives_up
<1>. QED
  BY <1>1, <1>3, <1>4, <1>5, <1>6, <1>7, Shapes

LEMMA TailEntries ==
    ASSUME NEW s \in Seq(Int), NEW j \in DOMAIN s, j # 1
    PROVE  j - 1 \in DOMAIN Tail(s) /\ Tail(s)[j - 1] = s[j]
OBVIOUS

LEMMA ListedStep ==
    ASSUME TypeInv, ListedInv, NEW p \in Instances, InstanceStep(p)
    PROVE  ListedInv'
<1>. DEFINE Listed(i, n) == \E j \in DOMAIN v[i] : v[i][j] = n
<1>. SUFFICES ASSUME NEW i \in Instances, NEW n \in Fds, fds'[i][n] \notin {Free, Inherited, Other}
              PROVE  Listed(i, n)'
  BY DEF ListedInv
<1>0. v[p] \in Seq(Int) /\ n \in Int
  BY NumbersAreInts DEF TypeInv, BindingTypeOK
<1>1. CASE i # p
  BY <1>1, OnlyActor DEF ListedInv
<1>2. ASSUME i = p, NEW m \in Int, v'[p] = Append(v[p], m), m = n \/ fds'[p][n] = fds[p][n]
      PROVE  Listed(i, n)'
  <2>1. CASE m = n
    <3>1. Len(v[p]) + 1 \in DOMAIN v'[p] /\ v'[p][Len(v[p]) + 1] = n
      BY <1>0, <1>2, <2>1
    <3>. QED
      BY <1>2, <3>1
  <2>2. CASE fds'[p][n] = fds[p][n]
    <3>1. PICK j \in DOMAIN v[p] : v[p][j] = n
      BY <1>2, <2>2 DEF ListedInv
    <3>2. j \in DOMAIN v'[p] /\ v'[p][j] = n
      BY <1>0, <1>2, <3>1
    <3>. QED
      BY <1>2, <3>2
  <2>. QED
    BY <1>2, <2>1, <2>2
<1>3. CASE i = p /\ Binds(p)
  <2>1. PICK m \in Fds : /\ fds' = [fds EXCEPT ![p][m] = Own(At(p))]
                         /\ v' = [v EXCEPT ![p] = Append(@, m)]
    BY <1>3 DEF Binds
  <2>2. v'[p] = Append(v[p], m) /\ m \in Int /\ (m = n \/ fds'[p][n] = fds[p][n])
    BY <2>1, NumbersAreInts DEF TypeInv, BindingTypeOK
  <2>. QED
    BY <1>2, <1>3, <2>2
<1>4. CASE i = p /\ Adopts(p)
  <2>1. PICK m \in Int : v' = [v EXCEPT ![p] = Append(@, m)]
    BY <1>4 DEF Adopts
  <2>2. v'[p] = Append(v[p], m) /\ fds'[p][n] = fds[p][n]
    BY <1>4, <2>1 DEF Adopts, TypeInv, BindingTypeOK
  <2>. QED
    BY <1>2, <1>4, <2>2
<1>5. CASE i = p /\ v' = v /\ fds'[p][n] \in {fds[p][n], Free, Other}
  BY <1>5 DEF ListedInv
<1>6. CASE i = p /\ Begins(p)
  BY <1>6 DEF Begins
\* The number that is closed is that of the entry that goes.
<1>7. CASE i = p /\ DropsLast(p) /\ v[p] # <<>>
  <2>1. fds'[p][n] = fds[p][n] /\ n # v[p][Len(v[p])]
    BY <1>7 DEF DropsLast, Closes, TypeInv, BindingTypeOK
  <2>2. PICK j \in DOMAIN v[p] : v[p][j] = n
    BY <1>7, <2>1 DEF ListedInv
  <2>3. v'[p] = SubSeq(v[p], 1, Len(v[p]) - 1) /\ j \in 1..(Len(v[p]) - 1)
    BY <1>0, <1>7, <2>1, <2>2 DEF DropsLast, TypeInv, BindingTypeOK
  <2>4. j \in DOMAIN v'[p] /\ v'[p][j] = n
    BY <1>0, <2>2, <2>3
  <2>. QED
    BY <1>7, <2>4
<1>8. CASE i = p /\ DropNext(p) /\ v[p] # <<>>
  <2>1. fds'[p][n] = fds[p][n] /\ n # v[p][1] /\ v'[p] = Tail(v[p])
    BY <1>8 DEF DropNext, Closes, TypeInv, BindingTypeOK
  <2>2. PICK j \in DOMAIN v[p] : v[p][j] = n
    BY <1>8, <2>1 DEF ListedInv
  <2>3. j - 1 \in DOMAIN v'[p] /\ v'[p][j - 1] = n
    BY <1>0, <2>1, <2>2, TailEntries
  <2>. QED
    BY <1>8, <2>3
<1>9. ASSUME NEW m, Closes(p, m) PROVE fds'[p][n] \in {fds[p][n], Free}
  BY <1>9, ClosesType DEF TypeInv
<1>10. CASE i = p /\ (RejectFd(p) \/ KernelRefuses(p))
  <2>1. CASE v' = v
    BY <1>5, <1>9, <1>10, <2>1 DEF RejectFd, KernelRefuses, UnlinkRefused, DropsLast
  <2>2. CASE v' # v
    <3>1. DropsLast(p) /\ pc[p] \in opts.tools
      BY <1>10, <2>2 DEF RejectFd, KernelRefuses, UnlinkRefused
    <3>2. Len(v[p]) \in DOMAIN addrs
      BY <1>10, <3>1 DEF TypeInv, BindingTypeOK, PlaceOK, Tools
    <3>3. v[p] # <<>>
      BY <3>2 DEF TypeInv, BindingTypeOK
    <3>. QED
      BY <1>7, <1>10, <3>1, <3>3
  <2>. QED
    BY <2>1, <2>2
<1>16. CASE i = p /\ BacklogRefused(p)
  <2>1. v[p] # <<>>
    BY <1>16 DEF BacklogRefused, TypeInv, PlaceOK, BindingTypeOK
  <2>. QED
    BY <1>7, <1>16, <2>1 DEF BacklogRefused
<1>11. CASE i = p /\ \E tool \in Tools : PathTool(p, tool)
  <2>1. v[p] # <<>>
    BY <1>11 DEF PathTool, TypeInv, PlaceOK, Tools, BindingTypeOK
  <2>. QED
    BY <1>5, <1>7, <1>11, <2>1 DEF PathTool
<1>12. CASE i = p /\ DropNext(p) /\ v[p] = <<>>
  BY <1>5, <1>12 DEF DropNext
<1>13. CASE i = p /\ Gives_up(p) /\ (listen_named(p) \/ PathBind(p))
  <2>1. Opens(p) => \E m \in Fds : fds[p][m] = Free /\ fds'[p][m] = Own(At(p))
    BY DEF Opens, Lowest, TypeInv, BindingTypeOK
  <2>2. ~Opens(p)
    BY <1>13, <2>1, Distinction DEF Gives_up
  <2>3. v' = v
    BY <1>13, <2>2 DEF listen_named, PathBind
  <2>. QED
    BY <1>5, <1>13, <2>3 DEF Gives_up
<1>14. CASE /\ i = p
            /\ \/ PathUnlink(p) \/ EnvRefuses(p) \/ BindUnusable(p) \/ BindDone(p) \/ Retry(p)
               \/ AdoptFd(p) \/ BindInetd(p) \/ Start(p) \/ Exit(p) \/ Crash(p) \/ OtherOpens(p)
            /\ Gives_up(p)
  <2>1. v' = v \/ Start(p) \/ Exit(p) \/ Crash(p) \/ AdoptFd(p) \/ BindInetd(p)
    BY <1>14 DEF PathUnlink, EnvRefuses, BindUnusable, BindDone, Retry, OtherOpens
  <2>2. ~ (AdoptFd(p) \/ BindInetd(p))
    BY <1>14 DEF AdoptFd, BindInetd, Binding, Gives_up, Good
  <2>3. CASE Start(p) \/ Exit(p) \/ Crash(p)
    <3>1. fds'[p][n] \in {Free, Inherited}
      BY <2>3 DEF Start, Exit, Crash, Ends, TypeInv, BindingTypeOK
    <3>. QED
      BY <1>14, <3>1
  <2>. QED
    BY <1>5, <1>14, <2>1, <2>2, <2>3 DEF Gives_up
<1>15. CASE i = p /\ Moves(p)
  BY <1>5, <1>15 DEF Moves
<1>. QED
  BY <1>1, <1>3, <1>4, <1>6, <1>8, <1>10, <1>11, <1>12, <1>13, <1>14, <1>15, <1>16, Shapes
     DEF InstanceStep, BindStep

(***************************************************************************)
(* A bind_multiple that succeeds has an open descriptor of its own for     *)
(* each address, and one that fails leaves no socket that it bound,        *)
(* whatever it listed, adopted and closed on the way.                      *)
(***************************************************************************)
THEOREM BindsAllOrNothing == Spec => []AllOrNothing
<1>. DEFINE DescriptorInv == TypeInv /\ OpenInv /\ ListedInv
<1>1. Init => DescriptorInv
  BY TypeInit DEF Init, OpenInv, ListedInv, Good
<1>2. DescriptorInv /\ [Next]_vars => DescriptorInv'
  <2>. SUFFICES ASSUME DescriptorInv, [Next]_vars PROVE OpenInv' /\ ListedInv'
    BY TypeStep
  <2>1. CASE UNCHANGED bindVars
    BY <2>1 DEF bindVars, OpenInv, ListedInv
  <2>2. ASSUME NEW p \in Instances, InstanceStep(p) PROVE OpenInv' /\ ListedInv'
    BY <2>2, OpenStep, ListedStep
  <2>. QED
    BY <2>1, <2>2 DEF Next, TimeWaitOver, vars
<1>3. DescriptorInv => AllOrNothing
  <2>. SUFFICES ASSUME TypeInv, OpenInv, ListedInv, NEW i \in Instances
                PROVE  /\ pc[i] = "up" => \A k \in DOMAIN addrs : addrs[k].kind # "inetd" =>
                              /\ Refers(i, v[i][k]) # Free
                              /\ \A j \in DOMAIN addrs : v[i][j] = v[i][k] => j = k
                       /\ pc[i] = "failed" => \A k \in DOMAIN addrs : ~Live(i, k)
    BY DEF AllOrNothing
  <2>1. ASSUME pc[i] = "up", NEW k \in DOMAIN addrs, addrs[k].kind # "inetd"
        PROVE  /\ Refers(i, v[i][k]) # Free
               /\ \A j \in DOMAIN addrs : v[i][j] = v[i][k] => j = k
    <3>1. \A j \in DOMAIN addrs : j <= Len(v[i])
      BY <2>1 DEF TypeInv, PlaceOK
    <3>. QED
      BY <2>1, <3>1 DEF OpenInv, Good, Refers
  <2>2. ASSUME pc[i] = "failed", NEW k \in DOMAIN addrs, Live(i, k) PROVE FALSE
    <3>1. PICK n \in Fds : fds[i][n] = Own(k)
      BY <2>2 DEF Live
    <3>2. PICK j \in DOMAIN v[i] : v[i][j] = n
      BY <3>1, Distinction DEF ListedInv
    <3>. QED
      BY <2>2, <3>2 DEF TypeInv, PlaceOK
  <2>. QED
    BY <2>1, <2>2
<1>. QED
  BY <1>1, <1>2, <1>3, PTL DEF Spec

-----------------------------------------------------------------------------
(***************************************************************************)
(* Which numbers a process closes.  The shapes of a step, now with what a  *)
(* close is about.                                                         *)
(***************************************************************************)
CloseOf(p, m) ==
    /\ Closes(p, m) /\ pc'[p] \notin Good
    /\ \/ v[p] # <<>> /\ m = Head(v[p]) /\ v'[p] = Tail(v[p])
       \/ v[p] # <<>> /\ m = v[p][Len(v[p])] /\ v'[p] = SubSeq(v[p], 1, Len(v[p]) - 1)
       \/ Binding(p, {"fd"}) /\ m = addrs[At(p)].name /\ Allowed(m) /\ v'[p] = v[p]

\* Nothing is closed or bound; another thread may open something.
Quiet(p) == /\ v'[p] = v[p]
            /\ pc'[p] \in Good => pc[p] \in Good
            /\ pc'[p] = "down" => pc[p] = "down"
            /\ \A n \in Fds : fds'[p][n] # fds[p][n] =>
                    pc[p] # "down" /\ fds[p][n] = Free /\ fds'[p][n] = Other

LEMMA CloseShapes ==
    ASSUME TypeInv, NEW p \in Instances, InstanceStep(p),
           ~(Start(p) \/ Retry(p) \/ Exit(p) \/ Crash(p))
    PROVE  /\ UNCHANGED calls
           /\ Binds(p) \/ Adopts(p) \/ Quiet(p) \/ \E m : CloseOf(p, m)
<1>. USE DEF Goes
<1>0. /\ pc \in [Instances -> {"down", "binding", "backlog", "unlinked", "chmod", "chown", "failing", "failed", "up"}]
      /\ v \in [Instances -> Seq(Int)] /\ fds \in [Instances -> [Fds -> Things]]
  BY DEF TypeInv, BindingTypeOK, Things
<1>1. UNCHANGED calls
  BY DEF InstanceStep, BindStep, listen_named, BacklogRefused, PathUnlink, PathBind, PathTool, EnvRefuses, AdoptFd,
         RejectFd, BindInetd, BindUnusable, BindDone, DropNext, KernelRefuses, UnlinkRefused, OtherOpens
<1>2. ASSUME DropsLast(p), pc[p] \in Tools \cup {"backlog"} PROVE CloseOf(p, v[p][Len(v[p])])
  <2>1. v[p] # <<>>
    BY <1>0, <1>2 DEF TypeInv, PlaceOK, BindingTypeOK, Tools
  <2>. QED
    BY <1>0, <1>2, <2>1 DEF DropsLast, CloseOf, Good
<1>3. CASE \E tool \in Tools : PathTool(p, tool)
  <2>1. CASE DropsLast(p)
    BY <1>2, <1>3, <2>1 DEF PathTool
  <2>2. CASE ~DropsLast(p)
    BY <1>0, <1>3, <2>2 DEF PathTool, After, Quiet, Good, Tools
  <2>. QED
    BY <1>1, <2>1, <2>2
<1>11. CASE BacklogRefused(p)
  BY <1>1, <1>2, <1>11 DEF BacklogRefused
<1>4. CASE RejectFd(p)
  <2>1. CloseOf(p, addrs[At(p)].name)
    BY <1>0, <1>4 DEF RejectFd, Binding, CloseOf, Good
  <2>. QED
    BY <1>1, <2>1
<1>5. CASE DropNext(p)
  <2>1. CASE v[p] = <<>>
    BY <1>0, <1>1, <1>5, <2>1 DEF DropNext, Quiet, Good
  <2>2. CASE v[p] # <<>>
    <3>1. CloseOf(p, Head(v[p]))
      BY <1>0, <1>5, <2>2 DEF DropNext, CloseOf, Good
    <3>. QED
      BY <1>1, <3>1
  <2>. QED
    BY <1>1, <2>1, <2>2
<1>6. CASE KernelRefuses(p)
  <2>1. CASE DropsLast(p) /\ pc[p] \in opts.tools
    BY <1>1, <1>2, <2>1 DEF TypeInv, BindingTypeOK, Tools
  <2>2. CASE Binding(p, {"fd"}) /\ Allowed(addrs[At(p)].name) /\ Closes(p, addrs[At(p)].name)
             /\ Goes(p, "failing") /\ UNCHANGED v
    <3>1. CloseOf(p, addrs[At(p)].name)
      BY <1>0, <2>2 DEF CloseOf, Good
    <3>. QED
      BY <1>1, <3>1
  <2>3. CASE Goes(p, "failing") /\ UNCHANGED <<fds, v>>
    BY <1>0, <1>1, <2>3 DEF Quiet, Good
  <2>. QED
    BY <1>1, <1>6, <2>1, <2>2, <2>3 DEF KernelRefuses, UnlinkRefused
<1>7. CASE listen_named(p) \/ PathBind(p)
  <2>1. CASE Opens(p)
    <3>1. ~Gives_up(p)
      BY <1>0, <1>7, <2>1, OpensType, Distinction DEF listen_named, PathBind, Binding, Gives_up, Good,
         Opens, Lowest, TypeInv, PlaceOK
    <3>2. \E n \in Fds : fds[p][n] = Free /\ fds'[p][n] = Own(At(p))
      BY <1>0, <2>1 DEF Opens, Lowest
    <3>3. ~Moves(p) /\ ~Adopts(p) /\ ~Begins(p)
      BY <3>2, Distinction DEF Moves, Adopts, Begins
    <3>. QED
      BY <1>1, <3>1, <3>3, Shapes
  <2>2. CASE ~Opens(p)
    BY <1>0, <1>1, <1>7, <2>2 DEF listen_named, PathBind, Binding, Quiet, Good
  <2>. QED
    BY <2>1, <2>2
<1>8. CASE PathUnlink(p) \/ EnvRefuses(p) \/ BindUnusable(p) \/ BindDone(p)
  BY <1>0, <1>1, <1>8 DEF PathUnlink, EnvRefuses, BindUnusable, BindDone, Binding, Quiet, Good
<1>9. CASE AdoptFd(p) \/ BindInetd(p)
  <2>1. pc[p] = "binding" /\ pc' = pc /\ v' # v
    <3>1. ASSUME NEW n, v' = [v EXCEPT ![p] = Append(@, n)] PROVE v' # v
      BY <1>0, <3>1
    <3>. QED
      BY <1>9, <3>1 DEF AdoptFd, BindInetd, Binding
  <2>2. UNCHANGED fds
    BY <1>9 DEF AdoptFd, BindInetd
  <2>3. ~Gives_up(p) /\ ~Moves(p) /\ ~Binds(p)
    <3>1. ~Gives_up(p) /\ ~Moves(p)
      BY <2>1 DEF Gives_up, Moves, Good
    <3>2. ~Binds(p)
      BY <1>0, <2>2, Distinction DEF Binds
    <3>. QED
      BY <3>1, <3>2
  <2>4. ~Begins(p)
    <3>1. \E n \in Int : v'[p] = Append(v[p], n)
      BY <1>0, <1>9, NumbersAreInts, AddressOK DEF AdoptFd, BindInetd, Binding, TypeInv
    <3>2. PICK n \in Int : v'[p] = Append(v[p], n)
      BY <3>1
    <3>3. Len(Append(v[p], n)) = Len(v[p]) + 1 /\ Len(v[p]) \in Nat /\ Len(<<>>) = 0
      BY <1>0, <3>2
    <3>. QED
      BY <3>2, <3>3 DEF Begins
  <2>. QED
    BY <1>1, <2>3, <2>4, Shapes
<1>10. CASE OtherOpens(p)
  BY <1>0, <1>1, <1>10 DEF OtherOpens, Lowest, Quiet
<1>. QED
  BY <1>3, <1>4, <1>5, <1>6, <1>7, <1>8, <1>9, <1>10, <1>11 DEF InstanceStep, BindStep

\* Each listener has a descriptor of the process's own, and no other has it.
SeparateEntries(i) ==
    /\ \A k \in DOMAIN v[i] :
            v[i][k] = NoFd \/ (v[i][k] \in Fds /\ fds[i][v[i][k]] \notin {Free, Other})
    /\ \A j, k \in DOMAIN v[i] : v[i][j] = v[i][k] => j = k \/ v[i][j] = NoFd

\* Until something is closed the numbers that were passed are what they were,
\* and a listener has one only if its address says so.
InheritedStill(i) == pc[i] \in Good =>
    /\ \A n \in Fds : n \in Passed => fds[i][n] = Inherited
    /\ \A k \in DOMAIN v[i] : v[i][k] \in Passed =>
            k \in DOMAIN addrs /\ addrs[k].kind = "fd" /\ addrs[k].name = v[i][k]

FirstCallInv == \A i \in Instances :
    /\ pc[i] = "down" => \A n \in Fds : fds[i][n] = Free
    /\ pc[i] # "down" => calls[i] # 0
    /\ calls[i] = 1 => InheritedStill(i)
    /\ (calls[i] = 1 /\ DistinctFds /\ ~opts.ignoreEnv) => SeparateEntries(i)

LEMMA AllowedArePassed ==
    ASSUME NEW n \in Int, check_env_for_fd(Env, n)
    PROVE  n \in Passed
<1>1. Env.fds \in I32 /\ SD_LISTEN_FDS_START <= n /\ n < SD_LISTEN_FDS_START + Env.fds
  BY DEF check_env_for_fd
<1>2. Env.fds \in Int
  BY <1>1 DEF I32
<1>3. n \in SD_LISTEN_FDS_START .. (SD_LISTEN_FDS_START - 1 + Env.fds)
  BY <1>1, <1>2, SMT DEF SD_LISTEN_FDS_START
<1>. QED
  BY <1>1, <1>3 DEF Passed

LEMMA NoFdIsNotPassed == NoFd \notin Passed
BY DEF Passed, NoFd, SD_LISTEN_FDS_START

\* A number that is closed in the first call is that of a listener that goes,
\* or an inherited one that none has.
LEMMA ClosedNumber ==
    ASSUME TypeInv, FirstCallInv, NEW p \in Instances, calls[p] = 1,
           DistinctFds, ~opts.ignoreEnv, NEW m, CloseOf(p, m)
    PROVE  /\ m \in Fds => /\ fds[p][m] # Other
                           /\ \A k \in DOMAIN v'[p] : v'[p][k] # m
           /\ v'[p] \in Seq(Int)
           /\ \A k \in DOMAIN v'[p] : \E j \in DOMAIN v[p] : v'[p][k] = v[p][j]
           /\ \A j, k \in DOMAIN v'[p] : v'[p][j] = v'[p][k] => j = k \/ v'[p][j] = NoFd
<1>0. /\ v[p] \in Seq(Int) /\ SeparateEntries(p) /\ InheritedStill(p)
      /\ m \in Fds => m \in Int /\ m # NoFd
  BY NumbersAreInts DEF TypeInv, BindingTypeOK, FirstCallInv
<1>1. CASE v[p] # <<>> /\ m = Head(v[p]) /\ v'[p] = Tail(v[p])
  <2>1. /\ Tail(v[p]) \in Seq(Int) /\ 1 \in DOMAIN v[p] /\ v[p][1] = m
        /\ \A k \in DOMAIN Tail(v[p]) : k + 1 \in DOMAIN v[p] /\ Tail(v[p])[k] = v[p][k + 1]
                                        /\ k \in Nat /\ k + 1 # 1
    BY <1>0, <1>1
  <2>2. m \in Fds => \A k \in DOMAIN Tail(v[p]) : Tail(v[p])[k] # m
    BY <1>0, <2>1 DEF SeparateEntries
  <2>3. ASSUME NEW j \in DOMAIN v'[p], NEW k \in DOMAIN v'[p], v'[p][j] = v'[p][k]
        PROVE  j = k \/ v'[p][j] = NoFd
    <3>1. v[p][j + 1] = v[p][k + 1] /\ j + 1 \in DOMAIN v[p] /\ k + 1 \in DOMAIN v[p] /\ j \in Nat /\ k \in Nat
      BY <1>1, <2>1, <2>3
    <3>2. j + 1 = k + 1 \/ v[p][j + 1] = NoFd
      BY <1>0, <3>1 DEF SeparateEntries
    <3>. QED
      BY <1>1, <2>1, <3>1, <3>2
  <2>4. m \in Fds => fds[p][m] # Other
    BY <1>0, <2>1 DEF SeparateEntries
  <2>. QED
    BY <1>1, <2>1, <2>2, <2>3, <2>4
<1>2. CASE v[p] # <<>> /\ m = v[p][Len(v[p])] /\ v'[p] = SubSeq(v[p], 1, Len(v[p]) - 1)
  <2>1. /\ v'[p] \in Seq(Int) /\ Len(v[p]) \in DOMAIN v[p]
        /\ \A k \in DOMAIN v'[p] : k \in DOMAIN v[p] /\ v'[p][k] = v[p][k] /\ k # Len(v[p])
    BY <1>0, <1>2
  <2>2. m \in Fds => fds[p][m] # Other
    BY <1>0, <1>2, <2>1 DEF SeparateEntries
  <2>3. m \in Fds => \A k \in DOMAIN v'[p] : v'[p][k] # m
    BY <1>0, <1>2, <2>1 DEF SeparateEntries
  <2>. QED
    BY <1>0, <2>1, <2>2, <2>3 DEF SeparateEntries
<1>3. CASE Binding(p, {"fd"}) /\ m = addrs[At(p)].name /\ Allowed(m) /\ v'[p] = v[p]
  <2>1. ASSUME m \in Fds
        PROVE  fds[p][m] # Other /\ \A k \in DOMAIN v[p] : v[p][k] # m
    <3>1. m \in Passed /\ pc[p] \in Good
      BY <1>0, <1>3, <2>1, AllowedArePassed DEF Allowed, Binding, Good
    <3>2. fds[p][m] = Inherited
      BY <1>0, <2>1, <3>1 DEF InheritedStill
    <3>3. ASSUME NEW k \in DOMAIN v[p], v[p][k] = m PROVE FALSE
      <4>1. k \in DOMAIN addrs /\ addrs[k].kind = "fd" /\ addrs[k].name = m
        BY <1>0, <3>1, <3>3 DEF InheritedStill
      <4>2. k = At(p)
        BY <1>3, <4>1 DEF DistinctFds, Binding
      <4>. QED
        BY <1>0, <4>2 DEF At
    <3>. QED
      BY <3>2, <3>3, Distinction
  <2>. QED
    BY <1>0, <1>3, <2>1 DEF SeparateEntries
<1>. QED
  BY <1>1, <1>2, <1>3 DEF CloseOf

LEMMA OnlyActorCalls ==
    ASSUME TypeInv, NEW p \in Instances, InstanceStep(p), NEW q \in Instances, q # p
    PROVE  calls'[q] = calls[q]
<1>1. CASE Start(p) \/ Retry(p)
  BY <1>1 DEF Start, Retry, TypeInv, BindingTypeOK
<1>2. CASE Exit(p) \/ Crash(p)
  BY <1>2 DEF Exit, Crash, Ends
<1>. QED
  BY <1>1, <1>2, CloseShapes

LEMMA OnlyTheEndIsDown ==
    ASSUME TypeInv, NEW p \in Instances, InstanceStep(p), pc[p] # "down", pc'[p] = "down"
    PROVE  Exit(p) \/ Crash(p)
BY DEF InstanceStep, BindStep, listen_named, BacklogRefused, PathUnlink, PathBind, PathTool, EnvRefuses, AdoptFd,
       RejectFd, BindInetd, BindUnusable, BindDone, DropNext, DropsLast, KernelRefuses, UnlinkRefused, OtherOpens,
       Start, Retry, Goes, After, TypeInv, BindingTypeOK

LEMMA FirstCallStep ==
    ASSUME TypeInv, FirstCallInv, NEW p \in Instances, InstanceStep(p)
    PROVE  FirstCallInv'
<1>0. /\ UNCHANGED <<addrs, opts>> /\ (DistinctFds' <=> DistinctFds)
      /\ v[p] \in Seq(Int) /\ NoFd \notin Fds /\ NoFd \notin Passed
  BY OnlyActor, NumbersAreInts, NoFdIsNotPassed DEF DistinctFds, TypeInv, BindingTypeOK
<1>1. ASSUME NEW i \in Instances, i # p
      PROVE  /\ pc'[i] = "down" => \A n \in Fds : fds'[i][n] = Free
             /\ pc'[i] # "down" => calls'[i] # 0
             /\ calls'[i] = 1 => InheritedStill(i)'
             /\ (calls'[i] = 1 /\ DistinctFds' /\ ~opts'.ignoreEnv) => SeparateEntries(i)'
  BY <1>0, <1>1, OnlyActor, OnlyActorCalls DEF FirstCallInv, InheritedStill, SeparateEntries
<1>. DEFINE Fine == /\ pc[p] = "down" => \A n \in Fds : fds[p][n] = Free
                    /\ pc[p] # "down" => calls[p] # 0
                    /\ calls[p] = 1 => InheritedStill(p)
                    /\ (calls[p] = 1 /\ DistinctFds /\ ~opts.ignoreEnv) => SeparateEntries(p)
<1>2. Fine
  BY DEF FirstCallInv
<1>. DEFINE Checked == calls[p] = 1 /\ DistinctFds /\ ~opts.ignoreEnv
<1>3. ASSUME Start(p) PROVE Fine'
  <2>1. /\ pc'[p] = "binding" /\ v'[p] = <<>> /\ calls'[p] = 1
        /\ \A n \in Fds : fds'[p][n] = IF n \in Passed THEN Inherited ELSE Free
    BY <1>3 DEF Start, Goes, TypeInv, BindingTypeOK, PlaceOK
  <2>. QED
    BY <2>1 DEF InheritedStill, SeparateEntries
<1>4. ASSUME Retry(p) PROVE Fine'
  <2>1. calls[p] \in Nat /\ calls[p] # 0 /\ calls'[p] = calls[p] + 1 /\ pc'[p] = "binding"
    BY <1>2, <1>4, BindingAssumption DEF Retry, Goes, TypeInv, BindingTypeOK
  <2>. QED
    BY <2>1
<1>5. ASSUME Exit(p) \/ Crash(p) PROVE Fine'
  <2>1. /\ pc'[p] = "down" /\ v'[p] = <<>> /\ \A n \in Fds : fds'[p][n] = Free
    BY <1>5 DEF Exit, Crash, Ends, Goes, TypeInv, BindingTypeOK
  <2>. QED
    BY <2>1 DEF InheritedStill, SeparateEntries, Good
<1>6. ASSUME UNCHANGED calls, pc[p] \in Good, pc'[p] # "down", NEW n \in Int,
             v'[p] = Append(v[p], n),
             \A m \in Fds : \/ fds'[p][m] = fds[p][m]
                            \/ fds[p][m] = Free /\ fds'[p][m] \notin {Free, Other},
             (Checked /\ n # NoFd) => /\ n \in Fds /\ fds'[p][n] \notin {Free, Other}
                                      /\ \A j \in DOMAIN v[p] : v[p][j] # n,
             (calls[p] = 1 /\ n \in Passed) => /\ At(p) \in DOMAIN addrs
                                               /\ addrs[At(p)].kind = "fd" /\ addrs[At(p)].name = n
      PROVE  Fine'
  <2>1. /\ DOMAIN v'[p] = DOMAIN v[p] \cup {At(p)} /\ v'[p][At(p)] = n /\ At(p) \notin DOMAIN v[p]
        /\ \A k \in DOMAIN v[p] : v'[p][k] = v[p][k]
    BY <1>0, <1>6 DEF At
  <2>2. ASSUME calls[p] = 1 PROVE InheritedStill(p)'
    <3>1. InheritedStill(p)
      BY <1>2, <2>2
    <3>. QED
      BY <1>0, <1>6, <2>1, <2>2, <3>1, Distinction DEF InheritedStill
  <2>3. ASSUME Checked PROVE SeparateEntries(p)'
    <3>1. SeparateEntries(p)
      BY <1>2, <2>3
    <3>2. ASSUME NEW k \in DOMAIN v'[p]
          PROVE  v'[p][k] = NoFd \/ (v'[p][k] \in Fds /\ fds'[p][v'[p][k]] \notin {Free, Other})
      BY <1>6, <2>1, <2>3, <3>1, <3>2 DEF SeparateEntries
    <3>3. ASSUME NEW j \in DOMAIN v'[p], NEW k \in DOMAIN v'[p], v'[p][j] = v'[p][k]
          PROVE  j = k \/ v'[p][j] = NoFd
      BY <1>6, <2>1, <2>3, <3>1, <3>3 DEF SeparateEntries
    <3>. QED
      BY <3>2, <3>3 DEF SeparateEntries
  <2>4. calls[p] # 0
    BY <1>2, <1>6 DEF Good
  <2>. QED
    BY <1>0, <1>6, <2>2, <2>3, <2>4
<1>7. ASSUME UNCHANGED calls /\ Binds(p) /\ pc'[p] # "down" PROVE Fine'
  <2>1. PICK n \in Fds : /\ fds[p][n] = Free
                         /\ fds' = [fds EXCEPT ![p][n] = Own(At(p))]
                         /\ v' = [v EXCEPT ![p] = Append(@, n)]
    BY <1>7 DEF Binds
  <2>2. /\ v'[p] = Append(v[p], n) /\ n \in Int /\ fds'[p][n] = Own(At(p))
        /\ \A m \in Fds : m # n => fds'[p][m] = fds[p][m]
    BY <2>1, NumbersAreInts DEF TypeInv, BindingTypeOK
  <2>3. pc[p] \in Good
    BY <1>7 DEF Binds, Good
  <2>4. calls[p] = 1 => n \notin Passed
    BY <1>2, <2>1, <2>3, Distinction DEF InheritedStill
  <2>5. Checked => \A j \in DOMAIN v[p] : v[p][j] # n
    BY <1>0, <1>2, <2>1 DEF SeparateEntries
  <2>6. \A m \in Fds : \/ fds'[p][m] = fds[p][m]
                       \/ fds[p][m] = Free /\ fds'[p][m] \notin {Free, Other}
    BY <2>1, <2>2, Distinction
  <2>7. n \in Fds /\ fds'[p][n] \notin {Free, Other}
    BY <2>2, Distinction
  <2>. HIDE DEF Fine
  <2>. QED
    BY <1>6, <1>7, <2>2, <2>3, <2>4, <2>5, <2>6, <2>7
<1>8. ASSUME UNCHANGED calls /\ Adopts(p) /\ pc'[p] # "down" PROVE Fine'
  <2>1. PICK n \in Int : /\ v' = [v EXCEPT ![p] = Append(@, n)]
                         /\ addrs[At(p)].kind = "inetd" => n = NoFd
                         /\ addrs[At(p)].kind = "fd" => /\ n = addrs[At(p)].name /\ Allowed(n)
                                                        /\ Refers(p, n) # Free /\ ~Registered(p, n)
    BY <1>8 DEF Adopts
  <2>2. /\ v'[p] = Append(v[p], n) /\ fds' = fds /\ pc[p] \in Good
        /\ At(p) \in DOMAIN addrs /\ addrs[At(p)].kind \in {"fd", "inetd"}
    BY <1>8, <2>1 DEF Adopts, Good, TypeInv, BindingTypeOK
  <2>3. n \in Passed => addrs[At(p)].kind = "fd" /\ addrs[At(p)].name = n
    BY <1>0, <2>1, <2>2
  \* What the check lets pass is inherited, so nothing else of the process.
  <2>4. ASSUME Checked, n # NoFd
        PROVE  n \in Fds /\ fds'[p][n] \notin {Free, Other} /\ \A j \in DOMAIN v[p] : v[p][j] # n
    <3>1. n \in Fds /\ \A j \in DOMAIN v[p] : v[p][j] # n
      BY <2>1, <2>2, <2>4 DEF Refers, Registered
    <3>2. n \in Passed
      BY <2>1, <2>2, <2>4, AllowedArePassed DEF Allowed
    <3>3. fds[p][n] = Inherited
      BY <1>2, <2>2, <2>4, <3>1, <3>2 DEF InheritedStill
    <3>. QED
      BY <2>2, <3>1, <3>3, Distinction
  <2>. HIDE DEF Fine
  <2>. QED
    BY <1>6, <1>8, <2>2, <2>3, <2>4
<1>9. ASSUME UNCHANGED calls, pc[p] # "down", Quiet(p) PROVE Fine'
  <2>1. calls[p] = 1 => InheritedStill(p)'
    BY <1>0, <1>2, <1>9, Distinction DEF Quiet, InheritedStill
  <2>2. Checked => SeparateEntries(p)'
    BY <1>0, <1>2, <1>9 DEF Quiet, SeparateEntries
  <2>3. pc'[p] = "down" => \A n \in Fds : fds'[p][n] = Free
    BY <1>2, <1>9 DEF Quiet
  <2>4. pc'[p] # "down" => calls'[p] # 0
    BY <1>2, <1>9
  <2>. QED
    BY <1>0, <1>9, <2>1, <2>2, <2>3, <2>4
<1>10. ASSUME UNCHANGED calls, NEW m, CloseOf(p, m), pc[p] # "down", pc'[p] # "down" PROVE Fine'
  <2>1. InheritedStill(p)'
    BY <1>10 DEF CloseOf, InheritedStill
  <2>2. ASSUME Checked PROVE SeparateEntries(p)'
    <3>1. SeparateEntries(p)
      BY <1>2, <2>2
    <3>2. \A n \in Fds : n # m => fds'[p][n] = fds[p][n]
      BY <1>10, ClosesType DEF CloseOf, TypeInv
    <3>. QED
      BY <1>10, <2>2, <3>1, <3>2, ClosedNumber DEF SeparateEntries
  <2>3. calls[p] # 0
    BY <1>2, <1>10
  <2>. QED
    BY <1>0, <1>10, <2>1, <2>2, <2>3
<1>11. Fine'
  <2>1. CASE Start(p) \/ Retry(p) \/ Exit(p) \/ Crash(p)
    BY <1>3, <1>4, <1>5, <2>1
  <2>2. CASE ~(Start(p) \/ Retry(p) \/ Exit(p) \/ Crash(p))
    <3>1. pc[p] # "down"
      BY <2>2 DEF InstanceStep, BindStep, listen_named, BacklogRefused, PathUnlink, PathBind, PathTool, EnvRefuses,
         AdoptFd, RejectFd, BindInetd, BindUnusable, BindDone, DropNext, KernelRefuses, UnlinkRefused, OtherOpens,
         Binding, Tools, TypeInv, BindingTypeOK
    <3>. QED
      BY <1>7, <1>8, <1>9, <1>10, <2>2, <3>1, CloseShapes, OnlyTheEndIsDown
  <2>. QED
    BY <2>1, <2>2
<1>. QED
  BY <1>1, <1>11 DEF FirstCallInv

LEMMA FirstCallInit == Init => FirstCallInv
BY DEF Init, FirstCallInv

LEMMA FirstCallNext == TypeInv /\ FirstCallInv /\ [Next]_vars => FirstCallInv'
<1>. SUFFICES ASSUME TypeInv, FirstCallInv, [Next]_vars PROVE FirstCallInv'
  OBVIOUS
<1>1. CASE UNCHANGED bindVars
  BY <1>1 DEF bindVars, FirstCallInv, InheritedStill, SeparateEntries, DistinctFds
<1>. QED
  BY <1>1, FirstCallStep DEF Next, TimeWaitOver, vars

(***************************************************************************)
(* Whatever another thread of the process opens while bind_multiple is     *)
(* called for the first time, no failure in it closes that, if the         *)
(* environment is checked and no descriptor is listed twice.               *)
(***************************************************************************)
THEOREM FirstCallKeepsOthers == Spec => OthersKept
<1>. DEFINE Kept == \A i \in Instances, n \in Fds :
        (/\ fds[i][n] = Other /\ pc'[i] # "down"
         /\ calls[i] = 1 /\ DistinctFds /\ ~opts.ignoreEnv) => fds'[i][n] = Other
<1>1. TypeInv /\ FirstCallInv /\ [Next]_vars => [Kept]_vars
  <2>. SUFFICES ASSUME TypeInv, FirstCallInv, NEW p \in Instances, InstanceStep(p) \/ TimeWaitOver,
                       NEW i \in Instances, NEW n \in Fds,
                       fds[i][n] = Other, pc'[i] # "down", calls[i] = 1, DistinctFds, ~opts.ignoreEnv
                PROVE  fds'[i][n] = Other
    BY BindingAssumption DEF Next
  <2>1. CASE TimeWaitOver
    BY <2>1 DEF TimeWaitOver, bindVars
  <2>2. CASE InstanceStep(p) /\ i # p
    BY <2>2, OnlyActor
  <2>3. CASE InstanceStep(p) /\ i = p
    <3>1. pc[p] # "down"
      BY <2>3, Distinction DEF FirstCallInv
    <3>2. CASE Start(p) \/ Exit(p) \/ Crash(p) \/ Retry(p)
      BY <2>3, <3>1, <3>2 DEF Start, Exit, Crash, Ends, Goes, Retry, TypeInv, BindingTypeOK
    <3>3. CASE Binds(p) \/ Adopts(p) \/ Quiet(p)
      BY <2>3, <3>3, Distinction DEF Binds, Adopts, Quiet, TypeInv, BindingTypeOK
    <3>4. ASSUME NEW m, CloseOf(p, m) PROVE fds'[i][n] = Other
      <4>1. m # n
        BY <2>3, <3>4, ClosedNumber
      <4>. QED
        BY <2>3, <3>4, <4>1, ClosesType DEF CloseOf, TypeInv
    <3>. QED
      BY <2>3, <3>2, <3>3, <3>4, CloseShapes
  <2>. QED
    BY <2>1, <2>2, <2>3
<1>. QED
  BY TypeInit, TypeStep, FirstCallInit, FirstCallNext, <1>1, PTL DEF Spec, OthersKept

(***************************************************************************)
(* In the first call of a process every number that the environment check  *)
(* lets pass still refers to the descriptor that was passed.               *)
(***************************************************************************)
THEOREM FirstCheckHolds == ASSUME Passed \subseteq Fds PROVE Spec => []FirstCheckIsValid
<1>1. TypeInv /\ FirstCallInv => FirstCheckIsValid
  <2>. SUFFICES ASSUME TypeInv, FirstCallInv, NEW i \in Instances, calls[i] = 1,
                       Binding(i, {"fd"}), check_env_for_fd(Env, addrs[At(i)].name)
                PROVE  Refers(i, addrs[At(i)].name) = Inherited
    BY DEF FirstCheckIsValid
  <2>. DEFINE n == addrs[At(i)].name
  <2>1. n \in Int
    BY AddressOK DEF Binding, TypeInv
  <2>2. n \in Passed /\ n \in Fds
    BY <2>1, AllowedArePassed
  <2>3. InheritedStill(i) /\ pc[i] \in Good
    BY DEF FirstCallInv, Binding, Good
  <2>. HIDE DEF n
  <2>4. fds[i][n] = Inherited
    BY <2>2, <2>3 DEF InheritedStill
  <2>. QED
    BY <2>2, <2>4 DEF Refers, n
<1>. QED
  BY <1>1, TypeInit, TypeStep, FirstCallInit, FirstCallNext, PTL DEF Spec
=============================================================================
