--------------------------- MODULE ServingProofs ---------------------------
(***************************************************************************)
(* What holds of a Listener holds of one that a server polls; the servers  *)
(* that have a retrier stay up; and every server over a bare inetd         *)
(* listener does the steps of InetdPromise in their order.                 *)
(***************************************************************************)
EXTENDS Serving, ListenerProofs

(* A server does to its listener nothing that Listener does not know. *)
LEMMA ServerSteps == ServingNext => [Next]_vars
<1> SUFFICES ASSUME ServingNext PROVE [Next]_vars
  OBVIOUS
<1>1. CASE Server
  BY <1>1 DEF Server, CallAccept, TakeConnection, SpawnConnection, TakeError,
              WakeUp, Next
<1>2. CASE ListenerStep
  BY <1>2 DEF ListenerStep, Next
<1>3. CASE Write \/ Written \/ TakeApart \/ Exited
  BY <1>3 DEF Write, Written, TakeApart, Exited
<1>4. ASSUME NEW s \in Source, PollShutdown(s) \/ DropConnection(s)
      PROVE  [Next]_vars
  BY <1>4 DEF PollShutdown, DropConnection, Next, Environment
<1>5. CASE Surroundings
  BY <1>5 DEF Surroundings, Next, Environment
<1> QED
  BY <1>1, <1>2, <1>3, <1>4, <1>5 DEF ServingNext

LEMMA ServingBox == [ServingNext]_servingVars => [Next]_vars
BY ServerSteps DEF servingVars

LEMMA ServingTypeStep ==
  ServingTypeOK /\ [ServingNext]_servingVars => ServingTypeOK'
<1> SUFFICES ASSUME ServingTypeOK, [ServingNext]_servingVars
             PROVE  ServingTypeOK'
  OBVIOUS
<1>1. TypeOK'
  BY TypeStep, ServingBox DEF ServingTypeOK
<1> DEFINE OwnType == /\ adapter \in Adapters
                      /\ server \in {"loop", "accepting", "setup", "sleeping",
                                     "hanging", "returned", "failed"}
                      /\ conn \in {"none", "held", "open", "parts", "shut", "gone"}
                      /\ output \in {"clean", "dirty", "failed"}
<1>2. OwnType
  BY DEF ServingTypeOK
<1>3. CASE Server /\ UNCHANGED adapter
  <2>1. CASE CallAccept \/ WakeUp
    BY <1>1, <1>2, <1>3, <2>1 DEF CallAccept, WakeUp, ServingTypeOK
  <2>3. CASE SpawnConnection \/ TakeConnection
    <3>1. Spawned \in {"none", "held", "open", "parts", "shut", "gone"}
      BY <1>2 DEF Spawned
    <3>2. /\ server' \in {"setup", "loop"}
          /\ conn' = conn \/ conn' = Spawned
          /\ UNCHANGED output
      BY <2>3 DEF SpawnConnection, TakeConnection
    <3> QED
      BY <1>1, <1>2, <1>3, <3>1, <3>2 DEF ServingTypeOK
  <2>2. ASSUME NEW e \in Errors, TakeError(e) PROVE OwnType'
    BY <1>2, <1>3, <2>2 DEF TakeError, Axum07Error, Hyper014Error, Axum08Error,
                            TonicError, WhileLetOkError
  <2> QED
    BY <1>1, <1>3, <2>1, <2>2, <2>3 DEF Server, ServingTypeOK
<1>4. CASE ListenerStep /\ UNCHANGED adapter
  BY <1>1, <1>2, <1>4 DEF ListenerStep, ServingTypeOK
<1>5. CASE (Write \/ Written \/ TakeApart \/ Exited) /\ UNCHANGED adapter
  BY <1>1, <1>2, <1>5 DEF Write, Written, TakeApart, Exited, ServingTypeOK
<1>6. ASSUME NEW s \in Source, PollShutdown(s) \/ DropConnection(s),
             UNCHANGED adapter
      PROVE  ServingTypeOK'
  BY <1>1, <1>2, <1>6 DEF PollShutdown, DropConnection, ServingTypeOK
<1>7. CASE Surroundings /\ UNCHANGED adapter
  BY <1>1, <1>2, <1>7 DEF Surroundings, ServingTypeOK
<1>8. CASE UNCHANGED servingVars
  BY <1>1, <1>2, <1>8 DEF servingVars, ServingTypeOK
<1> QED
  BY <1>3, <1>4, <1>5, <1>6, <1>7, <1>8 DEF ServingNext

(* Every variable keeps its type: in the end no server is in a state that  *)
(* its loop does not know.                                                 *)
THEOREM ServingTypeCorrect == ServingSpec => []ServingTypeOK
<1>1. ServingInit => ServingTypeOK
  BY InitType DEF ServingInit, ServingTypeOK
<1> QED
  BY <1>1, ServingTypeStep, PTL DEF ServingSpec

(* What WakeupsAreKept says of poll_accept holds under every server. *)
THEOREM ServersAreWoken == ServingSpec => []NoLostWakeup
<1>1. ServingInit => LoopInv
  BY LoopInvInit DEF ServingInit
<1>2. LoopInv /\ [ServingNext]_servingVars => LoopInv'
  BY ServingBox, LoopInvStep
<1> QED
  BY <1>1, <1>2, LoopInvImpliesNoLostWakeup, PTL DEF ServingSpec

-----------------------------------------------------------------------------
(* Output is flushed before stdout counts as shut down, and nothing writes *)
(* to it after that.                                                       *)
ShutIsFlushed == conn = "shut" => output # "dirty"

LEMMA ShutIsFlushedStep ==
  ShutIsFlushed /\ [ServingNext]_servingVars => ShutIsFlushed'
<1> SUFFICES ASSUME ShutIsFlushed, [ServingNext]_servingVars
             PROVE  ShutIsFlushed'
  OBVIOUS
<1>1. CASE Server
  BY <1>1 DEF Server, CallAccept, TakeConnection, SpawnConnection, TakeError,
              WakeUp, Spawned, ShutIsFlushed
<1>2. CASE ListenerStep \/ Surroundings \/ Exited \/ UNCHANGED servingVars
  BY <1>2 DEF ListenerStep, Surroundings, Exited, servingVars, ShutIsFlushed
<1>3. CASE Write \/ Written \/ TakeApart
  BY <1>3 DEF Write, Written, TakeApart, ShutIsFlushed
<1>4. ASSUME NEW s \in Source, PollShutdown(s) \/ DropConnection(s)
      PROVE  ShutIsFlushed'
  BY <1>4 DEF PollShutdown, DropConnection, ShutIsFlushed
<1> QED
  BY <1>1, <1>2, <1>3, <1>4 DEF ServingNext

(* For any sources, clients and servers: a process that ends after the     *)
(* orderly shutdown of its stdio connection leaves no output behind.       *)
THEOREM OutputIsWritten == ServingSpec => []OutputOutlivesServer
<1>1. ServingInit => ShutIsFlushed
  BY DEF ServingInit, ShutIsFlushed
<1>2. ShutIsFlushed => OutputOutlivesServer
  BY DEF ShutIsFlushed, OutputOutlivesServer
<1> QED
  BY <1>1, <1>2, ShutIsFlushedStep, PTL DEF ServingSpec

-----------------------------------------------------------------------------
(* A server without the retrier is axum 0.7's or tonic's, and any other    *)
(* gets no error from its listener.                                        *)
UpInv ==
  /\ sleep_on_errors \/ adapter \in {"axum07", "tonic"}
  /\ sleep_on_errors => result \notin Errors
  /\ RetrierKeepsServersUp

LEMMA ErrorsAreSleptOver ==
  ASSUME ~StdioOnly, [Next]_vars, sleep_on_errors
  PROVE  sleep_on_errors' /\ (result' \in Errors => result' = result)
<1>1. CASE Environment
  BY <1>1 DEF Environment, Connect, Abort, Hangup, CloseSenders, ReleaseStdio,
              Exhaust, Recover, sourceVars, loopVars
<1>2. CASE Runtime
  BY <1>2 DEF Runtime, SecondPasses, Resume, Deliver, sourceVars, loopVars
<1>3. CASE Call \/ Cancel \/ CheckTimer
  BY <1>3 DEF Call, Cancel, CheckTimer, sourceVars
<1>4. ASSUME NEW e, Fail(e) PROVE UNCHANGED result
  BY <1>4 DEF Fail
<1>5. ASSUME NEW s \in Source, PollSource(s)
      PROVE  UNCHANGED sleep_on_errors /\ (UNCHANGED result \/ result' = "conn")
  BY <1>4, <1>5 DEF PollSource, PollPending, AcceptFails, AcceptAborted, Retry,
       AcceptOk, AcceptRejected, StdioAccept, StdioTaken, MpscRecv, MpscBroken,
       Return, sourceVars
<1>6. CASE UNCHANGED vars
  BY <1>6 DEF vars, sourceVars, loopVars
<1> QED
  BY <1>1, <1>2, <1>3, <1>5, <1>6 DEF Next, PollAccept, Errors

LEMMA OptionsStay ==
  ASSUME [ServingNext]_servingVars
  PROVE  UNCHANGED <<adapter, sleep_on_errors>>
<1>1. UNCHANGED adapter
  BY DEF ServingNext, servingVars
<1>2. [Next]_vars => UNCHANGED sleep_on_errors
  BY DEF Next, Environment, Connect, Abort, Hangup, CloseSenders,
    ReleaseStdio, Exhaust, Recover, Runtime, SecondPasses, Resume, Deliver,
    Call, Cancel, PollAccept, CheckTimer, PollSource, PollPending,
    AcceptFails, AcceptAborted, AcceptOk, AcceptRejected, StdioAccept,
    StdioTaken, MpscRecv, MpscBroken, vars, sourceVars
<1> QED
  BY <1>1, <1>2, ServingBox

LEMMA UpInvStep ==
  ASSUME ~StdioOnly, UpInv, [ServingNext]_servingVars
  PROVE  UpInv'
<1>1. UNCHANGED <<adapter, sleep_on_errors>>
  BY OptionsStay
<1>2. sleep_on_errors' => result' \notin Errors
  BY <1>1, ServingBox, ErrorsAreSleptOver DEF UpInv
<1>3. RetrierKeepsServersUp'
  <2>1. CASE \E e \in Errors : TakeError(e)
    <3>1. PICK e \in Errors : TakeError(e)
      BY <2>1
    <3>2. ~sleep_on_errors
      BY <3>1 DEF TakeError, Accepted, UpInv
    <3>3. adapter \in {"axum07", "tonic"} /\ ~no_more_connections
      BY <3>2 DEF UpInv, no_more_connections
    <3> QED
      BY <3>1, <3>3 DEF TakeError, Axum07Error, Hyper014Error, Axum08Error,
           TonicError, WhileLetOkError, RetrierKeepsServersUp, Stopped
  <2>2. CASE CallAccept \/ TakeConnection \/ SpawnConnection \/ WakeUp
    BY <2>2 DEF CallAccept, TakeConnection, SpawnConnection, WakeUp, UpInv,
                RetrierKeepsServersUp, Stopped
  <2>3. CASE UNCHANGED server
    BY <2>3 DEF UpInv, RetrierKeepsServersUp, Stopped
  <2> QED
    BY <2>1, <2>2, <2>3 DEF ServingNext, Server, ListenerStep, Write, Written,
         TakeApart, PollShutdown, DropConnection, Surroundings, Exited,
         servingVars
<1> QED
  BY <1>1, <1>2, <1>3 DEF UpInv

(* No failure of accept(2), of a socket option or of the mpsc channel ends *)
(* or blocks a server with sleep_on_errors, nor axum 0.7's without it.     *)
THEOREM RetrierIsEnough ==
  ASSUME ~StdioOnly,
         \A p \in Servers : p[2] \/ p[1] \in {"axum07", "tonic"}
  PROVE  ServingSpec => []RetrierKeepsServersUp
<1>1. ServingInit => UpInv
  BY DEF ServingInit, Init, UpInv, Errors, RetrierKeepsServersUp, Stopped
<1>2. UpInv /\ [ServingNext]_servingVars => UpInv'
  BY UpInvStep
<1>3. UpInv => RetrierKeepsServersUp
  BY DEF UpInv
<1> QED
  BY <1>1, <1>2, <1>3, PTL DEF ServingSpec

-----------------------------------------------------------------------------
(* A listener without the retrier, under axum 0.7: whoever polls it is     *)
(* inside accept, and in the second after an error the adapter is about to *)
(* sleep or sleeps.                                                        *)
AdapterSleeps ==
  ~sleep_on_errors =>
    /\ adapter = "axum07"
    /\ task # "idle" => server = "accepting"
    /\ cooling =>
         /\ task = "idle" /\ cursor = 0
         /\ \/ server = "sleeping"
            \/ server = "accepting" /\ result \in Errors

LEMMA AdapterSleepsStep ==
  ASSUME ~StdioOnly, AdapterSleeps, [ServingNext]_servingVars
  PROVE  AdapterSleeps'
<1> SUFFICES ASSUME ~sleep_on_errors PROVE AdapterSleeps'
  BY OptionsStay DEF AdapterSleeps
<1>0. UNCHANGED <<adapter, sleep_on_errors>> /\ adapter = "axum07"
  BY OptionsStay DEF AdapterSleeps
<1>1. CASE Environment /\ UNCHANGED server
  BY <1>0, <1>1 DEF AdapterSleeps, Environment, Connect, Abort, Hangup,
     CloseSenders, ReleaseStdio, Exhaust, Recover, sourceVars, loopVars
<1>2. CASE Runtime /\ UNCHANGED server
  BY <1>0, <1>2 DEF AdapterSleeps, Runtime, SecondPasses, Resume, Deliver,
     sourceVars, loopVars
<1>3. CASE CheckTimer /\ UNCHANGED server
  BY <1>0, <1>3 DEF AdapterSleeps, CheckTimer
\* An error that gets through ends the call, and there the adapter finds it.
<1>4. ASSUME NEW e \in Errors, Fail(e), task = "polling", UNCHANGED server
      PROVE  AdapterSleeps'
  BY <1>0, <1>4 DEF AdapterSleeps, Fail, Return
<1>5. ASSUME NEW s \in Source, PollSource(s), UNCHANGED server
      PROVE  AdapterSleeps'
  <2>1. task = "polling" /\ ~cooling /\ server = "accepting"
    BY <1>0, <1>5 DEF AdapterSleeps, PollSource, PollPending, AcceptFails,
       AcceptAborted, CanAccept, AcceptOk, AcceptRejected, StdioAccept,
       StdioTaken, MpscRecv, MpscBroken, Polls
  <2>2. (\E e \in Errors : Fail(e)) \/ UNCHANGED cooling
    BY <1>5 DEF PollSource, PollPending, AcceptFails, AcceptAborted, Retry,
       AcceptOk, AcceptRejected, StdioAccept, StdioTaken, MpscRecv, MpscBroken,
       Errors
  <2> QED
    BY <1>0, <1>4, <1>5, <2>1, <2>2 DEF AdapterSleeps
<1>6. CASE CallAccept
  BY <1>0, <1>6 DEF AdapterSleeps, CallAccept, Call
<1>7. ASSUME NEW e \in Errors, TakeError(e) PROVE AdapterSleeps'
  <2>1. server' = "sleeping" /\ task = "idle" /\ UNCHANGED vars
    BY <1>0, <1>7 DEF TakeError, Accepted, Axum07Error, Hyper014Error,
       Axum08Error, TonicError, WhileLetOkError, no_more_connections
  <2> QED
    BY <1>0, <2>1 DEF AdapterSleeps, vars, loopVars, sourceVars
<1>8. CASE TakeConnection \/ SpawnConnection \/ WakeUp
  BY <1>0, <1>8 DEF AdapterSleeps, TakeConnection, SpawnConnection, WakeUp,
     Accepted, Errors, vars, loopVars, sourceVars
<1>9. CASE UNCHANGED <<vars, server>>
  BY <1>0, <1>9 DEF AdapterSleeps, vars, loopVars, sourceVars
<1> QED
  BY <1>1, <1>2, <1>3, <1>5, <1>6, <1>7, <1>8, <1>9
     DEF ServingNext, Server, ListenerStep, PollAccept, Write, Written,
         TakeApart, PollShutdown, DropConnection, Surroundings, Environment,
         Exited, servingVars

(* Axum 0.7's sleep is as good a backoff as the retrier: no source is      *)
(* polled in the second after an error, whichever of the two there is.     *)
THEOREM BackoffUnderServers ==
  ASSUME ~StdioOnly, \A p \in Servers : p[2] \/ p[1] = "axum07"
  PROVE  ServingSpec => []NoAcceptWhileCooling
<1> DEFINE BackoffInv == LoopInv /\ CoolingArmed /\ AdapterSleeps
<1>1. ServingInit => BackoffInv
  BY LoopInvInit DEF ServingInit, Init, CoolingArmed, AdapterSleeps
<1>2. BackoffInv /\ [ServingNext]_servingVars => BackoffInv'
  BY ServingBox, LoopInvStep, CoolingStep, AdapterSleepsStep
<1>3. BackoffInv => NoAcceptWhileCooling
  BY DEF LoopInv, TimerBeforeSources, CoolingArmed, AdapterSleeps,
     NoAcceptWhileCooling
<1> QED
  BY <1>1, <1>2, <1>3, PTL DEF ServingSpec

-----------------------------------------------------------------------------

(* The token tells the stdio connection's state, and the listener reports  *)
(* no error before the token is back.                                      *)
InetdInv ==
  /\ token \in [Source -> {"kept", "lent", "released", "spent"}]
  /\ conn \in {"none", "held", "open", "parts", "shut", "gone"}
  /\ token[1] = "kept" <=> conn = "none"
  /\ token[1] = "lent" <=> conn \in {"held", "open", "parts"}
  /\ result \in Errors => token[1] = "spent"
  /\ Stopped => token[1] = "spent" /\ server = "returned"

LEMMA StdioSource ==
  ASSUME StdioOnly
  PROVE  /\ Source = {1}
         /\ \A s \in Source : Kind[s] = "stdio" /\ ~IsSocket(s)
BY DEF StdioOnly, Source, IsSocket, SocketKinds

LEMMA InetdInit == StdioOnly /\ ServingInit => InetdInv
BY StdioSource DEF ServingInit, Init, InetdInv, Errors, Stopped

(* What one poll of the listener does to the token and the result. *)
LEMMA ListenerStepTokens ==
  ASSUME StdioOnly, InetdInv, Runtime \/ PollAccept
  PROVE  \/ UNCHANGED <<token, result>>
         \/ /\ token[1] = "kept" /\ token' = [token EXCEPT ![1] = "lent"]
            /\ result' = "conn"
         \/ /\ token[1] = "released" /\ token' = [token EXCEPT ![1] = "spent"]
            /\ result' = "taken"
<1>1. CASE Runtime
  BY <1>1 DEF Runtime, SecondPasses, Resume, Deliver, sourceVars, loopVars
<1>2. CASE CheckTimer
  BY <1>2 DEF CheckTimer, sourceVars
<1>3. ASSUME NEW s \in Source, PollSource(s)
      PROVE  PollPending(s) \/ StdioAccept(s) \/ StdioTaken(s)
  BY <1>3, StdioSource DEF PollSource, AcceptFails, AcceptAborted, AcceptOk,
       AcceptRejected, CanAccept, MpscRecv, MpscBroken
<1>4. ASSUME NEW s \in Source, PollPending(s)
      PROVE  UNCHANGED <<token, result>>
  BY <1>4 DEF PollPending, sourceVars
<1>5. ASSUME NEW s \in Source, StdioAccept(s)
      PROVE  /\ token[1] = "kept" /\ token' = [token EXCEPT ![1] = "lent"]
             /\ result' = "conn"
  BY <1>5, StdioSource DEF StdioAccept, Return
<1>6. ASSUME NEW s \in Source, StdioTaken(s)
      PROVE  /\ token[1] = "released" /\ token' = [token EXCEPT ![1] = "spent"]
             /\ result' = "taken"
  BY <1>6, StdioSource DEF StdioTaken, Fail, Return
<1> QED
  BY <1>1, <1>2, <1>3, <1>4, <1>5, <1>6 DEF PollAccept

LEMMA InetdStep ==
  ASSUME StdioOnly, InetdInv, [ServingNext]_servingVars
  PROVE  InetdInv' /\ [Promise!Next]_(Promise!vars)
<1> DEFINE Abstract == [Promise!Next]_(Promise!vars)
<1>1. ASSUME UNCHANGED <<token, result, conn, server>>
      PROVE  InetdInv' /\ Abstract
  BY <1>1 DEF InetdInv, Stopped, Promise!vars, Session, AcceptLoop
<1>2. CASE CallAccept
  BY <1>2 DEF CallAccept, Call, sourceVars, InetdInv, Stopped, Errors,
              Promise!vars, Session, AcceptLoop
<1>3. CASE TakeConnection \/ SpawnConnection
  <2>1. UNCHANGED <<token, result, Session, AcceptLoop>>
    BY <1>3 DEF TakeConnection, SpawnConnection, Accepted, Spawned, Session,
                AcceptLoop, Stopped, vars, sourceVars, loopVars, InetdInv
  <2>2. InetdInv'
    BY <1>3, <2>1 DEF TakeConnection, SpawnConnection, Accepted, Spawned,
                      InetdInv, Stopped, Errors
  <2> QED
    BY <2>1, <2>2 DEF Promise!vars
<1>4. ASSUME NEW e \in Errors, TakeError(e) PROVE InetdInv' /\ Abstract
  <2>1. token[1] = "spent" /\ conn \in {"shut", "gone"}
    BY <1>4 DEF TakeError, Accepted, InetdInv
  <2>2. UNCHANGED <<token, result, conn>> /\ ~Stopped
    BY <1>4 DEF TakeError, Accepted, vars, sourceVars, loopVars, Stopped
  <2>3. no_more_connections /\ server' # "failed"
    BY <1>4, <2>1 DEF no_more_connections, TakeError, Axum07Error, Hyper014Error,
                      Axum08Error, TonicError, WhileLetOkError
  <2>4. InetdInv'
    BY <2>1, <2>2, <2>3 DEF InetdInv, Stopped
  <2>5. Session = "finished" /\ Session' = "finished" /\ AcceptLoop = "up"
    BY <2>1, <2>2 DEF Session, AcceptLoop
  <2> QED
    BY <2>3, <2>4, <2>5 DEF AcceptLoop, Stopped, Promise!Next, Promise!Return, Promise!vars
<1>5. CASE WakeUp
  BY <1>5 DEF WakeUp, vars, sourceVars, loopVars, InetdInv, Stopped, Errors,
              Promise!vars, Session, AcceptLoop
<1>6. CASE ListenerStep
  <2>1. /\ UNCHANGED <<server, output>>
        /\ conn' = IF token[1] = "kept" /\ token'[1] = "lent"
                   THEN "held" ELSE conn
    BY <1>6, StdioSource DEF ListenerStep
  <2>2. AcceptLoop' = AcceptLoop /\ Stopped' = Stopped
    BY <2>1 DEF AcceptLoop, Stopped
  <2>3. InetdInv'
    BY <1>6, <2>1, <2>2, ListenerStepTokens, StdioSource
       DEF ListenerStep, InetdInv, Errors
  <2>4. CASE conn' = conn
    BY <2>2, <2>3, <2>4 DEF Promise!vars, Session
  <2>5. CASE conn = "none" /\ conn' = "held"
    <3>1. Session = "waiting" /\ Session' = "serving"
      BY <2>5 DEF Session
    <3>2. AcceptLoop = "up"
      BY <2>5 DEF AcceptLoop, InetdInv
    <3> QED
      BY <2>2, <2>3, <3>1, <3>2 DEF Promise!Next, Promise!Accept
  <2> QED
    BY <2>1, <2>4, <2>5 DEF InetdInv
<1>7. CASE Write \/ Written
  BY <1>1, <1>7 DEF Write, Written, vars, sourceVars, loopVars
<1>8. ASSUME NEW s \in Source, PollShutdown(s) \/ DropConnection(s)
      PROVE  InetdInv' /\ Abstract
  <2>1. CASE conn \in {"open", "parts"}
    <3>1. /\ ReleaseStdio(s) /\ conn' \in {"shut", "gone"}
          /\ UNCHANGED server /\ ~Stopped
      BY <1>8, <2>1 DEF PollShutdown, DropConnection
    <3>2. token' = [token EXCEPT ![1] = "released"] /\ UNCHANGED result
      BY <3>1, StdioSource DEF ReleaseStdio, loopVars
    <3>3. InetdInv'
      BY <2>1, <3>1, <3>2, StdioSource DEF InetdInv, Stopped
    <3>4. Session = "serving" /\ Session' = "finished" /\ AcceptLoop = "up"
          /\ AcceptLoop' = "up"
      BY <2>1, <3>1 DEF Session, AcceptLoop, Stopped
    <3> QED
      BY <3>3, <3>4 DEF Promise!Next, Promise!Finish
  <2>2. CASE conn \notin {"open", "parts"}
    <3>1. /\ conn = "shut" /\ conn' = "gone"
          /\ UNCHANGED <<token, result, server>>
      BY <1>8, <2>2 DEF PollShutdown, DropConnection, vars, sourceVars, loopVars
    <3> QED
      BY <3>1 DEF InetdInv, Stopped, Promise!vars, Session, AcceptLoop
  <2> QED
    BY <2>1, <2>2
<1>11. CASE TakeApart
  BY <1>11 DEF TakeApart, vars, sourceVars, loopVars, InetdInv, Stopped,
               Promise!vars, Session, AcceptLoop
<1>9. CASE Surroundings
  BY <1>1, <1>9 DEF Surroundings, Connect, Abort, Hangup, CloseSenders,
                    Exhaust, Recover, loopVars
<1>10. CASE Exited \/ UNCHANGED servingVars
  BY <1>1, <1>10 DEF Exited, servingVars, vars, sourceVars, loopVars
<1> QED
  BY <1>2, <1>3, <1>4, <1>5, <1>6, <1>7, <1>8, <1>9, <1>10, <1>11
     DEF ServingNext, Server

(* The steps of an inetd server map to those of InetdPromise, or to none:  *)
(* it does not return while its connection is served.                      *)
THEOREM InetdOrder == ASSUME StdioOnly PROVE ServingSpec => Promise!Order
<1>1. ServingInit => InetdInv /\ Promise!Init
  BY InetdInit DEF ServingInit, Promise!Init, Session, AcceptLoop, Stopped
<1>2. InetdInv /\ [ServingNext]_servingVars =>
        InetdInv' /\ [Promise!Next]_(Promise!vars)
  BY InetdStep
<1> QED
  BY <1>1, <1>2, PTL DEF ServingSpec, Promise!Order
=============================================================================
