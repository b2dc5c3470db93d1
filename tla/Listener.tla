------------------------------ MODULE Listener ------------------------------
(***************************************************************************)
(* The accept loop of src/src/listener.rs: Listener::poll_accept over the  *)
(* variants of ListenerImpl (TCP, UNIX and vsock sockets, the inetd        *)
(* pseudo-socket, the mpsc receiver, and Multi, a vector of the others).   *)
(*                                                                         *)
(* One call of poll_accept runs on one thread and never awaits, but the    *)
(* kernel, the reactor, the timer and the owners of connections act        *)
(* between any two of its system calls.  So the poll of each inner source  *)
(* is a step of its own, and `cursor' says where in the call the task is:  *)
(* 0 at the top of the loop, where the backoff timer is polled, and s when *)
(* the loop of ListenerImplMulti is about to poll source s.                *)
(*                                                                         *)
(* Outside src/src, modelled from its use here: the kernel's accept queue, *)
(* tokio's cached readiness and wakers, tokio's Sleep, oneshot and mpsc.   *)
(***************************************************************************)
EXTENDS Naturals, Sequences

CONSTANTS
  Conns,         (* clients of the sockets, or senders of the mpsc channel  *)
  N,             (* number of sources: the length of ListenerImplMulti::v   *)
  Kind,          (* the ListenerImpl variant of each source                 *)
  Target,        (* the source each client connects to                      *)
  SleepOnErrors  (* values SystemOptions::sleep_on_errors may have          *)

Source      == 1 .. N
Timer       == 0
SocketKinds == {"tcp", "unix", "vsock"}

(***************************************************************************)
(* A nested Multi (sd-listen:* inside bind_multiple) polls its elements in *)
(* place, so a flat sequence of sources stands for it.  Mpsc only comes    *)
(* from From<Receiver>, alone and with sleep_on_errors: false.             *)
(***************************************************************************)
ASSUME ListenerAssumption ==
  /\ N \in Nat \ {0}
  /\ Kind \in [Source -> SocketKinds \union {"stdio", "mpsc"}]
  /\ Target \in [Conns -> Source]
  /\ SleepOnErrors \subseteq BOOLEAN
  /\ \A c \in Conns : Kind[Target[c]] # "stdio"
  /\ \A s \in Source : Kind[s] = "mpsc" => N = 1 /\ SleepOnErrors = {FALSE}

VARIABLES
  queue,      (* per source: kernel accept queue, or contents of the channel *)
  aborted,    (* queued clients that have reset their connection             *)
  held,       (* clients whose Connection the caller owns                    *)
  exhausted,  (* the process has no free file descriptor: accept(2) = EMFILE *)
  sleep_on_errors, (* Listener::sleep_on_errors                              *)
  closed,     (* mpsc sources all of whose senders are gone                  *)
  token,      (* per stdio source: where the oneshot Sender is               *)
  ready,      (* sockets tokio believes readable                             *)
  events,     (* sources with a readiness event or wake not delivered yet    *)
  interest,   (* sources, or the Timer, holding a waker of the caller's task *)
  woken,      (* the task has been woken and not polled since                *)
  timeout,    (* Listener::timeout: the Sleep armed after an error           *)
  task,       (* the task that calls accept                                  *)
  cursor,     (* position in poll_accept while the task polls                *)
  result,     (* what the last completed accept returned                     *)
  cooling     (* history: an error other than a connection error occurred    *)
              (* less than a second ago                                      *)

sourceVars == <<queue, aborted, held, exhausted, sleep_on_errors, closed, token>>
wakeVars   == <<ready, events, interest, woken>>
loopVars   == <<timeout, task, cursor, result, cooling>>
vars       == <<sourceVars, wakeVars, loopVars>>

TypeOK ==
  /\ queue \in [Source -> Seq(Conns)]
  /\ aborted \subseteq Conns
  /\ held \subseteq Conns
  /\ exhausted \in BOOLEAN
  /\ sleep_on_errors \in BOOLEAN
  /\ closed \subseteq Source
  /\ token \in [Source -> {"kept", "lent", "released", "spent"}]
  /\ ready \subseteq Source
  /\ events \subseteq Source
  /\ interest \subseteq Source \union {Timer}
  /\ woken \in BOOLEAN
  /\ timeout \in {"none", "armed", "elapsed"}
  /\ task \in {"idle", "polling", "parked"}
  /\ cursor \in 0 .. N
  /\ result \in {"none", "conn", "os", "broken", "taken"}
  /\ cooling \in BOOLEAN

Init ==
  /\ queue = [s \in Source |-> <<>>]
  /\ aborted = {}
  /\ held = {}
  /\ exhausted = FALSE
  /\ sleep_on_errors \in SleepOnErrors
  /\ closed = {}
  /\ token = [s \in Source |-> "kept"]
  /\ ready = {}
  /\ events = {}
  /\ interest = {}
  /\ woken = FALSE
  /\ timeout = "none"
  /\ task = "idle"
  /\ cursor = 0
  /\ result = "none"
  /\ cooling = FALSE

IsSocket(s) == Kind[s] \in SocketKinds

(* The listener is a bare ListenerImpl::Stdio, not one inside a Multi. *)
StdioOnly == N = 1 /\ Kind[1] = "stdio"

Queued(c) == \E i \in DOMAIN queue[Target[c]] : queue[Target[c]][i] = c

-----------------------------------------------------------------------------
(* The environment: clients, senders, owners of connections, the kernel.    *)

(* A client connects, or a sender sends on the mpsc channel. *)
Connect(c) ==
  /\ ~Queued(c) /\ c \notin held
  /\ Target[c] \notin closed
  /\ queue' = [queue EXCEPT ![Target[c]] = Append(@, c)]
  /\ events' = events \union {Target[c]}
  /\ UNCHANGED <<aborted, held, exhausted, sleep_on_errors, closed, token>>
  /\ UNCHANGED <<ready, interest, woken, loopVars>>

(* A client resets its connection, or its network fails, while it waits in *)
(* the accept queue.                                                       *)
Abort(c) ==
  /\ Queued(c) /\ Kind[Target[c]] \in {"tcp", "vsock"}
  /\ c \notin aborted
  /\ aborted' = aborted \union {c}
  /\ UNCHANGED <<queue, held, exhausted, sleep_on_errors, closed, token, wakeVars, loopVars>>

(* The caller is done with a connection. *)
Hangup(c) ==
  /\ c \in held
  /\ held' = held \ {c}
  /\ UNCHANGED <<queue, aborted, exhausted, sleep_on_errors, closed, token, wakeVars, loopVars>>

Exhaust ==
  /\ ~exhausted /\ \E s \in Source : IsSocket(s)
  /\ exhausted' = TRUE
  /\ UNCHANGED <<queue, aborted, held, sleep_on_errors, closed, token>>
  /\ UNCHANGED <<wakeVars, loopVars>>

Recover ==
  /\ exhausted
  /\ exhausted' = FALSE
  /\ UNCHANGED <<queue, aborted, held, sleep_on_errors, closed, token>>
  /\ UNCHANGED <<wakeVars, loopVars>>

CloseSenders(s) ==
  /\ Kind[s] = "mpsc" /\ s \notin closed
  /\ closed' = closed \union {s}
  /\ events' = events \union {s}
  /\ UNCHANGED <<queue, aborted, held, exhausted, sleep_on_errors, token>>
  /\ UNCHANGED <<ready, interest, woken, loopVars>>

(* The Sender that left with the stdio Connection is used or dropped. *)
ReleaseStdio(s) ==
  /\ Kind[s] = "stdio" /\ token[s] = "lent"
  /\ token' = [token EXCEPT ![s] = "released"]
  /\ events' = events \union {s}
  /\ UNCHANGED <<queue, aborted, held, exhausted, sleep_on_errors, closed>>
  /\ UNCHANGED <<ready, interest, woken, loopVars>>

-----------------------------------------------------------------------------
(* The runtime.                                                              *)

Notify(s) ==
  /\ interest' = interest \ {s}
  /\ woken' = (woken \/ s \in interest)

(* The reactor reports a socket readable, or a channel wakes its receiver. *)
Deliver(s) ==
  /\ s \in events
  /\ events' = events \ {s}
  /\ ready' = IF IsSocket(s) THEN ready \union {s} ELSE ready
  /\ Notify(s)
  /\ UNCHANGED <<sourceVars, loopVars>>

(* One second has passed since the last error: an armed Sleep elapses. *)
SecondPasses ==
  /\ cooling \/ timeout = "armed"
  /\ cooling' = FALSE
  /\ IF timeout = "armed"
     THEN timeout' = "elapsed" /\ Notify(Timer)
     ELSE UNCHANGED <<timeout, interest, woken>>
  /\ UNCHANGED <<sourceVars, ready, events, task, cursor, result>>

(* The runtime polls a task that was woken: accept starts over at the top. *)
Resume ==
  /\ task = "parked" /\ woken
  /\ task' = "polling"
  /\ woken' = FALSE
  /\ UNCHANGED <<sourceVars, ready, events, interest>>
  /\ UNCHANGED <<timeout, cursor, result, cooling>>

-----------------------------------------------------------------------------
(* The caller of Listener::accept.                                           *)

(* A wake that came while the task did something else may be used up. *)
Call ==
  /\ task = "idle"
  /\ task' = "polling"
  /\ woken' \in {woken, FALSE}
  /\ UNCHANGED <<sourceVars, ready, events, interest>>
  /\ UNCHANGED <<timeout, cursor, result, cooling>>

(* The accept future is dropped at its await point, as tokio::select! does *)
(* to the branch that lost.  The Listener keeps its timeout.               *)
CancelForgetsTimeout ==
  /\ task = "parked"
  /\ task' = "idle"
  /\ timeout' = "none"
  /\ UNCHANGED <<sourceVars, wakeVars, cursor, result, cooling>>

Cancel ==
  /\ task = "parked"
  /\ task' = "idle"
  /\ UNCHANGED <<sourceVars, wakeVars, timeout, cursor, result, cooling>>

-----------------------------------------------------------------------------
(* Listener::poll_accept.                                                    *)

(* Top of the loop: `if let Some(to) = self.timeout { ready!(to.poll()) }'. *)
CheckTimer ==
  /\ task = "polling" /\ cursor = Timer
  /\ \/ /\ timeout = "armed"
        /\ task' = "parked"
        /\ interest' = interest \union {Timer}
        /\ UNCHANGED <<timeout, cursor>>
     \/ /\ timeout # "armed"
        /\ timeout' = "none"
        /\ cursor' = 1
        /\ UNCHANGED <<task, interest>>
  /\ UNCHANGED <<sourceVars, ready, events, woken, result, cooling>>

Polls(s) == task = "polling" /\ cursor = s

(* poll_accept returns Poll::Ready. *)
Return(r) ==
  /\ task' = "idle"
  /\ cursor' = 0
  /\ result' = r

(* Fuse<Receiver> is pending for ever once it has completed, and then it  *)
(* leaves no waker.                                                        *)
Over(s) == Kind[s] = "stdio" /\ token[s] = "spent"

(* Source s is pending: ListenerImplMulti goes on to the next one, and     *)
(* returns Poll::Pending after the last.                                   *)
PendingParksAtOnce(s) ==
  /\ interest' = IF Over(s) THEN interest ELSE interest \union {s}
  /\ task' = "parked" /\ cursor' = 0

PendingForgetsWaker(s) ==
  /\ UNCHANGED interest
  /\ IF s = N THEN task' = "parked" /\ cursor' = 0
              ELSE cursor' = s + 1 /\ UNCHANGED task

PendingPollsPastLast(s) ==
  /\ interest' = IF Over(s) THEN interest ELSE interest \union {s}
  /\ cursor' = s + 1 /\ UNCHANGED task

Pending(s) ==
  /\ interest' = IF Over(s) THEN interest ELSE interest \union {s}
  /\ IF s = N THEN task' = "parked" /\ cursor' = 0
              ELSE cursor' = s + 1 /\ UNCHANGED task

(* is_connection_error(&e): `continue'. *)
Retry == cursor' = 0 /\ UNCHANGED <<timeout, task, result, cooling>>

FailIgnoresSleep(e) ==
  /\ cooling' = TRUE
  /\ Return(e)
  /\ UNCHANGED timeout

(* Any other error.  A bare Stdio listener returns before the error is     *)
(* looked at.                                                              *)
Fail(e) ==
  /\ cooling' = TRUE
  /\ \/ /\ sleep_on_errors /\ ~StdioOnly
        /\ timeout' = "armed"
        /\ cursor' = 0
        /\ UNCHANGED <<task, result>>
     \/ /\ ~sleep_on_errors \/ StdioOnly
        /\ Return(e)
        /\ UNCHANGED timeout

(* accept(2) is tried only on a socket that tokio believes readable. *)
NothingAt(s) ==
  \/ IsSocket(s) /\ s \notin ready
  \/ IsSocket(s) /\ queue[s] = <<>> /\ ~exhausted
  \/ Kind[s] = "stdio" /\ token[s] \in {"lent", "spent"}
  \/ Kind[s] = "mpsc" /\ queue[s] = <<>> /\ s \notin closed

PollPending(s) ==
  /\ Polls(s) /\ NothingAt(s)
  /\ ready' = ready \ {s}
  /\ Pending(s)
  /\ UNCHANGED <<sourceVars, events, woken, timeout, result, cooling>>

(* accept(2) fails with EMFILE; the readiness stays set. *)
AcceptFailsClearsReady(s) ==
  /\ Polls(s) /\ IsSocket(s) /\ s \in ready
  /\ exhausted
  /\ ready' = ready \ {s}
  /\ Fail("os")
  /\ UNCHANGED <<sourceVars, events, interest, woken>>

AcceptFails(s) ==
  /\ Polls(s) /\ IsSocket(s) /\ s \in ready
  /\ exhausted
  /\ Fail("os")
  /\ UNCHANGED <<sourceVars, wakeVars>>

CanAccept(s) ==
  /\ Polls(s) /\ IsSocket(s) /\ s \in ready
  /\ ~exhausted /\ queue[s] # <<>>

Dequeue(s) ==
  /\ queue' = [queue EXCEPT ![s] = Tail(@)]
  /\ aborted' = aborted \ {Head(queue[s])}

(* accept(2) reports what became of a client that gave up: ECONNABORTED or *)
(* ECONNRESET, or another network error such as EPROTO.                    *)
AcceptAborted(s) ==
  /\ CanAccept(s) /\ Head(queue[s]) \in aborted
  /\ Dequeue(s)
  /\ Retry \/ Fail("os")
  /\ UNCHANGED <<held, exhausted, sleep_on_errors, closed, token, wakeVars>>

(* accept(2) may hand out the stream of such a client all the same. *)
AcceptOk(s) ==
  /\ CanAccept(s)
  /\ Dequeue(s)
  /\ held' = held \union {Head(queue[s])}
  /\ Return("conn")
  /\ UNCHANGED <<exhausted, sleep_on_errors, closed, token, wakeVars, timeout, cooling>>

(* set_nodelay, the keepalive or the buffer sizes fail on the new stream:  *)
(* `?' drops it and reports the error as one of the listener.              *)
AcceptRejected(s) ==
  /\ CanAccept(s) /\ Kind[s] \in {"tcp", "unix"}
  /\ Dequeue(s)
  /\ Fail("os")
  /\ UNCHANGED <<held, exhausted, sleep_on_errors, closed, token, wakeVars>>

(* StdioListener::poll_accept hands the token out with the connection ... *)
StdioAccept(s) ==
  /\ Polls(s) /\ Kind[s] = "stdio" /\ token[s] = "kept"
  /\ token' = [token EXCEPT ![s] = "lent"]
  /\ Return("conn")
  /\ UNCHANGED <<queue, aborted, held, exhausted, sleep_on_errors, closed, wakeVars>>
  /\ UNCHANGED <<timeout, cooling>>

(* ... and reports the second connection impossible once, when the token   *)
(* is back.                                                                *)
StdioTaken(s) ==
  /\ Polls(s) /\ Kind[s] = "stdio" /\ token[s] = "released"
  /\ token' = [token EXCEPT ![s] = "spent"]
  /\ Fail("taken")
  /\ UNCHANGED <<queue, aborted, held, exhausted, sleep_on_errors, closed, wakeVars>>

MpscRecv(s) ==
  /\ Polls(s) /\ Kind[s] = "mpsc" /\ queue[s] # <<>>
  /\ queue' = [queue EXCEPT ![s] = Tail(@)]
  /\ held' = held \union {Head(queue[s])}
  /\ Return("conn")
  /\ UNCHANGED <<aborted, exhausted, sleep_on_errors, closed, token, wakeVars, timeout, cooling>>

MpscBroken(s) ==
  /\ Polls(s) /\ Kind[s] = "mpsc" /\ queue[s] = <<>> /\ s \in closed
  /\ Fail("broken")
  /\ UNCHANGED <<sourceVars, wakeVars>>

PollSource(s) ==
  \/ PollPending(s)
  \/ AcceptFails(s)
  \/ AcceptAborted(s)
  \/ AcceptOk(s)
  \/ AcceptRejected(s)
  \/ StdioAccept(s)
  \/ StdioTaken(s)
  \/ MpscRecv(s)
  \/ MpscBroken(s)

-----------------------------------------------------------------------------
Environment ==
  \/ \E c \in Conns : Connect(c) \/ Abort(c) \/ Hangup(c)
  \/ \E s \in Source : CloseSenders(s) \/ ReleaseStdio(s)
  \/ Exhaust
  \/ Recover

Runtime == SecondPasses \/ Resume \/ \E s \in Source : Deliver(s)

PollAccept == CheckTimer \/ \E s \in Source : PollSource(s)

Next == Environment \/ Runtime \/ Call \/ Cancel \/ PollAccept

Spec == Init /\ [][Next]_vars

(***************************************************************************)
(* Tokio polls a woken task and lets a poll run to its end, the reactor    *)
(* delivers every event, timers fire, and a server calls accept again.     *)
(* Nothing is assumed of the environment.                                  *)
(***************************************************************************)
Fairness ==
  /\ WF_vars(PollAccept)
  /\ WF_vars(Resume)
  /\ WF_vars(Call)
  /\ WF_vars(SecondPasses)
  /\ \A s \in Source : WF_vars(Deliver(s))

FairSpec == Spec /\ Fairness

-----------------------------------------------------------------------------
(* Properties.                                                               *)

(* Source s can give poll_accept something other than Pending. *)
HasWork(s) ==
  \/ IsSocket(s) /\ queue[s] # <<>>
  \/ Kind[s] = "stdio" /\ token[s] \in {"kept", "released"}
  \/ Kind[s] = "mpsc" /\ (queue[s] # <<>> \/ s \in closed)

(* Polling s left a waker there, unless it is over, and what it has to      *)
(* offer is still going to wake the task.                                   *)
Watched(s) ==
  /\ s \in interest \/ Over(s)
  /\ s \notin ready
  /\ HasWork(s) => s \in events

(* No lost wakeup: a task parked in accept and not woken is parked either  *)
(* on the armed backoff timer, or on every source of the listener, each    *)
(* holding its waker and with nothing to offer that is not on its way as   *)
(* an event (ListenerImplMulti::poll_accept polls all of v with cx before  *)
(* it returns Pending).                                                    *)
NoLostWakeup ==
  task = "parked" /\ ~woken =>
    \/ timeout = "armed" /\ Timer \in interest
    \/ timeout = "none" /\ \A s \in Source : Watched(s)

(* "All other errors will incur a timeout before next `accept()' is        *)
(* performed" (listener.rs:673): while the second after such an error runs *)
(* no source is polled, however often the accept future is dropped and     *)
(* created again.                                                          *)
NoAcceptWhileCooling == cooling => cursor = 0

(* A client that is queued leaves the queue (accepted, or refused with an  *)
(* error) if descriptor exhaustion ends for good and the sources polled    *)
(* before its own fall silent.                                             *)
EventuallyServed ==
  <>[]~exhausted =>
    \A c \in Conns :
      (\A s \in 1 .. (Target[c] - 1) : <>[](~HasWork(s)))
        => (Queued(c) ~> ~Queued(c))
=============================================================================
