# A TLA+ model of tokio-listener

tokio-listener gives a Rust server one `Listener` and one `Connection` type over
TCP, UNIX and vsock sockets, inherited descriptors, the stdin/stdout pair of an
inetd service, and an mpsc channel of ready-made connections. This directory
models the parts where order and failure matter, checks them with TLC, and
proves what matters most with TLAPS.

## 1. The system

| Component | Code | State it keeps | Operations | Hard behaviour |
|---|---|---|---|---|
| Accept loop | `listener.rs` `Listener::poll_accept`, `is_connection_error` | `timeout` (the armed `Sleep`), `sleep_on_errors` | `accept`, `poll_accept`; `accept` can be cancelled at its await | wakeups across several sources, backoff across cancelled calls, descriptor exhaustion |
| Sources | `ListenerImplTcp/Unix/Vsock/Multi::poll_accept`, `StdioListener`, `mpsc_poll_accept` | tokio's readiness; for stdio the oneshot pair | `poll_accept` | the kernel and the reactor act between two polls of one call |
| inetd session | `StdioListener`, `Connection::poll_shutdown`, drop, `try_into_stdio`, `no_more_connections` | the token: with the listener, lent, released, spent | accept, shutdown, drop | the server must outlive the session, and end after it |
| axum 0.7 | `axum07.rs` `Serve`, `tokio_listener_accept` | position of the loop | accept, make_service, spawn, sleep | errors while descriptors are short |
| axum 0.7, graceful | `WithGracefulShutdown` | two watch channels as gates: `signal_rx`, `close_rx` and its clones | select over accept and signal, a task per connection, drain | the signal at any point, upgraded connections |
| hyper 0.14 / axum 0.6 | `hyper014.rs` | none | `Accept::poll_accept` | the regular end as `None` |
| axum 0.8 | `axum08.rs` | none | `Listener::accept` | no way to return an error |
| tonic | `Stream for Listener` in `listener.rs`, `tonic.rs` | none | `poll_next` | the stream hands on errors and never ends |
| Binding | `listener.rs` `bind`, `bind_multiple`, `listen_*`; `listener_address.rs` `check_env_for_fd` | the `Vec` of listeners so far; in the kernel descriptors, ports, socket files | bind; a caller may try again, processes overlap and restart | partial failure, files left behind, races for a path, ownership of descriptors, numeric limits |
| Settings | `listener_address.rs`, `tcp_keepalive_params.rs`, `unix_chmod.rs` | none | `FromStr`, `Display`, `to_socket2` | round trips through a saved configuration, values that cannot be set |
| Forwarding | `tokioutil.rs`, `some_socket_addr.rs`, `claptools.rs`, `options.rs` | none | | |

How they interact: a server calls `accept`; the listener polls its sources with
the server task's waker; the stdio `Connection` goes to a task of its own and
carries the `Sender` whose use or drop wakes the listener again; the servers
read `no_more_connections` to tell the end of an inetd session from a failure.

What makes each correct:

* accept loop: no wakeup is lost; after a resource error nothing is polled for a
  second; a queued client is served once it can be;
* inetd session: not ended early, always ended, output flushed;
* servers: they go on after errors that pass, and stop when they should;
* graceful shutdown: every accepted connection is served and waited for; the signal
  makes the server leave its loop, and return if the requests in flight end;
* binding: all or nothing; a running instance keeps its paths; nobody else's
  descriptors are touched; a restart works after any crash;
* settings: what was written is read back, or refused, but never leads elsewhere;
  `sd-listen:*` adopts all that was passed.

## 2. Modules

| Module | Models | Used by |
|---|---|---|
| `Listener` | the accept loop and all sources | `MCListener`, `ListenerProofs`, `Serving` |
| `InetdPromise` | abstract: session waiting, serving, finished; loop up, returned | `Serving` |
| `Serving` | extends `Listener` with the loops of the five kinds of server and the life of the stdio `Connection` | `MCServing`, `ServingProofs` |
| `DrainPromise` | abstract: connections taken until the signal, each carried to its end, then the return | `GracefulServe` |
| `GracefulServe` | `WithGracefulShutdown` over an abstract accept | `MCGracefulServe`, `GracefulServeProofs` |
| `SdListen` | the `LISTEN_*` checks and what `sd-listen:name` and `sd-listen:*` amount to, as operators on an environment | `Binding`, `SettingText` |
| `GuardedPaths` | abstract: a name is the lock of a service's paths | `Binding` |
| `Binding` | `bind_multiple` and `bind`, run by several processes of one service | `MCBinding`, `BindingProofs` |
| `SettingText` | `FromStr` and `Display` of the three setting types, as operators on texts | `Settings`, `SettingTextProofs` |
| `Settings` | the life of a setting: written, read, written again, bound or applied | `MCSettings`, `SettingsProofs` |
| `ListenerProofs`, `ServingProofs`, `GracefulServeProofs`; `SettingTextProofs`, extended by `SettingsProofs`; `BindingProofs`, extended by `DescriptorProofs`, extended by `RestartProofs` | theorems | |
| `MC...` | values for TLC | the `.cfg` files |

### Listener

`poll_accept` runs to its end on one thread, but each source it polls is a
separate look at the outside world. So one step polls one source, and `cursor`
says where the call is: 0 at the top of the loop, where the timer is polled
(`CheckTimer`), `s` before source `s` of `ListenerImplMulti::v`. `task` is the
caller: `idle`, `polling`, or `parked` at the await of `accept`; `Cancel` drops a
parked future, as `select!` does. `Fail` is the tail of `poll_accept` for an
error that is not a connection error (with the early return for a bare Stdio
listener), `Retry` is its `continue`.

External, modelled from its use: the kernel's queue (`Connect`, `Abort`, and
`exhausted` for EMFILE, which accept(2) reports even when its queue is empty);
tokio's cached readiness (`ready`), which accept clears only on `WouldBlock`; the
delivery of edge-triggered events (`events`, `Deliver`); wakers (`interest`,
`woken`); the `Sleep` (`timeout`, `SecondPasses`).

`cooling` is a history variable: an error other than a connection error happened
less than a second ago. The code does not have it; `NoAcceptWhileCooling`
compares it with the code's timer.

Abstractions: a nested Multi is flat; one task calls `accept`; tokio's
cooperative budget, which can only add a wakeup and a `Pending`, is left out;
`Kind` decides which errors a source can give (option calls can fail for TCP and
UNIX streams, a queued client can fail for TCP and vsock). `sleep_on_errors` is a
variable that never changes, so that one run has listeners with and without it.

### Serving

`server` is the loop of the server, `adapter` which server it is, `conn` the stdio
connection, `output` what tokio's stdout still buffers. `ListenerStep` is a step
of `Listener` inside `accept`. When the server returns the process ends, so
nothing of it runs after that. The loops of hyper, axum 0.8 and tonic are external;
what they do with the adapter's answer is in `TakeConnection` and `TakeError`. What tonic does
with an `Err` of its stream depends on its version; here it asks again (`TonicError`). For
`InetdPromise` the loop is up, returned or failed, and no step of the promise leads to failed, so an
end of the session that is handed on as a failure breaks it. The
owner of the stdio connection may take it apart with `try_into_stdio` (`conn = "parts"`:
`Stdin`, `Stdout` and the `Sender` on their own) and put it together again.

### GracefulServe

`main` is the server's future, `phase[c]` a client's connection, `signalled` says
that the signal's task dropped `signal_rx`, `mainRx` and `taskRx` are the holders
of `close_rx`. The step `Break` is the code from `break` to the drop of the
listener. `open` has the connections whose stream was not yet shut down or dropped; over inetd
such a stream holds the `Sender`, so the listener reports the end (`NoMoreConnections`) when its
connection is not in `open` any more. `Shut` is hyper's shutdown of the stream, before
the task ends. `Finish` drops `close_rx`, and the connection goes at the end of the scope
(`DropConn`); a panic drops the two in the other order (`Panic`). An upgraded connection has
left `close_rx` at the upgrade, but its stream keeps the `Sender`: its task may shut the stream
down (`ShutUpgraded`) and go on, so over inetd an unsignalled server may return while that task runs.

For `DrainPromise` the server is accepting until `main` is `draining`, and a connection is busy
from its accept on (`setup` included) until its task is over; an upgrade ends it there, as it
does for the code. The loop may be left without the signal only over inetd.

### Binding

`pc[i]` is where process `i` is in `bind_multiple`, `v[i]` the descriptors of the
listeners in its `Vec` (0 for inetd, which has none), so the address to bind next is
`addrs[Len(v[i]) + 1]`. `fds[i]` is the descriptor table: a number is free, an
inherited socket, something `Other` of the process, or the socket bound for an
address. A step is one system call that others can notice; so `listen_path` is four
steps (`PathUnlink`, `PathBind`, and `PathTool` for chmod and for chown) and the
calls of `listen_tcp` are one, but for a backlog that is no `c_int`: the code looks at it when
the port is bound, so the process has the port (place `backlog`) until `BacklogRefused` drops the
socket. A `?` takes the process to `failing`, where
`DropNext` closes the listeners one by one.

`file[p]` says which socket made the file at `p`; the file stays when the socket is
closed. `granted[p]` is what chmod and chown did to that file.

External: lowest free descriptor numbers, `close` of a number whoever owns it, the
refusal of epoll to take a descriptor twice (`Registered`), SO_REUSEPORT,
`KernelRefuses` (with `UnlinkRefused`: the error of `remove_file` is ignored and bind fails on the
file), the supervisor (`Start`, `Exit`, `Crash`) and the caller (`Retry`).
Between `bind(2)` and `listen(2)` a socket exists that nobody reaches yet; the two are one
step. A nested `bind_multiple` of `sd-listen:*` is flat. Ports are fixed: port 0 and
VMADDR_PORT_ANY, which name no socket and can be bound many times, are left out.

`lingering` has the TCP addresses of which a process that served left connections in
TIME_WAIT. `MayReuse` is what distinguishes the two branches of `listen_tcp`:
`TcpListener::bind` sets SO_REUSEADDR, the socket2 branch (`UsesSocket2`: `only_v6`,
`reuse_port` or a backlog) does not, and is refused until `TimeWaitOver`, unless
SO_REUSEPORT is set.

For `GuardedPaths` the lock is the first address that only one socket may have, if it comes before
every path (`IsLock`, `Lock`); an instance holds it while its socket for that address is open, and
a path leads to the instance that made the file there, alive or not. A service without a lock
maps to nothing: the code promises it nothing.

### SettingText and Settings

A text is a sequence of tokens: the punctuation the parsers look for (`/`, `./`, `@`, `:`,
blanks) and words. A parser returns `<<value>>` or `<<>>`; a value is a tuple that begins with
its variant. Words carry only what the parsers ask of them: their lower-case form, the
number they spell (`NumberOf`; `Digits` is how `Display` spells it), whether they are an IP
address, and one (`NotUtf8`) that only a `PathBuf` can hold. `SettingTextAssumption` keeps the
words apart from what the parsers look for (`Keywords`) and has `Digits` spell every u32 that a
word spells. `split_once` and `split` take a text apart at its first colon (`Before`, `After`).
`AddressValues` and `KeepaliveValues` are what the Rust types can hold, names and paths of any
length; what a user writes is a string, so UTF-8 (`SettingsAssumption`). The branches of the parsers
are in the order of the code, which decides what `"-"` or `"sd-listen"` mean.

`Settings` begins with a text that a user wrote or a value that a program made, reads it
(`Read`) and writes it (`Write`) in turn; `saved` keeps the value before it was written. At any
time an sd-listen address may be bound in some environment (`Bind`; `Adopts` has what
`listen_from_fd_all`, `listen_from_fd_named` and `check_env_for_fd` make of it together), and
a keepalive option may be set on an accepted stream (`Apply`). `KernelTakes` is external:
socket2 passes whole seconds, and Linux takes 1 to 32767 of them and 1 to 127 probes.

## 3. Runs

| Run | Instance | Shows |
|---|---|---|
| `listener_multi` | stdio + vsock + UNIX, a client of each socket, retries on, fair | `TypeOK`, `NoLostWakeup`, `NoAcceptWhileCooling`, `EventuallyServed` |
| `listener_mpsc` | mpsc, 3 senders, fair | `NoLostWakeup`, `EventuallyServed` |
| `serving_inetd` | bare stdio, three servers | implements `InetdPromise`, `OutputOutlivesServer` |
| `serving_sockets` | TCP, two clients, all five servers with retries, axum 0.7 also without | `NoAcceptWhileCooling`, `RetrierKeepsServersUp`, `EventuallyServed` |
| `serving_premature` | bare stdio, example loop | **violated** `NotPremature` |
| `serving_axum08_inetd` | bare stdio, axum 0.8 and tonic, fair | **violated** `ExitsProcess` |
| `serving_axum08_errors` | TCP, axum 0.8, retries off | **violated** `NoRetriableHang` |
| `graceful` | 3 clients, fair | implements `DrainPromise`, `ReturnsAfterTasks`, `InetdServedToTheEnd`, `AcceptedIsServed`, `SignalStopsServer` |
| `binding` | 2 processes, 10 address lists, 6 sets of options, fair | implements `GuardedPaths`, `BindingTypeOK`, `LockKeepsPaths`, `GrantedWhenUp`, `AllOrNothing`, `SomeoneWins`, `FirstCheckIsValid`, `OthersKept`, `RestartsAtOnce`, `Recovers` |
| `binding_retry` | the same | **violated** `CheckedIsValid` |
| `settings` | all texts of up to 3 tokens, vsock and keepalive texts of up to 5, 78 environments | `ReadsBack`, `NeverElsewhere`, `AllPassed` |
| `settings_keepalive` | the same | **violated** `KeepaliveCanBeSet` |

Bounds. No counter is unbounded: a client is queued at most once and may come
back after it was served. `listener_multi` has a source that falls silent for ever
before two sockets, so every order of an event and the three polls occurs; queues of
two (a second client already waiting when the first is accepted, and no new event to
come) occur in the `serving_` runs over TCP, and of three in `listener_mpsc`. The
theorems cover any number of sources and clients. `binding` allows one crash or refusal of
the kernel (`MaxTroubles`) at any step, two calls of `bind_multiple` in a process
(`MaxCalls`) and one foreign descriptor in each; `MaxFd` leaves a number for all that a
list opens. Its lists have a path alone, before and after a port, two paths behind an abstract
name, inherited descriptors alone, doubled, out of range and by `sd-listen:*`. The
texts of `settings` are long enough for every branch of the parsers with one token too many: a
third token after `sd-listen:`, a port with no cid and a cid with no port, four keepalive
numbers. LISTEN_FDS is missing, the limits of i32, the numbers around 0, and those around
4095 and around the sum that would overflow. The largest u32 and the first number past
it are scaled down to what TLC's integers hold.

Every property has a variant of a definition of the code that breaks it, listed
in `PROJECT.json`. The variants stand beside what they replace (`CancelForgetsTimeout`,
`PendingParksAtOnce`, `PollShutdownSendsFirst`, `SpawnWithoutRx`...).

Why `EventuallyServed` has its proviso: `ListenerImplMulti` polls in a fixed
order, so a client of a later socket is served for sure only if the sources
before it fall silent from some time on. Without the proviso TLC finds the
starvation.

What `binding` teaches, beyond its properties: the premises are needed. Without a port or
an abstract name *before* the paths (`Locked`) a second process with
`unix_listen_unlink` takes the path, fails on the port and leaves the first one up and
out of reach. Two processes that chmod one unguarded path and are restarted when they fail can
fail by turns for ever (`Recoverable` excludes it; `SomeoneWins` says that it takes a
restart). `OthersKept` and `FirstCheckIsValid` are about the first call only, as `binding_retry` shows. With `only_v6`
or a backlog a restart fails as long as the old connections are in TIME_WAIT, and with the
other options never (`RestartsAtOnce`), so such a service depends on its supervisor.

### Disagreements with comments of the code

Five are shown by the runs that expect a violation; the others were met while modelling.

* `listener.rs:673` promises a timeout after every error that is not
  per-connection; it exists only with `sleep_on_errors` (off by default).
* `error.rs:86` says the end of the inetd session is not reported while the
  connection is served; it is reported at the shutdown of stdout, after which the
  owner may go on reading; under the graceful server so may the task of an upgraded connection.
* `error.rs:83` says the error is there to exit the process; under axum 0.8, and with the
  `Stream` under tonic, the process never exits.
* `axum08.rs:10` relies on the internal retrier; with the default options there is
  none, and one EMFILE hangs the server for ever.
* `listener.rs:213` says that the check of the environment ensures a valid descriptor; it
  passes again after a failed `bind_multiple` has closed the descriptors.
* `tcp_keepalive_params.rs:9` and `11` give milliseconds without a limit; less than a second,
  or more than the kernel takes, makes every accept fail.
* `listener_address.rs:8` says that an address is serialized as the string that the CLI takes.
  `FromFd(n)` for another `n` than 3, and a `FromFdNamed` with a colon, are written in a way that
  `FromStr` refuses; a path that is no UTF-8 is written `/???` or `./???`, another path; the
  flow label of an IPv6 address is lost. Hence the premises of `ReadsBack` and `NeverElsewhere`.
* `listener_address.rs:39` says that a path begins with `/` or `.`; `FromStr` wants `/` or `./`,
  so `../sock` is refused.

## 4. Fairness

* `WF` on steps of `poll_accept`, on `Resume`, `Deliver` and `SecondPasses`: tokio runs
  a task that was woken and a poll never blocks, the reactor delivers, timers fire.
* `WF` on `Call` and the servers' steps: a server's loop calls `accept` again.
* `SF` on the signal branch of the graceful server's `select!`: the macro polls its
  branches in random order, so a branch ready again and again is taken.
* `WF` on the end of a graceful server's task once its stream is shut down, and on the drop of a
  connection that is at its end: the same poll comes to it. Nothing is assumed of the end of a
  connection that is served, told to shut down gracefully or not: `Builder` is given no
  timer, so a client that stalls in the middle of a request keeps its task for ever. Hence the premise
  `RequestsEnd` for the return in `SignalStopsServer`; that the loop is left needs none.
* `WF` on the steps of `bind_multiple`, none of which waits for another process, and on
  `Start` and `Exit`: a supervisor restarts a service that could not bind. `WF` on
  `TimeWaitOver`: the kernel forgets a connection after a minute.
* Nothing is assumed of clients, descriptors, senders or owners of connections;
  `EventuallyServed` has the end of the exhaustion, and `SignalStopsServer` the end of the requests,
  as its premise.

## 5. Proofs

`ListenerProofs`, from `ListenerAssumption` alone (any number of sources, any mix of
kinds, any set of clients):

* `TypeCorrect`.
* `WakeupsAreKept`: `NoLostWakeup` is about a parked task and not inductive. `LoopInv`
  adds that each source the current call has been through is watched already
  (`PolledWatched`: a waker is there and what the source has to offer is on its way
  as an event, unless the task is woken), that a socket with a client is ready or
  has an event (`ReadinessKnown`), that sources are polled only when no timer is set
  (`TimerBeforeSources`), and that the timer's waker is there (`TimerWatched`). Steps
  that end a call or restart the loop share lemma `TopOfLoop`, steps of the
  surroundings share `SurroundingsStep`.
* `BackoffIsKept`, for `SleepOnErrors` and a listener that is not a bare Stdio:
  `cooling` implies the timer is armed (`CoolingArmed`), which with
  `TimerBeforeSources` implies no source is being polled.

`ServingProofs`, from `ListenerAssumption` and `ServingAssumption`:

* `ServingTypeCorrect` and `ServersAreWoken`: a step of a server is a step of `Listener` or
  changes none of its variables, so what is proved of the accept loop holds under every server.
* `InetdOrder`, for a bare stdio listener and any set of servers: the token determines
  the state of the connection and no error is reported before it is back (`InetdInv`), so
  each step is one of `InetdPromise` or none.
* `OutputIsWritten`: stdout counts as shut down when its buffer is written, and nothing writes
  to it after that (`ShutIsFlushed`).
* `RetrierIsEnough`: with the retrier `accept` returns no error over a listener that is not a
  bare Stdio, so no adapter gets to the branch where it stops.
* `BackoffUnderServers`, for servers with the retrier and axum 0.7 without: `AdapterSleeps` says
  that in the second after an error the adapter has the error in its hands or sleeps, so nobody
  is inside `accept`.

`GracefulServeProofs`: `ReturnIsClean` and `InetdIsServed` from `GracefulInv`: a task
that has not ended holds `close_rx`, at most one connection is between accept and
its task, a connection with a task that serves it has its stream open (`ServedIsOpen`), and an
unsignalled inetd server left its loop when that stream was shut down or dropped
(`LeftAfterSession`; whoever was refused was so by a signal, `RefusedBySignal`). `DrainsInOrder`: with
the same invariant each step of the server is one of `DrainPromise` or none (`DrainStep`, one case
per action); that the loop is left without a signal only over inetd and that nobody is busy at the
return are what it needs. The fairness of `DrainPromise` is left to the run `graceful`.

`BindingProofs` (and the two modules on top of it), from `BindingAssumption` (at least one process, address lists of the
kinds there are, tools among chmod and chown):

* `BindingTypeCorrect`, with `PlaceOK`, which says which address each place in the code is
  about.
* `LockIsEnough`: `LockKeepsPaths` is not inductive. `LockInv` adds that a listener on a name
  still has the socket bound for it (`OwnedInv`), that one process at a time has the lock
  (`ExclusiveInv`), and that a path leads to its process from its bind on (`FileInv`). Who
  removes or makes a file is past the lock (`FileChange`), and alone there (`Alone`).
  `Shapes` sorts the steps by what they do to the `Vec` and the descriptors, so that the first two
  are proved by shape and not by action.
* `GuardsItsPaths`: each step is one of `GuardedPaths` or none. `HolderFacts`, from `LockInv`: one
  instance holds the lock or none does, who is up holds it and all its paths lead to it. A step
  that changes a file is a `remove_file` or a bind of the holder, at one path of the service and
  while it is not up (`FileTouched`); an instance gets up without touching a descriptor, and ceases
  to be up only by losing all of them (`UpChanges`). So the steps are sorted by what they do to the files, the
  lock and who is up, and not by the actions of `bind_multiple`.
* `RaceHasWinner`, by `RaceInv`: some process has yet to remove the file, or the file is
  gone and a process is about to bind, or a process that has the file can no longer fail.
* `ModeIsSet`, by `GrantInv`: the tools that a process is past have run on the file, if the file
  is still the one it made.

`DescriptorProofs`, on top of `BindingProofs`: `BindsAllOrNothing`, by two invariants.
`OpenInv`: while a process goes forward each listener in its `Vec` has a descriptor that is
open and no other listener has. `ListedInv`: a socket that was bound belongs to a listener
in the `Vec`, so closing the `Vec` one by one (a tail of it is left at each step) leaves none.
`FirstCallKeepsOthers`, by `FirstCallInv`: until something is closed the numbers that were
passed are inherited sockets, and only a listener that was told so has one (`InheritedStill`);
the listeners have numbers of their own, no two the same (`SeparateEntries`). So a number that is
closed (`ClosedNumber`) is that of a listener that goes, or an inherited one that none has.
`FirstCheckHolds` follows from `InheritedStill` too: what the check lets pass is a number that was
passed. It needs `Passed \subseteq Fds`, as does `RestartProofs`. A second call has lost
`InheritedStill`, as `binding_retry` shows.

`RestartProofs`: `FirstAttemptBinds`, where `MaxFd` leaves room for the numbers passed
(`Passed \subseteq Fds`, a bound of the model and not of the code). The cases in which a
step of `bind_multiple` fails are excluded one by one: a name is free since nobody else is up
and the process has bound nothing beyond its listeners (`OwnedBelow`); a path is free since it
was removed by whoever is past the lock, alone (`PathFree`); chmod and chown find the file
(`FileInv`); inherited numbers are inherited still. What is left is TIME_WAIT.

`SettingTextProofs`, from `SettingTextAssumption`, is about texts of any length. What `Display` joins
with a colon comes apart at that colon if there is none before it (`SplitOfJoined`,
`SplitOfLabelled`), and a word with a colon after it is taken by one branch of the parser only, since
`Keywords` are no numbers and no hosts (`LabelledAddress`). From these, for each variant what `Display` writes
is read as (`PathIsRead`, `VsockIsRead`, `KeepaliveIsRead`...), and conversely what the parser makes
of any text (`AddressFromAnyText`, `KeepaliveFromAnyText`): a value that `Display` can write, if the
text is UTF-8. `AddressOfAProgram` goes through the values of `ListenerAddress`: read back, each is
refused or leads to the same socket, a path that is no UTF-8 excepted.

`SettingsProofs`, from `SettingsAssumption` and those lemmas:

* `SavedIsReadBack` and `LeadsNowhereElse`. The properties only relate `value` to `saved` after a
  `Read`; `SettingInv` adds what a text is meanwhile: the user's, or the one that `Display` made of
  the saved value, and that a setting of the user, or any option, is `Restored` from it. Whoever
  the setting comes from, and however often it is read and written, each round is covered by
  `ReadFromAnyText` or `WrittenByAProgram`.
* `AdoptsAllPassed`, over any environments: no sum up to 4095 numbers overflows an i32
  (`NoOverflow`), so the check passes what `listen_from_fd_all` lists (`AdoptsAll`).
  `BoundIsInvariant` says that a bound address has adopted what `Adopts` gives for its environment,
  and no other has adopted anything.

Only model-checked: everything under fairness (`EventuallyServed`, `KeepsInetdPromise`
and `KeepsDrainPromise` with their liveness, `AcceptedIsServed`, `SignalStopsServer`, `Recovers`,
and the failing `ExitsProcess`), since the prover does not handle `ENABLED`. Every other property of
a run that passes is stated by a theorem.

## 6. Not modelled, and the plan

Not modelled for good: the bytes of connections (each variant but stdio forwards to one
field), SomeSocketAddr (immutable values and their formatting), the derived code of clap
and serde (`bind()` of the clap structs calls `Listener::bind` with the default
`SystemOptions`), the tokio-util `Listener` and the accessors for `connect_info`, which only
forward. The graceful server does not wait for upgraded connections; no text promises
that it does.

Next: a retry of `bind_multiple` that keeps the inherited descriptors, should the code come to
offer one (`CheckedIsValid` is the property to ask of it); and the lock of `GuardedPaths` for a
service whose first name is a path with no unlink, which `bind(2)` guards only until a crash.
