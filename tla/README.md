# tinit: TLA+ models and proofs

tinit is an init process (PID 1) for small Linux systems: it loads service
descriptions, starts the services of a boot target in dependency order,
respawns their daemons, serves a control client (`tinit`, `svctl.c`) over a
UNIX datagram socket, and stops everything in order before it halts or reboots.
It is one thread around an epoll loop; what makes it hard is that its handlers
call one another back through notifications, and that processes, timers,
signals and clients may act between any two of them.

## Inventory

| part | source | state | operations | modelled by |
|---|---|---|---|---|
| services | `svc.c`, `svc.h` | `struct svc`: state, handlers, child, timer, position in the start / stop sequence | start, stop, reload, spawn, respawn, exit, timer, notification | `Svc` |
| notifications | `notif.c` | per service: polled sources and list of observers | register, unregister, iterate | `Repo` (building), `Svc` (delivery) |
| repository | `repo.c` | ordered list of services | load, search, register dependencies, clear | `Repo` |
| targets | `target.c` | none: a table read from a directory of links | boot start, switch, stop | `Tinit` |
| signal channel | `sigchan.c` | signalfd, signal of the shutdown, count of services still to stop | dispatch (started), dispatch (stopping), waitid loop | `Tinit` |
| main loop and shutdown | `init.c` | the poller; tinit's children | boot, poll, kill everything, reboot | `Tinit` (loop), `Main` (before and after it) |
| control server | `srv.c` | 16 datagram buffers, free or busy; the EPOLLOUT watch | receive, six requests, send | `Tinit` (requests), `Srv` (transport), `Status` (the status reply) |
| client library | `lib.c`, `tinit.h`, `proto.h` | socket, sequence number, reply buffer | one exchange per operation, status iterator | `Srv` (exchanges), `Status` (the iterator) |
| configuration | `conf.c`, `strarr.c` | parsed settings and the memory they own | create from a file, destroy | `Conf` (ownership), `Repo` (what it is used for) |
| mounts | `mnt.c` | mount table and file system types, read at shutdown | mount, unmount, remount read-only | `Mnt`, driven by `Main` |
| client, logging, wrappers | `svctl.c`, `log.c`, `sys.c`, `common.c` | none of interest | formatting, system calls | not modelled, but for the client's loop over a status reply (`Status`) |

How they interact. `main()` loads the repository, which registers every service
with the sources its `starton` and `stopon` settings name. The boot target
calls `svc_start()` on its services. From then on everything comes from the
poller: SIGCHLD (the signal channel reaps zombies and passes their statuses to
the services), per-service timers (retry after 1 s, SIGKILL after 5 s), client
requests, and shutdown signals. A service that becomes READY or STOPPED calls
its observers back, synchronously, possibly many levels deep. When the loop
ends, or a step of the boot fails, `tinit_shutdown()` kills what still runs,
waits for it, unmounts the file systems and reboots.

What is hard:

- *stale state*: `svc->child`, the timer and its callback survive from one life
  of a service to the next;
- *nesting*: an observer changes state, and notifies in turn, while the
  notification loop that called it is not over;
- *races between an exit and a timer*, in both directions, and with `vfork()`
  failing;
- *counting*: shutdown waits for a number of services computed in a loop during
  which the number changes;
- *coalesced signals*: one SIGCHLD for many exits;
- *error paths*: a configuration is a dozen loaders of several allocations each,
  with three places that may release what they made;
- *failing system calls at shutdown*: nobody is left to report to, and what is
  skipped stays mounted and writable.

What correctness means for each part:

- services: the child is always a process of this service not yet waited for;
  the handlers are those of the state; no wake-up is lost; sources are ready
  before a service runs; nothing is left running behind a stopped service;
  a stop ends whatever the processes do; a daemon that exits comes back;
- repository: dependency graphs are acyclic, seen the same from both ends, drop
  nothing but loops, and are dismantled without dangling pointers;
- signal channel and targets: no exit is missed; the count never reaches zero
  early or wraps; after a shutdown has begun nothing starts and everything
  stops, in order; a switch leaves exactly the services of the target on;
- control server and client: no buffer is lost, replies come in order and once,
  what a client takes for its answer is its answer, and one that waits gets it;
  what it reads of a status reply is what the server wrote, complete or refused;
- configuration: no block is freed twice or forgotten on any path, and what is
  returned is complete;
- mounts and shutdown: file systems are unmounted before what they are mounted
  in, what remains is busy, nothing stays writable without a word, and no
  process, however deep in the tree, holds the shutdown up or outlives it.

## Modules

**Lifecycle** is the abstract specification of the services: each is stopped,
waiting for its `starton` sources, starting, ready, waiting for its `stopon`
sources (`leaving`), or stopping. A waiting service goes on exactly when its
condition on the others holds; there are no notifications, processes or timers.
The one liberty is `loose`: a waiting service to which an earlier life has left a
process or an armed timer may go on without its sources, as the code does (see
Known limits). `Released` says that waiting ends once the condition holds.

**Svc** models `svc.c`. `svc` holds `struct svc` of every service, `proc` the
kernel's table of tinit's children, `calls` the `svc_handle_notif()` calls still
to be made. Definitions carry the names of the C functions. A handler is one
step up to its notifications: since `svc_mark_ready()` and `svc_mark_stopped()`
are always called last, the C stack during a notification is no more than the
sequence of calls still to be made, innermost first, and `Notify` makes the
first of them. Only the kernel moves meanwhile: that a process may exit between
two callbacks is exactly what C allows. `begun` is history, and the only field
the code does not have. Child-side code between `vfork()` and `execve()` can only
end in `_exit()`: a process with a bad status. `SVC_START_EVT` and
`SVC_STOP_EVT` are sent by nobody and have no action. Assertions are compiled out
(`TINIT_ASSERT` defaults to n), so they guard nothing; some are properties.
`Start` and `Stop` are there for anybody at any time, within `StartFrom`, the
phases of its life in which a service is asked to start. Svc implements
Lifecycle: `PhaseOfSvc` and `LooseSvcs` map its state, and every notification
protocol of `svc.c` is one way of awaiting a condition.

**Tinit** extends Svc with the event loop. `pc` says in which loop the thread
is: the boot (`TargetStart`), the poller, a `waitid()` loop (`HandleSigchld`), a
target switch, the loop of `tinit_target_stop()`. Handlers and the read of
`svc->state` after them are separate steps (`TargetStopCount`,
`HandleSigchldCount`), because the notifications between the two matter. Its
actions take the steps of Svc, and TLC checks that it implements `SvcSpec`: all
that Svc allows anybody to do, the loop does only in its places. With that,
the services run by the loop implement Lifecycle.

**Status** extends Svc with the status request: `tinit_srv_request_status()`
builds a message out of the services, and the client library walks through it.
A message is its length and what has been written at which offset; server and
client each compute the offsets, from the end of the message and from the length
of the entry just read. The loops are recursive functions: `Matching` and
`Replies` of the server, one value per service, `Steps` of the client
(`show_status()` of `svctl.c`), one per step of the iterator. A request changes no
state and falls between two handlers, so it is a function of the state, evaluated
in every one of them.

**Repo** models loading (`repo.c`), registration with loop detection (`svc.c`,
`notif.c`) and clearing. A file's contents are chosen when it is read, among all
those `conf_load_root()` accepts. `at` says which name of which setting of which
service the loops of `repo.c` have come to: registering one dependency is a step
(`Setup`), as is each service destroyed. `EndsAgree` says that sources and
observers are two ends of one relation, which Svc assumes of its constants
(`GraphAssumption`); `LoopsRefused` that loops, and nothing else, are dropped.
Clearing happens in builds with
`TINIT_DEBUG`; in the others `tinit_repo_clear()` is empty.

**Srv** models the transport of `srv.c` and the exchanges of `lib.c`. `inbox` and
`box` are the queues the kernel keeps for the sockets, `free` and `busy` the
server's buffers, `watch` the EPOLLOUT interest. One dispatch is the passage of
`pc` through `recv` and `send`; each datagram is a step, as clients run
meanwhile. What a client sends is either accepted (`Accepted`: credentials and
form right) or dropped without a reply, which leaves its sender waiting. Types
of messages and result codes are left out: a stale reply to a request of the
same type is the case the sequence number is there for. `id` is history, and so
is `fails`: EINTR or ENOMEM has been met.

**Conf** models the life of a `struct conf_svc`: the heap is the set of blocks
allocated, `conf` what the structure points to. Each loader is a step: the
allocations it makes, in order, any of which may fail, and what it has released
when it does. A file is a set of settings read in any order (`libconfig` refuses
duplicates); of their values only the lists of service names matter, to
`conf_strarr_has_dups()` and, later, to Repo. A block is named by the setting,
the command and the element it is for, and `conf.cmds` keeps how many strings
each command of a sequence has. `conf_seq_release()` clears neither `nr` nor
`cmds`, so a release of a sequence that has been released walks freed memory: its
outcomes are the members of `Stale`, the array freed again with whatever the two
loops still find, up to a NULL anywhere, of the commands and their strings. That
such memory may hold a wild pointer by then, at which tinit would crash, is left
out.

**Mnt** and **Main** model what surrounds the loop. Mnt has the calls of `mnt.c`:
`mounts` is the kernel's table in the order of `/proc/mounts`, `ro`, `open` and
`told` the file systems that are read-only, that tinit holds open, that an error
has been logged about. `MntStep` is the next call, with every outcome the kernel
may give it. Main says when they are called: `main()` up to the loop, the loop as
what the processes it has spawned do (fork, die, mount), `tinit_shutdown()` with
`kill(-1)`, the wait for children, which includes those of dying processes,
unmounting and the reboot.

**MCSvc, MCTinit, MCStatus, MCRepo, MCSrv, MCConf, MCMain** hold the instances;
the graphs are those of the example configuration (klogd starts on syslogd), a
chain and a diamond of three.

**SvcProofs, SvcProcessProofs, TinitProofs, StatusProofs, RepoProofs, SrvProofs,
MainProofs, ConfProofs** hold the proofs.

Definitions whose names end in `_slip` are faulty variants of the function they
precede; no action uses them. Each property is shown able to fail by putting one
in place of the function.

## Runs

| run | instance | shows |
|---|---|---|
| `SvcFull` | 2 services, klogd starts on syslogd and stops before it, start and stop commands, 3 processes, failing forks, starts in any phase | what holds whatever users do: children unreaped, handlers match state, no lost wake-up, and that Svc implements Lifecycle |
| `SvcStop` | chain of 3, a start command at its head and a stop command in its middle, a service without daemon, processes that ignore signals, no `stopon`, restarts from STOPPED only; messages of 24, 63 and 64 bytes | within those limits no process is untracked, each exit is taken for what it is, no transition hangs and stops complete; in every state a client reads the status it asked for, or is told that it does not fit |
| `TinitFull` | 2 services, boot, all requests, two targets, shutdown, failing forks | the count, zombies, that a shutdown is final, target switches, and that the loop implements Svc |
| `TinitBoot` | diamond of 3 booted in an order that is not the dependency order | start order, and every service gets ready |
| `TinitShutdown` | 2 services that stop in order, a stop command, two signals | who waits is released, everything gets stopped, and the shutdown ends if its count is right |
| `Srv` | 2 accepted clients and a rejected one, 2 buffers, queues of 1, 5 sequence numbers, up to 6 requests of one client | buffers, order, matching of late replies, and that who waits is answered |
| `Repo` | 3 files, 3 names, both settings | all graphs, in all directory orders |
| `Conf` | files of up to 5 settings, lists of up to 2 elements, every allocation and check failing | exactly which blocks are freed twice and which are left behind, and that a loaded configuration is complete |
| `Main` | 4 disks (one in another, one with too long a name in that, a FUSE mount), 2 processes, every call failing | what is unmounted, remounted and reported, and that the shutdown goes on |

Why the bounds are enough. Two services reach every pair of states of a source
and its observer, three make the diamond and the chain in which nesting and
double notification happen. Sequences of length 0 and 1 have the first, the last
and the past-the-end command. Process slots: a service can leave one process
behind per life; three slots let two services have a live and a forgotten
process, and when they are all taken `vfork()` fails, which is also what
`ForkFails` allows at any time. In Srv a
client has at most four datagrams under way and there are five sequence numbers,
the fewest `SeqAssumption` allows, so that six requests make them wrap while the
reply to an exchange given up is still in the client's queue; the real 16
buffers, kernel queues of about ten and 2^16 numbers meet it with a wide margin.
The lengths of the paths in `SvcStop` give an entry that ends on an alignment
boundary, one a byte behind it and one in between, one path as long as NAME_MAX
allows (9 in the instance), and messages that hold one entry, all three, and all
but a byte of them. Lists of two elements have a first, a last and a duplicate;
five settings let every loader follow, or be followed by, every other. Three
disks in one another have a middle; two processes make a parent and a child that
becomes an orphan.
Process slots are symmetric in safety runs;
liveness runs use no symmetry. The runs under `SvcSpec` and `TinitSpec` have no
other cap: start and stop positions are bounded by the sequences.

`CHECK_DEADLOCK FALSE` is set where the system may legitimately rest: after
shutdown, and when every service waits for something that never comes because
nobody is obliged to ask.

Runs that refute what the repository says of itself:

| run | what happens |
|---|---|
| `SvcRespawn` | A daemon that exits within a second of being spawned is not respawned: `svc_handle_on_evts()` clears the child and leaves it to a timer whose callback does nothing for a READY service. |
| `SvcDeferredStop` | A stop that waits for another service is later finished by `svc_handle_off_notif()`, which never signals the daemon. |
| `TinitCntCascade` | A service stopped by notification after it was counted is not taken off the count: shutdown hangs. |

### Known limits

Met while modelling and kept out of the properties, which name them, or of the
runs, whose bounds say so:

- `svc_start()` on a STOPPING service that must wait keeps the old child, whose
  exit then counts as a start command; a timer armed in an earlier life fires
  while the service waits for its sources and starts it. Both are `loose` of
  Lifecycle, and `SvcStop` restarts from STOPPED only;
- a second READY notification runs the current start command again beside the
  first (`StartOrder` is about the sources; in `SvcStop` only the head of the
  chain has start commands, as `SimpleSettings` asks);
- after a `vfork()` failure with an idle timer a service stays STARTING or
  STOPPING (`ForkFails = FALSE` in `SvcStop`);
- a shutdown with every service already stopped waits for a signal that need
  not come (`ShutdownEnds` asks for a positive count);
- a target directory with two links to the same file starts the service twice,
  and the second start forgets the first child (`BootsOnce` in the proofs);
- `svc_reload()` may meet a READY service without a child;
- EINTR or ENOMEM in the middle of a dispatch leaves replies queued without
  EPOLLOUT until the next request, and ENOMEM on send drops a reply
  (`WatchMeansBusy`, `Answered` and `AnswerMatches` ask that neither happens);
- a reply that cannot be delivered because its client does not read holds all
  the others back (`Healthy` in `Answered`);
- a client that gave up once finds each later reply one exchange late: -EPROTO,
  for as long as it keeps its socket;
- a service file whose name has NAME_MAX bytes is accepted by the server and
  refused by the client, along with the whole list it is in (`StatusAssumption`);
- `conf_seq_release()` leaves `nr` and `cmds`, so a start or stop sequence one of
  whose commands is refused is released twice: its array is freed again, and with
  it the commands that had been accepted, and their strings, as far as the freed
  memory still leads to them (`ReleasedTwice` says exactly this);
- `conf_fini()` forgets the paths of stdin and stdout, and with no memory for the
  file's name all settings are forgotten (`LeftBehind` says exactly this);
- `conf_load_stdio()` returns its errors as positive numbers, which its callers
  take for lengths (`LoadString` has both outcomes);
- a mount point whose type is not in the list crashes tinit: a FUSE subtype, or
  any type when `/proc/filesystems` cannot be read (`TypesFound`);
- without the mount table nothing at all is unmounted or remounted read-only
  (`"table"` in `NoneSilentlyWritable`);
- `mnt_load_points()` assigns `errno` where it means to compare it (`mnt.c:573`);
  reading `/proc/filesystems` tells its end from an error only because of that
  assignment;
- a requested halt ends in a reboot: `RB_HALT_SYSTEM` is negative as the `int`
  that `tinit_loop()` returns, and `main()` takes it for an error (`init.c:305`,
  `init.c:516`; Main does not keep what is returned);
- when `vfork()` fails for the reboot tinit sleeps for ever (`asleep`).

## Fairness

`SvcFairness`: pending calls are made (the loop does not rest inside a handler).
Reaping and timers are strongly fair, as pending calls disable them repeatedly: a
`waitid()` loop goes on until no zombie is left and timers run in the order of
their dates. A process that was sent SIGKILL ends. No other process ever has to
exit, and nobody has to ask for anything. `TinitFairness` says the same of the
loop. `BootFairSpec` adds that a start command tried again and again succeeds in
the end, without which a boot need not complete. `SrvFairSpec`: the poller goes
on serving, and a client blocked in `recv()` reads what comes; nobody has to
send, to close, or to read a reply it does not wait for. `MainFairSpec`: the
thread goes on, and a process that has been sent SIGKILL dies; no process need
die otherwise and nobody has to ask for a shutdown.

## Proofs

`SvcProofs` proves, for any services, any dependency graphs that satisfy
`GraphAssumption` (no cycle freedom needed), any sequences and any number of
processes, that Svc keeps

- `TypeCorrect`: `TypeOK`,
- `ChildrenUnreaped`: `ChildUnreaped`,
- `HandlersMatchState`: `HandlerMatchesState`,
- `WakeupsNotLost`: `NoLostWakeup`.

The functions of Svc work on services `v`, processes `q` and calls `c` as their
caller has modified them, so the inductive invariant is stated of such a triple,
`Good(v, q, c)`, and `IInv` is `Good(svc, proc, calls)`. It strengthens the
conjunction of the four properties in one place: a service that is STOPPING has
the `off` timer callback, and one that is on has the `on` callback, whether or
not the timer is armed; without that, arming it later could install the wrong
pair. `Others(s, v, q, c)` is the same without the service a handler is at work
on. Per function of `svc.c` there is one lemma that takes `Others` to `IInv'`
(`SpawnStartCmdGood`, `SpawnStopCmdGood`, on top of `SpawnGood`, `MarkReadyGood`,
`MarkStoppedGood`), and per action one that establishes `Others`. The heart is
`MarkReadyGood` (and its twin): marking a service READY may make another one's
last missing source appear, and `GraphAssumption` puts that one in the list
being notified.

`SvcProcessProofs` proves four more properties of Svc, which `svc.c` has within
limits only; a theorem has the limits it needs as hypotheses:

| theorem | property | under |
|---|---|---|
| `ProcessesTracked` | `NoOrphan` | `SimpleSettings`, `StartedStopped` |
| `NothingHangs` | `NothingStuck` | the same and `SureFork` |
| `StartsInOrder` | `StartOrder` | `StartedOnce` |
| `ExitsAreExpected` | `ChildIsExpected` | `StartedStopped` |

`SimpleSettings` is that there are no `stopon` settings and that a service which
starts on others has no start commands (a daemon is enough). `StartedStopped`:
services are started again only when they have stopped, not while they stop;
`StartedOnce`: not at all. `SureFork`: `vfork()` succeeds and there are slots for
all services. None can be left out. For two services, klogd after syslogd, TLC
finds `NoOrphan` and `NothingStuck` violated with a `stopon` setting (the stop that
waits forgets the daemon), with a start command in klogd (a second READY
notification runs it again beside the first) and with starts of a STOPPING
service; `NothingStuck` also when `vfork()` fails; `ChildIsExpected` with starts of
a STOPPING service (its old process exits in the new life); `StartOrder` when
services are restarted (a timer of the earlier life). These are the entries of
Known limits.

- `PInv` is `IInv` and: each process that is not a free slot is the child of the
  service it was spawned for (`Owned`), a pending call comes from a READY source
  (`CallsOK`), a service that starts on others has no process while it is
  STARTING (`SingleOK`, which keeps notifications from spawning a second one), and
  with `SureFork` what goes up or down is `Lively`. `Vacant(s, v, q, c)` is what
  holds of the triple while a handler that is about to spawn is at work on `s`:
  the rest, and no process of `s`. Since then at most one process per other
  service is left, there is a free slot: a pigeonhole argument with cardinalities.
- `OInv` is that a STARTING service whose sequence has not begun has neither a
  process nor an armed timer (`Orderly`), so that an exit or a timer finds one that
  has. Every step is the work of a handler on one service, and one that begins a
  sequence has just polled every source (`InOrder`).
- `EInv` says of each child which command it is (`Expected`), and nothing of a
  process that is no service's child any more: that is why it holds even where
  `NoOrphan` does not.

The second half of SvcProofs proves `SvcImplementsLifecycle` on top of `IInv`. A
step of Svc changes at most one service, so the argument is about one: the
lemmas `UpMove` and `DownMove` say which changes of its record are a step of
Lifecycle, `SilentMove` which are a stutter, and the lemmas named after the
functions (`AskStartMove`, `StartCmdStep`, `ExpireStep`, ...) that each step makes
one of these. The one that needs the invariant most is `NotifyStep`: a service
that is called back and begins has all its sources, which is read off the test
it makes; for one that does not, the step must be a stutter, which needs its
handlers to be those of its state.

`TinitProofs` proves all six properties of `TinitFull`:

- `TInv` is `IInv` of Svc together with `LoopOK`, which is about the loop alone:
  types, where the thread can be (`Where`), and one part for each loop.
- Every handler changes one service; it never turns one on or off unless it is
  `svc_start()` or `svc_stop()`, never takes one out of STOPPED, and makes no
  zombie (`NotifyKeeps`, `ReapKeeps`, `ExpireKeeps`, `StopTurnsOff`). So what
  the loops of `tinit_target_stop()` and `tinit_target_switch()` have achieved
  for the services they have visited survives every cascade.
- `CntCovers` and the type of `cnt`, unsigned, are one argument: during and after
  `tinit_target_stop()` the count is at least the number of the services in
  `Owed`, those it has met and that are not stopped, plus the one whose exit is
  being handled; a decrement is always for one that leaves that set.
- `TinitImplementsSvc` needs `BootsOnce`, that the boot target lists no service
  twice: Svc's `Start` requires a service that is off. `TinitImplementsLifecycle`
  composes the two refinements, so the abstract promise holds in the program for
  any repository, targets, requests and signals.
- `BootStartsInOrder`, `BootExitsAreExpected`, `BootProcessesTracked` and
  `BootNothingHangs` are the theorems of SvcProcessProofs about the whole program,
  from the boot to the end of the shutdown, while clients only stop services
  (`OnlyBootStarts`: `start`, `reload` and `switch` may start one that is STOPPING).
  That a service is started once is then no hypothesis but proved: those the
  boot has still to visit have never been touched (`Untouched`). The last two keep
  `SimpleSettings`, the last one `SureFork`.

`StatusProofs` proves `StatusIsFaithful` (`StatusFaithful`) for any services,
repository, lengths of paths and size of messages, and `RunningStatusIsFaithful`,
that it holds in the whole program (with `BootsOnce`, through the refinement).

- The argument is by induction over the entries of a message, which needs no
  theorem with an operator parameter: a set of numbers that is not empty has a
  least one (`LeastNat`), so a set that has 0 and is closed up to n has all up to n
  (`InductTo`). A recursive function obeys its equation only if some function
  does: for sums and lists `Iteration` builds one, for the messages and the
  iterator the closed forms `ReplyTo` and `IterAfter` are one.
- `OffsetFacts` and `NextOffset` are the heart: the server rounds up the length of
  the message, the client the length of an entry, and they meet because every
  entry begins on an alignment boundary. `OffsetsApart` says that no entry is
  overwritten, `BytesGrow` that a service which did not fit would not fit later,
  `AlignmentCosts` that a client is not refused what would fit by more than the
  padding.
- Of the services it needs only `HandlerMatchesState`, which keeps the two states
  of an entry in agreement (`EntriesAgree`); the client refuses the whole reply
  otherwise.

`RepoProofs` proves the four invariants of `Repo`, for any files, names and
settings: `RepoTypeCorrect`, `EndsMeet` (`EndsAgree`), `LoopsAreRefused`
(`LoopsRefused`) and `NothingDangles` (`NoDangling`).

- That a graph has no loop is used in the form: every nonempty set of services
  has a member with no source in it. A new edge keeps this unless its source is
  already downstream of its observer, which is what the recursive search
  (`HasNotifier`) looks for; and what has this form has no service upstream of
  itself, however long the way round. No induction on lengths of paths is needed.
- The two ends of each dependency are the same relation throughout, without
  duplicates. While dependencies are registered, the number of sources a service
  has is at most the number of names it has been seen to have, which the position
  `at` gives: that bounds `members[]`. While services are cleared the relation is
  that of the services that are left.
- `GraphsForServices`: what the program runs with satisfies `GraphAssumption`, on
  which all theorems about Svc and Tinit rest. The hypothesis of those theorems is
  thereby a property of `repo.c`, not a promise of whoever wrote the files.

`SrvProofs` proves, for any clients, buffers, queue lengths and range of sequence
numbers, `SrvTypeCorrect` (`SrvTypeOK`), `BuffersKept` (`NoBufferLeak`) and
`WatchFollowsReplies` (`WatchMeansBusy`). The three together are inductive: the
type of `free` is that a release finds room, which is `NoBufferLeak`.
`ReleaseKeepsBuffers` is what all the ends of a reply's life share.

It also proves, for any values of the constants, `RepliesAreInOrder`
(`RepliesInOrder`) and `AnswersMatch` (`AnswerMatches`). The invariant is about
`Line(c)`, what is under way for a client from its oldest reply to its newest
request: the messages of `c` in it are in order (`Sorted`), older than the next
one (`Numbered`), none sent after one of them is missing (`Whole`), and none is so
old that its sequence number has come again (`Near`). The last two need each
other: since nothing in between is missing there are as many messages as there
are numbers since the oldest, a line has room for `InFlightMax`, and
`SeqAssumption` says that this is less than a turn. An ENOMEM breaks `Whole`,
which is why `AnswerMatches` asks that no system call fails. In most steps a
message goes from one queue to the next and the line stays as it is.

`MainProofs` proves the four invariants of `Main` for any tree of disks and any
processes. The invariant is that the mount table has what a file system is
mounted in before it, so that the list of points, its reverse (`ReverseOrder`),
has children first; that every point is either still to be visited or read-only,
reported or gone; and that following parents from any process leads to tinit, so
that when tinit has no children there are no processes (`NoChildNoProcess`):
unmounting never meets a file system that is busy because of one.

`ConfProofs` proves the four invariants of `Conf` for any names, lengths of lists
and order of settings. The invariant is an equation: the heap is exactly what the
structure owns, setting by setting. `FiniReleases` and `FailReleases` say that
`conf_fini()` empties what is described so, and each loader has one lemma that
it re-establishes the equation or fails in a state to which these apply. A
sequence whose loader has released it already is `Dangling`: `SeqReleaseIs` says
that releasing it again frees its array and otherwise no more than `SeqBlocks`,
`FiniReleases` that no setting but a dangling one is freed twice, and
`FailSettingGood` that at most the setting that failed dangles, whence `TwiceIsKnown`.
`StdioRemains` gives the other equation, that of `WhatIsLeft`.

What the proofs assume is what the modules state as assumptions on their
constants; `BootsOnce`, in the two refinements by Tinit and what follows from them;
and, in SvcProcessProofs
and the `Boot...` theorems, the limits named above.

Every invariant and every action property of the runs is stated by a theorem. Only
model-checked are `StopCompletes`, `BootCompletes`, `WaitersReleased`,
`ShutdownStopsAll`, `ShutdownEnds`, `Answered` and `ShutdownGoesOn`, which are about
fairness or ENABLED, beyond the prover's reach, and what the three runs refute.

## Not modelled

The rest of `svctl.c` parses arguments and prints what the client library returns; `log.c`
only writes. `sys.c` and `common.c` wrap system calls and check the characters of
names. Command line, environment and standard I/O set-up in `init.c` are
straight-line system calls: one step of Main that may fail. Reading a target
directory (`target.c:54-342`) yields a table, which is a constant of Tinit; as
with a repository that cannot be loaded, its failure ends the boot. The
characters of settings and names, mount flags and options, and patterns that
`fnmatch()` refuses are data no property tells apart. Children that are not
services' are reaped and ignored by the loop; Main has them, Tinit does not.
Reads of unused memory past the end (`notif.h:53-56`, `target.c:272-275`) have no
counterpart where there are no addresses.

## Plan

1. Done: Svc, Lifecycle, Tinit, Status, Repo, Srv, Conf, Mnt and Main, with the
   refinements Tinit => Svc => Lifecycle, and proofs of every invariant and action
   property of the runs.
2. Left: the reading of the target directory, with duplicate links, as a module
   in front of Tinit; the composition of Srv with Tinit, whose requests it
   carries.
