-------------------------------- MODULE Svc --------------------------------
(***************************************************************************)
(* The life of tinit's services (svc.c): the per-service state machine,    *)
(* the processes it spawns, kills and reaps, its retry / kill timer, and   *)
(* the notifications by which one service's change of state lets the       *)
(* services that observe it go on.                                         *)
(*                                                                         *)
(* tinit is one thread.  A handler runs to its end before the event loop   *)
(* runs another, but svc_mark_ready() and svc_mark_stopped() call the      *)
(* handle_notif() of their observers, which may mark further services: a   *)
(* call tree of unbounded depth.  Each of those calls is a tail call, so   *)
(* the C stack is the sequence `calls' of the svc_handle_notif() calls     *)
(* still to be made, innermost first: one step of this module is one       *)
(* handler up to its notifications, and only the kernel moves while        *)
(* `calls' is not empty.                                                   *)
(***************************************************************************)
EXTENDS Integers, Sequences

CONSTANTS
  Services,      \* the services of the repository
  StartOn,       \* [Services -> SUBSET Services]: sources polled by svc_may_start()
  StopOn,        \* [Services -> SUBSET Services]: sources polled by svc_may_stop()
  StartOnObsrv,  \* [Services -> Seq(Services)]: the starton_obsrv lists
  StopOnObsrv,   \* [Services -> Seq(Services)]: the stopon_obsrv lists
  StartCmdNr,    \* [Services -> Nat]: length of the start sequence
  StopCmdNr,     \* [Services -> Nat]: length of the stop sequence
  Daemon,        \* the services whose configuration has a daemon command
  Pids,          \* process slots: the bound on live and zombie processes
  NoPid,         \* svc->child = -1, and the -errno of a failed vfork()
  NoSvc,
  ForkFails,     \* may vfork() fail although a process slot is left?
  StartFrom      \* phases of a service in which svc_start() is asked for

Phases == {"BOOT", "STOPPED", "STOPPING"}
States == {"STOPPED", "STARTING", "READY", "STOPPING"}
Jobs   == {"start", "daemon", "stop"}

ElementsOf(seq) == {seq[i] : i \in DOMAIN seq}

(* The observer lists are the polled sources seen from the other end, as   *)
(* notif_register_poll_sink() builds them, and no service is its own       *)
(* source (svc_register_starton_obsrv() refuses that as a loop).           *)
ASSUME GraphAssumption ==
  /\ StartOn \in [Services -> SUBSET Services]
  /\ StopOn \in [Services -> SUBSET Services]
  /\ StartOnObsrv \in [Services -> Seq(Services)]
  /\ StopOnObsrv \in [Services -> Seq(Services)]
  /\ \A s, o \in Services : s \in StartOn[o] <=> o \in ElementsOf(StartOnObsrv[s])
  /\ \A s, o \in Services : s \in StopOn[o] <=> o \in ElementsOf(StopOnObsrv[s])
  /\ \A s \in Services : s \notin StartOn[s] /\ s \notin StopOn[s]

ASSUME ConfAssumption ==
  /\ StartCmdNr \in [Services -> Nat]
  /\ StopCmdNr \in [Services -> Nat]
  /\ Daemon \subseteq Services

ASSUME KernelAssumption ==
  /\ NoPid \notin Pids
  /\ NoSvc \notin Services
  /\ ForkFails \in BOOLEAN
  /\ StartFrom \subseteq Phases

VARIABLES
  svc,    \* struct svc of every service, and one history field, begun
  proc,   \* the kernel's process table, as far as children of tinit go
  calls   \* svc_handle_notif(sink, src) calls still to be made

vars == <<svc, proc, calls>>

-----------------------------------------------------------------------------
(* A service.  `on' tells which pair of handlers is installed; `expire' the *)
(* callback given to utimer_setup().  start_cmd and stop_cmd are not        *)
(* initialised by svc_init() and not read before svc_start() / svc_stop()   *)
(* set them.  `begun' is history: the start (stop) sequence of the current  *)
(* svc_start() (svc_stop()) has been entered.                               *)
SvcRecord == [state     : States,
              on        : BOOLEAN,
              child     : Pids \cup {NoPid},
              armed     : BOOLEAN,
              expire    : {"none", "on", "off"},
              start_cmd : Nat,
              stop_cmd  : Nat \cup {-1},
              begun     : BOOLEAN]

svc_init == [state     |-> "STOPPED",
             on        |-> FALSE,
             child     |-> NoPid,
             armed     |-> FALSE,
             expire    |-> "none",
             start_cmd |-> 0,
             stop_cmd  |-> -1,
             begun     |-> FALSE]

svc_is_on(s) == svc[s].on

(* A process slot: free, running, or a zombie with exit status 0 ("ok") or  *)
(* another status or a signal ("bad").  kill: SIGKILL has been sent.        *)
ProcRecord == [st   : {"free", "run", "ok", "bad"},
               svc  : Services \cup {NoSvc},
               job  : Jobs \cup {"none"},
               kill : BOOLEAN]

FreeSlot == [st |-> "free", svc |-> NoSvc, job |-> "none", kill |-> FALSE]

Fork(s, job) == [st |-> "run", svc |-> s, job |-> job, kill |-> FALSE]

Call == [src : Services, sink : Services]

(* What a notif_foreach() over an observer list is going to call.           *)
Notifs(s, obsrv) == [i \in DOMAIN obsrv |-> [src |-> s, sink |-> obsrv[i]]]

(* The handler returns: v, q and rest are the services, the processes and   *)
(* the calls it leaves.                                                     *)
Return(v, q, rest) == svc' = v /\ proc' = q /\ calls' = rest

-----------------------------------------------------------------------------
(* The functions of svc.c.  s is the service, v the services and q the      *)
(* processes as the caller has modified them so far, rest the calls the     *)
(* callers still have to make.  A definition named ..._slip is a faulty     *)
(* variant of the function it precedes: the model uses none of them, they   *)
(* serve to see a property fail (PROJECT.json, "mutants").                  *)

(* Notifies the observers of the other list.                                *)
svc_mark_stopped_slip(s, v, q, rest) ==
  Return([v EXCEPT ![s].child = NoPid, ![s].state = "STOPPED"],
         q, Notifs(s, StartOnObsrv[s]) \o rest)

svc_mark_stopped(s, v, q, rest) ==
  Return([v EXCEPT ![s].child = NoPid, ![s].state = "STOPPED"],
         q, Notifs(s, StopOnObsrv[s]) \o rest)

svc_mark_ready(s, v, q, rest) ==
  Return([v EXCEPT ![s].state = "READY"], q, Notifs(s, StartOnObsrv[s]) \o rest)

FreeSlots(q) == {p \in Pids : q[p].st = "free"}

(* The outcomes of svc_spawn(): a pid and the process table that has it.    *)
svc_spawn(s, job, q) ==
  {[child |-> p, proc |-> [q EXCEPT ![p] = Fork(s, job)]] : p \in FreeSlots(q)}
    \cup (IF ForkFails \/ FreeSlots(q) = {}
            THEN {[child |-> NoPid, proc |-> q]} ELSE {})

(* svc->child receives the outcome; only a successful vfork() has armed the *)
(* timer.                                                                   *)
Spawned(s, v, o) ==
  [v EXCEPT ![s].child = o.child,
            ![s].armed = IF o.child = NoPid THEN @ ELSE TRUE]

svc_spawn_start_cmd(s, v, q, rest) ==
  LET w == [v EXCEPT ![s].begun = TRUE]
  IN  \/ /\ v[s].start_cmd < StartCmdNr[s]
         /\ \E o \in svc_spawn(s, "start", q) :
              Return(Spawned(s, w, o), o.proc, rest)
      \/ /\ v[s].start_cmd >= StartCmdNr[s]
         /\ s \in Daemon
         /\ \E o \in svc_spawn(s, "daemon", q) :
              \/ /\ o.child = NoPid
                 /\ Return(Spawned(s, w, o), o.proc, rest)
              \/ /\ o.child # NoPid
                 /\ svc_mark_ready(s, Spawned(s, w, o), o.proc, rest)
      \/ /\ v[s].start_cmd >= StartCmdNr[s]
         /\ s \notin Daemon
         /\ svc_mark_ready(s, [w EXCEPT ![s].child = NoPid], q, rest)

svc_respawn(s, v, q, rest) == svc_spawn_start_cmd(s, v, q, rest)

(* Waits for a source only while it is starting.                            *)
svc_may_start_slip(s, v) == \A src \in StartOn[s] : v[src].state # "STARTING"

svc_may_start(s, v) == \A src \in StartOn[s] : v[src].state = "READY"

(* Respawns without looking at svc->child.                                  *)
svc_expire_on_slip(s, v) ==
  \/ v[s].state = "READY" /\ Return(v, proc, <<>>)
  \/ v[s].state = "STARTING" /\ svc_respawn(s, v, proc, <<>>)

svc_expire_on(s, v) ==
  \/ /\ v[s].state = "READY"
     /\ Return(v, proc, <<>>)
  \/ /\ v[s].state = "STARTING"
     /\ v[s].child # NoPid
     /\ Return(v, proc, <<>>)
  \/ /\ v[s].state = "STARTING"
     /\ v[s].child = NoPid
     /\ svc_respawn(s, v, proc, <<>>)

(* utimer_setup() replaces the callback of a timer that may be armed.       *)
svc_start(s) ==
  LET v == [svc EXCEPT ![s].on = TRUE, ![s].state = "STARTING",
                       ![s].expire = "on", ![s].start_cmd = 0,
                       ![s].begun = FALSE]
  IN  \/ svc_may_start(s, v) /\ svc_spawn_start_cmd(s, v, proc, <<>>)
      \/ ~svc_may_start(s, v) /\ Return(v, proc, <<>>)

(* Counts down.                                                             *)
svc_spawn_stop_cmd_slip(s, v, q, rest) ==
  \E o \in svc_spawn(s, "stop", q) :
    Return(Spawned(s, [v EXCEPT ![s].stop_cmd = @ - 1, ![s].begun = TRUE], o),
           o.proc, rest)

svc_spawn_stop_cmd(s, v, q, rest) ==
  LET w == [v EXCEPT ![s].stop_cmd = @ + 1, ![s].begun = TRUE]
  IN  \/ /\ w[s].stop_cmd >= StopCmdNr[s]
         /\ svc_mark_stopped(s, w, q, rest)
      \/ /\ w[s].stop_cmd < StopCmdNr[s]
         /\ \E o \in svc_spawn(s, "stop", q) :
              Return(Spawned(s, w, o), o.proc, rest)

svc_may_stop(s, v) == \A src \in StopOn[s] : v[src].state = "STOPPED"

(* kill() fails on no child or a reaped one; it succeeds on a zombie.       *)
svc_kill_works(s, v) == v[s].child # NoPid /\ proc[v[s].child].st # "free"

(* Signals politely again.                                                  *)
svc_expire_off_slip(s, v) ==
  \/ /\ v[s].state = "STOPPED" \/ svc_kill_works(s, v)
     /\ Return(v, proc, <<>>)
  \/ /\ v[s].state = "STOPPING"
     /\ ~svc_kill_works(s, v)
     /\ svc_spawn_stop_cmd(s, v, proc, <<>>)

svc_expire_off(s, v) ==
  \/ /\ v[s].state = "STOPPED"
     /\ Return(v, proc, <<>>)
  \/ /\ v[s].state = "STOPPING"
     /\ svc_kill_works(s, v)
     /\ Return(v, [proc EXCEPT ![v[s].child].kill = TRUE], <<>>)
  \/ /\ v[s].state = "STOPPING"
     /\ ~svc_kill_works(s, v)
     /\ svc_spawn_stop_cmd(s, v, proc, <<>>)

(* Forgets utimer_setup(), stop_cmd, or utimer_arm_sec().                   *)
svc_stop_callback_slip(s) ==
  LET v == [svc EXCEPT ![s].on = FALSE, ![s].state = "STOPPING",
                       ![s].stop_cmd = -1, ![s].begun = FALSE]
  IN  /\ svc_may_stop(s, v)
      /\ svc_kill_works(s, v)
      /\ Return([v EXCEPT ![s].armed = TRUE, ![s].begun = TRUE], proc, <<>>)

svc_stop_cmd_slip(s) ==
  LET v == [svc EXCEPT ![s].on = FALSE, ![s].state = "STOPPING",
                       ![s].expire = "off", ![s].begun = FALSE]
  IN  /\ svc_may_stop(s, v)
      /\ \/ /\ svc_kill_works(s, v)
            /\ Return([v EXCEPT ![s].armed = TRUE, ![s].begun = TRUE], proc, <<>>)
         \/ /\ ~svc_kill_works(s, v)
            /\ svc_spawn_stop_cmd(s, v, proc, <<>>)

svc_stop_timer_slip(s) ==
  LET v == [svc EXCEPT ![s].on = FALSE, ![s].state = "STOPPING",
                       ![s].expire = "off", ![s].stop_cmd = -1]
  IN  svc_may_stop(s, v) /\ svc_kill_works(s, v) /\ Return(v, proc, <<>>)

(* The stop signal is a request: the process may exit, or not.              *)
svc_stop(s) ==
  LET v == [svc EXCEPT ![s].on = FALSE, ![s].state = "STOPPING",
                       ![s].expire = "off", ![s].stop_cmd = -1,
                       ![s].begun = FALSE]
  IN  \/ ~svc_may_stop(s, v) /\ Return(v, proc, <<>>)
      \/ /\ svc_may_stop(s, v)
         /\ svc_kill_works(s, v)
         /\ Return([v EXCEPT ![s].armed = TRUE, ![s].begun = TRUE], proc, <<>>)
      \/ /\ svc_may_stop(s, v)
         /\ ~svc_kill_works(s, v)
         /\ svc_spawn_stop_cmd(s, v, proc, <<>>)

(* Does not clear svc->child while the timer is armed.                      *)
svc_handle_on_evts_child_slip(s, status, q) ==
  /\ svc[s].armed
  /\ Return(svc, q, <<>>)

(* SVC_EXIT_EVT; nothing sends SVC_START_EVT or SVC_STOP_EVT.               *)
svc_handle_on_evts(s, status, q) ==
  \/ /\ svc[s].state = "STARTING"
     /\ status = "ok"
     /\ svc_respawn(s, [svc EXCEPT ![s].start_cmd = @ + 1], q, <<>>)
  \/ /\ svc[s].state = "STARTING"
     /\ status = "bad"
     /\ ~svc[s].armed
     /\ svc_respawn(s, svc, q, <<>>)
  \/ /\ svc[s].state = "READY"
     /\ ~svc[s].armed
     /\ svc_respawn(s, [svc EXCEPT ![s].state = "STARTING"], q, <<>>)
  \/ /\ svc[s].state = "READY" \/ (svc[s].state = "STARTING" /\ status = "bad")
     /\ svc[s].armed
     /\ Return([svc EXCEPT ![s].child = NoPid], q, <<>>)

svc_handle_off_evts(s, q) ==
  /\ svc[s].state = "STOPPING"
  /\ svc_spawn_stop_cmd(s, svc, q, <<>>)

svc_handle_on_notif(s, src, rest) ==
  LET go == /\ svc[s].state = "STARTING"
            /\ svc[src].state = "READY"
            /\ svc_may_start(s, svc)
  IN  \/ go /\ svc_spawn_start_cmd(s, svc, proc, rest)
      \/ ~go /\ Return(svc, proc, rest)

svc_handle_off_notif(s, src, rest) ==
  LET go == /\ svc[s].state = "STOPPING"
            /\ svc[src].state = "STOPPED"
            /\ svc_may_stop(s, svc)
  IN  \/ go /\ svc_spawn_stop_cmd(s, svc, proc, rest)
      \/ ~go /\ Return(svc, proc, rest)

-----------------------------------------------------------------------------
(* The steps.                                                               *)

(* The innermost pending svc_handle_notif() call.                           *)
Notify ==
  /\ calls # <<>>
  /\ LET c == Head(calls)
     IN  \/ svc_is_on(c.sink) /\ svc_handle_on_notif(c.sink, c.src, Tail(calls))
         \/ ~svc_is_on(c.sink) /\ svc_handle_off_notif(c.sink, c.src, Tail(calls))

(* A process ends; the kernel keeps it as a zombie.  After SIGKILL it does  *)
(* not end with status 0.                                                   *)
Exit(p, status) ==
  /\ proc[p].st = "run"
  /\ proc[p].kill => status = "bad"
  /\ proc' = [proc EXCEPT ![p].st = status]
  /\ UNCHANGED <<svc, calls>>

(* waitid() returns one zombie, whose service, if any, gets SVC_EXIT_EVT.   *)
Reap(p) ==
  LET q == [proc EXCEPT ![p] = FreeSlot]
  IN  /\ proc[p].st \in {"ok", "bad"}
      /\ calls = <<>>
      /\ \/ \E s \in Services :
              /\ svc[s].child = p
              /\ \/ svc_is_on(s) /\ svc_handle_on_evts(s, proc[p].st, q)
                 \/ ~svc_is_on(s) /\ svc_handle_off_evts(s, q)
         \/ /\ \A s \in Services : svc[s].child # p
            /\ Return(svc, q, calls)

(* The service's timer expires: it is idle when its callback runs.          *)
Expire(s) ==
  LET v == [svc EXCEPT ![s].armed = FALSE]
  IN  /\ svc[s].armed
      /\ calls = <<>>
      /\ \/ svc[s].expire = "on" /\ svc_expire_on(s, v)
         \/ svc[s].expire = "off" /\ svc_expire_off(s, v)

Phase(s) == IF svc[s].expire = "none" THEN "BOOT" ELSE svc[s].state

(* Boot target, client request or target switch: every caller of            *)
(* svc_start() but the boot target tests that the service is off first.     *)
Start(s) ==
  /\ calls = <<>>
  /\ svc[s].state \notin {"STARTING", "READY"}
  /\ Phase(s) \in StartFrom
  /\ svc_start(s)

(* Client request, target switch or shutdown.                               *)
Stop(s) ==
  /\ calls = <<>>
  /\ svc[s].state \notin {"STOPPED", "STOPPING"}
  /\ svc_stop(s)

SvcInit ==
  /\ svc = [s \in Services |-> svc_init]
  /\ proc = [p \in Pids |-> FreeSlot]
  /\ calls = <<>>

SvcNext ==
  \/ Notify
  \/ \E p \in Pids, status \in {"ok", "bad"} : Exit(p, status)
  \/ \E p \in Pids : Reap(p)
  \/ \E s \in Services : Expire(s)
  \/ \E s \in Services : Start(s)
  \/ \E s \in Services : Stop(s)

SvcSpec == SvcInit /\ [][SvcNext]_vars

(* The loop finishes the calls it has begun.  Reap and Expire are strongly  *)
(* fair because pending calls disable them again and again: a SIGCHLD       *)
(* dispatch waits until no zombie is left, and timers run in the order of   *)
(* their dates, so none is passed over for ever.  The kernel ends a process *)
(* that was sent SIGKILL.  Nothing obliges any other process to exit, or    *)
(* anybody to start or stop a service.                                      *)
SvcFairness ==
  /\ WF_vars(Notify)
  /\ \A p \in Pids : SF_vars(Reap(p))
  /\ \A s \in Services : SF_vars(Expire(s))
  /\ \A p \in Pids : WF_vars(proc[p].kill /\ Exit(p, "bad"))

SvcFairSpec == SvcSpec /\ SvcFairness

-----------------------------------------------------------------------------
(* Invariants.                                                              *)

(* Every field of struct svc and every process slot has a value of its type *)
(* and the pending calls are between a service and one of its observers.    *)
TypeOK ==
  /\ svc \in [Services -> SvcRecord]
  /\ proc \in [Pids -> ProcRecord]
  /\ calls \in Seq(Call)

(* svc->child always names a process that tinit spawned for that service    *)
(* and has not waited for: svc_kill() never signals a pid the kernel may    *)
(* have given to somebody else, and tinit_repo_search_bypid() never hands   *)
(* an exit status to the wrong service.                                     *)
ChildUnreaped ==
  \A s \in Services : svc[s].child # NoPid =>
    /\ proc[svc[s].child].st # "free"
    /\ proc[svc[s].child].svc = s

(* The handlers and the timer callback that are installed are those of the  *)
(* service's state, so that none of the assert(0) branches of svc.c can be  *)
(* taken: neither by an exit, nor by a timer, armed long ago, nor by a      *)
(* notification.  The build has no asserts: such a branch would be silent.  *)
HandlerMatchesState ==
  \A s \in Services :
    /\ svc[s].on <=> svc[s].state \in {"STARTING", "READY"}
    /\ svc[s].armed => svc[s].expire = (IF svc[s].on THEN "on" ELSE "off")
    /\ svc[s].state = "STOPPED" => svc[s].child = NoPid

SourcesReady(s)   == \A src \in StartOn[s] : svc[src].state = "READY"
SourcesStopped(s) == \A src \in StopOn[s] : svc[src].state = "STOPPED"

(* A call that will let s go on is still to be made.                        *)
Pending(s, Source, state) ==
  \E c \in ElementsOf(calls) :
    c.sink = s /\ c.src \in Source /\ svc[c.src].state = state

StartNotLost(s) ==
  (/\ svc[s].state = "STARTING"
   /\ ~svc[s].begun
   /\ SourcesReady(s)) => Pending(s, StartOn[s], "READY")

StopNotLost(s) ==
  (/\ svc[s].state = "STOPPING"
   /\ ~svc[s].begun
   /\ SourcesStopped(s)) => Pending(s, StopOn[s], "STOPPED")

(* No wake-up is lost: a service that waits for its sources is waiting for  *)
(* one that is not there yet, or the notification that releases it is being *)
(* delivered.  When the event loop is idle only the former is possible.     *)
NoLostWakeup == \A s \in Services : StartNotLost(s) /\ StopNotLost(s)

(* The process whose exit a handler is about to interpret is the one the    *)
(* handler takes it for: svc_handle_on_evts() advances the start sequence   *)
(* on the exit of a start command only, a READY service respawns on the     *)
(* exit of its daemon only, and the stop sequence advances on the exit of   *)
(* what svc_stop() signalled or of a stop command.                          *)
ChildIsExpected ==
  \A s \in Services : svc[s].child # NoPid =>
    LET job == proc[svc[s].child].job
    IN  CASE svc[s].state = "STARTING" -> job = "start"
          [] svc[s].state = "READY"    -> job = "daemon"
          [] svc[s].state = "STOPPING" ->
               (job = "stop") <=> (svc[s].stop_cmd >= 0)
          [] OTHER -> FALSE

(* Every process tinit has spawned and not waited for is the child of its   *)
(* service: no second copy of a daemon or of a command, and nothing left    *)
(* running behind a service that is stopped.                                *)
NoOrphan ==
  \A p \in Pids : proc[p].st # "free" => svc[proc[p].svc].child = p

(* A stopped service has no process running.                                *)
StoppedIsDead ==
  \A p \in Pids : proc[p].st = "run" => svc[proc[p].svc].state # "STOPPED"

(* When the loop is idle a service that is going up or down has something   *)
(* to wait for: a process, its timer, or a source.  A transition that loses *)
(* all three has hung for ever.                                             *)
NothingStuck ==
  calls = <<>> => \A s \in Services :
    /\ svc[s].state = "STARTING" =>
         \/ svc[s].child # NoPid
         \/ svc[s].armed
         \/ ~svc[s].begun /\ ~SourcesReady(s)
    /\ svc[s].state = "STOPPING" =>
         \/ svc[s].child # NoPid /\ (svc[s].armed \/ proc[svc[s].child].kill
                                       \/ proc[svc[s].child].st # "run")
         \/ ~svc[s].begun /\ ~SourcesStopped(s)

-----------------------------------------------------------------------------
(* Action properties.                                                       *)

(* The start sequence of s is entered for the first time since svc_start(). *)
BeginsStart(s) ==
  /\ svc'[s].on
  /\ svc'[s].begun
  /\ ~svc[s].begun \/ ~svc[s].on

(* The starton setting: a service runs no command before all the services   *)
(* it starts on are ready.                                                  *)
StartOrder ==
  [][\A s \in Services : BeginsStart(s) => SourcesReady(s)']_vars

-----------------------------------------------------------------------------
(* The abstract specification that Svc implements.                          *)

(* Where a service stands, as Lifecycle sees it.                            *)
PhaseOfSvc(s) ==
  CASE svc[s].state = "STOPPED"  -> "stopped"
    [] svc[s].state = "READY"    -> "ready"
    [] svc[s].state = "STARTING" -> IF svc[s].begun THEN "starting" ELSE "waiting"
    [] svc[s].state = "STOPPING" -> IF svc[s].begun THEN "stopping" ELSE "leaving"

(* A waiting service whose handlers an exit or a timer may still run.       *)
LooseSvcs ==
  {s \in Services : /\ svc[s].state \in {"STARTING", "STOPPING"}
                    /\ ~svc[s].begun
                    /\ svc[s].armed \/ svc[s].child # NoPid}

L == INSTANCE Lifecycle WITH phase <- [s \in Services |-> PhaseOfSvc(s)],
                             loose <- LooseSvcs

(* Notifications, processes and timers implement plain waiting: a service   *)
(* that has to wait goes up (down) only once all its sources are ready      *)
(* (stopped), and only what its earlier life has left behind, the exit of a *)
(* child or an armed timer, can make it go on before.                       *)
ImplementsLifecycle == L!LifecycleSpec

(* A service that waits for sources that are all there goes on, unless they *)
(* go away first: the notification that tells it comes in the end.          *)
WaitersReleased == L!Released

-----------------------------------------------------------------------------
(* Liveness.                                                                *)

(* A service asked to stop is stopped, whatever its processes do about      *)
(* signals, unless it is started again meanwhile.                           *)
StopCompletes ==
  \A s \in Services : svc[s].state = "STOPPING" ~> svc[s].state # "STOPPING"

(* A service in administrative `on' state whose daemon is gone gets it back *)
(* (or is stopped, or waits for a source).                                  *)
DaemonRespawned ==
  \A s \in Daemon : (svc[s].state = "READY" /\ svc[s].child = NoPid) ~>
                      (svc[s].state # "READY" \/ svc[s].child # NoPid)
=============================================================================
