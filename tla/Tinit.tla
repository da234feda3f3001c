------------------------------- MODULE Tinit -------------------------------
(***************************************************************************)
(* The init process around the services: tinit_loop() (init.c), the boot   *)
(* target, target switches and the shutdown (target.c), the signal channel *)
(* (sigchan.c) and the client requests that change a service (srv.c).      *)
(*                                                                         *)
(* pc is where the single thread is: in one of the loops over services of  *)
(* target.c, in tinit_poll(), or in the waitid() loop of                   *)
(* tinit_sigchan_handle_sigchld().  Svc's steps are taken from there, so   *)
(* what Svc leaves to anybody at any time (Start, Stop, Reap) happens here *)
(* only when and as often as the program does it.                          *)
(***************************************************************************)
EXTENDS Svc, FiniteSets

CONSTANTS
  RepoList,    \* the services in repository order
  BootTable,   \* services of the boot target, in directory order
  Targets,     \* targets a client may switch to, as sets of services
  Requests,    \* request types clients send
  ShutdownSigs \* shutdown signals that may be sent to tinit

ASSUME RepoAssumption ==
  /\ RepoList \in Seq(Services)
  /\ ElementsOf(RepoList) = Services
  /\ \A i, j \in DOMAIN RepoList : RepoList[i] = RepoList[j] => i = j
  /\ BootTable \in Seq(Services) \ {<<>>}
  /\ Targets \subseteq SUBSET Services
  /\ Requests \subseteq {"start", "stop", "reload", "switch"}
  /\ "CHLD" \notin ShutdownSigs /\ "none" \notin ShutdownSigs
  /\ StartFrom = Phases

VARIABLES
  pc,       \* "boot", "poll", "reap", "switch", "halt" or "down"
  dispatch, \* chan->work.dispatch: "started" or "stopping"
  todo,     \* services the current loop of target.c has still to visit
  goal,     \* services of the target being switched to
  cur,      \* service whose handler or svc_stop() has just been called
  cnt,      \* chan->cnt, and the local cnt of tinit_target_stop()
  rcnt,     \* the local cnt of tinit_sigchan_handle_sigchld()
  pend,     \* signals pending on the signalfd
  signo     \* chan->signo

loopvars == <<pc, dispatch, todo, goal, cur, cnt, rcnt, signo>>
tvars    == <<vars, loopvars, pend>>

IsOn(s) == svc[s].state \in {"STARTING", "READY"}

(* The thread is at `at', with no handler running.                          *)
Idle(at) == pc = at /\ calls = <<>> /\ cur = NoSvc

(* Clients are served until tinit_srv_close().                              *)
Serving == Idle("poll") /\ dispatch = "started"

-----------------------------------------------------------------------------
(* Faulty variants, as in Svc, are named ..._slip.                          *)

(* Leaves out a service whose sources are not ready yet.                    *)
TargetStart_slip ==
  /\ Idle("boot")
  /\ todo # <<>>
  /\ \/ svc_may_start(Head(todo), svc) /\ svc_start(Head(todo))
     \/ ~svc_may_start(Head(todo), svc) /\ UNCHANGED vars
  /\ todo' = Tail(todo)
  /\ UNCHANGED <<pc, dispatch, goal, cur, cnt, rcnt, signo, pend>>

(* Boot: svc_start() on each service of the table, whatever its state.      *)
TargetStart ==
  /\ Idle("boot")
  /\ todo # <<>>
  /\ svc_start(Head(todo))
  /\ todo' = Tail(todo)
  /\ UNCHANGED <<pc, dispatch, goal, cur, cnt, rcnt, signo, pend>>

(* Leaves a service of the target that is still stopping alone.             *)
TargetSwitch_stopping_slip ==
  /\ Idle("switch")
  /\ todo # <<>>
  /\ LET s == Head(todo)
     IN  \/ s \notin goal /\ IsOn(s) /\ svc_stop(s)
         \/ s \in goal /\ svc[s].state = "STOPPED" /\ svc_start(s)
         \/ /\ ~(s \notin goal /\ IsOn(s))
            /\ ~(s \in goal /\ svc[s].state = "STOPPED")
            /\ UNCHANGED vars
  /\ todo' = Tail(todo)
  /\ UNCHANGED <<pc, dispatch, goal, cur, cnt, rcnt, signo, pend>>

(* Only what is off is started and only what is on is stopped.              *)
TargetSwitch ==
  /\ Idle("switch")
  /\ todo # <<>>
  /\ LET s == Head(todo)
     IN  \/ s \notin goal /\ IsOn(s) /\ svc_stop(s)
         \/ s \in goal /\ ~IsOn(s) /\ svc_start(s)
         \/ (s \in goal <=> IsOn(s)) /\ UNCHANGED vars
  /\ todo' = Tail(todo)
  /\ UNCHANGED <<pc, dispatch, goal, cur, cnt, rcnt, signo, pend>>

TargetDone ==
  /\ Idle("boot") \/ Idle("switch")
  /\ todo = <<>>
  /\ pc' = "poll"
  /\ UNCHANGED <<vars, dispatch, todo, goal, cur, cnt, rcnt, signo, pend>>

(* Shutdown: what is on is stopped, then what is not stopped is counted.    *)
TargetStop ==
  /\ Idle("halt")
  /\ todo # <<>>
  /\ LET s == Head(todo)
     IN  /\ \/ IsOn(s) /\ svc_stop(s)
            \/ ~IsOn(s) /\ UNCHANGED vars
         /\ cur' = s
  /\ todo' = Tail(todo)
  /\ UNCHANGED <<pc, dispatch, goal, cnt, rcnt, signo, pend>>

(* Counts the services that have a process to wait for.                     *)
TargetStopCount_child_slip ==
  /\ pc = "halt"
  /\ cur # NoSvc
  /\ calls = <<>>
  /\ cnt' = IF svc[cur].child = NoPid THEN cnt ELSE cnt + 1
  /\ cur' = NoSvc
  /\ UNCHANGED <<vars, pc, dispatch, todo, goal, rcnt, signo, pend>>

(* The state is read again once svc_stop() and its notifications are over.  *)
TargetStopCount ==
  /\ pc = "halt"
  /\ cur # NoSvc
  /\ calls = <<>>
  /\ cnt' = IF svc[cur].state = "STOPPED" THEN cnt ELSE cnt + 1
  /\ cur' = NoSvc
  /\ UNCHANGED <<vars, pc, dispatch, todo, goal, rcnt, signo, pend>>

(* tinit_sigchan_stop().                                                    *)
SigchanStop ==
  /\ Idle("halt")
  /\ todo = <<>>
  /\ dispatch' = "stopping"
  /\ pc' = "poll"
  /\ UNCHANGED <<vars, todo, goal, cur, cnt, rcnt, signo, pend>>

-----------------------------------------------------------------------------
(* Client requests (tinit_srv_process_request()).                           *)
RequestStart_slip(s) ==
  /\ Idle("poll")
  /\ "start" \in Requests
  /\ ~IsOn(s)
  /\ svc_start(s)
  /\ UNCHANGED <<loopvars, pend>>

RequestStart(s) ==
  /\ Serving
  /\ "start" \in Requests
  /\ ~IsOn(s)
  /\ svc_start(s)
  /\ UNCHANGED <<loopvars, pend>>

RequestStop_slip(s) ==
  /\ Serving
  /\ "stop" \in Requests
  /\ svc_stop(s)
  /\ UNCHANGED <<loopvars, pend>>

RequestStop(s) ==
  /\ Serving
  /\ "stop" \in Requests
  /\ IsOn(s)
  /\ svc_stop(s)
  /\ UNCHANGED <<loopvars, pend>>

(* A READY service gets its reload signal, which changes nothing here; what *)
(* is off is started.                                                       *)
RequestReload(s) ==
  /\ Serving
  /\ "reload" \in Requests
  /\ ~IsOn(s)
  /\ svc_start(s)
  /\ UNCHANGED <<loopvars, pend>>

RequestSwitch(target) ==
  /\ Serving
  /\ "switch" \in Requests
  /\ target # {}
  /\ pc' = "switch"
  /\ todo' = RepoList
  /\ goal' = target
  /\ UNCHANGED <<vars, dispatch, cur, cnt, rcnt, signo, pend>>

-----------------------------------------------------------------------------
(* Signals.                                                                 *)

ProcExit(p, status) ==
  /\ Exit(p, status)
  /\ pend' = pend \cup {"CHLD"}
  /\ UNCHANGED loopvars

Shutdown(sig) ==
  /\ pc # "down"
  /\ sig \notin pend
  /\ pend' = pend \cup {sig}
  /\ UNCHANGED <<vars, loopvars>>

(* The loop has been left on -ESHUTDOWN: the server is closed and           *)
(* tinit_target_stop() begins.                                              *)
Halting == pc' = "halt" /\ todo' = RepoList

(* usig_read_fd() has room for every signal of the channel.  SIGCHLD is     *)
(* handled in the waitid() loop; one shutdown signal is remembered.         *)
DispatchStarted ==
  /\ Idle("poll")
  /\ dispatch = "started"
  /\ pend # {}
  /\ pend' = {}
  /\ signo' \in IF pend \subseteq {"CHLD"} THEN {"none"} ELSE pend \ {"CHLD"}
  /\ \/ "CHLD" \in pend /\ pc' = "reap" /\ UNCHANGED todo
     \/ "CHLD" \notin pend /\ Halting
  /\ UNCHANGED <<vars, dispatch, goal, cur, cnt, rcnt>>

(* Further shutdown signals are ignored.                                    *)
DispatchStopping ==
  /\ Idle("poll")
  /\ dispatch = "stopping"
  /\ pend # {}
  /\ pend' = {}
  /\ pc' = IF "CHLD" \in pend THEN "reap" ELSE pc
  /\ UNCHANGED <<vars, dispatch, todo, goal, cur, cnt, rcnt, signo>>

(* One turn of the waitid() loop.                                           *)
HandleSigchld(p) ==
  /\ Idle("reap")
  /\ Reap(p)
  /\ cur' = IF \E s \in Services : svc[s].child = p
            THEN CHOOSE s \in Services : svc[s].child = p
            ELSE NoSvc
  /\ UNCHANGED <<pc, dispatch, todo, goal, cnt, rcnt, signo, pend>>

HandleSigchldCount ==
  /\ pc = "reap"
  /\ cur # NoSvc
  /\ calls = <<>>
  /\ rcnt' = IF svc[cur].state = "STOPPED" THEN rcnt + 1 ELSE rcnt
  /\ cur' = NoSvc
  /\ UNCHANGED <<vars, pc, dispatch, todo, goal, cnt, signo, pend>>

(* Does not loop on waitid().                                               *)
NoZombie_slip == TRUE

NoZombie == \A p \in Pids : proc[p].st \notin {"ok", "bad"}

(* Tests the count before the stopped services are taken off it.            *)
SigchldDone_slip ==
  /\ Idle("reap")
  /\ NoZombie
  /\ dispatch = "stopping"
  /\ cnt' = cnt - rcnt
  /\ pc' = IF cnt = 0 THEN "down" ELSE "poll"
  /\ rcnt' = 0
  /\ UNCHANGED <<vars, dispatch, todo, goal, cur, signo, pend>>

(* Does not start the next waitid() loop from zero.                         *)
SigchldDone_reset_slip ==
  /\ Idle("reap")
  /\ NoZombie
  /\ \/ /\ dispatch = "started"
        /\ IF signo = "none" THEN pc' = "poll" /\ UNCHANGED todo ELSE Halting
        /\ UNCHANGED cnt
     \/ /\ dispatch = "stopping"
        /\ cnt' = cnt - rcnt
        /\ pc' = IF cnt' = 0 THEN "down" ELSE "poll"
        /\ UNCHANGED todo
  /\ UNCHANGED <<vars, dispatch, goal, cur, rcnt, signo, pend>>

(* No waitable child is left: back in the dispatcher.                       *)
SigchldDone ==
  /\ Idle("reap")
  /\ NoZombie
  /\ rcnt' = 0
  /\ \/ /\ dispatch = "started"
        /\ signo = "none"
        /\ pc' = "poll"
        /\ UNCHANGED <<todo, cnt>>
     \/ /\ dispatch = "started"
        /\ signo # "none"
        /\ Halting
        /\ UNCHANGED cnt
     \/ /\ dispatch = "stopping"
        /\ cnt' = cnt - rcnt
        /\ pc' = IF cnt' = 0 THEN "down" ELSE "poll"
        /\ UNCHANGED todo
  /\ UNCHANGED <<vars, dispatch, goal, cur, signo, pend>>

TimerExpire(s) ==
  /\ Idle("poll")
  /\ Expire(s)
  /\ UNCHANGED <<loopvars, pend>>

HandleNotif ==
  /\ Notify
  /\ UNCHANGED <<loopvars, pend>>

-----------------------------------------------------------------------------
TinitInit ==
  /\ SvcInit
  /\ pc = "boot"
  /\ dispatch = "started"
  /\ todo = BootTable
  /\ goal = {}
  /\ cur = NoSvc
  /\ cnt = 0
  /\ rcnt = 0
  /\ pend = {}
  /\ signo = "none"

(* What the thread does by itself.                                          *)
Thread ==
  \/ HandleNotif
  \/ TargetStart
  \/ TargetSwitch
  \/ TargetDone
  \/ TargetStop
  \/ TargetStopCount
  \/ SigchanStop
  \/ HandleSigchldCount
  \/ SigchldDone

Dispatch == DispatchStarted \/ DispatchStopping

TinitNext ==
  \/ Thread
  \/ Dispatch
  \/ \E p \in Pids : HandleSigchld(p)
  \/ \E s \in Services : TimerExpire(s)
  \/ \E p \in Pids, status \in {"ok", "bad"} : ProcExit(p, status)
  \/ \E s \in Services : RequestStart(s)
  \/ \E s \in Services : RequestStop(s)
  \/ \E s \in Services : RequestReload(s)
  \/ \E target \in Targets : RequestSwitch(target)
  \/ \E sig \in ShutdownSigs : Shutdown(sig)

TinitSpec == TinitInit /\ [][TinitNext]_tvars

(* The thread never rests in the middle of something; the poller serves     *)
(* every ready descriptor and every expired timer between two waits; the    *)
(* kernel ends a process that was sent SIGKILL.  Clients, shutdown signals  *)
(* and other exits are nobody's duty.                                       *)
TinitFairness ==
  /\ WF_tvars(Thread)
  /\ SF_tvars(Dispatch)
  /\ \A p \in Pids : SF_tvars(HandleSigchld(p))
  /\ \A s \in Services : SF_tvars(TimerExpire(s))
  /\ \A p \in Pids : WF_tvars(proc[p].kill /\ ProcExit(p, "bad"))

TinitFairSpec == TinitSpec /\ TinitFairness

(* For the boot: a start command that is tried again and again succeeds.    *)
BootFairSpec ==
  /\ TinitFairSpec
  /\ \A p \in Pids : SF_tvars(proc[p].job = "start" /\ ProcExit(p, "ok"))

-----------------------------------------------------------------------------
(* Invariants.                                                              *)

(* The loop's variables have values of their types.                         *)
TinitTypeOK ==
  /\ TypeOK
  /\ pc \in {"boot", "poll", "reap", "switch", "halt", "down"}
  /\ dispatch \in {"started", "stopping"}
  /\ todo \in Seq(Services)
  /\ goal \subseteq Services
  /\ cur \in Services \cup {NoSvc}
  /\ cnt \in Nat
  /\ rcnt \in Nat
  /\ pend \subseteq ShutdownSigs \cup {"CHLD"}
  /\ signo \in ShutdownSigs \cup {"none"}

NotStopped == {s \in Services : svc[s].state # "STOPPED"}

(* A service that has just become STOPPED and is to be counted.             *)
Uncounted ==
  {s \in {cur} \cap Services : pc = "reap" /\ svc[s].state = "STOPPED"}

(* chan->cnt, the number of STOPPED services tinit_poll() still waits for,  *)
(* never falls short of the services that are not stopped: it is unsigned,  *)
(* and neither wraps (assert(cnt <= chan->cnt), sigchan.c:317) nor reaches  *)
(* 0 while a service is still being stopped.                                *)
CntCoversStopping ==
  (dispatch = "stopping" /\ pc # "down") =>
    cnt >= rcnt + Cardinality(NotStopped) + Cardinality(Uncounted)

(* A target switch leaves exactly the target's services on.                 *)
SwitchReachesGoal ==
  (Idle("switch") /\ todo = <<>>) => \A s \in Services : IsOn(s) <=> s \in goal

(* During the shutdown nothing is started any more: no late request, timer, *)
(* exit or notification turns a service on.                                 *)
ShutdownIsFinal ==
  dispatch = "stopping" => \A s \in Services : ~IsOn(s)

(* No exit goes unnoticed: a zombie is waited for in the current waitid()   *)
(* loop, or a SIGCHLD is pending.                                           *)
ZombieSignalled ==
  ((\E p \in Pids : proc[p].st \in {"ok", "bad"}) 
   /\ pc \notin {"reap", "down"}) => "CHLD" \in pend

(* target.c:407: the services svc_stop() has marked as stopped are not      *)
(* counted; tinit_poll() waits for the others.                              *)
CntIsExact ==
  (Idle("poll") /\ dispatch = "stopping") => cnt = Cardinality(NotStopped)

-----------------------------------------------------------------------------
(* Liveness.                                                                *)

(* Every service of the boot target becomes ready.                          *)
BootCompletes ==
  \A s \in ElementsOf(BootTable) : <>(svc[s].state = "READY")

(* Once a shutdown has begun, every service gets stopped, in the order of   *)
(* the stopon settings, whatever its processes do about signals.            *)
ShutdownStopsAll == (pc = "halt") ~> (NotStopped = {})

(* A shutdown that has something to wait for ends, if its count stays that  *)
(* of the services it waits for.                                            *)
ShutdownEnds ==
  (dispatch = "stopping" /\ cnt > 0 /\ []CntIsExact) ~> (pc = "down")
=============================================================================
