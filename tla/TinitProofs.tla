---------------------------- MODULE TinitProofs ----------------------------
(***************************************************************************)
(* Proofs about Tinit, for any services, dependency graphs, boot table,    *)
(* targets, requests, signals and process slots.                           *)
(*                                                                         *)
(* The invariant of SvcProofs holds of the services whatever the loops of  *)
(* target.c and sigchan.c do with them.  To it are added what a loop over  *)
(* services has achieved for those it has visited, and what the counters   *)
(* are worth.  Of a handler only this is used: it changes one service, it  *)
(* never turns a service on or off nor takes it out of STOPPED (only       *)
(* svc_start() and svc_stop() do), and it makes no zombie.                 *)
(*                                                                         *)
(* At the end: what SvcProcessProofs proves of services that are started   *)
(* once holds of the whole program, from the boot to the end of the        *)
(* shutdown, as long as clients only stop services.                        *)
(***************************************************************************)
EXTENDS Tinit, SvcProcessProofs

Once(seq) == \A i, j \in DOMAIN seq : seq[i] = seq[j] => i = j

(* The boot target has no two links to the same service.                    *)
BootsOnce == Once(BootTable)

On == {"STARTING", "READY"}

(* What every handler does to a service.                                    *)
Kept(t) ==
  /\ svc'[t].state \in On <=> svc[t].state \in On
  /\ svc[t].state = "STOPPED" => svc'[t].state = "STOPPED"

Kin == \A t \in Services : Kept(t)

(* No process ends up a zombie that was not one in q.                       *)
NoNewZombie(q) ==
  \A p \in Pids : proc'[p].st \in {"ok", "bad"} => q[p].st \in {"ok", "bad"}

-----------------------------------------------------------------------------
(* Sequences of services.                                                   *)

LEMMA HeadLeaves ==
  ASSUME NEW seq \in Seq(Services), seq # <<>>
  PROVE  /\ Head(seq) \in Services
         /\ Head(seq) \in ElementsOf(seq)
         /\ Tail(seq) \in Seq(Services)
         /\ ElementsOf(seq) = {Head(seq)} \cup ElementsOf(Tail(seq))
         /\ Once(seq) => Once(Tail(seq)) /\ Head(seq) \notin ElementsOf(Tail(seq))
<1>1. /\ Head(seq) \in Services /\ Tail(seq) \in Seq(Services)
      /\ 1 \in DOMAIN seq /\ Head(seq) = seq[1]
  OBVIOUS
<1>2. ASSUME NEW i \in DOMAIN Tail(seq)
      PROVE  i + 1 \in DOMAIN seq /\ Tail(seq)[i] = seq[i + 1] /\ i \in Nat \ {0}
  OBVIOUS
<1>3. ASSUME NEW i \in DOMAIN seq, i # 1
      PROVE  i - 1 \in DOMAIN Tail(seq) /\ Tail(seq)[i - 1] = seq[i]
  BY <1>3
<1>4. ElementsOf(seq) \subseteq {Head(seq)} \cup ElementsOf(Tail(seq))
  BY <1>1, <1>3 DEF ElementsOf
<1>5. {Head(seq)} \cup ElementsOf(Tail(seq)) \subseteq ElementsOf(seq)
  BY <1>1, <1>2 DEF ElementsOf
<1>6. ASSUME Once(seq)
      PROVE  Once(Tail(seq)) /\ Head(seq) \notin ElementsOf(Tail(seq))
  <2>1. ASSUME NEW i \in DOMAIN Tail(seq), NEW j \in DOMAIN Tail(seq),
               Tail(seq)[i] = Tail(seq)[j]
        PROVE  i = j
    <3>1. i + 1 = j + 1
      BY <2>1, <1>2, <1>6 DEF Once
    <3> QED
      BY <3>1, <1>2
  <2>2. ASSUME NEW i \in DOMAIN Tail(seq)
        PROVE  Tail(seq)[i] # Head(seq)
    <3>1. i + 1 # 1
      BY <1>2
    <3> QED
      BY <3>1, <1>1, <1>2, <1>6 DEF Once
  <2> QED
    BY <2>1, <2>2 DEF Once, ElementsOf
<1> QED
  BY <1>1, <1>4, <1>5, <1>6 DEF ElementsOf

LEMMA NothingLeft == ElementsOf(<<>>) = {}
BY DEF ElementsOf

(* The repository is finite.                                                *)
LEMMA FiniteServices ==
  ASSUME NEW S \in SUBSET Services
  PROVE  IsFiniteSet(S) /\ Cardinality(S) \in Nat
<1>1. /\ RepoList \in Seq(Services) /\ Services = {RepoList[i] : i \in DOMAIN RepoList}
  BY RepoAssumption DEF ElementsOf
<1>2. Len(RepoList) \in Nat /\ DOMAIN RepoList = 1 .. Len(RepoList)
  BY <1>1
<1>3. IsFiniteSet(1 .. Len(RepoList))
  BY <1>2, FS_Interval
<1>4. RepoList \in Surjection(1 .. Len(RepoList), Services)
  BY <1>1, <1>2 DEF Surjection
<1>5. IsFiniteSet(Services)
  BY <1>3, <1>4, FS_Surjection
<1> QED
  BY <1>5, FS_Subset, FS_CardinalityType

(* Taking one element off, or none.                                         *)
LEMMA SubsetCount ==
  ASSUME NEW S \in SUBSET Services, NEW T \in SUBSET S
  PROVE  /\ Cardinality(S) \in Nat /\ Cardinality(T) \in Nat
         /\ Cardinality(T) <= Cardinality(S)
BY FiniteServices, FS_Subset

LEMMA LessOneCount ==
  ASSUME NEW S \in SUBSET Services, NEW x \in S, NEW T \in SUBSET (S \ {x})
  PROVE  /\ Cardinality(S) \in Nat /\ Cardinality(T) \in Nat
         /\ Cardinality(T) + 1 <= Cardinality(S)
<1>1. IsFiniteSet(S) /\ Cardinality(S) \in Nat /\ Cardinality(S \ {x}) \in Nat /\ Cardinality(T) \in Nat
  BY FiniteServices
<1>2. Cardinality(S \ {x}) = Cardinality(S) - 1
  BY <1>1, FS_RemoveElement
<1>3. Cardinality(T) <= Cardinality(S \ {x})
  BY SubsetCount
<1> QED
  BY <1>1, <1>2, <1>3

-----------------------------------------------------------------------------
(* What the functions of svc.c leave alone.                                 *)

LEMMA SpawnNoZombie ==
  ASSUME NEW s, NEW job, NEW q \in [Pids -> ProcRecord], NEW o \in svc_spawn(s, job, q),
         proc' = o.proc
  PROVE  NoNewZombie(q)
<1>1. \/ proc' = q
      \/ \E p \in Pids : proc' = [q EXCEPT ![p] = Fork(s, job)]
  BY DEF svc_spawn, FreeSlots
<1>2. \A r \in Pids : proc'[r] = q[r] \/ proc'[r] = Fork(s, job)
  BY <1>1
<1>3. Fork(s, job).st = "run"
  BY DEF Fork
<1> QED
  BY <1>2, <1>3 DEF NoNewZombie

LEMMA StartCmdNoZombie ==
  ASSUME NEW s, NEW v, NEW q \in [Pids -> ProcRecord], NEW c,
         svc_spawn_start_cmd(s, v, q, c)
  PROVE  NoNewZombie(q)
<1>1. \/ \E o \in svc_spawn(s, "start", q) : proc' = o.proc
      \/ \E o \in svc_spawn(s, "daemon", q) : proc' = o.proc
      \/ proc' = q
  BY DEF svc_spawn_start_cmd, Return, svc_mark_ready
<1> QED
  BY <1>1, SpawnNoZombie DEF NoNewZombie

LEMMA StopCmdNoZombie ==
  ASSUME NEW s, NEW v, NEW q \in [Pids -> ProcRecord], NEW c,
         svc_spawn_stop_cmd(s, v, q, c)
  PROVE  NoNewZombie(q)
<1>1. \/ \E o \in svc_spawn(s, "stop", q) : proc' = o.proc
      \/ proc' = q
  BY DEF svc_spawn_stop_cmd, Return, svc_mark_stopped
<1> QED
  BY <1>1, SpawnNoZombie DEF NoNewZombie

(* A sequence that goes on does not change the administrative state.        *)
LEMMA StartCmdKeeps ==
  ASSUME NEW s \in Services, NEW v \in [Services -> SvcRecord], NEW q, NEW c,
         svc \in [Services -> SvcRecord],
         OnlyAt(s, svc, v), v[s].state = "STARTING", svc[s].state \in On,
         svc_spawn_start_cmd(s, v, q, c)
  PROVE  Kin
<1>1. OnlyAt(s, v, svc') /\ IsUp(svc'[s])
  BY StartCmdUp
<1>2. \A t \in Services \ {s} : svc'[t] = svc[t]
  BY <1>1 DEF OnlyAt
<1> QED
  BY <1>1, <1>2 DEF Kin, Kept, On, IsUp

LEMMA StopCmdKeeps ==
  ASSUME NEW s \in Services, NEW v \in [Services -> SvcRecord], NEW q, NEW c,
         svc \in [Services -> SvcRecord],
         OnlyAt(s, svc, v), v[s].state = "STOPPING", svc[s].state = "STOPPING",
         svc_spawn_stop_cmd(s, v, q, c)
  PROVE  Kin
<1>1. OnlyAt(s, v, svc') /\ IsDown(svc'[s])
  BY StopCmdDown
<1>2. \A t \in Services \ {s} : svc'[t] = svc[t]
  BY <1>1 DEF OnlyAt
<1> QED
  BY <1>1, <1>2 DEF Kin, Kept, On, IsDown

(* Nor does a change of s that leaves its state.                            *)
LEMMA SameStateKeeps ==
  ASSUME NEW s \in Services, NEW r, svc \in [Services -> SvcRecord],
         svc' = [svc EXCEPT ![s] = r], r.state = svc[s].state
  PROVE  Kin
BY DEF Kin, Kept, On

LEMMA NotifyKeeps ==
  ASSUME IInv, Notify
  PROVE  Kin /\ NoNewZombie(proc)
<1> DEFINE s == Head(calls).sink
           src == Head(calls).src
           rest == Tail(calls)
<1>1. /\ svc \in [Services -> SvcRecord] /\ proc \in [Pids -> ProcRecord]
      /\ calls \in Seq(Call) /\ calls # <<>>
  BY DEF IInv, Good, Types, Notify
<1>2. s \in Services /\ OnlyAt(s, svc, svc)
  <2>1. Head(calls) \in Call
    BY <1>1, TailElements
  <2> QED
    BY <2>1, <1>1 DEF Call, OnlyAt
<1>3. CASE svc' = svc /\ proc' = proc
  BY <1>3 DEF Kin, Kept, NoNewZombie
<1>4. CASE svc[s].state = "STARTING" /\ svc_spawn_start_cmd(s, svc, proc, rest)
  BY <1>1, <1>2, <1>4, StartCmdKeeps, StartCmdNoZombie DEF On
<1>5. CASE svc[s].state = "STOPPING" /\ svc_spawn_stop_cmd(s, svc, proc, rest)
  BY <1>1, <1>2, <1>5, StopCmdKeeps, StopCmdNoZombie
<1> QED
  BY <1>3, <1>4, <1>5 DEF Notify, svc_handle_on_notif, svc_handle_off_notif, Return

(* The service whose process is waited for is not stopped.                  *)
LEMMA ReapKeeps ==
  ASSUME NEW p \in Pids, IInv, Reap(p)
  PROVE  /\ Kin
         /\ \A s \in Services : svc[s].child = p => svc[s].state # "STOPPED"
<1> DEFINE q == [proc EXCEPT ![p] = FreeSlot]
<1>1. svc \in [Services -> SvcRecord] /\ p # NoPid
  BY KernelAssumption DEF IInv, Good, Types
<1>2. \A s \in Services : svc[s].child = p => svc[s].state # "STOPPED"
  BY <1>1 DEF IInv, Good, ServiceOK, HandlerOK
<1>3. CASE svc' = svc
  BY <1>2, <1>3 DEF Kin, Kept
<1>4. ASSUME NEW s \in Services, svc_handle_on_evts(s, proc[p].st, q)
      PROVE  Kin
  <2> DEFINE r1 == [svc[s] EXCEPT !.start_cmd = @ + 1]
             r2 == [svc[s] EXCEPT !.state = "STARTING"]
             r3 == [svc[s] EXCEPT !.child = NoPid]
  <2>1. svc[s] \in SvcRecord
    BY <1>1
  <2>2. /\ r1 \in SvcRecord /\ r1.state = svc[s].state
        /\ r2 \in SvcRecord /\ r2.state = "STARTING"
        /\ r3.state = svc[s].state
    <3>1. svc[s].start_cmd + 1 \in Nat
      BY <2>1 DEF SvcRecord
    <3> QED
      BY <2>1, <3>1 DEF SvcRecord, States
  <2>3. ASSUME NEW r \in SvcRecord
        PROVE  /\ [svc EXCEPT ![s] = r] \in [Services -> SvcRecord]
               /\ OnlyAt(s, svc, [svc EXCEPT ![s] = r])
               /\ [svc EXCEPT ![s] = r][s] = r
    BY <1>1 DEF OnlyAt
  <2> HIDE DEF r1, r2, r3
  <2>4. CASE svc[s].state = "STARTING" /\ svc_spawn_start_cmd(s, [svc EXCEPT ![s] = r1], q, <<>>)
    BY <1>1, <2>2, <2>3, <2>4, StartCmdKeeps DEF On
  <2>5. CASE svc[s].state = "STARTING" /\ svc_spawn_start_cmd(s, svc, q, <<>>)
    BY <1>1, <2>5, StartCmdKeeps DEF On, OnlyAt
  <2>6. CASE svc[s].state = "READY" /\ svc_spawn_start_cmd(s, [svc EXCEPT ![s] = r2], q, <<>>)
    BY <1>1, <2>2, <2>3, <2>6, StartCmdKeeps DEF On
  <2>7. CASE svc' = [svc EXCEPT ![s] = r3]
    BY <1>1, <2>2, <2>7, SameStateKeeps
  <2> QED
    BY <1>4, <2>4, <2>5, <2>6, <2>7 DEF svc_handle_on_evts, svc_respawn, Return, r1, r2, r3
<1>5. ASSUME NEW s \in Services, svc_handle_off_evts(s, q)
      PROVE  Kin
  BY <1>1, <1>5, StopCmdKeeps DEF svc_handle_off_evts, OnlyAt
<1> QED
  BY <1>2, <1>3, <1>4, <1>5 DEF Reap, Return

LEMMA ExpireKeeps ==
  ASSUME NEW s \in Services, IInv, Expire(s)
  PROVE  Kin /\ NoNewZombie(proc)
<1> DEFINE r == [svc[s] EXCEPT !.armed = FALSE]
           v == [svc EXCEPT ![s].armed = FALSE]
<1>1. /\ svc \in [Services -> SvcRecord] /\ svc[s] \in SvcRecord
      /\ proc \in [Pids -> ProcRecord]
  BY DEF IInv, Good, Types
<1>2. r \in SvcRecord /\ r.state = svc[s].state /\ v = [svc EXCEPT ![s] = r]
  BY <1>1 DEF SvcRecord
<1>3. v \in [Services -> SvcRecord] /\ OnlyAt(s, svc, v) /\ v[s] = r
  BY <1>1, <1>2 DEF OnlyAt
<1>4. ASSUME svc' = v PROVE Kin
  BY <1>1, <1>2, <1>4, SameStateKeeps
<1>5. ASSUME proc' = proc PROVE NoNewZombie(proc)
  BY <1>5 DEF NoNewZombie
<1> HIDE DEF v, r
<1>6. ASSUME NEW p \in Pids, proc' = [proc EXCEPT ![p].kill = TRUE]
      PROVE  NoNewZombie(proc)
  <2>1. [proc[p] EXCEPT !.kill = TRUE].st = proc[p].st
    BY <1>1 DEF ProcRecord
  <2>2. \A x \in Pids : proc'[x].st = proc[x].st
    BY <1>1, <1>6, <2>1
  <2> QED
    BY <2>2 DEF NoNewZombie
<1>7. CASE svc[s].state = "STARTING" /\ svc_spawn_start_cmd(s, v, proc, <<>>)
  BY <1>1, <1>2, <1>3, <1>7, StartCmdKeeps, StartCmdNoZombie DEF On
<1>8. CASE svc[s].state = "STOPPING" /\ svc_spawn_stop_cmd(s, v, proc, <<>>)
  BY <1>1, <1>2, <1>3, <1>8, StopCmdKeeps, StopCmdNoZombie
<1>9. CASE svc_expire_on(s, v)
  BY <1>2, <1>3, <1>4, <1>5, <1>7, <1>9 DEF svc_expire_on, svc_respawn, Return
<1>10. CASE svc_expire_off(s, v)
  <2>1. v[s].child # NoPid => v[s].child \in Pids
    BY <1>3 DEF SvcRecord
  <2> QED
    BY <2>1, <1>2, <1>3, <1>4, <1>5, <1>6, <1>8, <1>10
    DEF svc_expire_off, svc_kill_works, Return
<1> QED
  BY <1>9, <1>10 DEF Expire, v

(* svc_start() and svc_stop() turn their service on and off, and touch no   *)
(* other.                                                                   *)
LEMMA StartTurnsOn ==
  ASSUME NEW s \in Services, IInv, svc_start(s)
  PROVE  /\ svc'[s].state \in On
         /\ \A t \in Services \ {s} : svc'[t] = svc[t]
         /\ NoNewZombie(proc)
<1> DEFINE r == [svc[s] EXCEPT !.on = TRUE, !.state = "STARTING", !.expire = "on",
                               !.start_cmd = 0, !.begun = FALSE]
           v == [svc EXCEPT ![s].on = TRUE, ![s].state = "STARTING",
                            ![s].expire = "on", ![s].start_cmd = 0,
                            ![s].begun = FALSE]
<1>1. /\ svc \in [Services -> SvcRecord] /\ svc[s] \in SvcRecord
      /\ proc \in [Pids -> ProcRecord]
  BY DEF IInv, Good, Types
<1>2. r \in SvcRecord /\ r.state = "STARTING"
  BY <1>1 DEF SvcRecord, States
<1>3. v = [svc EXCEPT ![s] = r]
  OBVIOUS
<1>4. v \in [Services -> SvcRecord] /\ v[s].state = "STARTING" /\ OnlyAt(s, svc, v)
  BY <1>1, <1>2, <1>3 DEF OnlyAt
<1>5. svc_spawn_start_cmd(s, v, proc, <<>>) \/ (svc' = v /\ proc' = proc)
  BY DEF svc_start, Return
<1> HIDE DEF v, r
<1>6. CASE svc_spawn_start_cmd(s, v, proc, <<>>)
  <2>1. OnlyAt(s, v, svc') /\ IsUp(svc'[s])
    BY <1>4, <1>6, StartCmdUp
  <2> QED
    BY <2>1, <1>1, <1>4, <1>6, StartCmdNoZombie DEF OnlyAt, IsUp, On
<1>7. CASE svc' = v /\ proc' = proc
  BY <1>4, <1>7 DEF OnlyAt, NoNewZombie, On
<1> QED
  BY <1>5, <1>6, <1>7

LEMMA StopTurnsOff ==
  ASSUME NEW s \in Services, IInv, svc_stop(s)
  PROVE  /\ svc'[s].state \notin On
         /\ \A t \in Services \ {s} : svc'[t] = svc[t]
         /\ NoNewZombie(proc)
<1> DEFINE r == [svc[s] EXCEPT !.on = FALSE, !.state = "STOPPING", !.expire = "off",
                               !.stop_cmd = -1, !.begun = FALSE]
           z == [r EXCEPT !.armed = TRUE, !.begun = TRUE]
           v == [svc EXCEPT ![s].on = FALSE, ![s].state = "STOPPING",
                            ![s].expire = "off", ![s].stop_cmd = -1,
                            ![s].begun = FALSE]
           w == [v EXCEPT ![s].armed = TRUE, ![s].begun = TRUE]
<1>1. /\ svc \in [Services -> SvcRecord] /\ svc[s] \in SvcRecord
      /\ proc \in [Pids -> ProcRecord]
  BY DEF IInv, Good, Types
<1>2. r \in SvcRecord /\ r.state = "STOPPING" /\ z.state = "STOPPING"
  BY <1>1 DEF SvcRecord, States
<1>3. v = [svc EXCEPT ![s] = r] /\ w = [svc EXCEPT ![s] = z]
  OBVIOUS
<1>4. v \in [Services -> SvcRecord] /\ v[s].state = "STOPPING" /\ OnlyAt(s, svc, v)
  BY <1>1, <1>2, <1>3 DEF OnlyAt
<1>5. \/ svc_spawn_stop_cmd(s, v, proc, <<>>)
      \/ svc' \in {v, w} /\ proc' = proc
  BY DEF svc_stop, Return
<1> HIDE DEF v, r, w, z
<1>6. CASE svc_spawn_stop_cmd(s, v, proc, <<>>)
  <2>1. OnlyAt(s, v, svc') /\ IsDown(svc'[s])
    BY <1>4, <1>6, StopCmdDown
  <2> QED
    BY <2>1, <1>1, <1>4, <1>6, StopCmdNoZombie DEF OnlyAt, IsDown, On
<1>7. CASE svc' \in {v, w} /\ proc' = proc
  BY <1>1, <1>2, <1>3, <1>7 DEF NoNewZombie, On
<1> QED
  BY <1>5, <1>6, <1>7

-----------------------------------------------------------------------------
(* The inductive invariant of the loop: IInv of the services, and these.    *)

LoopTypes ==
  /\ pc \in {"boot", "poll", "reap", "switch", "halt", "down"}
  /\ dispatch \in {"started", "stopping"}
  /\ todo \in Seq(Services)
  /\ goal \subseteq Services
  /\ cur \in Services \cup {NoSvc}
  /\ cnt \in Nat
  /\ rcnt \in Nat
  /\ pend \subseteq ShutdownSigs \cup {"CHLD"}
  /\ signo \in ShutdownSigs \cup {"none"}

(* Where the thread can be, and where its locals are in use.                *)
Where ==
  /\ dispatch = "stopping" => pc \in {"poll", "reap", "down"}
  /\ pc \notin {"halt", "reap"} => cur = NoSvc
  /\ pc # "reap" => rcnt = 0

(* What the loops of target.c have achieved so far.                         *)
Visited == Services \ ElementsOf(todo)

BootLoop ==
  (BootsOnce /\ pc = "boot") =>
    Once(todo) /\ \A s \in ElementsOf(todo) : svc[s].state = "STOPPED"

SwitchLoop == pc = "switch" => \A s \in Visited : IsOn(s) <=> s \in goal

HaltLoop == pc = "halt" => \A s \in Visited : ~IsOn(s)

(* What cnt has to cover: the services tinit_target_stop() has counted, or  *)
(* should have, and later those a SIGCHLD is still to take off.             *)
Met == {s \in Visited \ {cur} : svc[s].state # "STOPPED"}

Owed == {s \in Services : svc[s].state # "STOPPED" \/ (pc = "reap" /\ s = cur)}

CountLoop == pc = "halt" => cnt >= Cardinality(Met)

CountOwed ==
  (dispatch = "stopping" /\ pc # "down") => cnt >= rcnt + Cardinality(Owed)

LoopOK ==
  /\ LoopTypes /\ Where
  /\ BootLoop /\ SwitchLoop /\ HaltLoop
  /\ ShutdownIsFinal /\ ZombieSignalled
  /\ CountLoop /\ CountOwed

TInv == IInv /\ LoopOK

-----------------------------------------------------------------------------
(* The services keep the invariant of SvcProofs, whoever asks for what.     *)
LEMMA TinitNextGood ==
  ASSUME IInv, LoopTypes, [TinitNext]_tvars
  PROVE  IInv'
<1>1. ASSUME UNCHANGED vars PROVE IInv'
  BY <1>1 DEF vars, IInv
<1>2. ASSUME NEW s \in Services, calls = <<>>, svc_start(s) \/ svc_stop(s)
      PROVE  IInv'
  BY <1>2, StartGood, StopGood
<1>3. ASSUME todo # <<>> PROVE Head(todo) \in Services
  BY <1>3, HeadLeaves DEF LoopTypes
<1>4. CASE HandleNotif
  BY <1>4, NotifyGood DEF HandleNotif
<1>5. CASE TargetStart
  BY <1>2, <1>3, <1>5 DEF TargetStart, Idle
<1>6. CASE TargetSwitch
  BY <1>1, <1>2, <1>3, <1>6 DEF TargetSwitch, Idle
<1>7. CASE TargetStop
  BY <1>1, <1>2, <1>3, <1>7 DEF TargetStop, Idle
<1>8. CASE \/ TargetDone \/ TargetStopCount \/ SigchanStop
           \/ HandleSigchldCount \/ SigchldDone \/ Dispatch
           \/ (\E target \in Targets : RequestSwitch(target))
           \/ (\E sig \in ShutdownSigs : Shutdown(sig))
           \/ UNCHANGED tvars
  <2>1. UNCHANGED vars
    BY <1>8 DEF TargetDone, TargetStopCount, SigchanStop, HandleSigchldCount, SigchldDone,
       Dispatch, DispatchStarted, DispatchStopping, RequestSwitch, Shutdown, tvars
  <2> QED
    BY <2>1, <1>1
<1>9. ASSUME NEW p \in Pids, HandleSigchld(p) PROVE IInv'
  BY <1>9, ReapGood DEF HandleSigchld
<1>10. ASSUME NEW s \in Services, TimerExpire(s) PROVE IInv'
  BY <1>10, ExpireGood DEF TimerExpire
<1>11. ASSUME NEW p \in Pids, NEW status \in {"ok", "bad"}, ProcExit(p, status) PROVE IInv'
  BY <1>11, ExitGood DEF ProcExit
<1>12. ASSUME NEW s \in Services, RequestStart(s) \/ RequestStop(s) \/ RequestReload(s)
       PROVE  IInv'
  BY <1>2, <1>12 DEF RequestStart, RequestStop, RequestReload, Serving, Idle
<1> QED
  BY <1>4, <1>5, <1>6, <1>7, <1>8, <1>9, <1>10, <1>11, <1>12 DEF TinitNext, Thread

-----------------------------------------------------------------------------
(* The steps of the services outside the loops over them: nothing is turned *)
(* on or off, and nothing that is stopped comes back.                       *)
LEMMA KinLoop ==
  ASSUME IInv, LoopOK, Kin, UNCHANGED loopvars
  PROVE  /\ Where' /\ BootLoop' /\ SwitchLoop' /\ HaltLoop'
         /\ ShutdownIsFinal' /\ CountLoop' /\ CountOwed'
<1>0. UNCHANGED <<pc, dispatch, todo, goal, cur, cnt, rcnt, signo>>
  BY DEF loopvars
<1>1. Where'
  BY <1>0 DEF LoopOK, Where
<1>2. \A s \in Services : /\ IsOn(s)' <=> IsOn(s)
                          /\ svc'[s].state # "STOPPED" => svc[s].state # "STOPPED"
  BY DEF Kin, Kept, On, IsOn
<1>3. Visited' = Visited
  BY <1>0 DEF Visited
<1>4. todo \in Seq(Services) /\ cnt \in Nat /\ rcnt \in Nat
  BY DEF LoopOK, LoopTypes
<1>5. BootLoop'
  <2>1. ElementsOf(todo) \subseteq Services
    BY <1>4 DEF ElementsOf
  <2>2. \A s \in Services : svc[s].state = "STOPPED" => svc'[s].state = "STOPPED"
    BY DEF Kin, Kept
  <2> QED
    BY <2>1, <2>2, <1>0 DEF LoopOK, BootLoop, BootsOnce
<1>6. SwitchLoop' /\ HaltLoop'
  <2>1. Visited \subseteq Services
    BY DEF Visited
  <2> QED
    BY <2>1, <1>0, <1>2, <1>3 DEF LoopOK, SwitchLoop, HaltLoop
<1>7. ShutdownIsFinal'
  BY <1>0, <1>2 DEF LoopOK, ShutdownIsFinal
<1>8. CountLoop'
  <2>1. Met \in SUBSET Services /\ Met' \in SUBSET Met
    BY <1>0, <1>2, <1>3 DEF Met, Visited
  <2>2. Cardinality(Met) \in Nat /\ Cardinality(Met') \in Nat /\ Cardinality(Met') <= Cardinality(Met)
    BY <2>1, SubsetCount
  <2> QED
    BY <2>2, <1>0, <1>4 DEF LoopOK, CountLoop
<1>9. CountOwed'
  <2>1. Owed \in SUBSET Services /\ Owed' \in SUBSET Owed
    BY <1>0, <1>2 DEF Owed
  <2>2. Cardinality(Owed) \in Nat /\ Cardinality(Owed') \in Nat /\ Cardinality(Owed') <= Cardinality(Owed)
    BY <2>1, SubsetCount
  <2> QED
    BY <2>2, <1>0, <1>4 DEF LoopOK, CountOwed
<1> QED
  BY <1>1, <1>5, <1>6, <1>7, <1>8, <1>9

LEMMA LoopTypesKept ==
  ASSUME LoopTypes, UNCHANGED loopvars, pend' \subseteq ShutdownSigs \cup {"CHLD"}
  PROVE  LoopTypes'
BY DEF LoopTypes, loopvars

LEMMA ZombieKept ==
  ASSUME ZombieSignalled, NoNewZombie(proc), pend' = pend,
         pc' \notin {"reap", "down"} => pc \notin {"reap", "down"}
  PROVE  ZombieSignalled'
BY DEF ZombieSignalled, NoNewZombie

LEMMA HandleNotifLoop ==
  ASSUME IInv, LoopOK, HandleNotif
  PROVE  LoopOK'
<1>1. Kin /\ NoNewZombie(proc)
  BY NotifyKeeps DEF HandleNotif
<1>2. UNCHANGED loopvars /\ pend' = pend
  BY DEF HandleNotif
<1>3. LoopTypes' /\ ZombieSignalled'
  BY <1>1, <1>2, LoopTypesKept, ZombieKept DEF LoopOK, LoopTypes, loopvars
<1> QED
  BY <1>1, <1>2, <1>3, KinLoop DEF LoopOK

LEMMA TimerExpireLoop ==
  ASSUME NEW s \in Services, IInv, LoopOK, TimerExpire(s)
  PROVE  LoopOK'
<1>1. Kin /\ NoNewZombie(proc)
  BY ExpireKeeps DEF TimerExpire
<1>2. UNCHANGED loopvars /\ pend' = pend
  BY DEF TimerExpire
<1>3. LoopTypes' /\ ZombieSignalled'
  BY <1>1, <1>2, LoopTypesKept, ZombieKept DEF LoopOK, LoopTypes, loopvars
<1> QED
  BY <1>1, <1>2, <1>3, KinLoop DEF LoopOK

(* An exit makes a zombie, and a SIGCHLD pending.                           *)
LEMMA ProcExitLoop ==
  ASSUME NEW p \in Pids, NEW status, IInv, LoopOK, ProcExit(p, status)
  PROVE  LoopOK'
<1>1. svc' = svc /\ UNCHANGED loopvars /\ pend' = pend \cup {"CHLD"}
  BY DEF ProcExit, Exit
<1>2. Kin
  BY <1>1 DEF Kin, Kept
<1>3. LoopTypes' /\ ZombieSignalled'
  BY <1>1, LoopTypesKept DEF LoopOK, LoopTypes, ZombieSignalled
<1> QED
  BY <1>1, <1>2, <1>3, KinLoop DEF LoopOK

LEMMA ShutdownLoop ==
  ASSUME NEW sig \in ShutdownSigs, IInv, LoopOK, Shutdown(sig)
  PROVE  LoopOK'
<1>1. svc' = svc /\ proc' = proc /\ UNCHANGED loopvars /\ pend' = pend \cup {sig}
  BY DEF Shutdown, vars
<1>2. Kin
  BY <1>1 DEF Kin, Kept
<1>3. LoopTypes' /\ ZombieSignalled'
  BY <1>1, LoopTypesKept DEF LoopOK, LoopTypes, ZombieSignalled, loopvars
<1> QED
  BY <1>1, <1>2, <1>3, KinLoop DEF LoopOK

(* A client changes one service, while clients are served.                  *)
LEMMA RequestLoop ==
  ASSUME NEW s \in Services, IInv, LoopOK,
         RequestStart(s) \/ RequestStop(s) \/ RequestReload(s)
  PROVE  LoopOK'
<1>1. /\ pc = "poll" /\ dispatch = "started"
      /\ UNCHANGED loopvars /\ pend' = pend
      /\ svc_start(s) \/ svc_stop(s)
  BY DEF RequestStart, RequestStop, RequestReload, Serving, Idle
<1>2. NoNewZombie(proc)
  BY <1>1, StartTurnsOn, StopTurnsOff
<1>3. LoopTypes' /\ ZombieSignalled'
  BY <1>1, <1>2, LoopTypesKept, ZombieKept DEF LoopOK, LoopTypes, loopvars
<1>4. Where'
  BY <1>1 DEF LoopOK, Where, loopvars
<1> QED
  BY <1>1, <1>3, <1>4
  DEF LoopOK, BootLoop, SwitchLoop, HaltLoop, ShutdownIsFinal, CountLoop, CountOwed, loopvars

-----------------------------------------------------------------------------
(* The loops of target.c: what is visited is as it should be, and stays so  *)
(* because the other visits touch other services.                           *)
LEMMA TargetStartLoop ==
  ASSUME IInv, LoopOK, TargetStart
  PROVE  LoopOK'
<1> DEFINE s == Head(todo)
<1>1. /\ pc = "boot" /\ todo # <<>> /\ svc_start(s) /\ todo' = Tail(todo)
      /\ UNCHANGED <<pc, dispatch, goal, cur, cnt, rcnt, signo, pend>>
  BY DEF TargetStart, Idle
<1>2. /\ s \in Services /\ Tail(todo) \in Seq(Services)
      /\ ElementsOf(todo) = {s} \cup ElementsOf(Tail(todo))
      /\ Once(todo) => Once(Tail(todo)) /\ s \notin ElementsOf(Tail(todo))
  BY <1>1, HeadLeaves DEF LoopOK, LoopTypes
<1>3. /\ \A t \in Services \ {s} : svc'[t] = svc[t]
      /\ NoNewZombie(proc)
  BY <1>1, <1>2, StartTurnsOn
<1>4. LoopTypes' /\ Where'
  BY <1>1, <1>2 DEF LoopOK, LoopTypes, Where
<1>5. BootLoop'
  <2>1. ASSUME BootsOnce
        PROVE  /\ Once(Tail(todo))
               /\ \A t \in ElementsOf(Tail(todo)) : svc'[t].state = "STOPPED"
    <3>1. Once(todo) /\ \A t \in ElementsOf(todo) : svc[t].state = "STOPPED"
      BY <1>1, <2>1 DEF LoopOK, BootLoop
    <3>2. ElementsOf(Tail(todo)) \subseteq Services
      BY <1>2 DEF ElementsOf
    <3> QED
      BY <3>1, <3>2, <1>2, <1>3
  <2> QED
    BY <2>1, <1>1 DEF BootLoop, BootsOnce
<1>6. dispatch # "stopping"
  BY <1>1 DEF LoopOK, Where
<1>7. ZombieSignalled'
  BY <1>1, <1>3, ZombieKept DEF LoopOK
<1> QED
  BY <1>1, <1>4, <1>5, <1>6, <1>7
  DEF LoopOK, SwitchLoop, HaltLoop, ShutdownIsFinal, CountLoop, CountOwed

LEMMA TargetSwitchLoop ==
  ASSUME IInv, LoopOK, TargetSwitch
  PROVE  LoopOK'
<1> DEFINE s == Head(todo)
<1>1. /\ pc = "switch" /\ todo # <<>> /\ todo' = Tail(todo)
      /\ UNCHANGED <<pc, dispatch, goal, cur, cnt, rcnt, signo, pend>>
      /\ \/ s \notin goal /\ IsOn(s) /\ svc_stop(s)
         \/ s \in goal /\ ~IsOn(s) /\ svc_start(s)
         \/ (s \in goal <=> IsOn(s)) /\ svc' = svc /\ proc' = proc
  BY DEF TargetSwitch, Idle, vars
<1>2. /\ s \in Services /\ Tail(todo) \in Seq(Services)
      /\ ElementsOf(todo) = {s} \cup ElementsOf(Tail(todo))
  BY <1>1, HeadLeaves DEF LoopOK, LoopTypes
<1>3. /\ \A t \in Services \ {s} : svc'[t] = svc[t]
      /\ NoNewZombie(proc)
      /\ svc'[s].state \in On <=> s \in goal
  <2>1. CASE s \notin goal /\ svc_stop(s)
    BY <2>1, <1>2, StopTurnsOff
  <2>2. CASE s \in goal /\ svc_start(s)
    BY <2>2, <1>2, StartTurnsOn
  <2>3. CASE (s \in goal <=> IsOn(s)) /\ svc' = svc /\ proc' = proc
    BY <2>3, <1>2 DEF IsOn, On, NoNewZombie
  <2> QED
    BY <1>1, <2>1, <2>2, <2>3
<1>4. LoopTypes' /\ Where'
  BY <1>1, <1>2 DEF LoopOK, LoopTypes, Where
<1>5. SwitchLoop'
  <2>1. ASSUME NEW t \in Visited'
        PROVE  IsOn(t)' <=> t \in goal
    <3>1. t \in Services /\ (t = s \/ t \in Visited)
      BY <1>1, <1>2, <2>1 DEF Visited
    <3>2. CASE t = s
      BY <3>2, <1>3 DEF IsOn, On
    <3>3. CASE t # s /\ t \in Visited
      BY <3>1, <3>3, <1>1, <1>3 DEF LoopOK, SwitchLoop, IsOn
    <3> QED
      BY <3>1, <3>2, <3>3
  <2> QED
    BY <2>1, <1>1 DEF SwitchLoop
<1>6. dispatch # "stopping"
  BY <1>1 DEF LoopOK, Where
<1>7. ZombieSignalled'
  BY <1>1, <1>3, ZombieKept DEF LoopOK
<1> QED
  BY <1>1, <1>4, <1>5, <1>6, <1>7
  DEF LoopOK, BootLoop, HaltLoop, ShutdownIsFinal, CountLoop, CountOwed

LEMMA TargetStopLoop ==
  ASSUME IInv, LoopOK, TargetStop
  PROVE  LoopOK'
<1> DEFINE s == Head(todo)
<1>1. /\ pc = "halt" /\ cur = NoSvc /\ todo # <<>> /\ todo' = Tail(todo) /\ cur' = s
      /\ UNCHANGED <<pc, dispatch, goal, cnt, rcnt, signo, pend>>
      /\ \/ IsOn(s) /\ svc_stop(s)
         \/ ~IsOn(s) /\ svc' = svc /\ proc' = proc
  BY DEF TargetStop, Idle, vars
<1>2. /\ s \in Services /\ Tail(todo) \in Seq(Services)
      /\ ElementsOf(todo) = {s} \cup ElementsOf(Tail(todo))
  BY <1>1, HeadLeaves DEF LoopOK, LoopTypes
<1>3. /\ \A t \in Services \ {s} : svc'[t] = svc[t]
      /\ NoNewZombie(proc)
      /\ svc'[s].state \notin On
  <2>1. CASE svc_stop(s)
    BY <2>1, <1>2, StopTurnsOff
  <2>2. CASE ~IsOn(s) /\ svc' = svc /\ proc' = proc
    BY <2>2, <1>2 DEF IsOn, On, NoNewZombie
  <2> QED
    BY <1>1, <2>1, <2>2
<1>4. LoopTypes' /\ Where'
  BY <1>1, <1>2 DEF LoopOK, LoopTypes, Where
<1>5. \A t \in Visited' : t \in Services /\ (t = s \/ (t # s /\ t \in Visited))
  BY <1>1, <1>2 DEF Visited
<1>6. HaltLoop'
  <2>1. ASSUME NEW t \in Visited'
        PROVE  ~IsOn(t)'
    BY <1>1, <1>3, <1>5, <2>1 DEF LoopOK, HaltLoop, IsOn, On
  <2> QED
    BY <2>1 DEF HaltLoop
<1>7. CountLoop'
  <2>1. Met \in SUBSET Services
    BY DEF Met, Visited
  <2>2. cur \notin Services
    BY <1>1, KernelAssumption
  <2>3. Met' \in SUBSET Met
    BY <1>1, <1>3, <1>5, <2>2 DEF Met
  <2>4. Cardinality(Met) \in Nat /\ Cardinality(Met') \in Nat /\ Cardinality(Met') <= Cardinality(Met)
    BY <2>1, <2>3, SubsetCount
  <2>5. cnt' = cnt /\ cnt \in Nat /\ cnt >= Cardinality(Met)
    BY <1>1 DEF LoopOK, LoopTypes, CountLoop
  <2> QED
    BY <2>4, <2>5 DEF CountLoop
<1>8. dispatch # "stopping"
  BY <1>1 DEF LoopOK, Where
<1>9. ZombieSignalled'
  BY <1>1, <1>3, ZombieKept DEF LoopOK
<1> QED
  BY <1>1, <1>4, <1>6, <1>7, <1>8, <1>9
  DEF LoopOK, BootLoop, SwitchLoop, ShutdownIsFinal, CountOwed

(* The service just visited joins those that are met, and is counted unless *)
(* it is stopped already.                                                   *)
LEMMA TargetStopCountLoop ==
  ASSUME IInv, LoopOK, TargetStopCount
  PROVE  LoopOK'
<1>1. /\ pc = "halt" /\ cur # NoSvc /\ cur' = NoSvc /\ svc' = svc /\ proc' = proc
      /\ cnt' = IF svc[cur].state = "STOPPED" THEN cnt ELSE cnt + 1
      /\ UNCHANGED <<pc, dispatch, todo, goal, rcnt, signo, pend>>
  BY DEF TargetStopCount, vars
<1>2. cur \in Services /\ cnt \in Nat /\ cnt' \in Nat /\ todo \in Seq(Services)
  BY <1>1 DEF LoopOK, LoopTypes
<1>3. LoopTypes' /\ Where'
  BY <1>1, <1>2 DEF LoopOK, LoopTypes, Where
<1>4. HaltLoop' /\ ZombieSignalled'
  BY <1>1 DEF LoopOK, HaltLoop, Visited, IsOn, ZombieSignalled
<1>5. CountLoop'
  <2>1. Met \in SUBSET Services /\ Met' \in SUBSET Services
    BY DEF Met, Visited
  <2>2. Met' \in SUBSET (Met \cup {cur})
    BY <1>1 DEF Met, Visited
  <2>3. cnt >= Cardinality(Met)
    BY <1>1 DEF LoopOK, CountLoop
  <2>4. CASE cur \in Met'
    <3>1. Met' \ {cur} \in SUBSET Met
      BY <2>2
    <3>2. cnt' = cnt + 1
      BY <1>1, <2>4 DEF Met
    <3>3. /\ Cardinality(Met') \in Nat /\ Cardinality(Met' \ {cur}) \in Nat
          /\ Cardinality(Met' \ {cur}) = Cardinality(Met') - 1
      BY <2>1, <2>4, FiniteServices, FS_RemoveElement
    <3>4. Cardinality(Met) \in Nat /\ Cardinality(Met' \ {cur}) <= Cardinality(Met)
      BY <2>1, <3>1, SubsetCount
    <3> QED
      BY <1>2, <2>3, <3>2, <3>3, <3>4 DEF CountLoop
  <2>5. CASE cur \notin Met'
    <3>1. Met' \in SUBSET Met
      BY <2>2, <2>5
    <3>2. Cardinality(Met) \in Nat /\ Cardinality(Met') \in Nat /\ Cardinality(Met') <= Cardinality(Met)
      BY <2>1, <3>1, SubsetCount
    <3>3. cnt' >= cnt
      BY <1>1, <1>2
    <3> QED
      BY <1>2, <2>3, <3>2, <3>3 DEF CountLoop
  <2> QED
    BY <2>4, <2>5
<1>6. dispatch # "stopping"
  BY <1>1 DEF LoopOK, Where
<1> QED
  BY <1>1, <1>3, <1>4, <1>5, <1>6
  DEF LoopOK, BootLoop, SwitchLoop, ShutdownIsFinal, CountOwed

(* All the services have been met: what is left is what is owed.            *)
LEMMA SigchanStopLoop ==
  ASSUME IInv, LoopOK, SigchanStop
  PROVE  LoopOK'
<1>1. /\ pc = "halt" /\ cur = NoSvc /\ todo = <<>> /\ dispatch' = "stopping" /\ pc' = "poll"
      /\ svc' = svc /\ proc' = proc
      /\ UNCHANGED <<todo, goal, cur, cnt, rcnt, signo, pend>>
  BY DEF SigchanStop, Idle, vars
<1>2. LoopTypes' /\ Where'
  BY <1>1 DEF LoopOK, LoopTypes, Where
<1>3. Visited = Services
  BY <1>1, NothingLeft DEF Visited
<1>4. ShutdownIsFinal' /\ ZombieSignalled'
  BY <1>1, <1>3 DEF LoopOK, HaltLoop, ShutdownIsFinal, IsOn, ZombieSignalled
<1>5. CountOwed'
  <2>1. Owed' = Met
    BY <1>1, <1>3, KernelAssumption DEF Owed, Met
  <2>2. Cardinality(Met) \in Nat
    BY FiniteServices DEF Met, Visited
  <2>3. cnt \in Nat /\ cnt >= Cardinality(Met) /\ rcnt = 0
    BY <1>1 DEF LoopOK, LoopTypes, CountLoop, Where
  <2> QED
    BY <2>1, <2>2, <2>3, <1>1 DEF CountOwed
<1> QED
  BY <1>1, <1>2, <1>4, <1>5 DEF LoopOK, BootLoop, SwitchLoop, HaltLoop, CountLoop

LEMMA TargetDoneLoop ==
  ASSUME IInv, LoopOK, TargetDone
  PROVE  LoopOK'
<1>1. /\ pc \in {"boot", "switch"} /\ pc' = "poll" /\ cur = NoSvc
      /\ svc' = svc /\ proc' = proc
      /\ UNCHANGED <<dispatch, todo, goal, cur, cnt, rcnt, signo, pend>>
  BY DEF TargetDone, Idle, vars
<1>2. LoopTypes' /\ Where'
  BY <1>1 DEF LoopOK, LoopTypes, Where
<1>3. ZombieSignalled' /\ dispatch # "stopping"
  BY <1>1 DEF LoopOK, ZombieSignalled, Where
<1> QED
  BY <1>1, <1>2, <1>3
  DEF LoopOK, BootLoop, SwitchLoop, HaltLoop, ShutdownIsFinal, CountLoop, CountOwed

-----------------------------------------------------------------------------
(* A loop over the repository begins with nothing visited.                  *)
LEMMA NothingVisited ==
  ASSUME todo' = RepoList
  PROVE  /\ Visited' = {} /\ Met' = {}
         /\ RepoList \in Seq(Services)
         /\ Cardinality({}) = 0
BY RepoAssumption, FS_EmptySet DEF Visited, Met

LEMMA RequestSwitchLoop ==
  ASSUME NEW target \in Targets, IInv, LoopOK, RequestSwitch(target)
  PROVE  LoopOK'
<1>1. /\ pc = "poll" /\ dispatch = "started" /\ pc' = "switch"
      /\ todo' = RepoList /\ goal' = target /\ svc' = svc /\ proc' = proc
      /\ UNCHANGED <<dispatch, cur, cnt, rcnt, signo, pend>>
  BY DEF RequestSwitch, Serving, Idle, vars
<1>2. target \subseteq Services
  BY RepoAssumption
<1>3. LoopTypes' /\ Where' /\ ZombieSignalled'
  BY <1>1, <1>2, NothingVisited DEF LoopOK, LoopTypes, Where, ZombieSignalled
<1>4. SwitchLoop'
  BY <1>1, NothingVisited DEF SwitchLoop
<1> QED
  BY <1>1, <1>3, <1>4
  DEF LoopOK, BootLoop, HaltLoop, ShutdownIsFinal, CountLoop, CountOwed

(* Where a dispatch or the end of the waitid() loop begins a shutdown.      *)
LEMMA HaltingLoop ==
  ASSUME LoopOK, Halting, dispatch = "started", dispatch' = "started",
         LoopTypes', Where', ZombieSignalled'
  PROVE  LoopOK'
<1>1. pc' = "halt" /\ todo' = RepoList
  BY DEF Halting
<1>2. HaltLoop' /\ CountLoop'
  <2>1. cnt' \in Nat
    BY DEF LoopTypes
  <2>2. Visited' = {} /\ Cardinality(Met') = 0
    BY <1>1, NothingVisited
  <2>3. cnt' >= 0
    BY <2>1
  <2> QED
    BY <2>2, <2>3 DEF HaltLoop, CountLoop
<1> QED
  BY <1>1, <1>2 DEF LoopOK, BootLoop, SwitchLoop, ShutdownIsFinal, CountOwed

LEMMA DispatchStartedLoop ==
  ASSUME IInv, LoopOK, DispatchStarted
  PROVE  LoopOK'
<1>1. /\ pc = "poll" /\ dispatch = "started" /\ pend' = {}
      /\ cur = NoSvc /\ svc' = svc /\ proc' = proc
      /\ UNCHANGED <<dispatch, goal, cur, cnt, rcnt>>
      /\ \/ "CHLD" \in pend /\ pc' = "reap" /\ todo' = todo
         \/ "CHLD" \notin pend /\ Halting
  BY DEF DispatchStarted, Idle, vars
<1>2. signo' \in ShutdownSigs \cup {"none"}
  BY DEF DispatchStarted, LoopOK, LoopTypes
<1>3. LoopTypes'
  BY <1>1, <1>2, NothingVisited DEF LoopOK, LoopTypes, Halting
<1>4. Where'
  BY <1>1 DEF LoopOK, Where, Halting
<1>5. ZombieSignalled'
  BY <1>1 DEF LoopOK, ZombieSignalled, Halting
<1>6. CASE Halting
  BY <1>1, <1>3, <1>4, <1>5, <1>6, HaltingLoop
<1>7. CASE pc' = "reap"
  BY <1>1, <1>3, <1>4, <1>5, <1>7
  DEF LoopOK, BootLoop, SwitchLoop, HaltLoop, ShutdownIsFinal, CountLoop, CountOwed
<1> QED
  BY <1>1, <1>6, <1>7

LEMMA DispatchStoppingLoop ==
  ASSUME IInv, LoopOK, DispatchStopping
  PROVE  LoopOK'
<1>1. /\ pc = "poll" /\ dispatch = "stopping" /\ pend' = {}
      /\ cur = NoSvc /\ svc' = svc /\ proc' = proc
      /\ pc' = IF "CHLD" \in pend THEN "reap" ELSE pc
      /\ UNCHANGED <<dispatch, todo, goal, cur, cnt, rcnt, signo>>
  BY DEF DispatchStopping, Idle, vars
<1>2. LoopTypes' /\ Where' /\ ZombieSignalled'
  BY <1>1 DEF LoopOK, LoopTypes, Where, ZombieSignalled
<1>3. ShutdownIsFinal'
  BY <1>1 DEF LoopOK, ShutdownIsFinal, IsOn
<1>4. CountOwed'
  <2>1. Owed' = Owed
    BY <1>1, KernelAssumption DEF Owed
  <2> QED
    BY <2>1, <1>1 DEF LoopOK, CountOwed
<1> QED
  BY <1>1, <1>2, <1>3, <1>4 DEF LoopOK, BootLoop, SwitchLoop, HaltLoop, CountLoop

(* The service that gets the exit was owed: it still is until it is looked  *)
(* at, stopped or not.                                                      *)
LEMMA HandleSigchldLoop ==
  ASSUME NEW p \in Pids, IInv, LoopOK, HandleSigchld(p)
  PROVE  LoopOK'
<1>1. /\ pc = "reap" /\ cur = NoSvc /\ Reap(p)
      /\ cur' = (IF \E s \in Services : svc[s].child = p
                 THEN CHOOSE s \in Services : svc[s].child = p
                 ELSE NoSvc)
      /\ UNCHANGED <<pc, dispatch, todo, goal, cnt, rcnt, signo, pend>>
  BY DEF HandleSigchld, Idle
<1>2. Kin /\ \A s \in Services : svc[s].child = p => svc[s].state # "STOPPED"
  BY <1>1, ReapKeeps
<1>3. cur' = NoSvc \/ (cur' \in Services /\ svc[cur'].state # "STOPPED")
  BY <1>1, <1>2
<1>4. LoopTypes' /\ Where' /\ ZombieSignalled'
  BY <1>1, <1>3 DEF LoopOK, LoopTypes, Where, ZombieSignalled
<1>5. ShutdownIsFinal'
  BY <1>1, <1>2 DEF LoopOK, ShutdownIsFinal, IsOn, Kin, Kept, On
<1>6. CountOwed'
  <2>1. Owed \in SUBSET Services /\ Owed' \in SUBSET Owed
    BY <1>1, <1>2, <1>3, KernelAssumption DEF Owed, Kin, Kept
  <2>2. Cardinality(Owed) \in Nat /\ Cardinality(Owed') \in Nat /\ Cardinality(Owed') <= Cardinality(Owed)
    BY <2>1, SubsetCount
  <2>3. cnt \in Nat /\ rcnt \in Nat
    BY DEF LoopOK, LoopTypes
  <2> QED
    BY <2>2, <2>3, <1>1 DEF LoopOK, CountOwed
<1> QED
  BY <1>1, <1>4, <1>5, <1>6 DEF LoopOK, BootLoop, SwitchLoop, HaltLoop, CountLoop

(* What is stopped by now is taken off both sides.                          *)
LEMMA HandleSigchldCountLoop ==
  ASSUME IInv, LoopOK, HandleSigchldCount
  PROVE  LoopOK'
<1>1. /\ pc = "reap" /\ cur # NoSvc /\ cur' = NoSvc /\ svc' = svc /\ proc' = proc
      /\ rcnt' = IF svc[cur].state = "STOPPED" THEN rcnt + 1 ELSE rcnt
      /\ UNCHANGED <<pc, dispatch, todo, goal, cnt, signo, pend>>
  BY DEF HandleSigchldCount, vars
<1>2. cur \in Services /\ cnt \in Nat /\ rcnt \in Nat /\ rcnt' \in Nat
  BY <1>1 DEF LoopOK, LoopTypes
<1>3. LoopTypes' /\ Where' /\ ZombieSignalled'
  BY <1>1, <1>2 DEF LoopOK, LoopTypes, Where, ZombieSignalled
<1>4. ShutdownIsFinal'
  BY <1>1 DEF LoopOK, ShutdownIsFinal, IsOn
<1>5. CountOwed'
  <2>1. /\ Owed \in SUBSET Services /\ Owed' \in SUBSET Owed /\ cur \in Owed
        /\ svc[cur].state = "STOPPED" => Owed' \in SUBSET (Owed \ {cur})
    BY <1>1, <1>2, KernelAssumption DEF Owed
  <2>2. CASE svc[cur].state = "STOPPED"
    <3>1. /\ Cardinality(Owed) \in Nat /\ Cardinality(Owed') \in Nat
          /\ Cardinality(Owed') + 1 <= Cardinality(Owed)
      BY <2>1, <2>2, LessOneCount
    <3> QED
      BY <3>1, <2>2, <1>1, <1>2 DEF LoopOK, CountOwed
  <2>3. CASE svc[cur].state # "STOPPED"
    <3>1. /\ Cardinality(Owed) \in Nat /\ Cardinality(Owed') \in Nat
          /\ Cardinality(Owed') <= Cardinality(Owed)
      BY <2>1, SubsetCount
    <3> QED
      BY <3>1, <2>3, <1>1, <1>2 DEF LoopOK, CountOwed
  <2> QED
    BY <2>2, <2>3
<1> QED
  BY <1>1, <1>3, <1>4, <1>5 DEF LoopOK, BootLoop, SwitchLoop, HaltLoop, CountLoop

(* chan->cnt is unsigned: what is taken off it is covered.                  *)
LEMMA SigchldDoneLoop ==
  ASSUME IInv, LoopOK, SigchldDone
  PROVE  LoopOK'
<1>1. /\ pc = "reap" /\ cur = NoSvc /\ NoZombie /\ rcnt' = 0
      /\ svc' = svc /\ proc' = proc
      /\ UNCHANGED <<dispatch, goal, cur, signo, pend>>
      /\ \/ dispatch = "started" /\ pc' = "poll" /\ UNCHANGED <<todo, cnt>>
         \/ dispatch = "started" /\ Halting /\ cnt' = cnt
         \/ /\ dispatch = "stopping" /\ todo' = todo /\ cnt' = cnt - rcnt
            /\ pc' = IF cnt' = 0 THEN "down" ELSE "poll"
  BY DEF SigchldDone, Idle, vars
<1>2. cnt \in Nat /\ rcnt \in Nat /\ Cardinality(Owed) \in Nat
  BY FiniteServices DEF LoopOK, LoopTypes, Owed
<1>3. ASSUME dispatch = "stopping"
      PROVE  cnt >= rcnt + Cardinality(Owed) /\ cnt - rcnt \in Nat
  <2>1. cnt >= rcnt + Cardinality(Owed)
    BY <1>1, <1>3 DEF LoopOK, CountOwed
  <2> QED
    BY <2>1, <1>2
<1>4. LoopTypes'
  BY <1>1, <1>3, NothingVisited DEF LoopOK, LoopTypes, Halting
<1>5. Where'
  BY <1>1 DEF LoopOK, Where, Halting
<1>6. ZombieSignalled'
  BY <1>1 DEF ZombieSignalled, NoZombie
<1>7. CASE dispatch = "started" /\ Halting
  BY <1>1, <1>4, <1>5, <1>6, <1>7, HaltingLoop
<1>8. CASE dispatch = "started" /\ pc' = "poll"
  BY <1>1, <1>4, <1>5, <1>6, <1>8
  DEF LoopOK, BootLoop, SwitchLoop, HaltLoop, ShutdownIsFinal, CountLoop, CountOwed
<1>9. CASE /\ dispatch = "stopping" /\ cnt' = cnt - rcnt
           /\ pc' \in {"down", "poll"}
  <2>1. ShutdownIsFinal'
    BY <1>1, <1>9 DEF LoopOK, ShutdownIsFinal, IsOn
  <2>2. Owed' = Owed
    BY <1>1, <1>9, KernelAssumption DEF Owed
  <2>3. CountOwed'
    BY <2>2, <1>1, <1>2, <1>3, <1>9 DEF CountOwed
  <2> QED
    BY <2>1, <2>3, <1>4, <1>5, <1>6, <1>9 DEF LoopOK, BootLoop, SwitchLoop, HaltLoop, CountLoop
<1> QED
  BY <1>1, <1>7, <1>8, <1>9

-----------------------------------------------------------------------------
(* The induction.                                                           *)

LEMMA TinitInitLoop ==
  ASSUME TinitInit
  PROVE  TInv
<1>1. IInv
  BY InitGood DEF TinitInit
<1>2. /\ pc = "boot" /\ dispatch = "started" /\ todo = BootTable /\ goal = {}
      /\ cur = NoSvc /\ cnt = 0 /\ rcnt = 0 /\ pend = {} /\ signo = "none"
      /\ svc = [s \in Services |-> svc_init] /\ proc = [p \in Pids |-> FreeSlot]
  BY DEF TinitInit, SvcInit
<1>3. BootTable \in Seq(Services)
  BY RepoAssumption
<1>4. LoopTypes /\ Where
  BY <1>2, <1>3 DEF LoopTypes, Where
<1>5. BootLoop
  <2>1. ElementsOf(BootTable) \subseteq Services
    BY <1>3 DEF ElementsOf
  <2> QED
    BY <2>1, <1>2 DEF BootLoop, BootsOnce, svc_init
<1>6. ZombieSignalled
  BY <1>2 DEF ZombieSignalled, FreeSlot
<1> QED
  BY <1>1, <1>2, <1>4, <1>5, <1>6
  DEF TInv, LoopOK, SwitchLoop, HaltLoop, ShutdownIsFinal, CountLoop, CountOwed

LEMMA TinitNextLoop ==
  ASSUME TInv, [TinitNext]_tvars
  PROVE  TInv'
<1>1. IInv /\ LoopOK /\ LoopTypes
  BY DEF TInv, LoopOK
<1>2. IInv'
  BY <1>1, TinitNextGood
<1>3. CASE Thread
  BY <1>1, <1>3, HandleNotifLoop, TargetStartLoop, TargetSwitchLoop, TargetDoneLoop,
     TargetStopLoop, TargetStopCountLoop, SigchanStopLoop, HandleSigchldCountLoop,
     SigchldDoneLoop, <1>2 DEF Thread, TInv
<1>4. CASE Dispatch
  BY <1>1, <1>2, <1>4, DispatchStartedLoop, DispatchStoppingLoop DEF Dispatch, TInv
<1>5. ASSUME NEW p \in Pids, HandleSigchld(p) PROVE TInv'
  BY <1>1, <1>2, <1>5, HandleSigchldLoop DEF TInv
<1>6. ASSUME NEW s \in Services, TimerExpire(s) PROVE TInv'
  BY <1>1, <1>2, <1>6, TimerExpireLoop DEF TInv
<1>7. ASSUME NEW p \in Pids, NEW status \in {"ok", "bad"}, ProcExit(p, status) PROVE TInv'
  BY <1>1, <1>2, <1>7, ProcExitLoop DEF TInv
<1>8. ASSUME NEW s \in Services, RequestStart(s) \/ RequestStop(s) \/ RequestReload(s)
      PROVE  TInv'
  BY <1>1, <1>2, <1>8, RequestLoop DEF TInv
<1>9. ASSUME NEW target \in Targets, RequestSwitch(target) PROVE TInv'
  BY <1>1, <1>2, <1>9, RequestSwitchLoop DEF TInv
<1>10. ASSUME NEW sig \in ShutdownSigs, Shutdown(sig) PROVE TInv'
  BY <1>1, <1>2, <1>10, ShutdownLoop DEF TInv
<1>11. CASE UNCHANGED tvars
  <2>1. /\ UNCHANGED <<svc, proc, pc, dispatch, todo, goal, cur, cnt, rcnt, signo, pend>>
    BY <1>11 DEF tvars, vars, loopvars
  <2>2. LoopTypes' /\ Where' /\ BootLoop' /\ SwitchLoop' /\ HaltLoop'
    BY <1>1, <2>1 DEF LoopOK, LoopTypes, Where, BootLoop, BootsOnce, SwitchLoop, HaltLoop,
       Visited, IsOn
  <2>3. ShutdownIsFinal' /\ ZombieSignalled' /\ CountLoop' /\ CountOwed'
    BY <1>1, <2>1 DEF LoopOK, ShutdownIsFinal, ZombieSignalled, CountLoop, CountOwed,
       Visited, Met, Owed, IsOn
  <2> QED
    BY <1>2, <2>2, <2>3 DEF TInv, LoopOK
<1> QED
  BY <1>3, <1>4, <1>5, <1>6, <1>7, <1>8, <1>9, <1>10, <1>11 DEF TinitNext

LEMMA TinitInvariant == TinitSpec => []TInv
BY TinitInitLoop, TinitNextLoop, PTL DEF TinitSpec

(* Type correctness of the loop; in particular chan->cnt, an unsigned int,  *)
(* never goes below zero.                                                   *)
THEOREM TinitTypeCorrect == TinitSpec => []TinitTypeOK
<1>1. TInv => TinitTypeOK
  BY DEF TInv, IInv, Good, Types, TypeOK, LoopOK, LoopTypes, TinitTypeOK
<1> QED
  BY <1>1, TinitInvariant, PTL

(* No shutdown is cut short: while it waits, chan->cnt covers the services  *)
(* that are not stopped and those about to be taken off it, for whatever    *)
(* the notifications of one exit stop.                                      *)
THEOREM CntCovers == TinitSpec => []CntCoversStopping
<1>1. TInv => CntCoversStopping
  <2> SUFFICES ASSUME TInv, dispatch = "stopping", pc # "down"
               PROVE  cnt >= rcnt + Cardinality(NotStopped) + Cardinality(Uncounted)
    BY DEF CntCoversStopping
  <2>1. cnt \in Nat /\ rcnt \in Nat /\ cnt >= rcnt + Cardinality(Owed)
    BY DEF TInv, LoopOK, LoopTypes, CountOwed
  <2>2. /\ NotStopped \in SUBSET Services /\ Owed \in SUBSET Services
        /\ NotStopped \in SUBSET Owed
    BY DEF NotStopped, Owed
  <2>3. /\ Cardinality(NotStopped) \in Nat /\ Cardinality(Owed) \in Nat
        /\ Cardinality(NotStopped) <= Cardinality(Owed)
    BY <2>2, SubsetCount
  <2>4. CASE Uncounted = {}
    <3>1. Cardinality(Uncounted) = 0
      BY <2>4, FS_EmptySet
    <3> QED
      BY <2>1, <2>3, <3>1
  <2>5. CASE Uncounted # {}
    <3>1. /\ cur \in Owed /\ Uncounted = {cur}
          /\ NotStopped \in SUBSET (Owed \ {cur})
      BY <2>5 DEF Uncounted, NotStopped, Owed
    <3>2. Cardinality(NotStopped) + 1 <= Cardinality(Owed)
      BY <2>2, <3>1, LessOneCount
    <3>3. Cardinality(Uncounted) = 1
      BY <3>1, FS_Singleton
    <3> QED
      BY <2>1, <2>3, <3>2, <3>3
  <2> QED
    BY <2>4, <2>5
<1> QED
  BY <1>1, TinitInvariant, PTL

(* Nothing is turned on any more once tinit waits for the services to stop. *)
THEOREM NothingStartsInShutdown == TinitSpec => []ShutdownIsFinal
<1>1. TInv => ShutdownIsFinal
  BY DEF TInv, LoopOK
<1> QED
  BY <1>1, TinitInvariant, PTL

(* A zombie never waits for a SIGCHLD that does not come.                   *)
THEOREM ZombiesSignalled == TinitSpec => []ZombieSignalled
<1>1. TInv => ZombieSignalled
  BY DEF TInv, LoopOK
<1> QED
  BY <1>1, TinitInvariant, PTL

(* Whatever the notifications between two visits do, a target switch ends   *)
(* with the services of the target on and all others off.                   *)
THEOREM SwitchReaches == TinitSpec => []SwitchReachesGoal
<1>1. TInv => SwitchReachesGoal
  BY NothingLeft DEF TInv, LoopOK, SwitchLoop, SwitchReachesGoal, Visited, Idle
<1> QED
  BY <1>1, TinitInvariant, PTL

-----------------------------------------------------------------------------
(* The loop asks of the services only what Svc provides for: svc_start() of *)
(* what is off, svc_stop() of what is on, and one handler at a time.        *)
LEMMA TinitNextIsSvc ==
  ASSUME BootsOnce, TInv, [TinitNext]_tvars
  PROVE  [SvcNext]_vars
<1>1. svc \in [Services -> SvcRecord] /\ LoopTypes
  BY DEF TInv, LoopOK, IInv, Good, Types
<1>2. ASSUME NEW s \in Services, calls = <<>>, svc[s].state \notin On, svc_start(s)
      PROVE  SvcNext
  <2>1. Phase(s) \in Phases
    BY <1>1, <1>2 DEF Phase, Phases, SvcRecord, States, On
  <2> QED
    BY <2>1, <1>2, RepoAssumption DEF Start, SvcNext, On
<1>3. ASSUME NEW s \in Services, calls = <<>>, svc[s].state \in On, svc_stop(s)
      PROVE  SvcNext
  BY <1>3 DEF Stop, SvcNext, On
<1>4. ASSUME todo # <<>> PROVE Head(todo) \in Services /\ Head(todo) \in ElementsOf(todo)
  BY <1>1, <1>4, HeadLeaves DEF LoopTypes
<1>5. CASE HandleNotif
  BY <1>5 DEF HandleNotif, SvcNext
<1>6. CASE TargetStart
  <2>1. svc[Head(todo)].state = "STOPPED"
    BY <1>4, <1>6 DEF TargetStart, Idle, TInv, LoopOK, BootLoop
  <2> QED
    BY <2>1, <1>2, <1>4, <1>6 DEF TargetStart, Idle, On
<1>7. CASE TargetSwitch
  BY <1>2, <1>3, <1>4, <1>7 DEF TargetSwitch, Idle, IsOn, On
<1>8. CASE TargetStop
  BY <1>3, <1>4, <1>8 DEF TargetStop, Idle, IsOn, On
<1>9. CASE \/ TargetDone \/ TargetStopCount \/ SigchanStop
           \/ HandleSigchldCount \/ SigchldDone \/ Dispatch
           \/ (\E target \in Targets : RequestSwitch(target))
           \/ (\E sig \in ShutdownSigs : Shutdown(sig))
           \/ UNCHANGED tvars
  BY <1>9 DEF TargetDone, TargetStopCount, SigchanStop, HandleSigchldCount, SigchldDone,
     Dispatch, DispatchStarted, DispatchStopping, RequestSwitch, Shutdown, tvars
<1>10. ASSUME NEW p \in Pids, HandleSigchld(p) PROVE SvcNext
  BY <1>10 DEF HandleSigchld, SvcNext
<1>11. ASSUME NEW s \in Services, TimerExpire(s) PROVE SvcNext
  BY <1>11 DEF TimerExpire, SvcNext
<1>12. ASSUME NEW p \in Pids, NEW status \in {"ok", "bad"}, ProcExit(p, status) PROVE SvcNext
  BY <1>12 DEF ProcExit, SvcNext
<1>13. ASSUME NEW s \in Services, RequestStart(s) \/ RequestStop(s) \/ RequestReload(s)
       PROVE  SvcNext
  BY <1>2, <1>3, <1>13 DEF RequestStart, RequestStop, RequestReload, Serving, Idle, IsOn, On
<1> QED
  BY <1>5, <1>6, <1>7, <1>8, <1>9, <1>10, <1>11, <1>12, <1>13 DEF TinitNext, Thread

(* Run by the loop, the services behave as Svc says: all that is proved of  *)
(* Svc holds of them.                                                       *)
THEOREM TinitImplementsSvc ==
  ASSUME BootsOnce
  PROVE  TinitSpec => SvcSpec
<1>1. TinitInit => SvcInit
  BY DEF TinitInit
<1>2. TInv /\ [TinitNext]_tvars => [SvcNext]_vars
  BY TinitNextIsSvc
<1> QED
  BY <1>1, <1>2, TinitInvariant, PTL DEF TinitSpec, SvcSpec

(* In particular, in the whole program too a service that waits goes on     *)
(* only once its sources are ready (stopped), or is loose.                  *)
THEOREM TinitImplementsLifecycle ==
  ASSUME BootsOnce
  PROVE  TinitSpec => ImplementsLifecycle
BY TinitImplementsSvc, SvcImplementsLifecycle, PTL

-----------------------------------------------------------------------------
(* The boot.  As long as clients ask for no start, every service is started *)
(* once, by the loop over the boot target.                                  *)
OnlyBootStarts == BootsOnce /\ Requests \cap {"start", "reload", "switch"} = {}

Untouched == pc = "boot" => \A s \in ElementsOf(todo) : svc[s].expire = "none"

BootInv == TInv /\ OInv /\ pc # "switch" /\ Untouched

LEMMA HeadStarts ==
  ASSUME BootInv, OnlyBootStarts, TargetStart
  PROVE  (\E s \in Services : InOrder(s)) /\ Untouched'
<1> DEFINE s == Head(todo)
<1>1. /\ todo \in Seq(Services) \ {<<>>} /\ pc = "boot" /\ Once(todo)
      /\ svc_start(s) /\ todo' = Tail(todo)
  BY DEF BootInv, TInv, LoopOK, LoopTypes, BootLoop, OnlyBootStarts, TargetStart, Idle
<1>2. /\ s \in Services /\ s \in ElementsOf(todo)
      /\ ElementsOf(todo) = {s} \cup ElementsOf(Tail(todo))
      /\ s \notin ElementsOf(Tail(todo))
  BY <1>1, HeadLeaves
<1>3. ElementsOf(todo) \subseteq Services
  BY <1>1 DEF ElementsOf
<1> HIDE DEF s
<1>4. svc[s].expire = "none"
  BY <1>1, <1>2 DEF BootInv, Untouched
<1>5. InOrder(s)
  BY <1>1, <1>2, <1>4, StartInOrder DEF BootInv
<1>6. \A t \in ElementsOf(todo') : svc'[t].expire = "none"
  BY <1>1, <1>2, <1>3, <1>5 DEF InOrder, BootInv, Untouched
<1> QED BY <1>2, <1>5, <1>6 DEF Untouched

LEMMA NotifInBoot ==
  ASSUME BootInv, HandleNotif
  PROVE  (svc' = svc \/ \E s \in Services : InOrder(s)) /\ Untouched'
<1>1. /\ pc' = pc /\ todo' = todo /\ OInv /\ Notify
      /\ todo \in Seq(Services)
  BY DEF HandleNotif, loopvars, BootInv, TInv, LoopOK, LoopTypes
<1>2. ElementsOf(todo) \subseteq Services
  BY <1>1 DEF ElementsOf
<1>3. \/ svc' = svc
      \/ \E s \in Services : InOrder(s) /\ svc[s].expire # "none"
  BY <1>1, NotifyInOrder
<1>4. Untouched'
  BY <1>1, <1>2, <1>3 DEF Untouched, BootInv, InOrder
<1> QED BY <1>3, <1>4

LEMMA BootNext ==
  ASSUME BootInv, OnlyBootStarts, [TinitNext]_tvars
  PROVE  /\ svc' = svc \/ \E s \in Services : InOrder(s)
         /\ pc' # "switch"
         /\ Untouched'
<1> USE DEF BootInv, Untouched
<1>1. LoopTypes /\ svc \in [Services -> SvcRecord] /\ pc # "switch"
  BY DEF TInv, LoopOK, IInv, Good, Types
<1>2. ASSUME NEW s \in Services, calls = <<>>, svc[s].state \in On, svc_stop(s)
      PROVE  InOrder(s)
  BY <1>2, StopInOrder DEF Stop, On
<1>3. CASE HandleNotif
  BY <1>1, <1>3, NotifInBoot DEF HandleNotif, loopvars
<1>4. CASE TargetStart
  BY <1>1, <1>4, HeadStarts DEF TargetStart, Idle
<1>5. CASE TargetStop
  <2>1. Head(todo) \in Services
    BY <1>1, <1>5, HeadLeaves DEF TargetStop, LoopTypes
  <2> QED BY <1>2, <1>5, <2>1 DEF TargetStop, Idle, IsOn, On, vars
<1>6. CASE \/ TargetSwitch \/ TargetDone \/ TargetStopCount \/ SigchanStop
           \/ HandleSigchldCount \/ SigchldDone \/ Dispatch
           \/ (\E sig \in ShutdownSigs : Shutdown(sig))
           \/ UNCHANGED tvars
  BY <1>1, <1>6 DEF TargetSwitch, TargetDone, TargetStopCount, SigchanStop, HandleSigchldCount,
     SigchldDone, Dispatch, DispatchStarted, DispatchStopping, Halting, Shutdown, Idle,
     tvars, vars, loopvars
<1>7. ASSUME NEW p \in Pids, HandleSigchld(p)
      PROVE  (svc' = svc \/ \E s \in Services : InOrder(s)) /\ pc' = "reap"
  BY <1>7, ReapInOrder DEF HandleSigchld, Idle
<1>8. ASSUME NEW s \in Services, TimerExpire(s)
      PROVE  InOrder(s) /\ pc' = "poll"
  BY <1>8, ExpireInOrder DEF TimerExpire, Idle, loopvars
<1>9. ASSUME NEW p \in Pids, NEW status \in {"ok", "bad"}, ProcExit(p, status)
      PROVE  svc' = svc /\ pc' = pc /\ todo' = todo
  BY <1>9 DEF ProcExit, Exit, loopvars
<1>10. ASSUME NEW s \in Services, RequestStart(s) \/ RequestStop(s) \/ RequestReload(s)
       PROVE  InOrder(s) /\ pc' = "poll"
  BY <1>2, <1>10 DEF OnlyBootStarts, RequestStart, RequestStop, RequestReload, Serving, Idle,
     IsOn, On, loopvars
<1>11. ASSUME NEW target \in Targets, RequestSwitch(target) PROVE FALSE
  BY <1>11 DEF RequestSwitch, OnlyBootStarts
<1> QED
  BY <1>3, <1>4, <1>5, <1>6, <1>7, <1>8, <1>9, <1>10, <1>11 DEF TinitNext, Thread

(* Nor is any service started that is still STOPPING.                       *)
LEMMA BootFromStopped ==
  ASSUME BootInv, OnlyBootStarts, [TinitNext]_tvars
  PROVE  [NextFromStopped]_vars
<1>1. LoopTypes /\ pc # "switch"
  BY DEF BootInv, TInv, LoopOK
<1>2. ASSUME NEW s \in Services, calls = <<>>, svc[s].state \in On, svc_stop(s)
      PROVE  NextFromStopped
  BY <1>2 DEF Stop, NextFromStopped, On
<1>3. ASSUME todo # <<>> PROVE Head(todo) \in Services /\ Head(todo) \in ElementsOf(todo)
  BY <1>1, <1>3, HeadLeaves DEF LoopTypes
<1>4. CASE TargetStart
  <2> DEFINE s == Head(todo)
  <2>1. s \in Services /\ svc[s].state = "STOPPED" /\ calls = <<>> /\ svc_start(s)
    BY <1>3, <1>4 DEF TargetStart, Idle, BootInv, TInv, LoopOK, BootLoop, OnlyBootStarts
  <2> HIDE DEF s
  <2>2. Phase(s) \in StartFrom
    BY <2>1, RepoAssumption DEF Phase, Phases
  <2> QED BY <2>1, <2>2 DEF Start, NextFromStopped
<1>5. CASE TargetStop
  BY <1>2, <1>3, <1>5 DEF TargetStop, Idle, IsOn, On
<1>6. CASE \/ TargetDone \/ TargetStopCount \/ SigchanStop
           \/ HandleSigchldCount \/ SigchldDone \/ Dispatch
           \/ (\E sig \in ShutdownSigs : Shutdown(sig))
           \/ UNCHANGED tvars
  BY <1>6 DEF TargetDone, TargetStopCount, SigchanStop, HandleSigchldCount, SigchldDone,
     Dispatch, DispatchStarted, DispatchStopping, Shutdown, tvars
<1>7. CASE TargetSwitch \/ \E target \in Targets : RequestSwitch(target)
  BY <1>1, <1>7 DEF TargetSwitch, RequestSwitch, Idle, OnlyBootStarts
<1>8. CASE HandleNotif
  BY <1>8 DEF HandleNotif, NextFromStopped
<1>9. ASSUME NEW p \in Pids, HandleSigchld(p) PROVE NextFromStopped
  BY <1>9 DEF HandleSigchld, NextFromStopped
<1>10. ASSUME NEW s \in Services, TimerExpire(s) PROVE NextFromStopped
  BY <1>10 DEF TimerExpire, NextFromStopped
<1>11. ASSUME NEW p \in Pids, NEW status \in {"ok", "bad"}, ProcExit(p, status)
       PROVE  NextFromStopped
  BY <1>11 DEF ProcExit, NextFromStopped
<1>12. ASSUME NEW s \in Services, RequestStart(s) \/ RequestStop(s) \/ RequestReload(s)
       PROVE  NextFromStopped
  BY <1>2, <1>12 DEF OnlyBootStarts, RequestStart, RequestStop, RequestReload, Serving, Idle,
     IsOn, On
<1> QED
  BY <1>4, <1>5, <1>6, <1>7, <1>8, <1>9, <1>10, <1>11, <1>12 DEF TinitNext, Thread

LEMMA BootInvariant == OnlyBootStarts => (TinitSpec => []BootInv)
<1> SUFFICES ASSUME OnlyBootStarts PROVE TinitSpec => []BootInv
  OBVIOUS
<1>1. TinitInit => BootInv
  <2>1. ElementsOf(BootTable) \subseteq Services
    BY RepoAssumption DEF ElementsOf
  <2> SUFFICES ASSUME TinitInit PROVE BootInv
    OBVIOUS
  <2>2. SvcInit /\ pc = "boot" /\ todo = BootTable
    BY DEF TinitInit
  <2>3. Untouched
    BY <2>1, <2>2 DEF SvcInit, svc_init, Untouched
  <2> QED BY <2>2, <2>3, TinitInitLoop, InitOrderly DEF BootInv
<1>2. BootInv /\ [TinitNext]_tvars => BootInv'
  <2> SUFFICES ASSUME BootInv, [TinitNext]_tvars PROVE BootInv'
    OBVIOUS
  <2>1. TInv'
    BY TinitNextLoop DEF BootInv
  <2>2. (\A t \in Services : Orderly(t, svc))'
    BY BootNext DEF BootInv, OInv, InOrder, Orderly
  <2> QED BY <2>1, <2>2, BootNext DEF BootInv, TInv, OInv
<1> QED BY <1>1, <1>2, PTL DEF TinitSpec

(* Whatever the order of the boot target's directory, no service runs a     *)
(* command before those it starts on are READY.                             *)
THEOREM BootStartsInOrder ==
  OnlyBootStarts => (TinitSpec => StartOrder)
<1> SUFFICES ASSUME OnlyBootStarts PROVE TinitSpec => StartOrder
  OBVIOUS
<1>1. BootInv /\ [TinitNext]_tvars =>
        [\A s \in Services : BeginsStart(s) => SourcesReady(s)']_vars
  BY BootNext, OrderedStep
<1> QED BY <1>1, BootInvariant, PTL DEF TinitSpec, StartOrder

(* From the boot to the end of the shutdown, whatever clients stop, each    *)
(* exit is that of the process the handler takes it for.                    *)
THEOREM BootExitsAreExpected ==
  OnlyBootStarts => (TinitSpec => []ChildIsExpected)
<1> SUFFICES ASSUME OnlyBootStarts PROVE TinitSpec => []ChildIsExpected
  OBVIOUS
<1>1. TinitInit => EInv
  BY InitExpected DEF TinitInit
<1>2. BootInv /\ EInv /\ [TinitNext]_tvars => EInv'
  BY BootFromStopped, NextExpected
<1> QED BY <1>1, <1>2, BootInvariant, ExpectedChild, PTL DEF TinitSpec

LEMMA BootTracked ==
  OnlyBootStarts /\ SimpleSettings => (TinitSpec => []PInv)
<1> SUFFICES ASSUME OnlyBootStarts, SimpleSettings PROVE TinitSpec => []PInv
  OBVIOUS
<1>1. TinitInit => PInv
  BY InitTracked DEF TinitInit
<1>2. BootInv /\ PInv /\ [TinitNext]_tvars => PInv'
  BY BootFromStopped, NextTracked
<1> QED BY <1>1, <1>2, BootInvariant, PTL DEF TinitSpec

(* With simple settings, no process is left behind: at the end of the       *)
(* shutdown the services have none running.                                 *)
THEOREM BootProcessesTracked ==
  OnlyBootStarts /\ SimpleSettings => (TinitSpec => []NoOrphan)
BY BootTracked, TrackedNoOrphan, PTL

(* And while vfork() does not fail no service hangs, up or down.            *)
THEOREM BootNothingHangs ==
  OnlyBootStarts /\ SimpleSettings /\ SureFork => (TinitSpec => []NothingStuck)
<1> SUFFICES ASSUME OnlyBootStarts, SimpleSettings, SureFork
             PROVE  TinitSpec => []NothingStuck
  OBVIOUS
<1>1. PInv => NothingStuck
  BY TrackedNotStuck
<1> QED BY <1>1, BootTracked, PTL
=============================================================================
