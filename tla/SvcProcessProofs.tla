-------------------------- MODULE SvcProcessProofs --------------------------
(***************************************************************************)
(* Proofs about the processes of the services, for any number of services, *)
(* dependency graphs and process slots: that tinit keeps track of every    *)
(* process it spawns, that no transition hangs, that services start in the *)
(* order of starton and that the handlers take each exit for what it is.   *)
(*                                                                         *)
(* svc.c has these properties within limits only, which the theorems have  *)
(* as hypotheses: without any one of them TLC finds a behaviour that       *)
(* violates the property.                                                  *)
(***************************************************************************)
EXTENDS SvcProofs, FiniteSetTheorems

(* No stopon settings, and services that start on others have no start      *)
(* commands.                                                                *)
SimpleSettings ==
  /\ \A s \in Services : StopOn[s] = {}
  /\ \A s \in Services : StartOn[s] # {} => StartCmdNr[s] = 0

(* A service is started again only once it has stopped, or never.           *)
StartedStopped == StartFrom \subseteq {"BOOT", "STOPPED"}
StartedOnce    == StartFrom \subseteq {"BOOT"}

(* The steps in which it is so.                                             *)
NextFromStopped ==
  \/ Notify
  \/ \E p \in Pids, status \in {"ok", "bad"} : Exit(p, status)
  \/ \E p \in Pids : Reap(p)
  \/ \E s \in Services : Expire(s)
  \/ \E s \in Services : Start(s) /\ svc[s].state = "STOPPED"
  \/ \E s \in Services : Stop(s)

(* vfork() does not fail: there is a slot for the process of each service.  *)
SureFork ==
  /\ ForkFails = FALSE
  /\ IsFiniteSet(Services) /\ IsFiniteSet(Pids)
  /\ Cardinality(Services) <= Cardinality(Pids)

-----------------------------------------------------------------------------
(* The inductive invariant, of the same triples as Good.                    *)

(* A service that starts on others has no process while it is STARTING, so  *)
(* that a notification cannot give it a second one.                         *)
SingleOK(t, v) ==
  /\ (v[t].state = "STARTING" /\ StartOn[t] # {}) => v[t].child = NoPid
  /\ v[t].state = "READY" => v[t].start_cmd >= StartCmdNr[t]
  /\ v[t].expire = "none" => v[t].state = "STOPPED"

(* Something will take t further.                                           *)
Lively(t, v, q) ==
  /\ (v[t].state = "STARTING" /\ v[t].begun) => v[t].child # NoPid \/ v[t].armed
  /\ v[t].state = "STOPPING" =>
       /\ v[t].child # NoPid
       /\ v[t].armed \/ q[v[t].child].kill \/ q[v[t].child].st # "run"

ProcessOK(t, v, q) == SingleOK(t, v) /\ (SureFork => Lively(t, v, q))

(* The process of slot p is the child of its service.                       *)
Owned(p, v, q) ==
  q[p].st # "free" => q[p].svc \in Services /\ v[q[p].svc].child = p

(* Only the observers of a READY service are being notified.                *)
CallsOK(v, c) ==
  \A e \in ElementsOf(c) :
    e.sink \in Services /\ e.src \in StartOn[e.sink] /\ v[e.src].state = "READY"

Tracked(v, q, c) ==
  /\ \A p \in Pids : Owned(p, v, q)
  /\ CallsOK(v, c)
  /\ \A t \in Services : ProcessOK(t, v, q)

(* What holds while a handler that is about to spawn is at work on s: s has *)
(* no process.                                                              *)
Vacant(s, v, q, c) ==
  /\ \A p \in Pids : Owned(p, v, q) /\ (q[p].st # "free" => q[p].svc # s)
  /\ CallsOK(v, c)
  /\ \A t \in Services \ {s} : ProcessOK(t, v, q)

PInv == IInv /\ Tracked(svc, proc, calls)

-----------------------------------------------------------------------------
(* Pending calls.                                                           *)

LEMMA NotifsElements ==
  ASSUME NEW s \in Services, NEW obsrv \in Seq(Services), NEW c \in Seq(Call)
  PROVE  \A e \in ElementsOf(Notifs(s, obsrv) \o c) :
           e \in ElementsOf(c) \/ (e.src = s /\ e.sink \in ElementsOf(obsrv))
<1> DEFINE n == Notifs(s, obsrv)
<1>1. n \in Seq(Call)
  BY NotifsProperties
<1>2. ASSUME NEW i \in DOMAIN n
      PROVE  n[i].src = s /\ n[i].sink \in ElementsOf(obsrv)
  BY DEF Notifs, ElementsOf
<1> HIDE DEF n
<1>3. ASSUME NEW i \in DOMAIN (n \o c)
      PROVE  \/ i \in DOMAIN n /\ (n \o c)[i] = n[i]
             \/ i - Len(n) \in DOMAIN c /\ (n \o c)[i] = c[i - Len(n)]
  BY <1>1
<1>4. ASSUME NEW e \in ElementsOf(n \o c)
      PROVE  e \in ElementsOf(c) \/ (e.src = s /\ e.sink \in ElementsOf(obsrv))
  <2>1. PICK i \in DOMAIN (n \o c) : e = (n \o c)[i]
    BY DEF ElementsOf
  <2>2. CASE i \in DOMAIN n /\ (n \o c)[i] = n[i]
    BY <1>2, <2>1, <2>2
  <2>3. CASE i - Len(n) \in DOMAIN c /\ (n \o c)[i] = c[i - Len(n)]
    BY <2>1, <2>3 DEF ElementsOf
  <2> QED BY <1>3, <2>2, <2>3
<1> QED BY <1>4 DEF n

LEMMA TailSubset ==
  ASSUME NEW c \in Seq(Call), c # <<>>
  PROVE  Head(c) \in ElementsOf(c) /\ ElementsOf(Tail(c)) \subseteq ElementsOf(c)
<1>1. 1 \in DOMAIN c /\ Head(c) = c[1]
  OBVIOUS
<1>2. ASSUME NEW i \in DOMAIN Tail(c)
      PROVE  i + 1 \in DOMAIN c /\ Tail(c)[i] = c[i + 1]
  OBVIOUS
<1> QED BY <1>1, <1>2 DEF ElementsOf

-----------------------------------------------------------------------------
(* svc_spawn().                                                             *)

(* While s has no process there is a slot for one.                          *)
LEMMA SlotLeft ==
  ASSUME SureFork, NEW s \in Services, NEW v, NEW q, NEW c, Vacant(s, v, q, c)
  PROVE  FreeSlots(q) # {}
<1> SUFFICES ASSUME FreeSlots(q) = {} PROVE FALSE
  OBVIOUS
<1> DEFINE f == [p \in Pids |-> q[p].svc]
<1>1. \A p \in Pids : q[p].svc \in Services \ {s} /\ v[q[p].svc].child = p
  BY DEF FreeSlots, Vacant, Owned
<1>2. f \in Injection(Pids, Services \ {s})
  BY <1>1 DEF Injection, IsInjective
<1>3. IsFiniteSet(Services \ {s}) /\ Cardinality(Services \ {s}) = Cardinality(Services) - 1
  BY FS_RemoveElement DEF SureFork
<1>4. Cardinality(Pids) <= Cardinality(Services \ {s})
  BY <1>2, <1>3, FS_Injection DEF ExistsInjection
<1>5. Cardinality(Pids) \in Nat /\ Cardinality(Services) \in Nat
  BY FS_CardinalityType DEF SureFork
<1> QED BY <1>3, <1>4, <1>5 DEF SureFork

(* What depends on the record of t only.                                    *)
LEMMA SameService ==
  ASSUME NEW t, NEW v, NEW w, NEW q, w[t] = v[t], ProcessOK(t, v, q)
  PROVE  ProcessOK(t, w, q)
BY DEF ProcessOK, SingleOK, Lively

(* What a vfork() for s makes of the services v and the processes: w and q. *)
SpawnedFor(s, v, w, child, q) ==
  /\ w \in [Services -> SvcRecord]
  /\ w[s].child = child
  /\ child # NoPid => w[s].armed
  /\ SureFork => child # NoPid
  /\ w[s].state = v[s].state /\ w[s].expire = v[s].expire
  /\ w[s].start_cmd = v[s].start_cmd /\ w[s].stop_cmd = v[s].stop_cmd
  /\ \A t \in Services \ {s} : w[t] = v[t] /\ ProcessOK(t, w, q)
  /\ \A p \in Pids : Owned(p, w, q)

(* A vfork() gives s a process, or none, and leaves the others as they are. *)
LEMMA SpawnTracked ==
  ASSUME NEW s \in Services, NEW v, NEW q, NEW c, NEW job \in Jobs,
         Others(s, v, q, c), Vacant(s, v, q, c),
         NEW o \in svc_spawn(s, job, q)
  PROVE  SpawnedFor(s, v, Spawned(s, v, o), o.child, o.proc)
<1> DEFINE w == Spawned(s, v, o)
<1>1. v \in [Services -> SvcRecord] /\ q \in [Pids -> ProcRecord]
  BY DEF Others, Types
<1>2. \/ \E p \in Pids : /\ q[p].st = "free"
                         /\ o.child = p
                         /\ o.proc = [q EXCEPT ![p] = Fork(s, job)]
      \/ o.child = NoPid /\ o.proc = q
  BY DEF svc_spawn, FreeSlots
<1>3. /\ o.child \in Pids \cup {NoPid}
      /\ o.child # NoPid => o.proc[o.child] = Fork(s, job)
      /\ \A p \in Pids : q[p].st # "free" => p # o.child
      /\ \A p \in Pids : p # o.child => o.proc[p] = q[p]
  BY <1>1, <1>2, KernelAssumption
<1>4. SureFork => o.child # NoPid
  <2>1. SureFork => FreeSlots(q) # {} /\ ForkFails = FALSE
    BY SlotLeft DEF SureFork
  <2>2. NoPid \notin Pids
    BY KernelAssumption
  <2> QED BY <2>1, <2>2 DEF svc_spawn, FreeSlots
<1>5. /\ w \in [Services -> SvcRecord]
      /\ w[s] = [v[s] EXCEPT !.child = o.child, !.armed = IF o.child = NoPid THEN @ ELSE TRUE]
      /\ \A t \in Services \ {s} : w[t] = v[t]
  <2> DEFINE b == IF o.child = NoPid THEN v[s].armed ELSE TRUE
             y == [v[s] EXCEPT !.child = o.child, !.armed = b]
  <2>1. v[s] \in SvcRecord /\ b \in BOOLEAN
    BY <1>1 DEF SvcRecord
  <2>2. y \in SvcRecord
    BY <2>1, <1>3 DEF SvcRecord
  <2>3. w = [v EXCEPT ![s] = y]
    BY <1>1, <2>1 DEF Spawned, SvcRecord
  <2> QED BY <1>1, <2>2, <2>3
<1>6. /\ w[s].child = o.child /\ (o.child # NoPid => w[s].armed)
      /\ w[s].state = v[s].state /\ w[s].expire = v[s].expire
      /\ w[s].start_cmd = v[s].start_cmd /\ w[s].stop_cmd = v[s].stop_cmd
  BY <1>1, <1>5 DEF SvcRecord
<1> HIDE DEF w
<1>7. ASSUME NEW p \in Pids
      PROVE  Owned(p, w, o.proc)
  <2>1. CASE p = o.child
    <3>1. o.proc[p] = Fork(s, job)
      BY <1>3, <2>1, KernelAssumption
    <3> QED BY <1>6, <2>1, <3>1 DEF Owned, Fork
  <2>2. CASE p # o.child
    <3>1. Owned(p, v, q) /\ (q[p].st # "free" => q[p].svc # s)
      BY DEF Vacant
    <3> QED BY <1>3, <1>5, <2>2, <3>1 DEF Owned
  <2> QED BY <2>1, <2>2
<1>8. ASSUME NEW t \in Services \ {s}
      PROVE  ProcessOK(t, w, o.proc)
  <2>1. ProcessOK(t, v, q) /\ ChildOK(t, v, q) /\ v[t].child \in Pids \cup {NoPid}
    BY <1>1 DEF Vacant, Others, ServiceOK, SvcRecord
  <2>2. v[t].child # NoPid => o.proc[v[t].child] = q[v[t].child]
    BY <1>3, <2>1 DEF ChildOK
  <2>3. ProcessOK(t, v, o.proc)
    BY <2>1, <2>2 DEF ProcessOK, SingleOK, Lively
  <2> QED BY <1>5, <2>3, SameService
<1> QED BY <1>4, <1>5, <1>6, <1>7, <1>8 DEF w, SpawnedFor

(* The handler goes on with a changed record of s.                          *)
LEMMA UpdateVacant ==
  ASSUME NEW s \in Services, NEW v, NEW w, NEW q, NEW c, Vacant(s, v, q, c),
         \A t \in Services \ {s} : w[t] = v[t],
         c = <<>> \/ w[s].state = v[s].state
  PROVE  Vacant(s, w, q, c)
<1>1. \A p \in Pids : Owned(p, w, q) /\ (q[p].st # "free" => q[p].svc # s)
  BY DEF Vacant, Owned
<1>2. \A t \in Services \ {s} : ProcessOK(t, w, q)
  BY SameService DEF Vacant
<1>3. CallsOK(w, c)
  <2>1. CASE c = <<>>
    BY <2>1 DEF CallsOK, ElementsOf
  <2>2. CASE w[s].state = v[s].state
    <3>1. \A t \in Services : StartOn[t] \subseteq Services
      BY GraphAssumption
    <3>2. CallsOK(v, c)
      BY DEF Vacant
    <3>3. \A e \in ElementsOf(c) : e.src \in Services
      BY <3>1, <3>2 DEF CallsOK
    <3>4. \A t \in Services : w[t].state = v[t].state
      BY <2>2
    <3> QED BY <3>2, <3>3, <3>4 DEF CallsOK
  <2> QED BY <2>1, <2>2
<1> QED BY <1>1, <1>2, <1>3 DEF Vacant

(* The handler is done with s, which has not been anybody's READY source    *)
(* unless it is READY now.                                                  *)
LEMMA Done ==
  ASSUME NEW s \in Services, NEW v, NEW w, NEW q, NEW c,
         \A p \in Pids : Owned(p, v, q), w[s].child = v[s].child,
         \A t \in Services \ {s} : w[t] = v[t] /\ ProcessOK(t, v, q),
         ProcessOK(s, w, q), CallsOK(w, c)
  PROVE  Tracked(w, q, c)
<1>1. \A p \in Pids : Owned(p, w, q)
  BY DEF Owned
<1>2. \A t \in Services : ProcessOK(t, w, q)
  BY SameService
<1> QED BY <1>1, <1>2 DEF Tracked

(* svc_mark_ready() and svc_mark_stopped() notify observers; with no stopon *)
(* setting the latter has none.                                             *)
LEMMA MarkReadyCalls ==
  ASSUME NEW s \in Services, NEW v, NEW w, NEW c \in Seq(Call), CallsOK(v, c),
         \A t \in Services \ {s} : w[t] = v[t], w[s].state = "READY"
  PROVE  CallsOK(w, Notifs(s, StartOnObsrv[s]) \o c)
<1>1. StartOnObsrv[s] \in Seq(Services) /\ \A t \in Services : StartOn[t] \subseteq Services
  BY GraphAssumption
<1>2. \A o \in ElementsOf(StartOnObsrv[s]) : o \in Services /\ s \in StartOn[o]
  BY <1>1, GraphAssumption DEF ElementsOf
<1>3. \A e \in ElementsOf(Notifs(s, StartOnObsrv[s]) \o c) :
        e \in ElementsOf(c) \/ (e.src = s /\ e.sink \in ElementsOf(StartOnObsrv[s]))
  BY <1>1, NotifsElements
<1>4. \A e \in ElementsOf(c) : e.sink \in Services /\ e.src \in StartOn[e.sink] /\ w[e.src].state = "READY"
  BY <1>1 DEF CallsOK
<1> QED BY <1>2, <1>3, <1>4 DEF CallsOK

LEMMA MarkStoppedCalls ==
  ASSUME SimpleSettings, NEW s \in Services, NEW v, NEW w, NEW c \in Seq(Call), CallsOK(v, c),
         \A t \in Services \ {s} : w[t] = v[t], v[s].state # "READY"
  PROVE  CallsOK(w, Notifs(s, StopOnObsrv[s]) \o c) /\ CallsOK(w, c)
<1>1. StopOnObsrv[s] \in Seq(Services) /\ \A t \in Services : StartOn[t] \subseteq Services
  BY GraphAssumption
<1>2. ElementsOf(StopOnObsrv[s]) = {}
  <2>1. \A o \in ElementsOf(StopOnObsrv[s]) : o \in Services
    BY <1>1 DEF ElementsOf
  <2> QED BY <2>1, GraphAssumption DEF SimpleSettings
<1>3. \A e \in ElementsOf(Notifs(s, StopOnObsrv[s]) \o c) :
        e \in ElementsOf(c) \/ (e.src = s /\ e.sink \in ElementsOf(StopOnObsrv[s]))
  BY <1>1, NotifsElements
<1>4. \A e \in ElementsOf(c) : e.sink \in Services /\ e.src \in StartOn[e.sink] /\ w[e.src].state = "READY"
  BY <1>1 DEF CallsOK
<1> QED BY <1>2, <1>3, <1>4 DEF CallsOK

(* svc_spawn_start_cmd(), when s has no process.                            *)
LEMMA StartCmdTracked ==
  ASSUME SimpleSettings, NEW s \in Services, NEW v, NEW q, NEW c,
         Others(s, v, q, c), Vacant(s, v, q, c),
         v[s].state = "STARTING", v[s].expire = "on",
         svc_spawn_start_cmd(s, v, q, c)
  PROVE  Tracked(svc', proc', calls')
<1> DEFINE w == [v EXCEPT ![s].begun = TRUE]
           r == [v[s] EXCEPT !.begun = TRUE]
<1>1. v \in [Services -> SvcRecord] /\ c \in Seq(Call) /\ StartCmdNr[s] \in Nat
  BY ConfAssumption DEF Others, Types
<1>2. /\ r \in SvcRecord /\ w = [v EXCEPT ![s] = r]
      /\ r.state = "STARTING" /\ r.expire = "on" /\ r.begun /\ r.start_cmd = v[s].start_cmd
  BY <1>1 DEF SvcRecord
<1>3. w \in [Services -> SvcRecord] /\ w[s] = r /\ \A t \in Services \ {s} : w[t] = v[t]
  BY <1>1, <1>2
<1> HIDE DEF w, r
<1>4. Others(s, w, q, c)
  BY <1>1, <1>2, UpdateOthers
<1>5. Vacant(s, w, q, c)
  BY <1>2, <1>3, UpdateVacant
<1>6. CallsOK(w, c)
  BY <1>5 DEF Vacant
<1>7. ASSUME NEW job \in Jobs, NEW o \in svc_spawn(s, job, q)
      PROVE  SpawnedFor(s, w, Spawned(s, w, o), o.child, o.proc)
  BY <1>4, <1>5, SpawnTracked
<1>8. ASSUME v[s].start_cmd < StartCmdNr[s],
             NEW o \in svc_spawn(s, "start", q), Return(Spawned(s, w, o), o.proc, c)
      PROVE  Tracked(svc', proc', calls')
  <2>1. PICK x : x = Spawned(s, w, o) /\ SpawnedFor(s, w, x, o.child, o.proc)
    BY <1>7 DEF Jobs
  <2>2. StartOn[s] = {}
    BY <1>1, <1>8 DEF SimpleSettings, SvcRecord
  <2>3. ProcessOK(s, x, o.proc)
    BY <1>2, <1>3, <2>1, <2>2 DEF SpawnedFor, ProcessOK, SingleOK, Lively
  <2>4. CallsOK(x, c)
    BY <1>5, <2>1, UpdateVacant DEF Vacant, SpawnedFor
  <2>5. Tracked(x, o.proc, c)
    BY <2>1, <2>3, <2>4, Done DEF SpawnedFor
  <2> QED BY <1>8, <2>1, <2>5 DEF Return
<1>9. ASSUME NEW o \in svc_spawn(s, "daemon", q), o.child = NoPid,
             Return(Spawned(s, w, o), o.proc, c)
      PROVE  Tracked(svc', proc', calls')
  <2>1. PICK x : x = Spawned(s, w, o) /\ SpawnedFor(s, w, x, o.child, o.proc)
    BY <1>7 DEF Jobs
  <2>2. ProcessOK(s, x, o.proc)
    BY <1>2, <1>3, <1>9, <2>1 DEF SpawnedFor, ProcessOK, SingleOK, Lively
  <2>3. CallsOK(x, c)
    BY <1>5, <2>1, UpdateVacant DEF Vacant, SpawnedFor
  <2>4. Tracked(x, o.proc, c)
    BY <2>1, <2>2, <2>3, Done DEF SpawnedFor
  <2> QED BY <1>9, <2>1, <2>4 DEF Return
<1>10. ASSUME v[s].start_cmd >= StartCmdNr[s], NEW o \in svc_spawn(s, "daemon", q), o.child # NoPid,
              svc_mark_ready(s, Spawned(s, w, o), o.proc, c)
       PROVE  Tracked(svc', proc', calls')
  <2>1. PICK x : x = Spawned(s, w, o) /\ SpawnedFor(s, w, x, o.child, o.proc)
    BY <1>7 DEF Jobs
  <2> DEFINE y == [x EXCEPT ![s].state = "READY"]
  <2>2. /\ \A t \in Services \ {s} : y[t] = x[t]
        /\ y[s].state = "READY" /\ y[s].child = o.child /\ y[s].expire = "on"
        /\ y[s].start_cmd = v[s].start_cmd
    <3>1. /\ x \in [Services -> SvcRecord] /\ x[s].child = o.child
          /\ x[s].expire = "on" /\ x[s].start_cmd = v[s].start_cmd
      BY <1>2, <1>3, <2>1 DEF SpawnedFor
    <3> DEFINE rx == [x[s] EXCEPT !.state = "READY"]
    <3>2. /\ rx.state = "READY" /\ rx.child = o.child /\ rx.expire = "on"
          /\ rx.start_cmd = v[s].start_cmd
      BY <3>1 DEF SvcRecord
    <3>3. y = [x EXCEPT ![s] = rx]
      OBVIOUS
    <3> HIDE DEF rx, y
    <3> QED BY <3>1, <3>2, <3>3
  <2> HIDE DEF y
  <2>3. ProcessOK(s, y, o.proc)
    BY <1>10, <2>1, <2>2 DEF SpawnedFor, ProcessOK, SingleOK, Lively
  <2>4. CallsOK(y, Notifs(s, StartOnObsrv[s]) \o c)
    BY <1>1, <1>6, <2>1, <2>2, MarkReadyCalls DEF SpawnedFor
  <2>5. Tracked(y, o.proc, Notifs(s, StartOnObsrv[s]) \o c)
    <3>1. /\ \A p \in Pids : Owned(p, x, o.proc)
          /\ y[s].child = x[s].child
          /\ \A t \in Services \ {s} : y[t] = x[t] /\ ProcessOK(t, x, o.proc)
      BY <2>1, <2>2 DEF SpawnedFor
    <3> QED BY <2>3, <2>4, <3>1, Done
  <2> QED BY <1>10, <2>1, <2>5 DEF svc_mark_ready, Return, y
<1>11. ASSUME v[s].start_cmd >= StartCmdNr[s],
              svc_mark_ready(s, [w EXCEPT ![s].child = NoPid], q, c)
       PROVE  Tracked(svc', proc', calls')
  <2> DEFINE x == [w EXCEPT ![s].child = NoPid]
             y == [x EXCEPT ![s].state = "READY"]
  <2>1. /\ \A t \in Services \ {s} : x[t] = w[t]
        /\ x \in [Services -> SvcRecord]
        /\ x[s] = [r EXCEPT !.child = NoPid]
    BY <1>2, <1>3 DEF SvcRecord
  <2>2. /\ x[s].state = "STARTING" /\ x[s].child = NoPid
        /\ x[s].expire = "on" /\ x[s].start_cmd = v[s].start_cmd
    BY <1>2, <2>1 DEF SvcRecord
  <2> HIDE DEF x
  <2>3. /\ \A t \in Services \ {s} : y[t] = x[t]
        /\ y[s].state = "READY" /\ y[s].child = NoPid /\ y[s].expire = "on"
        /\ y[s].start_cmd = v[s].start_cmd
    BY <2>1, <2>2 DEF SvcRecord
  <2> HIDE DEF y
  <2>4. Vacant(s, x, q, c)
    <3>1. x[s].state = w[s].state
      BY <1>2, <1>3, <2>2
    <3> QED BY <1>5, <2>1, <3>1, UpdateVacant
  <2>5. ProcessOK(s, y, q)
    BY <1>11, <2>3 DEF ProcessOK, SingleOK, Lively
  <2>6. CallsOK(y, Notifs(s, StartOnObsrv[s]) \o c)
    BY <1>1, <2>3, <2>4, MarkReadyCalls DEF Vacant
  <2>7. Tracked(y, q, Notifs(s, StartOnObsrv[s]) \o c)
    BY <2>2, <2>3, <2>4, <2>5, <2>6, Done DEF Vacant
  <2> QED BY <1>11, <2>7 DEF svc_mark_ready, Return, x, y
<1> QED BY <1>8, <1>9, <1>10, <1>11 DEF svc_spawn_start_cmd, w

(* svc_spawn_stop_cmd(), likewise.                                          *)
LEMMA StopCmdTracked ==
  ASSUME SimpleSettings, NEW s \in Services, NEW v, NEW q, NEW c,
         Others(s, v, q, c), Vacant(s, v, q, c),
         v[s].state = "STOPPING", v[s].expire = "off",
         svc_spawn_stop_cmd(s, v, q, c)
  PROVE  Tracked(svc', proc', calls')
<1> DEFINE w == [v EXCEPT ![s].stop_cmd = @ + 1, ![s].begun = TRUE]
           r == [v[s] EXCEPT !.stop_cmd = @ + 1, !.begun = TRUE]
<1>1. v \in [Services -> SvcRecord] /\ c \in Seq(Call)
  BY DEF Others, Types
<1>2. /\ r \in SvcRecord /\ w = [v EXCEPT ![s] = r]
      /\ r.state = "STOPPING" /\ r.expire = "off" /\ r.stop_cmd >= 0
  <2>1. v[s].stop_cmd + 1 \in Nat
    <3>1. v[s].stop_cmd \in Nat \cup {-1}
      BY <1>1 DEF SvcRecord
    <3> QED BY <3>1
  <2>2. v[s].stop_cmd + 1 \in Nat \cup {-1}
    BY <2>1
  <2>3. r \in SvcRecord /\ w = [v EXCEPT ![s] = r]
    BY <1>1, <2>2 DEF SvcRecord
  <2>4. r.state = "STOPPING" /\ r.expire = "off" /\ r.stop_cmd = v[s].stop_cmd + 1
    BY <1>1 DEF SvcRecord
  <2> QED BY <2>1, <2>3, <2>4
<1>3. w \in [Services -> SvcRecord] /\ w[s] = r /\ \A t \in Services \ {s} : w[t] = v[t]
  BY <1>1, <1>2
<1> HIDE DEF w, r
<1>4. Others(s, w, q, c)
  BY <1>1, <1>2, UpdateOthers
<1>5. Vacant(s, w, q, c)
  BY <1>2, <1>3, UpdateVacant
<1>6. ASSUME svc_mark_stopped(s, w, q, c)
      PROVE  Tracked(svc', proc', calls')
  <2> DEFINE x == [w EXCEPT ![s].child = NoPid]
             y == [w EXCEPT ![s].child = NoPid, ![s].state = "STOPPED"]
  <2>1. /\ \A t \in Services \ {s} : x[t] = w[t] /\ y[t] = w[t]
        /\ x[s].child = NoPid /\ x[s].state = "STOPPING"
        /\ y[s].child = NoPid /\ y[s].state = "STOPPED" /\ y[s].expire = "off"
    BY <1>2, <1>3 DEF SvcRecord
  <2> HIDE DEF x, y
  <2>2. Vacant(s, x, q, c)
    <3>1. x[s].state = w[s].state
      BY <1>2, <1>3, <2>1
    <3> QED BY <1>5, <2>1, <3>1, UpdateVacant
  <2>3. ProcessOK(s, y, q)
    BY <2>1 DEF ProcessOK, SingleOK, Lively
  <2>4. CallsOK(y, Notifs(s, StopOnObsrv[s]) \o c)
    BY <1>1, <2>1, <2>2, MarkStoppedCalls DEF Vacant
  <2>5. Tracked(y, q, Notifs(s, StopOnObsrv[s]) \o c)
    BY <2>1, <2>2, <2>3, <2>4, Done DEF Vacant
  <2> QED BY <1>6, <2>5 DEF svc_mark_stopped, Return, y
<1>7. ASSUME NEW o \in svc_spawn(s, "stop", q), Return(Spawned(s, w, o), o.proc, c)
      PROVE  Tracked(svc', proc', calls')
  <2>1. PICK x : x = Spawned(s, w, o) /\ SpawnedFor(s, w, x, o.child, o.proc)
    BY <1>4, <1>5, SpawnTracked DEF Jobs
  <2>2. ProcessOK(s, x, o.proc)
    BY <1>2, <1>3, <2>1 DEF SpawnedFor, ProcessOK, SingleOK, Lively
  <2>3. CallsOK(x, c)
    BY <1>5, <2>1, UpdateVacant DEF Vacant, SpawnedFor
  <2>4. Tracked(x, o.proc, c)
    BY <2>1, <2>2, <2>3, Done DEF SpawnedFor
  <2> QED BY <1>7, <2>1, <2>4 DEF Return
<1> QED BY <1>6, <1>7 DEF svc_spawn_stop_cmd, w

-----------------------------------------------------------------------------
(* What a handler starts from.                                              *)

LEMMA TrackedProperties ==
  ASSUME PInv, NEW s \in Services
  PROVE  /\ svc \in [Services -> SvcRecord] /\ proc \in [Pids -> ProcRecord]
         /\ calls \in Seq(Call) /\ Others(s, svc, proc, calls)
         /\ ServiceOK(s, svc, proc, calls) /\ ProcessOK(s, svc, proc)
BY GoodOthers DEF PInv, IInv, Good, Types, Tracked

(* No process to be found in svc->child: none at all.                       *)
LEMMA NoChildVacant ==
  ASSUME PInv, NEW s \in Services, svc[s].child = NoPid
  PROVE  Vacant(s, svc, proc, calls)
<1>1. \A p \in Pids : proc[p].st # "free" => proc[p].svc # s
  BY KernelAssumption DEF PInv, Tracked, Owned
<1> QED BY <1>1 DEF PInv, Tracked, Vacant

(* The child has been waited for.                                           *)
LEMMA ReapedVacant ==
  ASSUME PInv, NEW s \in Services, NEW p \in Pids, svc[s].child = p
  PROVE  Vacant(s, svc, [proc EXCEPT ![p] = FreeSlot], calls)
<1> DEFINE q == [proc EXCEPT ![p] = FreeSlot]
<1>1. /\ q[p].st = "free" /\ \A k \in Pids \ {p} : q[k] = proc[k]
      /\ proc \in [Pids -> ProcRecord] /\ svc \in [Services -> SvcRecord]
  BY TrackedProperties DEF FreeSlot
<1> HIDE DEF q
<1>2. \A k \in Pids : Owned(k, svc, q) /\ (q[k].st # "free" => q[k].svc # s)
  BY <1>1 DEF PInv, Tracked, Owned
<1>3. ASSUME NEW t \in Services \ {s}
      PROVE  ProcessOK(t, svc, q)
  <2>1. ProcessOK(t, svc, proc) /\ ChildOK(t, svc, proc) /\ svc[t].child \in Pids \cup {NoPid}
    BY <1>1 DEF PInv, Tracked, IInv, Good, ServiceOK, SvcRecord
  <2>2. ChildOK(s, svc, proc) /\ NoPid \notin Pids
    BY KernelAssumption DEF PInv, IInv, Good, ServiceOK
  <2>3. svc[t].child # p
    BY <2>1, <2>2 DEF ChildOK
  <2>4. svc[t].child # NoPid => q[svc[t].child] = proc[svc[t].child]
    BY <1>1, <2>1, <2>3
  <2> QED BY <2>1, <2>4 DEF ProcessOK, SingleOK, Lively
<1> QED BY <1>2, <1>3 DEF PInv, Tracked, Vacant, q

-----------------------------------------------------------------------------
(* The steps.                                                               *)

(* svc_start() of a service that has stopped, or that never ran.            *)
LEMMA StartTracked ==
  ASSUME SimpleSettings, PInv, NEW s \in Services, Start(s), svc[s].state = "STOPPED"
  PROVE  Tracked(svc', proc', calls')
<1> DEFINE v == [svc EXCEPT ![s].on = TRUE, ![s].state = "STARTING",
                            ![s].expire = "on", ![s].start_cmd = 0,
                            ![s].begun = FALSE]
           r == [svc[s] EXCEPT !.on = TRUE, !.state = "STARTING",
                               !.expire = "on", !.start_cmd = 0,
                               !.begun = FALSE]
<1>1. /\ svc \in [Services -> SvcRecord] /\ Others(s, svc, proc, <<>>)
      /\ ServiceOK(s, svc, proc, <<>>) /\ ProcessOK(s, svc, proc) /\ calls = <<>>
  BY TrackedProperties DEF Start
<1>3. svc[s].child = NoPid
  BY <1>1 DEF ServiceOK, HandlerOK
<1>4. /\ r \in SvcRecord /\ r.state = "STARTING" /\ r.expire = "on" /\ r.child = NoPid
      /\ r.begun = FALSE /\ v = [svc EXCEPT ![s] = r]
  <2>1. r \in SvcRecord /\ v = [svc EXCEPT ![s] = r]
    BY <1>1 DEF SvcRecord, States
  <2>2. r.state = "STARTING" /\ r.expire = "on" /\ r.child = svc[s].child /\ r.begun = FALSE
    BY <1>1 DEF SvcRecord
  <2> QED BY <1>3, <2>1, <2>2
<1>5. v[s] = r /\ \A t \in Services \ {s} : v[t] = svc[t]
  BY <1>1, <1>4
<1> HIDE DEF v, r
<1>6. Others(s, v, proc, <<>>)
  BY <1>1, <1>4, UpdateOthers
<1>7. Vacant(s, v, proc, <<>>)
  BY <1>1, <1>3, <1>5, NoChildVacant, UpdateVacant
<1>8. CASE svc_spawn_start_cmd(s, v, proc, <<>>)
  BY <1>4, <1>5, <1>6, <1>7, <1>8, StartCmdTracked
<1>9. CASE Return(v, proc, <<>>)
  <2>1. ProcessOK(s, v, proc)
    BY <1>4, <1>5 DEF ProcessOK, SingleOK, Lively
  <2>2. Tracked(v, proc, <<>>)
    BY <1>7, <2>1, Done DEF Vacant
  <2> QED BY <1>9, <2>2 DEF Return
<1> QED BY <1>8, <1>9 DEF Start, svc_start, v

(* svc_stop(): no source to wait for.                                       *)
LEMMA StopTracked ==
  ASSUME SimpleSettings, PInv, NEW s \in Services, Stop(s)
  PROVE  Tracked(svc', proc', calls')
<1> DEFINE v == [svc EXCEPT ![s].on = FALSE, ![s].state = "STOPPING",
                            ![s].expire = "off", ![s].stop_cmd = -1,
                            ![s].begun = FALSE]
           r == [svc[s] EXCEPT !.on = FALSE, !.state = "STOPPING",
                               !.expire = "off", !.stop_cmd = -1,
                               !.begun = FALSE]
           w == [v EXCEPT ![s].armed = TRUE, ![s].begun = TRUE]
           x == [r EXCEPT !.armed = TRUE, !.begun = TRUE]
<1>1. /\ svc \in [Services -> SvcRecord] /\ Others(s, svc, proc, <<>>)
      /\ ServiceOK(s, svc, proc, <<>>) /\ ProcessOK(s, svc, proc) /\ calls = <<>>
  BY TrackedProperties DEF Stop
<1>2. r \in SvcRecord /\ r.state = "STOPPING" /\ r.expire = "off" /\ r.child = svc[s].child
  <2>1. r \in SvcRecord
    BY <1>1 DEF SvcRecord, States
  <2>2. r.state = "STOPPING" /\ r.expire = "off" /\ r.child = svc[s].child
    BY <1>1 DEF SvcRecord
  <2> QED BY <2>1, <2>2, Zenon
<1>3. /\ r \in SvcRecord /\ r.state = "STOPPING" /\ r.expire = "off" /\ r.child = svc[s].child
      /\ v = [svc EXCEPT ![s] = r]
      /\ x.state = "STOPPING" /\ x.expire = "off" /\ x.child = svc[s].child
      /\ x.armed
      /\ w = [svc EXCEPT ![s] = x]
  <2>1. v = [svc EXCEPT ![s] = r]
    BY <1>1 DEF SvcRecord
  <2>2. x.state = "STOPPING" /\ x.expire = "off" /\ x.child = svc[s].child /\ x.armed
    BY <1>1 DEF SvcRecord
  <2>3. w = [svc EXCEPT ![s] = x]
    BY <1>1 DEF SvcRecord
  <2> QED BY <1>2, <2>1, <2>2, <2>3, Zenon
<1>4. v[s] = r /\ w[s] = x /\ \A t \in Services \ {s} : v[t] = svc[t] /\ w[t] = svc[t]
  BY <1>1, <1>3
<1> HIDE DEF v, r, w, x
<1>5. svc_may_stop(s, v)
  BY DEF svc_may_stop, SimpleSettings
<1>6. CASE svc_kill_works(s, v) /\ Return(w, proc, <<>>)
  <2>1. svc[s].child # NoPid
    BY <1>3, <1>4, <1>6 DEF svc_kill_works
  <2>3. ProcessOK(s, w, proc)
    BY <1>3, <1>4, <2>1 DEF ProcessOK, SingleOK, Lively
  <2>4. CallsOK(w, <<>>)
    BY DEF CallsOK, ElementsOf
  <2>5. Tracked(w, proc, <<>>)
    BY <1>3, <1>4, <2>3, <2>4, Done DEF PInv, Tracked
  <2> QED BY <1>6, <2>5 DEF Return
<1>7. CASE ~svc_kill_works(s, v) /\ svc_spawn_stop_cmd(s, v, proc, <<>>)
  <2>1. svc[s].child = NoPid
    BY <1>1, <1>3, <1>4, <1>7 DEF svc_kill_works, ServiceOK, ChildOK
  <2>2. Vacant(s, v, proc, <<>>)
    BY <1>1, <1>4, <2>1, NoChildVacant, UpdateVacant
  <2>3. Others(s, v, proc, <<>>)
    BY <1>1, <1>3, UpdateOthers
  <2> QED BY <1>3, <1>4, <1>7, <2>2, <2>3, StopCmdTracked
<1> QED BY <1>5, <1>6, <1>7 DEF Stop, svc_stop, v, w

(* SVC_EXIT_EVT in `on' state.                                              *)
LEMMA OnEvtsTracked ==
  ASSUME SimpleSettings, PInv, NEW s \in Services, NEW p \in Pids, NEW status, calls = <<>>,
         svc[s].child = p, svc[s].on,
         svc_handle_on_evts(s, status, [proc EXCEPT ![p] = FreeSlot])
  PROVE  Tracked(svc', proc', calls')
<1> DEFINE q == [proc EXCEPT ![p] = FreeSlot]
           v1 == [svc EXCEPT ![s].start_cmd = @ + 1]
           r1 == [svc[s] EXCEPT !.start_cmd = @ + 1]
           v2 == [svc EXCEPT ![s].state = "STARTING"]
           r2 == [svc[s] EXCEPT !.state = "STARTING"]
           v3 == [svc EXCEPT ![s].child = NoPid]
           r3 == [svc[s] EXCEPT !.child = NoPid]
<1>1. /\ svc \in [Services -> SvcRecord]
      /\ ServiceOK(s, svc, proc, <<>>) /\ ProcessOK(s, svc, proc)
  BY TrackedProperties
<1>2. Others(s, svc, q, <<>>) /\ Vacant(s, svc, q, <<>>)
  BY ReapOthers, ReapedVacant DEF PInv, IInv
<1>3. svc[s].state \in {"STARTING", "READY"} /\ svc[s].expire = "on"
  BY <1>1 DEF ServiceOK, HandlerOK
<1>4. r1 \in SvcRecord /\ v1 = [svc EXCEPT ![s] = r1] /\ r1.state = svc[s].state /\ r1.expire = "on"
  <2>1. svc[s].start_cmd + 1 \in Nat
    BY <1>1 DEF SvcRecord
  <2> QED BY <1>1, <1>3, <2>1 DEF SvcRecord
<1>5. r2 \in SvcRecord /\ v2 = [svc EXCEPT ![s] = r2] /\ r2.state = "STARTING" /\ r2.expire = "on"
  BY <1>1, <1>3 DEF SvcRecord, States
<1>6. /\ v3 = [svc EXCEPT ![s] = r3] /\ r3.state = svc[s].state /\ r3.expire = "on"
      /\ r3.child = NoPid /\ r3.start_cmd = svc[s].start_cmd /\ r3.armed = svc[s].armed
  BY <1>1, <1>3 DEF SvcRecord
<1>7. /\ v1[s] = r1 /\ v2[s] = r2 /\ v3[s] = r3
      /\ \A t \in Services \ {s} : v1[t] = svc[t] /\ v2[t] = svc[t] /\ v3[t] = svc[t]
  BY <1>1, <1>4, <1>5, <1>6
<1> HIDE DEF q, v1, r1, v2, r2, v3, r3
<1>8. CASE svc[s].state = "STARTING" /\ svc_respawn(s, v1, q, <<>>)
  <2>1. Others(s, v1, q, <<>>) /\ Vacant(s, v1, q, <<>>)
    BY <1>2, <1>4, <1>7, UpdateOthers, UpdateVacant
  <2> QED BY <1>4, <1>7, <1>8, <2>1, StartCmdTracked DEF svc_respawn
<1>9. CASE svc[s].state = "STARTING" /\ svc_respawn(s, svc, q, <<>>)
  BY <1>2, <1>3, <1>9, StartCmdTracked DEF svc_respawn
<1>10. CASE svc_respawn(s, v2, q, <<>>)
  <2>1. Others(s, v2, q, <<>>) /\ Vacant(s, v2, q, <<>>)
    BY <1>2, <1>5, <1>7, UpdateOthers, UpdateVacant
  <2> QED BY <1>5, <1>7, <1>10, <2>1, StartCmdTracked DEF svc_respawn
<1>11. CASE svc[s].armed /\ Return(v3, q, <<>>)
  <2>1. Vacant(s, v3, q, <<>>)
    BY <1>2, <1>7, UpdateVacant
  <2>2. ProcessOK(s, v3, q)
    BY <1>1, <1>3, <1>6, <1>7, <1>11 DEF ProcessOK, SingleOK, Lively
  <2>3. Tracked(v3, q, <<>>)
    BY <2>1, <2>2, Done DEF Vacant
  <2> QED BY <1>11, <2>3 DEF Return
<1> QED BY <1>8, <1>9, <1>10, <1>11 DEF svc_handle_on_evts, q, v1, v2, v3

(* A zombie is always some service's child.                                 *)
LEMMA ReapTracked ==
  ASSUME SimpleSettings, PInv, NEW p \in Pids, Reap(p)
  PROVE  Tracked(svc', proc', calls')
<1> DEFINE q == [proc EXCEPT ![p] = FreeSlot]
<1>1. calls = <<>> /\ proc[p].st # "free"
  BY DEF Reap
<1>2. ASSUME NEW s \in Services, svc[s].child = p, svc_is_on(s),
             svc_handle_on_evts(s, proc[p].st, q)
      PROVE  Tracked(svc', proc', calls')
  BY <1>1, <1>2, OnEvtsTracked DEF svc_is_on
<1>3. ASSUME NEW s \in Services, svc[s].child = p, ~svc_is_on(s),
             svc_handle_off_evts(s, q)
      PROVE  Tracked(svc', proc', calls')
  <2>1. Others(s, svc, q, <<>>) /\ Vacant(s, svc, q, <<>>)
    BY <1>1, <1>3, ReapOthers, ReapedVacant DEF PInv, IInv
  <2>2. svc[s].state = "STOPPING" /\ svc[s].expire = "off"
    BY <1>3 DEF PInv, IInv, Good, ServiceOK, HandlerOK, svc_handle_off_evts
  <2> QED BY <1>3, <2>1, <2>2, StopCmdTracked DEF svc_handle_off_evts
<1>4. \E s \in Services : svc[s].child = p
  BY <1>1 DEF PInv, Tracked, Owned
<1> QED BY <1>2, <1>3, <1>4 DEF Reap

(* A timer expires: only a service without a process spawns one.            *)
LEMMA ExpireTracked ==
  ASSUME SimpleSettings, PInv, NEW s \in Services, Expire(s)
  PROVE  Tracked(svc', proc', calls')
<1> DEFINE v == [svc EXCEPT ![s].armed = FALSE]
           r == [svc[s] EXCEPT !.armed = FALSE]
<1>1. /\ svc \in [Services -> SvcRecord] /\ Others(s, svc, proc, <<>>)
      /\ proc \in [Pids -> ProcRecord]
      /\ ServiceOK(s, svc, proc, <<>>) /\ ProcessOK(s, svc, proc) /\ calls = <<>>
  BY TrackedProperties DEF Expire
<1>2. /\ r \in SvcRecord /\ v = [svc EXCEPT ![s] = r]
      /\ r.state = svc[s].state /\ r.expire = svc[s].expire /\ r.child = svc[s].child
      /\ r.start_cmd = svc[s].start_cmd /\ r.stop_cmd = svc[s].stop_cmd
  BY <1>1 DEF SvcRecord
<1>3. v[s] = r /\ \A t \in Services \ {s} : v[t] = svc[t]
  BY <1>1, <1>2
<1> HIDE DEF v, r
<1>4. Others(s, v, proc, <<>>)
  BY <1>1, <1>2, UpdateOthers
<1>5. SingleOK(s, v) /\ CallsOK(v, <<>>)
  BY <1>1, <1>2, <1>3 DEF ProcessOK, SingleOK, CallsOK, ElementsOf
<1>6. svc[s].child = NoPid => Vacant(s, v, proc, <<>>)
  BY <1>1, <1>3, NoChildVacant, UpdateVacant
<1>7. CASE /\ v[s].state \in {"READY", "STOPPED"} \/ (v[s].state = "STARTING" /\ v[s].child # NoPid)
           /\ Return(v, proc, <<>>)
  <2>1. ProcessOK(s, v, proc)
    BY <1>5, <1>7 DEF ProcessOK, Lively
  <2>2. Tracked(v, proc, <<>>)
    BY <1>2, <1>3, <1>5, <2>1, Done DEF PInv, Tracked
  <2> QED BY <1>7, <2>2 DEF Return
<1>8. CASE /\ v[s].state = "STARTING" /\ v[s].child = NoPid /\ svc[s].expire = "on"
           /\ svc_respawn(s, v, proc, <<>>)
  BY <1>2, <1>3, <1>4, <1>6, <1>8, StartCmdTracked DEF svc_respawn
<1>9. CASE /\ v[s].state = "STOPPING" /\ ~svc_kill_works(s, v) /\ svc[s].expire = "off"
           /\ svc_spawn_stop_cmd(s, v, proc, <<>>)
  <2>1. svc[s].child = NoPid
    BY <1>1, <1>2, <1>3, <1>9 DEF svc_kill_works, ServiceOK, ChildOK
  <2> QED BY <1>2, <1>3, <1>4, <1>6, <1>9, <2>1, StopCmdTracked
<1>10. CASE /\ v[s].state = "STOPPING" /\ svc_kill_works(s, v)
            /\ Return(v, [proc EXCEPT ![v[s].child].kill = TRUE], <<>>)
  <2> DEFINE k == v[s].child
             q == [proc EXCEPT ![v[s].child].kill = TRUE]
  <2>1. k \in Pids /\ k # NoPid /\ k = svc[s].child
    BY <1>1, <1>2, <1>3, <1>10, KernelAssumption DEF SvcRecord, svc_kill_works
  <2>2. /\ q[k].kill /\ \A p \in Pids : /\ q[p].st = proc[p].st /\ q[p].svc = proc[p].svc
                                        /\ q[p].job = proc[p].job
                                        /\ p # k => q[p] = proc[p]
    BY <1>1, <2>1 DEF ProcRecord
  <2> HIDE DEF q
  <2>3. \A p \in Pids : Owned(p, svc, q)
    BY <2>2 DEF PInv, Tracked, Owned
  <2>4. ASSUME NEW t \in Services \ {s}
        PROVE  ProcessOK(t, svc, q)
    <3>1. /\ ProcessOK(t, svc, proc) /\ ChildOK(t, svc, proc) /\ ChildOK(s, svc, proc)
          /\ svc[t].child \in Pids \cup {NoPid}
      BY <1>1 DEF PInv, Tracked, IInv, Good, ServiceOK, SvcRecord
    <3>2. svc[t].child # k
      BY <2>1, <3>1 DEF ChildOK
    <3>3. svc[t].child # NoPid => q[svc[t].child] = proc[svc[t].child]
      BY <2>2, <3>1, <3>2
    <3> QED BY <3>1, <3>3 DEF ProcessOK, SingleOK, Lively
  <2>5. ProcessOK(s, v, q)
    BY <1>5, <1>10, <2>1, <2>2 DEF ProcessOK, SingleOK, Lively
  <2>6. Tracked(v, q, <<>>)
    BY <1>2, <1>3, <1>5, <2>3, <2>4, <2>5, Done
  <2> QED BY <1>10, <2>6 DEF Return, q
<1> QED BY <1>1, <1>7, <1>8, <1>9, <1>10 DEF Expire, svc_expire_on, svc_expire_off, v

(* A process ends: its slot is kept.                                        *)
LEMMA ExitTracked ==
  ASSUME PInv, NEW p \in Pids, NEW status \in {"ok", "bad"}, Exit(p, status)
  PROVE  Tracked(svc', proc', calls')
<1>1. proc \in [Pids -> ProcRecord] /\ svc \in [Services -> SvcRecord] /\ UNCHANGED <<svc, calls>>
  BY DEF PInv, IInv, Good, Types, Exit
<1> DEFINE q == [proc EXCEPT ![p].st = status]
<1>2. /\ proc' = q /\ proc[p].st # "free"
      /\ \A k \in Pids : /\ q[k].svc = proc[k].svc /\ q[k].job = proc[k].job /\ q[k].kill = proc[k].kill
                        /\ q[k].st = IF k = p THEN status ELSE proc[k].st
  BY <1>1 DEF Exit, ProcRecord
<1> HIDE DEF q
<1>3. \A k \in Pids : Owned(k, svc, q)
  BY <1>2 DEF PInv, Tracked, Owned
<1>4. ASSUME NEW t \in Services
      PROVE  ProcessOK(t, svc, q)
  <2>1. ProcessOK(t, svc, proc) /\ svc[t].child \in Pids \cup {NoPid}
    BY <1>1 DEF PInv, Tracked, SvcRecord
  <2> QED BY <1>2, <2>1 DEF ProcessOK, SingleOK, Lively
<1>5. Tracked(svc, q, calls)
  BY <1>3, <1>4 DEF PInv, Tracked
<1> QED BY <1>1, <1>2, <1>5

(* A notification comes from a READY service: only a service that waits for *)
(* it, and has no process, goes on.                                         *)
LEMMA NotifyTracked ==
  ASSUME SimpleSettings, PInv, Notify
  PROVE  Tracked(svc', proc', calls')
<1> DEFINE s == Head(calls).sink
           src == Head(calls).src
           rest == Tail(calls)
<1>1. calls \in Seq(Call) /\ calls # <<>>
  BY DEF PInv, IInv, Good, Types, Notify
<1>2. /\ Head(calls) \in ElementsOf(calls) /\ ElementsOf(rest) \subseteq ElementsOf(calls)
      /\ rest \in Seq(Call)
  BY <1>1, TailSubset
<1>3. /\ s \in Services /\ src \in StartOn[s] /\ svc[src].state = "READY"
      /\ CallsOK(svc, rest)
  BY <1>2 DEF PInv, Tracked, CallsOK
<1>4. /\ svc_is_on(s) => svc_handle_on_notif(s, src, rest)
      /\ ~svc_is_on(s) => svc_handle_off_notif(s, src, rest)
  BY DEF Notify
<1>5. Others(s, svc, proc, rest)
  <2>1. Types(svc, proc, rest)
    BY <1>2 DEF PInv, IInv, Good, Types
  <2>2. ASSUME NEW t \in Services \ {s}
        PROVE  ServiceOK(t, svc, proc, rest)
    <3>1. ServiceOK(t, svc, proc, calls)
      BY DEF PInv, IInv, Good
    <3>2. \A e \in ElementsOf(calls) : e.sink = t => e \in ElementsOf(rest)
      BY <1>1, <2>2, TailElements
    <3>3. StartOK(t, svc, rest) /\ StopOK(t, svc, rest)
      BY <3>1, <3>2 DEF ServiceOK, StartOK, StopOK
    <3> QED BY <3>1, <3>3 DEF ServiceOK
  <2> QED BY <2>1, <2>2 DEF Others
<1> HIDE DEF s, src, rest
<1>6. Tracked(svc, proc, rest)
  BY <1>3 DEF PInv, Tracked
<1>7. CASE Return(svc, proc, rest)
  BY <1>6, <1>7 DEF Return
<1>8. CASE svc_is_on(s) /\ svc[s].state = "STARTING" /\ svc_spawn_start_cmd(s, svc, proc, rest)
  <2>1. svc[s].child = NoPid /\ svc[s].expire = "on"
    BY <1>3, <1>8 DEF PInv, Tracked, ProcessOK, SingleOK, IInv, Good, ServiceOK, HandlerOK, svc_is_on
  <2>2. Vacant(s, svc, proc, calls)
    BY <1>3, <2>1, NoChildVacant
  <2>3. Vacant(s, svc, proc, rest)
    BY <1>3, <2>2 DEF Vacant
  <2> QED BY <1>3, <1>5, <1>8, <2>1, <2>3, StartCmdTracked
<1> QED BY <1>3, <1>4, <1>7, <1>8 DEF svc_handle_on_notif, svc_handle_off_notif

-----------------------------------------------------------------------------
(* The theorems.                                                            *)

LEMMA InitTracked == SvcInit => PInv
<1> SUFFICES ASSUME SvcInit PROVE PInv
  OBVIOUS
<1>1. \A p \in Pids : Owned(p, svc, proc)
  BY DEF SvcInit, FreeSlot, Owned
<1>2. CallsOK(svc, calls)
  BY DEF SvcInit, CallsOK, ElementsOf
<1>3. \A t \in Services : ProcessOK(t, svc, proc)
  BY DEF SvcInit, svc_init, ProcessOK, SingleOK, Lively
<1> QED BY <1>1, <1>2, <1>3, InitGood DEF PInv, Tracked

LEMMA NextTracked == SimpleSettings /\ PInv /\ [NextFromStopped]_vars => PInv'
<1> SUFFICES ASSUME SimpleSettings, PInv, [NextFromStopped]_vars PROVE Tracked(svc', proc', calls')
  BY NextGood DEF NextFromStopped, SvcNext, PInv, Tracked, Owned, CallsOK, ProcessOK, SingleOK, Lively
<1>1. CASE Notify
  BY <1>1, NotifyTracked
<1>2. ASSUME NEW p \in Pids, NEW status \in {"ok", "bad"}, Exit(p, status)
      PROVE  Tracked(svc', proc', calls')
  BY <1>2, ExitTracked
<1>3. ASSUME NEW p \in Pids, Reap(p)
      PROVE  Tracked(svc', proc', calls')
  BY <1>3, ReapTracked
<1>4. ASSUME NEW s \in Services, Expire(s)
      PROVE  Tracked(svc', proc', calls')
  BY <1>4, ExpireTracked
<1>5. ASSUME NEW s \in Services, Start(s), svc[s].state = "STOPPED"
      PROVE  Tracked(svc', proc', calls')
  BY <1>5, StartTracked
<1>6. ASSUME NEW s \in Services, Stop(s)
      PROVE  Tracked(svc', proc', calls')
  BY <1>6, StopTracked
<1>7. CASE UNCHANGED vars
  BY <1>7 DEF vars, PInv
<1> QED BY <1>1, <1>2, <1>3, <1>4, <1>5, <1>6, <1>7 DEF NextFromStopped

(* A service that has never been started is STOPPED.                        *)
LEMMA StartsFromStopped ==
  ASSUME StartedStopped, svc \in [Services -> SvcRecord], [SvcNext]_vars,
         \A t \in Services : svc[t].expire = "none" => svc[t].state = "STOPPED"
  PROVE  [NextFromStopped]_vars
<1>1. ASSUME NEW s \in Services, Start(s)
      PROVE  svc[s].state = "STOPPED"
  BY <1>1 DEF Start, Phase, StartedStopped, SvcRecord, States
<1> QED BY <1>1 DEF SvcNext, NextFromStopped

LEMMA ProcessInvariant == SimpleSettings /\ StartedStopped => (SvcSpec => []PInv)
<1> SUFFICES ASSUME SimpleSettings, StartedStopped PROVE SvcSpec => []PInv
  OBVIOUS
<1>1. PInv /\ [SvcNext]_vars => [NextFromStopped]_vars
  BY StartsFromStopped DEF PInv, IInv, Good, Types, Tracked, ProcessOK, SingleOK
<1>2. PInv /\ [SvcNext]_vars => PInv'
  BY <1>1, NextTracked
<1> QED BY <1>2, InitTracked, PTL DEF SvcSpec

LEMMA TrackedNoOrphan == PInv => NoOrphan
BY DEF PInv, Tracked, Owned, NoOrphan

LEMMA TrackedNotStuck == SureFork /\ PInv => NothingStuck
<1>1. ASSUME SureFork, PInv, calls = <<>>, NEW s \in Services
      PROVE  /\ svc[s].state = "STARTING" =>
                  \/ svc[s].child # NoPid
                  \/ svc[s].armed
                  \/ ~svc[s].begun /\ ~SourcesReady(s)
             /\ svc[s].state = "STOPPING" =>
                  /\ svc[s].child # NoPid
                  /\ (svc[s].armed \/ proc[svc[s].child].kill
                         \/ proc[svc[s].child].st # "run")
  <2>1. Lively(s, svc, proc) /\ StartOK(s, svc, calls)
    BY <1>1 DEF PInv, Tracked, ProcessOK, IInv, Good, ServiceOK
  <2>2. svc[s].state = "STARTING" /\ ~svc[s].begun => ~SourcesReady(s)
    BY <1>1, <2>1 DEF StartOK, ElementsOf, SourcesReady
  <2> QED BY <2>1, <2>2 DEF Lively
<1> QED BY <1>1 DEF NothingStuck

(* With simple settings, and even if vfork() fails, every process tinit has *)
(* spawned and not waited for is the child of its service: nothing is left  *)
(* running behind it, and no daemon or command runs twice.                  *)
THEOREM ProcessesTracked ==
  SimpleSettings /\ StartedStopped => (SvcSpec => []NoOrphan)
<1> SUFFICES ASSUME SimpleSettings, StartedStopped PROVE SvcSpec => []NoOrphan
  OBVIOUS
<1> QED BY ProcessInvariant, TrackedNoOrphan, PTL

(* With simple settings, and while vfork() does not fail, a service that    *)
(* goes up or down always has a process, a timer or a source to wait for.   *)
THEOREM NothingHangs ==
  SimpleSettings /\ StartedStopped /\ SureFork => (SvcSpec => []NothingStuck)
<1> SUFFICES ASSUME SimpleSettings, StartedStopped, SureFork PROVE SvcSpec => []NothingStuck
  OBVIOUS
<1>1. PInv => NothingStuck
  BY TrackedNotStuck
<1> QED BY <1>1, ProcessInvariant, PTL

-----------------------------------------------------------------------------
(* The order of starting, whatever the stopon settings, the start commands  *)
(* and vfork() do.  A service that is started once only has no process and  *)
(* no timer of an earlier life while it waits.                              *)
Orderly(t, v) ==
  /\ v[t].expire = "none" => v[t].state = "STOPPED"
  /\ v[t].state = "STARTING" /\ ~v[t].begun => ~v[t].armed /\ v[t].child = NoPid
  /\ v[t].state = "READY" => v[t].begun

OInv == IInv /\ \A t \in Services : Orderly(t, svc)

(* A step is the work of a handler on s alone.                              *)
InOrder(s) ==
  /\ \A t \in Services \ {s} : svc'[t] = svc[t]
  /\ Orderly(s, svc')
  /\ BeginsStart(s) => \A src \in StartOn[s] : svc[src].state = "READY"

(* What a handler at work on s leaves of the services v: x.                 *)
Touched(s, v, x) ==
  /\ x \in [Services -> SvcRecord]
  /\ \A t \in Services \ {s} : x[t] = v[t]

LEMMA SpawnTouches ==
  ASSUME NEW s \in Services, NEW v \in [Services -> SvcRecord], NEW q, NEW job,
         NEW o \in svc_spawn(s, job, q)
  PROVE  /\ Touched(s, v, Spawned(s, v, o))
         /\ Spawned(s, v, o)[s].state = v[s].state
         /\ Spawned(s, v, o)[s].on = v[s].on
         /\ Spawned(s, v, o)[s].expire = v[s].expire
         /\ Spawned(s, v, o)[s].begun = v[s].begun
         /\ Spawned(s, v, o)[s].stop_cmd = v[s].stop_cmd
         /\ Spawned(s, v, o)[s].child = o.child
<1> DEFINE b == IF o.child = NoPid THEN v[s].armed ELSE TRUE
           y == [v[s] EXCEPT !.child = o.child, !.armed = b]
<1>1. v[s] \in SvcRecord /\ b \in BOOLEAN /\ o.child \in Pids \cup {NoPid}
  <2>1. o.child \in Pids \/ o.child = NoPid
    BY DEF svc_spawn, FreeSlots
  <2>2. v[s] \in SvcRecord
    OBVIOUS
  <2> QED BY <2>1, <2>2 DEF SvcRecord
<1>2. /\ y \in SvcRecord
      /\ y.state = v[s].state /\ y.on = v[s].on
      /\ y.expire = v[s].expire /\ y.begun = v[s].begun
      /\ y.stop_cmd = v[s].stop_cmd /\ y.child = o.child
  BY <1>1 DEF SvcRecord
<1>3. Spawned(s, v, o) = [v EXCEPT ![s] = y]
  BY <1>1 DEF Spawned, SvcRecord
<1> HIDE DEF y
<1> QED BY <1>2, <1>3 DEF Touched

(* Entering the start sequence marks it as begun.                           *)
LEMMA StartCmdTouches ==
  ASSUME NEW s \in Services, NEW v \in [Services -> SvcRecord], NEW q, NEW c,
         v[s].expire = "on",
         svc_spawn_start_cmd(s, v, q, c)
  PROVE  Touched(s, v, svc') /\ Orderly(s, svc')
<1> DEFINE w == [v EXCEPT ![s].begun = TRUE]
           x == [w EXCEPT ![s].child = NoPid]
           Begun(y) == Touched(s, v, y) /\ y[s].begun /\ y[s].expire = "on"
           wr == [v[s] EXCEPT !.begun = TRUE]
           xr == [wr EXCEPT !.child = NoPid]
<1>0. wr \in SvcRecord /\ wr.begun /\ wr.expire = "on" /\ w = [v EXCEPT ![s] = wr]
  BY DEF SvcRecord
<1>a. xr \in SvcRecord /\ xr.begun /\ xr.expire = "on" /\ x = [v EXCEPT ![s] = xr]
  BY DEF SvcRecord
<1>1. Begun(w) /\ Begun(x)
  <2> HIDE DEF wr, xr, w, x
  <2> QED BY <1>0, <1>a DEF Touched
<1>2. ASSUME NEW job, NEW o \in svc_spawn(s, job, q)
      PROVE  Begun(Spawned(s, w, o))
  <2>1. w \in [Services -> SvcRecord] /\ \A t \in Services \ {s} : w[t] = v[t]
    BY <1>1 DEF Touched
  <2> HIDE DEF w
  <2> QED BY <1>1, <2>1, SpawnTouches DEF Touched
<1>3. ASSUME NEW y, Begun(y)
      PROVE  Begun([y EXCEPT ![s].state = "READY"])
  BY <1>3 DEF SvcRecord, States, Touched
<1>4. Begun(svc')
  <2> HIDE DEF Begun
  <2>1. CASE \E o \in svc_spawn(s, "start", q) : Return(Spawned(s, w, o), o.proc, c)
    BY <1>2, <2>1 DEF Return
  <2>2. CASE \E o \in svc_spawn(s, "daemon", q) :
               \/ Return(Spawned(s, w, o), o.proc, c)
               \/ svc_mark_ready(s, Spawned(s, w, o), o.proc, c)
    BY <1>2, <1>3, <2>2 DEF Return, svc_mark_ready
  <2>3. CASE svc_mark_ready(s, x, q, c)
    BY <1>1, <1>3, <2>3 DEF Return, svc_mark_ready
  <2> QED BY <2>1, <2>2, <2>3 DEF svc_spawn_start_cmd
<1> QED BY <1>4 DEF Orderly

(* A service that goes down stays off.                                      *)
LEMMA StopCmdTouches ==
  ASSUME NEW s \in Services, NEW v \in [Services -> SvcRecord], NEW q, NEW c,
         v[s].state = "STOPPING", ~v[s].on, v[s].expire = "off",
         svc_spawn_stop_cmd(s, v, q, c)
  PROVE  Touched(s, v, svc') /\ Orderly(s, svc') /\ ~svc'[s].on
<1> DEFINE w == [v EXCEPT ![s].stop_cmd = @ + 1, ![s].begun = TRUE]
           x == [w EXCEPT ![s].child = NoPid, ![s].state = "STOPPED"]
           Off(y) == /\ Touched(s, v, y) /\ ~y[s].on /\ y[s].expire = "off"
                     /\ y[s].state \in {"STOPPING", "STOPPED"}
<1>1. Off(w)
  <2> DEFINE r == [v[s] EXCEPT !.stop_cmd = @ + 1, !.begun = TRUE]
  <2>1. v[s].stop_cmd \in Nat \cup {-1}
    BY DEF SvcRecord
  <2>2. v[s].stop_cmd + 1 \in Nat \cup {-1}
    BY <2>1
  <2>3. r \in SvcRecord /\ w = [v EXCEPT ![s] = r]
    BY <2>2 DEF SvcRecord
  <2>4. ~r.on /\ r.expire = "off" /\ r.state = "STOPPING"
    BY DEF SvcRecord
  <2> HIDE DEF r, w
  <2> QED BY <2>3, <2>4 DEF Touched
<1>2. Off(x)
  <2> HIDE DEF w
  <2>1. w \in [Services -> SvcRecord]
    BY <1>1 DEF Touched
  <2> DEFINE r == [w[s] EXCEPT !.child = NoPid, !.state = "STOPPED"]
  <2>2. r \in SvcRecord /\ r.on = w[s].on /\ r.expire = w[s].expire /\ r.state = "STOPPED"
    BY <2>1 DEF SvcRecord, States
  <2>3. x = [w EXCEPT ![s] = r]
    BY <2>1 DEF SvcRecord
  <2> HIDE DEF r, x
  <2> QED BY <1>1, <2>1, <2>2, <2>3 DEF Touched
<1>3. ASSUME NEW o \in svc_spawn(s, "stop", q)
      PROVE  Off(Spawned(s, w, o))
  <2>1. w \in [Services -> SvcRecord] /\ \A t \in Services \ {s} : w[t] = v[t]
    BY <1>1 DEF Touched
  <2> HIDE DEF w
  <2> QED BY <1>1, <2>1, SpawnTouches DEF Touched
<1>4. Off(svc')
  <2> HIDE DEF Off
  <2> QED BY <1>2, <1>3 DEF Return, svc_mark_stopped, svc_spawn_stop_cmd
<1> QED BY <1>4 DEF Orderly

-----------------------------------------------------------------------------
(* The steps.                                                               *)

LEMMA OffInOrder ==
  ASSUME NEW s \in Services, Touched(s, svc, svc'), Orderly(s, svc'), ~svc'[s].on
  PROVE  InOrder(s)
BY DEF InOrder, Touched, BeginsStart

LEMMA StartInOrder ==
  ASSUME OInv, NEW s \in Services, svc[s].expire = "none", svc_start(s)
  PROVE  InOrder(s)
<1> DEFINE r == [svc[s] EXCEPT !.on = TRUE, !.state = "STARTING", !.expire = "on",
                               !.start_cmd = 0, !.begun = FALSE]
           v == [svc EXCEPT ![s].on = TRUE, ![s].state = "STARTING", ![s].expire = "on",
                            ![s].start_cmd = 0, ![s].begun = FALSE]
<1>1. svc \in [Services -> SvcRecord] /\ HandlerOK(s, svc) /\ Orderly(s, svc)
  BY DEF OInv, IInv, Good, Types, ServiceOK
<1>3. svc[s].child = NoPid /\ ~svc[s].armed
  BY <1>1 DEF HandlerOK, Orderly
<1>4. r \in SvcRecord /\ v = [svc EXCEPT ![s] = r]
  BY <1>1 DEF SvcRecord, States
<1>5. r.state = "STARTING" /\ r.expire = "on" /\ ~r.begun /\ ~r.armed /\ r.child = NoPid
  BY <1>1, <1>3 DEF SvcRecord
<1>6. \/ svc_may_start(s, v) /\ svc_spawn_start_cmd(s, v, proc, <<>>)
      \/ Return(v, proc, <<>>)
  BY DEF svc_start
<1> HIDE DEF r, v
<1>7. Touched(s, svc, v) /\ v[s] = r
  BY <1>1, <1>4 DEF Touched
<1>8. CASE Return(v, proc, <<>>)
  BY <1>5, <1>7, <1>8 DEF Return, InOrder, Orderly, Touched, BeginsStart
<1>9. CASE svc_may_start(s, v) /\ svc_spawn_start_cmd(s, v, proc, <<>>)
  <2>1. Touched(s, v, svc') /\ Orderly(s, svc')
    BY <1>5, <1>7, <1>9, StartCmdTouches DEF Touched
  <2>2. \A src \in StartOn[s] : svc[src].state = "READY"
    <3>1. StartOn[s] \subseteq Services \ {s}
      BY GraphAssumption
    <3>2. \A src \in StartOn[s] : v[src].state = "READY"
      BY <1>9 DEF svc_may_start
    <3> QED BY <3>1, <3>2, <1>7 DEF Touched
  <2> QED BY <1>7, <2>1, <2>2 DEF InOrder, Touched
<1> QED BY <1>6, <1>8, <1>9

LEMMA StopInOrder ==
  ASSUME OInv, NEW s \in Services, Stop(s)
  PROVE  InOrder(s)
<1> DEFINE r == [svc[s] EXCEPT !.on = FALSE, !.state = "STOPPING", !.expire = "off",
                               !.stop_cmd = -1, !.begun = FALSE]
           x == [r EXCEPT !.armed = TRUE, !.begun = TRUE]
           v == [svc EXCEPT ![s].on = FALSE, ![s].state = "STOPPING", ![s].expire = "off",
                            ![s].stop_cmd = -1, ![s].begun = FALSE]
           w == [v EXCEPT ![s].armed = TRUE, ![s].begun = TRUE]
<1>1. svc \in [Services -> SvcRecord]
  BY DEF OInv, IInv, Good, Types
<1>2. r \in SvcRecord /\ v = [svc EXCEPT ![s] = r]
  BY <1>1 DEF SvcRecord, States
<1>3. x \in SvcRecord /\ w = [svc EXCEPT ![s] = x]
  BY <1>1, <1>2 DEF SvcRecord
<1>4. /\ r.state = "STOPPING" /\ r.expire = "off" /\ ~r.on
      /\ x.state = "STOPPING" /\ x.expire = "off" /\ ~x.on
  BY <1>1 DEF SvcRecord
<1>5. \/ Return(v, proc, <<>>)
      \/ Return(w, proc, <<>>)
      \/ svc_spawn_stop_cmd(s, v, proc, <<>>)
  BY DEF Stop, svc_stop
<1> HIDE DEF r, v, x, w
<1>6. Touched(s, svc, v) /\ v[s] = r /\ Touched(s, svc, w) /\ w[s] = x
  BY <1>1, <1>2, <1>3 DEF Touched
<1>7. CASE svc_spawn_stop_cmd(s, v, proc, <<>>)
  <2>1. Touched(s, v, svc') /\ Orderly(s, svc') /\ ~svc'[s].on
    BY <1>4, <1>6, <1>7, StopCmdTouches DEF Touched
  <2> QED BY <1>6, <2>1, OffInOrder DEF Touched
<1>8. CASE Return(v, proc, <<>>) \/ Return(w, proc, <<>>)
  BY <1>4, <1>6, <1>8, OffInOrder DEF Return, Orderly
<1> QED BY <1>5, <1>7, <1>8

(* The rest of the event loop: a service that runs its start sequence has   *)
(* begun it, since it had a process or a timer.                             *)
LEMMA BegunInOrder ==
  ASSUME NEW s \in Services, svc[s].begun, svc[s].on,
         Touched(s, svc, svc'), Orderly(s, svc')
  PROVE  InOrder(s)
BY DEF InOrder, Touched, BeginsStart

LEMMA ExpireInOrder ==
  ASSUME OInv, NEW s \in Services, Expire(s)
  PROVE  InOrder(s)
<1> DEFINE r == [svc[s] EXCEPT !.armed = FALSE]
           v == [svc EXCEPT ![s].armed = FALSE]
<1>1. svc \in [Services -> SvcRecord] /\ HandlerOK(s, svc) /\ Orderly(s, svc) /\ svc[s].armed
  BY DEF OInv, IInv, Good, Types, ServiceOK, Expire
<1>2. r \in SvcRecord /\ v = [svc EXCEPT ![s] = r]
  BY <1>1 DEF SvcRecord
<1>3. /\ r.state = svc[s].state /\ r.expire = svc[s].expire
      /\ r.on = svc[s].on /\ r.begun = svc[s].begun
  BY <1>1 DEF SvcRecord
<1>4. \/ svc[s].expire = "on" /\ svc_expire_on(s, v)
      \/ svc[s].expire = "off" /\ svc_expire_off(s, v)
  BY DEF Expire
<1> HIDE DEF r, v
<1>5. Touched(s, svc, v) /\ v[s] = r
  BY <1>1, <1>2 DEF Touched
<1>6. CASE svc[s].expire = "on" /\ svc_expire_on(s, v)
  <2>1. svc[s].on /\ svc[s].begun
    BY <1>1, <1>3, <1>5, <1>6 DEF HandlerOK, Orderly, svc_expire_on
  <2>2. CASE Return(v, proc, <<>>)
    BY <1>3, <1>5, <1>6, <2>1, <2>2, BegunInOrder DEF Return, Orderly
  <2>3. CASE svc_spawn_start_cmd(s, v, proc, <<>>)
    <3>1. Touched(s, v, svc') /\ Orderly(s, svc')
      BY <1>3, <1>5, <1>6, <2>3, StartCmdTouches DEF Touched
    <3> QED BY <1>5, <2>1, <3>1, BegunInOrder DEF Touched
  <2> QED BY <1>6, <2>2, <2>3 DEF svc_expire_on, svc_respawn
<1>7. CASE svc[s].expire = "off" /\ svc_expire_off(s, v)
  <2>1. ~svc[s].on /\ v[s].state \in {"STOPPED", "STOPPING"}
    BY <1>1, <1>7 DEF HandlerOK, svc_expire_off
  <2>2. CASE svc' = v
    BY <1>3, <1>5, <1>7, <2>1, <2>2, OffInOrder DEF Orderly
  <2>3. CASE v[s].state = "STOPPING" /\ svc_spawn_stop_cmd(s, v, proc, <<>>)
    <3>1. Touched(s, v, svc') /\ Orderly(s, svc') /\ ~svc'[s].on
      BY <1>3, <1>5, <1>7, <2>1, <2>3, StopCmdTouches DEF Touched
    <3> QED BY <1>5, <3>1, OffInOrder DEF Touched
  <2> QED BY <1>7, <2>2, <2>3 DEF svc_expire_off, Return
<1> QED BY <1>4, <1>6, <1>7

LEMMA ReapInOrder ==
  ASSUME OInv, NEW p \in Pids, Reap(p)
  PROVE  svc' = svc \/ \E s \in Services : InOrder(s)
<1> DEFINE q == [proc EXCEPT ![p] = FreeSlot]
<1>1. svc \in [Services -> SvcRecord] /\ NoPid \notin Pids
  BY KernelAssumption DEF OInv, IInv, Good, Types
<1>2. ASSUME NEW s \in Services, svc[s].child = p, svc_is_on(s),
             svc_handle_on_evts(s, proc[p].st, q)
      PROVE  InOrder(s)
  <2> DEFINE rc == [svc[s] EXCEPT !.start_cmd = @ + 1]
             rs == [svc[s] EXCEPT !.state = "STARTING"]
             rn == [svc[s] EXCEPT !.child = NoPid]
             vc == [svc EXCEPT ![s].start_cmd = @ + 1]
             vs == [svc EXCEPT ![s].state = "STARTING"]
             vn == [svc EXCEPT ![s].child = NoPid]
  <2>1. svc[s].expire = "on" /\ svc[s].on /\ svc[s].begun
    BY <1>1, <1>2 DEF OInv, IInv, Good, ServiceOK, HandlerOK, Orderly, svc_is_on
  <2>2. /\ rc \in SvcRecord /\ rs \in SvcRecord /\ rn \in SvcRecord
        /\ vc = [svc EXCEPT ![s] = rc] /\ vs = [svc EXCEPT ![s] = rs] /\ vn = [svc EXCEPT ![s] = rn]
    BY <1>1 DEF SvcRecord, States
  <2>3. rc.expire = "on" /\ rs.expire = "on" /\ rn.expire = "on" /\ rn.begun
    BY <1>1, <2>1 DEF SvcRecord
  <2>4. \/ \E v \in {vc, svc, vs} : svc_spawn_start_cmd(s, v, q, <<>>)
        \/ Return(vn, q, <<>>)
    BY <1>2 DEF svc_handle_on_evts, svc_respawn
  <2> HIDE DEF rc, rs, rn, vc, vs, vn, q
  <2>5. /\ \A v \in {vc, svc, vs, vn} : Touched(s, svc, v) /\ v[s].expire = "on"
        /\ vn[s].begun
    BY <1>1, <2>1, <2>2, <2>3 DEF Touched
  <2>6. ASSUME NEW v \in {vc, svc, vs}, svc_spawn_start_cmd(s, v, q, <<>>)
        PROVE  InOrder(s)
    <3>1. Touched(s, v, svc') /\ Orderly(s, svc')
      BY <2>5, <2>6, StartCmdTouches DEF Touched
    <3> QED BY <2>1, <2>5, <3>1, BegunInOrder DEF Touched
  <2>7. CASE Return(vn, q, <<>>)
    BY <2>1, <2>5, <2>7, BegunInOrder DEF Return, Orderly
  <2> QED BY <2>4, <2>6, <2>7
<1>3. ASSUME NEW s \in Services, ~svc_is_on(s), svc_handle_off_evts(s, q)
      PROVE  InOrder(s)
  <2>1. svc[s].state = "STOPPING" /\ svc[s].expire = "off" /\ ~svc[s].on
    BY <1>3 DEF OInv, IInv, Good, ServiceOK, HandlerOK, svc_is_on, svc_handle_off_evts
  <2>2. Touched(s, svc, svc') /\ Orderly(s, svc') /\ ~svc'[s].on
    BY <1>1, <1>3, <2>1, StopCmdTouches DEF svc_handle_off_evts
  <2> QED BY <2>2, OffInOrder
<1> QED BY <1>2, <1>3 DEF Reap, Return

LEMMA NotifyInOrder ==
  ASSUME OInv, Notify
  PROVE  \/ svc' = svc
         \/ \E s \in Services : InOrder(s) /\ svc[s].expire # "none"
<1> DEFINE s == Head(calls).sink
           src == Head(calls).src
           rest == Tail(calls)
<1>1. svc \in [Services -> SvcRecord] /\ s \in Services
  BY TailElements DEF OInv, IInv, Good, Types, Notify, Call
<1>2. HandlerOK(s, svc) /\ Orderly(s, svc)
  BY <1>1 DEF OInv, IInv, Good, ServiceOK
<1>3. \/ svc_is_on(s) /\ svc_handle_on_notif(s, src, rest)
      \/ ~svc_is_on(s) /\ svc_handle_off_notif(s, src, rest)
  BY DEF Notify
<1> HIDE DEF s, src, rest
<1>4. CASE /\ svc_is_on(s) /\ svc[s].state = "STARTING"
           /\ svc_may_start(s, svc) /\ svc_spawn_start_cmd(s, svc, proc, rest)
  <2>1. Touched(s, svc, svc') /\ Orderly(s, svc')
    BY <1>1, <1>2, <1>4, StartCmdTouches DEF HandlerOK, svc_is_on
  <2> QED BY <1>1, <1>2, <1>4, <2>1 DEF InOrder, Touched, svc_may_start, Orderly
<1>5. CASE /\ ~svc_is_on(s) /\ svc[s].state = "STOPPING"
           /\ svc_spawn_stop_cmd(s, svc, proc, rest)
  <2>1. Touched(s, svc, svc') /\ Orderly(s, svc') /\ ~svc'[s].on
    BY <1>1, <1>2, <1>5, StopCmdTouches DEF HandlerOK, svc_is_on
  <2> QED BY <1>1, <1>2, <1>5, <2>1, OffInOrder DEF Orderly
<1> QED BY <1>3, <1>4, <1>5 DEF svc_handle_on_notif, svc_handle_off_notif, Return

LEMMA NextInOrder ==
  ASSUME StartedOnce, OInv, [SvcNext]_vars
  PROVE  svc' = svc \/ \E s \in Services : InOrder(s)
<1>1. ASSUME NEW p \in Pids, NEW status \in {"ok", "bad"}, Exit(p, status)
      PROVE  svc' = svc
  BY <1>1 DEF Exit
<1>2. CASE UNCHANGED vars
  BY <1>2 DEF vars
<1>3. ASSUME NEW s \in Services, Start(s)
      PROVE  InOrder(s)
  <2>1. svc[s].expire = "none"
    BY <1>3 DEF Start, Phase, StartedOnce, OInv, IInv, Good, Types, SvcRecord, States
  <2> QED BY <1>3, <2>1, StartInOrder DEF Start
<1> QED BY <1>1, <1>2, <1>3, NotifyInOrder, ReapInOrder, ExpireInOrder, StopInOrder DEF SvcNext

LEMMA InitOrderly == SvcInit => OInv
BY InitGood DEF OInv, SvcInit, svc_init, Orderly

LEMMA NextOrderly == StartedOnce /\ OInv /\ [SvcNext]_vars => OInv'
<1> SUFFICES ASSUME StartedOnce, OInv, [SvcNext]_vars
             PROVE  \A t \in Services : Orderly(t, svc')
  BY NextGood DEF OInv, Orderly
<1> QED BY NextInOrder DEF OInv, InOrder, Orderly

LEMMA OrderedStep ==
  ASSUME svc' = svc \/ \E s \in Services : InOrder(s)
  PROVE  \A s \in Services : BeginsStart(s) => SourcesReady(s)'
<1> SUFFICES ASSUME NEW s \in Services, BeginsStart(s)
             PROVE  \A src \in StartOn[s] : svc'[src].state = "READY"
  BY DEF SourcesReady
<1>1. svc'[s] # svc[s]
  BY DEF BeginsStart
<1>2. InOrder(s)
  BY <1>1 DEF InOrder
<1>3. StartOn[s] \subseteq Services \ {s}
  BY GraphAssumption
<1> QED BY <1>2, <1>3 DEF InOrder

(* A service that is started once runs no command before all those of its   *)
(* starton setting are READY: svc_start() and svc_handle_on_notif() poll    *)
(* every source, and an exit or a timer finds a start sequence that has     *)
(* begun.                                                                   *)
THEOREM StartsInOrder == StartedOnce => (SvcSpec => StartOrder)
<1> SUFFICES ASSUME StartedOnce PROVE SvcSpec => StartOrder
  OBVIOUS
<1>1. OInv /\ [SvcNext]_vars => OInv'
  BY NextOrderly
<1>2. OInv /\ [SvcNext]_vars =>
        [\A s \in Services : BeginsStart(s) => SourcesReady(s)']_vars
  BY NextInOrder, OrderedStep
<1> QED BY <1>1, <1>2, InitOrderly, PTL DEF SvcSpec, StartOrder

-----------------------------------------------------------------------------
(* Exits are those of the processes the handlers take them for, whatever    *)
(* the graphs, the sequences and vfork() do, unless a service is started    *)
(* again while it is STOPPING: what it leaves running is a stop command or  *)
(* a process that was told to go.                                           *)
Expected(t, v, q) ==
  /\ v[t].child # NoPid =>
       /\ v[t].state = "STARTING" => q[v[t].child].job = "start"
       /\ v[t].state = "READY" => q[v[t].child].job = "daemon"
       /\ v[t].state = "STOPPING" => (q[v[t].child].job = "stop" <=> v[t].stop_cmd >= 0)
  /\ v[t].expire = "none" => v[t].state = "STOPPED"

EInv == IInv /\ \A t \in Services : Expected(t, svc, proc)

(* What holds of the others while a handler is at work on s.                *)
OthersExpected(s, v, q) ==
  /\ q \in [Pids -> ProcRecord]
  /\ \A t \in Services \ {s} : ChildOK(t, v, q) /\ Expected(t, v, q)

LEMMA TouchedExpected ==
  ASSUME NEW s \in Services, NEW v, NEW w, NEW q, Touched(s, v, w), OthersExpected(s, v, q)
  PROVE  OthersExpected(s, w, q)
BY DEF Touched, OthersExpected, ChildOK, Expected

LEMMA AllExpected ==
  ASSUME NEW s \in Services, NEW v, NEW q, OthersExpected(s, v, q), Expected(s, v, q)
  PROVE  \A t \in Services : Expected(t, v, q)
BY DEF OthersExpected

LEMMA ForkExpected ==
  ASSUME NEW s \in Services, NEW v \in [Services -> SvcRecord], NEW q, NEW job \in Jobs,
         OthersExpected(s, v, q), NEW o \in svc_spawn(s, job, q)
  PROVE  /\ OthersExpected(s, Spawned(s, v, o), o.proc)
         /\ o.child # NoPid => o.proc[o.child].job = job
<1>1. CASE o.child = NoPid /\ o.proc = q
  BY <1>1, SpawnTouches, TouchedExpected
<1>2. ASSUME NEW p \in Pids, q[p].st = "free", o.child = p,
             o.proc = [q EXCEPT ![p] = Fork(s, job)]
      PROVE  /\ OthersExpected(s, Spawned(s, v, o), o.proc)
             /\ o.proc[o.child].job = job
  <2>1. q \in [Pids -> ProcRecord] /\ Fork(s, job) \in ProcRecord
    BY <1>2 DEF OthersExpected, Fork, ProcRecord
  <2>2. o.proc \in [Pids -> ProcRecord] /\ o.proc[p] = Fork(s, job)
    BY <1>2, <2>1
  <2>3. \A r \in Pids \ {p} : o.proc[r] = q[r]
    BY <1>2, <2>1
  <2>4. ASSUME NEW t \in Services \ {s}
        PROVE  ChildOK(t, v, o.proc) /\ Expected(t, v, o.proc)
    <3>1. ChildOK(t, v, q) /\ Expected(t, v, q) /\ v[t].child \in Pids \cup {NoPid}
      BY DEF OthersExpected, SvcRecord
    <3>2. v[t].child # NoPid => o.proc[v[t].child] = q[v[t].child]
      BY <1>2, <2>3, <3>1 DEF ChildOK
    <3> QED BY <3>1, <3>2 DEF ChildOK, Expected
  <2>5. OthersExpected(s, v, o.proc)
    BY <2>2, <2>4 DEF OthersExpected
  <2> QED BY <1>2, <2>2, <2>5, SpawnTouches, TouchedExpected DEF Fork
<1> QED BY <1>1, <1>2 DEF svc_spawn, FreeSlots

LEMMA StartCmdExpected ==
  ASSUME NEW s \in Services, NEW v \in [Services -> SvcRecord], NEW q, NEW c,
         OthersExpected(s, v, q), v[s].state = "STARTING", v[s].expire = "on",
         svc_spawn_start_cmd(s, v, q, c)
  PROVE  \A t \in Services : Expected(t, svc', proc')
<1> DEFINE w == [v EXCEPT ![s].begun = TRUE]
           x == [w EXCEPT ![s].child = NoPid]
           Ready(y) == [y EXCEPT ![s].state = "READY"]
           Going(y) == Touched(s, v, y) /\ y[s].expire = "on"
           wr == [v[s] EXCEPT !.begun = TRUE]
           xr == [wr EXCEPT !.child = NoPid]
<1>0. /\ wr \in SvcRecord /\ wr.state = "STARTING" /\ wr.expire = "on"
      /\ w = [v EXCEPT ![s] = wr]
  BY DEF SvcRecord
<1>a. xr \in SvcRecord /\ xr.child = NoPid /\ xr.expire = "on" /\ x = [v EXCEPT ![s] = xr]
  BY DEF SvcRecord
<1>1. /\ Going(w) /\ w[s].state = "STARTING"
      /\ Going(x) /\ x[s].child = NoPid
  <2> HIDE DEF wr, xr, w, x
  <2> QED BY <1>0, <1>a DEF Touched
<1>2. ASSUME NEW job \in Jobs, NEW o \in svc_spawn(s, job, q)
      PROVE  /\ Going(Spawned(s, w, o)) /\ OthersExpected(s, Spawned(s, w, o), o.proc)
             /\ Spawned(s, w, o)[s].state = "STARTING"
             /\ Spawned(s, w, o)[s].child = o.child
             /\ o.child # NoPid => o.proc[o.child].job = job
  <2>1. w \in [Services -> SvcRecord] /\ \A t \in Services \ {s} : w[t] = v[t]
    BY <1>1 DEF Touched
  <2> HIDE DEF w
  <2>2. OthersExpected(s, w, q)
    BY <1>1, TouchedExpected
  <2> QED BY <1>1, <2>1, <2>2, SpawnTouches, ForkExpected DEF Touched
<1>3. ASSUME NEW y, Going(y)
      PROVE  Going(Ready(y)) /\ Ready(y)[s].state = "READY" /\ Ready(y)[s].child = y[s].child
  BY <1>3 DEF SvcRecord, States, Touched
<1> HIDE DEF w, x, Ready
<1>4. ASSUME NEW y, NEW r, Going(y), OthersExpected(s, y, r)
      PROVE  OthersExpected(s, Ready(y), r)
  <2>1. Touched(s, y, Ready(y))
    BY <1>3, <1>4 DEF Touched
  <2> QED BY <1>4, <2>1, TouchedExpected
<1> HIDE DEF Going
<1>5. ASSUME NEW o \in svc_spawn(s, "start", q), Return(Spawned(s, w, o), o.proc, c)
      PROVE  \A t \in Services : Expected(t, svc', proc')
  <2>1. Expected(s, Spawned(s, w, o), o.proc)
    BY <1>2, <1>5 DEF Jobs, Expected, Going
  <2> QED BY <1>2, <1>5, <2>1, AllExpected DEF Jobs, Return
<1>6. ASSUME NEW o \in svc_spawn(s, "daemon", q), o.child = NoPid,
             Return(Spawned(s, w, o), o.proc, c)
      PROVE  \A t \in Services : Expected(t, svc', proc')
  <2>1. Expected(s, Spawned(s, w, o), o.proc)
    BY <1>2, <1>6 DEF Jobs, Expected, Going
  <2> QED BY <1>2, <1>6, <2>1, AllExpected DEF Jobs, Return
<1>7. ASSUME NEW o \in svc_spawn(s, "daemon", q), svc_mark_ready(s, Spawned(s, w, o), o.proc, c)
      PROVE  \A t \in Services : Expected(t, svc', proc')
  <2>1. PICK y : y = Spawned(s, w, o)
    OBVIOUS
  <2>2. /\ Going(y) /\ OthersExpected(s, y, o.proc) /\ y[s].child = o.child
        /\ o.child # NoPid => o.proc[o.child].job = "daemon"
    BY <1>2, <2>1 DEF Jobs
  <2>3. OthersExpected(s, Ready(y), o.proc) /\ Going(Ready(y))
    BY <1>3, <1>4, <2>2
  <2>4. Expected(s, Ready(y), o.proc)
    BY <1>3, <2>2, <2>3 DEF Expected, Going
  <2> QED BY <1>7, <2>1, <2>3, <2>4, AllExpected DEF svc_mark_ready, Return, Ready
<1>8. CASE svc_mark_ready(s, x, q, c)
  <2>1. OthersExpected(s, x, q)
    BY <1>1, TouchedExpected DEF Going
  <2>2. OthersExpected(s, Ready(x), q) /\ Going(Ready(x))
    BY <1>1, <1>3, <1>4, <2>1
  <2>3. Expected(s, Ready(x), q)
    BY <1>1, <1>3, <2>2 DEF Expected, Going
  <2> QED BY <1>8, <2>2, <2>3, AllExpected DEF svc_mark_ready, Return, Ready
<1> QED BY <1>5, <1>6, <1>7, <1>8 DEF svc_spawn_start_cmd, w, x

LEMMA StopCmdExpected ==
  ASSUME NEW s \in Services, NEW v \in [Services -> SvcRecord], NEW q, NEW c,
         OthersExpected(s, v, q), v[s].state = "STOPPING", v[s].expire = "off",
         svc_spawn_stop_cmd(s, v, q, c)
  PROVE  \A t \in Services : Expected(t, svc', proc')
<1> DEFINE r == [v[s] EXCEPT !.stop_cmd = @ + 1, !.begun = TRUE]
           w == [v EXCEPT ![s].stop_cmd = @ + 1, ![s].begun = TRUE]
           x == [w EXCEPT ![s].child = NoPid, ![s].state = "STOPPED"]
<1>1. v[s].stop_cmd \in Nat \cup {-1}
  BY DEF SvcRecord
<1>2. v[s].stop_cmd + 1 \in Nat \cup {-1} /\ v[s].stop_cmd + 1 >= 0
  BY <1>1
<1>3. r \in SvcRecord /\ w = [v EXCEPT ![s] = r]
  BY <1>2 DEF SvcRecord
<1>4. r.state = "STOPPING" /\ r.expire = "off" /\ r.stop_cmd = v[s].stop_cmd + 1
  BY DEF SvcRecord
<1> HIDE DEF r, w
<1>5. /\ w \in [Services -> SvcRecord] /\ OthersExpected(s, w, q)
      /\ w[s].state = "STOPPING" /\ w[s].expire = "off" /\ w[s].stop_cmd >= 0
  <2>1. Touched(s, v, w) /\ w[s] = r
    BY <1>3 DEF Touched
  <2> QED BY <1>2, <1>4, <2>1, TouchedExpected DEF Touched
<1>6. ASSUME NEW o \in svc_spawn(s, "stop", q), Return(Spawned(s, w, o), o.proc, c)
      PROVE  \A t \in Services : Expected(t, svc', proc')
  <2>1. PICK y : y = Spawned(s, w, o)
    OBVIOUS
  <2>4. o.child # NoPid => o.proc[o.child].job = "stop"
    BY <1>5, <2>1, SpawnTouches, ForkExpected DEF Jobs
  <2>5. OthersExpected(s, y, o.proc)
    BY <1>5, <2>1, SpawnTouches, ForkExpected DEF Jobs
  <2>6. /\ y[s].child = o.child
        /\ y[s].state = "STOPPING" /\ y[s].expire = "off" /\ y[s].stop_cmd >= 0
    BY <1>5, <2>1, SpawnTouches
  <2>2. /\ OthersExpected(s, y, o.proc) /\ y[s].child = o.child
        /\ o.child # NoPid => o.proc[o.child].job = "stop"
        /\ y[s].state = "STOPPING" /\ y[s].expire = "off" /\ y[s].stop_cmd >= 0
    BY <2>4, <2>5, <2>6, Zenon
  <2>3. Expected(s, y, o.proc)
    BY <2>2 DEF Expected
  <2> QED BY <1>6, <2>1, <2>2, <2>3, AllExpected DEF Return
<1>7. CASE svc_mark_stopped(s, w, q, c)
  <2> DEFINE rx == [w[s] EXCEPT !.child = NoPid, !.state = "STOPPED"]
  <2>a. rx \in SvcRecord /\ rx.child = NoPid /\ rx.state = "STOPPED"
    <3>1. PICK y \in SvcRecord : y = w[s]
      BY <1>5
    <3>2. /\ [y EXCEPT !.child = NoPid, !.state = "STOPPED"] \in SvcRecord
          /\ [y EXCEPT !.child = NoPid, !.state = "STOPPED"].child = NoPid
          /\ [y EXCEPT !.child = NoPid, !.state = "STOPPED"].state = "STOPPED"
      BY DEF SvcRecord, States
    <3> QED BY <3>1, <3>2, Zenon
  <2>b. x = [w EXCEPT ![s] = rx]
    BY <1>5 DEF SvcRecord
  <2>1. rx \in SvcRecord /\ rx.child = NoPid /\ rx.state = "STOPPED" /\ x = [w EXCEPT ![s] = rx]
    BY <2>a, <2>b, Zenon
  <2> HIDE DEF rx, x
  <2>2. Touched(s, w, x) /\ x[s] = rx
    BY <1>5, <2>1 DEF Touched
  <2>3. OthersExpected(s, x, q) /\ Expected(s, x, q)
    BY <1>5, <2>1, <2>2, TouchedExpected DEF Expected
  <2> QED BY <1>7, <2>3, AllExpected DEF svc_mark_stopped, Return, x
<1> QED BY <1>6, <1>7 DEF svc_spawn_stop_cmd, w

LEMMA EInvProperties ==
  ASSUME EInv
  PROVE  /\ svc \in [Services -> SvcRecord] /\ proc \in [Pids -> ProcRecord]
         /\ \A s \in Services : /\ HandlerOK(s, svc) /\ ChildOK(s, svc, proc)
                                /\ Expected(s, svc, proc)
         /\ \A s \in Services : OthersExpected(s, svc, proc)
BY DEF EInv, IInv, Good, Types, ServiceOK, OthersExpected

LEMMA StartExpected ==
  ASSUME EInv, NEW s \in Services, Start(s), svc[s].state = "STOPPED"
  PROVE  \A t \in Services : Expected(t, svc', proc')
<1> DEFINE r == [svc[s] EXCEPT !.on = TRUE, !.state = "STARTING", !.expire = "on",
                               !.start_cmd = 0, !.begun = FALSE]
           v == [svc EXCEPT ![s].on = TRUE, ![s].state = "STARTING", ![s].expire = "on",
                            ![s].start_cmd = 0, ![s].begun = FALSE]
<1>1. /\ svc \in [Services -> SvcRecord] /\ HandlerOK(s, svc)
      /\ Expected(s, svc, proc) /\ OthersExpected(s, svc, proc)
  BY EInvProperties
<1>3. svc[s].child = NoPid
  BY <1>1 DEF HandlerOK
<1>4. r \in SvcRecord /\ v = [svc EXCEPT ![s] = r]
  BY <1>1 DEF SvcRecord, States
<1>5. r.state = "STARTING" /\ r.expire = "on" /\ r.child = NoPid
  BY <1>1, <1>3 DEF SvcRecord
<1>6. Return(v, proc, <<>>) \/ svc_spawn_start_cmd(s, v, proc, <<>>)
  BY DEF Start, svc_start
<1> HIDE DEF r, v
<1>7. Touched(s, svc, v) /\ v[s] = r
  BY <1>1, <1>4 DEF Touched
<1>8. OthersExpected(s, v, proc) /\ Expected(s, v, proc)
  BY <1>1, <1>5, <1>7, TouchedExpected DEF Expected
<1>9. CASE Return(v, proc, <<>>)
  BY <1>8, <1>9, AllExpected DEF Return
<1>10. CASE svc_spawn_start_cmd(s, v, proc, <<>>)
  BY <1>5, <1>7, <1>8, <1>10, StartCmdExpected DEF Touched
<1> QED BY <1>6, <1>9, <1>10

LEMMA StopExpected ==
  ASSUME EInv, NEW s \in Services, Stop(s)
  PROVE  \A t \in Services : Expected(t, svc', proc')
<1> DEFINE r == [svc[s] EXCEPT !.on = FALSE, !.state = "STOPPING", !.expire = "off",
                               !.stop_cmd = -1, !.begun = FALSE]
           x == [r EXCEPT !.armed = TRUE, !.begun = TRUE]
           v == [svc EXCEPT ![s].on = FALSE, ![s].state = "STOPPING", ![s].expire = "off",
                            ![s].stop_cmd = -1, ![s].begun = FALSE]
           w == [v EXCEPT ![s].armed = TRUE, ![s].begun = TRUE]
<1>1. /\ svc \in [Services -> SvcRecord] /\ HandlerOK(s, svc)
      /\ Expected(s, svc, proc) /\ OthersExpected(s, svc, proc)
  BY EInvProperties
<1>2. svc[s].state \in {"STARTING", "READY"}
  BY <1>1 DEF Stop, SvcRecord, States
<1>3. svc[s].child # NoPid => proc[svc[s].child].job # "stop"
  BY <1>1, <1>2 DEF Expected
<1>4. r \in SvcRecord /\ v = [svc EXCEPT ![s] = r]
  BY <1>1 DEF SvcRecord, States
<1>5. x \in SvcRecord /\ w = [svc EXCEPT ![s] = x]
  BY <1>1, <1>4 DEF SvcRecord
<1>6. /\ r.state = "STOPPING" /\ r.expire = "off" /\ r.stop_cmd = -1 /\ r.child = svc[s].child
      /\ x.state = "STOPPING" /\ x.expire = "off" /\ x.stop_cmd = -1 /\ x.child = svc[s].child
  BY <1>1 DEF SvcRecord
<1>7. \/ Return(v, proc, <<>>)
      \/ Return(w, proc, <<>>)
      \/ svc_spawn_stop_cmd(s, v, proc, <<>>)
  BY DEF Stop, svc_stop
<1> HIDE DEF r, v, x, w
<1>8. Touched(s, svc, v) /\ v[s] = r /\ Touched(s, svc, w) /\ w[s] = x
  BY <1>1, <1>4, <1>5 DEF Touched
<1>9. /\ OthersExpected(s, v, proc) /\ Expected(s, v, proc)
      /\ OthersExpected(s, w, proc) /\ Expected(s, w, proc)
  BY <1>1, <1>3, <1>6, <1>8, TouchedExpected DEF Expected
<1>10. CASE Return(v, proc, <<>>) \/ Return(w, proc, <<>>)
  BY <1>9, <1>10, AllExpected DEF Return
<1>11. CASE svc_spawn_stop_cmd(s, v, proc, <<>>)
  BY <1>6, <1>8, <1>9, <1>11, StopCmdExpected DEF Touched
<1> QED BY <1>7, <1>10, <1>11

LEMMA ExpireExpected ==
  ASSUME EInv, NEW s \in Services, Expire(s)
  PROVE  \A t \in Services : Expected(t, svc', proc')
<1> DEFINE r == [svc[s] EXCEPT !.armed = FALSE]
           v == [svc EXCEPT ![s].armed = FALSE]
           q == [proc EXCEPT ![v[s].child].kill = TRUE]
<1>1. /\ svc \in [Services -> SvcRecord] /\ proc \in [Pids -> ProcRecord]
      /\ Expected(s, svc, proc) /\ OthersExpected(s, svc, proc)
  BY EInvProperties
<1>2. r \in SvcRecord /\ v = [svc EXCEPT ![s] = r]
  BY <1>1 DEF SvcRecord
<1>3. /\ r.state = svc[s].state /\ r.expire = svc[s].expire
      /\ r.child = svc[s].child /\ r.stop_cmd = svc[s].stop_cmd
  BY <1>1 DEF SvcRecord
<1>4. \/ Return(v, proc, <<>>)
      \/ Return(v, q, <<>>)
      \/ svc[s].expire = "on" /\ v[s].state = "STARTING" /\ svc_spawn_start_cmd(s, v, proc, <<>>)
      \/ svc[s].expire = "off" /\ v[s].state = "STOPPING" /\ svc_spawn_stop_cmd(s, v, proc, <<>>)
  BY DEF Expire, svc_expire_on, svc_expire_off, svc_respawn
<1> HIDE DEF r, v
<1>5. Touched(s, svc, v) /\ v[s] = r
  BY <1>1, <1>2 DEF Touched
<1>6. OthersExpected(s, v, proc) /\ Expected(s, v, proc)
  BY <1>1, <1>3, <1>5, TouchedExpected DEF Expected
<1>7. CASE Return(v, proc, <<>>)
  BY <1>6, <1>7, AllExpected DEF Return
<1>8. CASE Return(v, q, <<>>)
  <2>1. \A p \in Pids : q[p].job = proc[p].job
    BY <1>1 DEF ProcRecord
  <2>2. ASSUME NEW t \in Services
        PROVE  Expected(t, v, q)
    <3>1. Expected(t, v, proc) /\ v[t].child \in Pids \cup {NoPid}
      BY <1>5, <1>6, AllExpected DEF Touched, SvcRecord
    <3> HIDE DEF q
    <3> QED BY <2>1, <3>1 DEF Expected
  <2> QED BY <1>8, <2>2 DEF Return
<1>9. CASE svc[s].expire = "on" /\ v[s].state = "STARTING" /\ svc_spawn_start_cmd(s, v, proc, <<>>)
  BY <1>3, <1>5, <1>6, <1>9, StartCmdExpected DEF Touched
<1>10. CASE svc[s].expire = "off" /\ v[s].state = "STOPPING" /\ svc_spawn_stop_cmd(s, v, proc, <<>>)
  BY <1>3, <1>5, <1>6, <1>10, StopCmdExpected DEF Touched
<1> QED BY <1>4, <1>7, <1>8, <1>9, <1>10

LEMMA ReapExpected ==
  ASSUME EInv, NEW p \in Pids, Reap(p)
  PROVE  \A t \in Services : Expected(t, svc', proc')
<1> DEFINE q == [proc EXCEPT ![p] = FreeSlot]
<1>1. /\ svc \in [Services -> SvcRecord] /\ proc \in [Pids -> ProcRecord]
      /\ \A s \in Services : /\ HandlerOK(s, svc) /\ ChildOK(s, svc, proc)
                             /\ Expected(s, svc, proc)
  BY EInvProperties
<1>2. q \in [Pids -> ProcRecord] /\ \A r \in Pids \ {p} : q[r] = proc[r]
  BY <1>1 DEF FreeSlot, ProcRecord
<1> HIDE DEF q
<1>3. ASSUME NEW t \in Services, svc[t].child # p
      PROVE  ChildOK(t, svc, q) /\ Expected(t, svc, q)
  <2>1. svc[t].child # NoPid => q[svc[t].child] = proc[svc[t].child]
    BY <1>1, <1>2, <1>3 DEF SvcRecord
  <2> QED BY <1>1, <2>1 DEF ChildOK, Expected
<1>4. ASSUME NEW s \in Services, svc[s].child = p
      PROVE  OthersExpected(s, svc, q) /\ svc[s].child # NoPid
  <2>1. svc[s].child # NoPid /\ proc[p].svc = s
    BY <1>1, <1>4, KernelAssumption DEF ChildOK
  <2>2. \A t \in Services \ {s} : svc[t].child # p
    BY <1>1, <2>1, KernelAssumption DEF ChildOK
  <2> QED BY <1>2, <1>3, <2>1, <2>2 DEF OthersExpected
<1>5. ASSUME NEW s \in Services, svc[s].child = p, svc_is_on(s),
             svc_handle_on_evts(s, proc[p].st, q)
      PROVE  \A t \in Services : Expected(t, svc', proc')
  <2> DEFINE rc == [svc[s] EXCEPT !.start_cmd = @ + 1]
             rs == [svc[s] EXCEPT !.state = "STARTING"]
             rn == [svc[s] EXCEPT !.child = NoPid]
             vc == [svc EXCEPT ![s].start_cmd = @ + 1]
             vs == [svc EXCEPT ![s].state = "STARTING"]
             vn == [svc EXCEPT ![s].child = NoPid]
  <2>1. svc[s].expire = "on"
    BY <1>1, <1>5 DEF HandlerOK, svc_is_on
  <2>2. /\ rc \in SvcRecord /\ rs \in SvcRecord /\ rn \in SvcRecord
        /\ vc = [svc EXCEPT ![s] = rc] /\ vs = [svc EXCEPT ![s] = rs] /\ vn = [svc EXCEPT ![s] = rn]
    BY <1>1 DEF SvcRecord, States
  <2>3. /\ rc.expire = "on" /\ rc.state = svc[s].state
        /\ rs.expire = "on" /\ rs.state = "STARTING"
        /\ rn.expire = "on" /\ rn.child = NoPid
    BY <1>1, <2>1 DEF SvcRecord
  <2>4. \/ \E v \in {vc, svc, vs} : v[s].state = "STARTING" /\ svc_spawn_start_cmd(s, v, q, <<>>)
        \/ Return(vn, q, <<>>)
    <3>1. vs[s].state = "STARTING"
      BY <1>1 DEF SvcRecord
    <3>2. svc[s].state = "STARTING" => vc[s].state = "STARTING"
      BY <1>1 DEF SvcRecord
    <3> QED BY <1>5, <3>1, <3>2 DEF svc_handle_on_evts, svc_respawn
  <2> HIDE DEF rc, rs, rn, vc, vs, vn
  <2>5. \A v \in {vc, svc, vs, vn} : Touched(s, svc, v) /\ v[s].expire = "on"
    BY <1>1, <2>1, <2>2, <2>3 DEF Touched
  <2>6. \A v \in {vc, svc, vs, vn} : OthersExpected(s, v, q)
    BY <1>4, <1>5, <2>5, TouchedExpected
  <2>7. ASSUME NEW v \in {vc, svc, vs}, v[s].state = "STARTING", svc_spawn_start_cmd(s, v, q, <<>>)
        PROVE  \A t \in Services : Expected(t, svc', proc')
    BY <2>5, <2>6, <2>7, StartCmdExpected DEF Touched
  <2>8. CASE Return(vn, q, <<>>)
    <3>1. Expected(s, vn, q)
      BY <1>1, <2>2, <2>3 DEF Expected
    <3> QED BY <2>6, <2>8, <3>1, AllExpected DEF Return
  <2> QED BY <2>4, <2>7, <2>8
<1>6. ASSUME NEW s \in Services, svc[s].child = p, ~svc_is_on(s), svc_handle_off_evts(s, q)
      PROVE  \A t \in Services : Expected(t, svc', proc')
  <2>1. svc[s].state = "STOPPING" /\ svc[s].expire = "off" /\ svc_spawn_stop_cmd(s, svc, q, <<>>)
    BY <1>1, <1>6 DEF HandlerOK, svc_handle_off_evts
  <2> QED BY <1>1, <1>4, <1>6, <2>1, StopCmdExpected
<1>7. CASE Return(svc, q, calls) /\ \A s \in Services : svc[s].child # p
  BY <1>3, <1>7 DEF Return
<1> QED BY <1>5, <1>6, <1>7 DEF Reap, q

LEMMA NotifyExpected ==
  ASSUME EInv, Notify
  PROVE  \A t \in Services : Expected(t, svc', proc')
<1> DEFINE s == Head(calls).sink
           src == Head(calls).src
           rest == Tail(calls)
<1>1. s \in Services
  BY TailElements DEF EInv, IInv, Good, Types, Notify, Call
<1>2. /\ svc \in [Services -> SvcRecord] /\ HandlerOK(s, svc) /\ OthersExpected(s, svc, proc)
      /\ \A t \in Services : Expected(t, svc, proc)
  BY <1>1, EInvProperties
<1>3. \/ svc_is_on(s) /\ svc_handle_on_notif(s, src, rest)
      \/ ~svc_is_on(s) /\ svc_handle_off_notif(s, src, rest)
  BY DEF Notify
<1> HIDE DEF s, src, rest
<1>4. CASE svc[s].state = "STARTING" /\ svc_is_on(s) /\ svc_spawn_start_cmd(s, svc, proc, rest)
  BY <1>1, <1>2, <1>4, StartCmdExpected DEF HandlerOK, svc_is_on
<1>5. CASE svc[s].state = "STOPPING" /\ svc_spawn_stop_cmd(s, svc, proc, rest)
  BY <1>1, <1>2, <1>5, StopCmdExpected DEF HandlerOK
<1>6. CASE Return(svc, proc, rest)
  BY <1>2, <1>6 DEF Return
<1> QED BY <1>3, <1>4, <1>5, <1>6 DEF svc_handle_on_notif, svc_handle_off_notif

LEMMA ExitExpected ==
  ASSUME EInv, NEW p \in Pids, NEW status \in {"ok", "bad"}, Exit(p, status)
  PROVE  \A t \in Services : Expected(t, svc', proc')
<1>1. svc \in [Services -> SvcRecord] /\ proc \in [Pids -> ProcRecord]
  BY EInvProperties
<1>2. svc' = svc /\ proc' = [proc EXCEPT ![p].st = status]
  BY DEF Exit
<1>3. \A r \in Pids : proc'[r].job = proc[r].job
  BY <1>1, <1>2 DEF ProcRecord
<1>4. ASSUME NEW t \in Services
      PROVE  Expected(t, svc', proc')
  <2>1. Expected(t, svc, proc) /\ svc[t].child \in Pids \cup {NoPid}
    BY <1>1, EInvProperties DEF SvcRecord
  <2> QED BY <1>2, <1>3, <2>1 DEF Expected
<1> QED BY <1>4

LEMMA InitExpected == SvcInit => EInv
BY InitGood DEF EInv, SvcInit, svc_init, Expected

LEMMA NextExpected == EInv /\ [NextFromStopped]_vars => EInv'
<1> SUFFICES ASSUME EInv, [NextFromStopped]_vars
             PROVE  \A t \in Services : Expected(t, svc', proc')
  BY NextGood DEF NextFromStopped, SvcNext, EInv, Expected
<1>1. CASE UNCHANGED vars
  BY <1>1 DEF vars, EInv
<1> QED BY <1>1, NotifyExpected, ExitExpected, ReapExpected, ExpireExpected,
           StartExpected, StopExpected DEF NextFromStopped

LEMMA ExpectedChild == EInv => ChildIsExpected
<1> SUFFICES ASSUME EInv PROVE ChildIsExpected
  OBVIOUS
<1>1. ASSUME NEW s \in Services, svc[s].child # NoPid
      PROVE  /\ svc[s].state \in {"STARTING", "READY", "STOPPING"}
             /\ Expected(s, svc, proc)
  BY <1>1, EInvProperties DEF HandlerOK, SvcRecord, States
<1> QED BY <1>1 DEF Expected, ChildIsExpected

(* Each exit svc_handle_evts() is told of is that of the process it takes   *)
(* it for: svc->start_cmd and svc->stop_cmd count commands that have run.   *)
THEOREM ExitsAreExpected == StartedStopped => (SvcSpec => []ChildIsExpected)
<1> SUFFICES ASSUME StartedStopped PROVE SvcSpec => []ChildIsExpected
  OBVIOUS
<1>1. EInv /\ [SvcNext]_vars => EInv'
  BY StartsFromStopped, NextExpected DEF EInv, IInv, Good, Types, Expected
<1> QED BY <1>1, InitExpected, ExpectedChild, PTL DEF SvcSpec
=============================================================================
