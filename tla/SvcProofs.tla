----------------------------- MODULE SvcProofs -----------------------------
(***************************************************************************)
(* Proofs about Svc, for any services, dependency graphs, sequences and    *)
(* process slots that meet Svc's assumptions.                              *)
(*                                                                         *)
(* The functions of Svc take the services v, processes q and pending calls *)
(* c as their caller has modified them, so the invariant is stated of such *)
(* a triple: Good(svc, proc, calls) is the inductive invariant, and        *)
(* Others(s, v, q, c) is what a handler still knows of the other services  *)
(* while it is at work on s.  The second half of the module shows that     *)
(* Svc implements Lifecycle.                                               *)
(***************************************************************************)
EXTENDS Svc, TLAPS

Types(v, q, c) ==
  /\ v \in [Services -> SvcRecord]
  /\ q \in [Pids -> ProcRecord]
  /\ c \in Seq(Call)

HandlerOK(t, v) ==
  /\ v[t].on <=> v[t].state \in {"STARTING", "READY"}
  /\ v[t].on => v[t].expire = "on"
  /\ v[t].state = "STOPPING" => v[t].expire = "off"
  /\ v[t].armed => v[t].expire = (IF v[t].on THEN "on" ELSE "off")
  /\ v[t].state = "STOPPED" => v[t].child = NoPid

ChildOK(t, v, q) ==
  v[t].child # NoPid => q[v[t].child].st # "free" /\ q[v[t].child].svc = t

(* t has been released by all its sources only if the call that tells it so *)
(* is pending.                                                              *)
StartOK(t, v, c) ==
  (/\ v[t].state = "STARTING"
   /\ ~v[t].begun
   /\ \A src \in StartOn[t] : v[src].state = "READY") =>
     \E e \in ElementsOf(c) :
       e.sink = t /\ e.src \in StartOn[t] /\ v[e.src].state = "READY"

StopOK(t, v, c) ==
  (/\ v[t].state = "STOPPING"
   /\ ~v[t].begun
   /\ \A src \in StopOn[t] : v[src].state = "STOPPED") =>
     \E e \in ElementsOf(c) :
       e.sink = t /\ e.src \in StopOn[t] /\ v[e.src].state = "STOPPED"

ServiceOK(t, v, q, c) ==
  HandlerOK(t, v) /\ ChildOK(t, v, q) /\ StartOK(t, v, c) /\ StopOK(t, v, c)

Good(v, q, c) == Types(v, q, c) /\ \A t \in Services : ServiceOK(t, v, q, c)

Others(s, v, q, c) ==
  Types(v, q, c) /\ \A t \in Services \ {s} : ServiceOK(t, v, q, c)

IInv == Good(svc, proc, calls)

-----------------------------------------------------------------------------
(* Sequences of pending calls.                                              *)

(* The calls a notification loop makes are one per observer of the list.    *)
LEMMA NotifsProperties ==
  ASSUME NEW s \in Services, NEW obsrv \in Seq(Services)
  PROVE  /\ Notifs(s, obsrv) \in Seq(Call)
         /\ \A o \in ElementsOf(obsrv) : [src |-> s, sink |-> o] \in ElementsOf(Notifs(s, obsrv))
<1>1. Notifs(s, obsrv) \in Seq(Call)
  <2>1. Len(obsrv) \in Nat /\ DOMAIN obsrv = 1 .. Len(obsrv)
    OBVIOUS
  <2>2. Notifs(s, obsrv) \in [1 .. Len(obsrv) -> Call]
    BY <2>1 DEF Notifs, Call
  <2> QED BY <2>1, <2>2
<1>2. ASSUME NEW o \in ElementsOf(obsrv)
      PROVE  [src |-> s, sink |-> o] \in ElementsOf(Notifs(s, obsrv))
  <2>1. PICK i \in DOMAIN obsrv : obsrv[i] = o
    BY <1>2 DEF ElementsOf
  <2>2. i \in DOMAIN Notifs(s, obsrv) /\ Notifs(s, obsrv)[i] = [src |-> s, sink |-> o]
    BY <2>1 DEF Notifs
  <2> QED BY <2>2 DEF ElementsOf
<1> QED BY <1>1, <1>2

(* Prepending calls loses none of either part.                              *)
LEMMA ConcatElements ==
  ASSUME NEW a \in Seq(Call), NEW b \in Seq(Call)
  PROVE  /\ a \o b \in Seq(Call)
         /\ ElementsOf(a) \subseteq ElementsOf(a \o b)
         /\ ElementsOf(b) \subseteq ElementsOf(a \o b)
<1>1. a \o b \in Seq(Call)
  OBVIOUS
<1>2. ASSUME NEW i \in DOMAIN a
      PROVE  i \in DOMAIN (a \o b) /\ (a \o b)[i] = a[i]
  OBVIOUS
<1>3. ASSUME NEW i \in DOMAIN b
      PROVE  Len(a) + i \in DOMAIN (a \o b) /\ (a \o b)[Len(a) + i] = b[i]
  OBVIOUS
<1> QED BY <1>1, <1>2, <1>3 DEF ElementsOf

(* Making the first pending call leaves the others.                         *)
LEMMA TailElements ==
  ASSUME NEW c \in Seq(Call), c # <<>>
  PROVE  /\ Head(c) \in Call
         /\ Tail(c) \in Seq(Call)
         /\ \A e \in ElementsOf(c) : e = Head(c) \/ e \in ElementsOf(Tail(c))
<1>1. Head(c) \in Call /\ Tail(c) \in Seq(Call)
  OBVIOUS
<1>2. ASSUME NEW i \in DOMAIN c, i # 1
      PROVE  i - 1 \in DOMAIN Tail(c) /\ Tail(c)[i - 1] = c[i]
  BY <1>2
<1>3. ASSUME NEW e \in ElementsOf(c)
      PROVE  e = Head(c) \/ e \in ElementsOf(Tail(c))
  <2>1. PICK i \in DOMAIN c : c[i] = e
    BY <1>3 DEF ElementsOf
  <2>2. CASE i = 1
    BY <2>1, <2>2
  <2>3. CASE i # 1
    BY <2>1, <2>3, <1>2 DEF ElementsOf
  <2> QED BY <2>2, <2>3
<1> QED BY <1>1, <1>3

-----------------------------------------------------------------------------
(* What the functions of svc.c preserve.                                    *)

(* Marking a service READY releases exactly the services it notifies: the   *)
(* others keep what they knew.                                              *)
LEMMA MarkReadyGood ==
  ASSUME NEW s \in Services, NEW v, NEW q, NEW c,
         Others(s, v, q, c), ChildOK(s, v, q),
         v[s].state = "STARTING", v[s].on, v[s].expire = "on"
  PROVE  Good([v EXCEPT ![s].state = "READY"], q, Notifs(s, StartOnObsrv[s]) \o c)
<1> DEFINE w == [v EXCEPT ![s].state = "READY"]
           n == Notifs(s, StartOnObsrv[s])
<1>1. /\ v \in [Services -> SvcRecord] /\ q \in [Pids -> ProcRecord] /\ c \in Seq(Call)
      /\ StartOnObsrv[s] \in Seq(Services)
  BY GraphAssumption DEF Others, Types
<1> DEFINE r == [v[s] EXCEPT !.state = "READY"]
<1>r. r \in SvcRecord
  <2>1. v[s] \in SvcRecord
    BY <1>1
  <2> QED BY <2>1 DEF SvcRecord, States
<1>w. w = [v EXCEPT ![s] = r]
  BY <1>1
<1>2. /\ w \in [Services -> SvcRecord]
      /\ w[s] = [v[s] EXCEPT !.state = "READY"]
      /\ \A t \in Services \ {s} : w[t] = v[t]
  <2>1. w[s] = r
    <3> HIDE DEF r, w
    <3> QED BY <1>1, <1>w
  <2>2. w \in [Services -> SvcRecord] /\ \A t \in Services \ {s} : w[t] = v[t]
    <3> HIDE DEF r, w
    <3> QED BY <1>1, <1>r, <1>w
  <2> QED BY <2>1, <2>2
<1>3. /\ n \in Seq(Call)
      /\ \A o \in ElementsOf(StartOnObsrv[s]) : [src |-> s, sink |-> o] \in ElementsOf(n)
  BY <1>1, NotifsProperties
<1>4. /\ n \o c \in Seq(Call)
      /\ ElementsOf(n) \subseteq ElementsOf(n \o c)
      /\ ElementsOf(c) \subseteq ElementsOf(n \o c)
  BY <1>1, <1>3, ConcatElements
<1>5. Types(w, q, n \o c)
  BY <1>1, <1>2, <1>4 DEF Types
<1>6. ServiceOK(s, w, q, n \o c)
  BY <1>1, <1>2 DEF ServiceOK, HandlerOK, ChildOK, StartOK, StopOK, SvcRecord
<1>7. ASSUME NEW t \in Services \ {s}
      PROVE  ServiceOK(t, w, q, n \o c)
  <2>1. ServiceOK(t, v, q, c)
    BY DEF Others
  <2>2. HandlerOK(t, w) /\ ChildOK(t, w, q)
    BY <2>1, <1>2 DEF ServiceOK, HandlerOK, ChildOK
  <2>3. StartOK(t, w, n \o c)
    <3>1. CASE s \in StartOn[t]
      <4>1. [src |-> s, sink |-> t] \in ElementsOf(n \o c)
        BY <3>1, <1>3, <1>4, GraphAssumption
      <4>2. w[s].state = "READY"
        BY <1>1, <1>2 DEF SvcRecord
      <4> QED BY <4>1, <4>2, <3>1 DEF StartOK
    <3>2. CASE s \notin StartOn[t]
      <4>1. StartOn[t] \subseteq Services \ {s}
        BY <3>2, GraphAssumption
      <4>2. StartOK(t, v, c)
        BY <2>1 DEF ServiceOK
      <4> QED BY <4>1, <4>2, <1>2, <1>4 DEF StartOK
    <3> QED BY <3>1, <3>2
  <2>4. StopOK(t, w, n \o c)
    <3>1. StopOK(t, v, c)
      BY <2>1 DEF ServiceOK
    <3>2. \A src \in Services : w[src].state = "STOPPED" <=> v[src].state = "STOPPED"
      BY <1>1, <1>2 DEF SvcRecord
    <3>3. StopOn[t] \subseteq Services /\ \A e \in ElementsOf(c) : e.src \in StopOn[t] => e.src \in Services
      BY GraphAssumption
    <3>4. w[t].state = v[t].state /\ w[t].begun = v[t].begun
      BY <1>2
    <3> QED BY <3>1, <3>2, <3>3, <3>4, <1>4 DEF StopOK
  <2> QED BY <2>2, <2>3, <2>4 DEF ServiceOK
<1> QED BY <1>5, <1>6, <1>7 DEF Good

(* The same of STOPPED.                                                     *)
LEMMA MarkStoppedGood ==
  ASSUME NEW s \in Services, NEW v, NEW q, NEW c,
         Others(s, v, q, c),
         v[s].state = "STOPPING", ~v[s].on, v[s].expire = "off"
  PROVE  Good([v EXCEPT ![s].child = NoPid, ![s].state = "STOPPED"],
              q, Notifs(s, StopOnObsrv[s]) \o c)
<1> DEFINE w == [v EXCEPT ![s].child = NoPid, ![s].state = "STOPPED"]
           n == Notifs(s, StopOnObsrv[s])
<1>1. /\ v \in [Services -> SvcRecord] /\ q \in [Pids -> ProcRecord] /\ c \in Seq(Call)
      /\ StopOnObsrv[s] \in Seq(Services)
  BY GraphAssumption DEF Others, Types
<1> DEFINE r == [v[s] EXCEPT !.child = NoPid, !.state = "STOPPED"]
<1>r. r \in SvcRecord
  <2>1. v[s] \in SvcRecord
    BY <1>1
  <2> QED BY <2>1 DEF SvcRecord, States
<1>w. w = [v EXCEPT ![s] = r]
  BY <1>1
<1>2. /\ w \in [Services -> SvcRecord]
      /\ w[s] = [v[s] EXCEPT !.child = NoPid, !.state = "STOPPED"]
      /\ \A t \in Services \ {s} : w[t] = v[t]
  <2>1. w[s] = r
    <3> HIDE DEF r, w
    <3> QED BY <1>1, <1>w
  <2>2. w \in [Services -> SvcRecord] /\ \A t \in Services \ {s} : w[t] = v[t]
    <3> HIDE DEF r, w
    <3> QED BY <1>1, <1>r, <1>w
  <2> QED BY <2>1, <2>2
<1>3. /\ n \in Seq(Call)
      /\ \A o \in ElementsOf(StopOnObsrv[s]) : [src |-> s, sink |-> o] \in ElementsOf(n)
  BY <1>1, NotifsProperties
<1>4. /\ n \o c \in Seq(Call)
      /\ ElementsOf(n) \subseteq ElementsOf(n \o c)
      /\ ElementsOf(c) \subseteq ElementsOf(n \o c)
  BY <1>1, <1>3, ConcatElements
<1>5. Types(w, q, n \o c)
  BY <1>1, <1>2, <1>4 DEF Types
<1>6. ServiceOK(s, w, q, n \o c)
  BY <1>1, <1>2 DEF ServiceOK, HandlerOK, ChildOK, StartOK, StopOK, SvcRecord
<1>7. ASSUME NEW t \in Services \ {s}
      PROVE  ServiceOK(t, w, q, n \o c)
  <2>1. ServiceOK(t, v, q, c)
    BY DEF Others
  <2>2. HandlerOK(t, w) /\ ChildOK(t, w, q)
    BY <2>1, <1>2 DEF ServiceOK, HandlerOK, ChildOK
  <2>3. StopOK(t, w, n \o c)
    <3>1. CASE s \in StopOn[t]
      <4>1. [src |-> s, sink |-> t] \in ElementsOf(n \o c)
        BY <3>1, <1>3, <1>4, GraphAssumption
      <4>2. w[s].state = "STOPPED"
        BY <1>1, <1>2 DEF SvcRecord
      <4> QED BY <4>1, <4>2, <3>1 DEF StopOK
    <3>2. CASE s \notin StopOn[t]
      <4>1. StopOn[t] \subseteq Services \ {s}
        BY <3>2, GraphAssumption
      <4>2. StopOK(t, v, c)
        BY <2>1 DEF ServiceOK
      <4> QED BY <4>1, <4>2, <1>2, <1>4 DEF StopOK
    <3> QED BY <3>1, <3>2
  <2>4. StartOK(t, w, n \o c)
    <3>1. StartOK(t, v, c)
      BY <2>1 DEF ServiceOK
    <3>2. \A src \in Services : w[src].state = "READY" <=> v[src].state = "READY"
      BY <1>1, <1>2 DEF SvcRecord
    <3>3. StartOn[t] \subseteq Services /\ \A e \in ElementsOf(c) : e.src \in StartOn[t] => e.src \in Services
      BY GraphAssumption
    <3>4. w[t].state = v[t].state /\ w[t].begun = v[t].begun
      BY <1>2
    <3> QED BY <3>1, <3>2, <3>3, <3>4, <1>4 DEF StartOK
  <2> QED BY <2>2, <2>3, <2>4 DEF ServiceOK
<1> QED BY <1>5, <1>6, <1>7 DEF Good

(* A handler is at work on s: it has decided to run the next command.       *)
AtWork(s, v) ==
  /\ v[s].state \in {"STARTING", "STOPPING"}
  /\ v[s].on <=> v[s].state = "STARTING"
  /\ v[s].expire = (IF v[s].on THEN "on" ELSE "off")

(* A vfork(), successful or not, leaves s with a child of its own or none   *)
(* and takes no other service's process.                                    *)
LEMMA SpawnGood ==
  ASSUME NEW s \in Services, NEW v, NEW q, NEW c, NEW job \in Jobs,
         Others(s, v, q, c), AtWork(s, v), v[s].begun,
         NEW o \in svc_spawn(s, job, q)
  PROVE  /\ Good(Spawned(s, v, o), o.proc, c)
         /\ AtWork(s, Spawned(s, v, o))
         /\ Spawned(s, v, o)[s].state = v[s].state
<1> DEFINE w == Spawned(s, v, o)
<1>1. v \in [Services -> SvcRecord] /\ q \in [Pids -> ProcRecord] /\ c \in Seq(Call)
  BY DEF Others, Types
<1>2. \/ \E p \in Pids : /\ q[p].st = "free"
                         /\ o.child = p
                         /\ o.proc = [q EXCEPT ![p] = Fork(s, job)]
      \/ o.child = NoPid /\ o.proc = q
  BY DEF svc_spawn, FreeSlots
<1>3. /\ o.child \in Pids \cup {NoPid}
      /\ o.proc \in [Pids -> ProcRecord]
      /\ o.child # NoPid => o.proc[o.child] = Fork(s, job)
      /\ \A p \in Pids : q[p].st # "free" => o.proc[p] = q[p]
  <2>1. CASE o.child = NoPid /\ o.proc = q
    BY <2>1, <1>1
  <2>2. ASSUME NEW p \in Pids, q[p].st = "free", o.child = p,
               o.proc = [q EXCEPT ![p] = Fork(s, job)]
        PROVE  /\ o.child \in Pids
               /\ o.proc \in [Pids -> ProcRecord]
               /\ o.proc[o.child] = Fork(s, job)
               /\ \A r \in Pids : q[r].st # "free" => o.proc[r] = q[r]
    <3>1. Fork(s, job) \in ProcRecord
      BY DEF ProcRecord, Fork
    <3> QED BY <2>2, <3>1, <1>1
  <2> QED BY <1>2, <2>1, <2>2
<1>4. /\ w \in [Services -> SvcRecord]
      /\ w[s] = [v[s] EXCEPT !.child = o.child, !.armed = IF o.child = NoPid THEN @ ELSE TRUE]
      /\ \A t \in Services \ {s} : w[t] = v[t]
  <2> DEFINE b == IF o.child = NoPid THEN v[s].armed ELSE TRUE
             y == [v[s] EXCEPT !.child = o.child, !.armed = b]
  <2>1. v[s] \in SvcRecord /\ b \in BOOLEAN
    BY <1>1 DEF SvcRecord
  <2>2. y \in SvcRecord
    BY <2>1, <1>3 DEF SvcRecord
  <2>3. w = [v EXCEPT ![s] = y]
    BY <1>1, <2>1 DEF Spawned, SvcRecord
  <2>4. w[s] = y
    <3> HIDE DEF y, w
    <3> QED BY <1>1, <2>3
  <2>5. w \in [Services -> SvcRecord] /\ \A t \in Services \ {s} : w[t] = v[t]
    <3> HIDE DEF y, w
    <3> QED BY <1>1, <2>2, <2>3
  <2> QED BY <2>4, <2>5
<1>5. Types(w, o.proc, c)
  BY <1>1, <1>3, <1>4 DEF Types
<1>6. w[s].state = v[s].state /\ w[s].begun = v[s].begun /\ AtWork(s, w)
  <2>1. /\ w[s].state = v[s].state /\ w[s].begun = v[s].begun
        /\ w[s].on = v[s].on /\ w[s].expire = v[s].expire
    <3>1. PICK y \in SvcRecord : y = v[s]
      BY <1>1
    <3>2. w[s] = [y EXCEPT !.child = o.child, !.armed = IF o.child = NoPid THEN @ ELSE TRUE]
      BY <1>4, <3>1
    <3> HIDE DEF w
    <3> QED BY <3>1, <3>2 DEF SvcRecord
  <2>2. AtWork(s, v)
    OBVIOUS
  <2> HIDE DEF w
  <2> QED BY <2>1, <2>2 DEF AtWork
<1>7. ServiceOK(s, w, o.proc, c)
  <2>1. HandlerOK(s, w)
    BY <1>6 DEF HandlerOK, AtWork
  <2>2. ChildOK(s, w, o.proc)
    BY <1>1, <1>3, <1>4 DEF ChildOK, Fork, SvcRecord
  <2> QED BY <2>1, <2>2, <1>6 DEF ServiceOK, StartOK, StopOK
<1>8. ASSUME NEW t \in Services \ {s}
      PROVE  ServiceOK(t, w, o.proc, c)
  <2>1. ServiceOK(t, v, q, c)
    BY DEF Others
  <2>2. HandlerOK(t, w) /\ ChildOK(t, w, o.proc)
    BY <2>1, <1>1, <1>3, <1>4 DEF ServiceOK, HandlerOK, ChildOK, SvcRecord
  <2>3. \A src \in Services : w[src].state = v[src].state
    BY <1>4, <1>6
  <2>4. w[t] = v[t] /\ StartOn[t] \subseteq Services /\ StopOn[t] \subseteq Services
    BY <1>4, GraphAssumption
  <2>5. StartOK(t, w, c)
    BY <2>1, <2>3, <2>4 DEF ServiceOK, StartOK
  <2>6. StopOK(t, w, c)
    BY <2>1, <2>3, <2>4 DEF ServiceOK, StopOK
  <2> QED BY <2>2, <2>5, <2>6 DEF ServiceOK
<1> QED BY <1>5, <1>6, <1>7, <1>8 DEF Good

(* A handler may change the service it works on without harming what is     *)
(* known of the others, if it keeps its state, or takes it to STARTING or   *)
(* STOPPING while no call is pending: nobody waits for those two.           *)
LEMMA UpdateOthers ==
  ASSUME NEW s \in Services, NEW v, NEW q, NEW c, NEW r \in SvcRecord,
         Others(s, v, q, c),
         \/ r.state = v[s].state
         \/ c = <<>> /\ r.state \in {"STARTING", "STOPPING"}
  PROVE  /\ Others(s, [v EXCEPT ![s] = r], q, c)
         /\ [v EXCEPT ![s] = r][s] = r
<1> DEFINE w == [v EXCEPT ![s] = r]
<1>1. /\ w \in [Services -> SvcRecord]
      /\ w[s] = r
      /\ \A t \in Services \ {s} : w[t] = v[t]
  BY DEF Others, Types
<1>2. Types(w, q, c)
  BY <1>1 DEF Others, Types
<1>3. ASSUME NEW t \in Services \ {s}
      PROVE  ServiceOK(t, w, q, c)
  <2>1. ServiceOK(t, v, q, c)
    BY DEF Others
  <2>2. w[t] = v[t] /\ StartOn[t] \subseteq Services /\ StopOn[t] \subseteq Services
    BY <1>1, GraphAssumption
  <2>3. HandlerOK(t, w) /\ ChildOK(t, w, q)
    BY <2>1, <2>2 DEF ServiceOK, HandlerOK, ChildOK
  <2>4. CASE r.state = v[s].state
    <3>1. \A src \in Services : w[src].state = v[src].state
      BY <1>1, <2>4
    <3>2. StartOK(t, w, c) /\ StopOK(t, w, c)
      BY <2>1, <2>2, <3>1 DEF ServiceOK, StartOK, StopOK
    <3> QED BY <2>3, <3>2 DEF ServiceOK
  <2>5. CASE c = <<>> /\ r.state \in {"STARTING", "STOPPING"}
    <3>1. ElementsOf(c) = {}
      BY <2>5 DEF ElementsOf
    <3>2. \A src \in Services : w[src].state \in {"READY", "STOPPED"} => w[src].state = v[src].state
      BY <1>1, <2>5
    <3>3. StartOK(t, w, c)
      BY <2>1, <2>2, <3>1, <3>2 DEF ServiceOK, StartOK
    <3>4. StopOK(t, w, c)
      BY <2>1, <2>2, <3>1, <3>2 DEF ServiceOK, StopOK
    <3> QED BY <2>3, <3>3, <3>4 DEF ServiceOK
  <2> QED BY <2>4, <2>5
<1> QED BY <1>1, <1>2, <1>3 DEF Others

(* svc_spawn_start_cmd(), whatever child it forgets.                        *)
LEMMA SpawnStartCmdGood ==
  ASSUME NEW s \in Services, NEW v, NEW q, NEW c,
         Others(s, v, q, c), AtWork(s, v), v[s].state = "STARTING",
         svc_spawn_start_cmd(s, v, q, c)
  PROVE  IInv'
<1> DEFINE w == [v EXCEPT ![s].begun = TRUE]
           x == [w EXCEPT ![s].child = NoPid]
           rw == [v[s] EXCEPT !.begun = TRUE]
           rx == [v[s] EXCEPT !.begun = TRUE, !.child = NoPid]
<1>1. v \in [Services -> SvcRecord]
  BY DEF Others, Types
<1>2. /\ rw \in SvcRecord /\ rx \in SvcRecord
      /\ rw.state = v[s].state /\ rx.state = v[s].state
      /\ w = [v EXCEPT ![s] = rw] /\ x = [v EXCEPT ![s] = rx]
  BY <1>1 DEF SvcRecord
<1>3. w[s] = rw /\ x[s] = rx
  BY <1>1, <1>2
<1>4. /\ w[s].begun /\ x[s].begun
      /\ AtWork(s, w) /\ AtWork(s, x)
      /\ w[s].state = "STARTING" /\ x[s].state = "STARTING"
      /\ x[s].child = NoPid
  BY <1>1, <1>2, <1>3 DEF AtWork, SvcRecord
<1> HIDE DEF w, x, rw, rx
<1>6. Others(s, w, q, c) /\ Others(s, x, q, c)
  BY <1>2, UpdateOthers
<1>7. CASE \E o \in svc_spawn(s, "start", q) : Return(Spawned(s, w, o), o.proc, c)
  BY <1>7, <1>4, <1>6, SpawnGood DEF Return, IInv, Jobs
<1>8. CASE \E o \in svc_spawn(s, "daemon", q) :
             \/ /\ o.child = NoPid
                /\ Return(Spawned(s, w, o), o.proc, c)
             \/ /\ o.child # NoPid
                /\ svc_mark_ready(s, Spawned(s, w, o), o.proc, c)
  <2>1. PICK o \in svc_spawn(s, "daemon", q) :
             \/ Return(Spawned(s, w, o), o.proc, c)
             \/ svc_mark_ready(s, Spawned(s, w, o), o.proc, c)
    BY <1>8
  <2>2. /\ Good(Spawned(s, w, o), o.proc, c)
        /\ AtWork(s, Spawned(s, w, o))
        /\ Spawned(s, w, o)[s].state = "STARTING"
    BY <1>4, <1>6, SpawnGood DEF Jobs
  <2>3. CASE Return(Spawned(s, w, o), o.proc, c)
    BY <2>2, <2>3 DEF Return, IInv
  <2>4. CASE svc_mark_ready(s, Spawned(s, w, o), o.proc, c)
    <3>1. Others(s, Spawned(s, w, o), o.proc, c) /\ ChildOK(s, Spawned(s, w, o), o.proc)
      BY <2>2 DEF Good, Others, ServiceOK
    <3>2. Spawned(s, w, o)[s].on /\ Spawned(s, w, o)[s].expire = "on"
      BY <2>2 DEF AtWork
    <3> QED BY <2>2, <2>4, <3>1, <3>2, MarkReadyGood DEF svc_mark_ready, Return, IInv
  <2> QED BY <2>1, <2>3, <2>4
<1>9. CASE svc_mark_ready(s, x, q, c)
  <2>1. ChildOK(s, x, q) /\ x[s].on /\ x[s].expire = "on"
    BY <1>4 DEF ChildOK, AtWork
  <2> QED BY <1>4, <1>6, <1>9, <2>1, MarkReadyGood DEF svc_mark_ready, Return, IInv
<1> QED BY <1>7, <1>8, <1>9 DEF svc_spawn_start_cmd, w, x

(* svc_spawn_stop_cmd(), likewise.                                          *)
LEMMA SpawnStopCmdGood ==
  ASSUME NEW s \in Services, NEW v, NEW q, NEW c,
         Others(s, v, q, c), AtWork(s, v), v[s].state = "STOPPING",
         svc_spawn_stop_cmd(s, v, q, c)
  PROVE  IInv'
<1> DEFINE w == [v EXCEPT ![s].stop_cmd = @ + 1, ![s].begun = TRUE]
           r == [v[s] EXCEPT !.stop_cmd = @ + 1, !.begun = TRUE]
<1>1. v \in [Services -> SvcRecord]
  BY DEF Others, Types
<1>2. /\ r \in SvcRecord
      /\ r.state = v[s].state
      /\ w = [v EXCEPT ![s] = r]
  <2>1. v[s].stop_cmd \in Nat \cup {-1}
    BY <1>1 DEF SvcRecord
  <2>2. v[s].stop_cmd + 1 \in Nat \cup {-1}
    BY <2>1
  <2> QED BY <1>1, <2>2 DEF SvcRecord
<1>3. w[s].begun /\ AtWork(s, w) /\ w[s].state = "STOPPING" /\ ~w[s].on /\ w[s].expire = "off"
  BY <1>1, <1>2 DEF AtWork, SvcRecord
<1> HIDE DEF w, r
<1>4. Others(s, w, q, c)
  BY <1>2, UpdateOthers
<1>5. CASE svc_mark_stopped(s, w, q, c)
  <2>1. Good([w EXCEPT ![s].child = NoPid, ![s].state = "STOPPED"],
             q, Notifs(s, StopOnObsrv[s]) \o c)
    BY <1>3, <1>4, MarkStoppedGood
  <2> QED BY <1>5, <2>1 DEF svc_mark_stopped, Return, IInv
<1>6. CASE \E o \in svc_spawn(s, "stop", q) : Return(Spawned(s, w, o), o.proc, c)
  BY <1>3, <1>4, <1>6, SpawnGood DEF Return, IInv, Jobs
<1> QED BY <1>5, <1>6 DEF svc_spawn_stop_cmd, w

-----------------------------------------------------------------------------
(* What a handler starts from, and what the kernel does to it.              *)

(* With every service good, so are the others.                              *)
LEMMA GoodOthers ==
  ASSUME NEW s \in Services, NEW v, NEW q, NEW c, Good(v, q, c)
  PROVE  Others(s, v, q, c) /\ ServiceOK(s, v, q, c)
BY DEF Good, Others

(* A change of one service that moves neither its state nor its progress.   *)
LEMMA UpdateGood ==
  ASSUME NEW s \in Services, NEW v, NEW q, NEW c, NEW r \in SvcRecord,
         Others(s, v, q, c), StartOK(s, v, c), StopOK(s, v, c),
         r.state = v[s].state, r.begun = v[s].begun,
         HandlerOK(s, [v EXCEPT ![s] = r]), ChildOK(s, [v EXCEPT ![s] = r], q)
  PROVE  Good([v EXCEPT ![s] = r], q, c)
<1> DEFINE w == [v EXCEPT ![s] = r]
<1>1. Others(s, w, q, c) /\ w[s] = r
  BY UpdateOthers
<1>2. \A src \in Services : w[src].state = v[src].state
  BY <1>1 DEF Others, Types
<1>3. StartOn[s] \subseteq Services /\ StopOn[s] \subseteq Services
  BY GraphAssumption
<1>4. StartOK(s, w, c) /\ StopOK(s, w, c)
  BY <1>1, <1>2, <1>3 DEF StartOK, StopOK
<1> QED BY <1>1, <1>4 DEF Good, Others, ServiceOK

(* A process slot that keeps its owner and stays taken.                     *)
LEMMA SlotGood ==
  ASSUME NEW v, NEW q, NEW c, NEW p \in Pids, NEW r \in ProcRecord,
         Good(v, q, c), r.st # "free", r.svc = q[p].svc
  PROVE  Good(v, [q EXCEPT ![p] = r], c)
<1> DEFINE x == [q EXCEPT ![p] = r]
<1>1. Types(v, x, c)
  BY DEF Good, Types
<1>2. ASSUME NEW t \in Services
      PROVE  ServiceOK(t, v, x, c)
  <2>1. ServiceOK(t, v, q, c)
    BY DEF Good
  <2>2. v[t].child \in Pids \cup {NoPid} /\ x[p] = r /\ \A k \in Pids \ {p} : x[k] = q[k]
    BY DEF Good, Types, SvcRecord
  <2>3. ChildOK(t, v, x)
    BY <2>1, <2>2 DEF ServiceOK, ChildOK
  <2> QED BY <2>1, <2>3 DEF ServiceOK
<1> QED BY <1>1, <1>2 DEF Good

(* A zombie that has been waited for is no other service's child.           *)
LEMMA ReapOthers ==
  ASSUME NEW s \in Services, NEW v, NEW q, NEW c, NEW p \in Pids,
         Good(v, q, c), v[s].child = p
  PROVE  Others(s, v, [q EXCEPT ![p] = FreeSlot], c)
<1> DEFINE x == [q EXCEPT ![p] = FreeSlot]
<1>1. FreeSlot \in ProcRecord
  BY DEF FreeSlot, ProcRecord
<1>2. Types(v, x, c)
  BY <1>1 DEF Good, Types
<1>3. q[p].svc = s
  BY KernelAssumption DEF Good, ServiceOK, ChildOK
<1>4. ASSUME NEW t \in Services \ {s}
      PROVE  ServiceOK(t, v, x, c)
  <2>1. ServiceOK(t, v, q, c)
    BY DEF Good
  <2>2. v[t].child \in Pids \cup {NoPid} /\ \A k \in Pids \ {p} : x[k] = q[k]
    BY DEF Good, Types, SvcRecord
  <2>3. v[t].child # p
    BY <2>1, <1>3, KernelAssumption DEF ServiceOK, ChildOK
  <2>4. ChildOK(t, v, x)
    BY <2>1, <2>2, <2>3 DEF ServiceOK, ChildOK
  <2> QED BY <2>1, <2>4 DEF ServiceOK
<1> QED BY <1>2, <1>4 DEF Others

-----------------------------------------------------------------------------
(* The steps.                                                               *)

(* svc_start(), from any state.                                             *)
LEMMA StartGood ==
  ASSUME NEW s \in Services, IInv, calls = <<>>, svc_start(s)
  PROVE  IInv'
<1> DEFINE v == [svc EXCEPT ![s].on = TRUE, ![s].state = "STARTING",
                            ![s].expire = "on", ![s].start_cmd = 0,
                            ![s].begun = FALSE]
           r == [svc[s] EXCEPT !.on = TRUE, !.state = "STARTING",
                               !.expire = "on", !.start_cmd = 0,
                               !.begun = FALSE]
<1>1. svc \in [Services -> SvcRecord] /\ Others(s, svc, proc, <<>>) /\ ServiceOK(s, svc, proc, <<>>)
  BY GoodOthers DEF IInv, Good, Types
<1>2. r \in SvcRecord /\ r.state = "STARTING" /\ r.child = svc[s].child /\ v = [svc EXCEPT ![s] = r]
  BY <1>1 DEF SvcRecord, States
<1>3. v[s] = r
  BY <1>1, <1>2
<1>4. AtWork(s, v) /\ HandlerOK(s, v) /\ v[s].state = "STARTING"
  BY <1>1, <1>3 DEF AtWork, HandlerOK, SvcRecord
<1> HIDE DEF v, r
<1>5. Others(s, v, proc, <<>>)
  BY <1>1, <1>2, UpdateOthers
<1>6. CASE svc_spawn_start_cmd(s, v, proc, <<>>)
  BY <1>4, <1>5, <1>6, SpawnStartCmdGood
<1>7. CASE ~svc_may_start(s, v) /\ Return(v, proc, <<>>)
  <2>1. StartOK(s, v, <<>>) /\ StopOK(s, v, <<>>)
    BY <1>4, <1>7 DEF StartOK, StopOK, svc_may_start
  <2>2. ChildOK(s, v, proc)
    BY <1>1, <1>2, <1>3 DEF ServiceOK, ChildOK
  <2>3. Good(v, proc, <<>>)
    BY <1>4, <1>5, <2>1, <2>2 DEF Good, Others, ServiceOK
  <2> QED BY <1>7, <2>3 DEF Return, IInv
<1> QED BY <1>6, <1>7 DEF svc_start, v

(* svc_stop(), from any state.                                              *)
LEMMA StopGood ==
  ASSUME NEW s \in Services, IInv, calls = <<>>, svc_stop(s)
  PROVE  IInv'
<1> DEFINE v == [svc EXCEPT ![s].on = FALSE, ![s].state = "STOPPING",
                            ![s].expire = "off", ![s].stop_cmd = -1,
                            ![s].begun = FALSE]
           r == [svc[s] EXCEPT !.on = FALSE, !.state = "STOPPING",
                               !.expire = "off", !.stop_cmd = -1,
                               !.begun = FALSE]
           w == [v EXCEPT ![s].armed = TRUE, ![s].begun = TRUE]
           x == [r EXCEPT !.armed = TRUE, !.begun = TRUE]
<1>1. svc \in [Services -> SvcRecord] /\ Others(s, svc, proc, <<>>) /\ ServiceOK(s, svc, proc, <<>>)
  BY GoodOthers DEF IInv, Good, Types
<1>2. /\ r \in SvcRecord /\ r.state = "STOPPING" /\ r.child = svc[s].child
      /\ v = [svc EXCEPT ![s] = r]
      /\ x \in SvcRecord /\ x.state = "STOPPING" /\ x.child = svc[s].child
      /\ w = [svc EXCEPT ![s] = x]
  <2>1. r \in SvcRecord
    BY <1>1 DEF SvcRecord, States
  <2>2. x \in SvcRecord
    BY <1>1 DEF SvcRecord, States
  <2>3. r.state = "STOPPING" /\ r.child = svc[s].child
    BY <1>1 DEF SvcRecord
  <2>4. x.state = "STOPPING" /\ x.child = svc[s].child
    BY <1>1 DEF SvcRecord
  <2>5. v = [svc EXCEPT ![s] = r]
    BY <1>1 DEF SvcRecord
  <2>6. w = [svc EXCEPT ![s] = x]
    BY <1>1 DEF SvcRecord
  <2> HIDE DEF v, r, w, x
  <2> QED BY <2>1, <2>2, <2>3, <2>4, <2>5, <2>6
<1>3. v[s] = r /\ w[s] = x
  BY <1>1, <1>2
<1>4. /\ AtWork(s, v) /\ HandlerOK(s, v) /\ v[s].state = "STOPPING"
      /\ HandlerOK(s, w) /\ w[s].state = "STOPPING" /\ w[s].begun
  BY <1>1, <1>3 DEF AtWork, HandlerOK, SvcRecord
<1> HIDE DEF v, r, w, x
<1>5. Others(s, v, proc, <<>>) /\ Others(s, w, proc, <<>>)
  BY <1>1, <1>2, UpdateOthers
<1>6. CASE ~svc_may_stop(s, v) /\ Return(v, proc, <<>>)
  <2>1. StartOK(s, v, <<>>) /\ StopOK(s, v, <<>>)
    BY <1>4, <1>6 DEF StartOK, StopOK, svc_may_stop
  <2>2. ChildOK(s, v, proc)
    BY <1>1, <1>2, <1>3 DEF ServiceOK, ChildOK
  <2>3. Good(v, proc, <<>>)
    BY <1>4, <1>5, <2>1, <2>2 DEF Good, Others, ServiceOK
  <2> QED BY <1>6, <2>3 DEF Return, IInv
<1>7. CASE Return(w, proc, <<>>)
  <2>1. StartOK(s, w, <<>>) /\ StopOK(s, w, <<>>)
    BY <1>4 DEF StartOK, StopOK
  <2>2. ChildOK(s, w, proc)
    BY <1>1, <1>2, <1>3 DEF ServiceOK, ChildOK
  <2>3. Good(w, proc, <<>>)
    BY <1>4, <1>5, <2>1, <2>2 DEF Good, Others, ServiceOK
  <2> QED BY <1>7, <2>3 DEF Return, IInv
<1>8. CASE svc_spawn_stop_cmd(s, v, proc, <<>>)
  BY <1>4, <1>5, <1>8, SpawnStopCmdGood
<1> QED BY <1>6, <1>7, <1>8 DEF svc_stop, v, w

(* SVC_EXIT_EVT to a service in `on' state.                                 *)
LEMMA OnEvtsGood ==
  ASSUME NEW s \in Services, NEW p \in Pids, NEW status, IInv, calls = <<>>,
         svc[s].child = p, svc[s].on,
         svc_handle_on_evts(s, status, [proc EXCEPT ![p] = FreeSlot])
  PROVE  IInv'
<1> DEFINE q == [proc EXCEPT ![p] = FreeSlot]
           v1 == [svc EXCEPT ![s].start_cmd = @ + 1]
           r1 == [svc[s] EXCEPT !.start_cmd = @ + 1]
           v2 == [svc EXCEPT ![s].state = "STARTING"]
           r2 == [svc[s] EXCEPT !.state = "STARTING"]
           v3 == [svc EXCEPT ![s].child = NoPid]
           r3 == [svc[s] EXCEPT !.child = NoPid]
<1>1. svc \in [Services -> SvcRecord] /\ ServiceOK(s, svc, proc, <<>>)
  BY GoodOthers DEF IInv, Good, Types
<1>2. Others(s, svc, q, <<>>)
  BY ReapOthers DEF IInv
<1>3. svc[s].state \in {"STARTING", "READY"} /\ svc[s].expire = "on"
  BY <1>1 DEF ServiceOK, HandlerOK
<1>4. /\ r1 \in SvcRecord /\ r1.state = svc[s].state /\ r1.on = svc[s].on
      /\ r1.expire = svc[s].expire
      /\ v1 = [svc EXCEPT ![s] = r1]
  <2>1. svc[s].start_cmd + 1 \in Nat
    BY <1>1 DEF SvcRecord
  <2> QED BY <1>1, <2>1 DEF SvcRecord
<1>5. /\ r2 \in SvcRecord /\ r2.state = "STARTING" /\ r2.on = svc[s].on
      /\ r2.expire = svc[s].expire
      /\ v2 = [svc EXCEPT ![s] = r2]
  BY <1>1 DEF SvcRecord, States
<1>6. /\ r3 \in SvcRecord /\ r3.state = svc[s].state /\ r3.begun = svc[s].begun
      /\ r3.on = svc[s].on /\ r3.expire = svc[s].expire /\ r3.child = NoPid
      /\ v3 = [svc EXCEPT ![s] = r3]
  BY <1>1 DEF SvcRecord
<1>7. v1[s] = r1 /\ v2[s] = r2 /\ v3[s] = r3
  BY <1>1, <1>4, <1>5, <1>6
<1> HIDE DEF q, v1, r1, v2, r2, v3, r3
<1>8. CASE svc[s].state = "STARTING" /\ svc_respawn(s, v1, q, <<>>)
  <2>1. Others(s, v1, q, <<>>)
    BY <1>2, <1>4, UpdateOthers
  <2>2. AtWork(s, v1) /\ v1[s].state = "STARTING"
    BY <1>3, <1>4, <1>7, <1>8 DEF AtWork
  <2> QED BY <1>8, <2>1, <2>2, SpawnStartCmdGood DEF svc_respawn
<1>9. CASE svc[s].state = "STARTING" /\ svc_respawn(s, svc, q, <<>>)
  <2>1. AtWork(s, svc)
    BY <1>3, <1>9 DEF AtWork
  <2> QED BY <1>2, <1>9, <2>1, SpawnStartCmdGood DEF svc_respawn
<1>10. CASE svc_respawn(s, v2, q, <<>>)
  <2>1. Others(s, v2, q, <<>>)
    BY <1>2, <1>5, UpdateOthers
  <2>2. AtWork(s, v2) /\ v2[s].state = "STARTING"
    BY <1>3, <1>5, <1>7 DEF AtWork
  <2> QED BY <1>10, <2>1, <2>2, SpawnStartCmdGood DEF svc_respawn
<1>11. CASE Return(v3, q, <<>>)
  <2>1. HandlerOK(s, v3) /\ ChildOK(s, v3, q)
    BY <1>3, <1>6, <1>7 DEF HandlerOK, ChildOK
  <2>2. StartOK(s, svc, <<>>) /\ StopOK(s, svc, <<>>)
    BY <1>1 DEF ServiceOK
  <2>3. Good(v3, q, <<>>)
    BY <1>2, <1>6, <2>1, <2>2, UpdateGood
  <2> QED BY <1>11, <2>3 DEF Return, IInv
<1> QED BY <1>8, <1>9, <1>10, <1>11 DEF svc_handle_on_evts, q, v1, v2, v3

(* One zombie is waited for.                                                *)
LEMMA ReapGood ==
  ASSUME NEW p \in Pids, IInv, Reap(p)
  PROVE  IInv'
<1> DEFINE q == [proc EXCEPT ![p] = FreeSlot]
<1>1. calls = <<>>
  BY DEF Reap
<1>2. ASSUME NEW s \in Services, svc[s].child = p, svc_is_on(s),
             svc_handle_on_evts(s, proc[p].st, q)
      PROVE  IInv'
  BY <1>1, <1>2, OnEvtsGood DEF svc_is_on
<1>3. ASSUME NEW s \in Services, svc[s].child = p, ~svc_is_on(s),
             svc_handle_off_evts(s, q)
      PROVE  IInv'
  <2>1. Others(s, svc, q, <<>>)
    BY <1>1, <1>3, ReapOthers DEF IInv
  <2>2. HandlerOK(s, svc) /\ svc[s].state = "STOPPING"
    BY <1>3 DEF IInv, Good, ServiceOK, svc_handle_off_evts
  <2>3. AtWork(s, svc)
    BY <1>3, <2>2 DEF HandlerOK, AtWork, svc_is_on
  <2> QED BY <1>3, <2>1, <2>2, <2>3, SpawnStopCmdGood DEF svc_handle_off_evts
<1>4. ASSUME \A s \in Services : svc[s].child # p, Return(svc, q, calls)
      PROVE  IInv'
  <2>1. FreeSlot \in ProcRecord
    BY DEF FreeSlot, ProcRecord
  <2>2. Types(svc, q, calls) /\ \A k \in Pids \ {p} : q[k] = proc[k]
    BY <2>1 DEF IInv, Good, Types
  <2>3. ASSUME NEW t \in Services
        PROVE  ServiceOK(t, svc, q, calls)
    <3>1. ServiceOK(t, svc, proc, calls)
      BY DEF IInv, Good
    <3>2. svc[t].child \in Pids \cup {NoPid} /\ svc[t].child # p
      BY <1>4 DEF IInv, Good, Types, SvcRecord
    <3>3. ChildOK(t, svc, q)
      BY <2>2, <3>1, <3>2 DEF ServiceOK, ChildOK
    <3> QED BY <3>1, <3>3 DEF ServiceOK
  <2> QED BY <1>4, <2>2, <2>3 DEF Good, IInv, Return
<1> QED BY <1>2, <1>3, <1>4 DEF Reap

(* A timer expires.                                                         *)
LEMMA ExpireGood ==
  ASSUME NEW s \in Services, IInv, Expire(s)
  PROVE  IInv'
<1> DEFINE v == [svc EXCEPT ![s].armed = FALSE]
           r == [svc[s] EXCEPT !.armed = FALSE]
<1>1. svc \in [Services -> SvcRecord] /\ Others(s, svc, proc, <<>>) /\ ServiceOK(s, svc, proc, <<>>)
  BY GoodOthers DEF IInv, Good, Types, Expire
<1>2. /\ r \in SvcRecord /\ r.state = svc[s].state /\ r.begun = svc[s].begun
      /\ r.on = svc[s].on /\ r.expire = svc[s].expire /\ r.child = svc[s].child
      /\ ~r.armed
      /\ v = [svc EXCEPT ![s] = r]
  BY <1>1 DEF SvcRecord
<1>3. v[s] = r
  BY <1>1, <1>2
<1>4. svc[s].armed /\ calls = <<>>
  BY DEF Expire
<1> HIDE DEF v, r
<1>5. HandlerOK(s, v) /\ ChildOK(s, v, proc)
  BY <1>1, <1>2, <1>3 DEF ServiceOK, HandlerOK, ChildOK
<1>6. Good(v, proc, <<>>)
  BY <1>1, <1>2, <1>5, UpdateGood DEF ServiceOK
<1>7. Others(s, v, proc, <<>>)
  BY <1>6, GoodOthers
<1>8. CASE Return(v, proc, <<>>)
  BY <1>6, <1>8 DEF Return, IInv
<1>9. CASE v[s].state = "STARTING" /\ svc_respawn(s, v, proc, <<>>)
  <2>1. AtWork(s, v)
    BY <1>5, <1>9 DEF AtWork, HandlerOK
  <2> QED BY <1>7, <1>9, <2>1, SpawnStartCmdGood DEF svc_respawn
<1>10. CASE v[s].state = "STOPPING" /\ svc_spawn_stop_cmd(s, v, proc, <<>>)
  <2>1. AtWork(s, v)
    BY <1>3, <1>5, <1>10, <1>2, <1>1 DEF AtWork, HandlerOK, SvcRecord
  <2> QED BY <1>7, <1>10, <2>1, SpawnStopCmdGood
<1>11. CASE /\ svc_kill_works(s, v)
            /\ Return(v, [proc EXCEPT ![v[s].child].kill = TRUE], <<>>)
  <2> DEFINE k == v[s].child
             x == [proc[k] EXCEPT !.kill = TRUE]
  <2>1. k \in Pids /\ proc \in [Pids -> ProcRecord] /\ proc[k].st # "free"
    BY <1>1, <1>2, <1>3, <1>11 DEF IInv, Good, Types, SvcRecord, svc_kill_works
  <2>2. /\ x \in ProcRecord /\ x.st = proc[k].st /\ x.svc = proc[k].svc
        /\ [proc EXCEPT ![k].kill = TRUE] = [proc EXCEPT ![k] = x]
    BY <2>1 DEF ProcRecord
  <2> HIDE DEF x, k
  <2>3. Good(v, [proc EXCEPT ![k] = x], <<>>)
    BY <1>6, <2>1, <2>2, SlotGood
  <2> QED BY <1>11, <2>2, <2>3 DEF Return, IInv, k
<1> QED BY <1>8, <1>9, <1>10, <1>11 DEF Expire, svc_expire_on, svc_expire_off, v

(* A process ends.                                                          *)
LEMMA ExitGood ==
  ASSUME NEW p \in Pids, NEW status \in {"ok", "bad"}, IInv, Exit(p, status)
  PROVE  IInv'
<1> DEFINE r == [proc[p] EXCEPT !.st = status]
<1>1. proc \in [Pids -> ProcRecord]
  BY DEF IInv, Good, Types
<1>2. r \in ProcRecord /\ r.st # "free" /\ r.svc = proc[p].svc /\ proc' = [proc EXCEPT ![p] = r]
  BY <1>1 DEF ProcRecord, Exit
<1> HIDE DEF r
<1>3. Good(svc, [proc EXCEPT ![p] = r], calls)
  BY <1>2, SlotGood DEF IInv
<1> QED BY <1>2, <1>3 DEF IInv, Exit

(* The innermost svc_handle_notif() call is made: either it lets its sink   *)
(* go on, or the sink had no use for it.                                    *)
LEMMA NotifyGood ==
  ASSUME IInv, Notify
  PROVE  IInv'
<1> DEFINE s == Head(calls).sink
           src == Head(calls).src
           rest == Tail(calls)
<1>1. /\ calls \in Seq(Call) /\ calls # <<>>
      /\ \A t \in Services : ServiceOK(t, svc, proc, calls)
  BY DEF IInv, Good, Types, Notify
<1>2. /\ s \in Services /\ src \in Services
      /\ rest \in Seq(Call)
      /\ \A e \in ElementsOf(calls) : e = Head(calls) \/ e \in ElementsOf(rest)
  BY <1>1, TailElements DEF Call
<1>3. /\ svc_is_on(s) => svc_handle_on_notif(s, src, rest)
      /\ ~svc_is_on(s) => svc_handle_off_notif(s, src, rest)
  BY DEF Notify
<1> HIDE DEF s, src, rest
<1>4. \A e \in ElementsOf(calls) : (e.sink = s /\ e.src = src) \/ e \in ElementsOf(rest)
  BY <1>2 DEF s, src
<1>5. Types(svc, proc, rest)
  BY <1>2 DEF IInv, Good, Types
<1>6. Others(s, svc, proc, rest)
  <2>1. ASSUME NEW t \in Services \ {s}
        PROVE  ServiceOK(t, svc, proc, rest)
    <3>1. ServiceOK(t, svc, proc, calls)
      BY <1>1
    <3>2. StartOK(t, svc, rest) /\ StopOK(t, svc, rest)
      BY <1>4, <3>1 DEF ServiceOK, StartOK, StopOK
    <3> QED BY <3>1, <3>2 DEF ServiceOK
  <2> QED BY <1>5, <2>1 DEF Others
<1>7. HandlerOK(s, svc) /\ ChildOK(s, svc, proc) /\ StartOK(s, svc, calls) /\ StopOK(s, svc, calls)
  BY <1>1, <1>2 DEF ServiceOK
<1>8. CASE /\ svc_is_on(s) /\ svc[s].state = "STARTING"
           /\ svc_spawn_start_cmd(s, svc, proc, rest)
  <2>1. AtWork(s, svc)
    BY <1>7, <1>8 DEF AtWork, HandlerOK, svc_is_on
  <2> QED BY <1>2, <1>6, <1>8, <2>1, SpawnStartCmdGood
<1>9. CASE /\ ~svc_is_on(s) /\ svc[s].state = "STOPPING"
           /\ svc_spawn_stop_cmd(s, svc, proc, rest)
  <2>1. AtWork(s, svc)
    BY <1>7, <1>9 DEF AtWork, HandlerOK, svc_is_on
  <2> QED BY <1>2, <1>6, <1>9, <2>1, SpawnStopCmdGood
<1>10. CASE /\ svc_is_on(s)
            /\ svc[src].state # "READY" \/ svc[s].state # "STARTING" \/ ~svc_may_start(s, svc)
            /\ Return(svc, proc, rest)
  <2>1. svc[s].state # "STOPPING"
    BY <1>7, <1>10 DEF HandlerOK, svc_is_on
  <2>2. StopOK(s, svc, rest)
    BY <2>1 DEF StopOK
  <2>3. StartOK(s, svc, rest)
    BY <1>4, <1>7, <1>10 DEF StartOK, svc_may_start
  <2>4. Good(svc, proc, rest)
    BY <1>6, <1>7, <2>2, <2>3 DEF Good, Others, ServiceOK
  <2> QED BY <1>10, <2>4 DEF Return, IInv
<1>11. CASE /\ ~svc_is_on(s)
            /\ svc[src].state # "STOPPED" \/ svc[s].state # "STOPPING" \/ ~svc_may_stop(s, svc)
            /\ Return(svc, proc, rest)
  <2>1. svc[s].state # "STARTING"
    BY <1>7, <1>11 DEF HandlerOK, svc_is_on
  <2>2. StartOK(s, svc, rest)
    BY <2>1 DEF StartOK
  <2>3. StopOK(s, svc, rest)
    BY <1>4, <1>7, <1>11 DEF StopOK, svc_may_stop
  <2>4. Good(svc, proc, rest)
    BY <1>6, <1>7, <2>2, <2>3 DEF Good, Others, ServiceOK
  <2> QED BY <1>11, <2>4 DEF Return, IInv
<1> QED BY <1>3, <1>8, <1>9, <1>10, <1>11 DEF svc_handle_on_notif, svc_handle_off_notif

-----------------------------------------------------------------------------
(* The theorems.                                                            *)

(* Nothing has run yet when the repository has been loaded.                 *)
LEMMA InitGood == SvcInit => IInv
<1> SUFFICES ASSUME SvcInit PROVE IInv
  OBVIOUS
<1>1. svc_init \in SvcRecord /\ FreeSlot \in ProcRecord /\ <<>> \in Seq(Call)
  BY DEF svc_init, FreeSlot, SvcRecord, ProcRecord, States
<1>2. Types(svc, proc, calls)
  BY <1>1 DEF SvcInit, Types
<1>3. ASSUME NEW t \in Services
      PROVE  ServiceOK(t, svc, proc, calls)
  BY DEF SvcInit, svc_init, ServiceOK, HandlerOK, ChildOK, StartOK, StopOK
<1> QED BY <1>2, <1>3 DEF IInv, Good

(* Every step of the event loop and of the kernel preserves the invariant.  *)
LEMMA NextGood == IInv /\ [SvcNext]_vars => IInv'
<1> SUFFICES ASSUME IInv, [SvcNext]_vars PROVE IInv'
  OBVIOUS
<1>1. CASE Notify
  BY <1>1, NotifyGood
<1>2. ASSUME NEW p \in Pids, NEW status \in {"ok", "bad"}, Exit(p, status)
      PROVE  IInv'
  BY <1>2, ExitGood
<1>3. ASSUME NEW p \in Pids, Reap(p)
      PROVE  IInv'
  BY <1>3, ReapGood
<1>4. ASSUME NEW s \in Services, Expire(s)
      PROVE  IInv'
  BY <1>4, ExpireGood
<1>5. ASSUME NEW s \in Services, Start(s)
      PROVE  IInv'
  BY <1>5, StartGood DEF Start
<1>6. ASSUME NEW s \in Services, Stop(s)
      PROVE  IInv'
  BY <1>6, StopGood DEF Stop
<1>7. CASE UNCHANGED vars
  BY <1>7 DEF vars, IInv
<1> QED BY <1>1, <1>2, <1>3, <1>4, <1>5, <1>6, <1>7 DEF SvcNext

(* The inductive invariant.                                                 *)
LEMMA Invariant == SvcSpec => []IInv
BY InitGood, NextGood, PTL DEF SvcSpec

(* Type correctness of the services, the process table and the pending      *)
(* calls.                                                                   *)
THEOREM TypeCorrect == SvcSpec => []TypeOK
<1>1. IInv => TypeOK
  BY DEF IInv, Good, Types, TypeOK
<1> QED BY <1>1, Invariant, PTL

(* However handlers, exits and timers interleave, svc->child is a process   *)
(* of that very service that has not been waited for: no stray kill(), no   *)
(* exit status delivered to another service.                                *)
THEOREM ChildrenUnreaped == SvcSpec => []ChildUnreaped
<1>1. IInv => ChildUnreaped
  BY DEF IInv, Good, ServiceOK, ChildOK, ChildUnreaped
<1> QED BY <1>1, Invariant, PTL

(* No event, timer or notification finds the handlers of another state      *)
(* installed: no assert(0) of svc.c can be reached.                         *)
THEOREM HandlersMatchState == SvcSpec => []HandlerMatchesState
<1>1. IInv => HandlerMatchesState
  BY DEF IInv, Good, ServiceOK, HandlerOK, HandlerMatchesState
<1> QED BY <1>1, Invariant, PTL

(* In any dependency graph, and with any call tree of nested notifications, *)
(* a service whose sources are all there has been, or is about to be, told. *)
THEOREM WakeupsNotLost == SvcSpec => []NoLostWakeup
<1>1. IInv => NoLostWakeup
  BY DEF IInv, Good, ServiceOK, StartOK, StopOK, NoLostWakeup, StartNotLost,
         StopNotLost, Pending, SourcesReady, SourcesStopped
<1> QED BY <1>1, Invariant, PTL

-----------------------------------------------------------------------------
(* Svc implements Lifecycle.  No step of Svc changes more than one service; *)
(* what it does to that one is one of a few moves, and each move is a step  *)
(* of Lifecycle or leaves phase and loose as they are.                      *)

(* One service, as Lifecycle sees it.                                       *)
Waits(r)   == r.state \in {"STARTING", "STOPPING"} /\ ~r.begun
IsLoose(r) == Waits(r) /\ (r.armed \/ r.child # NoPid)

(* A step that changes s only, and leaves it with r.                        *)
Becomes(s, r) == r \in SvcRecord /\ svc' = [svc EXCEPT ![s] = r]

(* s is going up or is up, having entered its start sequence; likewise down.*)
IsUp(r)   == r.state = "READY" \/ (r.state = "STARTING" /\ r.begun)
IsDown(r) == r.state = "STOPPED" \/ (r.state = "STOPPING" /\ r.begun)

phases == [t \in Services |-> PhaseOfSvc(t)]

(* The phases that the kinds of services map to.                            *)
LEMMA PhaseKinds ==
  ASSUME NEW s \in Services, svc[s] \in SvcRecord
  PROVE  /\ IsUp(svc[s]) <=> PhaseOfSvc(s) \in {"starting", "ready"}
         /\ IsDown(svc[s]) <=> PhaseOfSvc(s) \in {"stopping", "stopped"}
         /\ svc[s].state = "READY" <=> PhaseOfSvc(s) = "ready"
         /\ svc[s].state = "STOPPED" <=> PhaseOfSvc(s) = "stopped"
         /\ (svc[s].state = "STOPPING" /\ svc[s].begun) <=> PhaseOfSvc(s) = "stopping"
         /\ (svc[s].state = "STARTING" /\ Waits(svc[s])) <=> PhaseOfSvc(s) = "waiting"
         /\ (svc[s].state = "STOPPING" /\ Waits(svc[s])) <=> PhaseOfSvc(s) = "leaving"
         /\ s \in LooseSvcs <=> IsLoose(svc[s])
<1>1. svc[s].state \in {"STOPPED", "STARTING", "READY", "STOPPING"} /\ svc[s].begun \in BOOLEAN
  BY DEF SvcRecord, States
<1> QED
  BY <1>1 DEF PhaseOfSvc, IsUp, IsDown, Waits, IsLoose, LooseSvcs

(* The same after a step.                                                   *)
LEMMA PhaseKindsNext ==
  ASSUME NEW s \in Services, NEW r, svc'[s] = r, r \in SvcRecord
  PROVE  /\ IsUp(r) => PhaseOfSvc(s)' \in {"starting", "ready"}
         /\ IsDown(r) => PhaseOfSvc(s)' \in {"stopping", "stopped"}
         /\ (r.state = "STARTING" /\ ~r.begun) => PhaseOfSvc(s)' = "waiting"
         /\ (r.state = "STOPPING" /\ ~r.begun) => PhaseOfSvc(s)' = "leaving"
         /\ s \in LooseSvcs' <=> IsLoose(r)
<1>1. r.state \in {"STOPPED", "STARTING", "READY", "STOPPING"} /\ r.begun \in BOOLEAN
  BY DEF SvcRecord, States
<1> QED
  BY <1>1 DEF PhaseOfSvc, IsUp, IsDown, Waits, IsLoose, LooseSvcs

(* A step that changes one service changes one phase.                       *)
LEMMA OnePhase ==
  ASSUME NEW s \in Services, NEW r, svc \in [Services -> SvcRecord], Becomes(s, r)
  PROVE  /\ svc'[s] = r
         /\ phases' = [phases EXCEPT ![s] = PhaseOfSvc(s)']
         /\ LooseSvcs \ {s} = LooseSvcs' \ {s}
<1>1. svc'[s] = r /\ \A t \in Services \ {s} : svc'[t] = svc[t]
  BY DEF Becomes
<1>2. \A t \in Services \ {s} : PhaseOfSvc(t)' = PhaseOfSvc(t)
  BY <1>1 DEF PhaseOfSvc
<1>3. phases' = [phases EXCEPT ![s] = PhaseOfSvc(s)']
  BY <1>2 DEF phases
<1>4. LooseSvcs \ {s} = LooseSvcs' \ {s}
  BY <1>1 DEF LooseSvcs
<1> QED
  BY <1>1, <1>3, <1>4

(* svc_may_start() and svc_may_stop() are the conditions of Lifecycle.      *)
LEMMA MayIsMay ==
  ASSUME NEW s \in Services, svc \in [Services -> SvcRecord]
  PROVE  /\ svc_may_start(s, svc) <=> L!MayStart(s)
         /\ svc_may_stop(s, svc) <=> L!MayStop(s)
<1>1. \A t \in Services : /\ svc[t].state = "READY" <=> phases[t] = "ready"
                          /\ svc[t].state = "STOPPED" <=> phases[t] = "stopped"
  BY PhaseKinds DEF phases
<1>2. StartOn[s] \subseteq Services /\ StopOn[s] \subseteq Services
  BY GraphAssumption
<1> QED
  BY <1>1, <1>2 DEF svc_may_start, svc_may_stop, L!MayStart, L!MayStop, phases

-----------------------------------------------------------------------------
(* The moves of a service and the steps of Lifecycle they are.              *)

(* s enters one of `ps' and is not loose any more.                          *)
LEMMA EnterMove ==
  ASSUME NEW s \in Services, NEW r, NEW ps, svc \in [Services -> SvcRecord],
         Becomes(s, r), PhaseOfSvc(s)' \in ps, ~Waits(r)
  PROVE  L!Enter(s, ps)
<1>1. phases' = [phases EXCEPT ![s] = PhaseOfSvc(s)'] /\ LooseSvcs \ {s} = LooseSvcs' \ {s} /\ svc'[s] = r
  BY OnePhase
<1>2. s \notin LooseSvcs'
  BY <1>1, PhaseKindsNext DEF IsLoose, Becomes
<1>3. LooseSvcs' = LooseSvcs \ {s}
  BY <1>1, <1>2
<1> QED
  BY <1>1, <1>3 DEF L!Enter, phases

(* s waits in phase ph.                                                     *)
LEMMA WaitMove ==
  ASSUME NEW s \in Services, NEW r, NEW ph, svc \in [Services -> SvcRecord],
         Becomes(s, r), PhaseOfSvc(s)' = ph
  PROVE  L!Wait(s, ph)
<1>1. phases' = [phases EXCEPT ![s] = PhaseOfSvc(s)'] /\ LooseSvcs \ {s} = LooseSvcs' \ {s}
  BY OnePhase
<1>2. LooseSvcs' \in {LooseSvcs \cup {s}, LooseSvcs \ {s}}
  BY <1>1
<1> QED
  BY <1>1, <1>2 DEF L!Wait, phases

(* The start sequence is entered or goes on.                                *)
GoesUp(s, r) ==
  /\ IsUp(r)
  /\ \/ IsUp(svc[s])
     \/ svc[s].state = "STARTING" /\ (svc_may_start(s, svc) \/ IsLoose(svc[s]))

LEMMA UpMove ==
  ASSUME NEW s \in Services, NEW r, svc \in [Services -> SvcRecord],
         Becomes(s, r), GoesUp(s, r)
  PROVE  L!LifecycleStep(s)
<1>1. r \in SvcRecord /\ svc'[s] = r /\ svc[s] \in SvcRecord
  BY DEF Becomes
<1>2. PhaseOfSvc(s)' \in {"starting", "ready"}
  BY <1>1, PhaseKindsNext DEF GoesUp
<1>3. ~Waits(r)
  BY DEF GoesUp, IsUp, Waits
<1>4. L!Enter(s, L!Up)
  BY <1>2, <1>3, EnterMove DEF L!Up
<1>5. CASE IsUp(svc[s])
  <2>1. phases[s] \in L!Up
    BY <1>1, <1>5, PhaseKinds DEF L!Up, phases
  <2> QED
    BY <2>1, <1>4 DEF L!LifecycleStep, L!Proceed, phases
<1>6. CASE ~IsUp(svc[s])
  <2>1. svc[s].state = "STARTING" /\ Waits(svc[s]) /\ (svc_may_start(s, svc) \/ IsLoose(svc[s]))
    BY <1>6 DEF GoesUp, IsUp, Waits
  <2>2. phases[s] = "waiting" /\ (L!MayStart(s) \/ s \in LooseSvcs)
    BY <2>1, <1>1, PhaseKinds, MayIsMay DEF phases
  <2> QED
    BY <2>2, <1>4 DEF L!LifecycleStep, L!BeginStart, phases
<1> QED
  BY <1>5, <1>6

(* The stop sequence is entered or goes on.                                 *)
GoesDown(s, r) ==
  /\ IsDown(r)
  /\ svc[s].state = "STOPPING"
  /\ svc[s].begun \/ svc_may_stop(s, svc) \/ IsLoose(svc[s])

LEMMA DownMove ==
  ASSUME NEW s \in Services, NEW r, svc \in [Services -> SvcRecord],
         Becomes(s, r), GoesDown(s, r)
  PROVE  L!LifecycleStep(s)
<1>1. r \in SvcRecord /\ svc'[s] = r /\ svc[s] \in SvcRecord
  BY DEF Becomes
<1>2. PhaseOfSvc(s)' \in {"stopping", "stopped"}
  BY <1>1, PhaseKindsNext DEF GoesDown
<1>3. ~Waits(r)
  BY DEF GoesDown, IsDown, Waits
<1>4. L!Enter(s, L!Moving)
  BY <1>2, <1>3, EnterMove DEF L!Moving
<1>5. CASE svc[s].begun
  <2>1. phases[s] = "stopping"
    BY <1>1, <1>5, PhaseKinds DEF GoesDown, phases
  <2> QED
    BY <2>1, <1>4 DEF L!LifecycleStep, L!Proceed, phases
<1>6. CASE ~svc[s].begun
  <2>1. svc[s].state = "STOPPING" /\ Waits(svc[s]) /\ (svc_may_stop(s, svc) \/ IsLoose(svc[s]))
    BY <1>6 DEF GoesDown, Waits
  <2>2. phases[s] = "leaving" /\ (L!MayStop(s) \/ s \in LooseSvcs)
    BY <2>1, <1>1, PhaseKinds, MayIsMay DEF phases
  <2> QED
    BY <2>2, <1>4 DEF L!LifecycleStep, L!BeginStop, phases
<1> QED
  BY <1>5, <1>6

(* Asked for: svc_start() and svc_stop().                                   *)
LEMMA AskStartMove ==
  ASSUME NEW s \in Services, NEW r, svc \in [Services -> SvcRecord],
         Becomes(s, r), svc[s].state \notin {"STARTING", "READY"},
         \/ svc_may_start(s, svc) /\ IsUp(r)
         \/ ~svc_may_start(s, svc) /\ r.state = "STARTING" /\ ~r.begun
  PROVE  L!LifecycleStep(s)
<1>1. r \in SvcRecord /\ svc'[s] = r /\ svc[s] \in SvcRecord
  BY DEF Becomes
<1>2. phases[s] \in L!Moving \cup {"leaving"}
  <2>1. svc[s].state \in {"STOPPED", "STOPPING"} /\ svc[s].begun \in BOOLEAN
    BY <1>1 DEF SvcRecord, States
  <2>2. PhaseOfSvc(s) \in {"stopped", "stopping", "leaving"}
    BY <2>1 DEF PhaseOfSvc
  <2> QED
    BY <2>2 DEF L!Moving, phases
<1>3. CASE svc_may_start(s, svc) /\ IsUp(r)
  <2>1. PhaseOfSvc(s)' \in L!Up /\ ~Waits(r)
    BY <1>1, <1>3, PhaseKindsNext DEF L!Up, IsUp, Waits
  <2>2. L!Enter(s, L!Up) /\ L!MayStart(s)
    BY <1>3, <2>1, EnterMove, MayIsMay
  <2> QED
    BY <1>2, <2>2 DEF L!LifecycleStep, L!AskStart, phases
<1>4. CASE ~svc_may_start(s, svc) /\ r.state = "STARTING" /\ ~r.begun
  <2>1. PhaseOfSvc(s)' = "waiting"
    BY <1>1, <1>4, PhaseKindsNext
  <2>2. L!Wait(s, "waiting") /\ ~L!MayStart(s)
    BY <1>4, <2>1, WaitMove, MayIsMay
  <2> QED
    BY <1>2, <2>2 DEF L!LifecycleStep, L!AskStart, phases
<1> QED
  BY <1>3, <1>4

LEMMA AskStopMove ==
  ASSUME NEW s \in Services, NEW r, svc \in [Services -> SvcRecord],
         Becomes(s, r), svc[s].state \notin {"STOPPED", "STOPPING"},
         \/ svc_may_stop(s, svc) /\ IsDown(r)
         \/ ~svc_may_stop(s, svc) /\ r.state = "STOPPING" /\ ~r.begun
  PROVE  L!LifecycleStep(s)
<1>1. r \in SvcRecord /\ svc'[s] = r /\ svc[s] \in SvcRecord
  BY DEF Becomes
<1>2. phases[s] \in L!Up \cup {"waiting"}
  <2>1. svc[s].state \in {"STARTING", "READY"} /\ svc[s].begun \in BOOLEAN
    BY <1>1 DEF SvcRecord, States
  <2>2. PhaseOfSvc(s) \in {"starting", "ready", "waiting"}
    BY <2>1 DEF PhaseOfSvc
  <2> QED
    BY <2>2 DEF L!Up, phases
<1>3. CASE svc_may_stop(s, svc) /\ IsDown(r)
  <2>1. PhaseOfSvc(s)' \in L!Moving /\ ~Waits(r)
    BY <1>1, <1>3, PhaseKindsNext DEF L!Moving, IsDown, Waits
  <2>2. L!Enter(s, L!Moving) /\ L!MayStop(s)
    BY <1>3, <2>1, EnterMove, MayIsMay
  <2> QED
    BY <1>2, <2>2 DEF L!LifecycleStep, L!AskStop, phases
<1>4. CASE ~svc_may_stop(s, svc) /\ r.state = "STOPPING" /\ ~r.begun
  <2>1. PhaseOfSvc(s)' = "leaving"
    BY <1>1, <1>4, PhaseKindsNext
  <2>2. L!Wait(s, "leaving") /\ ~L!MayStop(s)
    BY <1>4, <2>1, WaitMove, MayIsMay
  <2> QED
    BY <1>2, <2>2 DEF L!LifecycleStep, L!AskStop, phases
<1> QED
  BY <1>3, <1>4

(* A child or a timer comes or goes and nobody notices.                     *)
LEMMA SilentMove ==
  ASSUME NEW s \in Services, NEW r, svc \in [Services -> SvcRecord],
         Becomes(s, r), r.state = svc[s].state, r.begun = svc[s].begun,
         IsLoose(r) <=> IsLoose(svc[s])
  PROVE  UNCHANGED <<phases, LooseSvcs>>
<1>1. r \in SvcRecord /\ svc'[s] = r /\ svc[s] \in SvcRecord
  BY DEF Becomes
<1>2. PhaseOfSvc(s)' = PhaseOfSvc(s)
  BY <1>1 DEF PhaseOfSvc
<1>3. phases' = [phases EXCEPT ![s] = PhaseOfSvc(s)] /\ LooseSvcs \ {s} = LooseSvcs' \ {s}
  BY <1>2, OnePhase
<1>4. phases' = phases
  BY <1>3 DEF phases
<1>5. s \in LooseSvcs' <=> s \in LooseSvcs
  BY <1>1, PhaseKinds, PhaseKindsNext
<1> QED
  BY <1>3, <1>4, <1>5

-----------------------------------------------------------------------------
(* What the functions of svc.c leave behind.                                *)

(* v with another record for s.                                             *)
OnlyAt(s, v, w) == w = [v EXCEPT ![s] = w[s]]

LEMMA SpawnedOnlyAt ==
  ASSUME NEW s \in Services, NEW v \in [Services -> SvcRecord], NEW job, NEW q,
         NEW o \in svc_spawn(s, job, q)
  PROVE  /\ Spawned(s, v, o) \in [Services -> SvcRecord]
         /\ OnlyAt(s, v, Spawned(s, v, o))
         /\ Spawned(s, v, o)[s].state = v[s].state
         /\ Spawned(s, v, o)[s].begun = v[s].begun
<1>1. o.child \in Pids \cup {NoPid}
  BY DEF svc_spawn, FreeSlots
<1> DEFINE r == [v[s] EXCEPT !.child = o.child, !.armed = IF o.child = NoPid THEN @ ELSE TRUE]
<1>2. r \in SvcRecord /\ r.state = v[s].state /\ r.begun = v[s].begun
  BY <1>1 DEF SvcRecord
<1>3. Spawned(s, v, o) = [v EXCEPT ![s] = r]
  BY DEF Spawned
<1> QED
  BY <1>2, <1>3 DEF OnlyAt

(* A service marked ready is up.                                            *)
LEMMA MarkedReady ==
  ASSUME NEW s \in Services, NEW v, NEW y \in [Services -> SvcRecord], NEW q, NEW c,
         OnlyAt(s, v, y), svc_mark_ready(s, y, q, c)
  PROVE  OnlyAt(s, v, svc') /\ IsUp(svc'[s])
<1> DEFINE r == [y[s] EXCEPT !.state = "READY"]
<1>1. r.state = "READY" /\ svc' = [y EXCEPT ![s] = r]
  BY DEF svc_mark_ready, Return, SvcRecord
<1> QED
  BY <1>1 DEF OnlyAt, IsUp

(* svc_spawn_start_cmd(): going up or up.                                   *)
LEMMA StartCmdUp ==
  ASSUME NEW s \in Services, NEW v \in [Services -> SvcRecord], NEW q, NEW c,
         v[s].state = "STARTING", svc_spawn_start_cmd(s, v, q, c)
  PROVE  OnlyAt(s, v, svc') /\ IsUp(svc'[s])
<1> DEFINE rw == [v[s] EXCEPT !.begun = TRUE]
           rx == [rw EXCEPT !.child = NoPid]
           w  == [v EXCEPT ![s].begun = TRUE]
           x  == [w EXCEPT ![s].child = NoPid]
<1>1. rw \in SvcRecord /\ rx \in SvcRecord /\ rw.state = "STARTING" /\ rw.begun = TRUE
  BY DEF SvcRecord
<1>2. w = [v EXCEPT ![s] = rw] /\ x = [v EXCEPT ![s] = rx]
  OBVIOUS
<1>3. /\ w \in [Services -> SvcRecord] /\ OnlyAt(s, v, w)
      /\ w[s].state = "STARTING" /\ w[s].begun = TRUE
      /\ x \in [Services -> SvcRecord] /\ OnlyAt(s, v, x)
  BY <1>1, <1>2 DEF OnlyAt
<1> HIDE DEF rw, rx, w, x
<1>4. ASSUME NEW job, NEW o \in svc_spawn(s, job, q)
      PROVE  /\ Spawned(s, w, o) \in [Services -> SvcRecord]
             /\ OnlyAt(s, v, Spawned(s, w, o))
             /\ IsUp(Spawned(s, w, o)[s])
  <2>1. /\ Spawned(s, w, o) \in [Services -> SvcRecord]
        /\ OnlyAt(s, w, Spawned(s, w, o))
        /\ Spawned(s, w, o)[s].state = "STARTING"
        /\ Spawned(s, w, o)[s].begun = TRUE
    BY <1>3, SpawnedOnlyAt
  <2>2. OnlyAt(s, v, Spawned(s, w, o))
    BY <2>1, <1>3 DEF OnlyAt
  <2> QED
    BY <2>1, <2>2 DEF IsUp
<1>5. CASE \E o \in svc_spawn(s, "start", q) : svc' = Spawned(s, w, o)
  BY <1>4, <1>5
<1>6. CASE \E o \in svc_spawn(s, "daemon", q) : svc' = Spawned(s, w, o)
  BY <1>4, <1>6
<1>7. CASE \E o \in svc_spawn(s, "daemon", q) : svc_mark_ready(s, Spawned(s, w, o), o.proc, c)
  <2> PICK o \in svc_spawn(s, "daemon", q) : svc_mark_ready(s, Spawned(s, w, o), o.proc, c)
    BY <1>7
  <2> QED
    BY <1>4, MarkedReady
<1>8. CASE svc_mark_ready(s, x, q, c)
  BY <1>3, <1>8, MarkedReady
<1>9. \/ \E o \in svc_spawn(s, "start", q) : svc' = Spawned(s, w, o)
      \/ \E o \in svc_spawn(s, "daemon", q) : svc' = Spawned(s, w, o)
      \/ \E o \in svc_spawn(s, "daemon", q) : svc_mark_ready(s, Spawned(s, w, o), o.proc, c)
      \/ svc_mark_ready(s, x, q, c)
  BY DEF svc_spawn_start_cmd, Return, w, x, rw, rx
<1> QED
  BY <1>5, <1>6, <1>7, <1>8, <1>9

(* svc_spawn_stop_cmd(): going down or down.                                *)
LEMMA StopCmdDown ==
  ASSUME NEW s \in Services, NEW v \in [Services -> SvcRecord], NEW q, NEW c,
         v[s].state = "STOPPING", svc_spawn_stop_cmd(s, v, q, c)
  PROVE  OnlyAt(s, v, svc') /\ IsDown(svc'[s])
<1> DEFINE r == [v[s] EXCEPT !.stop_cmd = @ + 1, !.begun = TRUE]
           w == [v EXCEPT ![s].stop_cmd = @ + 1, ![s].begun = TRUE]
<1>1. r \in SvcRecord /\ r.state = "STOPPING" /\ r.begun = TRUE
  <2>1. v[s] \in SvcRecord
    OBVIOUS
  <2>2. v[s].stop_cmd + 1 \in Nat
    BY <2>1 DEF SvcRecord
  <2>3. r = [[v[s] EXCEPT !.stop_cmd = v[s].stop_cmd + 1] EXCEPT !.begun = TRUE]
    BY <2>1 DEF SvcRecord
  <2> QED
    BY <2>1, <2>2, <2>3 DEF SvcRecord
<1>2. w = [v EXCEPT ![s] = r]
  OBVIOUS
<1>3. w \in [Services -> SvcRecord] /\ OnlyAt(s, v, w) /\ w[s] = r
  BY <1>1, <1>2 DEF OnlyAt
<1>4. ASSUME NEW o \in svc_spawn(s, "stop", q), svc' = Spawned(s, w, o)
      PROVE  OnlyAt(s, v, svc') /\ IsDown(svc'[s])
  <2> HIDE DEF r, w
  <2>0. w[s].state = "STOPPING" /\ w[s].begun = TRUE
    BY <1>1, <1>3
  <2>1. OnlyAt(s, w, svc') /\ svc'[s].state = "STOPPING" /\ svc'[s].begun = TRUE
    BY <1>3, <1>4, <2>0, SpawnedOnlyAt
  <2> QED
    BY <2>1, <1>3 DEF OnlyAt, IsDown
<1>5. ASSUME svc_mark_stopped(s, w, q, c)
      PROVE  OnlyAt(s, v, svc') /\ IsDown(svc'[s])
  <2> DEFINE z == [w[s] EXCEPT !.child = NoPid, !.state = "STOPPED"]
  <2>1. z.state = "STOPPED" /\ svc' = [w EXCEPT ![s] = z]
    BY <1>1, <1>3, <1>5 DEF svc_mark_stopped, Return, SvcRecord
  <2> QED
    BY <2>1, <1>3 DEF OnlyAt, IsDown
<1>6. svc_mark_stopped(s, w, q, c) \/ \E o \in svc_spawn(s, "stop", q) : svc' = Spawned(s, w, o)
  BY DEF svc_spawn_stop_cmd, Return
<1> QED
  BY <1>4, <1>5, <1>6

-----------------------------------------------------------------------------
(* The actions.  Every one needs types before and after, which SvcProofs    *)
(* has shown.                                                               *)
Typed  == svc \in [Services -> SvcRecord] /\ svc' \in [Services -> SvcRecord]
Silent == UNCHANGED <<phases, LooseSvcs>>
Step   == (\E s \in Services : L!LifecycleStep(s)) \/ Silent

LEMMA BecomesAfter ==
  ASSUME NEW s \in Services, NEW v, Typed, OnlyAt(s, svc, v), OnlyAt(s, v, svc')
  PROVE  Becomes(s, svc'[s])
BY DEF Typed, OnlyAt, Becomes

(* The start (stop) sequence of s is entered or goes on, in whatever way v  *)
(* differs from svc.                                                        *)
LEMMA StartCmdStep ==
  ASSUME NEW s \in Services, NEW v \in [Services -> SvcRecord], NEW q, NEW c,
         Typed, OnlyAt(s, svc, v), v[s].state = "STARTING",
         \/ IsUp(svc[s])
         \/ svc[s].state = "STARTING" /\ (svc_may_start(s, svc) \/ IsLoose(svc[s])),
         svc_spawn_start_cmd(s, v, q, c)
  PROVE  Step
<1>1. OnlyAt(s, v, svc') /\ IsUp(svc'[s])
  BY StartCmdUp
<1>2. Becomes(s, svc'[s]) /\ GoesUp(s, svc'[s])
  BY <1>1, BecomesAfter DEF GoesUp
<1> QED
  BY <1>2, UpMove DEF Typed, Step

LEMMA StopCmdStep ==
  ASSUME NEW s \in Services, NEW v \in [Services -> SvcRecord], NEW q, NEW c,
         Typed, OnlyAt(s, svc, v), v[s].state = "STOPPING", svc[s].state = "STOPPING",
         svc[s].begun \/ svc_may_stop(s, svc) \/ IsLoose(svc[s]),
         svc_spawn_stop_cmd(s, v, q, c)
  PROVE  Step
<1>1. OnlyAt(s, v, svc') /\ IsDown(svc'[s])
  BY StopCmdDown
<1>2. Becomes(s, svc'[s]) /\ GoesDown(s, svc'[s])
  BY <1>1, BecomesAfter DEF GoesDown
<1> QED
  BY <1>2, DownMove DEF Typed, Step

(* Nothing changes in any service.                                          *)
LEMMA NoServiceStep ==
  ASSUME svc' = svc
  PROVE  Step
BY DEF Step, Silent, phases, PhaseOfSvc, LooseSvcs

LEMMA NotifyStep ==
  ASSUME TypeOK, Typed, Notify
  PROVE  Step
<1> DEFINE s == Head(calls).sink
           src == Head(calls).src
           rest == Tail(calls)
<1>1. s \in Services /\ OnlyAt(s, svc, svc)
  <2>1. Head(calls) \in Call
    BY TailElements DEF TypeOK, Notify
  <2> QED
    BY <2>1 DEF Call, Typed, OnlyAt
<1>2. CASE svc_handle_on_notif(s, src, rest)
  <2>1. \/ svc' = svc
        \/ /\ svc[s].state = "STARTING" /\ svc_may_start(s, svc)
           /\ svc_spawn_start_cmd(s, svc, proc, rest)
    BY <1>2 DEF svc_handle_on_notif, Return
  <2> QED
    BY <2>1, <1>1, StartCmdStep, NoServiceStep DEF Typed
<1>3. CASE svc_handle_off_notif(s, src, rest)
  <2>1. \/ svc' = svc
        \/ /\ svc[s].state = "STOPPING" /\ svc_may_stop(s, svc)
           /\ svc_spawn_stop_cmd(s, svc, proc, rest)
    BY <1>3 DEF svc_handle_off_notif, Return
  <2> QED
    BY <2>1, <1>1, StopCmdStep, NoServiceStep DEF Typed
<1> QED
  BY <1>2, <1>3 DEF Notify

LEMMA StartStep ==
  ASSUME NEW s \in Services, Typed, Start(s)
  PROVE  Step
<1> DEFINE r == [svc[s] EXCEPT !.on = TRUE, !.state = "STARTING", !.expire = "on",
                               !.start_cmd = 0, !.begun = FALSE]
           v == [svc EXCEPT ![s].on = TRUE, ![s].state = "STARTING",
                            ![s].expire = "on", ![s].start_cmd = 0,
                            ![s].begun = FALSE]
<1>1. svc[s] \in SvcRecord
  BY DEF Typed
<1>2. r \in SvcRecord /\ r.state = "STARTING" /\ r.begun = FALSE
  BY <1>1 DEF SvcRecord, States
<1>3. v = [svc EXCEPT ![s] = r]
  OBVIOUS
<1>4. /\ v \in [Services -> SvcRecord] /\ OnlyAt(s, svc, v) /\ v[s] = r
      /\ \A t \in Services \ {s} : v[t] = svc[t]
  BY <1>2, <1>3 DEF Typed, OnlyAt
<1> HIDE DEF v, r
<1>5. svc_may_start(s, v) <=> svc_may_start(s, svc)
  BY <1>4, GraphAssumption DEF svc_may_start
<1>6. svc[s].state \notin {"STARTING", "READY"}
  BY DEF Start
<1>7. CASE svc_may_start(s, v) /\ svc_spawn_start_cmd(s, v, proc, <<>>)
  <2>1. OnlyAt(s, v, svc') /\ IsUp(svc'[s])
    BY <1>2, <1>4, <1>7, StartCmdUp
  <2>2. Becomes(s, svc'[s])
    BY <2>1, <1>4, BecomesAfter
  <2> QED
    BY <2>1, <2>2, <1>5, <1>6, <1>7, AskStartMove DEF Typed, Step
<1>8. CASE ~svc_may_start(s, v) /\ svc' = v
  <2>1. Becomes(s, r)
    BY <1>2, <1>4, <1>8 DEF Becomes, OnlyAt
  <2> QED
    BY <2>1, <1>2, <1>5, <1>6, <1>8, AskStartMove DEF Typed, Step
<1>9. \/ svc_may_start(s, v) /\ svc_spawn_start_cmd(s, v, proc, <<>>)
      \/ ~svc_may_start(s, v) /\ svc' = v
  BY DEF Start, svc_start, Return, v
<1> QED
  BY <1>7, <1>8, <1>9

LEMMA StopStep ==
  ASSUME NEW s \in Services, Typed, Stop(s)
  PROVE  Step
<1> DEFINE r == [svc[s] EXCEPT !.on = FALSE, !.state = "STOPPING", !.expire = "off",
                               !.stop_cmd = -1, !.begun = FALSE]
           z == [r EXCEPT !.armed = TRUE, !.begun = TRUE]
           v == [svc EXCEPT ![s].on = FALSE, ![s].state = "STOPPING",
                            ![s].expire = "off", ![s].stop_cmd = -1,
                            ![s].begun = FALSE]
           w == [v EXCEPT ![s].armed = TRUE, ![s].begun = TRUE]
<1>1. svc[s] \in SvcRecord
  BY DEF Typed
<1>2. /\ r \in SvcRecord /\ r.state = "STOPPING" /\ r.begun = FALSE
      /\ z \in SvcRecord /\ z.state = "STOPPING" /\ z.begun = TRUE
  BY <1>1 DEF SvcRecord, States
<1>3. v = [svc EXCEPT ![s] = r] /\ w = [svc EXCEPT ![s] = z]
  OBVIOUS
<1>4. /\ v \in [Services -> SvcRecord] /\ OnlyAt(s, svc, v) /\ v[s] = r
      /\ \A t \in Services \ {s} : v[t] = svc[t]
  BY <1>2, <1>3 DEF Typed, OnlyAt
<1> HIDE DEF w, v, z, r
<1>5. svc_may_stop(s, v) <=> svc_may_stop(s, svc)
  BY <1>4, GraphAssumption DEF svc_may_stop
<1>6. svc[s].state \notin {"STOPPED", "STOPPING"}
  BY DEF Stop
<1>7. CASE svc_may_stop(s, v) /\ svc_spawn_stop_cmd(s, v, proc, <<>>)
  <2>1. OnlyAt(s, v, svc') /\ IsDown(svc'[s])
    BY <1>2, <1>4, <1>7, StopCmdDown
  <2>2. Becomes(s, svc'[s])
    BY <2>1, <1>4, BecomesAfter
  <2> QED
    BY <2>1, <2>2, <1>5, <1>6, <1>7, AskStopMove DEF Typed, Step
<1>8. CASE svc_may_stop(s, v) /\ svc' = w
  <2>1. Becomes(s, z) /\ IsDown(z)
    BY <1>2, <1>3, <1>8 DEF Becomes, IsDown
  <2> QED
    BY <2>1, <1>5, <1>6, <1>8, AskStopMove DEF Typed, Step
<1>9. CASE ~svc_may_stop(s, v) /\ svc' = v
  <2>1. Becomes(s, r)
    BY <1>2, <1>3, <1>9 DEF Becomes
  <2> QED
    BY <2>1, <1>2, <1>5, <1>6, <1>9, AskStopMove DEF Typed, Step
<1>10. \/ svc_may_stop(s, v) /\ svc_spawn_stop_cmd(s, v, proc, <<>>)
       \/ svc_may_stop(s, v) /\ svc' = w
       \/ ~svc_may_stop(s, v) /\ svc' = v
  BY DEF Stop, svc_stop, Return, v, w
<1> QED
  BY <1>7, <1>8, <1>9, <1>10

(* An exit finds its service waiting only if it is a leftover of an earlier *)
(* life, and then the service was loose.                                    *)
LEMMA ReapStep ==
  ASSUME NEW p \in Pids, Typed, Reap(p)
  PROVE  Step
<1> DEFINE q == [proc EXCEPT ![p] = FreeSlot]
<1>1. CASE svc' = svc
  BY <1>1, NoServiceStep
<1>2. ASSUME NEW s \in Services, svc[s].child = p, svc_handle_on_evts(s, proc[p].st, q)
      PROVE  Step
  <2> DEFINE r1 == [svc[s] EXCEPT !.start_cmd = @ + 1]
             r2 == [svc[s] EXCEPT !.state = "STARTING"]
             r3 == [svc[s] EXCEPT !.child = NoPid]
  <2>1. svc[s] \in SvcRecord /\ p # NoPid
    BY KernelAssumption DEF Typed
  <2>2. /\ r1 \in SvcRecord /\ r1.state = svc[s].state
        /\ r2 \in SvcRecord /\ r2.state = "STARTING"
        /\ r3 \in SvcRecord /\ r3.state = svc[s].state /\ r3.begun = svc[s].begun
        /\ r3.armed = svc[s].armed
    <3>1. svc[s].start_cmd + 1 \in Nat
      BY <2>1 DEF SvcRecord
    <3> QED
      BY <2>1, <3>1 DEF SvcRecord, States
  <2>3. ASSUME NEW r \in SvcRecord
        PROVE  /\ [svc EXCEPT ![s] = r] \in [Services -> SvcRecord]
               /\ OnlyAt(s, svc, [svc EXCEPT ![s] = r])
               /\ [svc EXCEPT ![s] = r][s] = r
    BY DEF Typed, OnlyAt
  <2> HIDE DEF r1, r2, r3
  <2>4. \/ IsUp(svc[s])
        \/ svc[s].state = "STARTING" /\ IsLoose(svc[s])
        \/ svc[s].state \notin {"STARTING", "READY"}
    BY <1>2, <2>1 DEF IsUp, IsLoose, Waits
  <2>5. CASE svc[s].state = "STARTING" /\ svc_spawn_start_cmd(s, [svc EXCEPT ![s] = r1], q, <<>>)
    BY <2>2, <2>3, <2>4, <2>5, StartCmdStep
  <2>6. CASE svc[s].state = "STARTING" /\ svc_spawn_start_cmd(s, svc, q, <<>>)
    BY <2>4, <2>6, StartCmdStep DEF Typed, OnlyAt
  <2>7. CASE svc[s].state = "READY" /\ svc_spawn_start_cmd(s, [svc EXCEPT ![s] = r2], q, <<>>)
    BY <2>2, <2>3, <2>4, <2>7, StartCmdStep
  <2>8. CASE svc[s].armed /\ svc' = [svc EXCEPT ![s] = r3]
    <3>1. IsLoose(r3) <=> IsLoose(svc[s])
      BY <2>2, <2>8 DEF IsLoose, Waits
    <3>2. Becomes(s, r3)
      BY <2>2, <2>8 DEF Becomes
    <3> QED
      BY <3>1, <3>2, <2>2, SilentMove DEF Typed, Step, Silent
  <2> QED
    BY <1>2, <2>5, <2>6, <2>7, <2>8 DEF svc_handle_on_evts, svc_respawn, Return, r1, r2, r3
<1>3. ASSUME NEW s \in Services, svc[s].child = p, svc_handle_off_evts(s, q)
      PROVE  Step
  <2>1. svc[s] \in SvcRecord /\ p # NoPid /\ OnlyAt(s, svc, svc)
    BY KernelAssumption DEF Typed, OnlyAt
  <2>2. svc[s].state = "STOPPING" /\ svc_spawn_stop_cmd(s, svc, q, <<>>)
    BY <1>3 DEF svc_handle_off_evts
  <2>3. svc[s].begun \/ IsLoose(svc[s])
    BY <1>3, <2>1, <2>2 DEF IsLoose, Waits
  <2> QED
    BY <2>1, <2>2, <2>3, StopCmdStep DEF Typed
<1> QED
  BY <1>1, <1>2, <1>3 DEF Reap, Return

(* So does a timer.                                                         *)
LEMMA ExpireStep ==
  ASSUME NEW s \in Services, Typed, Expire(s)
  PROVE  Step
<1> DEFINE r == [svc[s] EXCEPT !.armed = FALSE]
           v == [svc EXCEPT ![s].armed = FALSE]
<1>1. svc[s] \in SvcRecord /\ svc[s].armed
  BY DEF Typed, Expire
<1>2. /\ r \in SvcRecord /\ r.state = svc[s].state /\ r.begun = svc[s].begun
      /\ r.child = svc[s].child
  BY <1>1 DEF SvcRecord
<1>3. v = [svc EXCEPT ![s] = r]
  OBVIOUS
<1>4. v \in [Services -> SvcRecord] /\ OnlyAt(s, svc, v) /\ v[s] = r
  BY <1>2, <1>3 DEF Typed, OnlyAt
<1>5. ASSUME svc' = v, \/ svc[s].state \in {"READY", "STOPPED"}
                       \/ svc[s].child # NoPid
      PROVE  Step
  <2>1. Becomes(s, r)
    BY <1>2, <1>3, <1>5 DEF Becomes
  <2>2. IsLoose(r) <=> IsLoose(svc[s])
    BY <1>1, <1>2, <1>5 DEF IsLoose, Waits
  <2> QED
    BY <2>1, <2>2, <1>2, SilentMove DEF Typed, Step, Silent
<1> HIDE DEF v, r
<1>6. CASE svc_expire_on(s, v)
  <2>1. \/ svc' = v /\ (svc[s].state = "READY" \/ svc[s].child # NoPid)
        \/ svc[s].state = "STARTING" /\ svc_spawn_start_cmd(s, v, proc, <<>>)
    BY <1>2, <1>4, <1>6 DEF svc_expire_on, svc_respawn, Return
  <2>2. CASE svc[s].state = "STARTING" /\ svc_spawn_start_cmd(s, v, proc, <<>>)
    <3>1. IsUp(svc[s]) \/ IsLoose(svc[s])
      BY <1>1, <2>2 DEF IsUp, IsLoose, Waits
    <3> QED
      BY <3>1, <1>2, <1>4, <2>2, StartCmdStep
  <2> QED
    BY <2>1, <2>2, <1>5
<1>7. CASE svc_expire_off(s, v)
  <2>1. \/ svc' = v /\ (svc[s].state = "STOPPED" \/ svc[s].child # NoPid)
        \/ svc[s].state = "STOPPING" /\ svc_spawn_stop_cmd(s, v, proc, <<>>)
    BY <1>2, <1>4, <1>7 DEF svc_expire_off, svc_kill_works, Return
  <2>2. CASE svc[s].state = "STOPPING" /\ svc_spawn_stop_cmd(s, v, proc, <<>>)
    <3>1. svc[s].begun \/ IsLoose(svc[s])
      BY <1>1, <2>2 DEF IsLoose, Waits
    <3> QED
      BY <3>1, <1>2, <1>4, <2>2, StopCmdStep
  <2> QED
    BY <2>1, <2>2, <1>5
<1> QED
  BY <1>6, <1>7 DEF Expire, v

-----------------------------------------------------------------------------
(* The refinement.                                                          *)

LEMMA InitMaps == SvcInit => L!LifecycleInit
<1> SUFFICES ASSUME SvcInit PROVE L!LifecycleInit
  OBVIOUS
<1>1. \A s \in Services : svc[s].state = "STOPPED"
  BY DEF SvcInit, svc_init
<1>2. phases = [s \in Services |-> "stopped"] /\ LooseSvcs = {}
  BY <1>1 DEF phases, PhaseOfSvc, LooseSvcs
<1> QED
  BY <1>2 DEF L!LifecycleInit, phases

LEMMA NextMaps ==
  ASSUME TypeOK, TypeOK', [SvcNext]_vars
  PROVE  [L!LifecycleNext]_(L!lvars)
<1>1. Typed
  BY DEF TypeOK, Typed
<1>2. ASSUME UNCHANGED vars PROVE Step
  BY <1>2, NoServiceStep DEF vars
<1>3. ASSUME NEW p \in Pids, NEW status \in {"ok", "bad"}, Exit(p, status) PROVE Step
  BY <1>3, NoServiceStep DEF Exit
<1>4. ASSUME Notify PROVE Step
  BY <1>1, <1>4, NotifyStep
<1>5. ASSUME NEW p \in Pids, Reap(p) PROVE Step
  BY <1>1, <1>5, ReapStep
<1>6. ASSUME NEW s \in Services, Expire(s) PROVE Step
  BY <1>1, <1>6, ExpireStep
<1>7. ASSUME NEW s \in Services, Start(s) PROVE Step
  BY <1>1, <1>7, StartStep
<1>8. ASSUME NEW s \in Services, Stop(s) PROVE Step
  BY <1>1, <1>8, StopStep
<1>9. Step
  BY <1>2, <1>3, <1>4, <1>5, <1>6, <1>7, <1>8 DEF SvcNext
<1>10. CASE Silent
  BY <1>10 DEF Silent, L!lvars, phases
<1>11. CASE \E s \in Services : L!LifecycleStep(s)
  BY <1>11 DEF L!LifecycleNext
<1> QED
  BY <1>9, <1>10, <1>11 DEF Step

(* Services that notify, fork, reap and time out do what Lifecycle says: in *)
(* any dependency graph and under any interleaving a service that waits     *)
(* goes on only once its sources are there, or because of what its earlier  *)
(* life has left behind (svc.c, all handlers).                              *)
THEOREM SvcImplementsLifecycle == SvcSpec => ImplementsLifecycle
<1>1. SvcInit => L!LifecycleInit
  BY InitMaps
<1>2. TypeOK /\ TypeOK' /\ [SvcNext]_vars => [L!LifecycleNext]_(L!lvars)
  BY NextMaps
<1> QED
  BY <1>1, <1>2, TypeCorrect, PTL DEF SvcSpec, ImplementsLifecycle, L!LifecycleSpec
=============================================================================
