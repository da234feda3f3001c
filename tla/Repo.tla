-------------------------------- MODULE Repo --------------------------------
(***************************************************************************)
(* The service repository (repo.c) and the registration of observers       *)
(* (svc.c, notif.c): configuration files are loaded in directory order,    *)
(* then every service is registered with the sources that its starton and  *)
(* stopon settings name.  Each kind of setting builds a graph twice: the   *)
(* sources a service polls (notif_poll) and the observers a service        *)
(* notifies (a list of the same struct notif).  The graphs Svc takes as    *)
(* constants are the ones that are built here.                             *)
(***************************************************************************)
EXTENDS Integers, SequencesExt

CONSTANTS
  Files,    \* configuration files, each describing one service
  Names,    \* service names
  KindList, \* the settings in the order they are registered
  MaxNames, \* per setting, the bound on the names a file gives it
  NoSvc     \* a notif that is not registered: src = NULL

VARIABLES
  conf,     \* what the files read so far say: name, validity, settings
  pc,       \* "load", "setup", "run", "clear" or "end"
  dir,      \* files of the directory still to be read
  list,     \* the repository, in order
  at,       \* where the loops of the registration are: service, setting, name
  poll,     \* per kind and service: the sources of its notif_poll members
  obsrv     \* per kind and service: its observers

vars == <<conf, pc, dir, list, at, poll, obsrv>>

Kinds == ToSet(KindList)

(* A setting is registered in one place of tinit_repo_load() only.          *)
ASSUME RepoAssumption ==
  /\ KindList \in Seq(Kinds) \ {<<>>}
  /\ IsInjective(KindList)
  /\ MaxNames \in [Kinds -> Nat]
  /\ NoSvc \notin Files

(* A service is known by its file.  conf_load_root() refuses a setting that *)
(* names a service twice or names the service itself.  Of a file it refuses *)
(* nothing is kept.                                                         *)
NameLists(name, kind) ==
  {seq \in UNION {[1 .. n -> Names \ {name}] : n \in 0 .. MaxNames[kind]} :
     IsInjective(seq)}

Settings(name) ==
  {on \in [Kinds -> UNION {NameLists(name, kind) : kind \in Kinds}] :
     \A kind \in Kinds : on[kind] \in NameLists(name, kind)}

Confs ==
  [name : Names, valid : {FALSE}, on : [Kinds -> {<<>>}]]
    \cup UNION {[name : {name}, valid : {TRUE}, on : Settings(name)]
                  : name \in Names}

Sources(kind, s)   == {poll[kind][s][i] : i \in DOMAIN poll[kind][s]} \ {NoSvc}
Observers(kind, s) == {obsrv[kind][s][i] : i \in DOMAIN obsrv[kind][s]}

(* notif_create_sink_poll(): as many members as the setting has names.      *)
PollNr(kind, s) == Len(conf[s].on[kind])

-----------------------------------------------------------------------------
(* The first service of that name.                                          *)
SearchByName(name) ==
  {list[i] : i \in {i \in DOMAIN list :
                      /\ conf[list[i]].name = name
                      /\ \A j \in 1 .. i - 1 : conf[list[j]].name # name}}

(* Definitions named ..._slip are faulty variants, used by no action: here, *)
(* direct sources only.                                                     *)
HasNotifier_slip(kind, s, match) == s = match \/ match \in Sources(kind, s)

(* svc_has_starton_notifier() and svc_has_stopon_notifier(): is match s, or *)
(* a source of s, or a source of one of these.                              *)
HasNotifier(kind, s, match) ==
  LET has[t \in Files] == t = match \/ \E n \in Sources(kind, t) : has[n]
  IN  has[s]

(* Leaves the sink unset.                                                   *)
Register_unset_slip(kind, s, o) ==
  /\ poll'  = [poll EXCEPT ![kind][o] = Append(@, s)]
  /\ obsrv' = [obsrv EXCEPT ![kind][s] = Append(@, NoSvc)]

(* Takes the source for the sink.                                           *)
Register_sink_slip(kind, s, o) ==
  /\ poll'  = [poll EXCEPT ![kind][s] = Append(@, o)]
  /\ obsrv' = [obsrv EXCEPT ![kind][s] = Append(@, o)]

(* notif_register_poll_sink().                                              *)
Register(kind, s, o) ==
  /\ poll'  = [poll EXCEPT ![kind][o] = Append(@, s)]
  /\ obsrv' = [obsrv EXCEPT ![kind][s] = Append(@, o)]

-----------------------------------------------------------------------------
(* readdir() returns the entries in any order; an invalid file is skipped.  *)
LoadSvc ==
  /\ pc = "load"
  /\ \E f \in dir, c \in Confs :
       /\ dir' = dir \ {f}
       /\ conf' = [g \in DOMAIN conf \cup {f} |-> IF g = f THEN c ELSE conf[g]]
       /\ list' = IF c.valid THEN Append(list, f) ELSE list
  /\ UNCHANGED <<pc, at, poll, obsrv>>

(* The end of the directory.                                                *)
LoadEnd ==
  /\ pc = "load"
  /\ dir = {}
  /\ pc' = "setup"
  /\ at' = [svc |-> 1, kind |-> 1, name |-> 1]
  /\ UNCHANGED <<conf, dir, list, poll, obsrv>>

(* readdir() or an allocation fails: what has been loaded is cleared.       *)
LoadFail ==
  /\ pc = "load"
  /\ pc' = "clear"
  /\ UNCHANGED <<conf, dir, list, at, poll, obsrv>>

(* The loops of tinit_repo_load() and tinit_repo_setup_svc_...() are at the *)
(* service o, the setting kind and its list of names.                       *)
CurrentSvc   == list[at.svc]
CurrentKind  == KindList[at.kind]
CurrentNames == conf[CurrentSvc].on[CurrentKind]

(* svc_register_..._obsrv(): an unknown name is skipped, a loop refused.    *)
Setup ==
  /\ pc = "setup"
  /\ at.svc \in DOMAIN list
  /\ at.name \in DOMAIN CurrentNames
  /\ \/ \E src \in SearchByName(CurrentNames[at.name]) :
          \/ /\ ~HasNotifier(CurrentKind, src, CurrentSvc)
             /\ Register(CurrentKind, src, CurrentSvc)
          \/ /\ HasNotifier(CurrentKind, src, CurrentSvc)
             /\ UNCHANGED <<poll, obsrv>>
     \/ /\ SearchByName(CurrentNames[at.name]) = {}
        /\ UNCHANGED <<poll, obsrv>>
  /\ at' = [at EXCEPT !.name = @ + 1]
  /\ UNCHANGED <<conf, pc, dir, list>>

(* The next setting of the service, or the next service.                    *)
SetupNext ==
  /\ pc = "setup"
  /\ at.svc \in DOMAIN list
  /\ at.name \notin DOMAIN CurrentNames
  /\ \/ /\ at.kind < Len(KindList)
        /\ at' = [svc |-> at.svc, kind |-> at.kind + 1, name |-> 1]
     \/ /\ at.kind = Len(KindList)
        /\ at' = [svc |-> at.svc + 1, kind |-> 1, name |-> 1]
  /\ UNCHANGED <<conf, pc, dir, list, poll, obsrv>>

SetupEnd ==
  /\ pc = "setup"
  /\ at.svc \notin DOMAIN list
  /\ pc' = "run"
  /\ UNCHANGED <<conf, dir, list, at, poll, obsrv>>

(* main() after tinit_loop().                                               *)
Unload ==
  /\ pc = "run"
  /\ pc' = "clear"
  /\ UNCHANGED <<conf, dir, list, at, poll, obsrv>>

(* notif_unregister_sink() of every member of the list of s.                *)
LoseSource(s, kind, o) ==
  [i \in DOMAIN poll[kind][o] |->
     IF poll[kind][o][i] = s THEN NoSvc ELSE poll[kind][o][i]]

(* svc_destroy() of the first service, as tinit_repo_clear() does: its      *)
(* observers lose it as a source, then it leaves the lists of its sources.  *)
(* Here without the latter.                                                 *)
ClearSvc_slip ==
  /\ pc = "clear"
  /\ list # <<>>
  /\ LET s == Head(list)
     IN  /\ poll' = [kind \in Kinds |-> [o \in Files |->
                       IF o = s THEN <<>>
                       ELSE IF o \in Observers(kind, s) THEN LoseSource(s, kind, o)
                       ELSE poll[kind][o]]]
         /\ obsrv' = [kind \in Kinds |-> [obsrv[kind] EXCEPT ![s] = <<>>]]
  /\ list' = Tail(list)
  /\ UNCHANGED <<conf, pc, dir, at>>

ClearSvc ==
  /\ pc = "clear"
  /\ list # <<>>
  /\ LET s == Head(list)
     IN  /\ poll' = [kind \in Kinds |-> [o \in Files |->
                       IF o = s THEN <<>>
                       ELSE IF o \in Observers(kind, s) THEN LoseSource(s, kind, o)
                       ELSE poll[kind][o]]]
         /\ obsrv' = [kind \in Kinds |-> [o \in Files |->
                       IF o = s THEN <<>>
                       ELSE IF o \in Sources(kind, s) THEN RemoveFirst(obsrv[kind][o], s)
                       ELSE obsrv[kind][o]]]
  /\ list' = Tail(list)
  /\ UNCHANGED <<conf, pc, dir, at>>

ClearEnd ==
  /\ pc = "clear"
  /\ list = <<>>
  /\ pc' = "end"
  /\ UNCHANGED <<conf, dir, list, at, poll, obsrv>>

RepoInit ==
  /\ conf = << >>
  /\ pc = "load"
  /\ dir = Files
  /\ list = <<>>
  /\ at = [svc |-> 1, kind |-> 1, name |-> 1]
  /\ poll  = [kind \in Kinds |-> [s \in Files |-> <<>>]]
  /\ obsrv = [kind \in Kinds |-> [s \in Files |-> <<>>]]

RepoNext ==
  \/ LoadSvc
  \/ LoadEnd
  \/ LoadFail
  \/ Setup
  \/ SetupNext
  \/ SetupEnd
  \/ Unload
  \/ ClearSvc
  \/ ClearEnd

RepoSpec == RepoInit /\ [][RepoNext]_vars

-----------------------------------------------------------------------------
(* Invariants.                                                              *)

(* The variables have values of their types.                                *)
RepoTypeOK ==
  /\ pc \in {"load", "setup", "run", "clear", "end"}
  /\ list \in Seq(Files)
  /\ at \in [svc : Nat, kind : Nat, name : Nat]
  /\ poll \in [Kinds -> [Files -> Seq(Files \cup {NoSvc})]]
  /\ obsrv \in [Kinds -> [Files -> Seq(Files)]]

(* The transitive sources of s in a graph that gives the direct ones.       *)
UpstreamIn(graph, s) ==
  {t \in Files :
     \A T \in SUBSET Files :
       (graph[s] \subseteq T /\ \A u \in T : graph[u] \subseteq T) => t \in T}

Graph(kind) == [s \in Files |-> Sources(kind, s)]

Upstream(kind, s) == UpstreamIn(Graph(kind), s)

(* A dependency is refused if and only if it names nobody or would close a  *)
(* loop: no service waits for itself, however long the way round (the       *)
(* recursion of svc_has_starton_notifier() ends and no boot waits for       *)
(* ever), and no dependency is dropped for another reason.                  *)
LoopsRefused ==
  /\ \A kind \in Kinds, s \in Files : s \notin Upstream(kind, s)
  /\ pc = "run" =>
       \A kind \in Kinds, o \in ToSet(list) :
         \A i \in DOMAIN conf[o].on[kind] :
           \A src \in SearchByName(conf[o].on[kind][i]) :
             src \in Sources(kind, o) \/ src = o \/ o \in Upstream(kind, src)

(* The two ends of the graph agree: a service polls exactly those that will *)
(* notify it, once each, as Svc assumes (GraphAssumption); and members[] of *)
(* struct notif_poll (notif.c:41), which has an entry per name of the       *)
(* setting, is not overrun.                                                 *)
EndsAgree ==
  \A kind \in Kinds, s, o \in Files :
    /\ s \in Sources(kind, o) <=> o \in Observers(kind, s)
    /\ IsInjective(obsrv[kind][s])
    /\ s \in DOMAIN conf => Len(poll[kind][s]) <= PollNr(kind, s)

(* While the repository is cleared, no service left refers to one that has  *)
(* been freed.                                                              *)
NoDangling ==
  \A kind \in Kinds, s \in Files :
    Sources(kind, s) \cup Observers(kind, s) # {} =>
      {s} \cup Sources(kind, s) \cup Observers(kind, s) \subseteq ToSet(list)
=============================================================================
