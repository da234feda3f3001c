----------------------------- MODULE Lifecycle -----------------------------
(***************************************************************************)
(* What svc.c promises about a set of services, without saying how: a      *)
(* service asked to go up waits until the services it starts on are ready, *)
(* a service asked to go down waits until the services it stops on are     *)
(* stopped, and whoever waits goes on once it may.  There are no           *)
(* notifications here, no processes and no timers: a waiting service just  *)
(* awaits a condition on the others.  Svc implements this specification.   *)
(***************************************************************************)
CONSTANTS
  Services,
  StartOn,   \* [Services -> SUBSET Services]: the starton settings
  StopOn     \* [Services -> SUBSET Services]: the stopon settings

VARIABLES
  phase,     \* where each service stands
  loose      \* the waiting services that may stop waiting at any time

lvars == <<phase, loose>>

Up      == {"starting", "ready"}
Waiting == {"waiting", "leaving"}
Moving  == {"stopping", "stopped"}
PhaseOf == Up \cup Waiting \cup Moving

LifecycleTypeOK ==
  /\ phase \in [Services -> PhaseOf]
  /\ loose \subseteq {s \in Services : phase[s] \in Waiting}

MayStart(s) == \A src \in StartOn[s] : phase[src] = "ready"
MayStop(s)  == \A src \in StopOn[s] : phase[src] = "stopped"

(* s moves into one of `phases' and is no longer loose.                     *)
Enter(s, phases) ==
  /\ \E ph \in phases : phase' = [phase EXCEPT ![s] = ph]
  /\ loose' = loose \ {s}

(* s waits; what its earlier life has left behind, a process whose exit is  *)
(* still to come or an armed timer, makes it loose.                         *)
Wait(s, ph) ==
  /\ phase' = [phase EXCEPT ![s] = ph]
  /\ loose' \in {loose \cup {s}, loose \ {s}}

(* Somebody asks for s: it begins at once if it may, and waits otherwise.   *)
AskStart(s) ==
  /\ phase[s] \in Moving \cup {"leaving"}
  /\ \/ MayStart(s) /\ Enter(s, Up)
     \/ ~MayStart(s) /\ Wait(s, "waiting")

AskStop(s) ==
  /\ phase[s] \in Up \cup {"waiting"}
  /\ \/ MayStop(s) /\ Enter(s, Moving)
     \/ ~MayStop(s) /\ Wait(s, "leaving")

(* A waiting service goes on: because it may, or because it is loose.       *)
BeginStart(s) ==
  /\ phase[s] = "waiting"
  /\ MayStart(s) \/ s \in loose
  /\ Enter(s, Up)

BeginStop(s) ==
  /\ phase[s] = "leaving"
  /\ MayStop(s) \/ s \in loose
  /\ Enter(s, Moving)

(* What the service waited with has gone: it only awaits its condition now. *)
Settle(s) ==
  /\ s \in loose
  /\ loose' = loose \ {s}
  /\ UNCHANGED phase

(* The sequences run to their ends; a service that is up starts over when   *)
(* its daemon dies.                                                         *)
Proceed(s) ==
  \/ phase[s] \in Up /\ Enter(s, Up)
  \/ phase[s] = "stopping" /\ Enter(s, Moving)

LifecycleInit ==
  /\ phase = [s \in Services |-> "stopped"]
  /\ loose = {}

LifecycleStep(s) ==
  AskStart(s) \/ AskStop(s) \/ BeginStart(s) \/ BeginStop(s) \/ Settle(s) \/ Proceed(s)

LifecycleNext == \E s \in Services : LifecycleStep(s)

LifecycleSpec == LifecycleInit /\ [][LifecycleNext]_lvars

(* Nobody waits for ever for what is there: a service that may go on does,  *)
(* unless its condition ceases to hold first.                               *)
Released ==
  \A s \in Services :
    /\ (phase[s] = "waiting" /\ MayStart(s)) ~> ~(phase[s] = "waiting" /\ MayStart(s))
    /\ (phase[s] = "leaving" /\ MayStop(s)) ~> ~(phase[s] = "leaving" /\ MayStop(s))
=============================================================================
