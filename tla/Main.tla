-------------------------------- MODULE Main --------------------------------
(***************************************************************************)
(* main() and tinit_shutdown() (init.c): the file systems are mounted, the *)
(* services are run until somebody asks for a shutdown, everything that    *)
(* still runs is killed and the file systems are unmounted.  A step of the *)
(* boot that fails is followed by the same shutdown.                       *)
(*                                                                         *)
(* tinit_loop() is Tinit's business; here it is what the processes it has  *)
(* spawned do meanwhile: fork, and mount file systems.                     *)
(***************************************************************************)
EXTENDS Mnt

CONSTANTS Procs

ASSUME ProcAssumption == "tinit" \notin Procs /\ "gone" \notin Procs

VARIABLES
  pc,      \* the part of main() or tinit_shutdown() that is running
  parent,  \* [Procs -> Procs \cup {"tinit", "gone"}]
  zombie,  \* the processes that have died and have not been waited for
  killed   \* SIGKILL has been sent to these

mainvars == <<pc, parent, zombie, killed>>
mvars    == <<mntvars, mainvars>>

Running    == {p \in Procs : parent[p] # "gone"} \ zombie
ChildrenOf == [q \in Procs \cup {"tinit"} |-> {p \in Procs : parent[p] = q}]
Left       == {p \in Procs : parent[p] # "gone"}

-----------------------------------------------------------------------------
(* Boot.                                                                    *)

Mounting ==
  /\ pc = "boot"
  /\ at = "mount"
  /\ MntStep(FALSE)
  /\ UNCHANGED mainvars

BootFailed ==
  /\ pc = "boot"
  /\ at = "failed"
  /\ pc' = "kill"
  /\ UNCHANGED <<mntvars, parent, zombie, killed>>

(* Standard I/Os, environment, repository: each may fail.                   *)
Setup ==
  /\ pc = "boot"
  /\ at = "idle"
  /\ pc' \in {"loop", "kill"}
  /\ UNCHANGED <<mntvars, parent, zombie, killed>>

-----------------------------------------------------------------------------
(* What goes on while tinit_loop() runs.                                    *)

Fork(q, p) ==
  /\ pc = "loop"
  /\ q \in {"tinit"} \cup Running
  /\ parent[p] = "gone"
  /\ parent' = [parent EXCEPT ![p] = q]
  /\ UNCHANGED <<mntvars, pc, zombie, killed>>

ServiceMount(d) ==
  /\ pc = "loop"
  /\ Running # {}
  /\ d \notin Mounted
  /\ Under[d] \in Mounted
  /\ mounts' = Append(mounts, d)
  /\ UNCHANGED <<ro, open, at, points, types, errno, told, unread, mainvars>>

ServiceRemountRoot ==
  /\ pc = "loop"
  /\ Running # {}
  /\ ro' = ro \ {"/"}
  /\ UNCHANGED <<mounts, open, at, points, types, errno, told, unread, mainvars>>

(* tinit_loop() returns, on an error or what to do after the shutdown, and  *)
(* the repository is cleared.  Which of them is not kept: both go through   *)
(* tinit_shutdown(), and they cannot always be told apart, RB_HALT_SYSTEM   *)
(* being negative as an int, so that main() reboots when asked to halt.     *)
LoopEnds ==
  /\ pc = "loop"
  /\ pc' = "kill"
  /\ UNCHANGED <<mntvars, parent, zombie, killed>>

-----------------------------------------------------------------------------
(* tinit_shutdown().                                                        *)

(* Kills the children of tinit, and not theirs.                             *)
Kill_slip ==
  /\ pc = "kill"
  /\ killed' = ChildrenOf["tinit"]
  /\ pc' = "wait"
  /\ UNCHANGED <<mntvars, parent, zombie>>

(* kill(-1, SIGKILL).                                                       *)
Kill ==
  /\ pc = "kill"
  /\ killed' = Left
  /\ pc' = "wait"
  /\ UNCHANGED <<mntvars, parent, zombie>>

(* The kernel: the children of a process that dies become tinit's.          *)
Die(p) ==
  /\ p \in Running
  /\ pc = "loop" \/ p \in killed
  /\ zombie' = zombie \cup {p}
  /\ parent' = [q \in Procs |-> IF parent[q] = p THEN "tinit" ELSE parent[q]]
  /\ UNCHANGED <<mntvars, pc, killed>>

(* waitid() returns a zombie, as it does for tinit_loop(), or fails when     *)
(* tinit has no child at all.                                               *)
WaitChild(p) ==
  /\ pc \in {"loop", "wait"}
  /\ p \in zombie \cap ChildrenOf["tinit"]
  /\ zombie' = zombie \ {p}
  /\ parent' = [parent EXCEPT ![p] = "gone"]
  /\ UNCHANGED <<mntvars, pc, killed>>

WaitDone ==
  /\ pc = "wait"
  /\ ChildrenOf["tinit"] = {}
  /\ pc' = "umount"
  /\ at' = "points"
  /\ UNCHANGED <<mounts, ro, open, points, types, errno, told, unread, parent,
                 zombie, killed>>

Unmounting ==
  /\ pc = "umount"
  /\ MntStep(Left # {})
  /\ UNCHANGED mainvars

(* The child of vfork() reboots the machine; without a child tinit sleeps.  *)
Reboot ==
  /\ pc = "umount"
  /\ at = "done"
  /\ pc' \in {"rebooted", "asleep"}
  /\ UNCHANGED <<mntvars, parent, zombie, killed>>

-----------------------------------------------------------------------------
MainInit ==
  /\ MntInit
  /\ pc = "boot"
  /\ parent = [p \in Procs |-> "gone"]
  /\ zombie = {}
  /\ killed = {}

Thread ==
  \/ Mounting \/ BootFailed \/ Setup
  \/ Kill \/ WaitDone \/ Unmounting \/ Reboot
  \/ \E p \in Procs : WaitChild(p)

MainNext ==
  \/ Thread
  \/ LoopEnds
  \/ \E p \in Procs, q \in Procs \cup {"tinit"} : Fork(q, p)
  \/ \E d \in Disks : ServiceMount(d)
  \/ ServiceRemountRoot
  \/ \E p \in Procs : Die(p)

MainSpec == MainInit /\ [][MainNext]_mvars

(* tinit goes on, and a process that was sent SIGKILL dies.  Nobody has to  *)
(* ask for a shutdown.                                                      *)
MainFairSpec ==
  /\ MainSpec
  /\ WF_mvars(Thread)
  /\ \A p \in Procs : WF_mvars(p \in killed /\ Die(p))

-----------------------------------------------------------------------------
(* Properties.                                                              *)

(* The variables have values of their types, the mount table is a tree and  *)
(* only a process that is there is a zombie.                                *)
MainTypeOK ==
  /\ MntTypeOK
  /\ pc \in {"boot", "loop", "kill", "wait", "umount", "rebooted", "asleep"}
  /\ parent \in [Procs -> Procs \cup {"tinit", "gone"}]
  /\ zombie \subseteq Left
  /\ killed \subseteq Procs

Ended  == pc \in {"rebooted", "asleep"}
OnDisk == {d \in Mounted : Type(d) \notin Skipped}

(* No file system is rebooted upon while it is writable unless that has     *)
(* been reported, be it because of the mount point or of the whole table.   *)
NoneSilentlyWritable ==
  Ended => OnDisk \subseteq ro \cup told \/ "table" \in told

(* The order of unmounting is right: what could not be unmounted is held by *)
(* a file tinit has open, an error of its own or something mounted in it    *)
(* that could not be unmounted either; never by a process, and never by a   *)
(* mount point that is only unmounted later.                                *)
OnlyBusyLeft ==
  (Ended /\ "table" \notin told) =>
    \A d \in OnDisk \ {"/"} : d \in open \/ d \in told \/ Below(d) # {}

(* tinit dies (and the kernel with it) when the type of a mount point is    *)
(* not found; as long as the types can be read, only a subtype is not.      *)
TypesFound ==
  at = "crashed" => unread \/ \E d \in Mounted : Type(d) \notin Listed

(* No process, whoever its parent is, holds the shutdown up.                *)
ShutdownGoesOn == (pc = "kill") ~> (Ended \/ at = "crashed")
=============================================================================
