-------------------------------- MODULE Mnt --------------------------------
(***************************************************************************)
(* The file systems (mnt.c): what tinit mounts when it boots and how it    *)
(* unmounts everything when it shuts down.                                 *)
(*                                                                         *)
(* The kernel's mount table is `mounts', in the order of /proc/mounts; the *)
(* calls to the kernel may fail at any time.  The module has the steps of  *)
(* mnt_mount_all() and mnt_umount_all() and Main says when they are called.*)
(* Names, mount options and the force flag make no difference here.        *)
(***************************************************************************)
EXTENDS Naturals, Sequences, SequencesExt

CONSTANTS
  Disks,    \* where services may mount file systems
  Under,    \* [Disks -> directories]: the mount point a disk is mounted in
  TypeOf,   \* [Disks -> type of the file system]
  TooLong   \* the disks whose names do not fit into a struct mnt_point

Initial == <<"/proc", "/sys", "/dev", "/dev/mqueue", "/run">>
Dirs    == {"/"} \cup Range(Initial) \cup Disks

(* What /proc/filesystems lists.  A file system on a FUSE subtype, such as  *)
(* fuse.sshfs, has a type that is not in there.                             *)
Listed  == {"nodev", "fuse", "disk"}
Skipped == {"nodev", "fuse"}

ASSUME MntAssumption ==
  /\ Disks \cap ({"/"} \cup Range(Initial)) = {}
  /\ Under \in [Disks -> Dirs]
  /\ TypeOf \in [Disks -> Listed \cup {"subtype"}]
  /\ TooLong \subseteq Disks

VARIABLES
  mounts,  \* the mount table, without hidden mount points
  ro,      \* the mount points that are read-only
  open,    \* the mount points on which tinit itself has a file open
  at,      \* where mnt.c is: "idle", or in one of its loops
  points,  \* what mnt_mount_all() has to mount, or table->points from pt on
  types,   \* table->types
  errno,   \* "EAGAIN", or some other value
  told,    \* what has been reported as not done
  unread   \* history: the file system types could not be read

mntvars == <<mounts, ro, open, at, points, types, errno, told, unread>>

Type(d) == IF d \in Disks THEN TypeOf[d] ELSE IF d = "/" THEN "disk" ELSE "nodev"

Parent(d) ==
  IF d \in Disks THEN Under[d] ELSE IF d = "/dev/mqueue" THEN "/dev" ELSE "/"

Mounted  == Range(mounts)
Below(d) == {c \in Mounted \ {"/"} : Parent(c) = d}

Without(d) == RemoveAt(mounts, CHOOSE i \in DOMAIN mounts : mounts[i] = d)

-----------------------------------------------------------------------------
(* Initial mounts.                                                          *)

(* mount_pseudo(), and what mount_devfs() and mount_mqueue() do around it:  *)
(* a failure there is a failure of the mount, or only a warning.            *)
MountPseudo ==
  /\ at = "mount"
  /\ points # <<>>
  /\ \/ /\ mounts' = Append(mounts, Head(points))
        /\ points' = Tail(points)
        /\ UNCHANGED at
     \/ at' = "failed" /\ UNCHANGED <<mounts, points>>
  /\ UNCHANGED <<ro, open, types, errno, told, unread>>

RemountRootAtBoot ==
  /\ at = "mount"
  /\ points = <<>>
  /\ \/ at' = "idle" /\ ro' = ro \cup {"/"}
     \/ at' = "failed" /\ UNCHANGED ro
  /\ UNCHANGED <<mounts, open, points, types, errno, told, unread>>

-----------------------------------------------------------------------------
(* mnt_umount_all().                                                        *)

(* Reads the table in its own order; or tests errno instead of setting it.  *)
LoadPoints_order_slip ==
  /\ at = "points"
  /\ "/proc" \in Mounted
  /\ points' = mounts
  /\ errno' = "EAGAIN"
  /\ at' = "types"
  /\ UNCHANGED <<mounts, ro, open, types, told, unread>>

LoadPoints_errno_slip ==
  /\ at = "points"
  /\ "/proc" \in Mounted
  /\ points' = Reverse(mounts)
  /\ at' = "types"
  /\ UNCHANGED <<mounts, ro, open, types, errno, told, unread>>

(* The last one mounted comes first.  A point that does not fit is reported *)
(* and left out: the walk passes over it.  Any NULL of getmntent() is taken *)
(* for the end of the file, by an assignment to errno.  Without a table     *)
(* nothing is unmounted.                                                    *)
LoadPoints ==
  /\ at = "points"
  /\ \/ /\ "/proc" \in Mounted
        /\ points' = Reverse(mounts)
        /\ told' = told \cup (TooLong \cap Mounted)
        /\ errno' = "EAGAIN"
        /\ at' = "types"
     \/ /\ told' = told \cup {"table"}
        /\ at' = "done"
        /\ UNCHANGED <<points, errno>>
  /\ UNCHANGED <<mounts, ro, open, types, unread>>

(* The end of the file leaves errno alone, and is only told from an error   *)
(* by errno = EAGAIN.  If the file cannot be opened or read, or there is no *)
(* memory, the list is empty or not even initialised: no type is found.     *)
LoadTypes ==
  /\ at = "types"
  /\ \/ types' = (IF errno = "EAGAIN" THEN Listed ELSE {}) /\ UNCHANGED <<errno, unread>>
     \/ types' = {} /\ unread' = TRUE /\ errno' = "other"
  /\ at' = "walk"
  /\ UNCHANGED <<mounts, ro, open, points, told>>

(* The calls for one mount point.                                           *)
Busy(d, inuse) == Below(d) # {} \/ d \in open \/ inuse

(* Detaches what is in use, as the flag MNT_DETACH has it.                  *)
Umount_slip(d, inuse) ==
  /\ mounts' = Without(d)
  /\ UNCHANGED <<ro, told>>

Umount(d, inuse) ==
  /\ ~Busy(d, inuse)
  /\ \/ mounts' = Without(d) /\ UNCHANGED told
     \/ told' = told \cup {d} /\ UNCHANGED mounts
  /\ UNCHANGED ro

(* Does not report a remount that fails.                                    *)
RemountReadOnly_slip(d) ==
  /\ \/ ro' = ro \cup {d}
     \/ UNCHANGED ro
  /\ UNCHANGED <<mounts, told>>

RemountReadOnly(d) ==
  /\ \/ ro' = ro \cup {d} /\ UNCHANGED told
     \/ told' = told \cup {d} /\ UNCHANGED ro
  /\ UNCHANGED mounts

(* inuse: is any process left?  A type that is not found is a NULL pointer, *)
(* which nothing tests in a build without assertions.                       *)
UmountPoint(inuse) ==
  /\ at = "walk"
  /\ points # <<>>
  /\ LET d == Head(points)
     IN  \/ /\ d \in {"/"} \cup TooLong \/ Type(d) \in types \cap Skipped
            /\ UNCHANGED <<mounts, ro, told, at>>
         \/ /\ d \notin {"/"} \cup TooLong
            /\ Type(d) \notin types
            /\ at' = "crashed"
            /\ UNCHANGED <<mounts, ro, told>>
         \/ /\ d \notin {"/"} \cup TooLong
            /\ Type(d) \in types \ Skipped
            /\ \/ Umount(d, inuse)
               \/ Busy(d, inuse) /\ RemountReadOnly(d)
            /\ UNCHANGED at
  /\ points' = Tail(points)
  /\ UNCHANGED <<open, types, errno, unread>>

RemountRoot ==
  /\ at = "walk"
  /\ points = <<>>
  /\ RemountReadOnly("/")
  /\ at' = "done"
  /\ UNCHANGED <<open, points, types, errno, unread>>

-----------------------------------------------------------------------------
MntInit ==
  /\ mounts = <<"/">>
  /\ ro = {}
  /\ open \in SUBSET Disks
  /\ at = "mount"
  /\ points = Initial
  /\ types = {}
  /\ errno = "other"
  /\ told = {}
  /\ unread = FALSE

MntStep(inuse) ==
  \/ MountPseudo
  \/ RemountRootAtBoot
  \/ LoadPoints
  \/ LoadTypes
  \/ UmountPoint(inuse)
  \/ RemountRoot

MntTypeOK ==
  /\ mounts \in Seq(Dirs)
  /\ \A d \in Mounted : Parent(d) \in Mounted
  /\ ro \subseteq Dirs
  /\ open \subseteq Disks
  /\ at \in {"mount", "failed", "idle", "points", "types", "walk", "done", "crashed"}
  /\ points \in Seq(Dirs)
  /\ types \in {{}, Listed}
  /\ errno \in {"EAGAIN", "other"}
  /\ told \subseteq Dirs \cup {"table"}
  /\ unread \in BOOLEAN
=============================================================================
