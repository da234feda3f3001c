------------------------------- MODULE MCMain -------------------------------
(***************************************************************************)
(* A small instance of Main for TLC: a disk with another one mounted in    *)
(* it, one whose name is too long in that one, and a remote directory      *)
(* mounted through FUSE.                                                   *)
(***************************************************************************)
EXTENDS Main

CONSTANTS data, log, deep, remote

Places == [d \in Disks |-> CASE d = data -> "/" [] d = log -> data
                             [] d = deep -> log [] d = remote -> "/run"]
Kinds  == [d \in Disks |-> IF d = remote THEN "subtype" ELSE "disk"]
=============================================================================
