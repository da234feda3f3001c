------------------------------- MODULE MCRepo -------------------------------
(***************************************************************************)
(* Every configuration of three files over three names, with up to two     *)
(* names in one setting and one in the other: files that share a name,     *)
(* settings that name no service, and loops of two and three services are  *)
(* among them.                                                             *)
(***************************************************************************)
EXTENDS Repo, TLC

BothKinds == <<"starton", "stopon">>
TwoAndOne == [kind \in {"starton", "stopon"} |-> IF kind = "starton" THEN 2 ELSE 1]

Symmetry == Permutations(Files) \cup Permutations(Names)
=============================================================================
