------------------------------- MODULE MCConf -------------------------------
(***************************************************************************)
(* A small instance of Conf for TLC.                                       *)
(***************************************************************************)
EXTENDS Conf, TLC

CONSTANTS a, b

NameSymmetry == Permutations(Names)
=============================================================================
