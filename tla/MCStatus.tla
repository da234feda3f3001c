------------------------------ MODULE MCStatus -----------------------------
(***************************************************************************)
(* Small instances of Status for TLC, on those of MCSvc.  The lengths of   *)
(* the paths leave an entry that ends on an alignment boundary, one that   *)
(* ends a byte behind it, and one in between; klogd's path is as long as   *)
(* NAME_MAX allows.  All three entries take 64 bytes.                      *)
(***************************************************************************)
EXTENDS Status, MCSvc

NtpdFirst == SelectSeq(<<ntpd, klogd, syslogd>>, LAMBDA s : s \in Services)

Lengths == [s \in Services |-> CASE s = syslogd -> 7
                                 [] s = klogd   -> 8
                                 [] OTHER       -> 4]

FitOrNot == {24, 63, 64}
=============================================================================
