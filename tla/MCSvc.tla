------------------------------- MODULE MCSvc -------------------------------
(***************************************************************************)
(* Small instances of Svc for TLC: the services of the example             *)
(* configuration (klogd starts on syslogd), a third service that makes a   *)
(* diamond of the two, and a pair that also stops in order.                *)
(***************************************************************************)
EXTENDS Svc, FiniteSets, TLC

CONSTANTS syslogd, klogd, ntpd, p1, p2, p3

OneService == {syslogd}
Pair       == {syslogd, klogd}
Trio       == {syslogd, klogd, ntpd}

TwoPids   == {p1, p2}
ThreePids == {p1, p2, p3}

PidSymmetry == Permutations(Pids)

(* Dependency graphs, and the observer lists in repository order.           *)
NoSource  == [s \in Services |-> {}]
NoObsrv   == [s \in Services |-> <<>>]

OnSyslogd == [s \in Services |-> IF s = klogd THEN {syslogd} ELSE {}]
ToKlogd   == [s \in Services |-> IF s = syslogd THEN <<klogd>> ELSE <<>>]

(* klogd must be stopped before syslogd is.                                 *)
OnKlogd   == [s \in Services |-> IF s = syslogd THEN {klogd} ELSE {}]
ToSyslogd == [s \in Services |-> IF s = klogd THEN <<syslogd>> ELSE <<>>]

(* A chain of three.                                                        *)
Chain     == [s \in Services |-> CASE s = klogd -> {syslogd}
                                   [] s = ntpd  -> {klogd}
                                   [] OTHER     -> {}]
ToChain   == [s \in Services |-> CASE s = syslogd -> <<klogd>>
                                   [] s = klogd   -> <<ntpd>>
                                   [] OTHER       -> <<>>]

(* A diamond: ntpd starts on both others, one of which starts on the other. *)
Diamond   == [s \in Services |-> CASE s = klogd -> {syslogd}
                                   [] s = ntpd  -> {syslogd, klogd}
                                   [] OTHER     -> {}]
ToDiamond == [s \in Services |-> CASE s = syslogd -> <<klogd, ntpd>>
                                   [] s = klogd   -> <<ntpd>>
                                   [] OTHER       -> <<>>]

(* Sequence lengths.                                                        *)
NoCmd      == [s \in Services |-> 0]
SourceCmd  == [s \in Services |-> IF s = syslogd THEN 1 ELSE 0]
KlogdCmd   == [s \in Services |-> IF s = klogd THEN 1 ELSE 0]

AllDaemons == Services
AllButNtpd == Services \ {ntpd}

BootOnly       == {"BOOT"}
BootAndStopped == {"BOOT", "STOPPED"}
AnyPhase       == Phases
=============================================================================
