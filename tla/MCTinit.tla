------------------------------ MODULE MCTinit ------------------------------
(***************************************************************************)
(* Small instances of Tinit for TLC, on the services, graphs and process   *)
(* slots of MCSvc.                                                         *)
(***************************************************************************)
EXTENDS Tinit, MCSvc

(* The repository and the boot target list klogd before syslogd: they are   *)
(* in directory order, which has nothing to do with dependencies.           *)
KlogdFirst == SelectSeq(<<ntpd, klogd, syslogd>>, LAMBDA s : s \in Services)

(* The targets a client switches to.                                        *)
NoTarget    == {}
KlogdTarget == {{syslogd}, {syslogd, klogd}}

NoRequest   == {}
AllRequests == {"start", "stop", "reload", "switch"}

NoSignal   == {}
OneSignal  == {"TERM"}
=============================================================================
