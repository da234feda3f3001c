------------------------------- MODULE MCSrv -------------------------------
(***************************************************************************)
(* Small instances of Srv: two clients whose requests are accepted and one *)
(* whose are not.                                                          *)
(***************************************************************************)
EXTENDS Srv

CONSTANTS tinit, panel, guest

AllClients == {tinit, panel, guest}
Trusted    == {tinit, panel}

(* Requests enough for the sequence numbers of tinit to wrap past those of  *)
(* its oldest reply.                                                        *)
Bounds == [c \in AllClients |-> CASE c = tinit -> 6 [] c = panel -> 1 [] c = guest -> 1]
=============================================================================
