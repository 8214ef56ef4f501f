--------------------------- MODULE MCCoordination ---------------------------
(* The registry of child agents and the index of write leases.  They share no
   state with each other: a behaviour is one of one of them, chosen at the start,
   and the other rests. *)
EXTENDS AgentSessionManager, LeaseIndex

CONSTANTS a1, a2

(* Two agents, asked for alone and together. *)
MCAgents == {a1, a2}
MCRequests == {<<a1>>, <<a1, a2>>}

(* "/", a directory, a file and a subdirectory of it with a file, a sibling
   directory whose name is reached only through "." and "..", and a path that
   climbs above "/". *)
MCRawPaths == {<<Parent>>, <<1>>, <<1, 1>>, <<1, 2, 1>>, <<Parent, 3, Parent, Cur, 2>>}

VARIABLE part

CoordinationInit == part \in {"agents", "leases"} /\ Init /\ IndexInit

CoordinationNext ==
    /\ UNCHANGED part
    /\ \/ part = "agents" /\ Next /\ UNCHANGED indexVars
       \/ part = "leases" /\ IndexNext /\ UNCHANGED vars

CoordinationSpec ==
    CoordinationInit /\ [][CoordinationNext]_<<part, vars, indexVars>> /\ Fairness

=============================================================================
