----------------------------- MODULE MCServices -----------------------------
(* The parts of the host that share no state with each other: a behaviour is one
   of one part, chosen at the start, and the others rest. *)
EXTENDS ControlPlane, MonitorManager, CronManager, DaemonServer, TLC

CONSTANTS c1, c2

(* An automation of two runs and one of one. *)
MCCrons == {c1, c2}
MCMaxRuns == c1 :> 2 @@ c2 :> 1

VARIABLE part

ServicesInit ==
    /\ part \in {"control", "monitors", "crons", "daemon"}
    /\ ControlInit /\ MonitorInit /\ CronInit /\ DaemonInit

Rest(name, v) == part # name => UNCHANGED v

ServicesNext ==
    /\ UNCHANGED part
    /\ \/ part = "control" /\ ControlNext
       \/ part = "monitors" /\ MonitorNext
       \/ part = "crons" /\ CronNext
       \/ part = "daemon" /\ DaemonNext
    /\ Rest("control", controlVars) /\ Rest("monitors", monitorVars)
    /\ Rest("crons", cronVars) /\ Rest("daemon", daemonVars)

(* The daemon's tick alone is enabled from the start: it is fair where it runs. *)
ServicesFairness ==
    /\ ControlFairness /\ MonitorFairness /\ CronFairness
    /\ \A k \in Clients : WF_daemonVars(task[Tick].op # "down" /\ ClientStep(k))
    /\ WF_daemonVars(part = "daemon" /\ task[Tick].op # "down" /\ TickStep)
    /\ \A p \in Pids : WF_daemonVars(child[p].state = "killed" /\ ProcessEnds(p))

servicesVars == <<part, controlVars, monitorVars, cronVars, daemonVars>>

ServicesSpec == ServicesInit /\ [][ServicesNext]_servicesVars /\ ServicesFairness

(* Every part's variables are of their types: the queue holds no command twice, an
   automation makes no more runs than it may, a monitor logs one end. *)
ServicesTypeOK == ControlTypeOK /\ MonitorTypeOK /\ CronTypeOK /\ DaemonTypeOK
=============================================================================
