--------------------------- MODULE MonitorManager ---------------------------
(***************************************************************************)
(* The code agent's backend/monitor_manager.rs: background monitor         *)
(* processes.  start_monitor spawns the process and, once its start is in  *)
(* the session log, a finalizer that waits for it; stop_monitor kills it   *)
(* and waits for the finalizer.  Both take the child's async lock, and the *)
(* finalizer keeps it while it waits for the process to exit.              *)
(***************************************************************************)
EXTENDS Naturals, Sequences

CONSTANTS
    Monitors,
    Stoppers    \* the agent's monitor_stop calls and the operator's

Nobody == "nobody"
Finalizer == "finalizer"
TerminalMonitor == {"Completed", "Failed", "Cancelled"}

VARIABLES
    process,    \* process[m]: the child as the kernel has it
    monitor,    \* monitor[m]: SessionMonitor: summary.status, child's lock, cancel_reason
    finalizer,  \* finalizer[m]: the frame of finalize_monitor, and of start_monitor before it
    stopper,    \* stopper[k]: the frame of a stop_monitor call
    monitorLog  \* monitorLog[m]: the statuses in its events in the session log

monitorVars == <<process, monitor, finalizer, stopper, monitorLog>>

NoMonitor == [status |-> "absent", lock |-> Nobody, cancelled |-> FALSE]
IdleStopper == [pc |-> "idle", monitor |-> Nobody, reason |-> FALSE, result |-> "none"]

MonitorInit ==
    /\ process = [m \in Monitors |-> "none"]
    /\ monitor = [m \in Monitors |-> NoMonitor]
    /\ finalizer = [m \in Monitors |-> [pc |-> "none", status |-> "none"]]
    /\ stopper = [k \in Stoppers |-> IdleStopper]
    /\ monitorLog = [m \in Monitors |-> <<>>]

LogMonitor(m, e) == monitorLog' = [monitorLog EXCEPT ![m] = Append(@, e)]
Finalize(m, pc) == finalizer' = [finalizer EXCEPT ![m].pc = pc]

-----------------------------------------------------------------------------
(* start_monitor: spawn, insert_monitor, and on to publish_started *)
StartMonitor(m) ==
    /\ monitor[m] = NoMonitor
    /\ process' = [process EXCEPT ![m] = "running"]
    /\ monitor' = [monitor EXCEPT ![m].status = "Running"]
    /\ Finalize(m, "publish_started")
    /\ UNCHANGED <<stopper, monitorLog>>

(* The tasks of the monitor are spawned. *)
PublishStarted(m) ==
    /\ finalizer[m].pc = "publish_started"
    /\ LogMonitor(m, "Running")
    /\ Finalize(m, "lock")
    /\ UNCHANGED <<process, monitor, stopper>>

(* The append fails or the call is dropped: the monitor stays in the registry
   with nobody to wait for it. *)
PublishStartedFails(m) ==
    /\ finalizer[m].pc = "publish_started"
    /\ Finalize(m, "abandoned")
    /\ UNCHANGED <<process, monitor, stopper, monitorLog>>

(* The process ends by itself. *)
ProcessExit(m) ==
    /\ process[m] = "running"
    /\ \E status \in {"success", "failure"} : process' = [process EXCEPT ![m] = status]
    /\ UNCHANGED <<monitor, finalizer, stopper, monitorLog>>

(* A killed process dies. *)
ProcessDies(m) ==
    /\ process[m] = "killed"
    /\ process' = [process EXCEPT ![m] = "failure"]
    /\ UNCHANGED <<monitor, finalizer, stopper, monitorLog>>

-----------------------------------------------------------------------------
(* finalize_monitor: child.lock().await *)
FinalizeLock(m) ==
    /\ finalizer[m].pc = "lock" /\ monitor[m].lock = Nobody
    /\ monitor' = [monitor EXCEPT ![m].lock = Finalizer]
    /\ Finalize(m, "wait")
    /\ UNCHANGED <<process, stopper, monitorLog>>

MonitorOutcome(m) ==
    IF monitor[m].cancelled THEN "Cancelled"
    ELSE IF process[m] = "success" THEN "Completed" ELSE "Failed"

(* wait() returns, the lock is let go, and the reason is read. *)
FinalizeWait(m) ==
    /\ finalizer[m].pc = "wait" /\ process[m] \in {"success", "failure"}
    /\ process' = [process EXCEPT ![m] = "reaped"]
    /\ monitor' = [monitor EXCEPT ![m].lock = Nobody]
    /\ finalizer' = [finalizer EXCEPT ![m] = [pc |-> "publish", status |-> MonitorOutcome(m)]]
    /\ UNCHANGED <<stopper, monitorLog>>

(* The state change and the terminal event; a failed append is only logged. *)
FinalizePublish(m) ==
    /\ finalizer[m].pc = "publish"
    /\ LogMonitor(m, finalizer[m].status) \/ UNCHANGED monitorLog
    /\ Finalize(m, "update")
    /\ UNCHANGED <<process, monitor, stopper>>

(* Fault: the waiters are told before the summary is updated. *)
FinalizeUpdateLate(m) ==
    /\ finalizer[m].pc = "update"
    /\ LogMonitor(m, finalizer[m].status) \/ UNCHANGED monitorLog
    /\ Finalize(m, "notify")
    /\ UNCHANGED <<process, monitor, stopper>>

(* update_summary and publish_updated *)
FinalizeUpdate(m) ==
    /\ finalizer[m].pc = "update"
    /\ monitor' = [monitor EXCEPT ![m].status = finalizer[m].status]
    /\ LogMonitor(m, finalizer[m].status) \/ UNCHANGED monitorLog
    /\ Finalize(m, "notify")
    /\ UNCHANGED <<process, stopper>>

StopReturned(k, result) ==
    stopper' = [stopper EXCEPT ![k] = [IdleStopper EXCEPT !.result = result]]

(* completion.notify_waiters() *)
FinalizeNotify(m) ==
    /\ finalizer[m].pc = "notify"
    /\ Finalize(m, "done")
    /\ stopper' = [k \in Stoppers |->
          IF stopper[k].pc = "notified" /\ stopper[k].monitor = m
          THEN [IdleStopper EXCEPT !.result = monitor[m].status] ELSE stopper[k]]
    /\ UNCHANGED <<process, monitor, monitorLog>>

-----------------------------------------------------------------------------
(* Fault: the reason is recorded by the call that returns. *)
StopMonitorUnrecorded(k, m) ==
    /\ stopper[k].pc = "idle" /\ monitor[m] # NoMonitor
    /\ IF monitor[m].status \in TerminalMonitor
       THEN StopReturned(k, monitor[m].status)
       ELSE \E reason \in BOOLEAN :
              stopper' = [stopper EXCEPT ![k] = [IdleStopper EXCEPT
                             !.pc = "lock", !.monitor = m, !.reason = reason]]
    /\ UNCHANGED <<process, monitor, finalizer, monitorLog>>

(* stop_monitor: a terminal monitor is returned as it is; otherwise
   request_cancel records the reason, if there is one. *)
StopMonitor(k, m) ==
    /\ stopper[k].pc = "idle" /\ monitor[m] # NoMonitor
    /\ IF monitor[m].status \in TerminalMonitor
       THEN StopReturned(k, monitor[m].status) /\ UNCHANGED monitor
       ELSE \E reason \in BOOLEAN :
              /\ stopper' = [stopper EXCEPT ![k] = [IdleStopper EXCEPT
                                !.pc = "lock", !.monitor = m, !.reason = reason]]
              /\ monitor' = [monitor EXCEPT ![m].cancelled = @ \/ reason]
    /\ UNCHANGED <<process, finalizer, monitorLog>>

(* child.lock().await.start_kill(), which fails once wait() has returned *)
StopKill(k) ==
    LET m == stopper[k].monitor
    IN  /\ stopper[k].pc = "lock" /\ monitor[m].lock = Nobody
        /\ IF process[m] = "reaped"
           THEN StopReturned(k, "error") /\ UNCHANGED process
           ELSE /\ stopper' = [stopper EXCEPT ![k].pc = "register"]
                /\ process' = [process EXCEPT ![m] = IF @ = "running" THEN "killed" ELSE @]
        /\ UNCHANGED <<monitor, finalizer, monitorLog>>

(* completion.notified() registers when it is first polled. *)
StopRegister(k) ==
    /\ stopper[k].pc = "register"
    /\ stopper' = [stopper EXCEPT ![k].pc = "notified"]
    /\ UNCHANGED <<process, monitor, finalizer, monitorLog>>

MonitorNext ==
    \/ \E m \in Monitors :
          \/ StartMonitor(m) \/ PublishStarted(m) \/ PublishStartedFails(m)
          \/ ProcessExit(m) \/ ProcessDies(m)
          \/ FinalizeLock(m) \/ FinalizeWait(m) \/ FinalizePublish(m)
          \/ FinalizeUpdate(m) \/ FinalizeNotify(m)
    \/ \E k \in Stoppers :
          \/ \E m \in Monitors : StopMonitor(k, m)
          \/ StopKill(k) \/ StopRegister(k)

(* The tasks run; a monitored process need not end. *)
MonitorFairness ==
    /\ \A m \in Monitors :
          /\ WF_monitorVars(PublishStarted(m) \/ PublishStartedFails(m))
          /\ WF_monitorVars(ProcessDies(m))
          /\ WF_monitorVars(FinalizeLock(m) \/ FinalizeWait(m) \/ FinalizePublish(m)
                              \/ FinalizeUpdate(m) \/ FinalizeNotify(m))
    /\ \A k \in Stoppers : WF_monitorVars(StopKill(k) \/ StopRegister(k))

MonitorSpec == MonitorInit /\ [][MonitorNext]_monitorVars /\ MonitorFairness

-----------------------------------------------------------------------------
MonitorStatus == {"absent", "Running"} \cup TerminalMonitor

(* Registry, frames and log are of their shapes. *)
MonitorTypeOK ==
    /\ process \in [Monitors -> {"none", "running", "killed", "success", "failure", "reaped"}]
    /\ monitor \in [Monitors -> [status: MonitorStatus, lock: {Nobody, Finalizer},
                                  cancelled: BOOLEAN]]
    /\ finalizer \in [Monitors -> [pc: {"none", "publish_started", "abandoned", "lock", "wait",
                                         "publish", "update", "notify", "done"},
                                    status: {"none"} \cup TerminalMonitor]]
    /\ stopper \in [Stoppers -> [pc: {"idle", "lock", "register", "notified"},
                                  monitor: Monitors \cup {Nobody}, reason: BOOLEAN,
                                  result: {"none", "error"} \cup MonitorStatus]]
    /\ \A m \in Monitors : Len(monitorLog[m]) <= 3

(* A monitor listed as finished has no process left: its status is set only
   after wait() has returned (finalize_monitor). *)
FinishedIsGone ==
    \A m \in Monitors : monitor[m].status \in TerminalMonitor => process[m] = "reaped"

(* stop_monitor returns an error or the final summary, never a running monitor,
   whoever ends the process first (stop_monitor, finalize_monitor). *)
StopReturnsFinal == \A k \in Stoppers : stopper[k].result # "Running"

(* A stop with a reason that killed the process is reported as a cancellation,
   however the stops, the exit and the finalizer interleave (request_cancel,
   finalize_monitor). *)
StopReported ==
    \A k \in Stoppers :
        stopper[k].pc \in {"register", "notified"} /\ stopper[k].reason
            => finalizer[stopper[k].monitor].status \in {"none", "Cancelled"}

(* A process that has ended gets its monitor a final status, with stops in any
   state, unless publishing its start failed (finalize_monitor). *)
MonitorSettles ==
    \A m \in Monitors :
        process[m] \in {"success", "failure"}
            ~> monitor[m].status \in TerminalMonitor \/ finalizer[m].pc = "abandoned"
=============================================================================
