---------------------------- MODULE CronManager ----------------------------
(***************************************************************************)
(* The code agent's backend/cron_manager.rs: the automations of a session. *)
(* Each has a summary in memory and a run loop, and both come back from    *)
(* the CronCreated and CronUpdated events of the session log when the      *)
(* process restarts.  The tool calls of a session come one at a time; the  *)
(* run loops run beside them.                                              *)
(*                                                                         *)
(* abort() drops a run loop at its next pending await.  An append to the   *)
(* file store always pends, so an aborted loop completes none, but it may  *)
(* finish the code it is running when the abort comes.                     *)
(***************************************************************************)
EXTENDS Naturals, Sequences

CONSTANTS
    Crons,
    MaxRuns,        \* MaxRuns[c]: 1 for Once, else Recurring's max_runs
    MaxCronFaults   \* bound on crashes, failed appends and dropped calls together

ASSUME CronAssumption == MaxRuns \in [Crons -> Nat \ {0}] /\ MaxCronFaults \in Nat

VARIABLES
    summary,    \* summary[c]: CronSummaryRecord in the registry: status and run_count
    cronLog,    \* cronLog[c]: the summary in the last event of c
    runLoop,    \* runLoop[c]: the frame of run_schedule
    cronCall,   \* the cron tool call in progress
    tasks,      \* tasks[c]: the run indices of the tasks created for c
    deleted,    \* the automations whose delete has returned Ok
    restarts,   \* restarts of the process so far
    cronFaults

cronVars == <<summary, cronLog, runLoop, cronCall, tasks, deleted, restarts, cronFaults>>

NoCron == [status |-> "absent", runs |-> 0]
TerminalCron == {"Completed", "Failed", "Cancelled"}
NoLoop == [pc |-> "none", aborted |-> FALSE, written |-> NoCron]
Sleeping == [NoLoop EXCEPT !.pc = "sleep"]
NoCronCall == [pc |-> "idle", cron |-> "none", written |-> NoCron]

CronInit ==
    /\ summary = [c \in Crons |-> NoCron]
    /\ cronLog = [c \in Crons |-> NoCron]
    /\ runLoop = [c \in Crons |-> NoLoop]
    /\ cronCall = NoCronCall
    /\ tasks = [c \in Crons |-> <<>>]
    /\ deleted = {}
    /\ restarts = 0
    /\ cronFaults = 0

IsLive(c) == summary[c].status = "Scheduled"
CronFault == cronFaults < MaxCronFaults /\ cronFaults' = cronFaults + 1

-----------------------------------------------------------------------------
(* create_schedule: append_cron_created ... *)
CreateSchedule(c) ==
    /\ cronCall.pc = "idle" /\ cronLog[c] = NoCron
    /\ cronLog' = [cronLog EXCEPT ![c] = [status |-> "Scheduled", runs |-> 0]]
    /\ cronCall' = [NoCronCall EXCEPT !.pc = "insert", !.cron = c]
    /\ UNCHANGED <<summary, runLoop, tasks, deleted, restarts, cronFaults>>

(* ... then insert_cron and spawn_run_loop *)
CreateInsert ==
    LET c == cronCall.cron
    IN  /\ cronCall.pc = "insert"
        /\ summary' = [summary EXCEPT ![c] = [status |-> "Scheduled", runs |-> 0]]
        /\ runLoop' = [runLoop EXCEPT ![c] = Sleeping]
        /\ cronCall' = NoCronCall
        /\ UNCHANGED <<cronLog, tasks, deleted, restarts, cronFaults>>

(* Fault: the run loop goes on. *)
DeleteScheduleRunning(c) ==
    /\ cronCall.pc = "idle" /\ IsLive(c)
    /\ summary' = [summary EXCEPT ![c].status = "Cancelled"]
    /\ cronCall' = [pc |-> "persist", cron |-> c, written |-> summary'[c]]
    /\ UNCHANGED <<cronLog, runLoop, tasks, deleted, restarts, cronFaults>>

(* delete_schedule of an automation that is not terminal: the summary is
   cancelled, the run loop aborted and the summary appended. *)
DeleteSchedule(c) ==
    /\ cronCall.pc = "idle" /\ IsLive(c)
    /\ summary' = [summary EXCEPT ![c].status = "Cancelled"]
    /\ runLoop' = [runLoop EXCEPT ![c].aborted = TRUE]
    /\ cronCall' = [pc |-> "persist", cron |-> c, written |-> summary'[c]]
    /\ UNCHANGED <<cronLog, tasks, deleted, restarts, cronFaults>>

DeletePersist ==
    LET c == cronCall.cron
    IN  /\ cronCall.pc = "persist"
        /\ cronLog' = [cronLog EXCEPT ![c] = cronCall.written]
        /\ deleted' = deleted \cup {c}
        /\ cronCall' = NoCronCall
        /\ UNCHANGED <<summary, runLoop, tasks, restarts, cronFaults>>

(* The turn that makes the call is aborted, or its append fails. *)
CallDropped ==
    /\ cronCall.pc # "idle" /\ CronFault
    /\ cronCall' = NoCronCall
    /\ UNCHANGED <<summary, cronLog, runLoop, tasks, deleted, restarts>>

-----------------------------------------------------------------------------
LoopGoto(c, pc) == runLoop' = [runLoop EXCEPT ![c].pc = pc]
LoopEnds(c) == runLoop' = [runLoop EXCEPT ![c] = NoLoop]

(* run_schedule wakes, by its timer or by wake, and fire_schedule starts. *)
LoopWakes(c) ==
    /\ runLoop[c].pc = "sleep"
    /\ IF IsLive(c) THEN LoopGoto(c, "create") ELSE LoopEnds(c)
    /\ UNCHANGED <<summary, cronLog, cronCall, tasks, deleted, restarts, cronFaults>>

(* Fault: the schedule moves on before its task exists. *)
LoopSkipsTask(c) ==
    /\ runLoop[c].pc = "create" /\ ~runLoop[c].aborted
    /\ LoopGoto(c, "notify")
    /\ UNCHANGED <<summary, cronLog, cronCall, tasks, deleted, restarts, cronFaults>>

(* create_task: the run index is that of the summary just read. *)
LoopCreatesTask(c) ==
    /\ runLoop[c].pc = "create" /\ ~runLoop[c].aborted
    /\ tasks' = [tasks EXCEPT ![c] = Append(@, summary[c].runs + 1)]
    /\ LoopGoto(c, "notify")
    /\ UNCHANGED <<summary, cronLog, cronCall, deleted, restarts, cronFaults>>

(* create_task fails: the automation does, too. *)
LoopCreateFails(c) ==
    /\ runLoop[c].pc = "create" /\ ~runLoop[c].aborted /\ CronFault
    /\ summary' = [summary EXCEPT ![c].status = "Failed"]
    /\ runLoop' = [runLoop EXCEPT ![c].pc = "failed", ![c].written = summary'[c]]
    /\ UNCHANGED <<cronLog, cronCall, tasks, deleted, restarts>>

(* update_summary_after_run *)
AfterRun(s, max) ==
    [runs |-> s.runs + 1, status |-> IF s.runs + 1 >= max THEN "Completed" ELSE s.status]

(* After the notification, also by an aborted loop that is past it. *)
LoopUpdates(c) ==
    /\ runLoop[c].pc = "notify"
    /\ summary' = [summary EXCEPT ![c] = AfterRun(summary[c], MaxRuns[c])]
    /\ runLoop' = [runLoop EXCEPT ![c].pc = "persist", ![c].written = summary'[c]]
    /\ UNCHANGED <<cronLog, cronCall, tasks, deleted, restarts, cronFaults>>

(* append_cron_updated; a terminal automation ends its loop. *)
LoopPersists(c) ==
    LET w == runLoop[c].written
    IN  /\ runLoop[c].pc \in {"persist", "failed"} /\ ~runLoop[c].aborted
        /\ cronLog' = [cronLog EXCEPT ![c] = w]
        /\ IF w.status \in TerminalCron THEN LoopEnds(c)
           ELSE runLoop' = [runLoop EXCEPT ![c] = Sleeping]
        /\ UNCHANGED <<summary, cronCall, tasks, deleted, restarts, cronFaults>>

LoopPersistFails(c) ==
    /\ runLoop[c].pc \in {"persist", "failed"} /\ ~runLoop[c].aborted /\ CronFault
    /\ summary' = [summary EXCEPT ![c].status = "Failed"]
    /\ LoopEnds(c)
    /\ UNCHANGED <<cronLog, cronCall, tasks, deleted, restarts>>

(* An aborted loop is dropped. *)
LoopDropped(c) ==
    /\ runLoop[c].pc # "none" /\ runLoop[c].aborted
    /\ LoopEnds(c)
    /\ UNCHANGED <<summary, cronLog, cronCall, tasks, deleted, restarts, cronFaults>>

-----------------------------------------------------------------------------
(* The process dies and restore_all_sessions brings the automations back. *)
CronRestart ==
    /\ CronFault
    /\ restarts' = restarts + 1
    /\ summary' = cronLog
    /\ runLoop' = [c \in Crons |-> IF cronLog[c].status = "Scheduled" THEN Sleeping ELSE NoLoop]
    /\ cronCall' = NoCronCall
    /\ UNCHANGED <<cronLog, tasks, deleted>>

LoopStep(c) ==
    \/ LoopWakes(c) \/ LoopCreatesTask(c) \/ LoopUpdates(c) \/ LoopPersists(c) \/ LoopDropped(c)

CronNext ==
    \/ \E c \in Crons :
          \/ CreateSchedule(c) \/ DeleteSchedule(c) \/ LoopStep(c)
          \/ LoopCreateFails(c) \/ LoopPersistFails(c)
    \/ CreateInsert \/ DeletePersist \/ CallDropped \/ CronRestart

(* The runtime runs every task that is ready, and timers fire. *)
CronFairness ==
    \A c \in Crons : WF_cronVars(LoopStep(c))

CronSpec == CronInit /\ [][CronNext]_cronVars /\ CronFairness

-----------------------------------------------------------------------------
CronRecord == [status: {"absent", "Scheduled"} \cup TerminalCron, runs: Nat]

(* Summaries, frames and the log are of their shapes, and no run count passes
   max_runs. *)
CronTypeOK ==
    /\ summary \in [Crons -> CronRecord] /\ cronLog \in [Crons -> CronRecord]
    /\ \A c \in Crons : summary[c].runs <= MaxRuns[c] /\ cronLog[c].runs <= MaxRuns[c]
    /\ runLoop \in [Crons -> [pc: {"none", "sleep", "create", "notify", "persist", "failed"},
                               aborted: BOOLEAN, written: CronRecord]]
    /\ cronCall \in [pc: {"idle", "insert", "persist"}, cron: Crons \cup {"none"},
                      written: CronRecord]
    /\ deleted \subseteq Crons /\ restarts \in Nat /\ cronFaults \in 0..MaxCronFaults

(* Every run the log counts has its task, and an automation creates no more tasks
   than max_runs but for one that each restart may repeat, when the process died
   after create_task and before CronUpdated (fire_schedule, restore_session). *)
RunsHaveTasks ==
    \A c \in Crons : /\ cronLog[c].runs <= Len(tasks[c])
                      /\ Len(tasks[c]) <= MaxRuns[c] + restarts

(* Once delete_schedule has returned, the automation creates no task, whatever its
   run loop was doing and after any restart: "`cron_delete` cancels future runs". *)
DeletedRunsNoMore == [][\A c \in deleted : tasks'[c] = tasks[c]]_cronVars

(* A waiting automation is in the log exactly as in memory, so that a restart at
   that moment loses nothing of it (append_cron_created, fire_schedule). *)
WaitingIsPersisted ==
    \A c \in Crons : runLoop[c].pc = "sleep" /\ IsLive(c) => cronLog[c] = summary[c]
=============================================================================
