---------------------------- MODULE DaemonServer ----------------------------
(***************************************************************************)
(* sched-claw's daemon_server.rs: the deployment the daemon runs for its   *)
(* clients.  Every client request is a task of its own; the maintenance    *)
(* tick of serve reaps and enforces the lease.  The state is behind a      *)
(* mutex held for single accesses, the child behind an async mutex that    *)
(* stop_active keeps while it waits for the process.                       *)
(***************************************************************************)
EXTENDS Naturals, FiniteSets

CONSTANTS
    Clients,
    MaxRequests     \* bound on the clients' requests

ASSUME DaemonAssumption == IsFiniteSet(Clients) /\ MaxRequests \in Nat

Tick == "tick"                      \* the task of serve
Tasks == Clients \cup {Tick}
Pids == 1..MaxRequests
AtRest == [pc |-> "idle", op |-> "none", pid |-> 0]

VARIABLES
    active,     \* state.active's pid, or 0
    lastExit,   \* state.last_exit: pid and reason
    child,      \* child[p]: the process, and who holds the lock of its Child
    expired,    \* the processes whose lease has expired
    task,       \* task[x]: the frame of each task
    launched,   \* processes started so far
    requests,   \* client requests so far
    orphans     \* the processes whose record a later activation overwrote

daemonVars == <<active, lastExit, child, expired, task, launched, requests, orphans>>

NoExit == [pid |-> 0, reason |-> "none"]
Exited(p) == child[p].state \in {"exited", "reaped"}

DaemonInit ==
    /\ active = 0
    /\ lastExit = NoExit
    /\ child = [p \in Pids |-> [state |-> "none", lock |-> "free"]]
    /\ expired = {}
    /\ task = [x \in Tasks |-> AtRest]
    /\ launched = 0
    /\ requests = 0
    /\ orphans = {}

TaskAt(x, pc) == task' = [task EXCEPT ![x].pc = pc]
TaskDone(x, pc) == task' = [task EXCEPT ![x].pc = pc, ![x].pid = 0]
TaskEnds(x) == task' = [task EXCEPT ![x] = AtRest]

-----------------------------------------------------------------------------
Begin(x, op) == task' = [task EXCEPT ![x] = [AtRest EXCEPT !.pc = "reap", !.op = op]]

(* A client's rollout request: dispatch reaps first. *)
Request(k, op) ==
    /\ task[k] = AtRest /\ requests < MaxRequests
    /\ requests' = requests + 1
    /\ Begin(k, op)
    /\ UNCHANGED <<active, lastExit, child, expired, launched, orphans>>

(* maintenance_tick *)
TickBegins ==
    /\ task[Tick] = AtRest
    /\ Begin(Tick, "tick")
    /\ UNCHANGED <<active, lastExit, child, expired, launched, requests, orphans>>

(* ctrl-c: the loop of serve ends and shutdown stops the deployment. *)
Shutdown ==
    /\ task[Tick] = AtRest
    /\ Begin(Tick, "shutdown")
    /\ UNCHANGED <<active, lastExit, child, expired, launched, requests, orphans>>

AfterReap(op) ==
    CASE op = "activate" -> "check" [] op = "tick" -> "lease" [] OTHER -> "stop"

(* reap_active_if_exited: which deployment; stop_active's own call of it comes
   right after dispatch's and is the same step. *)
ReapActive(x) ==
    /\ task[x].pc = "reap"
    /\ task' = [task EXCEPT ![x].pid = active,
                            ![x].pc = IF active = 0 THEN AfterReap(task[x].op) ELSE "try_wait"]
    /\ UNCHANGED <<active, lastExit, child, expired, launched, requests, orphans>>

(* Fault: whatever is active by now is cleared. *)
ClearAny(p, reason) ==
    /\ active' = 0
    /\ lastExit' = [pid |-> p, reason |-> reason]

(* The record is cleared if it is still this deployment's. *)
ClearActive(p, reason) ==
    IF active = p
    THEN active' = 0 /\ lastExit' = [pid |-> p, reason |-> reason]
    ELSE UNCHANGED <<active, lastExit>>

(* child.lock().await, try_wait() *)
TryWait(x) ==
    LET p == task[x].pid
    IN  /\ task[x].pc = "try_wait" /\ child[p].lock = "free"
        /\ IF Exited(p)
           THEN child' = [child EXCEPT ![p].state = "reaped"] /\ TaskAt(x, "clear_exited")
           ELSE UNCHANGED child /\ TaskDone(x, AfterReap(task[x].op))
        /\ UNCHANGED <<active, lastExit, expired, launched, requests, orphans>>

ClearExited(x) ==
    /\ task[x].pc = "clear_exited"
    /\ ClearActive(task[x].pid, "exited")
    /\ TaskDone(x, AfterReap(task[x].op))
    /\ UNCHANGED <<child, expired, launched, requests, orphans>>

(* enforce_active_lease *)
EnforceLease ==
    /\ task[Tick].pc = "lease"
    /\ IF active # 0 /\ active \in expired
       THEN Begin(Tick, "lease")
       ELSE TaskEnds(Tick)
    /\ UNCHANGED <<active, lastExit, child, expired, launched, requests, orphans>>

-----------------------------------------------------------------------------
AfterStop(op) ==
    CASE op = "replace" -> [AtRest EXCEPT !.pc = "start", !.op = op]
      [] op = "shutdown" -> [AtRest EXCEPT !.op = "down"]
      [] OTHER -> AtRest

Reason(op) ==
    CASE op = "replace" -> "replaced" [] op = "stop" -> "requested_stop"
      [] op = "lease" -> "lease_expired" [] OTHER -> "daemon_shutdown"

(* stop_active: SIGTERM to the pid that is active now *)
StopActive(x) ==
    /\ task[x].pc = "stop"
    /\ IF active = 0
       THEN task' = [task EXCEPT ![x] = AfterStop(task[x].op)] /\ UNCHANGED child
       ELSE /\ task' = [task EXCEPT ![x].pc = "lock", ![x].pid = active]
            /\ child' = [child EXCEPT ![active].state = IF @ = "running" THEN "terminated" ELSE @]
    /\ UNCHANGED <<active, lastExit, expired, launched, requests, orphans>>

LockChild(x) ==
    LET p == task[x].pid
    IN  /\ task[x].pc = "lock" /\ child[p].lock = "free"
        /\ child' = [child EXCEPT ![p].lock = x]
        /\ TaskAt(x, "wait")
        /\ UNCHANGED <<active, lastExit, expired, launched, requests, orphans>>

(* Fault: the process is asked once more. *)
KillChildAgain(x) ==
    LET p == task[x].pid
    IN  /\ task[x].pc = "wait" /\ ~Exited(p)
        /\ TaskAt(x, "wait_killed")
        /\ UNCHANGED <<active, lastExit, child, expired, launched, requests, orphans>>

(* The graceful timeout passes: start_kill *)
KillChild(x) ==
    LET p == task[x].pid
    IN  /\ task[x].pc = "wait" /\ ~Exited(p)
        /\ child' = [child EXCEPT ![p].state = "killed"]
        /\ TaskAt(x, "wait_killed")
        /\ UNCHANGED <<active, lastExit, expired, launched, requests, orphans>>

(* wait() returns, ... *)
WaitChild(x) ==
    LET p == task[x].pid
    IN  /\ task[x].pc \in {"wait", "wait_killed"} /\ Exited(p)
        /\ child' = [child EXCEPT ![p] = [state |-> "reaped", lock |-> "free"]]
        /\ TaskAt(x, "clear_stopped")
        /\ UNCHANGED <<active, lastExit, expired, launched, requests, orphans>>

(* ... and the deployment's record is cleared. *)
ClearStopped(x) ==
    /\ task[x].pc = "clear_stopped"
    /\ ClearActive(task[x].pid, Reason(task[x].op))
    /\ task' = [task EXCEPT ![x] = AfterStop(task[x].op)]
    /\ UNCHANGED <<child, expired, launched, requests, orphans>>

-----------------------------------------------------------------------------
(* RolloutActivate without replace_existing *)
CheckActive(k) ==
    /\ task[k].pc = "check"
    /\ IF active # 0 THEN TaskEnds(k) ELSE TaskAt(k, "start")
    /\ UNCHANGED <<active, lastExit, child, expired, launched, requests, orphans>>

(* validate_launch, then start_active; a deployment without a lease is one whose
   lease does not expire *)
StartActive(k) ==
    LET p == launched + 1
    IN  /\ task[k].pc = "start"
        /\ launched' = p
        /\ child' = [child EXCEPT ![p].state = "running"]
        /\ active' = p
        /\ lastExit' = NoExit
        /\ orphans' = orphans \cup ({active} \ {0})
        /\ TaskEnds(k)
        /\ UNCHANGED <<expired, requests>>

(* The launch is not valid, or the spawn fails. *)
StartFails(k) ==
    /\ task[k].pc = "start"
    /\ TaskEnds(k)
    /\ UNCHANGED <<active, lastExit, child, expired, launched, requests, orphans>>

(* The process ends: by itself, on SIGTERM or on SIGKILL. *)
ProcessEnds(p) ==
    /\ child[p].state \in {"running", "terminated", "killed"}
    /\ child' = [child EXCEPT ![p].state = "exited"]
    /\ UNCHANGED <<active, lastExit, expired, task, launched, requests, orphans>>

LeaseExpires(p) ==
    /\ child[p].state # "none" /\ p \notin expired
    /\ expired' = expired \cup {p}
    /\ UNCHANGED <<active, lastExit, child, task, launched, requests, orphans>>

TaskStep(x) ==
    \/ ReapActive(x) \/ TryWait(x) \/ ClearExited(x)
    \/ StopActive(x) \/ LockChild(x) \/ KillChild(x) \/ WaitChild(x) \/ ClearStopped(x)

TickStep == TickBegins \/ EnforceLease \/ TaskStep(Tick)
ClientStep(k) == CheckActive(k) \/ StartActive(k) \/ StartFails(k) \/ TaskStep(k)

(* The tasks end with the process, after shutdown. *)
DaemonNext ==
    \/ /\ task[Tick].op # "down"
       /\ \/ \E k \in Clients :
                ClientStep(k) \/ \E op \in {"activate", "replace", "stop"} : Request(k, op)
          \/ TickStep \/ Shutdown
    \/ \E p \in Pids : ProcessEnds(p) \/ LeaseExpires(p)

(* Every task goes on, the interval keeps ticking, and SIGKILL kills. *)
DaemonFairness ==
    /\ \A k \in Clients : WF_daemonVars(task[Tick].op # "down" /\ ClientStep(k))
    /\ WF_daemonVars(task[Tick].op # "down" /\ TickStep)
    /\ \A p \in Pids : WF_daemonVars(child[p].state = "killed" /\ ProcessEnds(p))

DaemonSpec == DaemonInit /\ [][DaemonNext]_daemonVars /\ DaemonFairness

-----------------------------------------------------------------------------
Living(p) == child[p].state \in {"running", "terminated", "killed"}

(* Records, processes and frames are of their shapes. *)
DaemonTypeOK ==
    /\ active \in 0..launched /\ launched \in 0..requests
    /\ lastExit \in [pid: 0..launched, reason: {"none", "exited", "replaced", "requested_stop",
                                                "lease_expired", "daemon_shutdown"}]
    /\ child \in [Pids -> [state: {"none", "running", "terminated", "killed", "exited", "reaped"},
                            lock: Tasks \cup {"free"}]]
    /\ task \in [Tasks -> [pc: {"idle", "reap", "try_wait", "clear_exited", "lease", "stop", "lock",
                                "wait", "wait_killed", "clear_stopped", "check", "start"},
                           op: {"none", "activate", "replace", "stop", "tick", "lease",
                                "shutdown", "down"},
                           pid: 0..launched]]
    /\ requests \in 0..MaxRequests
    /\ orphans \cup expired \subseteq 1..launched

(* A process that lives is the recorded deployment, whatever reaps and stops run at
   once: each clears only the record it has read, and only when its process has
   ended.  The one exception is a record that a second activation overwrote
   (reap_active_if_exited, stop_active). *)
LivingIsRecorded == \A p \in Pids \ orphans : Living(p) => active = p

(* last_exit is of a process that has been reaped, and is gone once another
   deployment is active (start_active, stop_active). *)
ExitIsReal ==
    lastExit.pid # 0 => child[lastExit.pid].state = "reaped" /\ active = 0

(* A deployment whose lease has expired is stopped, with clients stopping and
   replacing it at the same time: "optional rollout lease enforces automatic
   stop".  An overwritten record loses its lease (enforce_active_lease). *)
LeaseEnforced ==
    \A p \in Pids :
        active = p /\ p \in expired
            ~> ~Living(p) \/ p \in orphans \/ task[Tick].op = "down"
=============================================================================
