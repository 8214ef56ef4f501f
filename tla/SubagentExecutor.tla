-------------------------- MODULE SubagentExecutor --------------------------
(***************************************************************************)
(* crates/runtime/src/subagent_impl.rs: the executor behind the agent      *)
(* tools and the operator's live-task commands, with the registry          *)
(* (AgentRecords), the mailboxes, the write leases and the worker tasks it *)
(* drives.                                                                 *)
(*                                                                         *)
(* Callers are the threads that call SubagentExecutor: the root agent's    *)
(* tool calls and the operator.  A step ends where the code awaits or lets *)
(* go of a lock that another task can take.  Every mailbox belongs to one  *)
(* worker, so worker k of agent a is the pair (a, k), from the moment its  *)
(* mailbox is created until its receiver is dropped.                       *)
(*                                                                         *)
(* JoinHandle::abort is tokio's: it marks the task, and the task is        *)
(* dropped at an await that is pending; one that is running goes on until  *)
(* then, through any number of awaits that are ready at once.              *)
(***************************************************************************)
EXTENDS AgentRecords, LeasePaths

CONSTANTS
    Agents,
    Callers,
    Batches,        \* what spawn is called with: sequences of agents
    Deps,           \* Deps[a]: the agents that must complete before a starts
    Files,          \* Files[a]: requested_write_set
    Ops,            \* the operations callers use besides spawn
    MaxRestarts,    \* bound on resumes and interrupts together
    MaxSends,       \* bound on the inputs that send is to queue
    StoreFails      \* whether appends to the session store may fail

Workers == 1..(MaxRestarts + 1)   \* 1 is the worker spawn plans
Messages == 1..MaxSends
First == 0          \* the input a worker is launched with

(* spawn gives every task an id of its own, so no agent is in two batches. *)
ASSUME ExecutorAssumption ==
    /\ MaxRestarts \in Nat /\ MaxSends \in Nat /\ StoreFails \in BOOLEAN
    /\ Batches \in Seq(Seq(Agents))
    /\ \A b, e \in DOMAIN Batches : b # e =>
          \A i \in DOMAIN Batches[b], j \in DOMAIN Batches[e] : Batches[b][i] # Batches[e][j]
    /\ Deps \in [Agents -> SUBSET Agents]
    /\ Ops \subseteq {"queue", "interrupt", "resume", "cancel"}

VARIABLES
    record,     \* the registry
    worker,     \* worker[a][k]
    leases,     \* the write lease table
    caller,     \* the frames of the executor calls in progress
    scheduler,  \* scheduler[b]: run_dependency_scheduler of batch b
    restarts,   \* mailboxes created by resume and interrupt
    sent        \* inputs that send was called to queue

vars == <<record, worker, leases, caller, scheduler, restarts, sent>>

Unused == [pc |-> "unused", mode |-> None, launch |-> "none", queue |-> <<>>,
           inputs |-> <<>>, outcome |-> None, aborted |-> FALSE]
(* k is the worker a restart is to launch, or the input a send is to queue. *)
IdleCaller == [pc |-> "idle", agent |-> None, k |-> 0, batch |-> 0, claimed |-> 0]
IdleScheduler == [pc |-> "off", blocked |-> {}, ready |-> {}, failed |-> {}, waiting |-> {}]

Exists(a) == record[a] # NoRecord
IsTerminal(a) == record[a].status \in Terminal

InBatch(b) == {Batches[b][i] : i \in DOMAIN Batches[b]}

-----------------------------------------------------------------------------
(* Worker (a, k) goes to pc; the rest of its frame stays. *)
Goto(a, k, pc) == worker' = [worker EXCEPT ![a][k].pc = pc]

(* The task is over and its receiver dropped; what it took but did not run and
   how it ended are kept, and the handle if it is still to be attached. *)
Ended(w) ==
    [Unused EXCEPT !.pc = "gone", !.inputs = w.inputs, !.outcome = w.outcome,
                   !.launch = IF w.launch = "attach" THEN "attach" ELSE "none"]

SetRecord(a, r) == record' = [record EXCEPT ![a] = r]

(* join_handle.take().abort() *)
Aborting(ws, a) ==
    IF record[a].join = NoWorker THEN ws
    ELSE [ws EXCEPT ![a][record[a].join].aborted = TRUE]

(* A ChildLaunchPlan handed to launch_child_async. *)
Launching(mode) == [Unused EXCEPT !.pc = "prep", !.launch = "prep", !.mode = mode,
                                  !.inputs = IF mode = "RunInput" THEN <<First>> ELSE <<>>]

(* Fault: only equal paths are a conflict. *)
ClaimableEqual(a) == \A b \in Agents \ {a} : Files[a] \cap leases[b] = {}

Claimable(a) ==
    \A b \in Agents \ {a} : \A p \in Files[a], q \in leases[b] : ~Overlap(p, q)

Frame(c, f) == caller' = [caller EXCEPT ![c] = f]
Return(c) == Frame(c, IdleCaller)

Init ==
    /\ record = [a \in Agents |-> NoRecord]
    /\ worker = [a \in Agents |-> [k \in Workers |-> Unused]]
    /\ leases = [a \in Agents |-> {}]
    /\ caller = [c \in Callers |-> IdleCaller]
    /\ scheduler = [b \in DOMAIN Batches |-> IdleScheduler]
    /\ restarts = 0
    /\ sent = 0

-----------------------------------------------------------------------------
(* spawn: resolve_dependency_plan has accepted the batch. *)
SpawnBegin(c, b) ==
    /\ caller[c].pc = "idle"
    /\ \A a \in InBatch(b) : ~Exists(a) /\ \A d \in Deps[a] : d \in InBatch(b) \/ Exists(d)
    /\ \A o \in Callers : caller[o].batch # b
    /\ Frame(c, [IdleCaller EXCEPT !.pc = "claim", !.batch = b])
    /\ UNCHANGED <<record, worker, leases, scheduler, restarts, sent>>

(* One round of the claim loop; a conflict releases what the loop claimed. *)
SpawnClaim(c) ==
    LET f == caller[c]
        a == Batches[f.batch][f.claimed + 1]
    IN  /\ f.pc = "claim" /\ f.claimed < Len(Batches[f.batch])
        /\ IF Claimable(a)
           THEN /\ leases' = [leases EXCEPT ![a] = @ \cup Files[a]]
                /\ Frame(c, [f EXCEPT !.claimed = @ + 1])
           ELSE /\ leases' = [x \in Agents |-> IF x \in InBatch(f.batch) THEN {} ELSE leases[x]]
                /\ Return(c)
        /\ UNCHANGED <<record, worker, scheduler, restarts, sent>>

(* append_spawn_events, then the records are inserted and the children whose
   dependencies are empty go to launch_ready_children_bounded. *)
SpawnInsert(c) ==
    LET f == caller[c]
        new == InBatch(f.batch)
    IN  /\ f.pc = "claim" /\ f.claimed = Len(Batches[f.batch])
        /\ record' = [a \in Agents |-> IF a \in new THEN NewRecord(1) ELSE record[a]]
        /\ worker' = [a \in Agents |->
              IF a \notin new THEN worker[a]
              ELSE [worker[a] EXCEPT ![1] =
                      IF Deps[a] = {} THEN Launching("RunInput")
                      ELSE [Launching("RunInput") EXCEPT !.pc = "blocked", !.launch = "none"]]]
        /\ Frame(c, [f EXCEPT !.pc = "launchBatch"])
        /\ UNCHANGED <<leases, scheduler, restarts, sent>>

(* Fault: a failed append keeps the claims. *)
SpawnEventsFailKept(c) ==
    /\ StoreFails
    /\ caller[c].pc = "claim" /\ caller[c].claimed = Len(Batches[caller[c].batch])
    /\ Return(c)
    /\ UNCHANGED <<record, worker, leases, scheduler, restarts, sent>>

SpawnEventsFail(c) ==
    LET f == caller[c]
    IN  /\ StoreFails
        /\ f.pc = "claim" /\ f.claimed = Len(Batches[f.batch])
        /\ leases' = [x \in Agents |-> IF x \in InBatch(f.batch) THEN {} ELSE leases[x]]
        /\ Return(c)
        /\ UNCHANGED <<record, worker, scheduler, restarts, sent>>

(* All launches are over: the scheduler task takes the blocked children. *)
SpawnReturn(c) ==
    LET f == caller[c]
        blocked == {a \in InBatch(f.batch) : Deps[a] # {}}
    IN  /\ f.pc = "launchBatch"
        /\ \A a \in InBatch(f.batch) : worker[a][1].launch = "none"
        /\ scheduler' = IF blocked = {} THEN scheduler
                        ELSE [scheduler EXCEPT ![f.batch] =
                                [IdleScheduler EXCEPT !.pc = "scan", !.blocked = blocked]]
        /\ Return(c)
        /\ UNCHANGED <<record, worker, leases, restarts, sent>>

-----------------------------------------------------------------------------
(* launch_child_async of worker (a, k): the runtime is built on the blocking
   pool, tokio::spawn starts the worker, and only then is the join handle
   attached to the record. *)
LaunchSpawn(a, k) ==
    /\ worker[a][k].pc = "prep"
    /\ worker' = [worker EXCEPT ![a][k].pc = "spawned", ![a][k].launch = "attach"]
    /\ UNCHANGED <<record, leases, caller, scheduler, restarts, sent>>

LaunchAttach(a, k) ==
    /\ worker[a][k].launch = "attach"
    /\ worker' = [worker EXCEPT ![a][k].launch = "none"]
    /\ SetRecord(a, AttachJoinHandle(record[a], k))
    /\ UNCHANGED <<leases, caller, scheduler, restarts, sent>>

(* fail_launch_child, whose tail is the one of fail. *)
LaunchFail(a, k) ==
    /\ worker[a][k].pc = "prep"
    /\ worker' = [worker EXCEPT ![a][k].pc = "finish", ![a][k].launch = "fail",
                                ![a][k].outcome = "Failed"]
    /\ UNCHANGED <<record, leases, caller, scheduler, restarts, sent>>

-----------------------------------------------------------------------------
(* ChildAgentWorker::run.  start: the status is set whatever it was, then the
   start events are appended. *)
WorkerStart(a, k) ==
    /\ worker[a][k].pc = "spawned"
    /\ SetRecord(a, UpdateStatus(record[a],
          IF worker[a][k].mode = "RunInput" THEN "Running" ELSE "WaitingMessage"))
    /\ Goto(a, k, "starting")
    /\ UNCHANGED <<leases, caller, scheduler, restarts, sent>>

WorkerStarted(a, k) ==
    /\ worker[a][k].pc = "starting"
    /\ Goto(a, k, IF worker[a][k].mode = "RunInput" THEN "turn" ELSE "recv")
    /\ UNCHANGED <<record, leases, caller, scheduler, restarts, sent>>

(* start and transition_status return the append error and run just ends; the
   initial steer of a spawned child fails it instead. *)
WorkerAppendFails(a, k) ==
    /\ StoreFails
    /\ worker[a][k].pc \in {"starting", "waking"}
    /\ \/ worker' = [worker EXCEPT ![a][k] = Ended(@)]
       \/ /\ worker[a][k].pc = "starting" /\ k = 1
          /\ worker' = [worker EXCEPT ![a][k].pc = "finish", ![a][k].outcome = "Failed"]
    /\ UNCHANGED <<record, leases, caller, scheduler, restarts, sent>>

(* wait_for_resume_message: the first input, then transition_status(Running). *)
WorkerReceive(a, k) ==
    LET w == worker[a][k]
    IN  /\ w.pc = "recv" /\ w.queue # <<>>
        /\ worker' = [worker EXCEPT ![a][k] =
              [w EXCEPT !.pc = "waking", !.inputs = <<Head(w.queue)>>, !.queue = Tail(@)]]
        /\ SetRecord(a, UpdateStatus(record[a], "Running"))
        /\ UNCHANGED <<leases, caller, scheduler, restarts, sent>>

WorkerWoken(a, k) ==
    /\ worker[a][k].pc = "waking"
    /\ Goto(a, k, "turn")
    /\ UNCHANGED <<record, leases, caller, scheduler, restarts, sent>>

(* recv() returns None: the record holds the sender of another mailbox. *)
WorkerMailboxClosed(a, k) ==
    LET w == worker[a][k]
    IN  /\ w.pc = "recv" /\ w.queue = <<>> /\ record[a].mailbox # k
        /\ worker' = [worker EXCEPT ![a][k] = [w EXCEPT !.pc = "finish", !.outcome = "Cancelled"]]
        /\ UNCHANGED <<record, leases, caller, scheduler, restarts, sent>>

(* Fault: a failed turn just ends the worker. *)
WorkerTurnLost(a, k) ==
    LET w == worker[a][k]
    IN  /\ w.pc = "turn"
        /\ \/ worker' = [worker EXCEPT ![a][k] = [w EXCEPT !.pc = "drain", !.inputs = Tail(@)]]
           \/ worker' = [worker EXCEPT ![a][k] = Ended(w)]
        /\ UNCHANGED <<record, leases, caller, scheduler, restarts, sent>>

(* run_input succeeds, or fails or times out, which fails the child. *)
WorkerTurn(a, k) ==
    LET w == worker[a][k]
    IN  /\ w.pc = "turn"
        /\ \/ worker' = [worker EXCEPT ![a][k] = [w EXCEPT !.pc = "drain", !.inputs = Tail(@)]]
           \/ worker' = [worker EXCEPT ![a][k] = [w EXCEPT !.pc = "finish", !.outcome = "Failed"]]
        /\ UNCHANGED <<record, leases, caller, scheduler, restarts, sent>>

(* Fault: the status a structured reply names is taken as it is. *)
WorkerDrainRaw(a, k) ==
    /\ worker[a][k].pc = "drain" /\ worker[a][k].queue = <<>>
    /\ \E s \in Statuses : worker' = [worker EXCEPT ![a][k].pc = "finish", ![a][k].outcome = s]
    /\ UNCHANGED <<record, leases, caller, scheduler, restarts, sent>>

(* consume_mailbox: whatever is queued is appended to next_inputs; an empty
   mailbox finishes the child.  A structured reply names its terminal status. *)
WorkerDrain(a, k) ==
    LET w == worker[a][k]
    IN  /\ w.pc = "drain"
        /\ IF w.queue # <<>>
           THEN worker' = [worker EXCEPT ![a][k] =
                  [w EXCEPT !.pc = "turn", !.inputs = @ \o w.queue, !.queue = <<>>]]
           ELSE \E s \in Terminal : worker' = [worker EXCEPT ![a][k] =
                  [w EXCEPT !.pc = "finish", !.outcome = s]]
        /\ UNCHANGED <<record, leases, caller, scheduler, restarts, sent>>

(* finish_success, finish_cancel, fail, and the two fail_*_child of the
   executor: the record, then (over several awaits) the terminal events and
   the worktree, then the lease. *)
WorkerFinish(a, k) ==
    /\ worker[a][k].pc = "finish"
    /\ SetRecord(a, Finish(record[a], worker[a][k].outcome))
    /\ Goto(a, k, "closing")
    /\ UNCHANGED <<leases, caller, scheduler, restarts, sent>>

WorkerRelease(a, k) ==
    /\ worker[a][k].pc = "closing"
    /\ leases' = [leases EXCEPT ![a] = {}]
    /\ worker' = [worker EXCEPT ![a][k] = Ended(@)]
    /\ UNCHANGED <<record, caller, scheduler, restarts, sent>>

(* An aborted task is dropped at a pending await. *)
Awaiting == {"spawned", "starting", "recv", "waking", "turn", "closing"}

WorkerAborted(a, k) ==
    /\ worker[a][k].aborted /\ worker[a][k].pc \in Awaiting
    /\ worker' = [worker EXCEPT ![a][k] = Ended(@)]
    /\ UNCHANGED <<record, leases, caller, scheduler, restarts, sent>>

-----------------------------------------------------------------------------
(* send: the delivery is chosen from the status read here. *)
SendBegin(c, a) ==
    /\ caller[c].pc = "idle" /\ Exists(a) /\ ~IsTerminal(a)
    /\ \/ /\ "queue" \in Ops
          /\ sent < MaxSends
          /\ sent' = sent + 1
          /\ Frame(c, [IdleCaller EXCEPT !.pc = "queue", !.agent = a, !.k = sent'])
          /\ UNCHANGED restarts
       \/ /\ "interrupt" \in Ops /\ record[a].status = "Running"
          /\ restarts < MaxRestarts
          /\ restarts' = restarts + 1
          /\ Frame(c, [IdleCaller EXCEPT !.pc = "rollback", !.agent = a, !.k = restarts' + 1])
          /\ UNCHANGED sent
    /\ UNCHANGED <<record, worker, leases, scheduler>>

(* queue_child_input: the send fails only if the receiver was dropped. *)
QueueInput(c) ==
    LET a == caller[c].agent
        k == record[a].mailbox
    IN  /\ caller[c].pc = "queue"
        /\ IF worker[a][k].pc = "gone" THEN UNCHANGED worker
           ELSE worker' = [worker EXCEPT ![a][k].queue = Append(@, caller[c].k)]
        /\ Return(c)
        /\ UNCHANGED <<record, leases, scheduler, restarts, sent>>

(* interrupt_child_with_input: after the session was loaded and rolled back,
   restart aborts the old worker, whatever the record's status is by now. *)
InterruptRestart(c) ==
    LET a == caller[c].agent
    IN  /\ caller[c].pc = "rollback"
        /\ worker' = Aborting(worker, a)
        /\ SetRecord(a, Restart(record[a], caller[c].k))
        /\ Frame(c, [caller[c] EXCEPT !.pc = "announce"])
        /\ UNCHANGED <<leases, scheduler, restarts, sent>>

InterruptLaunch(c) ==
    LET a == caller[c].agent
    IN  /\ caller[c].pc = "announce"
        /\ worker' = [worker EXCEPT ![a][caller[c].k] =
              [Launching("RunInput") EXCEPT !.queue = worker[a][caller[c].k].queue]]
        /\ Frame(c, [caller[c] EXCEPT !.pc = "launch"])
        /\ UNCHANGED <<record, leases, scheduler, restarts, sent>>

(* load_runtime_session, the rollback or the Input envelope fails. *)
InterruptFails(c) ==
    /\ StoreFails
    /\ caller[c].pc \in {"rollback", "announce"}
    /\ worker' = [worker EXCEPT ![caller[c].agent][caller[c].k] = Ended(@)]
    /\ Return(c)
    /\ UNCHANGED <<record, leases, scheduler, restarts, sent>>

(* resume: the lease is claimed before the session is loaded. *)
ResumeBegin(c, a) ==
    /\ caller[c].pc = "idle" /\ "resume" \in Ops
    /\ Exists(a) /\ IsTerminal(a) /\ Claimable(a)
    /\ restarts < MaxRestarts
    /\ restarts' = restarts + 1
    /\ leases' = [leases EXCEPT ![a] = @ \cup Files[a]]
    /\ Frame(c, [IdleCaller EXCEPT !.pc = "load", !.agent = a, !.k = restarts' + 1])
    /\ UNCHANGED <<record, worker, scheduler, sent>>

ResumeReopen(c) ==
    LET a == caller[c].agent
        k == caller[c].k
    IN  /\ caller[c].pc = "load" /\ IsTerminal(a)
        /\ SetRecord(a, Reopen(record[a], k))
        /\ worker' = [worker EXCEPT ![a][k] = Launching("AwaitMessage")]
        /\ Frame(c, [caller[c] EXCEPT !.pc = "launch"])
        /\ UNCHANGED <<leases, scheduler, restarts, sent>>

(* The session cannot be loaded, or the agent is no longer terminal. *)
ResumeFails(c) ==
    LET a == caller[c].agent
    IN  /\ caller[c].pc = "load" /\ (StoreFails \/ ~IsTerminal(a))
        /\ leases' = [leases EXCEPT ![a] = {}]
        /\ Return(c)
        /\ UNCHANGED <<record, worker, scheduler, restarts, sent>>

(* resume and interrupt return when launch_child_async is over. *)
LaunchReturn(c) ==
    /\ caller[c].pc = "launch"
    /\ worker[caller[c].agent][caller[c].k].launch = "none"
    /\ Return(c)
    /\ UNCHANGED <<record, worker, leases, scheduler, restarts, sent>>

(* cancel: the status is checked here and again under the record's mutex. *)
CancelBegin(c, a) ==
    /\ caller[c].pc = "idle" /\ "cancel" \in Ops
    /\ Exists(a) /\ ~IsTerminal(a)
    /\ Frame(c, [IdleCaller EXCEPT !.pc = "cancel", !.agent = a])
    /\ UNCHANGED <<record, worker, leases, scheduler, restarts, sent>>

CancelRecord(c) ==
    LET a == caller[c].agent
    IN  /\ caller[c].pc = "cancel"
        /\ IF IsTerminal(a) THEN UNCHANGED <<record, worker>>
           ELSE SetRecord(a, Cancel(record[a])) /\ worker' = Aborting(worker, a)
        /\ Frame(c, [caller[c] EXCEPT !.pc = "unlease"])
        /\ UNCHANGED <<leases, scheduler, restarts, sent>>

(* Fault: the lease is left to the worker. *)
CancelKeepsLease(c) ==
    /\ caller[c].pc = "unlease"
    /\ Return(c)
    /\ UNCHANGED <<record, worker, leases, scheduler, restarts, sent>>

(* The lease goes and the terminal events are appended, even if the record was
   terminal already. *)
CancelRelease(c) ==
    /\ caller[c].pc = "unlease"
    /\ leases' = [leases EXCEPT ![caller[c].agent] = {}]
    /\ Return(c)
    /\ UNCHANGED <<record, worker, scheduler, restarts, sent>>

-----------------------------------------------------------------------------
(* Fault: a dependency that has not started yet does not block. *)
PendingRunning(a) == {d \in Deps[a] : record[d].status = "Running"}

(* dependency_gate *)
Pending(a) == {d \in Deps[a] : ~IsTerminal(d)}
Failures(a) == {d \in Deps[a] : record[d].status \in {"Failed", "Cancelled"}}

Schedule(b, f) == scheduler' = [scheduler EXCEPT ![b] = f]

(* run_dependency_scheduler, one pass: sort the blocked children by their own
   status and by dependency_gate. *)
SchedulerScan(b) ==
    LET s == scheduler[b]
        open == {a \in s.blocked : ~IsTerminal(a)}
        failed == {a \in open : Failures(a) # {}}
        waiting == {a \in open \ failed : Pending(a) # {}}
        verdict(a) == IF \E d \in Failures(a) : record[d].status = "Failed"
                      THEN "Failed" ELSE "Cancelled"
    IN  /\ s.pc = "scan"
        /\ Schedule(b, [pc      |-> "take",
                        blocked |-> s.blocked,
                        ready   |-> s.blocked \ (failed \cup waiting),
                        failed  |-> {<<a, verdict(a)>> : a \in failed},
                        waiting |-> UNION {Pending(a) : a \in waiting}])
        /\ UNCHANGED <<record, worker, leases, caller, restarts, sent>>

(* A ready child that is terminal by now is dropped, the others are launched. *)
SchedulerTake(b) ==
    LET s == scheduler[b]
    IN  /\ s.pc = "take"
        /\ \/ /\ s.ready = {} /\ Schedule(b, [s EXCEPT !.pc = "launch"])
              /\ UNCHANGED worker
           \/ \E a \in s.ready :
                /\ Schedule(b, [s EXCEPT !.ready = @ \ {a}, !.blocked = @ \ {a}])
                /\ worker' = [worker EXCEPT ![a][1] =
                      IF IsTerminal(a) THEN Ended(@)
                      ELSE [@ EXCEPT !.pc = "prep", !.launch = "prep"]]
        /\ UNCHANGED <<record, leases, caller, restarts, sent>>

(* launch_ready_children_bounded is over; fail_blocked_child, one by one. *)
SchedulerFail(b) ==
    LET s == scheduler[b]
    IN  /\ s.pc = "launch"
        /\ \A a \in InBatch(b) : worker[a][1].launch = "none"
        /\ \E f \in s.failed :
              /\ Schedule(b, [s EXCEPT !.failed = @ \ {f}, !.blocked = @ \ {f[1]}])
              /\ worker' = [worker EXCEPT ![f[1]][1].pc = "finish", ![f[1]][1].launch = "fail",
                                          ![f[1]][1].outcome = f[2]]
        /\ UNCHANGED <<record, leases, caller, restarts, sent>>

(* Fault: the scheduler ends when a pass has nothing to do. *)
SchedulerQuits(b) ==
    /\ scheduler[b].pc = "launch" /\ scheduler[b].failed = {}
    /\ \A a \in InBatch(b) : worker[a][1].launch = "none"
    /\ Schedule(b, IdleScheduler)
    /\ UNCHANGED <<record, worker, leases, caller, restarts, sent>>

SchedulerRest(b) ==
    LET s == scheduler[b]
    IN  /\ s.pc = "launch" /\ s.failed = {}
        /\ \A a \in InBatch(b) : worker[a][1].launch = "none"
        /\ Schedule(b, IF s.blocked = {} \/ s.waiting = {} THEN IdleScheduler
                       ELSE [s EXCEPT !.pc = "wait"])
        /\ UNCHANGED <<record, worker, leases, caller, restarts, sent>>

(* wait(Any) on the pending dependencies; a return re-enters the loop. *)
SchedulerWake(b) ==
    /\ scheduler[b].pc = "wait"
    /\ \E d \in scheduler[b].waiting : IsTerminal(d)
    /\ Schedule(b, [scheduler[b] EXCEPT !.pc = "scan", !.waiting = {}])
    /\ UNCHANGED <<record, worker, leases, caller, restarts, sent>>

-----------------------------------------------------------------------------
LaunchStep(a, k) == LaunchSpawn(a, k) \/ LaunchAttach(a, k) \/ LaunchFail(a, k)

WorkerStep(a, k) ==
    \/ WorkerStart(a, k) \/ WorkerStarted(a, k) \/ WorkerAppendFails(a, k)
    \/ WorkerReceive(a, k) \/ WorkerWoken(a, k) \/ WorkerMailboxClosed(a, k)
    \/ WorkerTurn(a, k) \/ WorkerDrain(a, k) \/ WorkerFinish(a, k)
    \/ WorkerRelease(a, k) \/ WorkerAborted(a, k)

(* What a caller does once it has started an operation. *)
CallerStep(c) ==
    \/ SpawnClaim(c) \/ SpawnInsert(c) \/ SpawnEventsFail(c) \/ SpawnReturn(c)
    \/ QueueInput(c)
    \/ InterruptRestart(c) \/ InterruptLaunch(c) \/ InterruptFails(c)
    \/ ResumeReopen(c) \/ ResumeFails(c) \/ LaunchReturn(c)
    \/ CancelRecord(c) \/ CancelRelease(c)

CallerBegins(c) ==
    \/ \E b \in DOMAIN Batches : SpawnBegin(c, b)
    \/ \E a \in Agents : SendBegin(c, a) \/ ResumeBegin(c, a) \/ CancelBegin(c, a)

SchedulerStep(b) ==
    \/ SchedulerScan(b) \/ SchedulerTake(b) \/ SchedulerFail(b)
    \/ SchedulerRest(b) \/ SchedulerWake(b)

(* Everything but the decision to call the executor. *)
Progress ==
    \/ \E a \in Agents, k \in Workers : LaunchStep(a, k) \/ WorkerStep(a, k)
    \/ \E c \in Callers : CallerStep(c)
    \/ \E b \in DOMAIN Batches : SchedulerStep(b)

Next == Progress \/ \E c \in Callers : CallerBegins(c)

(* Tokio polls every task that can run, the store answers, and a turn ends
   (with a reply, an error or its timeout), so the system goes on while anything
   in it can move.  Nobody has to call anything.  Fairness of each task is not
   assumed: callers are bounded and no step repeats for ever without them. *)
Fairness == WF_vars(Progress)

Spec == Init /\ [][Next]_vars /\ Fairness

-----------------------------------------------------------------------------
WorkerFrames ==
    [pc : {"unused", "blocked", "prep", "spawned", "starting", "recv", "waking", "turn",
           "drain", "finish", "closing", "gone"},
     mode : {"RunInput", "AwaitMessage", None},
     launch : {"none", "prep", "attach", "fail"},
     queue : Seq(Messages), inputs : Seq(Messages \cup {First}),
     outcome : Terminal \cup {None}, aborted : BOOLEAN]

TypeOK ==
    /\ record \in [Agents -> Records(Workers) \cup {NoRecord}]
    /\ worker \in [Agents -> [Workers -> WorkerFrames]]
    /\ leases \in [Agents -> SUBSET UNION {Files[a] : a \in Agents}]
    /\ restarts \in 0..MaxRestarts /\ sent \in 0..MaxSends

(* Worker (a, k) runs or somebody is going to run it; a plan that waits for its
   dependencies is in the hands of spawn or of the scheduler. *)
Alive(a, k) ==
    /\ worker[a][k].pc \notin {"unused", "gone"}
    /\ worker[a][k].pc = "blocked" =>
          \E b \in DOMAIN Batches : a \in InBatch(b) /\
              (a \in scheduler[b].blocked \/ \E c \in Callers : caller[c].batch = b)

(* A child without an outcome has somebody to give it one: a worker (or its
   launch, or the scheduler that holds its plan) that no abort has hit, or the
   caller about to launch one.  Otherwise "waits can hang forever on an agent
   that already exited" (normalize_child_result).  It needs a store that works,
   because start gives up silently when its append fails, and it says nothing
   of a child whose cancellation a late update_status has overwritten: that
   one keeps the result of the cancellation and is CancelSticks' subject. *)
NoOrphan ==
    \A a \in Agents : Exists(a) /\ record[a].result = None =>
        \/ \E k \in Workers : Alive(a, k) /\ ~worker[a][k].aborted
        \/ \E c \in Callers : caller[c].agent = a /\ caller[c].pc = "announce"

(* Worker (d, k) has completed d. *)
CompletedBy(d, k) ==
    worker[d][k].outcome = "Completed" /\ worker[d][k].pc \in {"closing", "gone"}

(* The scheduler has launched a from its plan. *)
Started(a) == worker[a][1].pc \in {"prep", "spawned", "starting", "turn", "drain"}

(* The scheduler starts a child only after every dependency of it has at some
   time completed, however the dependencies were cancelled, interrupted or
   resumed meanwhile (dependency_gate). *)
DependentsWait ==
    \A a \in Agents : Started(a) /\ record[a].mailbox = 1 =>
        \A d \in Deps[a] : \E k \in Workers : CompletedBy(d, k)

(* A batch that was not spawned holds nothing: the claim loop undoes its own
   claims on a conflict and on a failed append (the remediation checklist
   wants a failed batch spawn to leave no child partly started). *)
SpawnAllOrNothing ==
    \A b \in DOMAIN Batches :
        (\A c \in Callers : caller[c].batch # b) =>
            \/ \A a \in InBatch(b) : Exists(a)
            \/ \A a \in InBatch(b) : ~Exists(a) /\ leases[a] = {}

(* Two children never hold overlapping paths, whichever spawns, resumes and
   releases interleave (the multi-agent plan gives a path one writer by
   default). *)
LeasesExclusive ==
    \A x, y \in Agents : x # y => \A p \in leases[x], q \in leases[y] : ~Overlap(p, q)

(* A worker of a waits for a message, for as long as nobody sends one. *)
Listening(a) == \E k \in Workers : worker[a][k].pc = "recv"

(* Every child gets an outcome, unless it or a child it may depend on has been
   resumed and waits for a message. *)
Settles ==
    \A a \in Agents : Exists(a) ~> record[a].result # None \/ \E d \in Agents : Listening(d)

(* Stop and cancel give the lease back: a terminal child does not keep one for
   ever, whichever of its workers and callers releases it, unless it has been
   resumed and a worker of it waits for a message. *)
LeaseReturned ==
    \A a \in Agents :
        IsTerminal(a) /\ leases[a] # {} ~> leases[a] = {} \/ ~IsTerminal(a) \/ Listening(a)

(* A child that completes has run every input its worker had taken from the
   mailbox: "Spawn one child agent without waiting so it can receive follow-up
   input later" (tools, spawn_agent). *)
TakenInputsRun ==
    \A a \in Agents, k \in Workers :
        worker[a][k].outcome = "Completed" => worker[a][k].inputs = <<>>

(* A cancelled child stays cancelled until it is resumed or restarted: "Close
   a child agent by cancelling it if it is still running" (tools,
   close_agent). *)
CancelSticks ==
    [][\A a \in Agents :
         record[a].status = "Cancelled" /\ record'[a].mailbox = record[a].mailbox
            => record'[a].status = "Cancelled"]_vars

(* A child at work holds the lease it asked for. *)
WorkingHoldsLease ==
    \A a \in Agents, k \in Workers :
        worker[a][k].pc = "turn" /\ record[a].mailbox = k => leases[a] = Files[a]
=============================================================================
