---------------------------- MODULE ControlPlane ----------------------------
(***************************************************************************)
(* Prompts and steers on their way to the runtime: the runtime's queue     *)
(* (control.rs), the task that drives a turn and drains the queue          *)
(* (runtime.rs, turn_loop.rs), and the terminal that starts, interrupts    *)
(* and awaits that task and edits the queue (runtime_control.rs,           *)
(* operator_tasks.rs, controls.rs).                                        *)
(***************************************************************************)
EXTENDS Subsequences, Functions

CONSTANT MaxCommands        \* bound on the commands the operator issues

ASSUME ControlAssumption == MaxCommands \in Nat

CommandIds == 1..MaxCommands

VARIABLES
    queue,      \* the commands that wait: id, kind (its lane follows it), text version
    driver,     \* the turn task: where it is, and the prompt it has not yet submitted
    applied,    \* the commands that reached the transcript, in order
    issued,     \* commands issued so far
    steers,     \* the ids issued as steers
    latest,     \* latest[i]: the version of i's text the operator was last shown
    withdrawn   \* the commands removed or cleared before they were consumed

controlVars == <<queue, driver, applied, issued, steers, latest, withdrawn>>

NoTask == {"idle", "parked"}    \* parked: interrupted, with nothing to resubmit
Driving == driver.pc \notin NoTask
Command(i, kind) == [id |-> i, kind |-> kind, text |-> 0]
OfKind(q, kind) == Kept(q, {c \in Range(q) : c.kind = kind})
Steers(q) == OfKind(q, "steer")
Prompts(q) == OfKind(q, "prompt")
Without(q, i) == Kept(q, {c \in Range(q) : c.id # i})
QueuedIds(q) == {q[i].id : i \in DOMAIN q}

ControlInit ==
    /\ queue = <<>>
    /\ driver = [pc |-> "idle", prompt |-> <<>>]
    /\ applied = <<>>
    /\ issued = 0
    /\ steers = {}
    /\ latest = [i \in CommandIds |-> 0]
    /\ withdrawn = {}

Issue(kind) ==
    /\ issued < MaxCommands
    /\ issued' = issued + 1
    /\ steers' = IF kind = "steer" THEN steers \cup {issued + 1} ELSE steers

At(pc) == driver' = [pc |-> pc, prompt |-> <<>>]
Submit(q) == driver' = [pc |-> "prepare", prompt |-> q]

-----------------------------------------------------------------------------
(* Enter while idle: start_turn_message, start_command *)
StartPrompt ==
    /\ ~Driving /\ Issue("prompt")
    /\ Submit(<<Command(issued + 1, "prompt")>>)
    /\ UNCHANGED <<queue, applied, latest, withdrawn>>

(* /steer while idle; steer_with_observer puts it into the transcript before it
   first waits *)
StartSteer ==
    /\ ~Driving /\ Issue("steer")
    /\ applied' = Append(applied, Command(issued + 1, "steer"))
    /\ At("steer")
    /\ UNCHANGED <<queue, latest, withdrawn>>

(* Tab, or Enter, while a turn task exists; a live task that finishes then is
   announced with a steer as well. *)
Enqueue(kind) ==
    /\ Driving /\ Issue(kind)
    /\ queue' = Append(queue, Command(issued + 1, kind))
    /\ UNCHANGED <<driver, applied, latest, withdrawn>>

(* maybe_finish_operator_task while idle: the announcement is queued as a prompt
   and the drain started *)
LiveTaskFinished ==
    /\ ~Driving /\ Issue("prompt")
    /\ queue' = Append(queue, Command(issued + 1, "prompt"))
    /\ At("drain")
    /\ UNCHANGED <<applied, latest, withdrawn>>

(* Fault: the edit is confirmed although the runtime has taken the command. *)
UpdatePendingLate(i) ==
    /\ i <= issued /\ latest[i] = 0 /\ i \notin withdrawn
    /\ latest' = [latest EXCEPT ![i] = 1]
    /\ queue' = [k \in DOMAIN queue |-> IF queue[k].id = i THEN [queue[k] EXCEPT !.text = 1]
                                        ELSE queue[k]]
    /\ UNCHANGED <<driver, applied, issued, steers, withdrawn>>

(* update_pending_control *)
UpdatePending(i) ==
    /\ i \in QueuedIds(queue) /\ latest[i] = 0
    /\ latest' = [latest EXCEPT ![i] = 1]
    /\ queue' = [k \in DOMAIN queue |-> IF queue[k].id = i THEN [queue[k] EXCEPT !.text = 1]
                                        ELSE queue[k]]
    /\ UNCHANGED <<driver, applied, issued, steers, withdrawn>>

(* remove_pending_control *)
RemovePending(i) ==
    /\ i \in QueuedIds(queue)
    /\ queue' = Without(queue, i)
    /\ withdrawn' = withdrawn \cup {i}
    /\ UNCHANGED <<driver, applied, issued, steers, latest>>

(* /new: clear_queued_commands, start_new_session *)
NewSession ==
    /\ ~Driving
    /\ queue' = <<>>
    /\ withdrawn' = withdrawn \cup QueuedIds(queue)
    /\ At("idle")
    /\ UNCHANGED <<applied, issued, steers, latest>>

-----------------------------------------------------------------------------
(* prepare_user_turn reaches submit_user_message. *)
PromptSubmitted ==
    /\ driver.pc = "prepare"
    /\ applied' = applied \o driver.prompt
    /\ At("turn")
    /\ UNCHANGED <<queue, issued, steers, latest, withdrawn>>

(* Fault: the last steer is merged first. *)
MergeLastSteer ==
    /\ driver.pc = "turn" /\ Steers(queue) # <<>>
    /\ LET last == Steers(queue)[Len(Steers(queue))]
       IN  applied' = Append(applied, last) /\ queue' = Without(queue, last.id)
    /\ At("merge")
    /\ UNCHANGED <<issued, steers, latest, withdrawn>>

(* A safe point of run_turn_loop, drain_runtime_steers: the first steer is popped
   and appended to the transcript, then stored. *)
MergeSteer ==
    /\ driver.pc \in {"turn", "merge"} /\ Steers(queue) # <<>>
    /\ applied' = Append(applied, Head(Steers(queue)))
    /\ queue' = Without(queue, Head(Steers(queue)).id)
    /\ At("merge")
    /\ UNCHANGED <<issued, steers, latest, withdrawn>>

(* No steer is left: the loop goes on with another model request. *)
SteersMerged ==
    /\ driver.pc = "merge" /\ Steers(queue) = <<>>
    /\ At("turn")
    /\ UNCHANGED <<queue, applied, issued, steers, latest, withdrawn>>

(* The last safe point: the model asked for no tool and no steer waits.  A steer
   scheduled from now on is too late for this turn. *)
LastSafePoint ==
    /\ driver.pc = "turn" /\ Steers(queue) = <<>>
    /\ At("stop")
    /\ UNCHANGED <<queue, applied, issued, steers, latest, withdrawn>>

(* The turn, or a steer on its own, is over: drain_queued_controls is next. *)
CommandDone ==
    /\ driver.pc \in {"stop", "steer"}
    /\ At("drain")
    /\ UNCHANGED <<queue, applied, issued, steers, latest, withdrawn>>

(* drain_queued_controls_with_observer: pop_next, until the queue is empty *)
PopNext ==
    /\ driver.pc = "drain"
    /\ IF queue = <<>>
       THEN At("done") /\ UNCHANGED <<queue, applied>>
       ELSE /\ queue' = Tail(queue)
            /\ IF Head(queue).kind = "prompt"
               THEN Submit(<<Head(queue)>>) /\ UNCHANGED applied
               ELSE At("steer") /\ applied' = Append(applied, Head(queue))
    /\ UNCHANGED <<issued, steers, latest, withdrawn>>

(* The task returns an error: a hook blocks, the model or the store fails.  A
   prompt that was popped and not yet submitted is gone. *)
TaskFails ==
    /\ driver.pc \in {"prepare", "turn", "merge", "stop", "steer"}
    /\ At("done")
    /\ UNCHANGED <<queue, applied, issued, steers, latest, withdrawn>>

(* Fault: the terminal does not look at the queue again. *)
FinishTurnIdle ==
    /\ driver.pc = "done"
    /\ At("idle")
    /\ UNCHANGED <<queue, applied, issued, steers, latest, withdrawn>>

(* maybe_finish_turn *)
FinishTurn ==
    /\ driver.pc = "done"
    /\ At(IF queue = <<>> THEN "idle" ELSE "drain")
    /\ UNCHANGED <<queue, applied, issued, steers, latest, withdrawn>>

(* Fault: an empty prompt is submitted when there is nothing to resubmit. *)
InterruptEmpty ==
    /\ Driving
    /\ queue' = Prompts(queue)
    /\ Submit(Steers(queue))
    /\ UNCHANGED <<applied, issued, steers, latest, withdrawn>>

(* Esc, interrupt_active_turn: the task is aborted and awaited, the steers taken
   from the queue and resubmitted as one prompt *)
Interrupt ==
    /\ Driving
    /\ queue' = Prompts(queue)
    /\ IF Steers(queue) = <<>> THEN At("parked") ELSE Submit(Steers(queue))
    /\ UNCHANGED <<applied, issued, steers, latest, withdrawn>>

DriverStep ==
    \/ PromptSubmitted \/ MergeSteer \/ SteersMerged \/ LastSafePoint
    \/ CommandDone \/ PopNext \/ TaskFails \/ FinishTurn

ControlNext ==
    \/ DriverStep
    \/ StartPrompt \/ StartSteer \/ LiveTaskFinished \/ NewSession \/ Interrupt
    \/ \E kind \in {"prompt", "steer"} : Enqueue(kind)
    \/ \E i \in CommandIds : UpdatePending(i) \/ RemovePending(i)

(* A turn ends, and the terminal's loop keeps polling. *)
ControlFairness == WF_controlVars(DriverStep)

ControlSpec == ControlInit /\ [][ControlNext]_controlVars /\ ControlFairness

-----------------------------------------------------------------------------
(* Commands are of their shapes, and the queue holds none twice. *)
ControlTypeOK ==
    LET Commands == [id: 1..issued, kind: {"prompt", "steer"}, text: {0, 1}]
    IN  /\ queue \in Seq(Commands) /\ applied \in Seq(Commands)
        /\ \A j, k \in DOMAIN queue : queue[j].id = queue[k].id => j = k
        /\ driver \in [pc: NoTask \cup {"prepare", "turn", "merge", "stop", "steer", "drain", "done"},
                       prompt: Seq(Commands)]
        /\ driver.prompt # <<>> <=> driver.pc = "prepare"
        /\ issued \in 0..MaxCommands /\ steers \cup withdrawn \subseteq 1..issued
        /\ latest \in [CommandIds -> {0, 1}]

(* What reaches the transcript is what the operator was last shown, once, and not
   what they withdrew, however edits, withdrawals and interrupts meet the driver's
   pops: "operators can inspect, edit, and withdraw entries before the runtime
   consumes them" (control.rs). *)
AppliedAsShown ==
    /\ \A k \in DOMAIN applied : applied[k].text = latest[applied[k].id]
    /\ \A j, k \in DOMAIN applied : applied[j].id = applied[k].id => j = k
    /\ withdrawn \cap QueuedIds(applied) = {}

(* Steers take effect in the order they were entered, those a safe point merges,
   those an interrupt resubmits and those left to the drain: "in FIFO order so
   their intent matches the sequence the operator entered"
   (interrupt_active_turn). *)
SteersInOrder ==
    \A j, k \in DOMAIN applied :
        j < k /\ {applied[j].id, applied[k].id} \subseteq steers => applied[j].id < applied[k].id

(* Once no task runs no steer waits, and no prompt either unless an interrupt left
   it there (maybe_finish_turn, interrupt_active_turn). *)
NothingStranded ==
    /\ ~Driving => Steers(queue) = <<>>
    /\ driver.pc = "idle" => queue = <<>>

(* A command that waits is consumed, whatever fails on the way, unless an interrupt
   with nothing to resubmit parks the queue: no wakeup is lost between the drain's
   last pop and the terminal's look at the queue (drain_queued_controls,
   maybe_finish_turn). *)
QueueServed ==
    \A i \in CommandIds : i \in QueuedIds(queue) ~> i \notin QueuedIds(queue) \/ driver.pc = "parked"
=============================================================================
