---------------------------- MODULE ExecSessions ----------------------------
(***************************************************************************)
(* The tools' process/unified_exec.rs: exec_command starts a process and   *)
(* registers a session for it, write_stdin feeds it, closes its input and  *)
(* polls its output.  Any runtime's tool call may use any session, so two  *)
(* callers may poll or write one session at the same time.  Output is      *)
(* counted in characters of one stream: stderr is handled alike.           *)
(***************************************************************************)
EXTENDS Naturals, Sequences, FiniteSets, Functions

CONSTANTS
    ExecIds, ExecCallers,
    MaxOutput,      \* MaxOutput[s]: bound on the characters the process writes
    MaxTracked      \* MAX_TRACKED_EXEC_SESSIONS

ASSUME ExecAssumption == MaxOutput \in [ExecIds -> Nat] /\ MaxTracked \in Nat \ {0}

VARIABLES
    exec,       \* exec[s]: the process, its output and its session
    caller,     \* caller[x]: the tool call
    registry,   \* the sessions registered
    finished,   \* the sessions completed, in the order of finished_at
    windows     \* windows[s]: the windows of output delivered so far

execVars == <<exec, caller, registry, finished, windows>>

NotStarted == [proc |-> "none", written |-> 0, captured |-> 0, cursor |-> 0,
               status |-> "running", stdin |-> "open", lock |-> "free"]
NoExec == [pc |-> "idle", session |-> "none", close |-> FALSE]

ExecInit ==
    /\ exec = [s \in ExecIds |-> NotStarted]
    /\ caller = [x \in ExecCallers |-> NoExec]
    /\ registry = {}
    /\ finished = <<>>
    /\ windows = [s \in ExecIds |-> {}]

CallerAt(x, pc) == caller' = [caller EXCEPT ![x].pc = pc]
Returned(x) == caller' = [caller EXCEPT ![x] = NoExec]

-----------------------------------------------------------------------------
(* prune_completed_sessions: as many as there are too many, the oldest first
   (sessions of one second are taken in the order they completed) *)
Pruned ==
    LET completed == {i \in DOMAIN finished : finished[i] \in registry}
        over == Cardinality(registry) + 1 - MaxTracked
    IN  IF Cardinality(registry) < MaxTracked THEN {}
        ELSE {finished[i] : i \in {j \in completed : Cardinality({k \in completed : k <= j}) <= over}}

(* exec_command: spawn, insert_session, run_exec_session *)
ExecCommand(x, s) ==
    /\ caller[x] = NoExec /\ exec[s].proc = "none"
    /\ exec' = [exec EXCEPT ![s].proc = "running"]
    /\ registry' = (registry \ Pruned) \cup {s}
    /\ caller' = [caller EXCEPT ![x] = [NoExec EXCEPT !.pc = "activity", !.session = s]]
    /\ UNCHANGED <<finished, windows>>

(* write_stdin: an unknown session is an error, and so is input for one that has
   completed; no input at all is a poll. *)
WriteStdin(x, s, chars, close) ==
    /\ caller[x] = NoExec /\ exec[s].proc # "none"
    /\ s \in registry /\ (chars => exec[s].status = "running")
    /\ caller' = [caller EXCEPT ![x] = [pc |-> CASE chars -> "write" [] ~chars /\ close -> "close"
                                                 [] OTHER -> "activity",
                                        session |-> s, close |-> close]]
    /\ UNCHANGED <<exec, registry, finished, windows>>

(* write_input: the lock of stdin, kept over the write *)
LockStdin(x) ==
    LET s == caller[x].session
    IN  /\ caller[x].pc = "write" /\ exec[s].lock = "free"
        /\ IF exec[s].stdin = "closed"
           THEN Returned(x) /\ UNCHANGED exec
           ELSE exec' = [exec EXCEPT ![s].lock = x] /\ CallerAt(x, "writing")
        /\ UNCHANGED <<registry, finished, windows>>

(* Fault: the lock is left when the pipe is broken. *)
WriteReturnsLocked(x) ==
    LET s == caller[x].session
    IN  /\ caller[x].pc = "writing"
        /\ IF exec[s].proc = "running"
           THEN /\ exec' = [exec EXCEPT ![s].lock = "free"]
                /\ CallerAt(x, IF caller[x].close THEN "close" ELSE "activity")
           ELSE exec' = [exec EXCEPT ![s].stdin = "closed"] /\ Returned(x)
        /\ UNCHANGED <<registry, finished, windows>>

(* The write returns once the process has read, or fails once it is gone. *)
WriteReturns(x) ==
    LET s == caller[x].session
    IN  /\ caller[x].pc = "writing"
        /\ IF exec[s].proc = "running"
           THEN /\ exec' = [exec EXCEPT ![s].lock = "free"]
                /\ CallerAt(x, IF caller[x].close THEN "close" ELSE "activity")
           ELSE exec' = [exec EXCEPT ![s].lock = "free", ![s].stdin = "closed"] /\ Returned(x)
        /\ UNCHANGED <<registry, finished, windows>>

(* close_stdin *)
CloseStdin(x) ==
    LET s == caller[x].session
    IN  /\ caller[x].pc = "close" /\ exec[s].lock = "free"
        /\ exec' = [exec EXCEPT ![s].stdin = "closed"]
        /\ CallerAt(x, "activity")
        /\ UNCHANGED <<registry, finished, windows>>

(* Fault: the cursor skips what did not fit the window. *)
SliceAll(e) == [from |-> e.cursor, to |-> e.cursor + 1, cursor |-> e.captured]

(* slice_output_window, of max_output_chars = 1 *)
Slice(e) ==
    LET to == IF e.cursor < e.captured THEN e.cursor + 1 ELSE e.cursor
    IN  [from |-> e.cursor, to |-> to, cursor |-> to]

(* wait_for_activity is over, by output, completion or its timeout, and
   build_session_result takes the next window. *)
Poll(x) ==
    LET s == caller[x].session
        w == Slice(exec[s])
    IN  /\ caller[x].pc = "activity"
        /\ exec' = [exec EXCEPT ![s].cursor = w.cursor]
        /\ windows' = [windows EXCEPT ![s] =
                          IF w.from < w.to THEN @ \cup {[from |-> w.from, to |-> w.to]} ELSE @]
        /\ Returned(x)
        /\ UNCHANGED <<registry, finished>>

(* The turn is aborted: the future is dropped, and the lock with it. *)
ExecDropped(x) ==
    LET s == caller[x].session
    IN  /\ caller[x] # NoExec
        /\ exec' = IF caller[x].pc = "writing" THEN [exec EXCEPT ![s].lock = "free"] ELSE exec
        /\ Returned(x)
        /\ UNCHANGED <<registry, finished, windows>>

-----------------------------------------------------------------------------
(* The process writes, ... *)
ProcessWrites(s) ==
    /\ exec[s].proc = "running" /\ exec[s].written < MaxOutput[s]
    /\ exec' = [exec EXCEPT ![s].written = @ + 1]
    /\ UNCHANGED <<caller, registry, finished, windows>>

(* ... and ends. *)
ProcessExits(s) ==
    /\ exec[s].proc = "running"
    /\ exec' = [exec EXCEPT ![s].proc = "exited"]
    /\ UNCHANGED <<caller, registry, finished, windows>>

(* The capture task reads a chunk, before or after the completion. *)
Capture(s) ==
    /\ exec[s].captured < exec[s].written
    /\ \E n \in (exec[s].captured + 1)..exec[s].written :
           exec' = [exec EXCEPT ![s].captured = n]
    /\ UNCHANGED <<caller, registry, finished, windows>>

(* run_exec_session: child.wait() returns and the status is set *)
Complete(s) ==
    /\ exec[s].proc = "exited" /\ exec[s].status = "running"
    /\ exec' = [exec EXCEPT ![s].status = "completed"]
    /\ finished' = Append(finished, s)
    /\ UNCHANGED <<caller, registry, windows>>

ExecNext ==
    \/ \E x \in ExecCallers :
          \/ \E s \in ExecIds : ExecCommand(x, s)
          \/ \E s \in ExecIds, chars, close \in BOOLEAN : WriteStdin(x, s, chars, close)
          \/ LockStdin(x) \/ WriteReturns(x) \/ CloseStdin(x) \/ Poll(x) \/ ExecDropped(x)
    \/ \E s \in ExecIds : ProcessWrites(s) \/ ProcessExits(s) \/ Capture(s) \/ Complete(s)

ExecSpec == ExecInit /\ [][ExecNext]_execVars

-----------------------------------------------------------------------------
(* Sessions and calls are of their shapes. *)
ExecTypeOK ==
    /\ exec \in [ExecIds -> [proc: {"none", "running", "exited"}, written: Nat,
                             captured: Nat, cursor: Nat,
                             status: {"running", "completed"}, stdin: {"open", "closed"},
                             lock: ExecCallers \cup {"free"}]]
    /\ \A s \in ExecIds : exec[s].written <= MaxOutput[s]
    /\ caller \in [ExecCallers -> [pc: {"idle", "write", "writing", "close", "activity"},
                               session: ExecIds \cup {"none"}, close: BOOLEAN]]
    /\ registry \subseteq ExecIds /\ Range(finished) \subseteq ExecIds

(* The windows the callers get tile the output from its start: none overlap, none
   is skipped, however polls interleave with the capture and with each other
   (output_windows: "follow-up polling only needs the session id"). *)
WindowsTile ==
    \A s \in ExecIds :
        /\ exec[s].cursor <= exec[s].captured /\ exec[s].captured <= exec[s].written
        /\ \A n \in 1..exec[s].cursor :
              Cardinality({w \in windows[s] : w.from < n /\ n <= w.to}) = 1

(* A session leaves the registry completed, never while its process may still be
   read or written (prune_completed_sessions). *)
PrunesOnlyCompleted ==
    [][\A s \in registry \ registry' : exec[s].status = "completed"]_execVars

(* The lock of a session's input is only ever held by a call that is writing to that
   session: no error path and no aborted turn leaves it locked against the callers
   that write or close later (write_input, close_stdin). *)
StdinLockIsLive ==
    \A s \in ExecIds : exec[s].lock # "free" =>
        caller[exec[s].lock].pc = "writing" /\ caller[exec[s].lock].session = s
=============================================================================
