------------------------ MODULE AgentSessionManager ------------------------
(***************************************************************************)
(* crates/runtime/src/agent_session_manager.rs: the registry of child      *)
(* agents and its wait protocol.  Callers (workers, tool calls, the        *)
(* operator) mutate one record under its mutex and then, after the mutex   *)
(* is released, call notify_waiters.  A waiter registers its Notified      *)
(* future, reads the requested records one mutex at a time, and parks when *)
(* the request is not met.                                                 *)
(*                                                                         *)
(* tokio's Notify is external: notify_waiters wakes every Notified future  *)
(* that exists when it is called, and leaves no permit behind.             *)
(***************************************************************************)
EXTENDS AgentRecords, Sequences

CONSTANTS
    Agents,
    Callers,    \* threads that mutate records
    Waiters,    \* tasks that call wait
    Requests    \* the agent_ids of wait requests: non-empty sequences

ASSUME RequestsAssumption == Requests \subseteq Seq(Agents) \ {<<>>}

VARIABLES
    record,     \* record[a]; NoRecord before insert
    owesNotify, \* callers between releasing the mutex and notify_waiters
    waiter      \* waiter[w]: the frame of wait and snapshot_wait

vars == <<record, owesNotify, waiter>>

Idle == [pc |-> "idle", mode |-> None, ids |-> <<>>, seen |-> <<>>, woken |-> FALSE]

IsTerminal(a) == record[a].status \in Terminal
Exists(a) == record[a] # NoRecord

-----------------------------------------------------------------------------
Init ==
    /\ record = [a \in Agents |-> NoRecord]
    /\ owesNotify = {}
    /\ waiter = [w \in Waiters |-> Idle]

Mutate(c, a, r) ==
    /\ c \notin owesNotify
    /\ record' = [record EXCEPT ![a] = r]
    /\ owesNotify' = owesNotify \cup {c}
    /\ UNCHANGED waiter

Insert(c, a) ==
    /\ ~Exists(a)
    /\ Mutate(c, a, NewRecord(1))

(* The executor passes only Running and WaitingMessage. *)
SetStatus(c, a) ==
    /\ Exists(a)
    /\ \E s \in {"Running", "WaitingMessage"} : Mutate(c, a, UpdateStatus(record[a], s))

FinishAgent(c, a) ==
    /\ Exists(a)
    /\ \E s \in Terminal : Mutate(c, a, Finish(record[a], s))

ReopenAgent(c, a) ==
    /\ Exists(a) /\ IsTerminal(a)
    /\ Mutate(c, a, Reopen(record[a], 1))

RestartAgent(c, a) ==
    /\ Exists(a)
    /\ Mutate(c, a, Restart(record[a], 1))

(* Fault: cancel returns before it notifies. *)
CancelSilently(c, a) ==
    /\ Exists(a) /\ ~IsTerminal(a)
    /\ record' = [record EXCEPT ![a] = Cancel(@)]
    /\ UNCHANGED <<owesNotify, waiter>>

CancelAgent(c, a) ==
    /\ Exists(a) /\ ~IsTerminal(a)
    /\ Mutate(c, a, Cancel(record[a]))

(* Fault: the Notified future is created after the snapshot. *)
NotifyParked(c) ==
    /\ c \in owesNotify
    /\ owesNotify' = owesNotify \ {c}
    /\ waiter' = [w \in Waiters |->
                    [waiter[w] EXCEPT !.woken = @ \/ waiter[w].pc = "parked"]]
    /\ UNCHANGED record

(* self.updates.notify_waiters(), the last thing every mutation does *)
NotifyWaiters(c) ==
    /\ c \in owesNotify
    /\ owesNotify' = owesNotify \ {c}
    /\ waiter' = [w \in Waiters |->
                    [waiter[w] EXCEPT !.woken = @ \/ waiter[w].pc \in {"snapshot", "parked"}]]
    /\ UNCHANGED record

-----------------------------------------------------------------------------
Done(f) ==
    LET completed == {i \in 1..Len(f.seen) : f.seen[i] \in Terminal}
    IN  IF f.mode = "Any" THEN completed # {} ELSE completed = 1..Len(f.ids)

(* The head of the loop: updates.notified() before the snapshot. *)
Register(f) == [f EXCEPT !.pc = "snapshot", !.seen = <<>>, !.woken = FALSE]

(* wait: an unknown agent is an error, before anything is awaited. *)
BeginWait(w) ==
    /\ waiter[w].pc = "idle"
    /\ \E ids \in Requests, mode \in {"Any", "All"} :
          /\ \A i \in 1..Len(ids) : Exists(ids[i])
          /\ waiter' = [waiter EXCEPT ![w] =
                          Register([Idle EXCEPT !.mode = mode, !.ids = ids])]
    /\ UNCHANGED <<record, owesNotify>>

(* One record of snapshot_wait: status and result under the same mutex. *)
ReadRecord(w) ==
    LET f == waiter[w]
    IN  /\ f.pc = "snapshot" /\ Len(f.seen) < Len(f.ids)
        /\ waiter' = [waiter EXCEPT ![w].seen =
                        Append(f.seen, record[f.ids[Len(f.seen) + 1]].status)]
        /\ UNCHANGED <<record, owesNotify>>

(* The request is met: wait returns.  Its answer is dropped here, and with it
   the second reading of the records by which an Any answer is cut down to the
   first completed agent. *)
ReturnWait(w) ==
    LET f == waiter[w]
    IN  /\ f.pc = "snapshot" /\ Len(f.seen) = Len(f.ids) /\ Done(f)
        /\ waiter' = [waiter EXCEPT ![w] = Idle]
        /\ UNCHANGED <<record, owesNotify>>

(* notified.await: parks, or goes on at once if the wake-up already came. *)
Park(w) ==
    LET f == waiter[w]
    IN  /\ f.pc = "snapshot" /\ Len(f.seen) = Len(f.ids) /\ ~Done(f)
        /\ waiter' = [waiter EXCEPT ![w].pc = "parked"]
        /\ UNCHANGED <<record, owesNotify>>

Wake(w) ==
    /\ waiter[w].pc = "parked" /\ waiter[w].woken
    /\ waiter' = [waiter EXCEPT ![w] = Register(@)]
    /\ UNCHANGED <<record, owesNotify>>

Next ==
    \/ \E c \in Callers :
          \/ NotifyWaiters(c)
          \/ \E a \in Agents :
                \/ Insert(c, a) \/ SetStatus(c, a) \/ FinishAgent(c, a)
                \/ ReopenAgent(c, a) \/ RestartAgent(c, a) \/ CancelAgent(c, a)
    \/ \E w \in Waiters :
          BeginWait(w) \/ ReadRecord(w) \/ ReturnWait(w) \/ Park(w) \/ Wake(w)

(* A thread that released the mutex goes on to notify, and a waiter that can
   run is polled by the tokio scheduler; nobody has to mutate a record. *)
Fairness ==
    /\ \A c \in Callers : WF_vars(NotifyWaiters(c))
    /\ \A w \in Waiters : WF_vars(ReadRecord(w) \/ ReturnWait(w) \/ Park(w) \/ Wake(w))

Spec == Init /\ [][Next]_vars /\ Fairness

-----------------------------------------------------------------------------
Frames ==
    [pc : {"idle", "snapshot", "parked"}, mode : {"Any", "All", None},
     ids : Requests \cup {<<>>}, seen : Seq(Statuses), woken : BOOLEAN]

TypeOK ==
    /\ record \in [Agents -> Records({1}) \cup {NoRecord}]
    /\ owesNotify \subseteq Callers
    /\ waiter \in [Waiters -> Frames]

(* What the waiter asked for is true of the records now. *)
Satisfied(w) ==
    LET f == waiter[w]
        over == {i \in 1..Len(f.ids) : IsTerminal(f.ids[i])}
    IN  IF f.mode = "Any" THEN over # {} ELSE over = 1..Len(f.ids)

(* "Register the waiter before snapshotting state so status transitions that
   race with the snapshot cannot be lost" (wait): a waiter sleeps on a request
   that is already met only while some caller still owes its notify_waiters. *)
NoLostWakeup ==
    \A w \in Waiters :
        waiter[w].pc = "parked" /\ ~waiter[w].woken /\ owesNotify = {} => ~Satisfied(w)

(* A waiter's frame agrees with the registry: it waits for known agents, parks
   only on an unmet snapshot, and until a notification reaches it, or is due,
   everything it has read still holds. *)
Coherent(f) ==
    /\ f.pc # "idle" => /\ f.mode # None
                        /\ Len(f.seen) <= Len(f.ids)
                        /\ \A i \in 1..Len(f.ids) : Exists(f.ids[i])
    /\ f.pc = "parked" => Len(f.seen) = Len(f.ids) /\ ~Done(f)
    /\ f.pc # "idle" /\ ~f.woken /\ owesNotify = {} =>
          \A i \in 1..Len(f.seen) : f.seen[i] = record[f.ids[i]].status

(* The strengthening that makes NoLostWakeup inductive: notified() comes
   before snapshot_wait, so no read of a registered waiter goes stale without
   a wake-up. *)
SeenIsCurrent == \A w \in Waiters : Coherent(waiter[w])

(* A terminal record always carries the result of the same outcome, so a wait
   that reports an agent completed has its result to hand on: no sequence of
   finishes, cancels, restarts and reopens leaves one without the other. *)
TerminalHasResult ==
    \A a \in Agents : Exists(a) /\ IsTerminal(a) => record[a].result = record[a].status

(* Met(w, a): w's request is met, by agent a if any one agent will do. *)
Met(w, a) ==
    /\ Satisfied(w)
    /\ waiter[w].mode = "Any" => IsTerminal(a) /\ \E i \in 1..Len(waiter[w].ids) : waiter[w].ids[i] = a

(* A wait whose request stays met returns, however the records were mutated
   while it was reading them.  An Any request must stay met by the same agent:
   the snapshot takes one record at a time and can miss agents that take turns
   at being terminal. *)
WaitReturns ==
    \A w \in Waiters : \A a \in Agents :
        <>[](waiter[w].pc = "idle" \/ Met(w, a)) => []<>(waiter[w].pc = "idle")
=============================================================================
