---------------------------- MODULE AgentRecords ----------------------------
(***************************************************************************)
(* One AgentRecord of crates/runtime/src/agent_session_manager.rs and what *)
(* each mutation makes of it.  The record mutex makes a mutation one step. *)
(* The result envelope is abstracted to the status it carries, the mailbox *)
(* and the join handle to the number of the worker they belong to.         *)
(***************************************************************************)
EXTENDS Naturals

None == "none"

Terminal == {"Completed", "Failed", "Cancelled"}
Active == {"Queued", "Running", "WaitingMessage"}
Statuses == Active \cup Terminal

NoWorker == 0

Records(Workers) ==
    [status : Statuses, result : Terminal \cup {None},
     mailbox : Workers, join : Workers \cup {NoWorker}]

(* An agent the registry does not know. *)
NoRecord ==
    [status |-> None, result |-> None, mailbox |-> NoWorker, join |-> NoWorker]

(* insert *)
NewRecord(w) ==
    [status |-> "Queued", result |-> None, mailbox |-> w, join |-> NoWorker]

(* attach_join_handle *)
AttachJoinHandle(r, w) == [r EXCEPT !.join = w]

(* update_status: whatever the record's status was *)
UpdateStatus(r, s) == [r EXCEPT !.status = s]

(* finish: refuses a non-terminal status, but not a record already terminal;
   the envelope carries the same status *)
Finish(r, s) == [r EXCEPT !.status = s, !.result = s]

(* reopen, after its check that the record is terminal *)
Reopen(r, w) == NewRecord(w)

(* restart: no check; the caller aborts the worker in r.join *)
Restart(r, w) == NewRecord(w)

(* cancel, of a record not yet terminal; the caller aborts r.join *)
Cancel(r) ==
    [r EXCEPT !.status = "Cancelled", !.result = "Cancelled", !.join = NoWorker]
=============================================================================
