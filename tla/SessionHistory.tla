--------------------------- MODULE SessionHistory ---------------------------
(***************************************************************************)
(* The life of one session's history: the runtime changes it in memory and *)
(* appends an event for every change to the store, and a later process     *)
(* rebuilds it from those events.  AgentRuntime in                         *)
(* crates/runtime/src/runtime/{turn_loop,turn_start,tool_flow,history,     *)
(* hook_effects,provider_state}.rs, and the resume and fork paths of       *)
(* apps/code-agent/crates/backend/src/backend/session/lifecycle.rs.        *)
(*                                                                         *)
(* The runtime lock makes an operation exclusive, so its steps interleave  *)
(* with nothing but the end of the process (Reattach, Fork) and the host   *)
(* aborting it.  An append that fails and an abort while it is awaited     *)
(* leave the same state: memory is ahead of the log, the operation is over. *)
(***************************************************************************)
EXTENDS Transcript

CONSTANTS
    MaxMessages,    \* messages the session may be given
    MaxSystem,      \* steers and system messages of hooks
    MaxUpsets,      \* aborted turns, hook edits, rollbacks, resumes, failures
    MayFail,        \* a store append may fail, an operation be aborted
    Managed         \* the backend's provider_managed_history

ASSUME HistoryAssumption ==
    /\ {PreserveRecent, MaxMessages, MaxSystem, MaxUpsets} \subseteq Nat
    /\ {MayFail, Managed} \subseteq BOOLEAN

VARIABLES
    s,          \* AgentRuntime::session
    turn,       \* where run_turn_loop is
    op,         \* what a rollback or a compaction has still to write
    log,        \* the events of the session in the store
    agent,      \* the live agent session
    astray,     \* the log and the live session have parted
    used        \* how much of each bound is spent

vars == <<s, turn, op, log, agent, astray, used>>

Turns == {"idle", "request", "tools", "drain", "answered"}

NoOp == [kind |-> "none", ids |-> <<>>]

Init ==
    /\ s = EmptySession
    /\ turn = "idle"
    /\ op = NoOp
    /\ log = <<>>
    /\ agent = 1
    /\ astray = FALSE
    /\ used = [messages |-> 0, system |-> 0, aborts |-> 0, edits |-> 0,
               rollbacks |-> 0, reattach |-> 0]

-----------------------------------------------------------------------------
(* The next message, which answers the call `of` if it is a tool's. *)
NewMessage(role, of) == [id |-> used.messages + 1, role |-> role, of |-> of, rev |-> 0]

Counted(u, what) == [u EXCEPT ![what] = @ + 1]

MayUpset ==
    LET failures == IF astray THEN 1 ELSE 0
    IN  used.aborts + used.edits + used.rollbacks + used.reattach + failures < MaxUpsets

MayAdd == op = NoOp /\ used.messages < MaxMessages

(* store.append: on success the operation goes on to `next`.  One failure is
   enough: what the properties say, they say of sessions without one. *)
Store(event, next) ==
    \/ /\ log' = Append(log, event)
       /\ turn' = next
       /\ UNCHANGED astray
    \/ /\ MayFail /\ ~astray /\ MayUpset
       /\ astray' = TRUE
       /\ turn' = "idle"
       /\ UNCHANGED log

(* append_transcript_message and the append of its event *)
AppendMessage(m, next) ==
    /\ MayAdd
    /\ s' = [s EXCEPT !.transcript = Append(@, m)]
    /\ Store(Added(m, agent), next)
    /\ UNCHANGED <<op, agent>>

(* prepare_user_turn; a recall message of the augmentor is a steer before it *)
Prompt ==
    /\ turn = "idle"
    /\ AppendMessage(NewMessage("user", 0), "request")
    /\ used' = Counted(used, "messages")

(* steer_with_observer: at an idle edge, or drained in the turn after the tools
   ran or the model answered, when it asks for another request *)
Steer ==
    /\ turn \in {"idle", "drain", "answered"} /\ used.system < MaxSystem
    /\ AppendMessage(NewMessage("system", 0), IF turn = "idle" THEN turn ELSE "drain")
    /\ used' = Counted(Counted(used, "messages"), "system")

(* The two ends of an iteration of run_turn_loop. *)
Continue == turn = "drain" /\ turn' = "request" /\ UNCHANGED <<s, op, log, agent, astray, used>>
Stop == turn = "answered" /\ turn' = "idle" /\ UNCHANGED <<s, op, log, agent, astray, used>>

(* A turn that fails or is aborted where nothing is half done. *)
Fail ==
    /\ turn # "idle" /\ op = NoOp /\ MayUpset
    /\ turn' = "idle"
    /\ used' = Counted(used, "aborts")
    /\ UNCHANGED <<s, op, log, agent, astray>>

(* request_window: the transcript after the cursor, if a chain may be used *)
Delta(r) ==
    SelectSeq(SubSeq(r.transcript, r.cursor + 1, Len(r.transcript)),
              LAMBDA m : m.id \notin r.removed)

Chained(r) == r.chain # NoChain /\ \A m \in ToSet(Delta(r)) : m.role \notin {"call", "tool"}

(* What the provider has been told once it has seen the next request. *)
Told(r) == IF Chained(r) THEN r.chain \o Delta(r) ELSE Visible(r)

(* Fault: the chain survives. *)
KeepChain(r) == r

(* reset_provider_continuation *)
ResetChain(r) == [r EXCEPT !.chain = NoChain, !.cursor = 0]

(* Fault: the cursor points past the answer. *)
UpdateChainPast(r, told) == [r EXCEPT !.chain = told, !.cursor = Len(r.transcript) + 1]

(* update_provider_continuation, after the answer is in the transcript *)
UpdateChain(r, told) == [r EXCEPT !.chain = told, !.cursor = Len(r.transcript)]

(* collect_model_response, persist_assistant_response and
   update_provider_continuation *)
Respond(role) ==
    /\ turn = "request"
    /\ MayAdd
    /\ LET m == NewMessage(role, 0)
           with == [s EXCEPT !.transcript = Append(@, m)]
           told == IF Managed THEN Append(Told(s), m) ELSE NoChain
       IN  /\ Store(Added(m, agent), IF role = "call" THEN "tools" ELSE "answered")
           /\ s' = IF log' = log THEN with ELSE UpdateChain(with, told)
    /\ used' = Counted(used, "messages")
    /\ UNCHANGED <<op, agent>>

(* The provider has lost the chain: the retry sends the whole window. *)
LoseContinuation ==
    /\ turn = "request" /\ op = NoOp /\ Chained(s)
    /\ s' = ResetChain(s)
    /\ UNCHANGED <<turn, op, log, agent, astray, used>>

(* handle_tool_call: a PreToolUse hook's AppendMessage, then the result *)
HookMessage ==
    /\ turn = "tools" /\ used.system < MaxSystem
    /\ AppendMessage(NewMessage("system", 0), "tools")
    /\ used' = Counted(Counted(used, "messages"), "system")

ToolResult ==
    /\ turn = "tools"
    /\ LET call == Last(SelectSeq(s.transcript, LAMBDA m : m.role = "call"))
       IN  AppendMessage(NewMessage("tool", call.id), "drain")
    /\ used' = Counted(used, "messages")

(* apply_transcript_message_patch, _replacement and _removal of a visible
   message by a hook, here a Stop hook; the chain is reset only after the event
   is stored *)
HookEdit(i, remove) ==
    /\ turn = "answered" /\ op = NoOp
    /\ MayUpset
    /\ LET m == s.transcript[i]
           patched == [m EXCEPT !.rev = @ + 1]
           edited == IF remove THEN [s EXCEPT !.removed = @ \cup {m.id}]
                     ELSE [s EXCEPT !.transcript[i] = patched]
           event == IF remove THEN Removed(m.id, agent) ELSE Patched(patched, agent)
       IN  /\ Store(event, turn)
           /\ s' = IF log' = log THEN edited ELSE ResetChain(edited)
    /\ used' = Counted(used, "edits")
    /\ UNCHANGED <<op, agent>>

-----------------------------------------------------------------------------
(* compact_if_needed lets a turn compact only without a provider chain, and
   from three messages on; compact_now has neither condition. *)
MayCompact ==
    \/ turn = "idle"
    \/ turn = "request" /\ s.chain = NoChain /\ Len(Visible(s)) >= 3

(* compact_visible_history up to the summary: the window becomes the summary
   and the retained tail.  A failed append leaves a summary that is an ordinary
   last message. *)
Summarise ==
    /\ MayCompact /\ MayAdd
    /\ \E p \in Splits(Visible(s)) :
         LET m == NewMessage("system", 0)
             v == VisibleIndices(s)
             tail == SubSeq(v, p, Len(v))
             with == [s EXCEPT !.transcript = Append(@, m)]
         IN  /\ Store(Added(m, agent), turn)
             /\ s' = IF log' = log THEN with
                     ELSE [ResetChain(with) EXCEPT !.summary = Len(with.transcript),
                                                   !.tail = tail]
             /\ op' = IF log' = log THEN NoOp
                      ELSE [kind |-> "checkpoint",
                            ids |-> [i \in DOMAIN tail |-> s.transcript[tail[i]].id]]
    /\ used' = Counted(used, "messages")
    /\ UNCHANGED agent

(* The rest of it: CompactionCompleted, then rotate_agent_session. *)
CompleteCompaction ==
    /\ op.kind = "checkpoint"
    /\ Store(Checkpoint(s.transcript[s.summary].id, op.ids, agent), turn)
    /\ agent' = IF log' = log THEN agent ELSE agent + 1
    /\ op' = NoOp
    /\ UNCHANGED <<s, used>>

(* rollback_visible_history_from_message, from the first message of a round *)
Rollback ==
    /\ turn = "idle" /\ op = NoOp
    /\ MayUpset
    /\ LET v == Visible(s)
       IN  \E p \in RollbackStarts(v, s.summary # NoIndex) :
             op' = [kind |-> "rollback", ids |-> Ids(SubSeq(v, p, Len(v)))]
    /\ used' = Counted(used, "rollbacks")
    /\ UNCHANGED <<s, turn, log, agent, astray>>

(* One turn of its loop; the last one resets the provider chain. *)
RemoveNext ==
    /\ op.kind = "rollback"
    /\ LET id == Head(op.ids)
           without == [s EXCEPT !.removed = @ \cup {id}]
           done == Tail(op.ids) = <<>>
       IN  /\ Store(Removed(id, agent), turn)
           /\ s' = IF done /\ log' # log THEN ResetChain(without) ELSE without
           /\ op' = IF done \/ log' = log THEN NoOp ELSE [op EXCEPT !.ids = Tail(@)]
    /\ UNCHANGED <<agent, used>>

-----------------------------------------------------------------------------
AgentsOf(events) == {e.agent : e \in ToSet(events)}

(* load_runtime_session_for_root_agent: the first of the log's agent sessions *)
RootAgent(events) == Head(events).agent

(* The process ends anywhere, and agent session g is resumed (/resume, or the
   root agent session by the session's reference) under a fresh id.  An older
   window leaves the events after it out, half a rollback leaves a history no
   one asked for. *)
Reattach(g) ==
    /\ MayUpset
    /\ LET events == Cut(log, g)
       IN  /\ Reconstructible(events)
           /\ s' = Reconstruct(events)
           /\ astray' = (astray \/ events # log \/ op.kind = "rollback")
    /\ turn' = "idle" /\ op' = NoOp
    /\ agent' = agent + 1
    /\ used' = Counted(used, "reattach")
    /\ UNCHANGED log

(* fork_persisted_session, of the root agent session, and build_child_session, of
   the live one: the copy and its seed are a session of their own, which the
   model follows from here on *)
Fork(g) ==
    /\ MayUpset
    /\ Reconstructible(Cut(log, g))
    /\ s' = Reconstruct(Cut(log, g))
    /\ log' = SeedEvents(s', agent + 1)
    /\ turn' = "idle" /\ op' = NoOp
    /\ astray' = (astray \/ op.kind = "rollback")
    /\ agent' = agent + 1
    /\ used' = Counted(used, "reattach")

Next ==
    \/ Prompt \/ Steer \/ Continue \/ Stop \/ Fail
    \/ \E role \in {"assistant", "call"} : Respond(role)
    \/ LoseContinuation \/ HookMessage \/ ToolResult
    \/ \E i \in ToSet(VisibleIndices(s)), remove \in BOOLEAN : HookEdit(i, remove)
    \/ Summarise \/ CompleteCompaction \/ Rollback \/ RemoveNext
    \/ \E g \in AgentsOf(log) : Reattach(g)
    \/ log # <<>> /\ \E g \in AgentsOf(log) \cap {RootAgent(log), agent} : Fork(g)

Spec == Init /\ [][Next]_vars

-----------------------------------------------------------------------------
Messages == [id : 1..MaxMessages, role : Roles, of : 0..MaxMessages, rev : 0..MaxUpsets]

(* Every position the session keeps lies in its transcript. *)
TypeOK ==
    /\ s.transcript \in Seq(Messages) /\ s.chain \in Seq(Messages)
    /\ s.removed \subseteq 1..MaxMessages
    /\ s.summary \in 0..Len(s.transcript) /\ s.cursor \in 0..Len(s.transcript)
    /\ s.tail \in Seq(1..Len(s.transcript))
    /\ turn \in Turns
    /\ op.kind \in {"none", "rollback", "checkpoint"}
    /\ AgentsOf(log) \subseteq 1..agent
    /\ astray \in BOOLEAN

Paired(v) ==
    \A i \in DOMAIN v : v[i].role = "tool" => \E j \in 1..(i - 1) : v[j].id = v[i].of

(* Unless a hook takes a call away, no tool result is shown to the model without
   the call it answers, before and after compactions, rollbacks and resumes ("tool
   call / tool result pairs remain indivisible", docs/memory-core-alignment.md). *)
ToolPairs == op = NoOp /\ ~astray /\ used.edits = 0 => Paired(Visible(s))

(* A request that continues a provider chain leaves the provider with exactly the
   visible history: every change that is not an append has reset the chain
   (request_window's delta, reset_provider_continuation). *)
ChainIsCurrent ==
    op = NoOp /\ ~astray /\ s.chain # NoChain => s.chain \o Delta(s) = Visible(s)

Replayed == Visible(Reconstruct(log))

(* A resume of the latest window shows every message the live session showed, in
   the same order and with its last text, whatever compactions, rollbacks and
   edits came before (rollback and compaction persist what they do).  It may show
   more: after a second compaction the tail is extended over an older summary. *)
ResumeLosesNothing ==
    op = NoOp /\ ~astray /\ Reconstructible(log) =>
        LET Shown(m) == m \in ToSet(Visible(s)) IN SelectSeq(Replayed, Shown) = Visible(s)

(* A log the resume path refuses is one from which a hook removed the summary:
   rollbacks, compactions and crashes between their steps never make one. *)
AlwaysResumable == used.edits = 0 => Reconstructible(log)

(* Resuming a session by its reference shows the history the session had when it
   was left: "To continue this session, run {} resume {}", the exit hint in
   apps/code-agent/src/main.rs. *)
SessionResumes ==
    op = NoOp /\ ~astray /\ log # <<>> =>
        Visible(Reconstruct(Cut(log, RootAgent(log)))) = Visible(s)
=============================================================================
