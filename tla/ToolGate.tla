------------------------------ MODULE ToolGate ------------------------------
(***************************************************************************)
(* What a tool call passes before it runs, in the root runtime and in the  *)
(* child runtimes at the same time: hooks, policy and the operator's       *)
(* approval (handle_tool_call); the dialogs they share, each of one slot   *)
(* (approval.rs, user_input.rs, permission_request.rs); and the sticky     *)
(* permission grants (permissions.rs).  The loop detector is a module of   *)
(* its own: here it blocks a call or does not.                             *)
(***************************************************************************)
EXTENDS Naturals

CONSTANTS
    Runtimes, Root,
    MaxCalls, MaxTurns      \* bounds on the tool calls and on the root's turns

ASSUME GateAssumption == Root \in Runtimes /\ {MaxCalls, MaxTurns} \subseteq Nat

Dialogs == {"approval", "input", "permission"}
Free == 0                   \* no prompt in the slot
NoCall == [pc |-> "idle", call |-> 0, tool |-> "plain", hint |-> FALSE, said |-> {},
           review |-> FALSE, answer |-> "none", turn |-> 0]

VARIABLES
    gate,       \* gate[r]: the runtime's tool call, what hooks and policy said of it,
                \* whether any of that calls for a review, and its dialog's answer
    slot,       \* slot[d]: the call whose prompt and responder the dialog holds
    grants,     \* the root's PermissionGrantStore: by whom and in which turn
    rootTurn,   \* the root's turn
    approved,   \* the calls the operator approved
    dispatched  \* calls so far

gateVars == <<gate, slot, grants, rootTurn, approved, dispatched>>

GateInit ==
    /\ gate = [r \in Runtimes |-> NoCall]
    /\ slot = [d \in Dialogs |-> Free]
    /\ grants = [once |-> {}, session |-> {}]
    /\ rootTurn = 0
    /\ approved = {}
    /\ dispatched = 0

Waits(r, d) == gate[r].pc = d

-----------------------------------------------------------------------------
(* The model asks for a tool: one whose spec has approval hints or not, and that
   opens a dialog itself or not. *)
Dispatch(r, tool, hint) ==
    /\ gate[r] = NoCall /\ dispatched < MaxCalls
    /\ dispatched' = dispatched + 1
    /\ gate' = [gate EXCEPT ![r] = [NoCall EXCEPT !.pc = "pre", !.call = dispatched + 1,
                                                  !.tool = tool, !.hint = hint]]
    /\ UNCHANGED <<slot, grants, rootTurn, approved>>

(* merge_permission_decision *)
Merged(hooks) ==
    CASE "Deny" \in hooks -> "Deny"
      [] "Ask" \in hooks /\ "Deny" \notin hooks -> "Ask"
      [] OTHER -> "Allow"

Fails(r) == gate' = [gate EXCEPT ![r] = [NoCall EXCEPT !.pc = "failed"]]
Goes(r, c, pc) == gate' = [gate EXCEPT ![r] = [c EXCEPT !.pc = pc]]

(* PreToolUse: what the hooks that ran said *)
PreToolUse(r, hooks) ==
    LET c == [gate[r] EXCEPT !.said = hooks]
    IN  /\ gate[r].pc = "pre"
        /\ CASE "Block" \in hooks \/ Merged(hooks) = "Deny" -> Fails(r)
             [] "Block" \notin hooks /\ Merged(hooks) = "Ask" -> Goes(r, c, "permission_hooks")
             [] OTHER -> Goes(r, c, "policy")
        /\ UNCHANGED <<slot, grants, rootTurn, approved, dispatched>>

(* PermissionRequest, after a hook asked *)
PermissionRequestHooks(r, hooks) ==
    LET c == [gate[r] EXCEPT !.said = @ \cup hooks]
    IN  /\ gate[r].pc = "permission_hooks"
        /\ IF hooks \cap {"Deny", "Block"} # {} THEN Fails(r) ELSE Goes(r, c, "policy")
        /\ UNCHANGED <<slot, grants, rootTurn, approved, dispatched>>

(* Fault: an allow rule erases the review that a hook asked for. *)
ReasonsAllowed(c, decision) ==
    IF decision = "Allow" THEN {}
    ELSE {x \in {"hint", "hook", "policy"} :
             \/ x = "hint" /\ c.hint
             \/ x = "hook" /\ Merged(c.said) = "Ask"
             \/ x = "policy" /\ decision = "Ask"}

(* The reasons for an approval: baseline hints unless an allow rule suppresses
   them, a hook's, and the policy's own. *)
Reasons(c, decision) ==
    {x \in {"hint", "hook", "policy"} :
        \/ x = "hint" /\ c.hint /\ decision # "Allow"
        \/ x = "hook" /\ Merged(c.said) = "Ask"
        \/ x = "policy" /\ decision = "Ask"}

(* What the hooks and the policy ask of this call, whoever of them spoke last. *)
MustReview(c, decision) ==
    "Ask" \in c.said \/ decision = "Ask" \/ (c.hint /\ decision # "Allow")
Refused(c, decision) == c.said \cap {"Deny", "Block"} # {} \/ decision = "Deny"

(* tool_approval_policy.decide; what was said is over with it, except for whether a
   review was called for. *)
Policy(r, decision) ==
    LET c == [NoCall EXCEPT !.call = gate[r].call, !.tool = gate[r].tool,
                            !.said = IF Refused(gate[r], decision) THEN {"Deny"} ELSE {},
                            !.review = MustReview(gate[r], decision)]
    IN  /\ gate[r].pc = "policy"
        /\ CASE decision = "Deny" -> Fails(r)
             [] decision # "Deny" /\ Reasons(gate[r], decision) # {} -> Goes(r, c, "request")
             [] OTHER -> Goes(r, c, "start")
        /\ UNCHANGED <<slot, grants, rootTurn, approved, dispatched>>

-----------------------------------------------------------------------------
(* The responder of call c hears a: nobody does when its future is gone. *)
Heard(g, d, c, a) ==
    [r \in Runtimes |-> IF g[r].pc = d /\ g[r].call = c
                        THEN [g[r] EXCEPT !.answer = a, !.turn = rootTurn]
                        ELSE g[r]]

(* Fault: a dialog that is open stays, and the newcomer waits without a responder. *)
PresentBehind(r, d) ==
    /\ gate' = [gate EXCEPT ![r].pc = d, ![r].answer = "none"]
    /\ slot' = IF slot[d] = Free THEN [slot EXCEPT ![d] = gate[r].call] ELSE slot

(* present: the prompt of the slot is replaced, and the responder dropped *)
Present(r, d) ==
    /\ gate' = [Heard(gate, d, slot[d], "closed") EXCEPT ![r].pc = d, ![r].answer = "none"]
    /\ slot' = [slot EXCEPT ![d] = gate[r].call]

(* ToolApprovalRequested is logged, then tool_approval_handler.decide. *)
RequestApproval(r) ==
    /\ gate[r].pc = "request"
    /\ Present(r, "approval")
    /\ UNCHANGED <<grants, rootTurn, approved, dispatched>>

(* The operator answers the prompt of the slot: resolve *)
Resolve(d, a) ==
    /\ slot[d] # Free
    /\ gate' = Heard(gate, d, slot[d], a)
    /\ slot' = [slot EXCEPT ![d] = Free]
    /\ approved' = IF a = "approve" THEN approved \cup {slot[d]} ELSE approved
    /\ UNCHANGED <<grants, rootTurn, dispatched>>

Answers(d) ==
    CASE d = "approval" -> {"approve", "deny"}
      [] d = "input" -> {"answered", "cancelled"}
      [] d = "permission" -> {"once", "session", "deny"}

(* decide returns; a dropped responder counts as a denial *)
ApprovalReturns(r) ==
    /\ Waits(r, "approval") /\ gate[r].answer # "none"
    /\ IF gate[r].answer = "approve"
       THEN Goes(r, [gate[r] EXCEPT !.answer = "none", !.turn = 0], "start") ELSE Fails(r)
    /\ UNCHANGED <<slot, grants, rootTurn, approved, dispatched>>

(* ToolCallStarted, and the loop detector's word *)
Start(r, critical) ==
    /\ gate[r].pc = "start"
    /\ IF critical THEN Fails(r) ELSE Goes(r, gate[r], "run")
    /\ UNCHANGED <<slot, grants, rootTurn, approved, dispatched>>

(* request_user_input and request_permissions open their dialogs. *)
OpenDialog(r) ==
    /\ gate[r].pc = "run" /\ gate[r].tool # "plain"
    /\ Present(r, gate[r].tool)
    /\ UNCHANGED <<grants, rootTurn, approved, dispatched>>

(* The dialog returns: a granted request is recorded in the store of the handler,
   which is the root's whoever asked. *)
DialogReturns(r) ==
    /\ gate[r].tool # "plain" /\ Waits(r, gate[r].tool) /\ gate[r].answer # "none"
    /\ LET a == gate[r].answer
           g == [by |-> r, turn |-> gate[r].turn]
       IN  /\ grants' = [once |-> IF a = "once" THEN grants.once \cup {g} ELSE grants.once,
                         session |-> IF a = "session" THEN grants.session \cup {g} ELSE grants.session]
           /\ IF a \in {"closed", "cancelled"} THEN Fails(r) ELSE Goes(r, gate[r], "done")
    /\ UNCHANGED <<slot, rootTurn, approved, dispatched>>

(* The tool completes or fails. *)
Execute(r) ==
    /\ gate[r].pc = "run" /\ gate[r].tool = "plain"
    /\ Goes(r, gate[r], "done") \/ Fails(r)
    /\ UNCHANGED <<slot, grants, rootTurn, approved, dispatched>>

(* The result is recorded, the hooks after it run, and the call is over. *)
CallEnds(r) ==
    /\ gate[r].pc \in {"done", "failed"}
    /\ gate' = [gate EXCEPT ![r] = NoCall]
    /\ UNCHANGED <<slot, grants, rootTurn, approved, dispatched>>

(* A hook, the store or the observer fails, the tool is not found, or a hook after
   it blocks: the error ends the turn. *)
TurnFails(r) ==
    /\ gate[r].pc \in {"pre", "permission_hooks", "request", "start", "done", "failed"}
    /\ gate' = [gate EXCEPT ![r] = NoCall]
    /\ UNCHANGED <<slot, grants, rootTurn, approved, dispatched>>

-----------------------------------------------------------------------------
(* Fault: the turn's grants are kept. *)
NextTurnKeeps ==
    /\ gate[Root] = NoCall /\ rootTurn < MaxTurns
    /\ rootTurn' = rootTurn + 1
    /\ UNCHANGED <<gate, slot, grants, approved, dispatched>>

(* prepare_user_turn of the root: clear_turn *)
NextTurn ==
    /\ gate[Root] = NoCall /\ rootTurn < MaxTurns
    /\ rootTurn' = rootTurn + 1
    /\ grants' = [grants EXCEPT !.once = {}]
    /\ UNCHANGED <<gate, slot, approved, dispatched>>

(* Esc: the root's turn is aborted, and cancel_pending_interactions answers every
   dialog, a child's too. *)
InterruptTurn ==
    /\ gate[Root].pc # "idle"
    /\ LET live == [gate EXCEPT ![Root] = NoCall]
           cancel == [d \in Dialogs |-> IF d = "approval" THEN "deny" ELSE "cancelled"]
       IN  gate' = [r \in Runtimes |->
                       IF \E d \in Dialogs : live[r].pc = d /\ slot[d] = live[r].call
                       THEN [live[r] EXCEPT !.answer = cancel[live[r].pc], !.turn = rootTurn]
                       ELSE live[r]]
    /\ slot' = [d \in Dialogs |-> Free]
    /\ UNCHANGED <<grants, rootTurn, approved, dispatched>>

(* A child is cancelled: its prompt stays in the slot. *)
ChildAborted(r) ==
    /\ r # Root /\ gate[r].pc # "idle"
    /\ gate' = [gate EXCEPT ![r] = NoCall]
    /\ UNCHANGED <<slot, grants, rootTurn, approved, dispatched>>

Returns(r) == ApprovalReturns(r) \/ DialogReturns(r)

CallStep(r) ==
    \/ \E tool \in {"plain", "input", "permission"}, hint \in BOOLEAN : Dispatch(r, tool, hint)
    \/ \E hooks \in SUBSET {"Allow", "Ask", "Deny", "Block"} : PreToolUse(r, hooks)
    \/ \E hooks \in SUBSET {"Allow", "Deny", "Block"} : PermissionRequestHooks(r, hooks)
    \/ \E decision \in {"Allow", "Ask", "Deny", "Abstain"} : Policy(r, decision)
    \/ RequestApproval(r) \/ OpenDialog(r) \/ Execute(r) \/ CallEnds(r)
    \/ \E critical \in BOOLEAN : Start(r, critical)

GateNext ==
    \/ \E r \in Runtimes : CallStep(r) \/ Returns(r) \/ TurnFails(r) \/ ChildAborted(r)
    \/ \E d \in Dialogs : \E a \in Answers(d) : Resolve(d, a)
    \/ NextTurn \/ InterruptTurn

GateSpec == GateInit /\ [][GateNext]_gateVars

-----------------------------------------------------------------------------
(* Calls, slots and grants are of their shapes. *)
GateTypeOK ==
    /\ gate \in [Runtimes ->
          [pc: Dialogs \cup {"idle", "pre", "permission_hooks", "policy", "request", "start", "run",
                             "done", "failed"},
           call: 0..MaxCalls, tool: {"plain", "input", "permission"}, hint: BOOLEAN,
           said: SUBSET {"Allow", "Ask", "Deny", "Block"}, review: BOOLEAN,
           answer: {"none", "closed"} \cup UNION {Answers(d) : d \in Dialogs}, turn: 0..MaxTurns]]
    /\ slot \in [Dialogs -> 0..MaxCalls]
    /\ grants \in [once: SUBSET [by: Runtimes, turn: 0..MaxTurns],
                   session: SUBSET [by: Runtimes, turn: 0..MaxTurns]]
    /\ rootTurn \in 0..MaxTurns /\ dispatched \in 0..MaxCalls
    /\ approved \subseteq 1..dispatched

Passed(r) == gate[r].pc \in {"start", "run", "input", "permission", "done"}

(* A call runs only if no hook refused it, the policy did not, and each review that
   was asked for was given by the operator for this very call, with other runtimes'
   prompts replacing it in the dialog: an allow rule spares the baseline hints
   alone, "hooks may encode higher-order host policy" (handle_tool_call,
   ApprovalCoordinator). *)
RunsWereReviewed ==
    \A r \in Runtimes : Passed(r) =>
        /\ gate[r].said = {}
        /\ gate[r].review => gate[r].call \in approved

(* Whoever waits for a dialog has its prompt in the slot, or an answer: overwriting
   a prompt, resolving, cancelling and aborting strand no one (present, resolve,
   cancel). *)
WaitersAreServed ==
    \A r \in Runtimes, d \in Dialogs :
        Waits(r, d) => slot[d] = gate[r].call \/ gate[r].answer # "none"

(* A grant for the turn that the root asked for ends with the turn, whatever is
   interrupted between the answer and its record; a child's ends with the root's
   turn that follows its record (request_permissions, clear_turn). *)
TurnGrantsEnd ==
    \A g \in grants.once : g.by = Root => g.turn = rootTurn
=============================================================================
