---------------------------- MODULE RuntimeProofs ---------------------------
(***************************************************************************)
(* What holds of the runtime's parts for any agents, waiters, tools and    *)
(* bounds: the wait protocol of the agent registry loses no wake-up, the   *)
(* loop detector bounds repeated calls and warns within their pattern, and *)
(* a tool call runs only as its review allows.                             *)
(***************************************************************************)
EXTENDS AgentSessionManager, LoopDetector, ToolGate, TLAPS

(* The gate of a tool call: tool_flow.rs *)

(***************************************************************************)
(* The tool gate for any set of runtimes that share the operator's         *)
(* dialogs: who runs was reviewed, who waits is answered, and a grant for  *)
(* the turn ends with it.                                                  *)
(***************************************************************************)

Verdicts == {"Allow", "Ask", "Deny", "Block"}
Replies == {"none", "closed", "approve", "deny", "answered", "cancelled", "once", "session"}
Stages == {"idle", "pre", "permission_hooks", "policy", "request", "start", "run",
           "done", "failed", "approval", "input", "permission"}
Call == [pc: Stages, call: 0..MaxCalls, tool: {"plain", "input", "permission"}, hint: BOOLEAN,
         said: SUBSET Verdicts, review: BOOLEAN, answer: Replies, turn: 0..MaxTurns]

(* The parts of GateTypeOK, with the calls bounded by the ones dispatched. *)
GateShape ==
    /\ gate \in [Runtimes -> Call] /\ slot \in [Dialogs -> 0..MaxCalls]
    /\ rootTurn \in 0..MaxTurns /\ dispatched \in 0..MaxCalls
    /\ approved \subseteq 1..dispatched
    /\ \A r \in Runtimes : gate[r].call <= dispatched
    /\ \A d \in Dialogs : slot[d] <= dispatched

(* Until the policy has decided no refusal was heard, after it none is left. *)
Unrefused ==
    \A r \in Runtimes :
        /\ gate[r].pc \in {"permission_hooks", "policy"} => gate[r].said \cap {"Deny", "Block"} = {}
        /\ gate[r].pc \in {"request", "approval"} \/ Passed(r) => gate[r].said = {}

(* An approval that has been heard was given for this call, and whoever passed
   without one needed none. *)
Reviewed ==
    \A r \in Runtimes :
        /\ Passed(r) /\ gate[r].review => gate[r].call \in approved
        /\ gate[r].pc = "approval" /\ gate[r].answer = "approve" => gate[r].call \in approved

(* An answer that the root has heard and not used is of the root's current turn. *)
RootIsCurrent == gate[Root].answer # "none" => gate[Root].turn = rootTurn

GateInv == GateShape /\ Unrefused /\ Reviewed /\ WaitersAreServed /\ RootIsCurrent /\ TurnGrantsEnd

-----------------------------------------------------------------------------
(* The replies of the dialogs, named one by one. *)
LEMMA RepliesOfDialogs ==
    /\ Dialogs \subseteq Stages
    /\ \A d \in Dialogs : Answers(d) \subseteq Replies \ {"none"}
    /\ \A d \in Dialogs : "approve" \in Answers(d) => d = "approval"
BY DEF Dialogs, Stages, Answers, Replies

(* A call that moves alone: everything the invariant says of the other runtimes is
   left as it was. *)
LEMMA OneCallMoves ==
    ASSUME GateInv, NEW r \in Runtimes, NEW c \in Call,
           gate' = [gate EXCEPT ![r] = c],
           UNCHANGED <<slot, rootTurn, approved>>, TurnGrantsEnd',
           dispatched' \in 0..MaxCalls, dispatched <= dispatched', c.call <= dispatched',
           c.pc \in {"permission_hooks", "policy"} => c.said \cap {"Deny", "Block"} = {},
           c.pc \in {"request", "approval", "start", "run", "input", "permission", "done"}
              => c.said = {},
           c.pc \in {"start", "run", "input", "permission", "done"} /\ c.review
              => c.call \in approved,
           c.pc = "approval" /\ c.answer = "approve" => c.call \in approved,
           c.pc \in Dialogs => slot[c.pc] = c.call \/ c.answer # "none",
           c.answer = "none" \/ (c.answer = gate[r].answer /\ c.turn = gate[r].turn)
    PROVE  GateInv'
<1>1. \A q \in Runtimes : gate'[q] = IF q = r THEN c ELSE gate[q]
  BY DEF GateInv, GateShape
<1>2. gate' \in [Runtimes -> Call]
  BY DEF GateInv, GateShape
<1>3. GateShape'
  <2>1. \A q \in Runtimes : gate[q].call \in Nat /\ gate[q].call <= dispatched
    BY GateAssumption DEF GateInv, GateShape, Call
  <2>2. \A d \in Dialogs : slot[d] \in Nat /\ slot[d] <= dispatched
    BY GateAssumption DEF GateInv, GateShape
  <2>3. dispatched \in Nat /\ dispatched' \in Nat /\ approved \subseteq 1..dispatched
    BY GateAssumption DEF GateInv, GateShape
  <2>4. approved' \subseteq 1..dispatched'
    BY <2>3
  <2>5. /\ \A q \in Runtimes : gate'[q].call <= dispatched'
        /\ \A d \in Dialogs : slot'[d] <= dispatched'
    BY <1>1, <2>1, <2>2, <2>3
  <2> QED
    BY <1>2, <2>4, <2>5 DEF GateInv, GateShape
<1>4. Unrefused'
  BY <1>1 DEF GateInv, Unrefused, Passed
<1>5. Reviewed'
  BY <1>1 DEF GateInv, Reviewed, Passed
<1>6. WaitersAreServed'
  BY <1>1 DEF GateInv, WaitersAreServed, Waits
<1>7. RootIsCurrent'
  BY <1>1, GateAssumption DEF GateInv, RootIsCurrent
<1> QED
  BY <1>3, <1>4, <1>5, <1>6, <1>7 DEF GateInv

(* The idle call: nothing was said, reviewed or answered. *)
LEMMA NoCallShape ==
    /\ NoCall \in Call
    /\ NoCall.pc = "idle" /\ NoCall.call = 0 /\ NoCall.said = {} /\ NoCall.tool = "plain"
    /\ NoCall.answer = "none" /\ NoCall.turn = 0 /\ ~NoCall.review
<1>1. 0 \in 0..MaxCalls /\ 0 \in 0..MaxTurns
  BY GateAssumption
<1>2. NoCall \in Call
  BY <1>1, Zenon DEF NoCall, Call, Stages, Replies
<1> QED
  BY <1>2 DEF NoCall

(* A call that fails or is over carries nothing that the invariant speaks of. *)
LEMMA CallDrops ==
    ASSUME GateInv, NEW r \in Runtimes, NEW pc \in {"failed", "idle"},
           gate' = [gate EXCEPT ![r] = [NoCall EXCEPT !.pc = pc]],
           UNCHANGED <<slot, rootTurn, approved, dispatched>>, TurnGrantsEnd'
    PROVE  GateInv'
<1> DEFINE c == [NoCall EXCEPT !.pc = pc]
<1>2. c \in Call /\ c.pc = pc /\ c.call = 0 /\ c.answer = "none"
  BY NoCallShape DEF Call, Stages
<1>3. dispatched' \in 0..MaxCalls /\ dispatched <= dispatched' /\ 0 <= dispatched'
  BY GateAssumption DEF GateInv, GateShape
<1>4. c.pc \notin Dialogs
  BY <1>2 DEF Dialogs
<1> HIDE DEF c
<1>5. gate' = [gate EXCEPT ![r] = c]
  BY DEF c
<1> QED
  BY <1>2, <1>3, <1>4, <1>5, OneCallMoves, Zenon

(* The stages before the operator is asked: what the hooks and the policy say is
   merged so that a refusal ends the call and a review is not forgotten. *)
LEMMA HooksKeepInv ==
    ASSUME GateInv, NEW r \in Runtimes,
           \/ \E tool \in {"plain", "input", "permission"}, hint \in BOOLEAN : Dispatch(r, tool, hint)
           \/ \E hooks \in SUBSET Verdicts : PreToolUse(r, hooks)
           \/ \E hooks \in SUBSET {"Allow", "Deny", "Block"} : PermissionRequestHooks(r, hooks)
    PROVE  GateInv'
<1>0. gate[r] \in Call /\ dispatched \in Nat /\ MaxCalls \in Nat /\ gate[r].call <= dispatched
      /\ dispatched <= MaxCalls
  BY GateAssumption DEF GateInv, GateShape
<1>1. ASSUME NEW tool \in {"plain", "input", "permission"}, NEW hint \in BOOLEAN,
             Dispatch(r, tool, hint)
      PROVE  GateInv'
  <2> DEFINE c == [NoCall EXCEPT !.pc = "pre", !.call = dispatched + 1, !.tool = tool, !.hint = hint]
  <2>2. gate' = [gate EXCEPT ![r] = c] /\ dispatched' = dispatched + 1 /\ dispatched < MaxCalls
    BY <1>1, Zenon DEF Dispatch
  <2>3. c \in Call /\ c.pc = "pre" /\ c.call = dispatched + 1 /\ c.answer = "none"
    <3> DEFINE b == [NoCall EXCEPT !.pc = "pre", !.call = dispatched + 1, !.tool = tool]
    <3>1. dispatched + 1 \in 0..MaxCalls
      BY <1>0, <2>2
    <3>2. b \in Call /\ b.pc = "pre" /\ b.call = dispatched + 1 /\ b.answer = "none"
      BY <3>1, NoCallShape, Zenon DEF Call, Stages
    <3>3. c = [b EXCEPT !.hint = hint]
      OBVIOUS
    <3> HIDE DEF b, c
    <3> QED
      BY <3>2, <3>3 DEF Call
  <2>4. c.pc \notin Dialogs
    BY <2>3 DEF Dialogs
  <2>5. UNCHANGED <<slot, rootTurn, approved>> /\ TurnGrantsEnd'
    BY <1>1, Zenon DEF Dispatch, GateInv, TurnGrantsEnd
  <2> HIDE DEF c
  <2>6. dispatched' \in 0..MaxCalls /\ dispatched <= dispatched' /\ c.call <= dispatched'
    BY <1>0, <2>2, <2>3
  <2> QED
    BY <2>2, <2>3, <2>4, <2>5, <2>6, OneCallMoves, Zenon
<1>2. ASSUME NEW c \in Call, NEW pc \in {"permission_hooks", "policy"},
             c.pc = pc, c.call = gate[r].call, c.answer = gate[r].answer, c.turn = gate[r].turn,
             c.said \cap {"Deny", "Block"} = {}, gate' = [gate EXCEPT ![r] = c],
             UNCHANGED <<slot, grants, rootTurn, approved, dispatched>>
      PROVE  GateInv'
  <2>1. dispatched' \in 0..MaxCalls /\ dispatched <= dispatched' /\ c.call <= dispatched'
    BY <1>0, <1>2 DEF GateInv, GateShape
  <2>2. TurnGrantsEnd' /\ c.pc \notin Dialogs
    BY <1>2 DEF GateInv, TurnGrantsEnd, Dialogs
  <2> QED
    BY <1>2, <2>1, <2>2, OneCallMoves, Zenon
<1>4. ASSUME Fails(r), UNCHANGED <<slot, grants, rootTurn, approved, dispatched>>
      PROVE  GateInv'
  <2>1. TurnGrantsEnd'
    BY <1>4 DEF GateInv, TurnGrantsEnd
  <2> QED
    BY <1>4, <2>1, CallDrops, Zenon DEF Fails
<1>5. ASSUME NEW hooks \in SUBSET Verdicts, PreToolUse(r, hooks)
      PROVE  GateInv'
  <2>1. CASE "Block" \in hooks \/ Merged(hooks) = "Deny"
    BY <1>4, <1>5, <2>1 DEF PreToolUse
  <2>2. CASE ~("Block" \in hooks \/ Merged(hooks) = "Deny")
    <3>1. hooks \cap {"Deny", "Block"} = {}
      BY <2>2 DEF Merged
    <3>2. PICK pc \in {"permission_hooks", "policy"} : Goes(r, [gate[r] EXCEPT !.said = hooks], pc)
      BY <1>5, <2>2 DEF PreToolUse
    <3> DEFINE c == [[gate[r] EXCEPT !.said = hooks] EXCEPT !.pc = pc]
    <3>3. /\ c \in Call /\ c.pc = pc /\ c.call = gate[r].call /\ c.said = hooks
          /\ c.answer = gate[r].answer /\ c.turn = gate[r].turn
      BY <1>0, Zenon DEF Call, Stages
    <3>4. gate' = [gate EXCEPT ![r] = c]
      BY <3>2 DEF Goes
    <3>5. UNCHANGED <<slot, grants, rootTurn, approved, dispatched>>
      BY <1>5 DEF PreToolUse
    <3> HIDE DEF c
    <3> QED
      BY <1>2, <3>1, <3>3, <3>4, <3>5, Zenon
  <2> QED
    BY <2>1, <2>2
<1>6. ASSUME NEW hooks \in SUBSET {"Allow", "Deny", "Block"}, PermissionRequestHooks(r, hooks)
      PROVE  GateInv'
  <2>1. CASE hooks \cap {"Deny", "Block"} # {}
    BY <1>4, <1>6, <2>1 DEF PermissionRequestHooks
  <2>2. CASE hooks \cap {"Deny", "Block"} = {}
    <3> DEFINE all == gate[r].said \cup hooks
    <3>1. all \in SUBSET Verdicts
      BY <1>0, Zenon DEF Call, Verdicts
    <3>2. all \cap {"Deny", "Block"} = {}
      BY <1>6, <2>2 DEF PermissionRequestHooks, GateInv, Unrefused
    <3> DEFINE c == [[gate[r] EXCEPT !.said = all] EXCEPT !.pc = "policy"]
    <3>3. gate' = [gate EXCEPT ![r] = c]
      BY <1>6, <2>2, Zenon DEF PermissionRequestHooks, Goes
    <3>4. /\ c \in Call /\ c.pc = "policy" /\ c.call = gate[r].call /\ c.said = all
          /\ c.answer = gate[r].answer /\ c.turn = gate[r].turn
      BY <1>0, <3>1, Zenon DEF Call, Stages
    <3>5. UNCHANGED <<slot, grants, rootTurn, approved, dispatched>>
      BY <1>6 DEF PermissionRequestHooks
    <3> HIDE DEF all, c
    <3> QED
      BY <1>2, <3>2, <3>3, <3>4, <3>5, Zenon
  <2> QED
    BY <2>1, <2>2
<1> QED
  BY <1>1, <1>5, <1>6

(* No reason is left out of the approval request: where none is found, neither a hook
   nor the policy nor an unsuppressed hint asked for a review. *)
LEMMA NoReasonNoReview ==
    ASSUME NEW c \in Call, c.said \cap {"Deny", "Block"} = {},
           NEW decision \in {"Allow", "Ask", "Abstain"}, Reasons(c, decision) = {}
    PROVE  ~MustReview(c, decision)
<1>1. "hint" \notin Reasons(c, decision) /\ "hook" \notin Reasons(c, decision)
      /\ "policy" \notin Reasons(c, decision)
  OBVIOUS
<1>2. ~(c.hint /\ decision # "Allow")
  BY <1>1 DEF Reasons
<1>3. decision # "Ask"
  BY <1>1 DEF Reasons
<1>4. Merged(c.said) # "Ask"
  BY <1>1 DEF Reasons
<1>5. "Ask" \notin c.said
  BY <1>4 DEF Merged
<1> QED
  BY <1>2, <1>3, <1>5 DEF MustReview

(* The policy's decision, and the moves of a call that neither opens nor answers a
   dialog. *)
LEMMA PolicyKeepsInv ==
    ASSUME GateInv, NEW r \in Runtimes,
           NEW decision \in {"Allow", "Ask", "Deny", "Abstain"}, Policy(r, decision)
    PROVE  GateInv'
<1>1. gate[r] \in Call /\ gate[r].pc = "policy" /\ gate[r].said \cap {"Deny", "Block"} = {}
  BY DEF Policy, GateInv, GateShape, Unrefused
<1>2. UNCHANGED <<slot, grants, rootTurn, approved, dispatched>>
  BY DEF Policy
<1>3. TurnGrantsEnd'
  BY <1>2 DEF GateInv, TurnGrantsEnd
<1>4. CASE decision = "Deny"
  BY <1>2, <1>3, <1>4, CallDrops DEF Policy, Fails
<1>5. CASE decision # "Deny"
  <2> DEFINE b == MustReview(gate[r], decision)
             a == [NoCall EXCEPT !.call = gate[r].call, !.tool = gate[r].tool,
                                 !.said = IF Refused(gate[r], decision) THEN {"Deny"} ELSE {}]
             w == [a EXCEPT !.review = b]
  <2>1. b \in BOOLEAN
    BY DEF MustReview
  <2>2. ~Refused(gate[r], decision)
    BY <1>1, <1>5 DEF Refused
  <2>3. a \in Call /\ a.call = gate[r].call /\ a.said = {} /\ a.answer = "none"
    BY <1>1, <2>2, NoCallShape, Zenon DEF Call, Verdicts
  <2> HIDE DEF a, b
  <2>4. w \in Call /\ w.call = gate[r].call /\ w.said = {} /\ w.answer = "none" /\ w.review = b
    BY <2>1, <2>3 DEF Call
  <2>5. w = [NoCall EXCEPT !.call = gate[r].call, !.tool = gate[r].tool,
                           !.said = IF Refused(gate[r], decision) THEN {"Deny"} ELSE {},
                           !.review = MustReview(gate[r], decision)]
    BY DEF a, b
  <2> HIDE DEF w
  <2>6. PICK pc \in {"request", "start"} :
           /\ Goes(r, w, pc)
           /\ pc = "start" => Reasons(gate[r], decision) = {}
    <3>1. CASE Reasons(gate[r], decision) # {}
      BY <1>5, <2>5, <3>1 DEF Policy
    <3>2. CASE Reasons(gate[r], decision) = {}
      BY <1>5, <2>5, <3>2 DEF Policy
    <3> QED
      BY <3>1, <3>2
  <2> DEFINE c == [w EXCEPT !.pc = pc]
  <2>7. c \in Call /\ c.pc = pc /\ c.call = gate[r].call /\ c.said = {} /\ c.answer = "none"
        /\ c.review = b
    BY <2>4 DEF Call, Stages
  <2>8. gate' = [gate EXCEPT ![r] = c]
    BY <2>6 DEF Goes
  <2>9. pc = "start" => ~b
    <3>1. decision \in {"Allow", "Ask", "Abstain"}
      BY <1>5
    <3> QED
      BY <1>1, <2>6, <3>1, NoReasonNoReview DEF b
  <2>10. dispatched' \in 0..MaxCalls /\ dispatched <= dispatched' /\ c.call <= dispatched'
    <3>1. dispatched \in 0..MaxCalls /\ gate[r].call <= dispatched
      BY DEF GateInv, GateShape
    <3> QED
      BY <1>2, <2>7, <3>1, GateAssumption
  <2>11. c.pc \notin Dialogs
    BY <2>7 DEF Dialogs
  <2> HIDE DEF c
  <2> QED
    BY <1>2, <1>3, <2>7, <2>8, <2>9, <2>10, <2>11, OneCallMoves, Zenon
<1> QED
  BY <1>4, <1>5

(* A call that passed, or that heard the operator's approval, goes on to run and to
   complete. *)
LEMMA CallAdvances ==
    ASSUME GateInv, NEW r \in Runtimes, NEW c \in Call, NEW pc \in {"start", "run", "done"},
           Passed(r) \/ (gate[r].pc = "approval" /\ gate[r].answer = "approve"),
           c.call = gate[r].call, c.said = gate[r].said, c.pc = pc,
           c.answer = "none" \/ (c.answer = gate[r].answer /\ c.turn = gate[r].turn),
           c.review = gate[r].review, gate' = [gate EXCEPT ![r] = c],
           UNCHANGED <<slot, rootTurn, approved, dispatched>>, TurnGrantsEnd'
    PROVE  GateInv'
<1>1. c.said = {}
  BY DEF GateInv, Unrefused
<1>2. c.review => c.call \in approved
  BY Zenon DEF GateInv, Reviewed
<1>3. dispatched' \in 0..MaxCalls /\ dispatched <= dispatched' /\ c.call <= dispatched'
  <2>1. dispatched \in 0..MaxCalls /\ gate[r].call <= dispatched
    BY DEF GateInv, GateShape
  <2> QED
    BY <2>1, GateAssumption
<1>4. c.pc \notin Dialogs
  BY DEF Dialogs
<1> QED
  BY <1>1, <1>2, <1>3, <1>4, OneCallMoves, Zenon

(* The turn of a grant that the root records is the turn the operator answered in. *)
LEMMA GrantIsOfTheTurn ==
    ASSUME GateInv, NEW r \in Runtimes, DialogReturns(r)
    PROVE  TurnGrantsEnd'
<1> DEFINE g == [by |-> r, turn |-> gate[r].turn]
<1>1. grants'.once \subseteq grants.once \cup {g} /\ rootTurn' = rootTurn /\ gate[r].answer # "none"
  BY DEF DialogReturns
<1>2. g.by = r /\ g.turn = gate[r].turn
  OBVIOUS
<1>3. r = Root => gate[r].turn = rootTurn
  BY <1>1 DEF GateInv, RootIsCurrent
<1> HIDE DEF g
<1> QED
  BY <1>1, <1>2, <1>3 DEF GateInv, TurnGrantsEnd

(* The steps after the dialogs, and the ways a call ends. *)
LEMMA MovesKeepInv ==
    ASSUME GateInv, NEW r \in Runtimes,
           \/ ApprovalReturns(r) \/ DialogReturns(r) \/ Execute(r) \/ CallEnds(r)
           \/ TurnFails(r) \/ ChildAborted(r) \/ \E critical \in BOOLEAN : Start(r, critical)
    PROVE  GateInv'
<1>1. gate[r] \in Call /\ (grants' = grants /\ rootTurn' = rootTurn => TurnGrantsEnd')
  BY DEF GateInv, GateShape, TurnGrantsEnd
<1>2. NoCall = [NoCall EXCEPT !.pc = "idle"]
  BY NoCallShape DEF Call
<1>3. ASSUME CallEnds(r) \/ TurnFails(r) \/ ChildAborted(r)
      PROVE  GateInv'
  <2>1. gate' = [gate EXCEPT ![r] = NoCall]
        /\ UNCHANGED <<slot, grants, rootTurn, approved, dispatched>>
    BY <1>3 DEF CallEnds, TurnFails, ChildAborted
  <2> QED
    BY <1>1, <1>2, <2>1, CallDrops, Zenon
<1>4. ASSUME NEW pc \in {"run", "done"}
      PROVE  LET c == [gate[r] EXCEPT !.pc = pc]
             IN  /\ c \in Call /\ c.pc = pc /\ c.call = gate[r].call /\ c.said = gate[r].said
                 /\ c.answer = gate[r].answer /\ c.turn = gate[r].turn
                 /\ c.review = gate[r].review
  BY <1>1 DEF Call, Stages
<1>5. ASSUME NEW pc \in {"run", "done"}, Passed(r), Goes(r, gate[r], pc),
             UNCHANGED <<slot, rootTurn, approved, dispatched>>, TurnGrantsEnd'
      PROVE  GateInv'
  <2> DEFINE c == [gate[r] EXCEPT !.pc = pc]
  <2>1. /\ c \in Call /\ c.pc = pc /\ c.call = gate[r].call /\ c.said = gate[r].said
        /\ c.answer = gate[r].answer /\ c.turn = gate[r].turn /\ c.review = gate[r].review
    BY <1>4
  <2>2. gate' = [gate EXCEPT ![r] = c]
    BY <1>5 DEF Goes
  <2> HIDE DEF c
  <2> QED
    BY <1>5, <2>1, <2>2, CallAdvances, Zenon
<1>6. ASSUME NEW critical \in BOOLEAN, Start(r, critical)
      PROVE  GateInv'
  <2>1. CASE critical
    BY <1>1, <1>6, <2>1, CallDrops DEF Start, Fails
  <2>2. CASE ~critical
    BY <1>1, <1>5, <1>6, <2>2 DEF Start, Passed
  <2> QED
    BY <2>1, <2>2
<1>7. ASSUME Execute(r)
      PROVE  GateInv'
  <2>1. CASE Fails(r)
    BY <1>1, <1>7, <2>1, CallDrops, Zenon DEF Execute, Fails
  <2>2. CASE Goes(r, gate[r], "done")
    BY <1>1, <1>5, <1>7, <2>2 DEF Execute, Passed
  <2> QED
    BY <1>7, <2>1, <2>2 DEF Execute
<1>8. ASSUME DialogReturns(r)
      PROVE  GateInv'
  <2>1. TurnGrantsEnd' /\ UNCHANGED <<slot, rootTurn, approved, dispatched>>
    BY <1>8, GrantIsOfTheTurn, SMTT(30) DEF DialogReturns
  <2>2. Passed(r)
    BY <1>1, <1>8 DEF DialogReturns, Waits, Passed, Call
  <2>3. Fails(r) \/ Goes(r, gate[r], "done")
    BY <1>8 DEF DialogReturns
  <2>4. CASE Fails(r)
    BY <2>1, <2>4, CallDrops, Zenon DEF Fails
  <2>5. CASE Goes(r, gate[r], "done")
    BY <1>5, <2>1, <2>2, <2>5
  <2> QED
    BY <2>3, <2>4, <2>5
<1>9. ASSUME ApprovalReturns(r)
      PROVE  GateInv'
  <2>1. CASE gate[r].answer # "approve"
    BY <1>1, <1>9, <2>1, CallDrops DEF ApprovalReturns, Fails
  <2>2. CASE gate[r].answer = "approve"
    <3> DEFINE c == [[gate[r] EXCEPT !.answer = "none", !.turn = 0] EXCEPT !.pc = "start"]
    <3>1. 0 \in 0..MaxTurns
      BY GateAssumption
    <3>2. /\ c \in Call /\ c.pc = "start" /\ c.call = gate[r].call /\ c.said = gate[r].said
          /\ c.answer = "none" /\ c.review = gate[r].review
      BY <1>1, <3>1, Zenon DEF Call, Stages, Replies
    <3>3. gate' = [gate EXCEPT ![r] = c] /\ gate[r].pc = "approval"
          /\ UNCHANGED <<slot, grants, rootTurn, approved, dispatched>>
      BY <1>9, <2>2 DEF ApprovalReturns, Goes, Waits
    <3> HIDE DEF c
    <3> QED
      BY <1>1, <2>2, <3>2, <3>3, CallAdvances, Zenon
  <2> QED
    BY <2>1, <2>2
<1> QED
  BY <1>3, <1>6, <1>7, <1>8, <1>9

(* A call that hears an answer stays the call it was (Heard). *)
LEMMA CallHears ==
    ASSUME NEW g \in Call, NEW a \in Replies, NEW t \in 0..MaxTurns
    PROVE  LET h == [g EXCEPT !.answer = a, !.turn = t] IN
           /\ h \in Call /\ h.pc = g.pc /\ h.call = g.call /\ h.said = g.said
           /\ h.review = g.review /\ h.answer = a /\ h.turn = t
<1> DEFINE h == [g EXCEPT !.answer = a, !.turn = t]
<1>1. h \in Call
  BY Zenon DEF Call
<1>2. h.pc = g.pc /\ h.call = g.call /\ h.said = g.said
  BY Zenon DEF Call
<1>3. h.review = g.review /\ h.answer = a /\ h.turn = t
  BY Zenon DEF Call
<1> QED
  BY <1>1, <1>2, <1>3

(* A call whose prompt is put up has no answer yet (present). *)
LEMMA CallPresented ==
    ASSUME NEW g \in Call, NEW d \in Dialogs
    PROVE  LET h == [g EXCEPT !.pc = d, !.answer = "none"] IN
           /\ h \in Call /\ h.pc = d /\ h.call = g.call /\ h.said = g.said
           /\ h.answer = "none" /\ h.review = g.review
<1> DEFINE h == [g EXCEPT !.pc = d, !.answer = "none"]
<1>1. h \in Call
  BY RepliesOfDialogs, Zenon DEF Call, Replies
<1>2. h.pc = d /\ h.call = g.call /\ h.said = g.said
  BY Zenon DEF Call
<1>3. h.answer = "none" /\ h.review = g.review
  BY Zenon DEF Call
<1> QED
  BY <1>1, <1>2, <1>3

(* A prompt takes the slot, and the one it replaces is closed: its waiter hears so. *)
LEMMA PresentKeepsInv ==
    ASSUME GateInv, NEW r \in Runtimes, NEW d \in Dialogs, Present(r, d),
           UNCHANGED <<grants, rootTurn, approved, dispatched>>,
           (gate[r].pc = "request" /\ d = "approval") \/ (gate[r].pc = "run" /\ d # "approval")
    PROVE  GateInv'
<1> DEFINE h == Heard(gate, d, slot[d], "closed")
<1>0. "closed" \in Replies
  BY DEF Replies
<1>1. /\ gate \in [Runtimes -> Call] /\ slot \in [Dialogs -> 0..MaxCalls]
      /\ rootTurn \in 0..MaxTurns
  BY DEF GateInv, GateShape
<1>2. h \in [Runtimes -> Call]
  <2>1. \A q \in Runtimes : [gate[q] EXCEPT !.answer = "closed", !.turn = rootTurn] \in Call
    BY <1>0, <1>1, CallHears, Zenon
  <2> QED
    BY <1>1, <2>1, Zenon DEF Heard
<1>3. \A q \in Runtimes :
         h[q] = IF gate[q].pc = d /\ gate[q].call = slot[d]
                THEN [gate[q] EXCEPT !.answer = "closed", !.turn = rootTurn] ELSE gate[q]
  BY DEF Heard
<1>4. h[r] = gate[r]
  BY <1>3, Zenon DEF Dialogs
<1>5. gate' = [h EXCEPT ![r].pc = d, ![r].answer = "none"] /\ slot' = [slot EXCEPT ![d] = gate[r].call]
  BY DEF Present
<1> HIDE DEF h
<1> DEFINE c == [gate[r] EXCEPT !.pc = d, !.answer = "none"]
<1>6. gate' = [h EXCEPT ![r] = c]
  BY <1>2, <1>4, <1>5, Zenon
<1>7. /\ c \in Call /\ c.pc = d /\ c.call = gate[r].call /\ c.said = gate[r].said
      /\ c.answer = "none" /\ c.review = gate[r].review
  BY <1>1, CallPresented, Zenon
<1> HIDE DEF c
<1>8. \A q \in Runtimes : gate'[q] = IF q = r THEN c ELSE h[q]
  BY <1>2, <1>6
<1>9. \A q \in Runtimes : /\ h[q].pc = gate[q].pc /\ h[q].call = gate[q].call
                          /\ h[q].said = gate[q].said /\ h[q].review = gate[q].review
                          /\ h[q].answer \in {gate[q].answer, "closed"}
                          /\ (h[q].turn = rootTurn \/ h[q] = gate[q])
                          /\ (gate[q].pc = d /\ gate[q].call = slot[d] => h[q].answer = "closed")
  <2> SUFFICES ASSUME NEW q \in Runtimes
               PROVE  /\ h[q].pc = gate[q].pc /\ h[q].call = gate[q].call
                      /\ h[q].said = gate[q].said /\ h[q].review = gate[q].review
                      /\ h[q].answer \in {gate[q].answer, "closed"}
                      /\ (h[q].turn = rootTurn \/ h[q] = gate[q])
                      /\ (gate[q].pc = d /\ gate[q].call = slot[d] => h[q].answer = "closed")
    OBVIOUS
  <2>1. CASE gate[q].pc = d /\ gate[q].call = slot[d]
    <3>1. h[q] = [gate[q] EXCEPT !.answer = "closed", !.turn = rootTurn] /\ gate[q] \in Call
      BY <1>1, <1>3, <2>1, Zenon
    <3>2. /\ h[q].pc = gate[q].pc /\ h[q].call = gate[q].call /\ h[q].said = gate[q].said
          /\ h[q].review = gate[q].review /\ h[q].answer = "closed" /\ h[q].turn = rootTurn
      BY <3>1 DEF Call
    <3> QED
      BY <3>2, Zenon
  <2>2. CASE ~(gate[q].pc = d /\ gate[q].call = slot[d])
    BY <1>3, <2>2, Zenon
  <2> QED
    BY <2>1, <2>2, Zenon
<1>10. GateShape'
  BY <1>1, <1>2, <1>6, <1>7, <1>8, <1>9, <1>5 DEF GateInv, GateShape, Call
<1>11. Unrefused'
  <2>1. gate[r].said = {}
    BY Zenon DEF GateInv, Unrefused, Passed
  <2> QED
    BY <1>7, <1>8, <1>9, <2>1 DEF GateInv, Unrefused, Passed, Dialogs
<1>12. Reviewed'
  BY <1>7, <1>8, <1>9 DEF GateInv, Reviewed, Passed, Dialogs
<1>13. WaitersAreServed'
  <2> SUFFICES ASSUME NEW q \in Runtimes, NEW x \in Dialogs, gate'[q].pc = x
               PROVE  slot'[x] = gate'[q].call \/ gate'[q].answer # "none"
    BY DEF WaitersAreServed, Waits
  <2>1. CASE q = r
    BY <1>1, <1>5, <1>7, <1>8, <2>1, Zenon
  <2>2. CASE q # r
    <3>1. slot[x] = gate[q].call \/ gate[q].answer # "none"
      BY <1>8, <1>9, <2>2 DEF GateInv, WaitersAreServed, Waits
    <3>2. x # d => slot'[x] = slot[x]
      BY <1>1, <1>5
    <3> QED
      BY <1>8, <1>9, <2>2, <3>1, <3>2
  <2> QED
    BY <2>1, <2>2
<1>14. RootIsCurrent'
  BY <1>7, <1>8, <1>9, GateAssumption DEF GateInv, RootIsCurrent
<1>15. TurnGrantsEnd'
  BY DEF GateInv, TurnGrantsEnd
<1> QED
  BY <1>10, <1>11, <1>12, <1>13, <1>14, <1>15 DEF GateInv

(* The operator's answers, one by one or, at an interrupt, to all dialogs at once:
   f says who hears what. *)
LEMMA AnswersKeepInv ==
    ASSUME GateInv, NEW f \in [Runtimes -> Call], gate' = f,
           slot' \in [Dialogs -> 0..MaxCalls], \A d \in Dialogs : slot'[d] \in {slot[d], Free},
           approved \subseteq approved', approved' \subseteq 1..dispatched,
           UNCHANGED <<grants, rootTurn, dispatched>>,
           \A q \in Runtimes :
              \/ f[q] = NoCall
              \/ /\ f[q].pc = gate[q].pc /\ f[q].call = gate[q].call
                 /\ f[q].said = gate[q].said /\ f[q].review = gate[q].review
                 /\ \/ /\ f[q].answer = gate[q].answer /\ f[q].turn = gate[q].turn
                       /\ \A d \in Dialogs : gate[q].pc = d /\ slot[d] = gate[q].call => slot'[d] = slot[d]
                    \/ /\ f[q].answer # "none" /\ f[q].turn = rootTurn
                       /\ f[q].answer = "approve" => gate[q].call \in approved'
    PROVE  GateInv'
<1>1. NoCall.pc \notin Dialogs /\ NoCall.pc = "idle" /\ NoCall.answer = "none" /\ NoCall.call = 0
  BY NoCallShape DEF Dialogs
<1>2. GateShape'
  <2>1. dispatched \in Nat /\ \A d \in Dialogs : slot[d] <= dispatched
    BY GateAssumption DEF GateInv, GateShape
  <2>2. \A d \in Dialogs : slot'[d] <= dispatched
    BY <2>1 DEF Free
  <2>3. \A q \in Runtimes : f[q].call <= dispatched
    BY <1>1, <2>1 DEF GateInv, GateShape
  <2> QED
    BY <2>2, <2>3 DEF GateInv, GateShape
<1>3. Unrefused'
  BY <1>1 DEF GateInv, Unrefused, Passed
<1>4. Reviewed'
  BY <1>1, ZenonT(30) DEF GateInv, Reviewed, Passed
<1>5. WaitersAreServed'
  BY <1>1 DEF GateInv, WaitersAreServed, Waits
<1>6. RootIsCurrent'
  BY <1>1, GateAssumption, Zenon DEF GateInv, RootIsCurrent
<1>7. TurnGrantsEnd'
  BY SMTT(30) DEF GateInv, TurnGrantsEnd
<1> QED
  BY <1>2, <1>3, <1>4, <1>5, <1>6, <1>7 DEF GateInv

(* resolve: the answer reaches the call whose prompt is shown and no other. *)
LEMMA ResolveKeepsInv ==
    ASSUME GateInv, NEW d \in Dialogs, NEW a \in Answers(d), Resolve(d, a)
    PROVE  GateInv'
<1> DEFINE f == Heard(gate, d, slot[d], a)
<1>1. /\ gate \in [Runtimes -> Call] /\ slot \in [Dialogs -> 0..MaxCalls]
      /\ rootTurn \in 0..MaxTurns /\ approved \subseteq 1..dispatched
      /\ dispatched \in Nat /\ slot[d] \in Nat /\ slot[d] <= dispatched
  BY GateAssumption DEF GateInv, GateShape
<1>2. a \in Replies /\ a # "none" /\ (a = "approve" => d = "approval")
  BY RepliesOfDialogs
<1>3. \A q \in Runtimes : [gate[q] EXCEPT !.answer = a, !.turn = rootTurn] \in Call
  BY <1>1, <1>2, CallHears, Zenon
<1>4. f \in [Runtimes -> Call]
  BY <1>1, <1>3, Zenon DEF Heard
<1>5. \A q \in Runtimes :
         f[q] = IF gate[q].pc = d /\ gate[q].call = slot[d]
                THEN [gate[q] EXCEPT !.answer = a, !.turn = rootTurn] ELSE gate[q]
  BY DEF Heard
<1>6. gate' = f /\ slot' = [slot EXCEPT ![d] = Free] /\ UNCHANGED <<grants, rootTurn, dispatched>>
      /\ approved' = (IF a = "approve" THEN approved \cup {slot[d]} ELSE approved)
      /\ slot[d] # Free
  BY DEF Resolve
<1> HIDE DEF f
<1>7. slot' \in [Dialogs -> 0..MaxCalls] /\ \A x \in Dialogs : slot'[x] = IF x = d THEN Free ELSE slot[x]
  BY <1>1, <1>6, GateAssumption DEF Free
<1>8. approved \subseteq approved' /\ approved' \subseteq 1..dispatched
  <2>1. slot[d] \in 1..dispatched
    BY <1>1, <1>6 DEF Free
  <2>2. approved \subseteq approved' /\ approved' \subseteq approved \cup {slot[d]}
    BY <1>6
  <2> QED
    BY <1>1, <2>1, <2>2
<1>9. ASSUME NEW q \in Runtimes
      PROVE  /\ f[q].pc = gate[q].pc /\ f[q].call = gate[q].call
             /\ f[q].said = gate[q].said /\ f[q].review = gate[q].review
             /\ \/ /\ f[q].answer = gate[q].answer /\ f[q].turn = gate[q].turn
                   /\ \A x \in Dialogs : gate[q].pc = x /\ slot[x] = gate[q].call => slot'[x] = slot[x]
                \/ /\ f[q].answer # "none" /\ f[q].turn = rootTurn
                   /\ f[q].answer = "approve" => gate[q].call \in approved'
  <2>1. CASE gate[q].pc = d /\ gate[q].call = slot[d]
    <3>1. f[q] = [gate[q] EXCEPT !.answer = a, !.turn = rootTurn] /\ gate[q] \in Call
      BY <1>1, <1>5, <2>1, Zenon
    <3>2. /\ f[q].pc = gate[q].pc /\ f[q].call = gate[q].call /\ f[q].said = gate[q].said
          /\ f[q].review = gate[q].review /\ f[q].answer = a /\ f[q].turn = rootTurn
      BY <3>1 DEF Call
    <3>3. a = "approve" => gate[q].call \in approved'
      BY <1>6, <2>1
    <3> QED
      BY <1>2, <3>2, <3>3
  <2>2. CASE ~(gate[q].pc = d /\ gate[q].call = slot[d])
    BY <1>5, <1>7, <2>2, Zenon
  <2> QED
    BY <2>1, <2>2, Zenon
<1>10. \A x \in Dialogs : slot'[x] \in {slot[x], Free}
  BY <1>7
<1> QED
  BY <1>4, <1>6, <1>7, <1>8, <1>9, <1>10, AnswersKeepInv, Zenon

(* cancel_pending_interactions: the interrupted root forgets its call, and whoever
   else has a prompt in a dialog hears that it was cancelled. *)
LEMMA InterruptKeepsInv ==
    ASSUME GateInv, InterruptTurn
    PROVE  GateInv'
<1> DEFINE live == [gate EXCEPT ![Root] = NoCall]
           cancel == [d \in Dialogs |-> IF d = "approval" THEN "deny" ELSE "cancelled"]
           shown(q) == \E d \in Dialogs : live[q].pc = d /\ slot[d] = live[q].call
           f == [q \in Runtimes |->
                   IF shown(q)
                   THEN [live[q] EXCEPT !.answer = cancel[live[q].pc], !.turn = rootTurn]
                   ELSE live[q]]
<1>1. /\ gate \in [Runtimes -> Call] /\ slot \in [Dialogs -> 0..MaxCalls]
      /\ rootTurn \in 0..MaxTurns /\ approved \subseteq 1..dispatched
  BY DEF GateInv, GateShape
<1>2. gate' = f /\ slot' = [d \in Dialogs |-> Free]
      /\ UNCHANGED <<grants, rootTurn, approved, dispatched>>
  BY Zenon DEF InterruptTurn
<1>3. live \in [Runtimes -> Call] /\ \A q \in Runtimes : live[q] = IF q = Root THEN NoCall ELSE gate[q]
  BY <1>1, NoCallShape, Zenon
<1>4. \A x \in Dialogs : cancel[x] \in Replies \ {"none", "approve"}
  BY DEF Replies
<1> HIDE DEF live, cancel
<1>5. ASSUME NEW q \in Runtimes, shown(q)
      PROVE  /\ [live[q] EXCEPT !.answer = cancel[live[q].pc], !.turn = rootTurn] \in Call
             /\ q # Root /\ cancel[live[q].pc] \in Replies \ {"none", "approve"}
  <2>1. live[q].pc \in Dialogs /\ live[q] \in Call
    BY <1>3, <1>5
  <2>2. cancel[live[q].pc] \in Replies \ {"none", "approve"}
    BY <1>4, <2>1
  <2>3. NoCall.pc \notin Dialogs
    BY NoCallShape DEF Dialogs
  <2>4. [live[q] EXCEPT !.answer = cancel[live[q].pc], !.turn = rootTurn] \in Call
    BY <1>1, <2>1, <2>2, Zenon DEF Call
  <2> QED
    BY <1>3, <2>1, <2>2, <2>3, <2>4
<1>6. f \in [Runtimes -> Call]
  BY <1>3, <1>5, Zenon
<1>7. ASSUME NEW q \in Runtimes
      PROVE  \/ f[q] = NoCall
             \/ /\ f[q].pc = gate[q].pc /\ f[q].call = gate[q].call
                /\ f[q].said = gate[q].said /\ f[q].review = gate[q].review
                /\ \/ /\ f[q].answer = gate[q].answer /\ f[q].turn = gate[q].turn
                      /\ \A d \in Dialogs : gate[q].pc = d /\ slot[d] = gate[q].call => slot'[d] = slot[d]
                   \/ /\ f[q].answer # "none" /\ f[q].turn = rootTurn
                      /\ f[q].answer = "approve" => gate[q].call \in approved'
  <2>1. CASE shown(q)
    <3> DEFINE a == cancel[live[q].pc]
    <3>1. a \in Replies \ {"none", "approve"} /\ live[q] = gate[q] /\ gate[q] \in Call
      BY <1>1, <1>3, <1>5, <2>1, Zenon
    <3>2. f[q] = [live[q] EXCEPT !.answer = a, !.turn = rootTurn]
      BY <2>1, Zenon
    <3> HIDE DEF a, f
    <3>3. f[q] = [gate[q] EXCEPT !.answer = a, !.turn = rootTurn]
      BY <3>1, <3>2
    <3>4. /\ f[q].pc = gate[q].pc /\ f[q].call = gate[q].call /\ f[q].said = gate[q].said
          /\ f[q].review = gate[q].review /\ f[q].answer = a /\ f[q].turn = rootTurn
      BY <3>1, <3>3 DEF Call
    <3> QED
      BY <3>1, <3>4
  <2>2. CASE ~shown(q)
    <3>1. f[q] = live[q]
      BY <2>2
    <3> HIDE DEF f
    <3>2. CASE q = Root
      BY <1>3, <3>1, <3>2
    <3>3. CASE q # Root
      BY <1>3, <2>2, <3>1, <3>3
    <3> QED
      BY <3>2, <3>3
  <2> QED
    BY <2>1, <2>2, Zenon
<1> HIDE DEF f
<1>8. slot' \in [Dialogs -> 0..MaxCalls] /\ \A d \in Dialogs : slot'[d] \in {slot[d], Free}
  BY <1>2, GateAssumption DEF Free
<1> QED
  BY <1>1, <1>2, <1>6, <1>7, <1>8, AnswersKeepInv

-----------------------------------------------------------------------------
(* Every step of every runtime, of the operator and of the root's turns keeps the
   invariant. *)
LEMMA GateInductive == GateSpec => []GateInv
<1>1. GateInit => GateInv
  <2> SUFFICES ASSUME GateInit PROVE GateInv
    OBVIOUS
  <2>1. \A r \in Runtimes : gate[r] = NoCall
    BY Zenon DEF GateInit
  <2>2. NoCall.pc = "idle" /\ NoCall.pc \notin Dialogs /\ NoCall.call = 0 /\ NoCall.answer = "none"
    BY NoCallShape DEF Dialogs
  <2>3. gate \in [Runtimes -> Call] /\ slot \in [Dialogs -> 0..MaxCalls]
    BY NoCallShape, GateAssumption DEF GateInit, Free
  <2>4. GateShape
    BY <2>1, <2>2, <2>3, GateAssumption DEF GateInit, GateShape, Free
  <2> QED
    BY <2>1, <2>2, <2>4, GateAssumption
       DEF GateInit, GateInv, Unrefused, Reviewed, Passed, WaitersAreServed, Waits, RootIsCurrent,
           TurnGrantsEnd
<1>2. GateInv /\ [GateNext]_gateVars => GateInv'
  <2> SUFFICES ASSUME GateInv, [GateNext]_gateVars
               PROVE  GateInv'
    OBVIOUS
  <2>1. ASSUME NEW r \in Runtimes, CallStep(r)
        PROVE  GateInv'
    <3>1. CASE RequestApproval(r)
      BY <3>1, PresentKeepsInv DEF RequestApproval, Dialogs
    <3>2. CASE OpenDialog(r)
      <4>1. gate[r].tool \in Dialogs /\ gate[r].tool # "approval"
        BY <3>2 DEF OpenDialog, GateInv, GateShape, Call, Dialogs
      <4> QED
        BY <3>2, <4>1, PresentKeepsInv DEF OpenDialog
    <3> QED
      BY <2>1, <3>1, <3>2, HooksKeepInv, PolicyKeepsInv, MovesKeepInv DEF CallStep, Verdicts
  <2>2. ASSUME NEW r \in Runtimes, Returns(r) \/ TurnFails(r) \/ ChildAborted(r)
        PROVE  GateInv'
    BY <2>2, MovesKeepInv DEF Returns
  <2>3. ASSUME NEW d \in Dialogs, NEW a \in Answers(d), Resolve(d, a)
        PROVE  GateInv'
    BY <2>3, ResolveKeepsInv
  <2>4. CASE InterruptTurn
    BY <2>4, InterruptKeepsInv
  <2>5. CASE NextTurn
    <3>1. UNCHANGED <<gate, slot, approved, dispatched>> /\ grants'.once = {} /\ gate[Root] = NoCall
          /\ rootTurn' \in 0..MaxTurns
      BY <2>5, GateAssumption, SMTT(30) DEF NextTurn, GateInv, GateShape
    <3>2. GateShape' /\ Unrefused' /\ Reviewed' /\ WaitersAreServed'
      BY <3>1 DEF GateInv, GateShape, Unrefused, Reviewed, Passed, WaitersAreServed, Waits
    <3>3. RootIsCurrent' /\ TurnGrantsEnd'
      BY <3>1, NoCallShape, SMTT(30) DEF RootIsCurrent, TurnGrantsEnd
    <3> QED
      BY <3>2, <3>3 DEF GateInv
  <2>6. CASE UNCHANGED gateVars
    BY <2>6 DEF gateVars, GateInv, GateShape, Unrefused, Reviewed, Passed, WaitersAreServed, Waits,
                RootIsCurrent, TurnGrantsEnd
  <2> QED
    BY <2>1, <2>2, <2>3, <2>4, <2>5, <2>6 DEF GateNext
<1> QED
  BY <1>1, <1>2, PTL DEF GateSpec

(* However many runtimes share the dialogs: a call that runs was refused by nobody,
   and was approved by the operator if anybody asked for that. *)
THEOREM RunsAlwaysReviewed == GateSpec => []RunsWereReviewed
<1>1. GateInv => RunsWereReviewed
  BY DEF GateInv, Unrefused, Reviewed, RunsWereReviewed
<1> QED
  BY <1>1, GateInductive, PTL

(* No prompt is overwritten, answered, cancelled or abandoned in a way that leaves its
   waiter without a responder. *)
THEOREM WaitersAlwaysServed == GateSpec => []WaitersAreServed
<1>1. GateInv => WaitersAreServed
  BY DEF GateInv
<1> QED
  BY <1>1, GateInductive, PTL

(* A grant that the root asked for in one turn never lives in another. *)
THEOREM TurnGrantsAlwaysEnd == GateSpec => []TurnGrantsEnd
<1>1. GateInv => TurnGrantsEnd
  BY DEF GateInv
<1> QED
  BY <1>1, GateInductive, PTL

-----------------------------------------------------------------------------
(* The loop detector: loop_detection/detector.rs *)

(***************************************************************************)
(* The loop detector's bounds, for any patterns, any results and any       *)
(* thresholds that LoopAssumption admits.                                  *)
(***************************************************************************)

Calls == [pattern: Patterns, outcome: Outcomes]

(* What inspect established of the call that is executing still holds when its result
   is recorded: one call runs at a time. *)
RunningCleared ==
    running # NoPattern =>
        /\ ~Repeats(calls, running, Critical)
        /\ ~PingPongs(calls, running, Critical)
        /\ Repeats(calls, running, Warning) => warned = running

LoopInv == LoopTypeOK /\ ChurnBounded /\ WarningsScoped /\ RunningCleared

-----------------------------------------------------------------------------
(* record_entry puts the new entry last, keeps the length within the limit, and
   moves every entry it keeps one place away from the end. *)
LEMMA RecordedShape ==
    ASSUME NEW h \in Seq(Calls), Len(h) <= HistorySize, NEW e \in Calls
    PROVE  /\ Recorded(h, e) \in Seq(Calls)
           /\ Len(Recorded(h, e)) = IF Len(h) < HistorySize THEN Len(h) + 1 ELSE Len(h)
           /\ Recorded(h, e)[Len(Recorded(h, e))] = e
           /\ \A j \in 1..(Len(Recorded(h, e)) - 1) :
                 Recorded(h, e)[Len(Recorded(h, e)) - j] = h[Len(h) - j + 1]
<1> DEFINE a == Append(h, e)
<1>1. a \in Seq(Calls) /\ Len(a) = Len(h) + 1 /\ a[Len(h) + 1] = e
      /\ \A i \in 1..Len(h) : a[i] = h[i]
  OBVIOUS
<1>2. CASE Len(h) < HistorySize
  <2>1. Recorded(h, e) = a
    BY <1>2 DEF Recorded
  <2> QED
    BY <1>1, <1>2, <2>1
<1>3. CASE ~(Len(h) < HistorySize)
  <2>1. Recorded(h, e) = Tail(a)
    BY <1>3 DEF Recorded
  <2>2. Tail(a) \in Seq(Calls) /\ Len(Tail(a)) = Len(h)
        /\ \A i \in 1..Len(h) : Tail(a)[i] = a[i + 1]
    BY <1>1
  <2>3. Len(h) >= 1
    BY <1>3, LoopAssumption
  <2> QED
    BY <1>1, <1>3, <2>1, <2>2, <2>3
<1> QED
  BY <1>2, <1>3

(* A streak that the new call ends was one call shorter before it. *)
LEMMA StreakBefore ==
    ASSUME NEW h \in Seq(Calls), Len(h) <= HistorySize, NEW e \in Calls,
           NEW p \in Patterns, NEW k \in Nat \ {0}, Streak(Recorded(h, e), p, k)
    PROVE  e.pattern = p /\ Streak(h, p, k - 1)
<1> DEFINE r == Recorded(h, e)
<1>1. /\ Len(r) = IF Len(h) < HistorySize THEN Len(h) + 1 ELSE Len(h)
      /\ r[Len(r)] = e
      /\ \A j \in 1..(Len(r) - 1) : r[Len(r) - j] = h[Len(h) - j + 1]
      /\ r \in Seq(Calls)
  BY RecordedShape, Zenon
<1>2. k <= Len(r) /\ \A i \in 1..Len(r) : i > Len(r) - k => r[i].pattern = p
  BY DEF Streak
<1> HIDE DEF r
<1>3. e.pattern = p
  <2>1. Len(r) \in 1..Len(r) /\ Len(r) > Len(r) - k
    BY <1>1, <1>2
  <2> QED
    BY <1>1, <1>2, <2>1
<1>4. ASSUME NEW i \in 1..Len(h), i > Len(h) - (k - 1)
      PROVE  h[i].pattern = p
  <2> DEFINE j == Len(h) - i + 1
  <2>1. j \in 1..(Len(r) - 1) /\ Len(r) - j \in 1..Len(r) /\ Len(r) - j > Len(r) - k
    BY <1>1, <1>2, <1>4
  <2>2. Len(h) - j + 1 = i
    OBVIOUS
  <2> QED
    BY <1>1, <1>2, <2>1, <2>2, Zenon
<1> QED
  BY <1>1, <1>2, <1>3, <1>4 DEF Streak

(* The new call keeps the streak of its own pattern. *)
LEMMA StreakAfter ==
    ASSUME NEW h \in Seq(Calls), Len(h) <= HistorySize, NEW e \in Calls,
           NEW k \in 1..HistorySize, Streak(h, e.pattern, k)
    PROVE  Streak(Recorded(h, e), e.pattern, k)
<1> DEFINE r == Recorded(h, e)
<1>1. /\ Len(r) = IF Len(h) < HistorySize THEN Len(h) + 1 ELSE Len(h)
      /\ r[Len(r)] = e
      /\ \A j \in 1..(Len(r) - 1) : r[Len(r) - j] = h[Len(h) - j + 1]
      /\ r \in Seq(Calls)
  BY RecordedShape
<1>2. k <= Len(h) /\ \A i \in 1..Len(h) : i > Len(h) - k => h[i].pattern = e.pattern
  BY DEF Streak
<1>3. Streak(Recorded(h, e), e.pattern, k) <=> Streak(r, e.pattern, k)
  OBVIOUS
<1> HIDE DEF r
<1>4. k <= Len(r)
  BY <1>1, <1>2
<1>5. ASSUME NEW i \in 1..Len(r), i > Len(r) - k
      PROVE  r[i].pattern = e.pattern
  <2>1. CASE i = Len(r)
    BY <1>1, <2>1
  <2>2. CASE i # Len(r)
    <3> DEFINE j == Len(r) - i
    <3>1. j \in 1..(Len(r) - 1) /\ Len(r) - j = i
      BY <1>1, <1>5, <2>2
    <3>2. Len(h) \in Nat /\ Len(r) \in Nat /\ Len(r) <= Len(h) + 1 /\ k \in Nat
      BY <1>1
    <3>3. Len(h) - j + 1 \in 1..Len(h) /\ Len(h) - j + 1 > Len(h) - k
      BY <1>5, <2>2, <3>2
    <3> QED
      BY <1>1, <1>2, <3>1, <3>3, Zenon
  <2> QED
    BY <2>1, <2>2
<1> QED
  BY <1>3, <1>4, <1>5 DEF Streak

(* An alternation that the new call ends was one call shorter before it, and ended
   with the other pattern. *)
LEMMA AlternatingBefore ==
    ASSUME NEW h \in Seq(Calls), Len(h) <= HistorySize, NEW e \in Calls,
           NEW q \in Patterns, NEW k \in Nat, 2 <= k,
           Alternating(Recorded(h, e), q, k)
    PROVE  h # <<>> /\ h[Len(h)].pattern = q /\ Alternating(h, e.pattern, k - 1)
<1> DEFINE r == Recorded(h, e)
<1>1. /\ Len(r) = IF Len(h) < HistorySize THEN Len(h) + 1 ELSE Len(h)
      /\ r[Len(r)] = e
      /\ \A j \in 1..(Len(r) - 1) : r[Len(r) - j] = h[Len(h) - j + 1]
      /\ r \in Seq(Calls)
  BY RecordedShape
<1>2. /\ k <= Len(r)
      /\ \A i \in 1..Len(r) : i > Len(r) - k =>
            r[i].pattern = IF (Len(r) - i) % 2 = 0 THEN r[Len(r)].pattern ELSE q
  BY DEF Alternating
<1> HIDE DEF r
<1>3. h[Len(h)].pattern = q
  <2>1. 1 \in 1..(Len(r) - 1) /\ Len(r) - 1 \in 1..Len(r) /\ Len(r) - 1 > Len(r) - k
        /\ Len(h) - 1 + 1 = Len(h)
    BY <1>1, <1>2
  <2>2. r[Len(r) - 1] = h[Len(h)]
    BY <1>1, <2>1
  <2>3. (Len(r) - (Len(r) - 1)) % 2 # 0
    BY <1>1
  <2> QED
    BY <1>2, <2>1, <2>2, <2>3
<1>4. Len(h) >= 1 /\ k - 1 <= Len(h)
  BY <1>1, <1>2
<1>5. ASSUME NEW i \in 1..Len(h), i > Len(h) - (k - 1)
      PROVE  h[i].pattern = IF (Len(h) - i) % 2 = 0 THEN h[Len(h)].pattern ELSE e.pattern
  <2> DEFINE j == Len(h) - i + 1
  <2>1. j \in 1..(Len(r) - 1) /\ Len(r) - j \in 1..Len(r) /\ Len(r) - j > Len(r) - k
    BY <1>1, <1>2, <1>5
  <2>2. Len(h) - j + 1 = i /\ Len(r) - (Len(r) - j) = j /\ j \in Nat
    <3>1. Len(h) \in Nat /\ Len(r) \in Nat
      BY <1>1
    <3> QED
      BY <3>1
  <2>3. h[i].pattern = IF j % 2 = 0 THEN e.pattern ELSE q
    BY <1>1, <1>2, <2>1, <2>2, Zenon
  <2>4. (j % 2 = 0) <=> ~((Len(h) - i) % 2 = 0)
    OBVIOUS
  <2> QED
    BY <1>3, <2>3, <2>4
<1> QED
  BY <1>3, <1>4, <1>5 DEF Alternating

(* A longer streak is also a shorter one, and two patterns have no streak at once. *)
LEMMA StreakFacts ==
    ASSUME NEW h \in Seq(Calls), NEW p \in Patterns, NEW k \in Nat \ {0}, Streak(h, p, k)
    PROVE  /\ \A n \in 0..k : Streak(h, p, n)
           /\ \A q \in Patterns, n \in Nat \ {0} : Streak(h, q, n) => q = p
<1>1. \A n \in 0..k : Streak(h, p, n)
  BY DEF Streak
<1>2. \A q \in Patterns, n \in Nat \ {0} : Streak(h, q, n) => h[Len(h)].pattern = q
  BY DEF Streak
<1> QED
  BY <1>1, <1>2

-----------------------------------------------------------------------------
(* A call that inspect lets through runs with what inspect saw, and the warning it
   gives is for the streak at hand. *)
LEMMA InspectKeepsInv ==
    ASSUME LoopInv, NEW p \in Patterns, Inspect(p)
    PROVE  LoopInv'
<1>1. calls' = calls /\ calls \in Seq(Calls) /\ running = NoPattern
  BY DEF Inspect, LoopInv, LoopTypeOK, Calls
<1>2. LoopTypeOK'
  BY DEF Inspect, LoopInv, LoopTypeOK
<1>3. ChurnBounded'
  BY <1>1 DEF LoopInv, ChurnBounded
<1>4. Warning \in Nat /\ Critical \in Nat /\ 2 <= Warning /\ Warning <= Critical
  BY LoopAssumption
<1>5. Repeats(calls, p, Warning) \/ Repeats(calls, p, Critical)
      => Streak(calls, p, Warning - 1) /\ Streak(calls, p, 1)
  <2>1. Streak(calls, p, Critical - 1) => Streak(calls, p, Warning - 1)
    BY <1>1, <1>4, StreakFacts
  <2> QED
    BY <2>1 DEF Repeats
<1>6. WarningsScoped'
  <2> SUFFICES ASSUME NEW q \in Patterns
               PROVE  /\ warned' = q => Streak(calls, q, Warning - 1)
                      /\ Streak(calls, q, Warning) => warned' = q
    BY <1>1 DEF WarningsScoped
  <2>1. /\ warned = q => Streak(calls, q, Warning - 1)
        /\ Streak(calls, q, Warning) => warned = q
    BY DEF LoopInv, WarningsScoped
  <2>2. CASE Repeats(calls, p, Warning) \/ Repeats(calls, p, Critical)
    <3>1. warned' = p
      BY <2>2 DEF Inspect
    <3>2. Streak(calls, q, Warning) => q = p
      BY <1>1, <1>4, <1>5, <2>2, StreakFacts
    <3> QED
      BY <1>5, <2>2, <3>1, <3>2
  <2>3. CASE ~(Repeats(calls, p, Warning) \/ Repeats(calls, p, Critical))
    BY <2>1, <2>3 DEF Inspect
  <2> QED
    BY <2>2, <2>3
<1>7. RunningCleared'
  <2> SUFFICES ASSUME running' # NoPattern
               PROVE  /\ ~Repeats(calls, running', Critical)
                      /\ ~PingPongs(calls, running', Critical)
                      /\ Repeats(calls, running', Warning) => warned' = running'
    BY <1>1 DEF RunningCleared
  <2>1. running' = p /\ ~Blocked(p)
    BY DEF Inspect
  <2>2. ~Repeats(calls, p, Critical) /\ ~PingPongs(calls, p, Critical)
    BY <2>1 DEF Blocked, Signal
  <2>3. Repeats(calls, p, Warning) => warned' = p
    BY DEF Inspect
  <2> QED
    BY <2>1, <2>2, <2>3
<1> QED
  BY <1>2, <1>3, <1>6, <1>7 DEF LoopInv

(* Recording the call that inspect cleared lengthens no streak and no alternation to
   the critical threshold, and keeps a warning exactly while its streak lasts. *)
LEMMA RecordKeepsInv ==
    ASSUME LoopInv, NEW o \in Outcomes, Record(o)
    PROVE  LoopInv'
<1> DEFINE e == [pattern |-> running, outcome |-> o]
<1>1. calls \in Seq(Calls) /\ Len(calls) <= HistorySize /\ running \in Patterns
  BY DEF Record, LoopInv, LoopTypeOK, Calls
<1>2. e \in Calls /\ e.pattern = running /\ calls' = Recorded(calls, e)
  BY <1>1 DEF Record, Calls
<1> HIDE DEF e
<1>3. Warning \in Nat /\ Critical \in Nat /\ HistorySize \in Nat
      /\ 2 <= Warning /\ Warning <= Critical /\ Warning <= HistorySize
  BY LoopAssumption
<1>4. /\ calls' \in Seq(Calls) /\ Len(calls') <= HistorySize
      /\ Len(calls') # 0 /\ calls'[Len(calls')] = e
  BY <1>1, <1>2, <1>3, RecordedShape
<1>5. running' = NoPattern /\ warned' = IF warned = running THEN warned ELSE NoPattern
  BY DEF Record
<1>6. LoopTypeOK'
  BY <1>4, <1>5 DEF LoopInv, LoopTypeOK, Calls
<1>7. /\ ~Repeats(calls, running, Critical) /\ ~PingPongs(calls, running, Critical)
      /\ Repeats(calls, running, Warning) => warned = running
  BY DEF Record, LoopInv, RunningCleared
<1>8. ASSUME NEW p \in Patterns, NEW k \in Nat, 2 <= k, Streak(calls', p, k)
      PROVE  p = running /\ Repeats(calls, running, k)
  <2>1. p = running /\ Streak(calls, p, k - 1)
    BY <1>1, <1>2, <1>8, StreakBefore
  <2>2. Streak(calls, p, 1)
    BY <1>1, <1>8, <2>1, StreakFacts
  <2> QED
    BY <2>1, <2>2 DEF Repeats
<1>9. ChurnBounded'
  <2> SUFFICES ASSUME NEW p \in Patterns
               PROVE  /\ ~Streak(calls', p, Critical)
                      /\ calls'[Len(calls')].pattern # p => ~Alternating(calls', p, Critical)
    BY DEF ChurnBounded
  <2>1. ~Streak(calls', p, Critical)
    BY <1>3, <1>7, <1>8
  <2>2. ASSUME calls'[Len(calls')].pattern # p, Alternating(calls', p, Critical)
        PROVE  FALSE
    <3>1. calls # <<>> /\ calls[Len(calls)].pattern = p
          /\ Alternating(calls, running, Critical - 1)
      BY <1>1, <1>2, <1>3, <2>2, AlternatingBefore
    <3>2. p # running
      BY <1>2, <1>4, <2>2
    <3> QED
      BY <1>7, <3>1, <3>2 DEF PingPongs
  <2> QED
    BY <2>1, <2>2
<1>10. WarningsScoped'
  <2> SUFFICES ASSUME NEW q \in Patterns
               PROVE  /\ warned' = q => Streak(calls', q, Warning - 1)
                      /\ Streak(calls', q, Warning) => warned' = q
    BY DEF WarningsScoped
  <2>1. ASSUME warned' = q
        PROVE  Streak(calls', q, Warning - 1)
    <3>1. warned = running /\ q = running
      BY <1>5, <2>1, LoopAssumption
    <3>2. Streak(calls, running, Warning - 1)
      BY <1>1, <3>1 DEF LoopInv, WarningsScoped
    <3>3. Warning - 1 \in 1..HistorySize
      BY <1>3
    <3> QED
      BY <1>1, <1>2, <3>1, <3>2, <3>3, StreakAfter
  <2>2. ASSUME Streak(calls', q, Warning)
        PROVE  warned' = q
    BY <1>3, <1>5, <1>7, <1>8, <2>2
  <2> QED
    BY <2>1, <2>2
<1>11. RunningCleared'
  BY <1>5 DEF RunningCleared
<1> QED
  BY <1>6, <1>9, <1>10, <1>11 DEF LoopInv

(* The steps of handle_tool_call and the reset between sessions keep the invariant. *)
LEMMA LoopInductive == LoopSpec => []LoopInv
<1> USE LoopAssumption
<1>0. \A p \in Patterns, k \in Nat \ {0} : ~Streak(<<>>, p, k)
  BY SMTT(30) DEF Streak
<1>1. LoopInit => LoopInv
  <2> SUFFICES ASSUME LoopInit PROVE LoopInv
    OBVIOUS
  <2>1. calls = <<>> /\ warned = NoPattern /\ running = NoPattern
    BY DEF LoopInit
  <2>2. LoopTypeOK
    BY <2>1 DEF LoopTypeOK
  <2> QED
    BY <1>0, <2>1, <2>2 DEF LoopInv, ChurnBounded, WarningsScoped, RunningCleared
<1>2. LoopInv /\ [LoopNext]_loopVars => LoopInv'
  <2> SUFFICES ASSUME LoopInv, [LoopNext]_loopVars
               PROVE  LoopInv'
    OBVIOUS
  <2>1. ASSUME NEW p \in Patterns, Inspect(p) PROVE LoopInv'
    BY <2>1, InspectKeepsInv
  <2>2. ASSUME NEW o \in Outcomes, Record(o) PROVE LoopInv'
    BY <2>2, RecordKeepsInv, SMTT(30)
  <2>3. CASE CallAborted
    BY <2>3 DEF CallAborted, LoopInv, LoopTypeOK, ChurnBounded, WarningsScoped, RunningCleared
  <2>4. CASE Reset
    <3>1. calls' = <<>> /\ warned' = NoPattern /\ running' = NoPattern
      BY <2>4 DEF Reset
    <3>2. LoopTypeOK'
      BY <3>1, SMTT(30) DEF LoopTypeOK
    <3> QED
      BY <1>0, <3>1, <3>2 DEF LoopInv, ChurnBounded, WarningsScoped, RunningCleared
  <2>5. CASE UNCHANGED loopVars
    BY <2>5 DEF loopVars, LoopInv, LoopTypeOK, ChurnBounded, WarningsScoped, RunningCleared
  <2> QED
    BY <2>1, <2>2, <2>3, <2>4, <2>5 DEF LoopNext
<1> QED
  BY <1>1, <1>2, PTL DEF LoopSpec

-----------------------------------------------------------------------------
(* However calls are blocked, aborted, warned about or reset, no pattern runs
   critical_threshold times in a row and no two alternate that often. *)
THEOREM ChurnAlwaysBounded == LoopSpec => []ChurnBounded
<1>1. LoopInv => ChurnBounded
  BY DEF LoopInv
<1> QED
  BY <1>1, LoopInductive, PTL

(* The detector holds a warning back exactly while the streak it was given for goes
   on. *)
THEOREM WarningsAlwaysScoped == LoopSpec => []WarningsScoped
<1>1. LoopInv => WarningsScoped
  BY DEF LoopInv
<1> QED
  BY <1>1, LoopInductive, PTL

-----------------------------------------------------------------------------
(* The registry of child agents: agent_session_manager.rs *)

(***************************************************************************)
(* The wait protocol of the agent registry, for any number of agents,      *)
(* mutating threads and waiters: no wake-up is lost.                       *)
(***************************************************************************)

(* Every mutation turns a record into a record. *)
LEMMA MutationTypes ==
    ASSUME NEW r \in Records({1})
    PROVE  /\ \A s \in Statuses : UpdateStatus(r, s) \in Records({1})
           /\ \A s \in Terminal : Finish(r, s) \in Records({1})
           /\ Cancel(r) \in Records({1})
           /\ Reopen(r, 1) \in Records({1})
           /\ Restart(r, 1) \in Records({1})
           /\ NewRecord(1) \in Records({1})
BY Zenon DEF Records, UpdateStatus, Finish, Cancel, Reopen, Restart, NewRecord,
       Statuses, Active, Terminal, None, NoWorker

(* An agent the registry does not know is told apart from every record, and
   insert makes a record. *)
LEMMA NoRecordIsNoRecord == NoRecord \notin Records({1}) /\ NewRecord(1) \in Records({1})
BY DEF Records, NoRecord, NewRecord, Statuses, Active, Terminal, None, NoWorker

(* What all six mutations have in common: they write one well-formed record
   and make the caller owe a notification. *)
MutateStep ==
    \E c \in Callers, a \in Agents : \E r \in Records({1}) : Mutate(c, a, r)

WaiterStep ==
    \E w \in Waiters : BeginWait(w) \/ ReadRecord(w) \/ ReturnWait(w) \/ Park(w) \/ Wake(w)

(* Every step of the registry is a mutation, a notification or a step of a
   waiter in wait. *)
LEMMA NextSplits ==
    ASSUME TypeOK, Next
    PROVE  MutateStep \/ (\E c \in Callers : NotifyWaiters(c)) \/ WaiterStep
<1>1. ASSUME NEW c \in Callers, NEW a \in Agents,
             \/ Insert(c, a) \/ SetStatus(c, a) \/ FinishAgent(c, a)
             \/ ReopenAgent(c, a) \/ RestartAgent(c, a) \/ CancelAgent(c, a)
      PROVE  MutateStep
  <2>1. Exists(a) => record[a] \in Records({1})
    BY DEF TypeOK, Exists
  <2>2. CASE Insert(c, a)
    BY <2>2, NoRecordIsNoRecord DEF Insert, MutateStep
  <2>3. CASE SetStatus(c, a)
    BY <2>1, <2>3, MutationTypes, Zenon DEF SetStatus, MutateStep, Statuses, Active
  <2>4. CASE FinishAgent(c, a)
    BY <2>1, <2>4, MutationTypes, Zenon DEF FinishAgent, MutateStep
  <2>5. CASE ReopenAgent(c, a)
    BY <2>1, <2>5, MutationTypes DEF ReopenAgent, MutateStep
  <2>6. CASE RestartAgent(c, a)
    BY <2>1, <2>6, MutationTypes DEF RestartAgent, MutateStep
  <2>7. CASE CancelAgent(c, a)
    BY <2>1, <2>7, MutationTypes, Zenon DEF CancelAgent, MutateStep
  <2> QED
    BY <1>1, <2>2, <2>3, <2>4, <2>5, <2>6, <2>7
<1> QED
  BY <1>1 DEF Next, WaiterStep

-----------------------------------------------------------------------------
(* Changing some fields of one wait call's frame leaves a frame. *)
LEMMA FrameFields ==
    ASSUME NEW f \in Frames
    PROVE  /\ f.ids \in Seq(Agents) /\ Len(f.ids) \in Nat
           /\ f.seen \in Seq(Statuses) /\ Len(f.seen) \in Nat
<1>1. f.ids \in Requests \cup {<<>>} /\ f.seen \in Seq(Statuses)
  BY DEF Frames
<1>2. <<>> \in Seq(Agents)
  OBVIOUS
<1>3. f.ids \in Seq(Agents)
  BY <1>1, <1>2, RequestsAssumption, Zenon
<1> QED
  BY <1>1, <1>3

(* Subscribing to the records of a request (the notified() futures that wait
   builds first) leaves a well-formed frame. *)
LEMMA RegisterType ==
    ASSUME NEW f \in Frames
    PROVE  Register(f) \in Frames
<1>1. <<>> \in Seq(Statuses)
  OBVIOUS
<1> QED
  BY <1>1, Zenon DEF Register, Frames

(* The registry and the frames of the waiters stay well formed. *)
LEMMA TypeStep ==
    ASSUME TypeOK, SeenIsCurrent, [Next]_vars
    PROVE  TypeOK'
<1>1. CASE MutateStep
  BY <1>1 DEF MutateStep, Mutate, TypeOK
<1>2. ASSUME NEW c \in Callers, NotifyWaiters(c)
      PROVE  TypeOK'
  <2>1. \A f \in Frames, x \in BOOLEAN : [f EXCEPT !.woken = x] \in Frames
    BY Zenon DEF Frames
  <2>2. \A w \in Waiters : waiter[w] \in Frames /\ waiter[w].woken \in BOOLEAN
    BY Zenon DEF TypeOK, Frames
  <2>3. \A w \in Waiters : [waiter[w] EXCEPT !.woken = @ \/ waiter[w].pc \in {"snapshot", "parked"}] \in Frames
    BY <2>1, <2>2, Zenon
  <2> QED
    BY <1>2, <2>3, Zenon DEF NotifyWaiters, TypeOK
<1>3. ASSUME NEW w \in Waiters,
             BeginWait(w) \/ ReadRecord(w) \/ ReturnWait(w) \/ Park(w) \/ Wake(w)
      PROVE  TypeOK'
  <2>1. waiter[w] \in Frames /\ Idle \in Frames
    <3>1. <<>> \in Seq(Statuses)
      OBVIOUS
    <3> QED
      BY <3>1 DEF TypeOK, Frames, Idle
  <2>2. CASE BeginWait(w)
    <3>1. \A ids \in Requests, mode \in {"Any", "All"} :
            [Idle EXCEPT !.mode = mode, !.ids = ids] \in Frames
      BY <2>1, Zenon DEF Frames
    <3>2. PICK f \in Frames : waiter' = [waiter EXCEPT ![w] = Register(f)]
      BY <2>2, <3>1, Zenon DEF BeginWait
    <3>3. UNCHANGED <<record, owesNotify>>
      BY <2>2, Zenon DEF BeginWait
    <3> QED
      BY <3>2, <3>3, RegisterType, Zenon DEF TypeOK
  <2>3. CASE ReadRecord(w)
    <3> DEFINE f == waiter[w]
    <3>1. f.ids \in Seq(Agents) /\ f.seen \in Seq(Statuses)
      BY <2>1, FrameFields
    <3>0. f.pc = "snapshot" /\ Len(f.seen) < Len(f.ids)
      BY <2>3, Zenon DEF ReadRecord
    <3>a. \A i \in 1..Len(f.ids) : Exists(f.ids[i])
      BY <3>0, Zenon DEF SeenIsCurrent, Coherent
    <3> HIDE DEF f
    <3>2. Len(f.seen) + 1 \in 1..Len(f.ids)
      BY <3>0, <3>1
    <3>3. Exists(f.ids[Len(f.seen) + 1]) /\ f.ids[Len(f.seen) + 1] \in Agents
      BY <3>1, <3>2, <3>a
    <3>4. record[f.ids[Len(f.seen) + 1]].status \in Statuses
      BY <3>3, Zenon DEF TypeOK, Exists, Records
    <3>5. Append(f.seen, record[f.ids[Len(f.seen) + 1]].status) \in Seq(Statuses)
      BY <3>1, <3>4
    <3> QED
      BY <2>1, <2>3, <3>5, Zenon DEF f, ReadRecord, TypeOK, Frames
  <2>4. CASE ReturnWait(w)
    BY <2>1, <2>4 DEF ReturnWait, TypeOK
  <2>5. CASE Park(w)
    BY <2>1, <2>5, Zenon DEF Park, TypeOK, Frames
  <2>6. CASE Wake(w)
    BY <2>1, <2>6, RegisterType DEF Wake, TypeOK
  <2> QED
    BY <1>3, <2>2, <2>3, <2>4, <2>5, <2>6
<1>4. CASE UNCHANGED vars
  BY <1>4 DEF vars, TypeOK
<1> QED
  BY <1>1, <1>2, <1>3, <1>4, NextSplits DEF WaiterStep

(* A waiter's own step leaves its frame coherent: what it reads is current. *)
LEMMA WaiterKeepsCoherent ==
    ASSUME TypeOK, SeenIsCurrent, NEW w \in Waiters,
           BeginWait(w) \/ ReadRecord(w) \/ ReturnWait(w) \/ Park(w) \/ Wake(w)
    PROVE  Coherent(waiter[w])'
<1> DEFINE f == waiter[w]
<1>1. f \in Frames /\ Coherent(f) /\ UNCHANGED <<record, owesNotify>>
  BY Zenon DEF SeenIsCurrent, TypeOK, BeginWait, ReadRecord, ReturnWait, Park, Wake
<1>2. f.ids \in Seq(Agents) /\ f.seen \in Seq(Statuses)
  BY <1>1, FrameFields
<1>3. CASE BeginWait(w)
  <2>1. PICK ids \in Requests, mode \in {"Any", "All"} :
           /\ \A i \in 1..Len(ids) : Exists(ids[i])
           /\ waiter' = [waiter EXCEPT ![w] = Register([Idle EXCEPT !.mode = mode, !.ids = ids])]
    BY <1>3, Zenon DEF BeginWait
  <2>2. waiter'[w] = [pc |-> "snapshot", mode |-> mode, ids |-> ids, seen |-> <<>>, woken |-> FALSE]
    BY <2>1, Zenon DEF TypeOK, Register, Idle
  <2>3. Len(ids) \in Nat
    BY RequestsAssumption, SMTT(30)
  <2> QED
    BY <1>1, <2>1, <2>2, <2>3 DEF Coherent, Exists, None
<1>4. CASE ReadRecord(w)
  <2> DEFINE st == record[f.ids[Len(f.seen) + 1]].status
  <2>1. waiter'[w] = [f EXCEPT !.seen = Append(f.seen, st)]
    BY <1>4, SMTT(30) DEF ReadRecord, TypeOK
  <2>2. /\ waiter'[w].pc = f.pc /\ waiter'[w].mode = f.mode
        /\ waiter'[w].ids = f.ids /\ waiter'[w].woken = f.woken
        /\ waiter'[w].seen = Append(f.seen, st)
    BY <1>1, <2>1, Zenon DEF Frames
  <2>3. f.pc = "snapshot" /\ Len(f.seen) < Len(f.ids)
    BY <1>4, Zenon DEF ReadRecord
  <2>4. /\ Len(Append(f.seen, st)) = Len(f.seen) + 1
        /\ \A i \in 1..Len(f.seen) : Append(f.seen, st)[i] = f.seen[i]
        /\ Append(f.seen, st)[Len(f.seen) + 1] = st
    BY <1>2
  <2>5. Len(f.seen) \in Nat /\ Len(f.ids) \in Nat
    BY <1>2, SMTT(30)
  <2> HIDE DEF f, st
  <2>6. f.pc # "idle" /\ ~f.woken /\ owesNotify = {} =>
           \A i \in 1..(Len(f.seen) + 1) : Append(f.seen, st)[i] = record[f.ids[i]].status
    BY <1>1, <2>4, <2>5, SMTT(30) DEF Coherent, st
  <2> QED
    BY <1>1, <2>2, <2>3, <2>4, <2>5, <2>6 DEF Coherent, Exists
<1>5. CASE ReturnWait(w)
  BY <1>5 DEF ReturnWait, TypeOK, Idle, Coherent
<1>6. CASE Park(w)
  BY <1>1, <1>6 DEF Park, TypeOK, Frames, Coherent, Exists, Done
<1>7. CASE Wake(w)
  BY <1>1, <1>2, <1>7 DEF Wake, Register, TypeOK, Frames, Coherent, Exists
<1> QED
  BY <1>3, <1>4, <1>5, <1>6, <1>7

(* A mutation cannot make a frame incoherent: it leaves the caller owing the
   notification that the frame's third conjunct waits for. *)
LEMMA MutateKeepsCoherent ==
    ASSUME TypeOK, SeenIsCurrent, MutateStep
    PROVE  SeenIsCurrent'
<1>1. PICK c \in Callers, a \in Agents, r \in Records({1}) : Mutate(c, a, r)
  BY DEF MutateStep
<1>2. UNCHANGED waiter /\ owesNotify' # {}
  BY <1>1 DEF Mutate
<1>3. ASSUME NEW b \in Agents, Exists(b)
      PROVE  Exists(b)'
  BY <1>1, <1>3, NoRecordIsNoRecord, SMTT(30) DEF Mutate, TypeOK, Exists
<1>4. ASSUME NEW w \in Waiters
      PROVE  Coherent(waiter[w])'
  <2>1. waiter[w] \in Frames /\ Coherent(waiter[w])
    BY DEF TypeOK, SeenIsCurrent
  <2>2. \A i \in 1..Len(waiter[w].ids) : waiter[w].ids[i] \in Agents
    BY <2>1, FrameFields
  <2> QED
    BY <1>2, <1>3, <2>1, <2>2, Zenon DEF Coherent, Done
<1> QED
  BY <1>4 DEF SeenIsCurrent

(* A notification reaches every registered waiter. *)
LEMMA NotifyKeepsCoherent ==
    ASSUME TypeOK, SeenIsCurrent, NEW c \in Callers, NotifyWaiters(c)
    PROVE  SeenIsCurrent'
<1>1. ASSUME NEW w \in Waiters
      PROVE  Coherent(waiter[w])'
  <2> DEFINE f == waiter[w]
             g == waiter'[w]
  <2>1. f \in Frames /\ Coherent(f) /\ UNCHANGED record
    BY DEF TypeOK, SeenIsCurrent, NotifyWaiters
  <2>2. g = [f EXCEPT !.woken = @ \/ f.pc \in {"snapshot", "parked"}]
    BY DEF NotifyWaiters
  <2>3. /\ g.pc = f.pc /\ g.mode = f.mode /\ g.ids = f.ids /\ g.seen = f.seen
        /\ g.pc # "idle" => g.woken
    BY <2>1, <2>2, Zenon DEF Frames
  <2> QED
    BY <2>1, <2>3 DEF Coherent, Done, Exists
<1> QED
  BY <1>1, SMTT(30) DEF SeenIsCurrent

(* The steps of wait, whichever waiter takes them, keep every frame coherent. *)
LEMMA WaiterStepKeepsCoherent ==
    ASSUME TypeOK, SeenIsCurrent, WaiterStep
    PROVE  SeenIsCurrent'
<1>1. PICK w \in Waiters :
        BeginWait(w) \/ ReadRecord(w) \/ ReturnWait(w) \/ Park(w) \/ Wake(w)
  BY DEF WaiterStep
<1>2. UNCHANGED <<record, owesNotify>> /\ \A v \in Waiters \ {w} : waiter'[v] = waiter[v]
  BY <1>1, ZenonT(30) DEF BeginWait, ReadRecord, ReturnWait, Park, Wake, TypeOK
<1>3. ASSUME NEW v \in Waiters \ {w}
      PROVE  Coherent(waiter[v])'
  <2> DEFINE f == waiter[v]
  <2>1. /\ waiter'[v] = f /\ record' = record /\ owesNotify' = owesNotify
        /\ \A x : Exists(x)' <=> Exists(x)
    BY <1>2, <1>3 DEF Exists
  <2>2. Coherent(f)
    BY <1>3 DEF SeenIsCurrent
  <2>3. f.pc # "idle" => /\ f.mode # None
                         /\ Len(f.seen) <= Len(f.ids)
                         /\ \A i \in 1..Len(f.ids) : Exists(f.ids[i])'
    BY <2>1, <2>2, Zenon DEF Coherent
  <2>4. f.pc = "parked" => Len(f.seen) = Len(f.ids) /\ ~Done(f)
    BY <2>2, Zenon DEF Coherent
  <2>5. f.pc # "idle" /\ ~f.woken /\ owesNotify' = {} =>
          \A i \in 1..Len(f.seen) : f.seen[i] = record'[f.ids[i]].status
    BY <2>1, <2>2, Zenon DEF Coherent
  <2> QED
    BY <2>1, <2>3, <2>4, <2>5, Zenon DEF Coherent, Done
<1> QED
  BY <1>1, <1>3, WaiterKeepsCoherent DEF SeenIsCurrent

-----------------------------------------------------------------------------
RegistryInv == TypeOK /\ SeenIsCurrent

(* Types and the inductive invariant of the wait protocol. *)
THEOREM RegistryInductive == Spec => []RegistryInv
<1>1. Init => RegistryInv
  <2> SUFFICES ASSUME Init PROVE RegistryInv
    OBVIOUS
  <2>1. <<>> \in Seq(Statuses)
    OBVIOUS
  <2>2. Idle \in Frames
    BY <2>1 DEF Idle, Frames
  <2> QED
    BY <2>2 DEF Init, RegistryInv, TypeOK, SeenIsCurrent, Coherent, Idle
<1>2. RegistryInv /\ [Next]_vars => RegistryInv'
  <2> SUFFICES ASSUME TypeOK, SeenIsCurrent, [Next]_vars
               PROVE  RegistryInv'
    BY DEF RegistryInv
  <2>1. TypeOK'
    BY TypeStep
  <2>2. ASSUME UNCHANGED vars
        PROVE  SeenIsCurrent'
    BY <2>2 DEF vars, SeenIsCurrent, Coherent, Done, Exists
  <2>3. SeenIsCurrent'
    BY <2>2, MutateKeepsCoherent, NotifyKeepsCoherent, WaiterStepKeepsCoherent, NextSplits, SMTT(30)
  <2> QED
    BY <2>1, <2>3 DEF RegistryInv, vars
<1> QED
  BY <1>1, <1>2, PTL DEF Spec

(* No waiter sleeps on a request that is met unless a notification is due:
   registering before the snapshot loses no wake-up, with any number of
   agents, mutating threads and concurrent waits. *)
THEOREM NoWakeupLost == Spec => []NoLostWakeup
<1>1. RegistryInv => NoLostWakeup
  <2> SUFFICES ASSUME RegistryInv, NEW w \in Waiters,
                      waiter[w].pc = "parked", ~waiter[w].woken, owesNotify = {}
               PROVE  ~Satisfied(w)
    BY DEF NoLostWakeup
  <2>1. Coherent(waiter[w])
    BY DEF RegistryInv, SeenIsCurrent
  <2> QED
    BY <2>1, Zenon DEF Coherent, Done, Satisfied, IsTerminal
<1> QED
  BY <1>1, RegistryInductive, PTL

(* A terminal record carries the result of the same outcome. *)
THEOREM ResultAlways == Spec => []TerminalHasResult
<1>1. Init => TerminalHasResult
  BY DEF Init, TerminalHasResult, Exists
<1>2. RegistryInv /\ TerminalHasResult /\ [Next]_vars => TerminalHasResult'
  <2> SUFFICES ASSUME RegistryInv, TerminalHasResult, [Next]_vars
               PROVE  TerminalHasResult'
    BY SMTT(30)
  <2>1. ASSUME NEW c \in Callers, NEW a \in Agents, NEW r, Mutate(c, a, r),
               r.status \in Terminal => r.result = r.status
        PROVE  TerminalHasResult'
    BY <2>1 DEF Mutate, TerminalHasResult, RegistryInv, TypeOK, Exists, IsTerminal
  <2>2. ASSUME NEW c \in Callers, NEW a \in Agents, Exists(a)
        PROVE  record[a] \in Records({1})
    BY <2>2 DEF RegistryInv, TypeOK, Exists
  <2>3. ASSUME NEW r \in Records({1})
        PROVE  /\ NewRecord(1).status \notin Terminal
               /\ \A s \in {"Running", "WaitingMessage"} : UpdateStatus(r, s).status \notin Terminal
               /\ \A s \in Terminal : Finish(r, s).result = Finish(r, s).status
               /\ Cancel(r).result = Cancel(r).status
    BY SMTT(30) DEF Records, NewRecord, UpdateStatus, Finish, Cancel, Terminal
  <2>4. ASSUME NEW c \in Callers, NEW a \in Agents, Insert(c, a)
        PROVE  TerminalHasResult'
    BY <2>1, <2>3, <2>4, NoRecordIsNoRecord, SMTT(30) DEF Insert
  <2>5. ASSUME NEW c \in Callers, NEW a \in Agents, SetStatus(c, a)
        PROVE  TerminalHasResult'
    BY <2>1, <2>2, <2>3, <2>5, SMTT(30) DEF SetStatus
  <2>6. ASSUME NEW c \in Callers, NEW a \in Agents, FinishAgent(c, a)
        PROVE  TerminalHasResult'
    BY <2>1, <2>2, <2>3, <2>6, SMTT(30) DEF FinishAgent
  <2>7. ASSUME NEW c \in Callers, NEW a \in Agents,
               ReopenAgent(c, a) \/ RestartAgent(c, a)
        PROVE  TerminalHasResult'
    BY <2>1, <2>2, <2>3, <2>7, SMTT(30) DEF ReopenAgent, RestartAgent, Reopen, Restart
  <2>8. ASSUME NEW c \in Callers, NEW a \in Agents, CancelAgent(c, a)
        PROVE  TerminalHasResult'
    BY <2>1, <2>2, <2>3, <2>8 DEF CancelAgent
  <2>9. CASE UNCHANGED record
    BY <2>9 DEF TerminalHasResult, Exists, IsTerminal
  <2>10. ASSUME WaiterStep \/ UNCHANGED vars \/ \E c \in Callers : NotifyWaiters(c)
         PROVE  UNCHANGED record
    BY <2>10, Zenon DEF WaiterStep, vars, BeginWait, ReadRecord, ReturnWait, Park, Wake, NotifyWaiters
  <2> QED
    BY <2>4, <2>5, <2>6, <2>7, <2>8, <2>9, <2>10 DEF Next, WaiterStep
<1> QED
  BY <1>1, <1>2, RegistryInductive, PTL DEF Spec
=============================================================================
