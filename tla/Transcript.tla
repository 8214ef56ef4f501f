----------------------------- MODULE Transcript -----------------------------
(***************************************************************************)
(* The pure part of a session's history: the window of a RuntimeSession    *)
(* the model sees (crates/runtime/src/runtime/history.rs), where compaction *)
(* may split it, and the session the event log stands for                  *)
(* (crates/runtime/src/session.rs, crates/store/src/replay.rs).            *)
(*                                                                         *)
(* A message is its id, its role, the id of the call it answers and the    *)
(* number of times a hook has rewritten it.  An assistant message that     *)
(* requests a tool has the role "call".  Positions count from 1.           *)
(***************************************************************************)
EXTENDS Naturals, SequencesExt

CONSTANT PreserveRecent     \* CompactionConfig::preserve_recent_messages

RequestSide == {"user", "system"}
Roles == RequestSide \cup {"assistant", "call", "tool"}

NoIndex == 0
NoChain == <<>>     \* no provider continuation

(* RuntimeSession::new.  chain is what the provider holds under the last
   continuation, cursor what of the transcript that covers.  There is no
   post_summary_start: the code always sets it to the summary's successor. *)
EmptySession ==
    [transcript |-> <<>>, removed |-> {}, summary |-> NoIndex, tail |-> <<>>,
     chain |-> NoChain, cursor |-> 0]

Ids(t) == [i \in DOMAIN t |-> t[i].id]
Interval(i, j) == [k \in 1..(IF j < i THEN 0 ELSE j + 1 - i) |-> i + k - 1]

(* visible_message_indices *)
VisibleIndices(s) ==
    LET BeforeSummary(i) == i < s.summary
        Kept(i) == s.transcript[i].id \notin s.removed
        window == IF s.summary = NoIndex
                  THEN Interval(1, Len(s.transcript))
                  ELSE <<s.summary>> \o SelectSeq(s.tail, BeforeSummary)
                         \o Interval(s.summary + 1, Len(s.transcript))
    IN  SelectSeq(window, Kept)

(* visible_transcript *)
Visible(s) == LET v == VisibleIndices(s) IN [i \in DOMAIN v |-> s.transcript[v[i]]]

(* starts_request_round, the same in history.rs, session.rs and replay.rs *)
StartsRound(t, p) ==
    /\ p \in DOMAIN t
    /\ t[p].role \in RequestSide
    /\ p = 1 \/ t[p - 1].role \notin RequestSide

(* The last request round that starts at lo or later and not after p. *)
LastRound(t, lo, p) ==
    LET starts == {q \in lo..p : StartsRound(t, q)}
    IN  IF starts = {} THEN NoIndex ELSE Max(starts)

-----------------------------------------------------------------------------
(* select_compaction_split_index: the first position that is retained.  *)

(* align_split_at_to_request_round_boundary: at least two messages are summarised *)
Align(v, p) == LastRound(v, 3, p)

(* expand_retained_tail_for_context_floor.  The token estimate decides how far;
   running out of earlier rounds gives the compaction up. *)
Expansions(v, p) == {p} \cup {q \in 3..(p - 1) : StartsRound(v, q)}

Answered(t) == {t[i].of : i \in {j \in DOMAIN t : t[j].role = "tool"}}
Called(t) == {t[i].id : i \in {j \in DOMAIN t : t[j].role = "call"}}

(* Fault: the tail is not grown to the calls its results answer. *)
AdjustNothing(v, p) == p

(* adjust_split_at_for_tool_pairs: back to the latest call that is missing,
   until none is *)
Adjust(v, p) ==
    LET back[q \in 0..Len(v)] ==
            LET retained == SubSeq(v, q, Len(v))
                missing == Answered(retained) \ Called(retained)
                calls == {i \in 1..(q - 1) : v[i].id \in missing /\ v[i].role = "call"}
            IN  IF q = NoIndex \/ missing = {} THEN q
                ELSE IF calls = {} \/ Max(calls) < 3 THEN NoIndex
                ELSE back[Max(calls)]
    IN  back[p]

(* Every split the estimates allow. *)
Splits(v) ==
    LET first == Len(v) + 1 - Min({PreserveRecent, Len(v) - 1})
        aligned == Align(v, first)
    IN  IF Len(v) < 2 \/ first < 3 THEN {}
        ELSE IF first = Len(v) + 1 THEN {first}
        ELSE IF aligned = NoIndex THEN {}
        ELSE {Align(v, Adjust(v, p)) : p \in Expansions(v, aligned)} \ {NoIndex}

(* Fault: the summary is an anchor like any other. *)
RollbackAnywhere(v, compacted) == {p \in DOMAIN v : StartsRound(v, p)}

(* visible_history_rollback_round_starts, of the rounds with a user prompt
   (primary_prompt_offset) *)
RollbackStarts(v, compacted) ==
    LET Start(p) == /\ v[p].role \in RequestSide
                    /\ CASE p = 1 -> ~compacted
                         [] p = 2 /\ compacted -> TRUE
                         [] OTHER -> v[p - 1].role \notin RequestSide
        Prompted(p) == \E q \in p..Len(v) :
                          /\ v[q].role = "user"
                          /\ \A r \in p..q : v[r].role \in RequestSide
                          /\ \A r \in (p + 1)..q : ~Start(r)
    IN  {p \in DOMAIN v : Start(p) /\ Prompted(p)}

-----------------------------------------------------------------------------
(* The event log.  Only the events replay looks at are kept; each carries the
   agent session that wrote it. *)
Added(m, g) == [kind |-> "message", agent |-> g, m |-> m]
Patched(m, g) == [kind |-> "patched", agent |-> g, m |-> m]
Removed(id, g) == [kind |-> "removed", agent |-> g, id |-> id]
Checkpoint(id, ids, g) == [kind |-> "compaction", agent |-> g, id |-> id, tail |-> ids]

OfKind(events, kind) == LET Is(e) == e.kind = kind IN SelectSeq(events, Is)

(* What the log says of one message: its last text. *)
Latest(events, id) ==
    Last(SelectSeq(events, LAMBDA e : e.kind \in {"message", "patched"} /\ e.m.id = id)).m

(* replay_transcript *)
ReplayTranscript(events) ==
    LET gone == {e.id : e \in ToSet(OfKind(events, "removed"))}
        added == SelectSeq(OfKind(events, "message"), LAMBDA e : e.m.id \notin gone)
    IN  [i \in DOMAIN added |-> Latest(events, added[i].m.id)]

PositionOf(t, id) == SelectInSeq(t, LAMBDA m : m.id = id)

(* Fault: the checkpoint's tail is not looked up. *)
UpgradeNothing(t, tail) == <<>>

(* upgrade_retained_tail_indices_for_request_rounds *)
Upgrade(t, tail) ==
    LET start == LastRound(t, 1, Head(tail))
    IN  IF tail = <<>> THEN tail
        ELSE Interval(IF start = NoIndex THEN 1 ELSE start, Head(tail) - 1) \o tail

(* reconstruct_runtime_session refuses a log whose summary is gone. *)
Reconstructible(events) ==
    LET checkpoints == OfKind(events, "compaction")
    IN  checkpoints # <<>> =>
            PositionOf(ReplayTranscript(events), Last(checkpoints).id) # NoIndex

(* reconstruct_runtime_session *)
Reconstruct(events) ==
    LET t == ReplayTranscript(events)
        checkpoints == OfKind(events, "compaction")
        last == Last(checkpoints)
        summary == PositionOf(t, last.id)
        found == [i \in DOMAIN last.tail |-> PositionOf(t, last.tail[i])]
        tail == SelectSeq(found, LAMBDA i : i # NoIndex /\ i < summary)
    IN  IF checkpoints = <<>> THEN [EmptySession EXCEPT !.transcript = t]
        ELSE [EmptySession EXCEPT !.transcript = t, !.summary = summary,
                                  !.tail = Upgrade(t, tail)]

(* The events reconstruct_runtime_session reads for agent session g. *)
Cut(events, g) == SubSeq(events, 1, SelectLastInSeq(events, LAMBDA e : e.agent = g))

(* seed_runtime_session_events, for a session fork_runtime_session copied *)
SeedEvents(s, g) ==
    [i \in DOMAIN s.transcript |-> Added(s.transcript[i], g)] \o
        IF s.summary = NoIndex THEN <<>>
        ELSE <<Checkpoint(s.transcript[s.summary].id,
                          [i \in DOMAIN s.tail |-> s.transcript[s.tail[i]].id], g)>>
=============================================================================
