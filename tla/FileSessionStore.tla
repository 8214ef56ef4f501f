-------------------------- MODULE FileSessionStore --------------------------
(***************************************************************************)
(* crates/store/src/file.rs and file/index_sidecar.rs: one JSONL log per   *)
(* session, an index of the sessions in memory and its copy on disk, the   *)
(* sidecar.                                                                *)
(*                                                                         *)
(* An append holds write_lock; its frame is `append`.  It ends early when  *)
(* an I/O call fails or when the task that awaits it is dropped, which     *)
(* leaves what it had done.  An event and its newline are written by two   *)
(* calls.  An event's id is also its timestamp.                            *)
(***************************************************************************)
EXTENDS Integers, FiniteSets, FiniteSetsExt, SequencesExt

CONSTANTS
    Sessions,
    MaxEvents,      \* bound on the events that callers append
    MaxFaults,      \* bound on crashes and interrupted appends together
    MaxSessions,    \* retention.max_sessions
    MaxAge          \* retention.max_age, in timestamps

AgentSessions == {1, 2}
Event == [id: 1..MaxEvents, session: Sessions, agent: AgentSessions, summary: 0..MaxEvents]
IsMessage(e) == e.summary = 0   \* otherwise CompactionCompleted with that summary message

ASSUME StoreAssumption ==
    /\ MaxEvents \in Nat /\ MaxFaults \in Nat /\ MaxSessions \in Nat /\ MaxAge \in Nat
    /\ IsFiniteSet(Sessions)

VARIABLES
    logs,       \* logs[s]: its lines, the events of each, and whether the last is terminated
    sidecar,    \* sessions.index.json: what it holds of each session
    index,      \* FileSessionStoreIndex in memory
    append,     \* the frame of the append, or the open, in progress
    waiting,    \* the batches of the callers waiting for write_lock
    issued,     \* events created so far
    faults,
    acked,      \* the events of appends that returned Ok, until retention deletes them
    torn,       \* the sessions whose log was left without a newline
    uncounted,  \* the logged events that the index has not counted, ...
    unsaved,    \* ... and those that the sidecar has not
    lost        \* the sessions deleted by a retention that did not get to the index

storeVars == <<logs, sidecar, index, append, waiting, issued, faults,
               acked, torn, uncounted, unsaved, lost>>

NoFile == [exists |-> FALSE, lines |-> <<>>, terminated |-> TRUE]
NoEntry == [last |-> 0, count |-> 0, agents |-> <<>>, visible |-> 0]
Closed == [s \in Sessions |-> NoEntry]
NoAppend == [pc |-> "free", batch |-> <<>>, next |-> 1, prune |-> {}, opening |-> FALSE]
Down == [NoAppend EXCEPT !.pc = "down"]

(* index.sessions' keys: a record always counts an event. *)
Keys(i) == {s \in Sessions : i[s].count > 0}

-----------------------------------------------------------------------------
(* load_events_from_path fails on a line that is not one event. *)
Readable(s) == \A n \in DOMAIN logs[s].lines : Len(logs[s].lines[n]) = 1
Events(s) == FlattenSeq(logs[s].lines)
Logged(s) == {Events(s)[n].id : n \in DOMAIN Events(s)}

(* visible_agent_session_transcript: from the summary of the latest compaction
   on, when that message is there. *)
VisibleOf(events) ==
    LET compactions == {n \in DOMAIN events : ~IsMessage(events[n])}
        at == {n \in DOMAIN events :
                  compactions # {} /\ events[n].id = events[Max(compactions)].summary}
    IN  Cardinality({n \in DOMAIN events : IsMessage(events[n]) /\ \A m \in at : n >= m})

VisibleMessages(events) ==
    MapThenSumSet(LAMBDA a : VisibleOf(SelectSeq(events, LAMBDA e : e.agent = a)),
                  {events[n].agent : n \in DOMAIN events})

PushUnique(agents, a) == IF Contains(agents, a) THEN agents ELSE Append(agents, a)

(* indexed_record_from_events *)
Indexed(events) ==
    IF events = <<>> THEN NoEntry
    ELSE [last    |-> Max({events[n].id : n \in DOMAIN events}),
          count   |-> Len(events),
          agents  |-> FoldLeft(LAMBDA seq, e : PushUnique(seq, e.agent), <<>>, events),
          visible |-> VisibleMessages(events)]

(* apply_event_to_record, on default_indexed_record if there was none *)
ApplyEvent(r, e) ==
    [last    |-> IF e.id > r.last THEN e.id ELSE r.last,
     count   |-> r.count + 1,
     agents  |-> PushUnique(r.agents, e.agent),
     visible |-> r.visible + (IF IsMessage(e) THEN 1 ELSE 0)]

(* Fault: one session too few is kept. *)
SelectPruneMore(i) ==
    LET old == {s \in Keys(i) : issued - i[s].last > MaxAge}
        rest == Keys(i) \ old
    IN  old \cup {s \in rest : Cardinality({o \in rest : i[o].last >= i[s].last}) >= MaxSessions}

(* select_sessions_to_prune: what is too old, then all but the MaxSessions most
   recent of the rest; equal timestamps do not occur. *)
SelectPrune(i) ==
    LET old == {s \in Keys(i) : issued - i[s].last > MaxAge}
        rest == Keys(i) \ old
    IN  old \cup {s \in rest : Cardinality({o \in rest : i[o].last > i[s].last}) >= MaxSessions}
-----------------------------------------------------------------------------
StoreInit ==
    /\ logs = [s \in Sessions |-> NoFile]
    /\ sidecar = Closed
    /\ index = Closed
    /\ append = NoAppend
    /\ waiting = {}
    /\ issued = 0
    /\ faults = 0
    /\ acked = {}
    /\ torn = {}
    /\ uncounted = {}
    /\ unsaved = {}
    /\ lost = {}

(* A caller creates a batch and waits for write_lock: a message, two messages,
   or the end of a compaction whose summary message it appended before. *)
StoreIssue ==
    LET message(i, s, a) == [id |-> issued + i, session |-> s, agent |-> a, summary |-> 0]
        compaction(e) == [e EXCEPT !.id = issued + 1, !.summary = e.id]
        batches == {<<message(1, s, a)>> : s \in Sessions, a \in AgentSessions}
            \cup {<<message(1, s, 1), message(2, o, 1)>> : s \in Sessions, o \in Sessions}
            \cup {<<compaction(e)>> : e \in {x \in UNION {ToSet(Events(s)) : s \in Sessions} :
                                               IsMessage(x) /\ x.id \in acked}}
    IN  /\ append.pc # "down" /\ ~append.opening
        /\ Cardinality(waiting) < 2
        /\ \E b \in batches :
              /\ issued + Len(b) <= MaxEvents
              /\ waiting' = waiting \cup {b}
              /\ issued' = issued + Len(b)
        /\ UNCHANGED <<logs, sidecar, index, append, faults, acked, torn, uncounted, unsaved, lost>>

(* Fault: the lock is not taken. *)
StoreLockAny ==
    /\ append.pc \in {"free", "write", "newline"}
    /\ \E b \in waiting :
          /\ append' = [NoAppend EXCEPT !.pc = "open", !.batch = b]
          /\ waiting' = (waiting \ {b}) \cup (IF append.pc = "free" THEN {} ELSE {append.batch})
    /\ UNCHANGED <<logs, sidecar, index, issued, faults, acked, torn, uncounted, unsaved, lost>>

(* write_lock.lock().await *)
StoreLock ==
    /\ append.pc = "free"
    /\ \E b \in waiting :
          /\ append' = [NoAppend EXCEPT !.pc = "open", !.batch = b]
          /\ waiting' = waiting \ {b}
    /\ UNCHANGED <<logs, sidecar, index, issued, faults, acked, torn, uncounted, unsaved, lost>>

(* The event's session: flush, then OpenOptions create + append, unless it is the
   session of the event before. *)
StoreOpenLog ==
    LET s == append.batch[append.next].session
    IN  /\ append.pc = "open"
        /\ logs' = [logs EXCEPT ![s].exists = TRUE]
        /\ append' = [append EXCEPT !.pc = "write"]
        /\ UNCHANGED <<sidecar, index, waiting, issued, faults, acked, torn, uncounted, unsaved, lost>>

(* write_all(encoded): appended to a line that was left without its newline. *)
StoreWrite ==
    LET e == append.batch[append.next]
        log == logs[e.session]
    IN  /\ append.pc = "write"
        /\ logs' = [logs EXCEPT ![e.session] =
              [exists |-> TRUE, terminated |-> FALSE,
               lines |-> IF log.terminated THEN Append(log.lines, <<e>>)
                         ELSE Front(log.lines) \o <<Append(Last(log.lines), e)>>]]
        /\ append' = [append EXCEPT !.pc = "newline"]
        /\ uncounted' = uncounted \cup {e.id}
        /\ unsaved' = unsaved \cup {e.id}
        /\ UNCHANGED <<sidecar, index, waiting, issued, faults, acked, torn, lost>>

(* write_all(b"\n"), and on to the next event or to the index *)
StoreNewline ==
    LET s == append.batch[append.next].session
        n == append.next + 1
    IN  /\ append.pc = "newline"
        /\ logs' = [logs EXCEPT ![s].terminated = TRUE]
        /\ append' = [append EXCEPT !.next = n,
              !.pc = IF n > Len(append.batch) THEN "index"
                     ELSE IF append.batch[n].session = s THEN "write" ELSE "open"]
        /\ UNCHANGED <<sidecar, index, waiting, issued, faults, acked, torn, uncounted, unsaved, lost>>
(* The sessions whose record is rebuilt from the log: rebuild_index_record. *)
Rebuilt(batch) == {batch[n].session : n \in {m \in DOMAIN batch : ~IsMessage(batch[m])}}
EventsOf(batch, s) == SelectSeq(batch, LAMBDA e : e.session = s)

(* Fault: a compaction is counted like any other event. *)
IndexWithIncremental(batch) ==
    [s \in Sessions |-> FoldLeft(ApplyEvent, index[s], EventsOf(batch, s))]

(* The index after the batch. *)
IndexWith(batch) ==
    [s \in Sessions |-> IF s \in Rebuilt(batch) THEN Indexed(Events(s))
                        ELSE FoldLeft(ApplyEvent, index[s], EventsOf(batch, s))]

StoreIndex ==
    LET batch == append.batch
        rebuilt == Rebuilt(batch)
    IN  /\ append.pc = "index"
        /\ \A s \in rebuilt : Readable(s)
        /\ index' = IndexWith(batch)
        /\ append' = [append EXCEPT !.pc = "prune", !.prune = SelectPrune(IndexWith(batch))]
        /\ uncounted' = uncounted \ ({batch[n].id : n \in DOMAIN batch}
                                      \cup UNION {Logged(s) : s \in rebuilt})
        /\ UNCHANGED <<logs, sidecar, waiting, issued, faults, acked, torn, unsaved, lost>>

(* The log of a rebuilt session cannot be read: the append fails. *)
StoreIndexFails ==
    /\ append.pc = "index"
    /\ \E s \in Rebuilt(append.batch) : ~Readable(s)
    /\ append' = NoAppend
    /\ UNCHANGED <<logs, sidecar, index, waiting, issued, faults, acked, torn, uncounted, unsaved, lost>>

(* delete_session_file *)
StorePrune ==
    /\ append.pc = "prune"
    /\ \E s \in append.prune :
          /\ logs[s].exists
          /\ logs' = [logs EXCEPT ![s] = NoFile]
          /\ acked' = acked \ Logged(s)
          /\ torn' = torn \ {s}
          /\ uncounted' = uncounted \ Logged(s)
          /\ unsaved' = unsaved \ Logged(s)
    /\ UNCHANGED <<sidecar, index, append, waiting, issued, faults, lost>>

(* The pruned sessions leave the index, persist_index writes it to a temporary
   file and renames that over the sidecar, and the append returns. *)
StorePersist ==
    /\ append.pc = "prune"
    /\ \A s \in append.prune : ~logs[s].exists
    /\ index' = [s \in Sessions |-> IF s \in append.prune THEN NoEntry ELSE index[s]]
    /\ sidecar' = index'
    /\ append' = NoAppend
    /\ acked' = acked \cup ({append.batch[n].id : n \in DOMAIN append.batch}
                             \cap UNION {Logged(s) : s \in Sessions})
    /\ unsaved' = uncounted
    /\ lost' = lost \ (append.prune \cup Rebuilt(append.batch))
    /\ UNCHANGED <<logs, waiting, issued, faults, torn, uncounted>>

Unterminated == {s \in Sessions : ~logs[s].terminated}

(* An I/O call of the append fails, or the task that awaits it is dropped. *)
StoreInterrupt ==
    /\ append.pc \notin {"free", "down"} /\ ~append.opening
    /\ faults < MaxFaults
    /\ faults' = faults + 1
    /\ append' = NoAppend
    /\ torn' = torn \cup Unterminated
    /\ lost' = lost \cup {s \in append.prune : ~logs[s].exists}
    /\ UNCHANGED <<logs, sidecar, index, waiting, issued, acked, uncounted, unsaved>>

(* The process dies, also while it opens the store. *)
StoreCrash ==
    /\ append.pc # "down" /\ faults < MaxFaults
    /\ faults' = faults + 1
    /\ append' = Down
    /\ index' = Closed
    /\ waiting' = {}
    /\ torn' = torn \cup Unterminated
    /\ UNCHANGED <<logs, sidecar, issued, acked, uncounted, unsaved, lost>>

(* load_or_rebuild_index *)
SidecarAccepted == Keys(sidecar) = {s \in Sessions : logs[s].exists}
LoadOrRebuild ==
    IF SidecarAccepted THEN sidecar ELSE [s \in Sessions |-> Indexed(Events(s))]

(* open_with_options up to its retention; a log that a rebuild cannot read fails it. *)
StoreOpen ==
    /\ append.pc = "down"
    /\ SidecarAccepted \/ \A s \in Sessions : Readable(s)
    /\ index' = LoadOrRebuild
    /\ append' = [NoAppend EXCEPT !.pc = "prune", !.opening = TRUE,
                                  !.prune = SelectPrune(LoadOrRebuild)]
    /\ uncounted' = IF SidecarAccepted THEN unsaved ELSE {}
    /\ lost' = IF SidecarAccepted THEN lost ELSE {}
    /\ UNCHANGED <<logs, sidecar, waiting, issued, faults, acked, torn, unsaved>>

StoreNext ==
    \/ StoreIssue \/ StoreLock \/ StoreOpenLog \/ StoreWrite \/ StoreNewline
    \/ StoreIndex \/ StoreIndexFails \/ StorePrune \/ StorePersist
    \/ StoreInterrupt \/ StoreCrash \/ StoreOpen

StoreSpec == StoreInit /\ [][StoreNext]_storeVars

-----------------------------------------------------------------------------
(* Every log, index entry and frame is of its shape, and no index counts more
   sessions or events than callers created. *)
StoreTypeOK ==
    /\ logs \in [Sessions -> [exists: BOOLEAN, terminated: BOOLEAN, lines: Seq(Seq(Event))]]
    /\ \A i \in {index, sidecar} : \A s \in Sessions :
          i[s].count \in 0..issued /\ i[s].visible \in 0..i[s].count /\ i[s].last \in 0..issued
    /\ append.pc \in {"free", "open", "write", "newline", "index", "prune", "down"}
    /\ append.batch \in Seq(Event) /\ append.prune \subseteq Sessions
    /\ waiting \subseteq Seq(Event)
    /\ issued \in 0..MaxEvents /\ faults \in 0..MaxFaults
    /\ UNION {acked, uncounted, unsaved} \subseteq 1..issued
    /\ torn \cup lost \subseteq Sessions

(* An event whose append returned Ok is in its session's log, and the log can be
   read back, through any crashes, reopenings and interrupted appends: only a
   newline that an interruption cut off can make a log unreadable (append,
   load_events_from_path). *)
AckedReadable ==
    /\ acked \subseteq UNION {Logged(s) : s \in Sessions}
    /\ \A s \in Sessions \ torn : Readable(s)

(* The record that appends keep up to date event by event, that compactions
   rebuild, that the sidecar carries over a restart and that opening may rebuild
   is always the record of the log without the events that an interruption kept
   from being counted (apply_event_to_record, indexed_record_from_events,
   load_or_rebuild_index). *)
IndexAgrees ==
    append.pc # "down" =>
        \A s \in Sessions \ (lost \cup append.prune) :
            index[s] = Indexed(SelectSeq(Events(s), LAMBDA e : e.id \notin uncounted))

(* Retention deletes a session only when MaxSessions others have later events in
   their logs, or when its own last event is too old; an index left behind by an
   interruption is the only thing that can mislead it (select_sessions_to_prune). *)
RetentionJustified ==
    [][\A s \in Sessions :
          logs[s].exists /\ ~logs'[s].exists /\ s \notin lost /\ Logged(s) \cap uncounted = {}
            => LET last(o) == Max(Logged(o) \cup {0})
                   later == {o \in Sessions : last(o) > last(s) \/ o \in lost \cup append.prune}
               IN  issued - last(s) > MaxAge \/ Cardinality(later \ {s}) >= MaxSessions]_storeVars
=============================================================================
