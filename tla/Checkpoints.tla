----------------------------- MODULE Checkpoints ----------------------------
(***************************************************************************)
(* Code checkpoints of one session: the file tools write the workspace and *)
(* then log what they changed (write.rs, edit.rs, patch.rs), and a restore *)
(* works out from that log how the files were before a checkpoint, writes  *)
(* them one by one and logs that in turn (checkpoint_manager.rs); the host *)
(* restores the conversation with the code (session/history.rs).           *)
(*                                                                         *)
(* Tool calls of a session run one after the other and the host restores   *)
(* under the runtime lock, so one job runs at a time.  What writes the     *)
(* same files without a record, at any time, are shell commands, notebook  *)
(* edits, the operator, and children, whose records are of their own       *)
(* session.  A call that fails by itself before it writes changes nothing. *)
(***************************************************************************)
EXTENDS Naturals, Sequences

CONSTANTS
    Paths, Texts,
    Absent,         \* the content of a file that is not there
    MaxRecords, MaxAnchors, MaxUnrecorded       \* bounds

ASSUME CheckpointAssumption ==
    Absent \notin Texts /\ {MaxRecords, MaxAnchors, MaxUnrecorded} \subseteq Nat

Contents == Texts \cup {Absent}
NoAnchor == 0
Modes == {"code", "conversation", "both"}

VARIABLES
    tree,       \* the files
    timeline,   \* the session's CheckpointCreated events
    job,        \* the file tool or restore that runs
    anchor,     \* the first visible message of the turn, NoAnchor between turns
    visible,    \* the messages of the window that may anchor a rollback
    anchors,    \* messages so far
    past,       \* past[i]: the files when the job of timeline[i] began
    starts,     \* starts[a]: the files when message a was written
    dirty,      \* files that changed without a record, and how often that happened
    restored    \* the checkpoint whose restore just ended, or 0

checkpointVars == <<tree, timeline, job, anchor, visible, anchors, past, starts, dirty, restored>>

NoFiles == [p \in {} |-> Absent]
Idle == [kind |-> "idle", todo |-> {}, base |-> NoFiles, want |-> NoFiles,
         index |-> 0, mode |-> "code", seen |-> NoFiles]

CheckpointInit ==
    /\ tree \in [Paths -> Contents]
    /\ timeline = <<>>
    /\ job = Idle
    /\ anchor = NoAnchor
    /\ visible = {}
    /\ anchors = 0
    /\ past = <<>>
    /\ starts = <<>>
    /\ dirty = [files |-> {}, times |-> 0]
    /\ restored = 0

-----------------------------------------------------------------------------
Changes(i, p) == p \in DOMAIN timeline[i].base
Before(i, p) == timeline[i].base[p]
After(i, p) == timeline[i].want[p]

(* desired_state_for_checkpoint: what the last earlier change left, or what the
   first later one found *)
Desired(i, p) ==
    LET earlier == {j \in 1..(i - 1) : Changes(j, p)}
        later == {j \in i..Len(timeline) : Changes(j, p)}
    IN  IF earlier # {} THEN After(CHOOSE j \in earlier : \A k \in earlier : k <= j, p)
        ELSE Before(CHOOSE j \in later : \A k \in later : j <= k, p)

TimelinePaths == UNION {DOMAIN timeline[i].base : i \in DOMAIN timeline}

(* Fault: the last checkpoint of the message, a later edit of the turn. *)
RoundCheckpointLast(a) ==
    LET anchored == {i \in DOMAIN timeline : timeline[i].anchor = a}
    IN  IF anchored = {} THEN 0 ELSE CHOOSE i \in anchored : \A j \in anchored : j <= i

(* history_rollback_rounds: the first checkpoint that message a anchors, or 0 *)
RoundCheckpoint(a) ==
    LET anchored == {i \in DOMAIN timeline : timeline[i].anchor = a}
    IN  IF anchored = {} THEN 0 ELSE CHOOSE i \in anchored : \A j \in anchored : i <= j
-----------------------------------------------------------------------------
Resting == UNCHANGED <<anchor, visible, anchors, starts>>

(* A job begins: base is what it loads of its files, want what it will write. *)
Begins(kind, base, want, i, mode) ==
    /\ job' = [kind |-> kind, todo |-> DOMAIN want, base |-> base, want |-> want,
               index |-> i, mode |-> mode, seen |-> tree]
    /\ restored' = 0
    /\ UNCHANGED <<tree, timeline, past, dirty>> /\ Resting

MayBegin == job = Idle /\ Len(timeline) < MaxRecords

(* write and edit: commit_text_file runs even when the text is the same *)
WriteFile(p, text) ==
    /\ MayBegin /\ anchor # NoAnchor
    /\ Begins("tool", [q \in {p} |-> tree[q]], [q \in {p} |-> text], 0, "code")

(* patch_files, which stages its operations and keeps the files they change *)
PatchFiles(want) ==
    /\ MayBegin /\ anchor # NoAnchor
    /\ DOMAIN want # {} /\ \A p \in DOMAIN want : want[p] # tree[p]
    /\ Begins("tool", [p \in DOMAIN want |-> tree[p]], want, 0, "code")

(* commit_text_file of one of the files of a file tool *)
CommitFile(p) ==
    /\ job.kind = "tool" /\ p \in job.todo
    /\ tree' = [tree EXCEPT ![p] = job.want[p]]
    /\ job' = [job EXCEPT !.todo = @ \ {p}]
    /\ restored' = 0
    /\ UNCHANGED <<timeline, past, dirty>> /\ Resting

(* restore_checkpoint: by the host between turns, which first looks for the
   conversation's boundary, or by the tool of that name in a turn *)
Restore(i, mode) ==
    /\ MayBegin /\ i \in DOMAIN timeline
    /\ anchor = NoAnchor /\ mode # "code" => timeline[i].anchor \in visible
    /\ Begins("restore", NoFiles,
              IF mode = "conversation" THEN NoFiles ELSE [p \in TimelinePaths |-> Desired(i, p)],
              i, mode)

WithFile(p) ==
    [q \in DOMAIN job.base \cup {p} |-> IF q = p THEN tree[p] ELSE job.base[q]]

(* Fault: only files that are still there are written. *)
RestoreFileThere(p) ==
    /\ job.kind = "restore" /\ p \in job.todo
    /\ IF tree[p] \in {job.want[p], Absent}
       THEN UNCHANGED tree /\ job' = [job EXCEPT !.todo = @ \ {p}]
       ELSE /\ tree' = [tree EXCEPT ![p] = job.want[p]]
            /\ job' = [job EXCEPT !.todo = @ \ {p}, !.base = WithFile(p)]
    /\ restored' = 0
    /\ UNCHANGED <<timeline, past, dirty>> /\ Resting

(* The loop of restore_checkpoint: a file that is as desired is skipped. *)
RestoreFile(p) ==
    /\ job.kind = "restore" /\ p \in job.todo
    /\ IF tree[p] = job.want[p]
       THEN UNCHANGED tree /\ job' = [job EXCEPT !.todo = @ \ {p}]
       ELSE /\ tree' = [tree EXCEPT ![p] = job.want[p]]
            /\ job' = [job EXCEPT !.todo = @ \ {p}, !.base = WithFile(p)]
    /\ restored' = 0
    /\ UNCHANGED <<timeline, past, dirty>> /\ Resting

(* The files of the job that differ from what it found. *)
Changed == {p \in DOMAIN job.base \ job.todo : job.base[p] # job.want[p]}

(* append_checkpoint, unless nothing changed; current_turn_boundary gives the
   anchor *)
AppendCheckpoint ==
    LET ps == Changed
    IN  IF ps = {} THEN UNCHANGED <<timeline, past>>
        ELSE /\ timeline' = Append(timeline, [base |-> [p \in ps |-> job.base[p]],
                                              want |-> [p \in ps |-> job.want[p]],
                                              anchor |-> anchor])
             /\ past' = Append(past, job.seen)

(* record_mutation, and the end of restore_checkpoint; the host goes on to the
   conversation, the tool has no more to do in any mode *)
Finish ==
    /\ job.kind \in {"tool", "restore"} /\ job.todo = {}
    /\ AppendCheckpoint
    /\ LET more == job.kind = "restore" /\ anchor = NoAnchor /\ job.mode # "code"
       IN  /\ job' = IF more THEN [job EXCEPT !.kind = "rollback"] ELSE Idle
           /\ restored' = IF job.kind = "restore" /\ job.mode # "conversation" /\ ~more
                          THEN job.index ELSE 0
    /\ UNCHANGED <<tree, dirty>> /\ Resting

(* rollback_visible_history_to_message *)
RollBack ==
    /\ job.kind = "rollback"
    /\ visible' = {a \in visible : a < timeline[job.index].anchor}
    /\ restored' = IF job.mode = "both" THEN job.index ELSE 0
    /\ job' = Idle
    /\ UNCHANGED <<tree, timeline, anchor, anchors, past, starts, dirty>>

-----------------------------------------------------------------------------
Spoils(files) ==
    /\ dirty.times < MaxUnrecorded
    /\ dirty' = [files |-> dirty.files \cup files, times |-> dirty.times + 1]

(* The job ends where it is: a path it may not write, an error of the disk or of
   the store, or the turn is aborted.  What it wrote so far stays. *)
JobFails ==
    /\ job # Idle
    /\ Spoils(IF job.kind = "rollback" THEN {} ELSE Changed)
    /\ job' = Idle
    /\ restored' = 0
    /\ UNCHANGED <<tree, timeline, past>> /\ Resting

(* A file changes without a record: notebook_edit, or any writer but this session. *)
Unrecorded(p, text) ==
    /\ tree[p] # text
    /\ Spoils({p})
    /\ tree' = [tree EXCEPT ![p] = text]
    /\ restored' = 0
    /\ UNCHANGED <<timeline, job, past>> /\ Resting

(* A turn begins with its prompt, and ends. *)
BeginTurn ==
    /\ job = Idle /\ anchor = NoAnchor /\ anchors < MaxAnchors
    /\ anchors' = anchors + 1
    /\ anchor' = anchors'
    /\ visible' = visible \cup {anchors'}
    /\ starts' = Append(starts, tree)
    /\ restored' = 0
    /\ UNCHANGED <<tree, timeline, job, past, dirty>>

EndTurn ==
    /\ job = Idle /\ anchor # NoAnchor
    /\ anchor' = NoAnchor
    /\ UNCHANGED <<tree, timeline, job, visible, anchors, past, starts, dirty, restored>>

(* Compaction: the window is a summary and a tail that begins after message a.
   The summary is a message of the turn it was written in. *)
Compact(a) ==
    /\ job = Idle /\ a \in visible /\ anchors < MaxAnchors
    /\ anchors' = anchors + 1
    /\ visible' = {b \in visible : b > a} \cup {anchors'}
    /\ anchor' = IF anchor \in 1..a THEN anchors' ELSE anchor
    /\ starts' = Append(starts, tree)
    /\ restored' = 0
    /\ UNCHANGED <<tree, timeline, job, past, dirty>>

CheckpointNext ==
    \/ \E p \in Paths : \/ \E text \in Texts : WriteFile(p, text)
                        \/ CommitFile(p) \/ RestoreFile(p)
                        \/ \E text \in Contents : Unrecorded(p, text)
    \/ \E ps \in SUBSET Paths : \E want \in [ps -> Contents] : PatchFiles(want)
    \/ \E i \in DOMAIN timeline, mode \in Modes : Restore(i, mode)
    \/ Finish \/ RollBack \/ JobFails
    \/ BeginTurn \/ EndTurn \/ \E a \in visible : Compact(a)

CheckpointSpec == CheckpointInit /\ [][CheckpointNext]_checkpointVars

-----------------------------------------------------------------------------
FilesOver(contents) == UNION {[ps -> contents] : ps \in SUBSET Paths}

(* The state is of its types, a record names as many files before as after it, and
   a checkpoint never says that a file changed when it did not. *)
CheckpointTypeOK ==
    /\ tree \in [Paths -> Contents]
    /\ \A i \in DOMAIN timeline :
         /\ {timeline[i].base, timeline[i].want} \subseteq FilesOver(Contents)
         /\ DOMAIN timeline[i].base = DOMAIN timeline[i].want
         /\ \A p \in DOMAIN timeline[i].base : Before(i, p) # After(i, p)
         /\ timeline[i].anchor \in 0..anchors
    /\ {job.base, job.want} \subseteq FilesOver(Contents)
    /\ job.todo \subseteq DOMAIN job.want
    /\ job.index \in 0..Len(timeline) /\ job.mode \in Modes
    /\ anchor \in 0..anchors /\ visible \subseteq 1..anchors
    /\ Len(past) = Len(timeline) /\ Len(starts) = anchors
    /\ dirty.files \subseteq Paths
    /\ restored \in 0..Len(timeline)

(* A restore that ended well leaves every such file, and the files no checkpoint
   names, as it was at the checkpoint; so restoring the checkpoint that a restore
   leaves behind undoes it. *)
RestoreReaches ==
    restored # 0 => \A p \in Paths \ dirty.files : tree[p] = past[restored][p]

(* A round of the rollback overlay restores to the first checkpoint its message
   anchors: the files as they were when that message was written, so a turn with
   several edits is taken back whole. *)
RoundRewindsTurn ==
    \A a \in 1..anchors, p \in TimelinePaths \ dirty.files :
        RoundCheckpoint(a) # 0 => Desired(RoundCheckpoint(a), p) = starts[a][p]
=============================================================================
