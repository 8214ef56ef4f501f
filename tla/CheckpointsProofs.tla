-------------------------- MODULE CheckpointsProofs -------------------------
(***************************************************************************)
(* The checkpoints of the file tools, for any files, messages and          *)
(* timelines: a restore leaves the files as they were. Facts about         *)
(* timelines of any length are proved by induction, in the form of a least *)
(* number that fails.                                                      *)
(***************************************************************************)
EXTENDS Checkpoints, WellFoundedInduction, TLAPS

(* A set of numbers that is not empty has a least one: what the inductions below use,
   over the least number they would fail for. *)
LEMMA NatMin ==
    ASSUME NEW T \in SUBSET Nat, T # {}
    PROVE  \E m \in T : \A k \in T : m <= k
<1>1. IsWellFoundedOn(OpToRel(<, Nat), Nat)  BY NatLessThanWellFounded, Zenon
<1>2. PICK x \in T : \A y \in T : ~(<<y, x>> \in OpToRel(<, Nat))
  BY <1>1, WFMin, Zenon
<1>3. \A y \in T : ~(y < x)
  BY <1>2, Zenon DEF OpToRel
<1> QED BY <1>3

(* A bounded set of numbers that is not empty has a greatest one. *)
LEMMA NatMax ==
    ASSUME NEW T \in SUBSET Nat, T # {}, NEW b \in Nat, \A k \in T : k <= b
    PROVE  \E m \in T : \A k \in T : k <= m
<1> DEFINE Above == {n \in Nat : \A k \in T : k <= n}
<1>1. PICK m \in Above : \A n \in Above : m <= n
  <2>1. b \in Above /\ Above \in SUBSET Nat
    OBVIOUS
  <2> HIDE DEF Above
  <2> QED BY <2>1, NatMin
<1>2. m \in T
  <2> SUFFICES ASSUME m \notin T PROVE FALSE
    OBVIOUS
  <2>1. \A k \in T : k < m
    BY <1>1
  <2>2. m # 0
    <3>1. PICK k \in T : k \in Nat
      BY Zenon
    <3> QED BY <2>1, <3>1
  <2>3. m - 1 \in Above
    BY <2>1, <2>2
  <2> QED BY <2>3, <1>1
<1> QED BY <1>1, <1>2

(* Some files with their contents, the records of the timeline, and the jobs of the tools
   and the restores. *)
Files == FilesOver(Contents)
Records == [base : Files, want : Files, anchor : Nat]
Jobs == [kind : {"idle", "tool", "restore", "rollback"}, todo : SUBSET Paths,
         base : Files, want : Files, index : Nat, mode : Modes, seen : Files]

(* The files, the timeline and the job are of their shapes. *)
CheckpointShape ==
    /\ tree \in [Paths -> Contents]
    /\ timeline \in Seq(Records) /\ past \in Seq([Paths -> Contents])
    /\ starts \in Seq([Paths -> Contents])
    /\ job \in Jobs
    /\ anchor \in Nat /\ anchors \in Nat /\ visible \in SUBSET Nat /\ restored \in Nat
    /\ dirty \in [files : SUBSET Paths, times : Nat]

(* A job that may change files is on; the files that only recorded jobs have changed; and
   those files as the next record will find them. *)
Working == job.kind \in {"tool", "restore"}
Clean == Paths \ dirty.files
Baseline == IF Working THEN job.seen ELSE tree

(* What a job holds when: the files it found, those it is to write, its record. *)
JobFits ==
    /\ job.kind = "idle" => job = Idle
    /\ Working => job.seen \in [Paths -> Contents]
    /\ job.kind = "tool" => DOMAIN job.base = DOMAIN job.want
    /\ job.kind = "restore" => DOMAIN job.base \subseteq DOMAIN job.want \ job.todo
    /\ job.kind \in {"restore", "rollback"} => job.index \in DOMAIN timeline

(* A clean file is what the job wants once it has been written and what the job found
   until then. *)
JobKeeps == Working => \A p \in Clean :
    /\ tree[p] = IF p \in DOMAIN job.want \ job.todo THEN job.want[p] ELSE job.seen[p]
    /\ p \in DOMAIN job.base => job.base[p] = job.seen[p]
    /\ job.kind = "restore" /\ p \in DOMAIN job.want \ (job.todo \cup DOMAIN job.base)
          => job.want[p] = job.seen[p]

(* The files after record i; each record leads from the files before it to the files after. *)
Follows(i) == IF i = Len(timeline) THEN Baseline ELSE past[i + 1]
RecordsChain == \A i \in DOMAIN timeline, p \in Clean :
    IF Changes(i, p) THEN past[i][p] = Before(i, p) /\ Follows(i)[p] = After(i, p)
    ELSE Follows(i)[p] = past[i][p]

(* A restore is going to leave the files as they were before its record. *)
RestoreAims ==
    /\ job.kind = "restore" /\ job.mode # "conversation" =>
         \A p \in Clean : past[job.index][p] = IF p \in DOMAIN job.want THEN job.want[p] ELSE job.seen[p]
    /\ job.kind = "rollback" /\ job.mode = "both" =>
         \A p \in Clean : past[job.index][p] = tree[p]

(* Record i is the first of a's round; a round starts with the files a's message found. *)
FirstOf(a, i) == timeline[i].anchor = a /\ \A j \in 1..(i - 1) : timeline[j].anchor # a
RoundsStart == \A a \in 1..anchors, p \in Clean :
    /\ \A i \in DOMAIN timeline : FirstOf(a, i) => past[i][p] = starts[a][p]
    /\ anchor = a /\ (\A i \in DOMAIN timeline : timeline[i].anchor # a)
          => Baseline[p] = starts[a][p]

(* Records change what they list, and everything refers to records and messages that exist. *)
CheckpointFits ==
    /\ \A i \in DOMAIN timeline :
         /\ DOMAIN timeline[i].base = DOMAIN timeline[i].want
         /\ \A p \in DOMAIN timeline[i].base : Before(i, p) # After(i, p)
         /\ timeline[i].anchor <= anchors
    /\ job.todo \subseteq DOMAIN job.want
    /\ job.index <= Len(timeline) /\ restored <= Len(timeline)
    /\ anchor <= anchors /\ visible \subseteq 1..anchors
    /\ Len(past) = Len(timeline) /\ Len(starts) = anchors

(* RestoreReaches with what makes it inductive. *)
CheckpointInv ==
    /\ CheckpointShape /\ CheckpointFits /\ JobFits /\ JobKeeps
    /\ RecordsChain /\ RestoreAims /\ RoundsStart /\ RestoreReaches
-----------------------------------------------------------------------------
(* The files before record i, and after the last record. *)
StateAt(i) == IF i = Len(timeline) + 1 THEN Baseline ELSE past[i]

(* A file no record between j and k changes is the same before both. *)
LEMMA Untouched ==
    ASSUME CheckpointInv, NEW p \in Clean, NEW j \in 1..(Len(timeline) + 1),
           NEW k \in j..(Len(timeline) + 1), \A n \in j..(k - 1) : ~Changes(n, p)
    PROVE  StateAt(k)[p] = StateAt(j)[p]
<1> DEFINE Bad == {n \in j..k : StateAt(n)[p] # StateAt(j)[p]}
<1> SUFFICES ASSUME k \in Bad PROVE FALSE
  OBVIOUS
<1>0. Len(timeline) \in Nat /\ DOMAIN timeline = 1..Len(timeline) /\ j \in Nat /\ k \in Nat
  BY DEF CheckpointInv, CheckpointShape
<1>1. PICK m \in Bad : \A n \in Bad : m <= n
  <2>1. Bad \in SUBSET Nat /\ Bad # {}
    BY <1>0
  <2> HIDE DEF Bad
  <2> QED BY <2>1, NatMin
<1>2. m # j /\ m \in j..k
  OBVIOUS
<1>3. m - 1 \in j..k /\ m - 1 \in DOMAIN timeline /\ m - 1 \in j..(k - 1)
  BY <1>0, <1>2
<1>4. StateAt(m - 1)[p] = StateAt(j)[p]
  BY <1>3, <1>1, <1>0
<1>5. StateAt(m - 1) = past[m - 1] /\ StateAt(m) = Follows(m - 1)
  BY <1>3, <1>0 DEF StateAt, Follows
<1>6. Follows(m - 1)[p] = past[m - 1][p]
  BY <1>3 DEF CheckpointInv, RecordsChain
<1> QED BY <1>1, <1>4, <1>5, <1>6

(* desired_state_for_path answers what the file was before record i: the result of the
   last record before i that changes it, or else what the first from i on found. *)
LEMMA DesiredIsPast ==
    ASSUME CheckpointInv, NEW p \in Clean, p \in TimelinePaths, NEW i \in DOMAIN timeline
    PROVE  Desired(i, p) = past[i][p]
<1> DEFINE earlier == {j \in 1..(i - 1) : Changes(j, p)}
           later == {j \in i..Len(timeline) : Changes(j, p)}
<1>0. Len(timeline) \in Nat /\ DOMAIN timeline = 1..Len(timeline) /\ i \in Nat
  BY DEF CheckpointInv, CheckpointShape
<1>1. CASE earlier # {}
  <2>1. \E m \in earlier : \A k \in earlier : k <= m
    <3>1. earlier \in SUBSET Nat /\ \A k \in earlier : k <= i
      BY <1>0
    <3> HIDE DEF earlier
    <3> QED BY <3>1, <1>1, <1>0, NatMax, Zenon
  <2> DEFINE j == CHOOSE m \in earlier : \A k \in earlier : k <= m
  <2>2. j \in earlier /\ \A k \in earlier : k <= j
    BY <2>1
  <2>3. Desired(i, p) = After(j, p)
    BY <1>1 DEF Desired
  <2> HIDE DEF j
  <2>4. j \in DOMAIN timeline /\ Changes(j, p) /\ j < i
    BY <2>2, <1>0
  <2>5. Follows(j)[p] = After(j, p)
    BY <2>4 DEF CheckpointInv, RecordsChain
  <2>6. StateAt(j + 1) = Follows(j) /\ StateAt(i) = past[i]
    BY <2>4, <1>0 DEF StateAt, Follows
  <2>7. \A n \in (j + 1)..(i - 1) : ~Changes(n, p)
    BY <2>2, <1>0
  <2>8. StateAt(i)[p] = StateAt(j + 1)[p]
    <3>1. j + 1 \in 1..(Len(timeline) + 1) /\ i \in (j + 1)..(Len(timeline) + 1)
      BY <2>4, <1>0
    <3> QED BY <3>1, <2>7, Untouched
  <2> QED BY <2>3, <2>5, <2>6, <2>8
<1>2. CASE earlier = {}
  <2>0. PICK n \in DOMAIN timeline : Changes(n, p)
    BY DEF TimelinePaths, Changes
  <2>00. later # {} /\ later \in SUBSET Nat
    BY <2>0, <1>2, <1>0
  <2>1. \E m \in later : \A k \in later : m <= k
    <3> HIDE DEF later
    <3> QED BY <2>00, NatMin
  <2> DEFINE j == CHOOSE m \in later : \A k \in later : m <= k
  <2>2. j \in later /\ \A k \in later : j <= k
    BY <2>1
  <2>3. Desired(i, p) = Before(j, p)
    BY <1>2 DEF Desired
  <2> HIDE DEF j
  <2>4. j \in DOMAIN timeline /\ Changes(j, p) /\ i <= j
    BY <2>2, <1>0
  <2>5. past[j][p] = Before(j, p)
    BY <2>4 DEF CheckpointInv, RecordsChain
  <2>6. StateAt(j) = past[j] /\ StateAt(i) = past[i]
    BY <2>4, <1>0 DEF StateAt
  <2>7. \A k \in i..(j - 1) : ~Changes(k, p)
    BY <2>2, <2>4, <1>0
  <2>8. StateAt(j)[p] = StateAt(i)[p]
    BY <2>7, <2>4, <1>0, Untouched
  <2> QED BY <2>3, <2>5, <2>6, <2>8
<1> QED BY <1>1, <1>2

(* A file no record changes is what it was before any of them. *)
LEMMA UntouchedIsPast ==
    ASSUME CheckpointInv, NEW p \in Clean, p \notin TimelinePaths, NEW i \in DOMAIN timeline
    PROVE  Baseline[p] = past[i][p]
<1>0. Len(timeline) \in Nat /\ DOMAIN timeline = 1..Len(timeline) /\ i \in Nat
  BY DEF CheckpointInv, CheckpointShape
<1>1. \A n \in i..Len(timeline) : ~Changes(n, p)
  BY <1>0 DEF TimelinePaths, Changes
<1>2. StateAt(Len(timeline) + 1)[p] = StateAt(i)[p]
  BY <1>0, <1>1, Untouched
<1> QED BY <1>2, <1>0 DEF StateAt
-----------------------------------------------------------------------------
(* A map from some paths to contents is a set of files. *)
LEMMA FilesOf ==
    ASSUME NEW ps \in SUBSET Paths, NEW f \in [ps -> Contents]
    PROVE  f \in Files
BY DEF Files, FilesOver

(* A set of files is a map from some paths to contents. *)
LEMMA OfFiles ==
    ASSUME NEW f \in Files
    PROVE  DOMAIN f \in SUBSET Paths /\ f \in [DOMAIN f -> Contents]
BY DEF Files, FilesOver

(* No job is a job of the idle kind. *)
LEMMA IdleIsJob ==
    /\ Idle \in Jobs /\ Idle.kind = "idle" /\ Idle.todo = {} /\ DOMAIN Idle.want = {}
    /\ Idle.index = 0
<1>1. NoFiles \in Files /\ DOMAIN NoFiles = {}
  <2>1. NoFiles \in [{} -> Contents]
    BY DEF NoFiles
  <2> QED BY <2>1, FilesOf, Zenon
<1> QED BY <1>1 DEF Idle, Jobs, Modes

(* The records chain as before when neither they nor the clean files move. *)
LEMMA ChainStays ==
    ASSUME RecordsChain, UNCHANGED <<timeline, past>>,
           \A p \in Clean' : p \in Clean /\ Baseline'[p] = Baseline[p]
    PROVE  RecordsChain'
BY DEF RecordsChain, Follows, Changes, Before, After

(* The rounds start as before when neither they nor the clean files move. *)
LEMMA RoundsStay ==
    ASSUME RoundsStart, UNCHANGED <<timeline, past, starts, anchor, anchors>>,
           \A p \in Clean' : p \in Clean /\ Baseline'[p] = Baseline[p]
    PROVE  RoundsStart'
BY DEF RoundsStart, FirstOf

(* A job begins: a tool that has read the files it is going to write, or a restore with
   the files it is going to set. *)
LEMMA BeginKeeps ==
    ASSUME CheckpointInv, job = Idle,
           NEW kind \in {"tool", "restore"}, NEW base \in Files, NEW want \in Files,
           NEW i \in Nat, i <= Len(timeline), NEW mode \in Modes,
           Begins(kind, base, want, i, mode),
           kind = "tool" => DOMAIN base = DOMAIN want /\ \A p \in DOMAIN base : base[p] = tree[p],
           kind = "restore" =>
              /\ DOMAIN base = {} /\ i \in DOMAIN timeline
              /\ mode # "conversation" =>
                   \A p \in Clean : past[i][p] = IF p \in DOMAIN want THEN want[p] ELSE tree[p]
    PROVE  CheckpointInv'
<1> USE DEF CheckpointInv
<1>0. job' = [kind |-> kind, todo |-> DOMAIN want, base |-> base, want |-> want,
              index |-> i, mode |-> mode, seen |-> tree]
      /\ restored' = 0
      /\ UNCHANGED <<tree, timeline, past, dirty, anchor, visible, anchors, starts>>
  BY DEF Begins, Resting
<1>1. tree \in Files /\ DOMAIN want \in SUBSET Paths /\ tree \in [Paths -> Contents]
  BY OfFiles, FilesOf, Zenon DEF CheckpointShape
<1>2. job' \in Jobs
  BY <1>0, <1>1 DEF Jobs
<1>3. CheckpointShape'
  BY <1>0, <1>2 DEF CheckpointShape
<1>4. CheckpointFits'
  BY <1>0 DEF CheckpointFits, CheckpointShape, Before, After
<1>5. ~Working /\ Working' /\ Clean' = Clean /\ Baseline' = Baseline
  BY <1>0, IdleIsJob DEF Working, Clean, Baseline
<1>6. JobFits'
  BY <1>0, <1>1 DEF JobFits, Working
<1>7. JobKeeps'
  BY <1>0, <1>5 DEF JobKeeps, Clean
<1>8. RecordsChain' /\ RoundsStart'
  BY <1>0, <1>5, ChainStays, RoundsStay
<1>9. RestoreAims'
  BY <1>0, <1>5 DEF RestoreAims
<1>10. RestoreReaches'
  BY <1>0 DEF RestoreReaches
<1> QED BY <1>3, <1>4, <1>6, <1>7, <1>8, <1>9, <1>10

(* write and edit begin with one file. *)
LEMMA WriteFileKeeps ==
    ASSUME CheckpointInv, NEW p \in Paths, NEW text \in Texts, WriteFile(p, text)
    PROVE  CheckpointInv'
<1> DEFINE base == [q \in {p} |-> tree[q]]
           want == [q \in {p} |-> text]
<1>1. tree \in [Paths -> Contents] /\ text \in Contents
  BY DEF CheckpointInv, CheckpointShape, Contents
<1>2. base \in Files /\ want \in Files
  <2>1. base \in [{p} -> Contents] /\ want \in [{p} -> Contents]
    BY <1>1
  <2> HIDE DEF base, want
  <2> QED BY <2>1, FilesOf
<1>3. job = Idle /\ Begins("tool", base, want, 0, "code")
  BY DEF WriteFile, MayBegin
<1>4. DOMAIN base = DOMAIN want /\ \A q \in DOMAIN base : base[q] = tree[q]
  OBVIOUS
<1>5. "code" \in Modes /\ Len(timeline) \in Nat
  BY DEF Modes, CheckpointInv, CheckpointShape
<1> HIDE DEF base, want
<1> QED BY <1>2, <1>3, <1>4, <1>5, BeginKeeps

(* A patch begins with several files. *)
LEMMA PatchFilesKeeps ==
    ASSUME CheckpointInv, NEW ps \in SUBSET Paths, NEW want \in [ps -> Contents], PatchFiles(want)
    PROVE  CheckpointInv'
<1> DEFINE base == [q \in DOMAIN want |-> tree[q]]
<1>1. tree \in [Paths -> Contents]
  BY DEF CheckpointInv, CheckpointShape
<1>2. base \in Files /\ want \in Files
  <2>1. base \in [ps -> Contents]
    BY <1>1
  <2> HIDE DEF base
  <2> QED BY <2>1, FilesOf
<1>3. job = Idle /\ Begins("tool", base, want, 0, "code")
  BY DEF PatchFiles, MayBegin
<1>4. DOMAIN base = DOMAIN want /\ \A q \in DOMAIN base : base[q] = tree[q]
  OBVIOUS
<1>5. "code" \in Modes /\ Len(timeline) \in Nat
  BY DEF Modes, CheckpointInv, CheckpointShape
<1> HIDE DEF base
<1> QED BY <1>2, <1>3, <1>4, <1>5, BeginKeeps

(* desired_state_for_path answers with a content a file can have. *)
LEMMA DesiredIsContent ==
    ASSUME CheckpointInv, NEW p \in TimelinePaths, NEW i \in DOMAIN timeline
    PROVE  Desired(i, p) \in Contents
<1> DEFINE earlier == {j \in 1..(i - 1) : Changes(j, p)}
           later == {j \in i..Len(timeline) : Changes(j, p)}
<1>0. Len(timeline) \in Nat /\ DOMAIN timeline = 1..Len(timeline) /\ i \in Nat
  BY DEF CheckpointInv, CheckpointShape
<1>a. \A j \in DOMAIN timeline : Changes(j, p) => Before(j, p) \in Contents /\ After(j, p) \in Contents
  <2> SUFFICES ASSUME NEW j \in DOMAIN timeline, Changes(j, p)
               PROVE  Before(j, p) \in Contents /\ After(j, p) \in Contents
    OBVIOUS
  <2>1. timeline[j] \in Records
    BY DEF CheckpointInv, CheckpointShape
  <2>2. timeline[j].base \in Files /\ timeline[j].want \in Files
    BY <2>1 DEF Records
  <2>3. p \in DOMAIN timeline[j].base /\ p \in DOMAIN timeline[j].want
    BY DEF Changes, CheckpointInv, CheckpointFits
  <2> QED BY <2>2, <2>3, OfFiles DEF Before, After
<1>1. CASE earlier # {}
  <2>1. \E m \in earlier : \A k \in earlier : k <= m
    <3>1. earlier \in SUBSET Nat /\ \A k \in earlier : k <= i
      BY <1>0
    <3> HIDE DEF earlier
    <3> QED BY <3>1, <1>1, <1>0, NatMax, Zenon
  <2> DEFINE j == CHOOSE m \in earlier : \A k \in earlier : k <= m
  <2>2. j \in earlier
    BY <2>1
  <2>3. Desired(i, p) = After(j, p)
    BY <1>1 DEF Desired
  <2> HIDE DEF j
  <2>4. j \in DOMAIN timeline /\ Changes(j, p)
    BY <2>2, <1>0
  <2> QED BY <2>3, <2>4, <1>a
<1>2. CASE earlier = {}
  <2>0. PICK n \in DOMAIN timeline : Changes(n, p)
    BY DEF TimelinePaths, Changes
  <2>00. later # {} /\ later \in SUBSET Nat
    BY <2>0, <1>2, <1>0
  <2>1. \E m \in later : \A k \in later : m <= k
    <3> HIDE DEF later
    <3> QED BY <2>00, NatMin
  <2> DEFINE j == CHOOSE m \in later : \A k \in later : m <= k
  <2>2. j \in later
    BY <2>1
  <2>3. Desired(i, p) = Before(j, p)
    BY <1>2 DEF Desired
  <2> HIDE DEF j
  <2>4. j \in DOMAIN timeline /\ Changes(j, p)
    BY <2>2, <1>0
  <2> QED BY <2>3, <2>4, <1>a
<1> QED BY <1>1, <1>2

(* restore_checkpoint begins, with the desired state of every path of the timeline. *)
LEMMA RestoreKeeps ==
    ASSUME CheckpointInv, NEW i \in DOMAIN timeline, NEW mode \in Modes, Restore(i, mode)
    PROVE  CheckpointInv'
<1> DEFINE want == IF mode = "conversation" THEN NoFiles ELSE [p \in TimelinePaths |-> Desired(i, p)]
<1>1. TimelinePaths \in SUBSET Paths
  <2> SUFFICES ASSUME NEW j \in DOMAIN timeline PROVE DOMAIN timeline[j].base \in SUBSET Paths
    BY DEF TimelinePaths
  <2>1. timeline[j] \in Records
    BY DEF CheckpointInv, CheckpointShape
  <2>2. timeline[j].base \in Files
    BY <2>1 DEF Records
  <2> QED BY <2>2, OfFiles
<1>2. NoFiles \in Files /\ DOMAIN NoFiles = {}
  <2>1. NoFiles \in [{} -> Contents]
    BY DEF NoFiles
  <2> QED BY <2>1, FilesOf, Zenon
<1>3. want \in Files
  <2>1. CASE mode = "conversation"
    BY <2>1, <1>2
  <2>2. CASE mode # "conversation"
    <3>1. [p \in TimelinePaths |-> Desired(i, p)] \in [TimelinePaths -> Contents]
      BY DesiredIsContent
    <3> QED BY <3>1, <1>1, <2>2, FilesOf
  <2> QED BY <2>1, <2>2
<1>4. job = Idle /\ Begins("restore", NoFiles, want, i, mode)
  BY DEF Restore, MayBegin
<1>5. Baseline = tree
  BY <1>4, IdleIsJob DEF Baseline, Working
<1>6. ASSUME mode # "conversation", NEW p \in Clean
      PROVE  past[i][p] = IF p \in DOMAIN want THEN want[p] ELSE tree[p]
  <2>1. DOMAIN want = TimelinePaths /\ \A q \in TimelinePaths : want[q] = Desired(i, q)
    BY <1>6
  <2> HIDE DEF want
  <2>2. CASE p \in TimelinePaths
    BY <2>1, <2>2, DesiredIsPast
  <2>3. CASE p \notin TimelinePaths
    BY <2>1, <2>3, <1>5, UntouchedIsPast
  <2> QED BY <2>2, <2>3
<1>7. i \in Nat /\ i <= Len(timeline) /\ Len(timeline) \in Nat
  BY DEF CheckpointInv, CheckpointShape
<1> HIDE DEF want
<1> QED BY <1>2, <1>3, <1>4, <1>6, <1>7, BeginKeeps, Zenon

(* A tool commits one of its files. *)
LEMMA CommitFileKeeps ==
    ASSUME CheckpointInv, NEW p \in Paths, CommitFile(p)
    PROVE  CheckpointInv'
<1> USE DEF CheckpointInv
<1>0. /\ job.kind = "tool" /\ p \in job.todo
      /\ tree' = [tree EXCEPT ![p] = job.want[p]]
      /\ job' = [job EXCEPT !.todo = @ \ {p}]
      /\ restored' = 0
      /\ UNCHANGED <<timeline, past, dirty, anchor, visible, anchors, starts>>
  BY DEF CommitFile, Resting
<1>1. job \in Jobs /\ p \in DOMAIN job.want /\ job.want[p] \in Contents
  <2>1. job \in Jobs /\ p \in DOMAIN job.want
    BY <1>0, Zenon DEF CheckpointShape, CheckpointFits
  <2>2. job.want \in Files
    BY <2>1 DEF Jobs
  <2> QED BY <2>1, <2>2, OfFiles, Zenon
<1>2. /\ job' \in Jobs /\ job'.todo = job.todo \ {p}
      /\ job'.kind = job.kind /\ job'.base = job.base /\ job'.want = job.want
      /\ job'.index = job.index /\ job'.mode = job.mode /\ job'.seen = job.seen
  BY <1>0, <1>1, Zenon DEF Jobs
<1>3. /\ tree \in [Paths -> Contents] /\ tree' \in [Paths -> Contents]
      /\ \A q \in Paths : tree'[q] = IF q = p THEN job.want[p] ELSE tree[q]
  BY <1>0, <1>1, Zenon DEF CheckpointShape
<1>4. CheckpointShape'
  BY <1>0, <1>2, <1>3, Zenon DEF CheckpointShape
<1>5. CheckpointFits'
  BY <1>0, <1>2 DEF CheckpointFits, CheckpointShape, Before, After
<1>6. Working /\ Working' /\ Clean' = Clean /\ Baseline' = Baseline /\ Clean \subseteq Paths
  BY <1>0, <1>2 DEF Working, Clean, Baseline
<1>7. JobFits'
  BY <1>0, <1>2, <1>6 DEF JobFits
<1>8. JobKeeps'
  <2> SUFFICES ASSUME NEW q \in Clean
               PROVE  /\ tree'[q] = IF q \in DOMAIN job'.want \ job'.todo THEN job'.want[q] ELSE job'.seen[q]
                      /\ q \in DOMAIN job'.base => job'.base[q] = job'.seen[q]
    BY <1>0, <1>2, <1>6 DEF JobKeeps
  <2>1. /\ tree[q] = IF q \in DOMAIN job.want \ job.todo THEN job.want[q] ELSE job.seen[q]
        /\ q \in DOMAIN job.base => job.base[q] = job.seen[q]
    BY <1>6 DEF JobKeeps
  <2> QED BY <1>0, <1>1, <1>2, <1>3, <1>6, <2>1
<1>9. RecordsChain' /\ RoundsStart'
  BY <1>0, <1>6, ChainStays, RoundsStay
<1>10. RestoreAims' /\ RestoreReaches'
  BY <1>0, <1>2 DEF RestoreAims, RestoreReaches
<1> QED BY <1>4, <1>5, <1>7, <1>8, <1>9, <1>10

(* A restore sets one file, which it records as changed when it differed. *)
LEMMA RestoreFileKeeps ==
    ASSUME CheckpointInv, NEW p \in Paths, RestoreFile(p)
    PROVE  CheckpointInv'
<1> USE DEF CheckpointInv
<1>0. /\ job.kind = "restore" /\ p \in job.todo
      /\ restored' = 0
      /\ UNCHANGED <<timeline, past, dirty, anchor, visible, anchors, starts>>
  BY DEF RestoreFile, Resting
<1>1. /\ job \in Jobs /\ p \in DOMAIN job.want /\ job.want[p] \in Contents
      /\ tree \in [Paths -> Contents] /\ job.base \in Files /\ p \notin DOMAIN job.base
  <2>1. job \in Jobs /\ p \in DOMAIN job.want /\ tree \in [Paths -> Contents]
    BY <1>0 DEF CheckpointShape, CheckpointFits
  <2>2. job.want \in Files /\ job.base \in Files
    BY <2>1 DEF Jobs
  <2>3. p \notin DOMAIN job.base
    BY <1>0 DEF JobFits
  <2> QED BY <2>1, <2>2, <2>3, OfFiles, Zenon
<1>2. /\ WithFile(p) \in Files /\ DOMAIN WithFile(p) = DOMAIN job.base \cup {p}
      /\ WithFile(p)[p] = tree[p] /\ \A q \in DOMAIN job.base : WithFile(p)[q] = job.base[q]
  <2>1. DOMAIN job.base \in SUBSET Paths /\ job.base \in [DOMAIN job.base -> Contents]
    BY <1>1, OfFiles
  <2>2. WithFile(p) \in [DOMAIN job.base \cup {p} -> Contents]
    BY <2>1, <1>1 DEF WithFile
  <2>3. WithFile(p) \in Files
    BY <2>1, <2>2, FilesOf
  <2> QED BY <2>1, <2>3, <1>1, Zenon DEF WithFile
<1>3. /\ job' \in Jobs /\ job'.todo = job.todo \ {p}
      /\ job'.kind = job.kind /\ job'.want = job.want
      /\ job'.index = job.index /\ job'.mode = job.mode /\ job'.seen = job.seen
      /\ job'.base = IF tree[p] = job.want[p] THEN job.base ELSE WithFile(p)
  <2>1. CASE tree[p] = job.want[p]
    <3>1. job' = [job EXCEPT !.todo = @ \ {p}]
      BY <2>1 DEF RestoreFile
    <3> QED BY <3>1, <2>1, <1>1 DEF Jobs
  <2>2. CASE tree[p] # job.want[p]
    <3>1. job' = [job EXCEPT !.todo = @ \ {p}, !.base = WithFile(p)]
      BY <2>2 DEF RestoreFile
    <3> QED BY <3>1, <2>2, <1>1, <1>2, Zenon DEF Jobs
  <2> QED BY <2>1, <2>2, Zenon
<1>4. /\ tree' \in [Paths -> Contents]
      /\ \A q \in Paths : tree'[q] = IF q = p THEN job.want[p] ELSE tree[q]
  BY <1>1 DEF RestoreFile
<1>5. CheckpointShape'
  BY <1>0, <1>3, <1>4 DEF CheckpointShape
<1>6. CheckpointFits'
  BY <1>0, <1>3 DEF CheckpointFits, CheckpointShape, Before, After
<1>7. Working /\ Working' /\ Clean' = Clean /\ Baseline' = Baseline /\ Clean \subseteq Paths
  BY <1>0, <1>3 DEF Working, Clean, Baseline
<1>8. JobFits'
  BY <1>0, <1>1, <1>2, <1>3, <1>7 DEF JobFits, CheckpointFits
<1>9. JobKeeps'
  <2> SUFFICES ASSUME NEW q \in Clean
               PROVE  /\ tree'[q] = IF q \in DOMAIN job'.want \ job'.todo THEN job'.want[q] ELSE job'.seen[q]
                      /\ q \in DOMAIN job'.base => job'.base[q] = job'.seen[q]
                      /\ q \in DOMAIN job'.want \ (job'.todo \cup DOMAIN job'.base)
                            => job'.want[q] = job'.seen[q]
    BY <1>0, <1>3, <1>7 DEF JobKeeps
  <2>1. /\ tree[q] = IF q \in DOMAIN job.want \ job.todo THEN job.want[q] ELSE job.seen[q]
        /\ q \in DOMAIN job.base => job.base[q] = job.seen[q]
        /\ q \in DOMAIN job.want \ (job.todo \cup DOMAIN job.base) => job.want[q] = job.seen[q]
    BY <1>0, <1>7, SMTT(30) DEF JobKeeps
  <2>2. CASE q = p
    BY <1>0, <1>1, <1>2, <1>3, <1>4, <1>7, <2>1, <2>2, SMTT(30)
  <2>3. CASE q # p
    BY <1>0, <1>1, <1>2, <1>3, <1>4, <1>7, <2>1, <2>3, SMTT(30)
  <2> QED BY <2>2, <2>3, SMTT(30)
<1>10. RecordsChain' /\ RoundsStart'
  BY <1>0, <1>7, ChainStays, RoundsStay, SMTT(30)
<1>11. RestoreAims' /\ RestoreReaches'
  BY <1>0, <1>3, <1>7 DEF RestoreAims, RestoreReaches
<1> QED BY <1>5, <1>6, <1>8, <1>9, <1>10, <1>11

(* The conversation is rolled back after the files. *)
LEMMA RollBackKeeps ==
    ASSUME CheckpointInv, RollBack
    PROVE  CheckpointInv'
<1> USE DEF CheckpointInv
<1>0. /\ job.kind = "rollback" /\ job' = Idle
      /\ visible' = {a \in visible : a < timeline[job.index].anchor}
      /\ restored' = IF job.mode = "both" THEN job.index ELSE 0
      /\ UNCHANGED <<tree, timeline, past, dirty, anchor, anchors, starts>>
  BY DEF RollBack
<1>1. job \in Jobs /\ job.index \in Nat
  BY DEF CheckpointShape, Jobs
<1>2. CheckpointShape'
  BY <1>0, <1>1, IdleIsJob, Zenon DEF CheckpointShape
<1>3. CheckpointFits'
  <2>1. restored' <= Len(timeline') /\ job'.index <= Len(timeline') /\ job'.todo \subseteq DOMAIN job'.want
    BY <1>0, <1>1, IdleIsJob DEF CheckpointFits, CheckpointShape
  <2>2. visible' \subseteq 1..anchors'
    BY <1>0, Zenon DEF CheckpointFits
  <2> QED BY <1>0, <2>1, <2>2 DEF CheckpointFits, Before, After
<1>4. ~Working /\ ~Working' /\ Clean' = Clean /\ Baseline' = Baseline
  BY <1>0, IdleIsJob DEF Working, Clean, Baseline
<1>5. JobFits' /\ JobKeeps'
  BY <1>0, <1>4, IdleIsJob DEF JobFits, JobKeeps
<1>6. RecordsChain' /\ RoundsStart'
  BY <1>0, <1>4, ChainStays, RoundsStay
<1>7. RestoreAims'
  BY <1>0, IdleIsJob DEF RestoreAims
<1>8. RestoreReaches'
  BY <1>0 DEF RestoreReaches, RestoreAims, Clean
<1> QED BY <1>2, <1>3, <1>5, <1>6, <1>7, <1>8

(* A file the job has not changed is as the job found it. *)
LEMMA UnchangedIsSeen ==
    ASSUME CheckpointInv, Working, NEW p \in Clean, p \notin Changed
    PROVE  tree[p] = job.seen[p]
BY DEF CheckpointInv, JobFits, JobKeeps, Changed, Working

(* A job fails: what it has changed so far is in no record. *)
LEMMA JobFailsKeeps ==
    ASSUME CheckpointInv, JobFails
    PROVE  CheckpointInv'
<1> USE DEF CheckpointInv
<1>0. /\ job' = Idle /\ restored' = 0
      /\ dirty' = [files |-> dirty.files \cup (IF job.kind = "rollback" THEN {} ELSE Changed),
                   times |-> dirty.times + 1]
      /\ UNCHANGED <<tree, timeline, past, anchor, visible, anchors, starts>>
  BY DEF JobFails, Resting, Spoils
<1>1. Changed \in SUBSET Paths
  <2>1. job.base \in Files
    BY DEF CheckpointShape, Jobs
  <2> QED BY <2>1, OfFiles DEF Changed
<1>2. CheckpointShape'
  <2>1. dirty' \in [files : SUBSET Paths, times : Nat]
    BY <1>0, <1>1 DEF CheckpointShape
  <2> QED BY <2>1, <1>0, IdleIsJob DEF CheckpointShape
<1>3. CheckpointFits'
  BY <1>0, IdleIsJob DEF CheckpointFits, CheckpointShape, Before, After
<1>4. ~Working' /\ Baseline' = tree
  BY <1>0, IdleIsJob, Zenon DEF Working, Baseline
<1>5. \A p \in Clean' : p \in Clean /\ Baseline'[p] = Baseline[p]
  <2> SUFFICES ASSUME NEW p \in Clean' PROVE p \in Clean /\ tree[p] = Baseline[p]
    BY <1>4, Zenon
  <2>1. p \in Clean
    BY <1>0 DEF Clean
  <2>2. CASE Working
    <3>1. p \notin Changed
      BY <1>0, <2>2 DEF Clean, Working
    <3> QED BY <2>1, <2>2, <3>1, UnchangedIsSeen DEF Baseline
  <2>3. CASE ~Working
    BY <2>1, <2>3 DEF Baseline
  <2> QED BY <2>2, <2>3
<1>6. JobFits' /\ JobKeeps'
  BY <1>0, <1>4, IdleIsJob DEF JobFits, JobKeeps
<1>7. RecordsChain' /\ RoundsStart'
  BY <1>0, <1>5, ChainStays, RoundsStay
<1>8. RestoreAims' /\ RestoreReaches'
  BY <1>0, IdleIsJob DEF RestoreAims, RestoreReaches
<1> QED BY <1>2, <1>3, <1>6, <1>7, <1>8

(* A file changes behind the records, by a shell command or an editor. *)
LEMMA UnrecordedKeeps ==
    ASSUME CheckpointInv, NEW p \in Paths, NEW text \in Contents, Unrecorded(p, text)
    PROVE  CheckpointInv'
<1> USE DEF CheckpointInv
<1>0. /\ tree' = [tree EXCEPT ![p] = text] /\ restored' = 0
      /\ dirty' = [files |-> dirty.files \cup {p}, times |-> dirty.times + 1]
      /\ UNCHANGED <<job, timeline, past, anchor, visible, anchors, starts>>
  BY DEF Unrecorded, Resting, Spoils
<1>1. CheckpointShape'
  BY <1>0 DEF CheckpointShape
<1>2. CheckpointFits'
  BY <1>0 DEF CheckpointFits, CheckpointShape, Before, After
<1>3. /\ Working' = Working
      /\ \A q \in Clean' : q \in Clean /\ tree'[q] = tree[q]
  BY <1>0 DEF Working, Clean, CheckpointShape
<1>4. \A q \in Clean' : q \in Clean /\ Baseline'[q] = Baseline[q]
  BY <1>0, <1>3, SMTT(30) DEF Baseline
<1>5. JobFits' /\ JobKeeps'
  BY <1>0, <1>3 DEF JobFits, JobKeeps, Working
<1>6. RecordsChain' /\ RoundsStart'
  BY <1>0, <1>4, ChainStays, RoundsStay, SMTT(30)
<1>7. RestoreAims' /\ RestoreReaches'
  BY <1>0, <1>3, SMTT(30) DEF RestoreAims, RestoreReaches
<1> QED BY <1>1, <1>2, <1>5, <1>6, <1>7

(* The record of a finished job chains to those before it and starts its round, if it
   is the first of it (record_mutation). *)
LEMMA FinishRecords ==
    ASSUME CheckpointInv, Working, Changed # {},
           UNCHANGED <<anchor, anchors, starts>>,
           timeline' = Append(timeline, [base |-> [p \in Changed |-> job.base[p]],
                                         want |-> [p \in Changed |-> job.want[p]],
                                         anchor |-> anchor]),
           past' = Append(past, job.seen),
           Clean' = Clean, Baseline' = tree, job.todo = {}
    PROVE  /\ timeline' \in Seq(Records) /\ past' \in Seq([Paths -> Contents])
           /\ Len(timeline') = Len(timeline) + 1 /\ Len(past') = Len(timeline')
           /\ \A i \in DOMAIN timeline' :
                /\ DOMAIN timeline'[i].base = DOMAIN timeline'[i].want
                /\ \A p \in DOMAIN timeline'[i].base : Before(i, p)' # After(i, p)'
                /\ timeline'[i].anchor <= anchors
           /\ \A i \in DOMAIN timeline : past'[i] = past[i] /\ i \in DOMAIN timeline'
           /\ RecordsChain' /\ RoundsStart'
<1> USE DEF CheckpointInv
<1> DEFINE n == Len(timeline)
           r == [base |-> [p \in Changed |-> job.base[p]],
                 want |-> [p \in Changed |-> job.want[p]],
                 anchor |-> anchor]
<1>1. /\ timeline \in Seq(Records) /\ past \in Seq([Paths -> Contents]) /\ Len(past) = n
      /\ n \in Nat /\ DOMAIN timeline = 1..n /\ anchor \in Nat
      /\ job.seen \in [Paths -> Contents]
  BY DEF CheckpointShape, CheckpointFits, JobFits
<1>2. /\ job.base \in Files /\ job.want \in Files
      /\ Changed \subseteq DOMAIN job.base /\ Changed \subseteq DOMAIN job.want
      /\ \A p \in Changed : job.base[p] # job.want[p]
  BY Zenon DEF CheckpointShape, Jobs, JobFits, Changed, Working
<1>3. r \in Records
  <2>1. [p \in Changed |-> job.base[p]] \in [Changed -> Contents]
        /\ [p \in Changed |-> job.want[p]] \in [Changed -> Contents]
        /\ Changed \in SUBSET Paths
    BY <1>2, OfFiles
  <2>2. [p \in Changed |-> job.base[p]] \in Files /\ [p \in Changed |-> job.want[p]] \in Files
    BY <2>1, FilesOf, Zenon
  <2> QED BY <2>2, <1>1 DEF Records
<1>4. /\ r.anchor = anchor /\ DOMAIN r.base = Changed /\ DOMAIN r.want = Changed
      /\ \A p \in Changed : r.base[p] = job.base[p] /\ r.want[p] = job.want[p]
  OBVIOUS
<1>5. timeline' = Append(timeline, r)
  OBVIOUS
<1> HIDE DEF r
<1>a. \A i \in 1..(n + 1) : i = n + 1 \/ i \in 1..n
  BY <1>1
<1>6. /\ timeline' \in Seq(Records) /\ Len(timeline') = n + 1 /\ DOMAIN timeline' = 1..(n + 1)
      /\ timeline'[n + 1] = r /\ \A i \in 1..n : timeline'[i] = timeline[i]
  BY <1>1, <1>3, <1>5
<1>7. /\ past' \in Seq([Paths -> Contents]) /\ Len(past') = n + 1
      /\ past'[n + 1] = job.seen /\ \A i \in 1..n : past'[i] = past[i]
  BY <1>1
<1>8. \A i \in DOMAIN timeline' :
         /\ DOMAIN timeline'[i].base = DOMAIN timeline'[i].want
         /\ \A p \in DOMAIN timeline'[i].base : Before(i, p)' # After(i, p)'
         /\ timeline'[i].anchor <= anchors
  <2> SUFFICES ASSUME NEW i \in 1..(n + 1)
               PROVE  /\ DOMAIN timeline'[i].base = DOMAIN timeline'[i].want
                      /\ \A p \in DOMAIN timeline'[i].base : timeline'[i].base[p] # timeline'[i].want[p]
                      /\ timeline'[i].anchor <= anchors
    BY <1>6, Zenon DEF Before, After
  <2>1. CASE i = n + 1
    BY <2>1, <1>2, <1>4, <1>6 DEF CheckpointFits
  <2>2. CASE i \in 1..n
    BY <2>2, <1>1, <1>6, ZenonT(60) DEF CheckpointFits, Before, After
  <2> QED BY <2>1, <2>2, <1>a, Zenon
<1>9. Baseline = job.seen
  BY DEF Baseline
<1>10. RecordsChain'
  <2> SUFFICES ASSUME NEW i \in 1..(n + 1), NEW p \in Clean
               PROVE  IF Changes(i, p)' THEN past'[i][p] = Before(i, p)' /\ Follows(i)'[p] = After(i, p)'
                      ELSE Follows(i)'[p] = past'[i][p]
    BY <1>6, ZenonT(30) DEF RecordsChain
  <2>1. CASE i = n + 1
    <3>1. Follows(i)' = tree
      BY <2>1, <1>6 DEF Follows
    <3>2. /\ Changes(i, p)' <=> p \in Changed
          /\ p \in Changed => Before(i, p)' = job.base[p] /\ After(i, p)' = job.want[p]
      BY <2>1, <1>4, <1>6, SMTT(30) DEF Changes, Before, After
    <3>3. p \notin Changed => tree[p] = job.seen[p]
      BY UnchangedIsSeen, Zenon
    <3>4. p \in Changed => job.base[p] = job.seen[p] /\ tree[p] = job.want[p]
      BY <1>2, Zenon DEF JobKeeps
    <3> QED BY <2>1, <3>1, <3>2, <3>3, <3>4, <1>7, Zenon
  <2>2. CASE i \in 1..n
    <3>1. /\ Changes(i, p)' = Changes(i, p) /\ Before(i, p)' = Before(i, p) /\ After(i, p)' = After(i, p)
      BY <2>2, <1>6 DEF Changes, Before, After
    <3>2. Follows(i)' = Follows(i)
      BY <2>2, <1>1, <1>6, <1>7, <1>9 DEF Follows
    <3>3. IF Changes(i, p) THEN past[i][p] = Before(i, p) /\ Follows(i)[p] = After(i, p)
          ELSE Follows(i)[p] = past[i][p]
      BY <2>2, <1>1, Zenon DEF RecordsChain
    <3> QED BY <2>2, <3>1, <3>2, <3>3, <1>7, Zenon
  <2> QED BY <2>1, <2>2, <1>a, Zenon
<1>11. RoundsStart'
  <2> SUFFICES ASSUME NEW a \in 1..anchors', NEW p \in Clean'
               PROVE  /\ \A i \in DOMAIN timeline' : FirstOf(a, i)' => past'[i][p] = starts'[a][p]
                      /\ anchor' = a /\ (\A i \in DOMAIN timeline' : timeline'[i].anchor # a)
                            => Baseline'[p] = starts'[a][p]
    BY Zenon DEF RoundsStart
  <2>0. a \in 1..anchors /\ p \in Clean
    OBVIOUS
  <2>a. /\ \A i \in 1..n : FirstOf(a, i) => past[i][p] = starts[a][p]
        /\ anchor = a /\ (\A i \in 1..n : timeline[i].anchor # a) => Baseline[p] = starts[a][p]
    BY <1>1, <2>0, ZenonT(30) DEF RoundsStart
  <2>1. ASSUME NEW i \in 1..(n + 1), FirstOf(a, i)'
        PROVE  past'[i][p] = starts[a][p]
    <3>1. CASE i = n + 1
      <4>1. anchor = a /\ \A j \in 1..n : timeline[j].anchor # a
        BY <2>1, <3>1, <1>1, <1>4, <1>6 DEF FirstOf
      <4>2. Baseline[p] = starts[a][p]
        BY <4>1, <2>a
      <4> QED BY <4>2, <3>1, <1>7, <1>9, SMTT(30)
    <3>2. CASE i \in 1..n
      <4>1. FirstOf(a, i)
        BY <2>1, <3>2, <1>1, <1>6 DEF FirstOf
      <4> QED BY <4>1, <3>2, <2>a, <1>7, Zenon
    <3> QED BY <3>1, <3>2, <1>a, Zenon
  <2> QED BY <2>1, <1>1, <1>4, <1>6
<1> QED BY <1>1, <1>6, <1>7, <1>8, <1>10, <1>11, SMTT(30)

(* A job finishes, with a record when it changed anything. *)
LEMMA FinishKeeps ==
    ASSUME CheckpointInv, Finish
    PROVE  CheckpointInv'
<1> USE DEF CheckpointInv
<1> DEFINE more == job.kind = "restore" /\ anchor = NoAnchor /\ job.mode # "code"
<1>0. /\ Working /\ job.todo = {} /\ AppendCheckpoint
      /\ job' = IF more THEN [job EXCEPT !.kind = "rollback"] ELSE Idle
      /\ restored' = IF job.kind = "restore" /\ job.mode # "conversation" /\ ~more
                     THEN job.index ELSE 0
      /\ UNCHANGED <<tree, dirty, anchor, visible, anchors, starts>>
  BY DEF Finish, Resting, Working
<1>1. /\ job \in Jobs /\ job.index \in Nat /\ Len(timeline) \in Nat
      /\ DOMAIN timeline = 1..Len(timeline)
      /\ job.kind = "restore" => job.index \in DOMAIN timeline
      /\ job.index <= Len(timeline)
  BY DEF CheckpointShape, Jobs, JobFits, CheckpointFits
<1>2. /\ job' \in Jobs /\ job'.todo = {} /\ job'.index <= Len(timeline)
      /\ job'.kind = IF more THEN "rollback" ELSE "idle"
      /\ more => job'.index = job.index /\ job'.mode = job.mode
      /\ ~more => job' = Idle
  <2>1. CASE more
    BY <2>1, <1>0, <1>1 DEF Jobs
  <2>2. CASE ~more
    BY <2>2, <1>0, <1>1, IdleIsJob
  <2> QED BY <2>1, <2>2
<1>3. ~Working' /\ Clean' = Clean /\ Baseline' = tree
  BY <1>0, <1>2 DEF Working, Clean, Baseline
<1>4. /\ timeline' \in Seq(Records) /\ past' \in Seq([Paths -> Contents])
      /\ Len(timeline') \in Nat /\ Len(timeline) <= Len(timeline') /\ Len(past') = Len(timeline')
      /\ \A i \in DOMAIN timeline' :
           /\ DOMAIN timeline'[i].base = DOMAIN timeline'[i].want
           /\ \A p \in DOMAIN timeline'[i].base : Before(i, p)' # After(i, p)'
           /\ timeline'[i].anchor <= anchors
      /\ \A i \in DOMAIN timeline : past'[i] = past[i] /\ i \in DOMAIN timeline'
      /\ RecordsChain' /\ RoundsStart'
  <2>1. CASE Changed = {}
    <3>1. UNCHANGED <<timeline, past>>
      BY <2>1, <1>0 DEF AppendCheckpoint
    <3>2. \A p \in Clean' : p \in Clean /\ Baseline'[p] = Baseline[p]
      BY <2>1, <1>0, <1>3, UnchangedIsSeen DEF Baseline
    <3>3. RecordsChain' /\ RoundsStart'
      BY <3>1, <3>2, <1>0, ChainStays, RoundsStay
    <3> QED BY <3>1, <3>3, <1>0, <1>1 DEF CheckpointShape, CheckpointFits, Before, After
  <2>2. CASE Changed # {}
    <3>1. /\ timeline' = Append(timeline, [base |-> [p \in Changed |-> job.base[p]],
                                           want |-> [p \in Changed |-> job.want[p]],
                                           anchor |-> anchor])
          /\ past' = Append(past, job.seen)
      BY <2>2, <1>0 DEF AppendCheckpoint
    <3>2. UNCHANGED <<anchor, anchors, starts>>
      BY <1>0
    <3> HIDE DEF CheckpointInv, more
    <3> QED BY <2>2, <3>1, <3>2, <1>0, <1>1, <1>3, FinishRecords
  <2> QED BY <2>1, <2>2
<1>5. CheckpointShape'
  <2>1. restored' \in Nat
    BY <1>0, <1>1
  <2> QED BY <1>0, <1>2, <1>4, <2>1, Zenon DEF CheckpointShape
<1>6. CheckpointFits'
  <2>1. restored' <= Len(timeline') /\ job'.index <= Len(timeline') /\ job'.todo \subseteq DOMAIN job'.want
    BY <1>0, <1>1, <1>2, <1>4 DEF Jobs
  <2> QED BY <2>1, <1>0, <1>4 DEF CheckpointFits
<1>7. JobFits' /\ JobKeeps'
  BY <1>0, <1>1, <1>2, <1>3, <1>4 DEF JobFits, JobKeeps
<1>8. job.kind = "restore" /\ job.mode # "conversation" =>
         \A p \in Clean : past'[job.index][p] = tree[p]
  BY <1>0, <1>1, <1>4 DEF JobKeeps, RestoreAims
<1>9. RestoreAims'
  BY <1>0, <1>2, <1>3, <1>8 DEF RestoreAims
<1>10. RestoreReaches'
  <2>1. Clean = Paths \ dirty'.files
    BY <1>0 DEF Clean
  <2> QED BY <2>1, <1>0, <1>8, Zenon DEF RestoreReaches
<1> QED BY <1>4, <1>5, <1>6, <1>7, <1>9, <1>10

(* A record of the timeline holds files and the number of a message. *)
LEMMA RecordOfTimeline ==
    ASSUME CheckpointInv, NEW i \in DOMAIN timeline
    PROVE  /\ timeline[i].base \in Files /\ timeline[i].want \in Files
           /\ timeline[i].anchor \in Nat /\ timeline[i].anchor <= anchors
<1>1. timeline[i] \in Records
  BY DEF CheckpointInv, CheckpointShape
<1> QED BY <1>1 DEF Records, CheckpointInv, CheckpointFits

(* A message is submitted and becomes the anchor of what follows. *)
LEMMA MessageKeeps ==
    ASSUME CheckpointInv, job = Idle,
           UNCHANGED <<tree, timeline, job, past, dirty>>,
           restored' = 0, anchors' = anchors + 1, starts' = Append(starts, tree),
           anchor' \in {anchor, anchors + 1}, visible' \subseteq visible \cup {anchors + 1}
    PROVE  CheckpointInv'
<1> USE DEF CheckpointInv
<1>1. /\ starts \in Seq([Paths -> Contents]) /\ tree \in [Paths -> Contents]
      /\ anchors \in Nat /\ anchor \in Nat /\ visible \in SUBSET Nat
      /\ Len(starts) = anchors /\ anchor <= anchors /\ visible \subseteq 1..anchors
  BY Zenon DEF CheckpointShape, CheckpointFits
<1>a. \A i \in DOMAIN timeline : timeline[i].anchor <= anchors /\ timeline[i].anchor \in Nat
  BY RecordOfTimeline
<1>2. /\ starts' \in Seq([Paths -> Contents]) /\ Len(starts') = anchors'
      /\ starts'[anchors + 1] = tree /\ \A a \in 1..anchors : starts'[a] = starts[a]
  BY <1>1
<1>3. CheckpointShape'
  BY <1>1, <1>2 DEF CheckpointShape
<1>4. CheckpointFits'
  <2>1. /\ restored' <= Len(timeline') /\ anchor' <= anchors' /\ visible' \subseteq 1..anchors'
        /\ \A i \in DOMAIN timeline : timeline[i].anchor <= anchors'
    BY <1>1, <1>a DEF CheckpointShape
  <2> QED BY <1>2, <2>1 DEF CheckpointFits, Before, After
<1>5. ~Working /\ ~Working' /\ Clean' = Clean /\ Baseline' = Baseline /\ Baseline = tree
  BY IdleIsJob, SMTT(30) DEF Working, Clean, Baseline
<1>6. JobFits' /\ JobKeeps'
  BY <1>5, IdleIsJob DEF JobFits, JobKeeps
<1>7. RecordsChain'
  BY <1>5, ChainStays
<1>8. RoundsStart'
  <2> SUFFICES ASSUME NEW a \in 1..anchors', NEW p \in Clean'
               PROVE  /\ \A i \in DOMAIN timeline' : FirstOf(a, i)' => past'[i][p] = starts'[a][p]
                      /\ anchor' = a /\ (\A i \in DOMAIN timeline' : timeline'[i].anchor # a)
                            => Baseline'[p] = starts'[a][p]
    BY Zenon DEF RoundsStart
  <2>0. \A i \in DOMAIN timeline' : FirstOf(a, i)' = FirstOf(a, i)
    BY DEF FirstOf
  <2>1. CASE a = anchors + 1
    <3>1. \A i \in DOMAIN timeline : timeline[i].anchor # a
      BY <2>1, <1>1, <1>a
    <3> QED BY <2>0, <2>1, <3>1, <1>2, <1>5 DEF FirstOf
  <2>2. CASE a \in 1..anchors
    <3>1. anchor' = a => anchor = a
      BY <2>2, <1>1
    <3> QED BY <2>0, <2>2, <3>1, <1>2, <1>5 DEF RoundsStart
  <2>3. a = anchors + 1 \/ a \in 1..anchors
    BY <1>1
  <2> QED BY <2>1, <2>2, <2>3, Zenon
<1>9. RestoreAims' /\ RestoreReaches'
  BY IdleIsJob DEF RestoreAims, RestoreReaches
<1> QED BY <1>3, <1>4, <1>6, <1>7, <1>8, <1>9, SMTT(30)

(* The turn is over, and the anchor with it. *)
LEMMA EndTurnKeeps ==
    ASSUME CheckpointInv, EndTurn
    PROVE  CheckpointInv'
<1> USE DEF CheckpointInv
<1>0. /\ anchor' = 0
      /\ UNCHANGED <<tree, timeline, job, visible, anchors, past, starts, dirty, restored>>
  BY SMTT(30) DEF EndTurn, NoAnchor
<1>1. CheckpointShape' /\ CheckpointFits'
  BY <1>0 DEF CheckpointShape, CheckpointFits, Before, After
<1>2. Working' = Working /\ Clean' = Clean /\ Baseline' = Baseline
  BY <1>0, SMTT(30) DEF Working, Clean, Baseline
<1>3. JobFits' /\ JobKeeps' /\ RestoreAims' /\ RestoreReaches'
  BY <1>0, <1>2 DEF JobFits, JobKeeps, RestoreAims, RestoreReaches
<1>4. RecordsChain'
  BY <1>0, <1>2, ChainStays
<1>5. RoundsStart'
  <2>1. \A a \in 1..anchors : anchor' # a
    BY <1>0, SMTT(30)
  <2> QED BY <2>1, <1>0, <1>2 DEF RoundsStart, FirstOf
<1> QED BY <1>1, <1>3, <1>4, <1>5

(* The session starts with an empty timeline. *)
LEMMA InitCheckpointInv ==
    ASSUME CheckpointInit
    PROVE  CheckpointInv
<1>1. CheckpointShape
  BY IdleIsJob, SMTT(30) DEF CheckpointInit, CheckpointShape, NoAnchor
<1>6. CheckpointFits
  <2>1. /\ DOMAIN timeline = {} /\ Len(timeline) = 0 /\ Len(past) = 0 /\ Len(starts) = 0
        /\ anchors = 0 /\ anchor = 0 /\ restored = 0 /\ visible = {}
    BY DEF CheckpointInit, NoAnchor
  <2>2. job.todo = {} /\ job.index = 0
    BY IdleIsJob, Zenon DEF CheckpointInit
  <2> QED BY <2>1, <2>2 DEF CheckpointFits
<1>2. ~Working /\ DOMAIN timeline = {} /\ job = Idle /\ job.kind = "idle" /\ restored = 0
  BY IdleIsJob DEF CheckpointInit, Working
<1>3. JobFits /\ JobKeeps /\ RestoreAims
  BY <1>2, Zenon DEF JobFits, JobKeeps, RestoreAims
<1>4. RecordsChain /\ RestoreReaches
  BY <1>2, Zenon DEF RecordsChain, RestoreReaches
<1>5. RoundsStart
  <2>1. 1..anchors = {}
    BY DEF CheckpointInit
  <2> QED BY <2>1, Zenon DEF RoundsStart
<1> QED BY <1>1, <1>3, <1>4, <1>5, <1>6, Zenon DEF CheckpointInv

(* Every step of the tools, the restores and the turns keeps the invariant. *)
LEMMA CheckpointStep ==
    ASSUME CheckpointInv, [CheckpointNext]_checkpointVars
    PROVE  CheckpointInv'
<1>1. ASSUME NEW p \in Paths, NEW text \in Texts, WriteFile(p, text)
      PROVE  CheckpointInv'
  BY <1>1, WriteFileKeeps
<1>2. ASSUME NEW p \in Paths, CommitFile(p) \/ RestoreFile(p)
      PROVE  CheckpointInv'
  BY <1>2, CommitFileKeeps, RestoreFileKeeps
<1>3. ASSUME NEW p \in Paths, NEW text \in Contents, Unrecorded(p, text)
      PROVE  CheckpointInv'
  BY <1>3, UnrecordedKeeps
<1>4. ASSUME NEW ps \in SUBSET Paths, NEW want \in [ps -> Contents], PatchFiles(want)
      PROVE  CheckpointInv'
  BY <1>4, PatchFilesKeeps
<1>5. ASSUME NEW i \in DOMAIN timeline, NEW mode \in Modes, Restore(i, mode)
      PROVE  CheckpointInv'
  BY <1>5, RestoreKeeps
<1>6. CASE Finish \/ RollBack \/ JobFails \/ EndTurn
  BY <1>6, FinishKeeps, RollBackKeeps, JobFailsKeeps, EndTurnKeeps
<1>7. CASE BeginTurn
  <2>1. /\ job = Idle /\ UNCHANGED <<tree, timeline, job, past, dirty>>
        /\ restored' = 0 /\ anchors' = anchors + 1 /\ starts' = Append(starts, tree)
        /\ anchor' \in {anchor, anchors + 1} /\ visible' \subseteq visible \cup {anchors + 1}
    BY <1>7 DEF BeginTurn
  <2> QED BY <2>1, MessageKeeps
<1>8. ASSUME NEW a \in visible, Compact(a)
      PROVE  CheckpointInv'
  <2>1. /\ job = Idle /\ UNCHANGED <<tree, timeline, job, past, dirty>>
        /\ restored' = 0 /\ anchors' = anchors + 1 /\ starts' = Append(starts, tree)
        /\ anchor' \in {anchor, anchors + 1} /\ visible' \subseteq visible \cup {anchors + 1}
    BY <1>8 DEF Compact
  <2> QED BY <2>1, MessageKeeps
<1>9. CASE UNCHANGED checkpointVars
  <2>1. UNCHANGED <<tree, timeline, job, anchor, visible, anchors, past, starts, dirty, restored>>
    BY <1>9 DEF checkpointVars
  <2>2. Working' = Working /\ Clean' = Clean /\ Baseline' = Baseline
    BY <2>1 DEF Working, Clean, Baseline
  <2>3. RecordsChain' /\ RoundsStart'
    BY <2>1, <2>2, ChainStays, RoundsStay DEF CheckpointInv
  <2>4. CheckpointShape' /\ CheckpointFits'
    BY <2>1, Zenon DEF CheckpointInv, CheckpointShape, CheckpointFits, Before, After
  <2>5. JobFits' /\ JobKeeps'
    BY <2>1, <2>2, Zenon DEF CheckpointInv, JobFits, JobKeeps
  <2>6. RestoreAims' /\ RestoreReaches'
    BY <2>1, <2>2, Zenon DEF CheckpointInv, RestoreAims, RestoreReaches
  <2> QED BY <2>3, <2>4, <2>5, <2>6, Zenon DEF CheckpointInv
<1> QED BY <1>1, <1>2, <1>3, <1>4, <1>5, <1>6, <1>7, <1>8, <1>9 DEF CheckpointNext

(* The invariant holds in every state the checkpoints can reach. *)
LEMMA CheckpointAlways == CheckpointSpec => []CheckpointInv
BY InitCheckpointInv, CheckpointStep, PTL DEF CheckpointSpec

(* Files, records and jobs keep their shapes, for any paths, contents and bounds
   (workspace checkpoints: the timeline and its restores). *)
THEOREM CheckpointTypes == CheckpointSpec => []CheckpointTypeOK
<1>1. CheckpointInv => CheckpointTypeOK
  <2> SUFFICES ASSUME CheckpointInv PROVE CheckpointTypeOK
    OBVIOUS
  <2> USE DEF CheckpointInv
  <2>1. \A i \in DOMAIN timeline :
          /\ {timeline[i].base, timeline[i].want} \subseteq FilesOver(Contents)
          /\ timeline[i].anchor \in 0..anchors
    <3> SUFFICES ASSUME NEW i \in DOMAIN timeline
                 PROVE  /\ timeline[i].base \in Files /\ timeline[i].want \in Files
                        /\ timeline[i].anchor \in 0..anchors
      BY DEF Files
    <3>1. anchors \in Nat
      BY SMTT(30) DEF CheckpointShape
    <3> QED BY <3>1, RecordOfTimeline
  <2>2. job.base \in Files /\ job.want \in Files /\ job.index \in 0..Len(timeline) /\ job.mode \in Modes
    BY DEF CheckpointShape, CheckpointFits, Jobs
  <2>3. anchor \in 0..anchors /\ restored \in 0..Len(timeline) /\ dirty.files \subseteq Paths
    BY DEF CheckpointShape, CheckpointFits
  <2> QED BY <2>1, <2>2, <2>3 DEF CheckpointTypeOK, CheckpointShape, CheckpointFits, Files
<1> QED BY <1>1, CheckpointAlways, PTL

(* A finished restore leaves every file that only recorded jobs have changed as it was
   before the checkpoint, for any timeline, earlier restores among its records included
   (restore_checkpoint, desired_state_for_path). *)
THEOREM RestoresReach == CheckpointSpec => []RestoreReaches
<1>1. CheckpointInv => RestoreReaches
  BY DEF CheckpointInv
<1> QED BY <1>1, CheckpointAlways, PTL

(* Restoring the first record of a round brings such files back to what they were when
   its message was submitted, for any timeline (the anchors of record_mutation). *)
THEOREM RoundsRewindTurns == CheckpointSpec => []RoundRewindsTurn
<1>1. CheckpointInv => RoundRewindsTurn
  <2> SUFFICES ASSUME CheckpointInv, NEW a \in 1..anchors, NEW p \in TimelinePaths \ dirty.files,
                      RoundCheckpoint(a) # 0
               PROVE  Desired(RoundCheckpoint(a), p) = starts[a][p]
    BY DEF RoundRewindsTurn
  <2> DEFINE anchored == {i \in DOMAIN timeline : timeline[i].anchor = a}
  <2>1. anchored \in SUBSET Nat
    BY DEF CheckpointInv, CheckpointShape
  <2>2. anchored # {}
    BY DEF RoundCheckpoint
  <2>3. \E i \in anchored : \A j \in anchored : i <= j
    <3> HIDE DEF anchored
    <3> QED BY <2>1, <2>2, NatMin
  <2>4. RoundCheckpoint(a) \in anchored /\ \A j \in anchored : RoundCheckpoint(a) <= j
    BY <2>2, <2>3 DEF RoundCheckpoint
  <2>5. PICK i \in DOMAIN timeline : i = RoundCheckpoint(a) /\ i \in Nat
    BY <2>1, <2>4
  <2>6. FirstOf(a, i)
    BY <2>4, <2>5 DEF FirstOf, CheckpointInv, CheckpointShape
  <2>7. p \in Clean
    <3>1. PICK j \in DOMAIN timeline : p \in DOMAIN timeline[j].base
      BY DEF TimelinePaths
    <3>2. timeline[j].base \in Files
      BY RecordOfTimeline
    <3> QED BY <3>1, <3>2, OfFiles DEF Clean
  <2>8. past[i][p] = starts[a][p]
    BY <2>6, <2>7, Zenon DEF CheckpointInv, RoundsStart
  <2> QED BY <2>5, <2>7, <2>8, DesiredIsPast
<1> QED BY <1>1, CheckpointAlways, PTL
=============================================================================
