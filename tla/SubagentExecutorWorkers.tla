---------------------- MODULE SubagentExecutorWorkers -----------------------
(***************************************************************************)
(* The inductive invariant of the subagent executor, for any agents,       *)
(* callers, batches, dependencies and file sets, and the proof that the    *)
(* tasks it spawns keep it: launch_child_async, ChildAgentWorker::run and  *)
(* the rounds of run_dependency_scheduler.  A worker's step is shown once, *)
(* as what one worker may do to its frame and to its agent's record        *)
(* (WorkerGoes).                                                           *)
(***************************************************************************)
EXTENDS SubagentExecutor, TLAPS

WithAgent == {"queue", "rollback", "announce", "launch", "load", "cancel", "unlease"}
WithBatch == {"claim", "launchBatch"}
Restarting == {"rollback", "announce", "load"}

CallerFrames ==
    [pc : {"idle"} \cup WithAgent \cup WithBatch, agent : Agents \cup {None}, k : Nat,
     batch : Nat, claimed : Nat]
SchedulerFrames ==
    [pc : {"off", "scan", "take", "launch", "wait"}, blocked : SUBSET Agents,
     ready : SUBSET Agents, failed : SUBSET (Agents \X {"Failed", "Cancelled"}),
     waiting : SUBSET Agents]

(* The registry, the frames, the lease table and the counters are of their shapes. *)
Shape ==
    /\ record \in [Agents -> Records(Workers) \cup {NoRecord}]
    /\ worker \in [Agents -> [Workers -> WorkerFrames]]
    /\ leases \in [Agents -> SUBSET UNION {Files[a] : a \in Agents}]
    /\ caller \in [Callers -> CallerFrames]
    /\ scheduler \in [DOMAIN Batches -> SchedulerFrames]
    /\ restarts \in 0..MaxRestarts /\ sent \in 0..MaxSends

(* A frame says what its step is going to use: an input for a turn, an outcome to
   finish with. *)
FrameFits(w) ==
    /\ w.pc \in {"waking", "turn"} => w.inputs # <<>>
    /\ w.pc \in {"blocked", "prep", "spawned", "starting"} /\ w.mode = "RunInput" => w.inputs # <<>>
    /\ w.pc = "blocked" => w.mode = "RunInput"
    /\ w.pc = "finish" => w.outcome \in Terminal
    /\ w.pc \in {"unused", "blocked"} => w.launch = "none"
    /\ w.pc = "unused" => ~w.aborted
FramesFit == \A a \in Agents, k \in Workers : FrameFits(worker[a][k])

(* Workers, mailboxes and handles belong to agents that are registered, and to
   restarts that have begun. *)
Known ==
    /\ \A a \in Agents, k \in Workers : worker[a][k].pc # "unused" => Exists(a) /\ k <= restarts + 1
    /\ \A a \in Agents : Exists(a) =>
          /\ record[a].mailbox <= restarts + 1
          /\ record[a].join # NoWorker => worker[a][record[a].join].pc # "unused"

(* The call in progress: its agent is registered, its batch is one, and a worker it
   has yet to launch is nobody else's. *)
CallerFits(f) ==
    /\ f.pc \in WithAgent => f.agent \in Agents /\ Exists(f.agent)
    /\ f.pc \in WithBatch => f.batch \in DOMAIN Batches /\ f.claimed <= Len(Batches[f.batch])
    /\ f.pc \notin WithBatch => f.batch = 0
    /\ f.pc \in Restarting \cup {"launch"} => f.k \in Workers /\ f.k >= 2 /\ f.k <= restarts + 1
    /\ f.pc \in Restarting => worker[f.agent][f.k].pc = "unused"
    /\ f.pc = "announce" => record[f.agent].mailbox # 1
    /\ f.pc = "queue" => f.k \in Messages
CallersFit == \A c \in Callers : CallerFits(caller[c])
OwnRestarts ==
    \A c, d \in Callers : caller[c].pc \in Restarting /\ caller[d].pc \in Restarting
                             /\ caller[c].k = caller[d].k => c = d
OwnBatches ==
    \A c, d \in Callers : caller[c].batch = caller[d].batch /\ caller[c].batch # 0 => c = d

(* A batch is registered as a whole, by the call that has claimed its leases. *)
BatchesWhole ==
    /\ \A c \in Callers : caller[c].pc = "claim" => \A a \in InBatch(caller[c].batch) : ~Exists(a)
    /\ \A c \in Callers : caller[c].pc = "launchBatch" =>
          \A a \in InBatch(caller[c].batch) :
             Exists(a) /\ (Deps[a] # {} => worker[a][1].pc = "blocked")
    /\ \A b \in DOMAIN Batches : (\A a \in InBatch(b) : Exists(a)) \/ (\A a \in InBatch(b) : ~Exists(a))
LeasesAreOwned ==
    \A a \in Agents : leases[a] # {} =>
        Exists(a) \/ \E c \in Callers : caller[c].pc = "claim" /\ a \in InBatch(caller[c].batch)

(* Plans that wait for their dependencies are where spawn or the scheduler has them. *)
SchedulerFits(b, s) ==
    /\ s.blocked \subseteq InBatch(b) /\ s.ready \subseteq s.blocked
    /\ \A a \in s.blocked : worker[a][1].pc = "blocked"
    /\ \A f \in s.failed : f[1] \in s.blocked \ s.ready
    /\ \A f, g \in s.failed : f[1] = g[1] => f = g
    /\ s.pc = "launch" => s.ready = {}
    /\ s.pc \in {"take", "launch"} /\ s.waiting = {} =>
          \A a \in s.blocked \ s.ready : \E f \in s.failed : f[1] = a
    /\ (\E c \in Callers : caller[c].batch = b) => s.blocked = {}
SchedulersFit == \A b \in DOMAIN Batches : SchedulerFits(b, scheduler[b])
PlansAreHeld ==
    \A a \in Agents, k \in Workers : worker[a][k].pc = "blocked" =>
        /\ k = 1 /\ Deps[a] # {}
        /\ \E b \in DOMAIN Batches : a \in InBatch(b) /\
              (a \in scheduler[b].blocked \/ \E c \in Callers : caller[c].batch = b)

(* A child without an outcome has the worker of its mailbox, or the call about to
   launch that worker. *)
EndedHasResult == \A a \in Agents : IsTerminal(a) => record[a].result # None
MailboxIsServed ==
    ~StoreFails => \A a \in Agents : Exists(a) /\ record[a].result = None =>
        \/ /\ worker[a][record[a].mailbox].pc \notin {"unused", "closing", "gone"}
           /\ ~worker[a][record[a].mailbox].aborted
        \/ \E c \in Callers : /\ caller[c].pc = "announce" /\ caller[c].agent = a
                              /\ caller[c].k = record[a].mailbox

(* As long as a child has the mailbox spawn gave it, only its first worker runs,
   and only after its dependencies have completed. *)
DepsDone(a) == \A d \in Deps[a] : \E k \in Workers : CompletedBy(d, k)
Waits(a) == worker[a][1].pc \in {"unused", "blocked", "finish", "closing", "gone"}
CompletedIsEarned == \A a \in Agents : record[a].status = "Completed" => \E k \in Workers : CompletedBy(a, k)
FirstMailbox ==
    \A a \in Agents : record[a].mailbox = 1 =>
        /\ \A k \in Workers \ {1} : worker[a][k].pc \in {"unused", "gone"}
        /\ Waits(a) \/ DepsDone(a)
        /\ \A b \in DOMAIN Batches : a \in scheduler[b].ready => IsTerminal(a) \/ DepsDone(a)

ExecutorInv ==
    /\ Shape /\ FramesFit /\ Known /\ CallersFit /\ OwnRestarts /\ OwnBatches
    /\ BatchesWhole /\ LeasesAreOwned /\ LeasesExclusive /\ SchedulersFit /\ PlansAreHeld
    /\ EndedHasResult /\ MailboxIsServed /\ CompletedIsEarned /\ FirstMailbox
-----------------------------------------------------------------------------
(* Batches hold agents, and 0 is the number of none. *)
LEMMA BatchFacts ==
    /\ DOMAIN Batches \subseteq Nat /\ 0 \notin DOMAIN Batches
    /\ \A b \in DOMAIN Batches :
          /\ Batches[b] \in Seq(Agents) /\ InBatch(b) \subseteq Agents
          /\ \A n \in 1..Len(Batches[b]) : Batches[b][n] \in InBatch(b)
    /\ \A b, e \in DOMAIN Batches : \A a \in InBatch(b) : a \in InBatch(e) => b = e
<1>1. Batches \in Seq(Seq(Agents))
  BY ExecutorAssumption, Zenon
<1>2. ASSUME NEW b \in DOMAIN Batches
      PROVE  /\ Batches[b] \in Seq(Agents) /\ InBatch(b) \subseteq Agents
             /\ \A n \in 1..Len(Batches[b]) : Batches[b][n] \in InBatch(b)
  <2>1. Batches[b] \in Seq(Agents)
    BY <1>1
  <2> QED
    BY <2>1 DEF InBatch
<1>3. ASSUME NEW b \in DOMAIN Batches, NEW e \in DOMAIN Batches, NEW a \in InBatch(b), a \in InBatch(e)
      PROVE  b = e
  BY <1>3, ExecutorAssumption, Zenon DEF InBatch
<1>4. DOMAIN Batches \subseteq Nat /\ 0 \notin DOMAIN Batches
  BY <1>1
<1> QED
  BY <1>2, <1>3, <1>4, Zenon

(* The worker numbers of restarts *)
LEMMA WorkerNumbers ==
    /\ 1 \in Workers /\ Workers \subseteq Nat /\ NoWorker \notin Workers
    /\ \A n \in 0..MaxRestarts : n < MaxRestarts => n + 2 \in Workers
  BY ExecutorAssumption DEF Workers, NoWorker

(* A registered agent has a record of the registry's type. *)
LEMMA ExistsFacts ==
    ASSUME Shape, NEW a \in Agents
    PROVE  /\ Exists(a) <=> record[a] \in Records(Workers)
           /\ IsTerminal(a) => Exists(a)
           /\ record[a].mailbox = 1 => Exists(a)
           /\ record[a].status = "Completed" => Exists(a)
<1>1. record[a] \in Records(Workers) \cup {NoRecord}
  BY Zenon DEF Shape
<1>2. NoRecord \notin Records(Workers)
  BY DEF NoRecord, Records, None, Statuses, Active, Terminal
<1>3. NoRecord.status \notin Terminal /\ NoRecord.mailbox # 1 /\ NoRecord.status # "Completed"
  BY DEF NoRecord, None, Terminal, NoWorker
<1> QED
  BY <1>1, <1>2, <1>3 DEF Exists, IsTerminal

-----------------------------------------------------------------------------
(* Worker (a, k) goes to w. *)
WorkerTo(a, k, w) ==
    /\ worker' \in [Agents -> [Workers -> WorkerFrames]]
    /\ \A x \in Agents, y \in Workers :
          worker'[x][y] = IF x = a /\ y = k THEN w ELSE worker[x][y]

(* The record of a becomes r. *)
RecordTo(a, r) ==
    /\ record' \in [Agents -> Records(Workers) \cup {NoRecord}]
    /\ \A x \in Agents : record'[x] = IF x = a THEN r ELSE record[x]

(* A worker whose frame is replaced, and no other, has moved as WorkerTo says: the
   shape every step of launch_child_async and of ChildAgentWorker::run has. *)
LEMMA WorkerUpdated ==
    ASSUME Shape, NEW a \in Agents, NEW k \in Workers, NEW w \in WorkerFrames,
           worker' = [worker EXCEPT ![a][k] = w]
    PROVE  WorkerTo(a, k, w)
  BY DEF Shape, WorkerTo

(* A record of the registry that is replaced, and no other, has moved as RecordTo
   says: the shape of every update under the record's mutex. *)
LEMMA RecordUpdated ==
    ASSUME Shape, NEW a \in Agents, NEW r \in Records(Workers), SetRecord(a, r)
    PROVE  RecordTo(a, r)
  BY DEF Shape, RecordTo, SetRecord

(* What has completed once has completed. *)
Kept(w, v) == w.pc \in {"closing", "gone"} => v.pc \in {"closing", "gone"} /\ v.outcome = w.outcome

(* Dependencies that have completed once stay completed for dependency_gate,
   whatever the workers do next. *)
LEMMA DoneStaysDone ==
    ASSUME NEW a \in Agents, DepsDone(a),
           \A x \in Agents, y \in Workers : Kept(worker[x][y], worker'[x][y])
    PROVE  DepsDone(a)'
<1>1. Deps[a] \subseteq Agents
  BY ExecutorAssumption, Zenon
<1> QED
  BY <1>1 DEF DepsDone, CompletedBy, Kept

(* A worker that has completed its agent stays the one that did (finish_success). *)
LEMMA EarnedStaysEarned ==
    ASSUME NEW a \in Agents, \E k \in Workers : CompletedBy(a, k),
           \A x \in Agents, y \in Workers : Kept(worker[x][y], worker'[x][y])
    PROVE  \E k \in Workers : CompletedBy(a, k)'
  BY DEF CompletedBy, Kept

-----------------------------------------------------------------------------
(* What a step of one worker has to keep of its frame and of its agent's record *)
WorkerGoes(a, k, w, r) ==
    /\ worker[a][k].pc \notin {"unused", "blocked"} /\ w.pc \notin {"unused", "blocked"}
    /\ FrameFits(w) /\ Kept(worker[a][k], w)
    /\ worker[a][k].pc = "gone" => w.pc = "gone"
    /\ worker[a][k].pc \in {"finish", "closing", "gone"} => w.pc \in {"finish", "closing", "gone"}
    /\ r.mailbox = record[a].mailbox /\ r.join \in {record[a].join, k}
    /\ r.status \in Terminal => r.result # None
    /\ r.result = None => record[a].result = None
    /\ r.status = "Completed" =>
          record[a].status = "Completed" \/ (w.pc = "closing" /\ w.outcome = "Completed")
    /\ IsTerminal(a) /\ r.status \notin Terminal => worker[a][k].pc # "gone"
    /\ ~StoreFails /\ r.mailbox = k /\ r.result = None
          /\ worker[a][k].pc \notin {"closing", "gone"} /\ ~worker[a][k].aborted
             => w.pc \notin {"closing", "gone"} /\ ~w.aborted

(* One worker moves, with its agent's record, as WorkerGoes says: the invariant
   stays.  Every step of launch_child_async and ChildAgentWorker::run is of this kind. *)
LEMMA OneWorkerMoves ==
    ASSUME ExecutorInv, NEW a \in Agents, NEW k \in Workers,
           NEW w \in WorkerFrames, NEW r \in Records(Workers),
           WorkerTo(a, k, w), RecordTo(a, r), WorkerGoes(a, k, w, r),
           leases' = leases \/ leases' = [leases EXCEPT ![a] = {}],
           UNCHANGED <<caller, scheduler, restarts, sent>>
    PROVE  ExecutorInv'
<1> USE DEF ExecutorInv
<1>1. Shape'
  BY DEF Shape, WorkerTo, RecordTo
<1>2. Exists(a) /\ record[a] \in Records(Workers)
  BY ExistsFacts, Zenon DEF Known, WorkerGoes
<1>3. \A x \in Agents : Exists(x)' <=> Exists(x)
  BY <1>1, <1>2, ExistsFacts DEF RecordTo, Exists, NoRecord, Records, Statuses, Active, Terminal, None
<1>4. \A x \in Agents : record'[x].mailbox = record[x].mailbox
  BY Zenon DEF RecordTo, WorkerGoes
<1>5. \A x \in Agents, y \in Workers :
         /\ Kept(worker[x][y], worker'[x][y])
         /\ worker'[x][y].pc = "unused" <=> worker[x][y].pc = "unused"
         /\ worker'[x][y].pc = "blocked" <=> worker[x][y].pc = "blocked"
  BY DEF WorkerTo, WorkerGoes, Kept
<1>6. FramesFit'
  BY DEF FramesFit, WorkerTo, WorkerGoes
<1>7. Known'
  <2>1. \A x \in Agents, y \in Workers : worker'[x][y].pc # "unused" => Exists(x)' /\ y <= restarts' + 1
    BY <1>3, <1>5, Zenon DEF Known
  <2>2. ASSUME NEW x \in Agents, Exists(x)'
        PROVE  /\ record'[x].mailbox <= restarts' + 1
               /\ record'[x].join # NoWorker => worker'[x][record'[x].join].pc # "unused"
    <3>1. Exists(x) /\ record'[x].mailbox <= restarts' + 1
      BY <1>3, <1>4, <2>2 DEF Known
    <3>2. record[x] \in Records(Workers)
      BY <3>1, ExistsFacts
    <3>3. record[x].join # NoWorker => record[x].join \in Workers /\ worker[x][record[x].join].pc # "unused"
      BY <3>1, <3>2, Zenon DEF Known, Records
    <3>4. record'[x].join = record[x].join \/ (x = a /\ record'[x].join = k)
      BY Zenon DEF RecordTo, WorkerGoes
    <3> QED
      BY <1>5, <3>1, <3>3, <3>4 DEF WorkerGoes
  <2> QED
    BY <2>1, <2>2, Zenon DEF Known
<1>8. CallersFit'
  <2>1. ASSUME NEW c \in Callers PROVE CallerFits(caller[c])'
    <3> DEFINE f == caller[c]
    <3>1. CallerFits(f) /\ caller'[c] = f /\ restarts' = restarts
      BY DEF CallersFit
    <3>2. f.pc \in WithAgent => f.agent \in Agents /\ Exists(f.agent)'
      BY <1>3, <3>1, Zenon DEF CallerFits
    <3>3. f.pc = "announce" => record'[f.agent].mailbox # 1
      BY <1>4, <3>1, Zenon DEF CallerFits, WithAgent
    <3>4. f.pc \in Restarting => worker'[f.agent][f.k].pc = "unused"
      BY <1>5, <3>1, Zenon DEF CallerFits, Restarting, WithAgent
    <3> QED
      BY <3>1, <3>2, <3>3, <3>4, Zenon DEF CallerFits
  <2> QED
    BY <2>1, Zenon DEF CallersFit
<1>9. OwnRestarts' /\ OwnBatches'
  BY Zenon DEF OwnRestarts, OwnBatches
<1>10. BatchesWhole'
  <2>1. \A b \in DOMAIN Batches : InBatch(b) \subseteq Agents
    BY BatchFacts, Zenon
  <2>2. \A c \in Callers : caller[c].pc \in WithBatch => caller[c].batch \in DOMAIN Batches
    BY Zenon DEF CallersFit, CallerFits
  <2> QED
    BY <1>3, <1>5, <2>1, <2>2, WorkerNumbers DEF BatchesWhole, WithBatch
<1>11. \A x \in Agents : leases'[x] \subseteq leases[x]
  BY Zenon DEF Shape
<1>12. LeasesAreOwned'
  BY <1>3, <1>11, Zenon DEF LeasesAreOwned
<1>13. LeasesExclusive'
  BY <1>11, Zenon DEF LeasesExclusive
<1>14. SchedulersFit'
  <2>1. \A b \in DOMAIN Batches : InBatch(b) \subseteq Agents
    BY BatchFacts, Zenon
  <2> QED
    BY <1>5, <2>1, WorkerNumbers DEF SchedulersFit, SchedulerFits
<1>15. PlansAreHeld'
  BY <1>5 DEF PlansAreHeld
<1>16. EndedHasResult'
  BY Zenon DEF EndedHasResult, IsTerminal, RecordTo, WorkerGoes
<1>17. MailboxIsServed'
  <2> SUFFICES ASSUME ~StoreFails, NEW x \in Agents, Exists(x)', record'[x].result = None
               PROVE  \/ /\ worker'[x][record'[x].mailbox].pc \notin {"unused", "closing", "gone"}
                         /\ ~worker'[x][record'[x].mailbox].aborted
                      \/ \E c \in Callers : /\ caller[c].pc = "announce" /\ caller[c].agent = x
                                            /\ caller[c].k = record'[x].mailbox
    BY Zenon DEF MailboxIsServed
  <2>1. Exists(x) /\ record[x].result = None
    BY <1>3, Zenon DEF RecordTo, WorkerGoes
  <2>2. record[x].mailbox \in Workers
    BY <2>1, ExistsFacts, Zenon DEF Records
  <2>3. \/ /\ worker[x][record[x].mailbox].pc \notin {"unused", "closing", "gone"}
           /\ ~worker[x][record[x].mailbox].aborted
        \/ \E c \in Callers : /\ caller[c].pc = "announce" /\ caller[c].agent = x
                              /\ caller[c].k = record[x].mailbox
    BY <2>1, Zenon DEF MailboxIsServed
  <2>4. record'[x].mailbox = record[x].mailbox
    BY <1>4, Zenon
  <2> HIDE DEF ExecutorInv
  <2>5. CASE \E c \in Callers : /\ caller[c].pc = "announce" /\ caller[c].agent = x
                                /\ caller[c].k = record[x].mailbox
    BY <2>4, <2>5, Zenon
  <2>6. CASE /\ worker[x][record[x].mailbox].pc \notin {"unused", "closing", "gone"}
             /\ ~worker[x][record[x].mailbox].aborted
    <3>1. CASE x = a /\ record[x].mailbox = k
      <4>1. worker'[x][record[x].mailbox] = w
        BY <2>2, <3>1, Zenon DEF WorkerTo
      <4>2. record'[x] = r /\ r.mailbox = k /\ r.result = None
        BY <2>4, <3>1, Zenon DEF RecordTo
      <4>3. w.pc \notin {"unused", "closing", "gone"} /\ ~w.aborted
        BY <2>6, <3>1, <4>2, Zenon DEF WorkerGoes
      <4> QED
        BY <2>4, <4>1, <4>3, Zenon
    <3>2. CASE ~(x = a /\ record[x].mailbox = k)
      <4>1. worker'[x][record[x].mailbox] = worker[x][record[x].mailbox]
        BY <2>2, <3>2 DEF WorkerTo
      <4> QED
        BY <2>4, <2>6, <4>1, Zenon
    <3> QED
      BY <3>1, <3>2, Zenon
  <2> QED
    BY <2>3, <2>5, <2>6, Zenon
<1>18. CompletedIsEarned'
  <2> SUFFICES ASSUME NEW x \in Agents, record'[x].status = "Completed"
               PROVE  \E y \in Workers : CompletedBy(x, y)'
    BY Zenon DEF CompletedIsEarned
  <2>1. CASE record[x].status = "Completed"
    <3>1. \E y \in Workers : CompletedBy(x, y)
      BY <2>1, Zenon DEF CompletedIsEarned
    <3> QED
      BY <1>5, <3>1, EarnedStaysEarned, Zenon
  <2>2. CASE record[x].status # "Completed"
    <3>1. x = a /\ w.pc = "closing" /\ w.outcome = "Completed"
      BY <2>2, Zenon DEF RecordTo, WorkerGoes
    <3>2. CompletedBy(x, k)'
      BY <3>1, Zenon DEF CompletedBy, WorkerTo
    <3> QED
      BY <3>2, Zenon
  <2> QED
    BY <2>1, <2>2, Zenon
<1>19. FirstMailbox'
  <2> SUFFICES ASSUME NEW x \in Agents, record'[x].mailbox = 1
               PROVE  /\ \A y \in Workers \ {1} : worker'[x][y].pc \in {"unused", "gone"}
                      /\ Waits(x)' \/ DepsDone(x)'
                      /\ \A b \in DOMAIN Batches :
                            x \in scheduler[b].ready => IsTerminal(x)' \/ DepsDone(x)'
    BY Zenon DEF FirstMailbox
  <2>1. /\ \A y \in Workers \ {1} : worker[x][y].pc \in {"unused", "gone"}
        /\ Waits(x) \/ DepsDone(x)
        /\ \A b \in DOMAIN Batches : x \in scheduler[b].ready => IsTerminal(x) \/ DepsDone(x)
    BY <1>4 DEF FirstMailbox
  <2>2. \A y \in Workers \ {1} : worker'[x][y].pc \in {"unused", "gone"}
    BY <2>1 DEF WorkerTo, WorkerGoes
  <2>3. DepsDone(x) => DepsDone(x)'
    BY <1>5, DoneStaysDone
  <2>4. Waits(x) => Waits(x)'
    BY WorkerNumbers DEF Waits, WorkerTo, WorkerGoes
  <2>5. ASSUME NEW b \in DOMAIN Batches, x \in scheduler[b].ready, IsTerminal(x)
        PROVE  IsTerminal(x)'
    <3>1. worker[x][1].pc = "blocked"
      BY <2>5 DEF SchedulersFit, SchedulerFits
    <3>2. x = a => k # 1 /\ worker[a][k].pc = "gone"
      BY <2>1, <3>1, Zenon DEF WorkerGoes
    <3> QED
      BY <2>5, <3>2, Zenon DEF WorkerGoes, RecordTo, IsTerminal
  <2> QED
    BY <2>1, <2>2, <2>3, <2>4, <2>5, Zenon
<1> QED
  BY <1>1, <1>6, <1>7, <1>8, <1>9, <1>10, <1>12, <1>13, <1>14, <1>15, <1>16, <1>17, <1>18, <1>19

(* What the invariant says of a worker that is there *)
LEMMA WorkerFacts ==
    ASSUME ExecutorInv, NEW a \in Agents, NEW k \in Workers, worker[a][k].pc # "unused"
    PROVE  /\ worker[a][k] \in WorkerFrames /\ FrameFits(worker[a][k])
           /\ Exists(a) /\ record[a] \in Records(Workers)
           /\ record[a].status \in Terminal => record[a].result # None
           /\ record' = record => RecordTo(a, record[a])
<1>1. worker[a][k] \in WorkerFrames /\ FrameFits(worker[a][k])
  BY Zenon DEF ExecutorInv, Shape, FramesFit
<1>2. Exists(a) /\ record[a] \in Records(Workers)
  BY ExistsFacts, Zenon DEF ExecutorInv, Known
<1>3. record[a].status \in Terminal => record[a].result # None
  BY Zenon DEF ExecutorInv, EndedHasResult, IsTerminal
<1>4. record' = record => RecordTo(a, record[a])
  BY Zenon DEF ExecutorInv, Shape, RecordTo
<1> QED
  BY <1>1, <1>2, <1>3, <1>4, Zenon

(* The frame of a worker that is over *)
LEMMA EndedFrame ==
    ASSUME NEW v \in WorkerFrames
    PROVE  /\ Ended(v) \in WorkerFrames /\ Ended(v).pc = "gone" /\ Ended(v).outcome = v.outcome
           /\ FrameFits(Ended(v))
<1>1. Unused \in WorkerFrames
  <2>1. <<>> \in Seq(Messages) /\ <<>> \in Seq(Messages \cup {First})
    OBVIOUS
  <2> QED
    BY <2>1 DEF Unused, WorkerFrames, None
<1>2. /\ Ended(v).pc = "gone" /\ Ended(v).outcome = v.outcome /\ Ended(v) \in WorkerFrames
  BY <1>1, Zenon DEF Ended, WorkerFrames
<1> QED
  BY <1>2, Zenon DEF FrameFits

-----------------------------------------------------------------------------
(* The runtime is built and the worker is spawned. *)
LEMMA LaunchSpawnKeeps ==
    ASSUME ExecutorInv, NEW a \in Agents, NEW k \in Workers, LaunchSpawn(a, k)
    PROVE  ExecutorInv'
<1> DEFINE v == worker[a][k]
           w == [v EXCEPT !.pc = "spawned", !.launch = "attach"]
<1>1. v.pc # "unused" /\ v.pc = "prep"
  BY Zenon DEF LaunchSpawn
<1>2. /\ v \in WorkerFrames /\ FrameFits(v) /\ Exists(a) /\ record[a] \in Records(Workers)
      /\ record[a].status \in Terminal => record[a].result # None
  BY <1>1, WorkerFacts, Zenon
<1>3. w \in WorkerFrames /\ w.pc = "spawned" /\ w.mode = v.mode /\ w.inputs = v.inputs
      /\ w.aborted = v.aborted /\ w.outcome = v.outcome
  BY <1>1, <1>2, Zenon DEF WorkerFrames
<1>4. worker' = [worker EXCEPT ![a][k] = w]
  <2>1. worker' = [worker EXCEPT ![a][k].pc = "spawned", ![a][k].launch = "attach"]
    BY Zenon DEF LaunchSpawn
  <2>2. worker \in [Agents -> [Workers -> WorkerFrames]]
    BY Zenon DEF ExecutorInv, Shape
  <2> QED
    BY <2>1, <2>2, Zenon DEF WorkerFrames
<1>5. FrameFits(w)
  BY <1>1, <1>2, <1>3, Zenon DEF FrameFits
<1>7. RecordTo(a, record[a]) /\ UNCHANGED <<leases, caller, scheduler, restarts, sent>>
  BY <1>1, WorkerFacts DEF LaunchSpawn
<1>8. WorkerGoes(a, k, w, record[a])
  BY <1>1, <1>2, <1>3, <1>5, Zenon DEF WorkerGoes, Kept, IsTerminal
<1> HIDE DEF v, w
<1>10. WorkerTo(a, k, w)
  BY <1>3, <1>4, WorkerUpdated, Zenon DEF ExecutorInv
<1> QED
  BY <1>2, <1>3, <1>7, <1>8, <1>10, OneWorkerMoves

(* The runtime cannot be built. *)
LEMMA LaunchFailKeeps ==
    ASSUME ExecutorInv, NEW a \in Agents, NEW k \in Workers, LaunchFail(a, k)
    PROVE  ExecutorInv'
<1> DEFINE v == worker[a][k]
           w == [v EXCEPT !.pc = "finish", !.launch = "fail", !.outcome = "Failed"]
<1>1. v.pc # "unused" /\ v.pc = "prep"
  BY Zenon DEF LaunchFail
<1>2. /\ v \in WorkerFrames /\ FrameFits(v) /\ Exists(a) /\ record[a] \in Records(Workers)
      /\ record[a].status \in Terminal => record[a].result # None
  BY <1>1, WorkerFacts, Zenon
<1>3. w \in WorkerFrames /\ w.pc = "finish" /\ w.outcome = "Failed" /\ w.aborted = v.aborted
  BY <1>1, <1>2, Zenon DEF WorkerFrames, Terminal
<1>4. worker' = [worker EXCEPT ![a][k] = w]
  <2>1. worker' = [worker EXCEPT ![a][k].pc = "finish", ![a][k].launch = "fail",
                                         ![a][k].outcome = "Failed"]
    BY Zenon DEF LaunchFail
  <2>2. worker \in [Agents -> [Workers -> WorkerFrames]]
    BY DEF ExecutorInv, Shape
  <2> QED
    BY <2>1, <2>2, Zenon DEF WorkerFrames
<1>5. FrameFits(w)
  BY <1>3 DEF FrameFits, Terminal
<1>7. RecordTo(a, record[a]) /\ UNCHANGED <<leases, caller, scheduler, restarts, sent>>
  BY <1>1, WorkerFacts, Zenon DEF LaunchFail
<1>8. WorkerGoes(a, k, w, record[a])
  BY <1>1, <1>2, <1>3, <1>5, Zenon DEF WorkerGoes, Kept, IsTerminal
<1> HIDE DEF v, w
<1>10. WorkerTo(a, k, w)
  BY <1>3, <1>4, WorkerUpdated, Zenon DEF ExecutorInv
<1> QED
  BY <1>2, <1>3, <1>7, <1>8, <1>10, OneWorkerMoves

(* start sets the status, whatever it was. *)
LEMMA WorkerStartKeeps ==
    ASSUME ExecutorInv, NEW a \in Agents, NEW k \in Workers, WorkerStart(a, k)
    PROVE  ExecutorInv'
<1> DEFINE v == worker[a][k]
           w == [v EXCEPT !.pc = "starting"]
           r == UpdateStatus(record[a], IF worker[a][k].mode = "RunInput" THEN "Running" ELSE "WaitingMessage")
<1>1. v.pc # "unused" /\ v.pc = "spawned"
  BY DEF WorkerStart
<1>2. /\ v \in WorkerFrames /\ FrameFits(v) /\ Exists(a) /\ record[a] \in Records(Workers)
      /\ record[a].status \in Terminal => record[a].result # None
  BY <1>1, WorkerFacts
<1>3. w \in WorkerFrames /\ w.pc = "starting" /\ w.mode = v.mode /\ w.inputs = v.inputs
      /\ w.aborted = v.aborted /\ w.outcome = v.outcome
  BY <1>1, <1>2, Zenon DEF WorkerFrames
<1>4. worker' = [worker EXCEPT ![a][k] = w]
  BY Zenon DEF ExecutorInv, Shape, WorkerStart, Goto
<1>5. FrameFits(w)
  BY <1>1, <1>2, <1>3 DEF FrameFits
<1>6. r \in Records(Workers) /\ r.status \notin Terminal /\ r.mailbox = record[a].mailbox
      /\ r.join = record[a].join /\ r.result = record[a].result
  BY <1>2, <1>1, Zenon DEF Records, UpdateStatus, Statuses, Active, Terminal
<1>7. RecordTo(a, r) /\ UNCHANGED <<leases, caller, scheduler, restarts, sent>>
  <2>1. SetRecord(a, r) /\ UNCHANGED <<leases, caller, scheduler, restarts, sent>>
    BY Zenon DEF WorkerStart
  <2> HIDE DEF r
  <2> QED
    BY <1>6, <2>1, RecordUpdated, Zenon DEF ExecutorInv
<1>8. WorkerGoes(a, k, w, r)
  BY <1>1, <1>2, <1>3, <1>5, <1>6, Zenon DEF WorkerGoes, Kept, IsTerminal, Terminal
<1> HIDE DEF v, w, r
<1>10. WorkerTo(a, k, w)
  BY <1>3, <1>4, WorkerUpdated, Zenon DEF ExecutorInv
<1> QED
  BY <1>2, <1>3, <1>6, <1>7, <1>8, <1>10, OneWorkerMoves, Zenon

(* The start events are appended. *)
LEMMA WorkerStartedKeeps ==
    ASSUME ExecutorInv, NEW a \in Agents, NEW k \in Workers, WorkerStarted(a, k)
    PROVE  ExecutorInv'
<1> DEFINE v == worker[a][k]
           w == [v EXCEPT !.pc = IF v.mode = "RunInput" THEN "turn" ELSE "recv"]
<1>1. v.pc # "unused" /\ v.pc = "starting"
  BY Zenon DEF WorkerStarted
<1>2. /\ v \in WorkerFrames /\ FrameFits(v) /\ Exists(a) /\ record[a] \in Records(Workers)
      /\ record[a].status \in Terminal => record[a].result # None
  BY <1>1, WorkerFacts
<1>3. w \in WorkerFrames /\ w.pc = (IF v.mode = "RunInput" THEN "turn" ELSE "recv")
      /\ w.inputs = v.inputs /\ w.aborted = v.aborted /\ w.outcome = v.outcome
  BY <1>1, <1>2, Zenon DEF WorkerFrames
<1>4. worker' = [worker EXCEPT ![a][k] = w]
  BY Zenon DEF ExecutorInv, Shape, WorkerStarted, Goto
<1>5. FrameFits(w)
  BY <1>1, <1>2, <1>3 DEF FrameFits
<1>7. RecordTo(a, record[a]) /\ UNCHANGED <<leases, caller, scheduler, restarts, sent>>
  BY <1>1, WorkerFacts, Zenon DEF WorkerStarted
<1>8. WorkerGoes(a, k, w, record[a])
  BY <1>1, <1>2, <1>3, <1>5 DEF WorkerGoes, Kept, IsTerminal
<1> HIDE DEF v, w
<1>10. WorkerTo(a, k, w)
  BY <1>3, <1>4, WorkerUpdated, Zenon DEF ExecutorInv
<1> QED
  BY <1>2, <1>3, <1>7, <1>8, <1>10, OneWorkerMoves, Zenon

(* The wake-up is appended. *)
LEMMA WorkerWokenKeeps ==
    ASSUME ExecutorInv, NEW a \in Agents, NEW k \in Workers, WorkerWoken(a, k)
    PROVE  ExecutorInv'
<1> DEFINE v == worker[a][k]
           w == [v EXCEPT !.pc = "turn"]
<1>1. v.pc # "unused" /\ v.pc = "waking"
  BY Zenon DEF WorkerWoken
<1>2. /\ v \in WorkerFrames /\ FrameFits(v) /\ Exists(a) /\ record[a] \in Records(Workers)
      /\ record[a].status \in Terminal => record[a].result # None
  BY <1>1, WorkerFacts
<1>3. w \in WorkerFrames /\ w.pc = "turn" /\ w.inputs = v.inputs /\ w.aborted = v.aborted
  BY <1>1, <1>2, Zenon DEF WorkerFrames
<1>4. worker' = [worker EXCEPT ![a][k] = w]
  BY Zenon DEF ExecutorInv, Shape, WorkerWoken, Goto
<1>5. FrameFits(w)
  BY <1>1, <1>2, <1>3, Zenon DEF FrameFits
<1>7. RecordTo(a, record[a]) /\ UNCHANGED <<leases, caller, scheduler, restarts, sent>>
  BY <1>1, WorkerFacts, Zenon DEF WorkerWoken
<1>8. WorkerGoes(a, k, w, record[a])
  BY <1>1, <1>2, <1>3, <1>5 DEF WorkerGoes, Kept, IsTerminal
<1> HIDE DEF v, w
<1>10. WorkerTo(a, k, w)
  BY <1>3, <1>4, WorkerUpdated, Zenon DEF ExecutorInv
<1> QED
  BY <1>2, <1>3, <1>7, <1>8, <1>10, OneWorkerMoves

(* The mailbox of a worker that has been replaced is closed. *)
LEMMA WorkerMailboxClosedKeeps ==
    ASSUME ExecutorInv, NEW a \in Agents, NEW k \in Workers, WorkerMailboxClosed(a, k)
    PROVE  ExecutorInv'
<1> DEFINE v == worker[a][k]
           w == [v EXCEPT !.pc = "finish", !.outcome = "Cancelled"]
<1>1. v.pc # "unused" /\ v.pc = "recv"
  BY Zenon DEF WorkerMailboxClosed
<1>2. /\ v \in WorkerFrames /\ FrameFits(v) /\ Exists(a) /\ record[a] \in Records(Workers)
      /\ record[a].status \in Terminal => record[a].result # None
  BY <1>1, WorkerFacts, Zenon
<1>3. w \in WorkerFrames /\ w.pc = "finish" /\ w.outcome = "Cancelled" /\ w.aborted = v.aborted
  BY <1>1, <1>2, Zenon DEF WorkerFrames, Terminal
<1>4. worker' = [worker EXCEPT ![a][k] = w]
  BY Zenon DEF ExecutorInv, Shape, WorkerMailboxClosed
<1>5. FrameFits(w)
  BY <1>3 DEF FrameFits, Terminal
<1>7. RecordTo(a, record[a]) /\ UNCHANGED <<leases, caller, scheduler, restarts, sent>>
  BY <1>1, WorkerFacts DEF WorkerMailboxClosed
<1>8. WorkerGoes(a, k, w, record[a])
  BY <1>1, <1>2, <1>3, <1>5, Zenon DEF WorkerGoes, Kept, IsTerminal
<1> HIDE DEF v, w
<1>10. WorkerTo(a, k, w)
  BY <1>3, <1>4, WorkerUpdated, Zenon DEF ExecutorInv
<1> QED
  BY <1>2, <1>3, <1>7, <1>8, <1>10, OneWorkerMoves

(* The join handle is attached, whatever became of the worker. *)
LEMMA LaunchAttachKeeps ==
    ASSUME ExecutorInv, NEW a \in Agents, NEW k \in Workers, LaunchAttach(a, k)
    PROVE  ExecutorInv'
<1> DEFINE v == worker[a][k]
           w == [v EXCEPT !.launch = "none"]
           r == AttachJoinHandle(record[a], k)
<1>1. v.launch = "attach" /\ v.pc \notin {"unused", "blocked"}
  BY Zenon DEF LaunchAttach, ExecutorInv, FramesFit, FrameFits
<1>2. /\ v \in WorkerFrames /\ FrameFits(v) /\ Exists(a) /\ record[a] \in Records(Workers)
      /\ record[a].status \in Terminal => record[a].result # None
  BY <1>1, WorkerFacts
<1>3. w \in WorkerFrames /\ w.pc = v.pc /\ w.mode = v.mode /\ w.inputs = v.inputs
      /\ w.aborted = v.aborted /\ w.outcome = v.outcome /\ w.launch = "none"
  BY <1>1, <1>2, Zenon DEF WorkerFrames
<1>4. worker' = [worker EXCEPT ![a][k] = w]
  BY Zenon DEF ExecutorInv, Shape, LaunchAttach
<1>5. FrameFits(w)
  BY <1>1, <1>2, <1>3, Zenon DEF FrameFits
<1>6. r \in Records(Workers) /\ r.status = record[a].status /\ r.mailbox = record[a].mailbox
      /\ r.join = k /\ r.result = record[a].result
  BY <1>2, <1>1 DEF Records, AttachJoinHandle
<1>7. RecordTo(a, r) /\ UNCHANGED <<leases, caller, scheduler, restarts, sent>>
  <2>1. SetRecord(a, r) /\ UNCHANGED <<leases, caller, scheduler, restarts, sent>>
    BY DEF LaunchAttach
  <2> HIDE DEF r
  <2> QED
    BY <1>6, <2>1, RecordUpdated, Zenon DEF ExecutorInv
<1>8. WorkerGoes(a, k, w, r)
  BY <1>1, <1>2, <1>3, <1>5, <1>6, Zenon DEF WorkerGoes, Kept, IsTerminal, Terminal
<1> HIDE DEF v, w, r
<1>10. WorkerTo(a, k, w)
  BY <1>3, <1>4, WorkerUpdated, Zenon DEF ExecutorInv
<1> QED
  BY <1>2, <1>3, <1>6, <1>7, <1>8, <1>10, OneWorkerMoves, Zenon

(* The outcome is recorded. *)
LEMMA WorkerFinishKeeps ==
    ASSUME ExecutorInv, NEW a \in Agents, NEW k \in Workers, WorkerFinish(a, k)
    PROVE  ExecutorInv'
<1> DEFINE v == worker[a][k]
           w == [v EXCEPT !.pc = "closing"]
           r == Finish(record[a], worker[a][k].outcome)
<1>1. v.pc # "unused" /\ v.pc = "finish"
  BY Zenon DEF WorkerFinish
<1>2. /\ v \in WorkerFrames /\ FrameFits(v) /\ Exists(a) /\ record[a] \in Records(Workers)
      /\ record[a].status \in Terminal => record[a].result # None
  BY <1>1, WorkerFacts, Zenon
<1>3. w \in WorkerFrames /\ w.pc = "closing" /\ w.outcome = v.outcome /\ v.outcome \in Terminal /\ w.aborted = v.aborted
  <2>1. w \in WorkerFrames /\ w.pc = "closing" /\ w.outcome = v.outcome /\ w.aborted = v.aborted
    BY <1>2, Zenon DEF WorkerFrames
  <2>2. v.outcome \in Terminal
    BY <1>1, <1>2, Zenon DEF FrameFits
  <2> QED
    BY <2>1, <2>2, Zenon
<1>4. worker' = [worker EXCEPT ![a][k] = w]
  BY DEF ExecutorInv, Shape, WorkerFinish, Goto
<1>5. FrameFits(w)
  BY <1>1, <1>2, <1>3, Zenon DEF FrameFits
<1>6. r \in Records(Workers) /\ r.status = v.outcome /\ r.result = v.outcome /\ v.outcome # None
      /\ r.mailbox = record[a].mailbox /\ r.join = record[a].join
  BY <1>2, <1>1, <1>3, Zenon DEF Records, Finish, Terminal, Statuses, None
<1>7. RecordTo(a, r) /\ UNCHANGED <<leases, caller, scheduler, restarts, sent>>
  <2>1. SetRecord(a, r) /\ UNCHANGED <<leases, caller, scheduler, restarts, sent>>
    BY Zenon DEF WorkerFinish
  <2> HIDE DEF r
  <2> QED
    BY <1>6, <2>1, RecordUpdated, Zenon DEF ExecutorInv
<1>8. WorkerGoes(a, k, w, r)
  BY <1>1, <1>2, <1>3, <1>5, <1>6, Zenon DEF WorkerGoes, Kept, IsTerminal, Terminal
<1> HIDE DEF v, w, r
<1>10. WorkerTo(a, k, w)
  BY <1>3, <1>4, WorkerUpdated, Zenon DEF ExecutorInv
<1> QED
  BY <1>2, <1>3, <1>6, <1>7, <1>8, <1>10, OneWorkerMoves, Zenon

(* The lease goes back and the worker is over. *)
LEMMA WorkerReleaseKeeps ==
    ASSUME ExecutorInv, NEW a \in Agents, NEW k \in Workers, WorkerRelease(a, k)
    PROVE  ExecutorInv'
<1> DEFINE v == worker[a][k]
           w == Ended(v)
<1>1. v.pc # "unused" /\ v.pc = "closing"
  BY DEF WorkerRelease
<1>2. /\ v \in WorkerFrames /\ FrameFits(v) /\ Exists(a) /\ record[a] \in Records(Workers)
      /\ record[a].status \in Terminal => record[a].result # None
  BY <1>1, WorkerFacts
<1>3. w \in WorkerFrames /\ w.pc = "gone" /\ w.outcome = v.outcome
  BY <1>1, <1>2, EndedFrame DEF ExecutorInv
<1>4. worker' = [worker EXCEPT ![a][k] = w]
  BY DEF ExecutorInv, Shape, WorkerRelease
<1>5. FrameFits(w)
  BY <1>1, <1>2, <1>3, Zenon DEF FrameFits
<1>7. RecordTo(a, record[a]) /\ UNCHANGED <<caller, scheduler, restarts, sent>>
  BY <1>1, WorkerFacts DEF WorkerRelease
<1>8. WorkerGoes(a, k, w, record[a])
  BY <1>1, <1>2, <1>3, <1>5, Zenon DEF WorkerGoes, Kept, IsTerminal
<1>9. leases' = [leases EXCEPT ![a] = {}]
  BY DEF WorkerRelease
<1> HIDE DEF v, w
<1>10. WorkerTo(a, k, w)
  BY <1>3, <1>4, WorkerUpdated, Zenon DEF ExecutorInv
<1> QED
  BY <1>2, <1>3, <1>7, <1>8, <1>9, <1>10, OneWorkerMoves, Zenon

(* An aborted worker is dropped. *)
LEMMA WorkerAbortedKeeps ==
    ASSUME ExecutorInv, NEW a \in Agents, NEW k \in Workers, WorkerAborted(a, k)
    PROVE  ExecutorInv'
<1> DEFINE v == worker[a][k]
           w == Ended(v)
<1>1. v.pc # "unused" /\ v.aborted /\ v.pc \in Awaiting
  BY DEF WorkerAborted, Awaiting
<1>2. /\ v \in WorkerFrames /\ FrameFits(v) /\ Exists(a) /\ record[a] \in Records(Workers)
      /\ record[a].status \in Terminal => record[a].result # None
  BY <1>1, WorkerFacts
<1>3. w \in WorkerFrames /\ w.pc = "gone" /\ w.outcome = v.outcome
  BY <1>1, <1>2, EndedFrame, Zenon DEF ExecutorInv
<1>4. worker' = [worker EXCEPT ![a][k] = w]
  BY Zenon DEF ExecutorInv, Shape, WorkerAborted
<1>5. FrameFits(w)
  BY <1>1, <1>2, <1>3, Zenon DEF FrameFits
<1>7. RecordTo(a, record[a]) /\ UNCHANGED <<leases, caller, scheduler, restarts, sent>>
  BY <1>1, WorkerFacts, Zenon DEF WorkerAborted
<1>8. WorkerGoes(a, k, w, record[a])
  BY <1>1, <1>2, <1>3, <1>5, Zenon DEF WorkerGoes, Kept, IsTerminal, Awaiting
<1> HIDE DEF v, w
<1>10. WorkerTo(a, k, w)
  BY <1>3, <1>4, WorkerUpdated, Zenon DEF ExecutorInv
<1> QED
  BY <1>2, <1>3, <1>7, <1>8, <1>10, OneWorkerMoves

(* A worker step that leaves the record alone, with the frame it makes *)
LEMMA FrameChanges ==
    ASSUME ExecutorInv, NEW a \in Agents, NEW k \in Workers, NEW w \in WorkerFrames,
           worker' = [worker EXCEPT ![a][k] = w],
           UNCHANGED <<record, leases, caller, scheduler, restarts, sent>>,
           worker[a][k].pc \in {"starting", "recv", "waking", "turn", "drain"},
           FrameFits(w), w.pc \in {"turn", "drain", "finish"} \/ (StoreFails /\ w.pc = "gone"),
           w.aborted = worker[a][k].aborted \/ StoreFails
    PROVE  ExecutorInv'
<1>1. /\ Exists(a) /\ record[a] \in Records(Workers) /\ RecordTo(a, record[a])
      /\ record[a].status \in Terminal => record[a].result # None
  BY WorkerFacts, Zenon
<1>2. WorkerGoes(a, k, w, record[a])
  BY <1>1, Zenon DEF WorkerGoes, Kept, IsTerminal
<1>3. WorkerTo(a, k, w)
  BY WorkerUpdated, Zenon DEF ExecutorInv
<1> QED
  BY <1>1, <1>2, <1>3, OneWorkerMoves, Zenon

(* An append fails. *)
LEMMA WorkerAppendFailsKeeps ==
    ASSUME ExecutorInv, NEW a \in Agents, NEW k \in Workers, WorkerAppendFails(a, k)
    PROVE  ExecutorInv'
<1> DEFINE v == worker[a][k]
<1>1. /\ StoreFails /\ v.pc \in {"starting", "waking"}
      /\ UNCHANGED <<record, leases, caller, scheduler, restarts, sent>>
  BY Zenon DEF WorkerAppendFails
<1>2. v \in WorkerFrames
  BY <1>1, WorkerFacts, Zenon
<1>3. CASE worker' = [worker EXCEPT ![a][k] = Ended(@)]
  <2>1. worker' = [worker EXCEPT ![a][k] = Ended(v)]
    BY <1>3, Zenon DEF ExecutorInv, Shape
  <2>2. Ended(v) \in WorkerFrames /\ Ended(v).pc = "gone" /\ FrameFits(Ended(v))
    BY <1>2, EndedFrame, Zenon
  <2> QED
    BY <1>1, <2>1, <2>2, FrameChanges, Zenon
<1>4. CASE worker' = [worker EXCEPT ![a][k].pc = "finish", ![a][k].outcome = "Failed"]
  <2> DEFINE w == [v EXCEPT !.pc = "finish", !.outcome = "Failed"]
  <2>1. w \in WorkerFrames /\ w.pc = "finish" /\ w.outcome = "Failed"
    BY <1>2, Zenon DEF WorkerFrames, Terminal
  <2>2. worker \in [Agents -> [Workers -> WorkerFrames]]
    BY Zenon DEF ExecutorInv, Shape
  <2>3. worker' = [worker EXCEPT ![a][k] = w]
    BY <1>4, <2>2, Zenon DEF WorkerFrames
  <2>4. FrameFits(w)
    BY <2>1, Zenon DEF FrameFits, Terminal
  <2> HIDE DEF w
  <2> QED
    BY <1>1, <2>1, <2>3, <2>4, FrameChanges, Zenon
<1> QED
  BY <1>3, <1>4, Zenon DEF WorkerAppendFails

(* A turn ends. *)
LEMMA WorkerTurnKeeps ==
    ASSUME ExecutorInv, NEW a \in Agents, NEW k \in Workers, WorkerTurn(a, k)
    PROVE  ExecutorInv'
<1> DEFINE v == worker[a][k]
<1>1. v.pc = "turn" /\ UNCHANGED <<record, leases, caller, scheduler, restarts, sent>>
  BY Zenon DEF WorkerTurn
<1>2. v \in WorkerFrames /\ v.inputs # <<>>
  BY <1>1, WorkerFacts, Zenon DEF FrameFits
<1>3. CASE worker' = [worker EXCEPT ![a][k] = [v EXCEPT !.pc = "drain", !.inputs = Tail(@)]]
  <2> DEFINE w == [v EXCEPT !.pc = "drain", !.inputs = Tail(v.inputs)]
  <2>1. v.inputs \in Seq(Messages \cup {First})
    BY <1>2, Zenon DEF WorkerFrames
  <2>2. Tail(v.inputs) \in Seq(Messages \cup {First})
    BY <1>2, <2>1
  <2>3. w \in WorkerFrames /\ w.pc = "drain" /\ w.aborted = v.aborted
    BY <1>2, <2>2, Zenon DEF WorkerFrames
  <2>4. worker' = [worker EXCEPT ![a][k] = w]
    BY <1>3, Zenon
  <2>5. FrameFits(w)
    BY <2>3, Zenon DEF FrameFits
  <2> HIDE DEF w
  <2> QED
    BY <1>1, <2>3, <2>4, <2>5, FrameChanges, Zenon
<1>4. CASE worker' = [worker EXCEPT ![a][k] = [v EXCEPT !.pc = "finish", !.outcome = "Failed"]]
  <2> DEFINE w == [v EXCEPT !.pc = "finish", !.outcome = "Failed"]
  <2>1. w \in WorkerFrames /\ w.pc = "finish" /\ w.outcome = "Failed" /\ w.aborted = v.aborted
    BY <1>2, Zenon DEF WorkerFrames, Terminal
  <2>2. FrameFits(w)
    BY <2>1 DEF FrameFits, Terminal
  <2>3. worker' = [worker EXCEPT ![a][k] = w]
    BY <1>4, Zenon
  <2> HIDE DEF w
  <2> QED
    BY <1>1, <2>1, <2>2, <2>3, FrameChanges, Zenon
<1> QED
  BY <1>3, <1>4, Zenon DEF WorkerTurn

(* The mailbox is drained. *)
LEMMA WorkerDrainKeeps ==
    ASSUME ExecutorInv, NEW a \in Agents, NEW k \in Workers, WorkerDrain(a, k)
    PROVE  ExecutorInv'
<1> DEFINE v == worker[a][k]
<1>1. v.pc = "drain" /\ UNCHANGED <<record, leases, caller, scheduler, restarts, sent>>
  BY Zenon DEF WorkerDrain
<1>2. v \in WorkerFrames
  BY <1>1, WorkerFacts, Zenon
<1>3. v.queue \in Seq(Messages) /\ v.inputs \in Seq(Messages \cup {First})
  BY <1>2, Zenon DEF WorkerFrames
<1>4. CASE v.queue # <<>>
  <2> DEFINE w == [v EXCEPT !.pc = "turn", !.inputs = v.inputs \o v.queue, !.queue = <<>>]
  <2>1. v.queue \in Seq(Messages \cup {First})
    BY <1>3
  <2>2. v.inputs \o v.queue \in Seq(Messages \cup {First}) /\ v.inputs \o v.queue # <<>>
        /\ <<>> \in Seq(Messages)
    BY <1>3, <1>4, <2>1
  <2>3. w \in WorkerFrames /\ w.pc = "turn" /\ w.aborted = v.aborted
        /\ w.inputs = v.inputs \o v.queue
    BY <1>2, <2>2, Zenon DEF WorkerFrames
  <2>4. worker' = [worker EXCEPT ![a][k] = w]
    BY <1>4, Zenon DEF WorkerDrain
  <2>5. FrameFits(w)
    BY <2>2, <2>3, Zenon DEF FrameFits
  <2> HIDE DEF w
  <2> QED
    BY <1>1, <2>3, <2>4, <2>5, FrameChanges, Zenon
<1>5. CASE v.queue = <<>>
  <2>1. PICK s \in Terminal :
           worker' = [worker EXCEPT ![a][k] = [v EXCEPT !.pc = "finish", !.outcome = s]]
    BY <1>5, Zenon DEF WorkerDrain
  <2> DEFINE w == [v EXCEPT !.pc = "finish", !.outcome = s]
  <2>2. w \in WorkerFrames /\ w.pc = "finish" /\ w.outcome = s /\ w.aborted = v.aborted
    BY <1>2, Zenon DEF WorkerFrames
  <2>3. FrameFits(w)
    BY <2>2, Zenon DEF FrameFits
  <2> HIDE DEF w
  <2>4. worker' = [worker EXCEPT ![a][k] = w]
    BY <2>1, Zenon DEF w
  <2> QED
    BY <1>1, <2>2, <2>3, <2>4, FrameChanges, Zenon
<1> QED
  BY <1>4, <1>5

(* A message wakes the worker. *)
LEMMA WorkerReceiveKeeps ==
    ASSUME ExecutorInv, NEW a \in Agents, NEW k \in Workers, WorkerReceive(a, k)
    PROVE  ExecutorInv'
<1> DEFINE v == worker[a][k]
           w == [v EXCEPT !.pc = "waking", !.inputs = <<Head(v.queue)>>, !.queue = Tail(v.queue)]
           r == UpdateStatus(record[a], "Running")
<1>1. v.pc = "recv" /\ v.queue # <<>>
  BY Zenon DEF WorkerReceive
<1>2. /\ v \in WorkerFrames /\ FrameFits(v) /\ Exists(a) /\ record[a] \in Records(Workers)
      /\ record[a].status \in Terminal => record[a].result # None
  BY <1>1, WorkerFacts, Zenon
<1>3. /\ <<Head(v.queue)>> \in Seq(Messages \cup {First}) /\ <<Head(v.queue)>> # <<>>
      /\ Tail(v.queue) \in Seq(Messages)
  <2>1. v.queue \in Seq(Messages)
    BY <1>2, Zenon DEF WorkerFrames
  <2>2. Head(v.queue) \in Messages /\ Tail(v.queue) \in Seq(Messages)
    BY <1>1, <2>1
  <2> QED
    BY <2>2
<1>4. w \in WorkerFrames /\ w.pc = "waking" /\ w.aborted = v.aborted /\ w.inputs = <<Head(v.queue)>>
  BY <1>2, <1>3, Zenon DEF WorkerFrames
<1>5. FrameFits(w)
  BY <1>3, <1>4, Zenon DEF FrameFits
<1>6. r \in Records(Workers) /\ r.status \notin Terminal /\ r.mailbox = record[a].mailbox
      /\ r.join = record[a].join /\ r.result = record[a].result
  BY <1>2 DEF Records, UpdateStatus, Statuses, Active, Terminal
<1>7. SetRecord(a, r) /\ UNCHANGED <<leases, caller, scheduler, restarts, sent>>
  BY Zenon DEF WorkerReceive
<1>8. worker' = [worker EXCEPT ![a][k] = w]
  BY DEF WorkerReceive
<1>9. WorkerGoes(a, k, w, r)
  BY <1>1, <1>2, <1>4, <1>5, <1>6, Zenon DEF WorkerGoes, Kept, IsTerminal, Terminal
<1> HIDE DEF v, w, r
<1>10. WorkerTo(a, k, w)
  BY <1>4, <1>8, WorkerUpdated, Zenon DEF ExecutorInv
<1>11. RecordTo(a, r)
  BY <1>6, <1>7, RecordUpdated, Zenon DEF ExecutorInv
<1> QED
  BY <1>4, <1>6, <1>7, <1>9, <1>10, <1>11, OneWorkerMoves

-----------------------------------------------------------------------------
(* A scheduler's frame changes and nothing moves that it does not hold: what remains
   is that the frame fits and that the plans it lets go are nobody's. *)
LEMMA SchedulerPasses ==
    ASSUME ExecutorInv, NEW b \in DOMAIN Batches, NEW s \in SchedulerFrames,
           scheduler' = [scheduler EXCEPT ![b] = s], SchedulerFits(b, s),
           s.blocked = scheduler[b].blocked,
           \A a \in s.ready : record[a].mailbox = 1 => IsTerminal(a) \/ DepsDone(a),
           UNCHANGED <<record, worker, leases, caller, restarts, sent>>
    PROVE  ExecutorInv'
<1> USE DEF ExecutorInv
<1>1. \A e \in DOMAIN Batches : scheduler'[e] = IF e = b THEN s ELSE scheduler[e]
  BY Zenon DEF Shape
<1>3. Shape'
  BY Zenon DEF Shape
<1>2. FramesFit' /\ Known' /\ EndedHasResult' /\ LeasesExclusive'
  BY Zenon DEF FramesFit, Known, EndedHasResult, LeasesExclusive, Exists, IsTerminal
<1>4. OwnRestarts' /\ OwnBatches' /\ BatchesWhole' /\ LeasesAreOwned'
  BY DEF OwnRestarts, OwnBatches, BatchesWhole, LeasesAreOwned, Exists
<1>5. CallersFit'
  <2>1. ASSUME NEW c \in Callers PROVE CallerFits(caller[c])'
    <3>1. CallerFits(caller[c]) /\ UNCHANGED <<record, worker, caller, restarts>>
      BY DEF CallersFit
    <3> QED
      BY <3>1, Zenon DEF CallerFits, Exists
  <2> QED
    BY <2>1, Zenon DEF CallersFit
<1>6. MailboxIsServed'
  BY Zenon DEF MailboxIsServed, Exists
<1>10. CompletedIsEarned'
  BY DEF CompletedIsEarned, CompletedBy
<1>7. SchedulersFit'
  <2>1. \A e \in DOMAIN Batches : SchedulerFits(e, scheduler'[e])
    BY <1>1, Zenon DEF SchedulersFit
  <2> HIDE DEF ExecutorInv
  <2>2. ASSUME NEW e \in DOMAIN Batches PROVE SchedulerFits(e, scheduler[e])'
    <3> DEFINE z == scheduler'[e]
    <3>1. SchedulerFits(e, z) /\ worker' = worker /\ caller' = caller
      BY <2>1
    <3> HIDE DEF z
    <3>2. /\ z.blocked \subseteq InBatch(e) /\ z.ready \subseteq z.blocked
          /\ \A a \in z.blocked : worker'[a][1].pc = "blocked"
          /\ \A f \in z.failed : f[1] \in z.blocked \ z.ready
          /\ \A f, g \in z.failed : f[1] = g[1] => f = g
          /\ z.pc = "launch" => z.ready = {}
          /\ z.pc \in {"take", "launch"} /\ z.waiting = {} =>
                \A a \in z.blocked \ z.ready : \E f \in z.failed : f[1] = a
          /\ (\E c \in Callers : caller'[c].batch = e) => z.blocked = {}
      BY <3>1, Zenon DEF SchedulerFits
    <3> QED
      BY <3>2, Zenon DEF SchedulerFits, z
  <2> QED
    BY <2>2, Zenon DEF SchedulersFit
<1>8. PlansAreHeld'
  BY <1>1 DEF PlansAreHeld
<1>9. FirstMailbox'
  <2>1. \A x \in Agents : (Waits(x)' <=> Waits(x)) /\ (DepsDone(x)' <=> DepsDone(x))
                           /\ (IsTerminal(x)' <=> IsTerminal(x))
    BY Zenon DEF Waits, DepsDone, CompletedBy, IsTerminal
  <2> QED
    BY <1>1, <2>1, Zenon DEF FirstMailbox
<1> QED
  BY <1>2, <1>3, <1>4, <1>5, <1>6, <1>7, <1>8, <1>9, <1>10, Zenon

(* What the invariant says of a scheduler *)
LEMMA SchedulerFacts ==
    ASSUME ExecutorInv, NEW b \in DOMAIN Batches
    PROVE  /\ scheduler[b] \in SchedulerFrames /\ SchedulerFits(b, scheduler[b])
           /\ scheduler[b].blocked \subseteq Agents /\ scheduler[b].ready \subseteq Agents
           /\ \A a \in scheduler[b].ready : record[a].mailbox = 1 => IsTerminal(a) \/ DepsDone(a)
<1>1. scheduler[b] \in SchedulerFrames /\ SchedulerFits(b, scheduler[b])
  BY Zenon DEF ExecutorInv, Shape, SchedulersFit
<1>2. scheduler[b].blocked \subseteq Agents /\ scheduler[b].ready \subseteq Agents
  BY <1>1, Zenon DEF SchedulerFrames
<1> QED
  BY <1>1, <1>2, Zenon DEF ExecutorInv, FirstMailbox

(* One pass of run_dependency_scheduler sorts the blocked children by dependency_gate. *)
LEMMA SchedulerScanKeeps ==
    ASSUME ExecutorInv, NEW b \in DOMAIN Batches, SchedulerScan(b) PROVE ExecutorInv'
<1> DEFINE s == scheduler[b]
           open == {a \in s.blocked : ~IsTerminal(a)}
           failed == {a \in open : Failures(a) # {}}
           waiting == {a \in open \ failed : Pending(a) # {}}
           verdict(a) == IF \E d \in Failures(a) : record[d].status = "Failed"
                         THEN "Failed" ELSE "Cancelled"
           ready == s.blocked \ (failed \cup waiting)
           fails == {<<a, verdict(a)>> : a \in failed}
           waits == UNION {Pending(a) : a \in waiting}
           new == [pc |-> "take", blocked |-> s.blocked, ready |-> ready, failed |-> fails,
                   waiting |-> waits]
<1>1. s.pc = "scan" /\ UNCHANGED <<record, worker, leases, caller, restarts, sent>>
  BY Zenon DEF SchedulerScan
<1>2. scheduler' = [scheduler EXCEPT ![b] = new]
  BY Zenon DEF SchedulerScan, Schedule
<1>3. SchedulerFits(b, s) /\ s.blocked \subseteq Agents
  BY SchedulerFacts, Zenon
<1>4. \A a \in Agents : Deps[a] \subseteq Agents
  BY ExecutorAssumption, Zenon
<1>5. ASSUME NEW a \in ready PROVE IsTerminal(a) \/ DepsDone(a)
  <2> SUFFICES ASSUME ~IsTerminal(a), NEW d \in Deps[a] PROVE \E k \in Workers : CompletedBy(d, k)
    BY Zenon DEF DepsDone
  <2>1. Failures(a) = {} /\ Pending(a) = {} /\ d \in Agents
    BY <1>3, <1>4, <1>5
  <2>2. record[d].status \in Terminal /\ record[d].status \notin {"Failed", "Cancelled"}
    BY <2>1, Zenon DEF Failures, Pending, IsTerminal
  <2>3. record[d].status = "Completed"
    BY <2>2, Zenon DEF Terminal
  <2> QED
    BY <2>1, <2>3, Zenon DEF ExecutorInv, CompletedIsEarned
<1>6. /\ ready \subseteq s.blocked /\ failed \subseteq s.blocked \ ready
      /\ fails \in SUBSET (Agents \X {"Failed", "Cancelled"}) /\ waits \in SUBSET Agents
  <2>1. \A a \in waiting : Pending(a) \subseteq Agents
    BY <1>3, <1>4, Zenon DEF Pending
  <2>2. ready \subseteq s.blocked /\ failed \subseteq s.blocked \ ready
    BY Zenon
  <2>3. \A a \in failed : verdict(a) \in {"Failed", "Cancelled"}
    BY Zenon
  <2> QED
    BY <1>3, <2>1, <2>2, <2>3
<1>7. ASSUME waits = {}, NEW a \in s.blocked \ ready PROVE \E g \in fails : g[1] = a
  <2>1. a \in failed
    BY <1>7
  <2>2. <<a, verdict(a)>> \in fails /\ <<a, verdict(a)>>[1] = a
    BY <2>1, Zenon
  <2> QED
    BY <2>2, Zenon
<1>8. /\ \A g \in fails : g[1] \in failed
      /\ \A g, h \in fails : g[1] = h[1] => g = h
  OBVIOUS
<1> HIDE DEF ready, fails, waits, failed
<1>9. new \in SchedulerFrames
  BY <1>3, <1>6, Zenon DEF SchedulerFrames
<1>10. SchedulerFits(b, new)
  BY <1>3, <1>6, <1>7, <1>8, Zenon DEF SchedulerFits
<1>11. new.blocked = scheduler[b].blocked /\ new.ready = ready
  OBVIOUS
<1> HIDE DEF new
<1> QED
  BY <1>1, <1>2, <1>5, <1>9, <1>10, <1>11, SchedulerPasses, Zenon

(* A pass of run_dependency_scheduler is over: it waits, or has nothing left to hold. *)
LEMMA SchedulerRestKeeps ==
    ASSUME ExecutorInv, NEW b \in DOMAIN Batches, SchedulerRest(b) PROVE ExecutorInv'
<1> DEFINE s == scheduler[b]
           new == IF s.blocked = {} \/ s.waiting = {} THEN IdleScheduler ELSE [s EXCEPT !.pc = "wait"]
<1>1. /\ s.pc = "launch" /\ s.failed = {} /\ UNCHANGED <<record, worker, leases, caller, restarts, sent>>
      /\ scheduler' = [scheduler EXCEPT ![b] = new]
  BY Zenon DEF SchedulerRest, Schedule
<1>2. s \in SchedulerFrames /\ SchedulerFits(b, s)
  BY SchedulerFacts
<1>3. s.ready = {} /\ (s.waiting = {} => s.blocked = {})
  BY <1>1, <1>2 DEF SchedulerFits
<1>4. CASE s.blocked = {}
  <2>1. new = IdleScheduler
    BY <1>4
  <2>2. /\ new \in SchedulerFrames /\ new.pc = "off" /\ new.blocked = {} /\ new.ready = {}
        /\ new.failed = {}
    BY <2>1, Zenon DEF IdleScheduler, SchedulerFrames
  <2> HIDE DEF new
  <2>3. SchedulerFits(b, new)
    BY <2>2, Zenon DEF SchedulerFits
  <2> QED
    BY <1>1, <1>4, <2>2, <2>3, SchedulerPasses, Zenon
<1>5. CASE s.blocked # {}
  <2>1. new = [s EXCEPT !.pc = "wait"]
    BY <1>3, <1>5, Zenon
  <2>2. /\ new \in SchedulerFrames /\ new.pc = "wait" /\ new.blocked = s.blocked /\ new.ready = s.ready
        /\ new.failed = s.failed
    BY <1>2, <2>1, Zenon DEF SchedulerFrames
  <2> HIDE DEF new
  <2>3. SchedulerFits(b, new)
    BY <1>2, <2>2, Zenon DEF SchedulerFits
  <2> QED
    BY <1>1, <1>3, <2>2, <2>3, SchedulerPasses, Zenon
<1> QED
  BY <1>4, <1>5

(* A dependency has ended and run_dependency_scheduler passes again. *)
LEMMA SchedulerWakeKeeps ==
    ASSUME ExecutorInv, NEW b \in DOMAIN Batches, SchedulerWake(b) PROVE ExecutorInv'
<1> DEFINE s == scheduler[b]
           new == [s EXCEPT !.pc = "scan", !.waiting = {}]
<1>1. /\ s.pc = "wait" /\ UNCHANGED <<record, worker, leases, caller, restarts, sent>>
      /\ scheduler' = [scheduler EXCEPT ![b] = new]
  BY DEF SchedulerWake, Schedule
<1>2. /\ s \in SchedulerFrames /\ SchedulerFits(b, s)
      /\ \A a \in s.ready : record[a].mailbox = 1 => IsTerminal(a) \/ DepsDone(a)
  BY SchedulerFacts
<1>3. /\ new \in SchedulerFrames /\ new.pc = "scan" /\ new.blocked = s.blocked /\ new.ready = s.ready
      /\ new.failed = s.failed
  BY <1>2, Zenon DEF SchedulerFrames
<1> HIDE DEF new
<1>4. SchedulerFits(b, new)
  BY <1>2, <1>3, Zenon DEF SchedulerFits
<1> QED
  BY <1>1, <1>2, <1>3, <1>4, SchedulerPasses, Zenon
=============================================================================
