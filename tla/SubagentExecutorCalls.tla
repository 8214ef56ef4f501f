----------------------- MODULE SubagentExecutorCalls ------------------------
(***************************************************************************)
(* The plans that run_dependency_scheduler hands over, and the calls of    *)
(* the subagent executor, keep the invariant of SubagentExecutorWorkers.   *)
(* What a call does to its own frame is shown once (OneCallerMoves): how   *)
(* spawn, send, resume and cancel begin and return, and spawn's claims.    *)
(* So is what it does to one agent besides (OneCallActs), of which send's  *)
(* queued input is the first case.                                         *)
(***************************************************************************)
EXTENDS SubagentExecutorWorkers

(* The scheduler of b lets a's plan go, and a's first worker goes to w: it is launched,
   failed or dropped. *)
PlanLeaves(b, s, a) ==
    /\ scheduler' = [scheduler EXCEPT ![b] = s]
    /\ s.pc = scheduler[b].pc /\ s.waiting = scheduler[b].waiting
    /\ s.blocked = scheduler[b].blocked \ {a} /\ s.ready = scheduler[b].ready \ {a}
    /\ s.failed \subseteq scheduler[b].failed
    /\ \A f \in scheduler[b].failed : f \in s.failed <=> f[1] # a
PlanGoes(a, w) ==
    /\ WorkerTo(a, 1, w) /\ FrameFits(w)
    /\ w.pc # "gone" => w.aborted = worker[a][1].aborted
    /\ \/ w.pc = "gone" /\ IsTerminal(a)
       \/ w.pc = "prep" /\ (record[a].mailbox = 1 => DepsDone(a))
       \/ w.pc = "finish"

(* The scheduler lets one plan go: its worker is launched, failed or dropped. *)
LEMMA SchedulerHands ==
    ASSUME ExecutorInv, NEW b \in DOMAIN Batches, NEW s \in SchedulerFrames,
           NEW a \in scheduler[b].blocked, NEW w \in WorkerFrames,
           PlanLeaves(b, s, a), PlanGoes(a, w), UNCHANGED <<record, leases, caller, restarts, sent>>
    PROVE  ExecutorInv'
<1> USE DEF ExecutorInv
<1>1. \A e \in DOMAIN Batches : scheduler'[e] = IF e = b THEN s ELSE scheduler[e]
  BY Zenon DEF Shape, PlanLeaves
<1>2. /\ SchedulerFits(b, scheduler[b]) /\ a \in Agents /\ a \in InBatch(b)
      /\ worker[a][1].pc = "blocked" /\ 1 \in Workers
      /\ \A d \in Callers : caller[d].batch # b
  BY SchedulerFacts, WorkerNumbers, Zenon DEF SchedulerFits
<1>3. Shape'
  BY Zenon DEF Shape, PlanLeaves, PlanGoes, WorkerTo
<1>4. w.pc \notin {"unused", "blocked"}
  BY Zenon DEF PlanGoes
<1>5. \A x \in Agents, y \in Workers :
         /\ Kept(worker[x][y], worker'[x][y])
         /\ (worker'[x][y].pc = "unused" <=> worker[x][y].pc = "unused")
         /\ (worker'[x][y].pc = "blocked" <=> worker[x][y].pc = "blocked" /\ ~(x = a /\ y = 1))
  BY <1>2, <1>4 DEF PlanGoes, WorkerTo, Kept
<1>6. FramesFit'
  BY DEF FramesFit, PlanGoes, WorkerTo
<1>7. Known'
  <2>1. \A x \in Agents, y \in Workers : worker'[x][y].pc # "unused" => Exists(x)' /\ y <= restarts' + 1
    BY <1>5 DEF Known, Exists
  <2>2. ASSUME NEW x \in Agents, Exists(x)'
        PROVE  /\ record'[x].mailbox <= restarts' + 1
               /\ record'[x].join # NoWorker => worker'[x][record'[x].join].pc # "unused"
    <3>1. Exists(x) /\ record[x] \in Records(Workers)
      BY <2>2, ExistsFacts, Zenon DEF Exists
    <3>2. record[x].join # NoWorker => record[x].join \in Workers
      BY <3>1, Zenon DEF Records
    <3> QED
      BY <1>5, <3>1, <3>2, Zenon DEF Known
  <2> QED
    BY <2>1, <2>2, Zenon DEF Known
<1>8. CallersFit'
  <2> SUFFICES ASSUME NEW d \in Callers PROVE CallerFits(caller[d])'
    BY Zenon DEF CallersFit
  <2>1. CallerFits(caller[d])
    BY Zenon DEF CallersFit
  <2>2. caller[d].pc \in Restarting => worker'[caller[d].agent][caller[d].k].pc = "unused"
    BY <1>5, <2>1, Zenon DEF CallerFits, Restarting, WithAgent
  <2> QED
    BY <2>1, <2>2, Zenon DEF CallerFits, Exists
<1>9. /\ OwnRestarts' /\ OwnBatches' /\ LeasesAreOwned' /\ LeasesExclusive' /\ EndedHasResult'
  BY Zenon DEF OwnRestarts, OwnBatches, LeasesAreOwned, LeasesExclusive, EndedHasResult, Exists, IsTerminal
<1>10. \A e \in DOMAIN Batches : \A x \in InBatch(e) :
          e # b => x \in Agents /\ x # a /\ worker'[x][1] = worker[x][1]
  BY <1>2, BatchFacts DEF PlanGoes, WorkerTo
<1>11. BatchesWhole'
  <2>1. \A x \in Agents : Exists(x)' <=> Exists(x)
    BY Zenon DEF Exists
  <2>2. ASSUME NEW d \in Callers, caller'[d].pc = "launchBatch", NEW x \in InBatch(caller'[d].batch)
        PROVE  Exists(x)' /\ (Deps[x] # {} => worker'[x][1].pc = "blocked")
    <3>1. PICK e \in DOMAIN Batches : e = caller[d].batch /\ e # b
      BY <1>2, <2>2, Zenon DEF CallersFit, CallerFits, WithBatch
    <3> QED
      BY <1>10, <2>1, <2>2, <3>1 DEF BatchesWhole
  <2>3. \A e \in DOMAIN Batches : InBatch(e) \subseteq Agents
    BY BatchFacts, Zenon
  <2> QED
    BY <2>2, <2>3, Zenon DEF BatchesWhole, Exists
<1>12. SchedulersFit'
  <2> SUFFICES ASSUME NEW e \in DOMAIN Batches PROVE SchedulerFits(e, scheduler[e])'
    BY Zenon DEF SchedulersFit
  <2>1. CASE e # b
    <3>1. SchedulerFits(e, scheduler[e]) /\ scheduler'[e] = scheduler[e]
      BY <1>1, <2>1, Zenon DEF SchedulersFit
    <3> QED
      BY <1>10, <2>1, <3>1 DEF SchedulerFits
  <2>2. CASE e = b
    <3>1. \A x \in s.blocked : worker'[x][1].pc = "blocked"
      BY <1>2, <1>5, SchedulerFacts, Zenon DEF PlanLeaves, SchedulerFits
    <3>2. /\ s.blocked \subseteq InBatch(b) /\ s.ready \subseteq s.blocked
          /\ \A f, g \in s.failed : f[1] = g[1] => f = g
          /\ s.pc = "launch" => s.ready = {}
      BY <1>2, Zenon DEF PlanLeaves, SchedulerFits
    <3>3. \A f \in s.failed : f[1] \in s.blocked \ s.ready
      BY <1>2, Zenon DEF PlanLeaves, SchedulerFits
    <3>4. s.pc \in {"take", "launch"} /\ s.waiting = {} =>
             \A x \in s.blocked \ s.ready : \E f \in s.failed : f[1] = x
      <4> SUFFICES ASSUME s.pc \in {"take", "launch"}, s.waiting = {}, NEW x \in s.blocked \ s.ready
                   PROVE  \E f \in s.failed : f[1] = x
        OBVIOUS
      <4>1. x \in scheduler[b].blocked \ scheduler[b].ready /\ x # a
        BY Zenon DEF PlanLeaves
      <4>2. PICK f \in scheduler[b].failed : f[1] = x
        BY <1>2, <4>1, Zenon DEF PlanLeaves, SchedulerFits
      <4>3. f \in s.failed
        BY <4>1, <4>2, Zenon DEF PlanLeaves
      <4> QED
        BY <4>2, <4>3, Zenon
    <3> QED
      BY <1>1, <1>2, <2>2, <3>1, <3>2, <3>3, <3>4, Zenon DEF SchedulerFits
  <2> QED
    BY <2>1, <2>2, Zenon
<1>13. PlansAreHeld'
  <2> SUFFICES ASSUME NEW x \in Agents, NEW y \in Workers, worker'[x][y].pc = "blocked"
               PROVE  /\ y = 1 /\ Deps[x] # {}
                      /\ \E e \in DOMAIN Batches : x \in InBatch(e) /\
                            (x \in scheduler'[e].blocked \/ \E d \in Callers : caller'[d].batch = e)
    BY Zenon DEF PlansAreHeld
  <2>1. worker[x][y].pc = "blocked" /\ y = 1 /\ x # a /\ Deps[x] # {}
    BY <1>5 DEF PlansAreHeld
  <2> QED
    BY <1>1, <2>1 DEF PlansAreHeld, PlanLeaves
<1>14. MailboxIsServed'
  <2> SUFFICES ASSUME ~StoreFails, NEW x \in Agents, Exists(x)', record'[x].result = None
               PROVE  \/ /\ worker'[x][record'[x].mailbox].pc \notin {"unused", "closing", "gone"}
                         /\ ~worker'[x][record'[x].mailbox].aborted
                      \/ \E d \in Callers : /\ caller'[d].pc = "announce" /\ caller'[d].agent = x
                                            /\ caller'[d].k = record'[x].mailbox
    BY Zenon DEF MailboxIsServed
  <2>1. Exists(x) /\ record[x].result = None
    BY Zenon DEF Exists
  <2>2. record[x].mailbox \in Workers
    BY <2>1, ExistsFacts, Zenon DEF Records
  <2>3. \/ /\ worker[x][record[x].mailbox].pc \notin {"unused", "closing", "gone"}
           /\ ~worker[x][record[x].mailbox].aborted
        \/ \E d \in Callers : /\ caller[d].pc = "announce" /\ caller[d].agent = x
                              /\ caller[d].k = record[x].mailbox
    BY <2>1, Zenon DEF MailboxIsServed
  <2>4. CASE x = a /\ record[x].mailbox = 1
    <3>1. ~IsTerminal(a)
      BY <2>1, <2>4, Zenon DEF EndedHasResult
    <3> QED
      BY <1>2, <2>3, <2>4, <3>1 DEF PlanGoes, WorkerTo
  <2>5. CASE ~(x = a /\ record[x].mailbox = 1)
    BY <2>2, <2>3, <2>5, Zenon DEF PlanGoes, WorkerTo
  <2> QED
    BY <2>4, <2>5, Zenon
<1>15. CompletedIsEarned'
  <2> SUFFICES ASSUME NEW x \in Agents, record'[x].status = "Completed"
               PROVE  \E y \in Workers : CompletedBy(x, y)'
    BY Zenon DEF CompletedIsEarned
  <2>1. \E y \in Workers : CompletedBy(x, y)
    BY Zenon DEF CompletedIsEarned
  <2> QED
    BY <1>5, <2>1, EarnedStaysEarned, Zenon
<1>16. FirstMailbox'
  <2> SUFFICES ASSUME NEW x \in Agents, record'[x].mailbox = 1
               PROVE  /\ \A y \in Workers \ {1} : worker'[x][y].pc \in {"unused", "gone"}
                      /\ Waits(x)' \/ DepsDone(x)'
                      /\ \A e \in DOMAIN Batches :
                            x \in scheduler'[e].ready => IsTerminal(x)' \/ DepsDone(x)'
    BY Zenon DEF FirstMailbox
  <2>1. DepsDone(x) => DepsDone(x)'
    BY <1>5, DoneStaysDone, Zenon
  <2>2. \A y \in Workers \ {1} : worker'[x][y].pc \in {"unused", "gone"}
    BY Zenon DEF FirstMailbox, PlanGoes, WorkerTo
  <2>3. Waits(x)' \/ DepsDone(x)'
    <3>1. CASE x = a
      BY <1>2, <2>1, <3>1, Zenon DEF PlanGoes, WorkerTo, Waits
    <3>2. CASE x # a
      BY <1>2, <2>1, <3>2, Zenon DEF PlanGoes, WorkerTo, Waits, FirstMailbox
    <3> QED
      BY <3>1, <3>2, Zenon
  <2>4. \A e \in DOMAIN Batches : x \in scheduler'[e].ready => IsTerminal(x)' \/ DepsDone(x)'
    BY <1>1, <2>1 DEF FirstMailbox, IsTerminal, PlanLeaves
  <2> QED
    BY <2>2, <2>3, <2>4, Zenon
<1> QED
  BY <1>3, <1>6, <1>7, <1>8, <1>9, <1>11, <1>12, <1>13, <1>14, <1>15, <1>16, Zenon

(* run_dependency_scheduler launches a ready child, or drops one that has ended. *)
LEMMA SchedulerTakeKeeps ==
    ASSUME ExecutorInv, NEW b \in DOMAIN Batches, SchedulerTake(b) PROVE ExecutorInv'
<1> DEFINE s == scheduler[b]
<1>1. s.pc = "take" /\ UNCHANGED <<record, leases, caller, restarts, sent>>
  BY Zenon DEF SchedulerTake
<1>2. /\ s \in SchedulerFrames /\ SchedulerFits(b, s) /\ s.blocked \subseteq Agents
      /\ \A a \in s.ready : record[a].mailbox = 1 => IsTerminal(a) \/ DepsDone(a)
  BY SchedulerFacts, Zenon
<1>3. ASSUME s.ready = {}, Schedule(b, [s EXCEPT !.pc = "launch"]), UNCHANGED worker
      PROVE  ExecutorInv'
  <2> DEFINE new == [s EXCEPT !.pc = "launch"]
  <2>1. /\ new \in SchedulerFrames /\ new.pc = "launch" /\ new.blocked = s.blocked
        /\ new.ready = s.ready /\ new.failed = s.failed /\ new.waiting = s.waiting
    BY <1>2, Zenon DEF SchedulerFrames
  <2>2. scheduler' = [scheduler EXCEPT ![b] = new]
    BY <1>3 DEF Schedule
  <2> HIDE DEF new
  <2>3. SchedulerFits(b, new)
    BY <1>1, <1>2, <1>3, <2>1, Zenon DEF SchedulerFits
  <2> QED
    BY <1>1, <1>2, <1>3, <2>1, <2>2, <2>3, SchedulerPasses, Zenon
<1>4. ASSUME NEW a \in s.ready,
             Schedule(b, [s EXCEPT !.ready = @ \ {a}, !.blocked = @ \ {a}]),
             worker' = [worker EXCEPT ![a][1] =
                           IF IsTerminal(a) THEN Ended(@)
                           ELSE [@ EXCEPT !.pc = "prep", !.launch = "prep"]]
      PROVE  ExecutorInv'
  <2> DEFINE new == [s EXCEPT !.ready = @ \ {a}, !.blocked = @ \ {a}]
             v == worker[a][1]
             p == [v EXCEPT !.pc = "prep", !.launch = "prep"]
             w == IF IsTerminal(a) THEN Ended(v) ELSE p
  <2>1. a \in Agents /\ a \in s.blocked /\ v.pc = "blocked" /\ 1 \in Workers
    BY <1>2, WorkerNumbers, Zenon DEF SchedulerFits
  <2>2. /\ new \in SchedulerFrames /\ new.pc = s.pc /\ new.blocked = s.blocked \ {a}
        /\ new.ready = s.ready \ {a} /\ new.failed = s.failed /\ new.waiting = s.waiting
    BY <1>2, Zenon DEF SchedulerFrames
  <2>3. scheduler' = [scheduler EXCEPT ![b] = new]
    BY <1>4, Zenon DEF Schedule
  <2>4. \A f \in s.failed : f[1] # a
    BY <1>2 DEF SchedulerFits
  <2>5. v \in WorkerFrames /\ FrameFits(v) /\ worker \in [Agents -> [Workers -> WorkerFrames]]
    BY <2>1 DEF ExecutorInv, Shape, FramesFit
  <2>6. /\ p \in WorkerFrames /\ p.pc = "prep" /\ p.mode = v.mode /\ p.inputs = v.inputs
        /\ p.aborted = v.aborted
    BY <2>5, Zenon DEF WorkerFrames
  <2>7. worker' = [worker EXCEPT ![a][1] = w]
    BY <1>4, <2>1, <2>5, Zenon
  <2> HIDE DEF new, v, p
  <2>8. FrameFits(p)
    BY <2>1, <2>5, <2>6, Zenon DEF FrameFits
  <2>9. /\ w \in WorkerFrames /\ FrameFits(w)
        /\ (w.pc = "gone" /\ IsTerminal(a)) \/ (w.pc = "prep" /\ ~IsTerminal(a) /\ w.aborted = v.aborted)
    BY <2>5, <2>6, <2>8, EndedFrame, Zenon
  <2> HIDE DEF w
  <2>10. WorkerTo(a, 1, w)
    BY <2>1, <2>7, <2>9, WorkerUpdated, Zenon DEF ExecutorInv
  <2> QED
    <3>1. PlanLeaves(b, new, a)
      BY <2>2, <2>3, <2>4, Zenon DEF PlanLeaves
    <3>2. PlanGoes(a, w)
      BY <1>2, <2>9, <2>10, Zenon DEF PlanGoes, v
    <3> QED
      BY <1>1, <2>1, <2>2, <2>9, <3>1, <3>2, SchedulerHands, Zenon
<1> QED
  BY <1>3, <1>4, Zenon DEF SchedulerTake

(* fail_blocked_child ends a child whose dependency failed. *)
LEMMA SchedulerFailKeeps ==
    ASSUME ExecutorInv, NEW b \in DOMAIN Batches, SchedulerFail(b) PROVE ExecutorInv'
<1> DEFINE s == scheduler[b]
<1>1. s.pc = "launch" /\ UNCHANGED <<record, leases, caller, restarts, sent>>
  BY Zenon DEF SchedulerFail
<1>2. s \in SchedulerFrames /\ SchedulerFits(b, s) /\ s.blocked \subseteq Agents
  BY SchedulerFacts, Zenon
<1>3. PICK f \in s.failed :
         /\ Schedule(b, [s EXCEPT !.failed = @ \ {f}, !.blocked = @ \ {f[1]}])
         /\ worker' = [worker EXCEPT ![f[1]][1].pc = "finish", ![f[1]][1].launch = "fail",
                                     ![f[1]][1].outcome = f[2]]
  BY Zenon DEF SchedulerFail
<1>4. f \in Agents \X {"Failed", "Cancelled"}
  BY <1>2, Zenon DEF SchedulerFrames
<1>5. PICK a \in Agents, o \in {"Failed", "Cancelled"} : f[1] = a /\ f[2] = o
  BY <1>4
<1> DEFINE new == [s EXCEPT !.failed = @ \ {f}, !.blocked = @ \ {a}]
           v == worker[a][1]
           w == [v EXCEPT !.pc = "finish", !.launch = "fail", !.outcome = o]
<1>6. a \in s.blocked /\ s.ready = {} /\ v.pc = "blocked" /\ 1 \in Workers
  BY <1>1, <1>2, <1>5, WorkerNumbers, Zenon DEF SchedulerFits
<1>7. /\ new \in SchedulerFrames /\ new.pc = s.pc /\ new.blocked = s.blocked \ {a}
      /\ new.ready = s.ready /\ new.failed = s.failed \ {f} /\ new.waiting = s.waiting
  BY <1>2, Zenon DEF SchedulerFrames
<1>8. scheduler' = [scheduler EXCEPT ![b] = new]
  BY <1>3, <1>5, Zenon DEF Schedule
<1>9. \A g \in s.failed : g \in s.failed \ {f} <=> g[1] # a
  BY <1>2, <1>5, Zenon DEF SchedulerFits
<1>10. v \in WorkerFrames /\ worker \in [Agents -> [Workers -> WorkerFrames]]
  BY <1>6, Zenon DEF ExecutorInv, Shape
<1>11. w \in WorkerFrames /\ w.pc = "finish" /\ w.outcome = o /\ w.aborted = v.aborted
  <2>1. o \in Terminal
    BY Zenon DEF Terminal
  <2> QED
    BY <1>10, <2>1, Zenon DEF WorkerFrames
<1>12. worker' = [worker EXCEPT ![a][1] = w]
  <2>1. worker' = [worker EXCEPT ![a][1].pc = "finish", ![a][1].launch = "fail", ![a][1].outcome = o]
    BY <1>3, <1>5, Zenon
  <2> QED
    BY <1>6, <1>10, <2>1, ZenonT(60) DEF WorkerFrames
<1> HIDE DEF new, w
<1>13. FrameFits(w)
  BY <1>11, Zenon DEF FrameFits, Terminal
<1>14. WorkerTo(a, 1, w)
  BY <1>6, <1>11, <1>12, WorkerUpdated, Zenon DEF ExecutorInv
<1> QED
  <2>1. s.ready = s.ready \ {a}
    BY <1>6, Zenon
  <2>2. PlanLeaves(b, new, a)
    BY <1>7, <1>8, <1>9, <2>1, Zenon DEF PlanLeaves
  <2>3. PlanGoes(a, w)
    BY <1>11, <1>13, <1>14, Zenon DEF PlanGoes
  <2> QED
    BY <1>1, <1>6, <1>7, <1>11, <2>2, <2>3, SchedulerHands, Zenon

-----------------------------------------------------------------------------
(* What a step of one call has to keep that touches neither registry nor workers *)
CallerGoes(c, f) ==
    /\ caller[c].pc # "announce" /\ f.pc # "launchBatch"
    /\ f.pc \in Restarting => f.k > restarts + 1 \/ (caller[c].pc \in Restarting /\ f.k = caller[c].k)
    /\ f.batch # 0 => \/ f.batch = caller[c].batch
                      \/ (\A d \in Callers : caller[d].batch # f.batch) /\ scheduler[f.batch].blocked = {}
    /\ caller[c].batch # 0 => f.batch = caller[c].batch \/ caller[c].pc = "claim"
    /\ f.pc = "claim" => \A a \in InBatch(f.batch) : ~Exists(a)

(* What began by one restart has begun by a later one. *)
LEMMA LaterRestart ==
    ASSUME NEW n \in Nat, NEW i \in Nat, NEW j \in Nat, n <= i + 1, i <= j
    PROVE  n <= j + 1
OBVIOUS

(* One call moves and touches neither registry nor workers. *)
CallTo(c, f) ==
    /\ caller' = [caller EXCEPT ![c] = f]
    /\ restarts' \in 0..MaxRestarts /\ restarts <= restarts'
    /\ sent' = sent \/ (sent < MaxSends /\ sent' = sent + 1)
    /\ leases' \in [Agents -> SUBSET UNION {Files[a] : a \in Agents}]
    /\ UNCHANGED <<record, worker, scheduler>>

(* If it moves as CallerGoes says, the invariant stays, if it does for the leases. *)
LEMMA OneCallerMoves ==
    ASSUME ExecutorInv, NEW c \in Callers, NEW f \in CallerFrames, CallTo(c, f),
           CallerGoes(c, f), CallerFits(f)', LeasesAreOwned', LeasesExclusive'
    PROVE  ExecutorInv'
<1>1. \A d \in Callers : caller'[d] = IF d = c THEN f ELSE caller[d]
  BY Zenon DEF ExecutorInv, Shape, CallTo
<1>2. record' = record /\ worker' = worker /\ scheduler' = scheduler
  BY Zenon DEF CallTo
<1>3. Shape'
  BY ExecutorAssumption DEF ExecutorInv, Shape, CallTo
<1>4. restarts \in Nat /\ restarts' \in Nat /\ restarts <= restarts'
  BY <1>3 DEF ExecutorInv, Shape, CallTo
<1>5. FramesFit' /\ EndedHasResult' /\ CompletedIsEarned'
  BY <1>2 DEF ExecutorInv, FramesFit, EndedHasResult, IsTerminal, CompletedIsEarned, CompletedBy
<1>6. FirstMailbox'
  BY <1>2 DEF ExecutorInv, FirstMailbox, Waits, IsTerminal, DepsDone, CompletedBy
<1>7. Known'
  <2>1. ASSUME NEW x \in Agents, NEW y \in Workers, worker[x][y].pc # "unused"
        PROVE  Exists(x) /\ y <= restarts' + 1
    <3>1. y \in Nat /\ y <= restarts + 1 /\ Exists(x)
      BY <2>1, WorkerNumbers DEF ExecutorInv, Known
    <3> QED
      BY <1>4, <3>1, LaterRestart, Zenon
  <2>2. ASSUME NEW x \in Agents, Exists(x) PROVE record[x].mailbox <= restarts' + 1
    <3>1. record[x].mailbox \in Nat /\ record[x].mailbox <= restarts + 1
      BY <2>2, WorkerNumbers, ExistsFacts, Zenon DEF ExecutorInv, Known, Records
    <3> QED
      BY <1>4, <3>1, LaterRestart, Zenon
  <2>3. \A x \in Agents : Exists(x)' <=> Exists(x)
    BY <1>2 DEF Exists
  <2>4. \A x \in Agents : Exists(x) /\ record[x].join # NoWorker => worker[x][record[x].join].pc # "unused"
    BY Zenon DEF ExecutorInv, Known
  <2> QED
    BY <1>2, <2>1, <2>2, <2>3, <2>4, Zenon DEF Known
<1>8. CallersFit'
  <2> SUFFICES ASSUME NEW d \in Callers, d # c PROVE CallerFits(caller[d])'
    BY <1>1, Zenon DEF CallersFit
  <2> DEFINE g == caller[d]
  <2>1. CallerFits(g) /\ caller'[d] = g /\ g \in CallerFrames
    BY <1>1 DEF ExecutorInv, CallersFit, Shape
  <2>2. g.k \in Nat
    BY <2>1, Zenon DEF CallerFrames
  <2>3. g.pc \in WithAgent => g.agent \in Agents /\ Exists(g.agent)'
    BY <1>2, <2>1, Zenon DEF CallerFits, Exists
  <2>4. g.pc \in Restarting \cup {"launch"} => g.k \in Workers /\ g.k >= 2 /\ g.k <= restarts + 1
    BY <2>1, Zenon DEF CallerFits
  <2>5. g.pc \in Restarting \cup {"launch"} => g.k \in Workers /\ g.k >= 2 /\ g.k <= restarts' + 1
    BY <1>4, <2>2, <2>4
  <2>6. /\ g.pc \in Restarting => worker'[g.agent][g.k].pc = "unused"
        /\ g.pc = "announce" => record'[g.agent].mailbox # 1
    BY <1>2, <2>1, Zenon DEF CallerFits
  <2> QED
    BY <2>1, <2>3, <2>5, <2>6, Zenon DEF CallerFits
<1>9. OwnRestarts'
  <2>1. \A d \in Callers : caller[d].pc \in Restarting => caller[d].k <= restarts + 1 /\ caller[d].k \in Nat
    BY Zenon DEF ExecutorInv, CallersFit, CallerFits, Shape, CallerFrames
  <2>2. f.k \in Nat
    BY DEF CallerFrames
  <2>3. ASSUME NEW d \in Callers, d # c, f.pc \in Restarting, caller[d].pc \in Restarting
        PROVE  f.k # caller[d].k
    <3>1. f.k > restarts + 1 \/ (caller[c].pc \in Restarting /\ f.k = caller[c].k)
      BY <2>3 DEF CallerGoes
    <3>2. CASE f.k > restarts + 1
      BY <1>4, <2>1, <2>2, <2>3, <3>2
    <3>3. CASE caller[c].pc \in Restarting /\ f.k = caller[c].k
      BY <2>3, <3>3 DEF ExecutorInv, OwnRestarts
    <3> QED
      BY <3>1, <3>2, <3>3, Zenon
  <2> QED
    BY <1>1, <2>3 DEF ExecutorInv, OwnRestarts
<1>10. OwnBatches'
  BY <1>1 DEF ExecutorInv, OwnBatches, CallerGoes
<1>11. BatchesWhole'
  BY <1>1, <1>2 DEF ExecutorInv, BatchesWhole, CallerGoes, Exists
<1>12. SchedulersFit'
  <2> SUFFICES ASSUME NEW b \in DOMAIN Batches PROVE SchedulerFits(b, scheduler[b])'
    BY DEF SchedulersFit
  <2>1. SchedulerFits(b, scheduler[b])
    BY Zenon DEF ExecutorInv, SchedulersFit
  <2>2. (\E d \in Callers : caller'[d].batch = b) => scheduler[b].blocked = {}
    <3> SUFFICES ASSUME NEW d \in Callers, caller'[d].batch = b PROVE scheduler[b].blocked = {}
      OBVIOUS
    <3>1. CASE caller[d].batch = b
      BY <2>1, <3>1, Zenon DEF SchedulerFits
    <3>2. CASE caller[d].batch # b
      <4>1. d = c /\ f.batch = b /\ b # 0
        BY <1>1, <3>2, BatchFacts
      <4> QED
        BY <3>2, <4>1 DEF CallerGoes
    <3> QED
      BY <3>1, <3>2
  <2> QED
    BY <1>2, <2>1, <2>2, Zenon DEF SchedulerFits
<1>13. PlansAreHeld'
  <2>1. ASSUME NEW x \in Agents, NEW y \in Workers, worker[x][y].pc = "blocked"
        PROVE  /\ y = 1 /\ Deps[x] # {}
               /\ \E b \in DOMAIN Batches : x \in InBatch(b) /\
                     (x \in scheduler[b].blocked \/ \E d \in Callers : caller'[d].batch = b)
    <3>1. PICK b \in DOMAIN Batches : x \in InBatch(b) /\
              (x \in scheduler[b].blocked \/ \E d \in Callers : caller[d].batch = b)
      BY <2>1 DEF ExecutorInv, PlansAreHeld
    <3>2. y = 1 /\ Deps[x] # {} /\ Exists(x)
      BY <2>1, Zenon DEF ExecutorInv, PlansAreHeld, Known
    <3>3. ASSUME NEW d \in Callers, caller[d].batch = b PROVE \E e \in Callers : caller'[e].batch = b
      <4>1. caller[d].pc = "claim" => ~Exists(x)
        BY <3>1, <3>3, Zenon DEF ExecutorInv, BatchesWhole
      <4>2. b # 0
        BY BatchFacts
      <4> QED
        BY <1>1, <3>2, <3>3, <4>1, <4>2, Zenon DEF CallerGoes
    <3> QED
      BY <3>1, <3>2, <3>3
  <2> QED
    BY <1>2, <2>1, Zenon DEF PlansAreHeld
<1>14. MailboxIsServed'
  BY <1>1, <1>2 DEF ExecutorInv, MailboxIsServed, CallerGoes, Exists
<1> QED
  BY <1>3, <1>5, <1>6, <1>7, <1>8, <1>9, <1>10, <1>11, <1>12, <1>13, <1>14 DEF ExecutorInv

-----------------------------------------------------------------------------
(* The frame of a caller between two calls *)
LEMMA IdleFrame ==
    /\ IdleCaller \in CallerFrames /\ IdleCaller.pc = "idle" /\ IdleCaller.batch = 0
    /\ CallerFits(IdleCaller) /\ CallerFits(IdleCaller)'
<1>1. IdleCaller \in CallerFrames /\ IdleCaller.pc = "idle" /\ IdleCaller.batch = 0
  BY DEF IdleCaller, CallerFrames, None
<1> QED
  BY <1>1 DEF CallerFits, WithAgent, WithBatch, Restarting

(* What the invariant says of a call in progress *)
LEMMA CallFacts ==
    ASSUME ExecutorInv, NEW c \in Callers
    PROVE  /\ caller[c] \in CallerFrames /\ CallerFits(caller[c])
           /\ caller[c].pc \in WithAgent => /\ caller[c].agent \in Agents /\ Exists(caller[c].agent)
                                            /\ record[caller[c].agent] \in Records(Workers)
           /\ caller[c].pc \in WithBatch => caller[c].batch \in DOMAIN Batches
           /\ caller[c].pc \notin WithBatch => caller[c].batch = 0
           /\ restarts \in 0..MaxRestarts
<1>1. caller[c] \in CallerFrames /\ CallerFits(caller[c]) /\ restarts \in 0..MaxRestarts
  BY DEF ExecutorInv, Shape, CallersFit
<1> QED
  BY <1>1, ExistsFacts, Zenon DEF CallerFits, ExecutorInv

(* Leases that shrink stay exclusive. *)
LEMMA LeasesShrink ==
    ASSUME ExecutorInv, leases' \in [Agents -> SUBSET UNION {Files[a] : a \in Agents}],
           \A x \in Agents : leases'[x] \subseteq leases[x]
    PROVE  LeasesExclusive'
  BY DEF ExecutorInv, LeasesExclusive

(* A claim that conflicts with nobody's lease keeps them exclusive. *)
LEMMA ClaimKeepsExclusive ==
    ASSUME ExecutorInv, NEW a \in Agents, Claimable(a), leases' = [leases EXCEPT ![a] = @ \cup Files[a]]
    PROVE  /\ leases' \in [Agents -> SUBSET UNION {Files[x] : x \in Agents}] /\ LeasesExclusive'
           /\ \A x \in Agents : x # a => leases'[x] = leases[x]
<1>1. leases \in [Agents -> SUBSET UNION {Files[x] : x \in Agents}]
  BY DEF ExecutorInv, Shape
<1>2. \A x \in Agents : leases'[x] = IF x = a THEN leases[x] \cup Files[a] ELSE leases[x]
  BY <1>1, Zenon
<1>3. leases' \in [Agents -> SUBSET UNION {Files[x] : x \in Agents}]
  BY <1>1
<1>4. ASSUME NEW x \in Agents, NEW y \in Agents, x # y, NEW p \in leases'[x], NEW q \in leases'[y]
      PROVE  ~Overlap(p, q)
  <2>1. p \in leases[x] /\ q \in leases[y] => ~Overlap(p, q)
    BY <1>4 DEF ExecutorInv, LeasesExclusive
  <2>2. \A z \in Agents \ {a} : \A s \in Files[a], u \in leases[z] : ~Overlap(s, u)
    BY DEF Claimable
  <2>3. Overlap(q, p) <=> Overlap(p, q)
    BY DEF Overlap
  <2>4. CASE x = a
    BY <1>2, <1>4, <2>1, <2>2, <2>4
  <2>5. CASE y = a
    BY <1>2, <1>4, <2>1, <2>2, <2>3, <2>5
  <2>6. CASE x # a /\ y # a
    BY <1>2, <1>4, <2>1, <2>6
  <2> QED
    BY <2>4, <2>5, <2>6
<1> QED
  BY <1>2, <1>3, <1>4 DEF LeasesExclusive

(* Leases keep their owners when no claiming call ends. *)
LEMMA OwnersStay ==
    ASSUME ExecutorInv, NEW c \in Callers, NEW f \in CallerFrames, caller' = [caller EXCEPT ![c] = f],
           caller[c].pc = "claim" => f.pc = "claim" /\ f.batch = caller[c].batch,
           \A x \in Agents : Exists(x) => Exists(x)',
           \A x \in Agents : leases'[x] # {} =>
              \/ leases[x] # {} \/ Exists(x)
              \/ f.pc = "claim" /\ x \in InBatch(f.batch)
    PROVE  LeasesAreOwned'
<1>1. \A d \in Callers : caller'[d] = IF d = c THEN f ELSE caller[d]
  BY DEF ExecutorInv, Shape
<1> QED
  BY <1>1 DEF ExecutorInv, LeasesAreOwned

(* The claims of a batch are undone by the call that ends. *)
LEMMA ClaimsUndone ==
    ASSUME ExecutorInv, NEW c \in Callers, caller[c].pc = "claim", UNCHANGED <<record, worker>>,
           leases' = [x \in Agents |-> IF x \in InBatch(caller[c].batch) THEN {} ELSE leases[x]],
           Return(c), UNCHANGED <<scheduler, restarts, sent>>
    PROVE  ExecutorInv'
<1>1. \A d \in Callers : caller'[d] = IF d = c THEN IdleCaller ELSE caller[d]
  BY DEF ExecutorInv, Shape, Return, Frame
<1>2. leases' \in [Agents -> SUBSET UNION {Files[a] : a \in Agents}]
  BY DEF ExecutorInv, Shape
<1>3. LeasesExclusive'
  BY <1>2, LeasesShrink
<1>4. LeasesAreOwned'
  BY <1>1 DEF ExecutorInv, LeasesAreOwned, Exists
<1>5. CallerGoes(c, IdleCaller)
  BY IdleFrame DEF CallerGoes, Restarting
<1>6. restarts' \in 0..MaxRestarts /\ restarts <= restarts'
  BY DEF ExecutorInv, Shape
<1>7. caller' = [caller EXCEPT ![c] = IdleCaller]
  BY DEF Return, Frame
<1> QED
  BY <1>2, <1>3, <1>4, <1>5, <1>6, <1>7, IdleFrame, OneCallerMoves, Zenon DEF CallTo

(* A call that is not about a batch returns, and gives back leases at most. *)
LEMMA CallReturns ==
    ASSUME ExecutorInv, NEW c \in Callers, caller[c].pc \notin WithBatch, caller[c].pc # "announce",
           Return(c), leases' \in [Agents -> SUBSET UNION {Files[a] : a \in Agents}],
           \A x \in Agents : leases'[x] \subseteq leases[x],
           UNCHANGED <<record, worker, scheduler, restarts, sent>>
    PROVE  ExecutorInv'
<1>1. caller' = [caller EXCEPT ![c] = IdleCaller]
  BY DEF Return, Frame
<1>2. LeasesExclusive'
  BY LeasesShrink
<1>3. LeasesAreOwned'
  <2>1. \A x \in Agents : leases'[x] # {} => leases[x] # {}
    OBVIOUS
  <2>2. \A x \in Agents : Exists(x) => Exists(x)'
    BY DEF Exists
  <2>3. caller[c].pc # "claim"
    BY DEF WithBatch
  <2> QED
    BY <1>1, <2>1, <2>2, <2>3, IdleFrame, OwnersStay, Zenon
<1>4. caller[c].batch = 0 /\ restarts \in 0..MaxRestarts
  BY CallFacts
<1>5. CallerGoes(c, IdleCaller)
  BY <1>4, IdleFrame, Zenon DEF CallerGoes, Restarting
<1>6. restarts' \in 0..MaxRestarts /\ restarts <= restarts'
  BY <1>4
<1> QED
  BY <1>1, <1>2, <1>3, <1>5, <1>6, IdleFrame, OneCallerMoves, Zenon DEF CallTo

(* resume gives its lease back when the session cannot be loaded or the agent runs. *)
LEMMA ResumeFailsKeeps ==
    ASSUME ExecutorInv, NEW c \in Callers, ResumeFails(c) PROVE ExecutorInv'
<1>1. caller[c].pc = "load" /\ Return(c) /\ UNCHANGED <<record, worker, scheduler, restarts, sent>>
      /\ leases' = [leases EXCEPT ![caller[c].agent] = {}]
  BY DEF ResumeFails
<1>2. leases \in [Agents -> SUBSET UNION {Files[a] : a \in Agents}]
  BY DEF ExecutorInv, Shape
<1>3. leases' \in [Agents -> SUBSET UNION {Files[a] : a \in Agents}]
      /\ \A x \in Agents : leases'[x] \subseteq leases[x]
  BY <1>1, <1>2, Zenon
<1> QED
  BY <1>1, <1>3, CallReturns, Zenon DEF WithBatch

(* cancel gives back the lease, whoever holds the record by then. *)
LEMMA CancelReleaseKeeps ==
    ASSUME ExecutorInv, NEW c \in Callers, CancelRelease(c) PROVE ExecutorInv'
<1>1. caller[c].pc = "unlease" /\ Return(c) /\ UNCHANGED <<record, worker, scheduler, restarts, sent>>
      /\ leases' = [leases EXCEPT ![caller[c].agent] = {}]
  BY Zenon DEF CancelRelease
<1>2. leases \in [Agents -> SUBSET UNION {Files[a] : a \in Agents}]
  BY Zenon DEF ExecutorInv, Shape
<1>3. leases' \in [Agents -> SUBSET UNION {Files[a] : a \in Agents}]
      /\ \A x \in Agents : leases'[x] \subseteq leases[x]
  BY <1>1, <1>2, Zenon
<1> QED
  BY <1>1, <1>3, CallReturns, Zenon DEF WithBatch

(* resume and interrupt return once launch_child_async is over. *)
LEMMA LaunchReturnKeeps ==
    ASSUME ExecutorInv, NEW c \in Callers, LaunchReturn(c) PROVE ExecutorInv'
<1>1. caller[c].pc = "launch" /\ Return(c)
      /\ UNCHANGED <<record, worker, scheduler, restarts, sent, leases>>
  BY Zenon DEF LaunchReturn
<1>2. leases' \in [Agents -> SUBSET UNION {Files[a] : a \in Agents}]
      /\ \A x \in Agents : leases'[x] \subseteq leases[x]
  BY <1>1 DEF ExecutorInv, Shape
<1> QED
  BY <1>1, <1>2, CallReturns DEF WithBatch

(* A spawn whose append_spawn_events fails undoes its claims. *)
LEMMA SpawnEventsFailKeeps ==
    ASSUME ExecutorInv, NEW c \in Callers, SpawnEventsFail(c) PROVE ExecutorInv'
  BY ClaimsUndone DEF SpawnEventsFail

-----------------------------------------------------------------------------
(* An idle caller takes up an agent. *)
LEMMA CallBegins ==
    ASSUME ExecutorInv, NEW c \in Callers, NEW f \in CallerFrames, caller' = [caller EXCEPT ![c] = f],
           caller[c].pc = "idle", f.pc \in WithAgent, f.batch = 0,
           f.agent \in Agents, Exists(f.agent),
           f.pc = "queue" => f.k \in Messages,
           sent' = sent \/ (sent < MaxSends /\ sent' = sent + 1),
           \/ f.pc \in {"queue", "cancel"} /\ restarts' = restarts
           \/ f.pc \in {"rollback", "load"} /\ restarts < MaxRestarts
                 /\ restarts' = restarts + 1 /\ f.k = restarts + 2,
           leases' \in [Agents -> SUBSET UNION {Files[a] : a \in Agents}], LeasesExclusive',
           \A x \in Agents : leases'[x] # {} => leases[x] # {} \/ Exists(x),
           UNCHANGED <<record, worker, scheduler>>
    PROVE  ExecutorInv'
<1>1. caller[c].batch = 0 /\ restarts \in 0..MaxRestarts
  BY CallFacts DEF WithBatch
<1>2. restarts' \in 0..MaxRestarts /\ restarts <= restarts' /\ restarts \in Nat
  BY <1>1, ExecutorAssumption
<1>3. f.pc \in {"rollback", "load"} =>
         f.k \in Workers /\ f.k > restarts + 1 /\ f.k >= 2 /\ f.k <= restarts' + 1
  BY <1>1, <1>2, WorkerNumbers
<1>4. f.pc \in {"rollback", "load"} => worker[f.agent][f.k].pc = "unused"
  BY <1>2, <1>3, WorkerNumbers DEF ExecutorInv, Known
<1>5. CallerFits(f)'
  BY <1>3, <1>4 DEF CallerFits, WithAgent, WithBatch, Restarting, Exists
<1>6. CallerGoes(c, f)
  BY <1>1, <1>3 DEF CallerGoes, Restarting, WithAgent
<1>7. LeasesAreOwned'
  <2>1. \A x \in Agents : Exists(x) => Exists(x)'
    BY DEF Exists
  <2> QED
    BY <2>1, OwnersStay, Zenon
<1> QED
  BY <1>2, <1>5, <1>6, <1>7, OneCallerMoves, Zenon DEF CallTo

(* cancel finds an agent that is not terminal. *)
LEMMA CancelBeginKeeps ==
    ASSUME ExecutorInv, NEW c \in Callers, NEW a \in Agents, CancelBegin(c, a) PROVE ExecutorInv'
<1> DEFINE f == [IdleCaller EXCEPT !.pc = "cancel", !.agent = a]
<1>1. f \in CallerFrames /\ f.pc = "cancel" /\ f.agent = a /\ f.batch = 0
  BY Zenon DEF IdleCaller, CallerFrames, WithAgent, WithBatch, None
<1>2. /\ caller' = [caller EXCEPT ![c] = f] /\ caller[c].pc = "idle" /\ Exists(a)
      /\ UNCHANGED <<record, worker, leases, scheduler, restarts, sent>>
  BY DEF CancelBegin, Frame
<1> HIDE DEF f
<1>3. /\ leases' \in [Agents -> SUBSET UNION {Files[x] : x \in Agents}] /\ LeasesExclusive'
      /\ \A x \in Agents : leases'[x] # {} => leases[x] # {}
  BY <1>2 DEF ExecutorInv, Shape, LeasesExclusive
<1> QED
  BY <1>1, <1>2, <1>3, CallBegins, Zenon DEF WithAgent

(* resume claims the lease of a terminal agent and takes a new mailbox. *)
LEMMA ResumeBeginKeeps ==
    ASSUME ExecutorInv, NEW c \in Callers, NEW a \in Agents, ResumeBegin(c, a) PROVE ExecutorInv'
<1> DEFINE f == [IdleCaller EXCEPT !.pc = "load", !.agent = a, !.k = restarts' + 1]
<1>1. restarts \in Nat /\ restarts < MaxRestarts /\ restarts' = restarts + 1
  BY DEF ResumeBegin, ExecutorInv, Shape
<1>2. restarts' + 1 \in Nat /\ restarts' + 1 = restarts + 2
  BY <1>1
<1>3. f \in CallerFrames /\ f.pc = "load" /\ f.agent = a /\ f.batch = 0 /\ f.k = restarts + 2
  BY <1>2, Zenon DEF IdleCaller, CallerFrames, WithAgent, WithBatch, None
<1>4. /\ caller' = [caller EXCEPT ![c] = f] /\ caller[c].pc = "idle" /\ Exists(a) /\ Claimable(a)
      /\ leases' = [leases EXCEPT ![a] = @ \cup Files[a]]
      /\ UNCHANGED <<record, worker, scheduler, sent>>
  BY Zenon DEF ResumeBegin, Frame
<1> HIDE DEF f
<1>5. /\ leases' \in [Agents -> SUBSET UNION {Files[x] : x \in Agents}] /\ LeasesExclusive'
      /\ \A x \in Agents : leases'[x] # {} => leases[x] # {} \/ Exists(x)
  BY <1>4, ClaimKeepsExclusive, Zenon
<1> QED
  BY <1>1, <1>3, <1>4, <1>5, CallBegins, Zenon DEF WithAgent

(* send chooses its delivery, queued or by interrupt. *)
LEMMA SendBeginKeeps ==
    ASSUME ExecutorInv, NEW c \in Callers, NEW a \in Agents, SendBegin(c, a) PROVE ExecutorInv'
<1>1. /\ caller[c].pc = "idle" /\ Exists(a) /\ UNCHANGED <<record, worker, leases, scheduler>>
  BY DEF SendBegin
<1>2. /\ leases' \in [Agents -> SUBSET UNION {Files[x] : x \in Agents}] /\ LeasesExclusive'
      /\ \A x \in Agents : leases'[x] # {} => leases[x] # {}
  BY <1>1, Zenon DEF ExecutorInv, Shape, LeasesExclusive
<1>3. ASSUME sent < MaxSends, sent' = sent + 1,
             Frame(c, [IdleCaller EXCEPT !.pc = "queue", !.agent = a, !.k = sent']), UNCHANGED restarts
      PROVE  ExecutorInv'
  <2> DEFINE f == [IdleCaller EXCEPT !.pc = "queue", !.agent = a, !.k = sent']
  <2>1. sent' \in Nat /\ sent' \in Messages
    BY <1>3, ExecutorAssumption DEF ExecutorInv, Shape, Messages
  <2>2. f \in CallerFrames /\ f.pc = "queue" /\ f.agent = a /\ f.batch = 0 /\ f.k = sent'
    BY <2>1, Zenon DEF IdleCaller, CallerFrames, WithAgent, WithBatch, None
  <2>3. caller' = [caller EXCEPT ![c] = f]
    BY <1>3 DEF Frame
  <2> HIDE DEF f
  <2> QED
    BY <1>1, <1>2, <1>3, <2>1, <2>2, <2>3, CallBegins, Zenon DEF WithAgent
<1>4. ASSUME restarts < MaxRestarts, restarts' = restarts + 1, UNCHANGED sent,
             Frame(c, [IdleCaller EXCEPT !.pc = "rollback", !.agent = a, !.k = restarts' + 1])
      PROVE  ExecutorInv'
  <2> DEFINE f == [IdleCaller EXCEPT !.pc = "rollback", !.agent = a, !.k = restarts' + 1]
  <2>1. restarts' + 1 \in Nat /\ restarts' + 1 = restarts + 2
    BY <1>4 DEF ExecutorInv, Shape
  <2>2. f \in CallerFrames /\ f.pc = "rollback" /\ f.agent = a /\ f.batch = 0 /\ f.k = restarts + 2
    BY <2>1, Zenon DEF IdleCaller, CallerFrames, WithAgent, WithBatch, None
  <2>3. caller' = [caller EXCEPT ![c] = f]
    BY <1>4 DEF Frame
  <2> HIDE DEF f
  <2> QED
    BY <1>1, <1>2, <1>4, <2>2, <2>3, CallBegins, Zenon DEF WithAgent
<1> QED
  BY <1>3, <1>4, Zenon DEF SendBegin

(* spawn takes up a batch whose plan was accepted. *)
LEMMA SpawnBeginKeeps ==
    ASSUME ExecutorInv, NEW c \in Callers, NEW b \in DOMAIN Batches, SpawnBegin(c, b) PROVE ExecutorInv'
<1> DEFINE f == [IdleCaller EXCEPT !.pc = "claim", !.batch = b]
<1>1. b \in Nat /\ InBatch(b) \subseteq Agents /\ Len(Batches[b]) \in Nat
  BY BatchFacts
<1>2. f \in CallerFrames /\ f.pc = "claim" /\ f.batch = b /\ f.claimed = 0
  BY <1>1, Zenon DEF IdleCaller, CallerFrames, WithAgent, WithBatch, None
<1>3. /\ caller' = [caller EXCEPT ![c] = f] /\ caller[c].pc = "idle"
      /\ \A a \in InBatch(b) : ~Exists(a)
      /\ \A o \in Callers : caller[o].batch # b
      /\ UNCHANGED <<record, worker, leases, scheduler, restarts, sent>>
  BY DEF SpawnBegin, Frame
<1> HIDE DEF f
<1>4. /\ leases' \in [Agents -> SUBSET UNION {Files[x] : x \in Agents}] /\ LeasesExclusive'
      /\ \A x \in Agents : leases'[x] # {} => leases[x] # {}
  BY <1>3 DEF ExecutorInv, Shape, LeasesExclusive
<1>5. LeasesAreOwned'
  <2>1. \A x \in Agents : Exists(x) => Exists(x)'
    BY <1>3 DEF Exists
  <2> QED
    BY <1>2, <1>3, <1>4, <2>1, OwnersStay, Zenon
<1>6. scheduler[b].blocked = {}
  <2>1. \A a \in scheduler[b].blocked : a \in InBatch(b) /\ worker[a][1].pc = "blocked"
    BY Zenon DEF ExecutorInv, SchedulersFit, SchedulerFits
  <2>2. \A a \in scheduler[b].blocked : Exists(a)
    BY <1>1, <2>1, WorkerNumbers DEF ExecutorInv, Known
  <2> QED
    BY <1>3, <2>1, <2>2
<1>7. caller[c].batch = 0 /\ restarts \in 0..MaxRestarts
  BY <1>3, CallFacts DEF WithBatch
<1>8. CallerGoes(c, f)
  BY <1>2, <1>3, <1>6, <1>7 DEF CallerGoes, Restarting
<1>9. CallerFits(f)'
  BY <1>1, <1>2 DEF CallerFits, WithAgent, WithBatch, Restarting
<1>10. restarts' \in 0..MaxRestarts /\ restarts <= restarts'
  BY <1>3, <1>7
<1> QED
  BY <1>2, <1>3, <1>4, <1>5, <1>8, <1>9, <1>10, OneCallerMoves, Zenon DEF CallTo

(* One round of the claim loop: a claim, or a conflict that undoes the others. *)
LEMMA SpawnClaimKeeps ==
    ASSUME ExecutorInv, NEW c \in Callers, SpawnClaim(c) PROVE ExecutorInv'
<1> DEFINE g == caller[c]
           a == Batches[g.batch][g.claimed + 1]
<1>1. g.pc = "claim" /\ g.claimed < Len(Batches[g.batch]) /\ UNCHANGED <<record, worker, scheduler, restarts, sent>>
  BY Zenon DEF SpawnClaim
<1>2. g \in CallerFrames /\ CallerFits(g) /\ g.batch \in DOMAIN Batches /\ restarts \in 0..MaxRestarts
  BY <1>1, CallFacts DEF WithBatch
<1>3. g.claimed \in Nat /\ Batches[g.batch] \in Seq(Agents)
  BY <1>2, BatchFacts DEF CallerFrames
<1>4. a \in InBatch(g.batch) /\ a \in Agents
  <2>1. g.claimed + 1 \in 1..Len(Batches[g.batch])
    BY <1>1, <1>3
  <2> QED
    BY <1>2, <2>1, BatchFacts
<1>5. CASE Claimable(a)
  <2> DEFINE h == [g EXCEPT !.claimed = g.claimed + 1]
  <2>0. h \in CallerFrames /\ h.pc = "claim" /\ h.batch = g.batch /\ h.claimed = g.claimed + 1
    BY <1>1, <1>2, <1>3 DEF CallerFrames
  <2> HIDE DEF h
  <2>1. PICK f \in CallerFrames : f = h
    BY <2>0
  <2>2. /\ leases' = [leases EXCEPT ![a] = @ \cup Files[a]] /\ caller' = [caller EXCEPT ![c] = f]
        /\ f.pc = "claim" /\ f.batch = g.batch /\ f.claimed = g.claimed + 1
    BY <1>5, <2>0, <2>1, Zenon DEF SpawnClaim, Frame, h
  <2>3. CallerFits(f)'
    BY <1>1, <1>2, <1>3, <2>2 DEF CallerFits, WithAgent, WithBatch, Restarting
  <2>4. CallerGoes(c, f)
    BY <1>1, <2>2, Zenon DEF CallerGoes, Restarting, ExecutorInv, BatchesWhole
  <2> HIDE DEF a
  <2>5. /\ leases' \in [Agents -> SUBSET UNION {Files[x] : x \in Agents}] /\ LeasesExclusive'
        /\ \A x \in Agents : x # a => leases'[x] = leases[x]
    BY <1>4, <1>5, <2>2, ClaimKeepsExclusive, Zenon
  <2>6. LeasesAreOwned'
    <3>1. \A x \in Agents : Exists(x) => Exists(x)'
      BY <1>1 DEF Exists
    <3> QED
      <4>1. \A x \in Agents : leases'[x] # {} => leases[x] # {} \/ (f.pc = "claim" /\ x \in InBatch(f.batch))
        BY <1>4, <2>2, <2>5, Zenon
      <4> QED
        BY <2>2, <3>1, <4>1, OwnersStay, Zenon
  <2>7. restarts' \in 0..MaxRestarts /\ restarts <= restarts'
    BY <1>1, <1>2
  <2> QED
    BY <1>1, <2>2, <2>3, <2>4, <2>5, <2>6, <2>7, OneCallerMoves, Zenon DEF CallTo
<1>6. CASE ~Claimable(a)
  <2>1. /\ leases' = [x \in Agents |-> IF x \in InBatch(g.batch) THEN {} ELSE leases[x]]
        /\ Return(c)
    BY <1>6, Zenon DEF SpawnClaim
  <2> QED
    BY <1>1, <2>1, ClaimsUndone
<1> QED
  BY <1>5, <1>6

-----------------------------------------------------------------------------
(* What a call does to the agent it is about: the record, and frames of its workers
   that stay where they are, but for the worker it launches or gives up. *)
CallActs(c, f, a, r) ==
    /\ caller[c].pc \in WithAgent /\ caller[c].agent = a
    /\ f.pc \notin WithBatch \cup {"queue"} /\ f.batch = 0
    /\ f.pc \in Restarting => caller[c].pc \in Restarting /\ f.k = caller[c].k
    /\ r.mailbox <= restarts + 1 /\ r.join \in {record[a].join, NoWorker}
    /\ r.mailbox = 1 => record[a].mailbox = 1 /\ (IsTerminal(a) => r.status \in Terminal)
    /\ r.status \in Terminal => r.result # None
    /\ r.status = "Completed" => record[a].status = "Completed"
WorkersStay(c, f, a, r) ==
    /\ worker' \in [Agents -> [Workers -> WorkerFrames]]
    /\ \A x \in Agents, y \in Workers : x # a => worker'[x][y] = worker[x][y]
    /\ \A y \in Workers :
          \/ worker'[a][y].pc = worker[a][y].pc /\ worker'[a][y].outcome = worker[a][y].outcome
          \/ /\ worker[a][y].pc = "unused" /\ caller[c].pc \in Restarting /\ caller[c].k = y
             /\ f.pc \notin Restarting
             /\ worker'[a][y].pc = "gone" \/ (worker'[a][y].pc = "prep" /\ r.mailbox # 1)
Served(c, f, a, r) ==
    ~StoreFails /\ r.result = None =>
        \/ /\ worker'[a][r.mailbox].pc \notin {"unused", "closing", "gone"}
           /\ ~worker'[a][r.mailbox].aborted
        \/ f.pc = "announce" /\ f.agent = a /\ f.k = r.mailbox
        \/ \E d \in Callers \ {c} : /\ caller[d].pc = "announce" /\ caller[d].agent = a
                                     /\ caller[d].k = r.mailbox

CallMade(c, f, a, r) ==
    /\ caller' = [caller EXCEPT ![c] = f] /\ UNCHANGED <<leases, scheduler, restarts, sent>>
    /\ RecordTo(a, r) /\ CallActs(c, f, a, r) /\ WorkersStay(c, f, a, r) /\ Served(c, f, a, r)

(* One call acts on an agent, its record and its workers as CallActs, WorkersStay
   and Served say: the invariant stays.  The steps of send, interrupt, resume and cancel
   that touch the registry are of this kind. *)
LEMMA OneCallActs ==
    ASSUME ExecutorInv, NEW c \in Callers, NEW f \in CallerFrames, NEW a \in Agents,
           NEW r \in Records(Workers), CallMade(c, f, a, r), FramesFit', CallerFits(f)'
    PROVE  ExecutorInv'
<1>r. RecordTo(a, r)
  BY Zenon DEF CallMade
<1>c. CallActs(c, f, a, r)
  BY Zenon DEF CallMade
<1>w. WorkersStay(c, f, a, r)
  BY Zenon DEF CallMade
<1>s. Served(c, f, a, r)
  BY Zenon DEF CallMade
<1>u. leases' = leases /\ scheduler' = scheduler /\ restarts' = restarts /\ sent' = sent
  BY Zenon DEF CallMade
<1>1. \A d \in Callers : caller'[d] = IF d = c THEN f ELSE caller[d]
  BY DEF ExecutorInv, Shape, CallMade
<1>2. Shape'
  <2>1. caller' \in [Callers -> CallerFrames]
    BY DEF ExecutorInv, Shape, CallMade
  <2> QED
    BY <1>r, <1>w, <1>u, <2>1, Zenon DEF ExecutorInv, Shape, WorkersStay, RecordTo
<1>3. Exists(a) /\ record[a] \in Records(Workers)
  BY <1>c, CallFacts, Zenon DEF CallActs
<1>4. \A x \in Agents : Exists(x)' <=> Exists(x)
  BY <1>r, <1>2, <1>3, ExistsFacts DEF ExecutorInv, RecordTo, Exists, NoRecord, Records, Statuses, Active, Terminal, None
<1>5. \A x \in Agents, y \in Workers :
         /\ Kept(worker[x][y], worker'[x][y])
         /\ worker[x][y].pc = "blocked" <=> worker'[x][y].pc = "blocked"
         /\ worker[x][y].pc # "unused" => worker'[x][y].pc # "unused"
  <2> SUFFICES ASSUME NEW x \in Agents, NEW y \in Workers
               PROVE  /\ Kept(worker[x][y], worker'[x][y])
                      /\ worker[x][y].pc = "blocked" <=> worker'[x][y].pc = "blocked"
                      /\ worker[x][y].pc # "unused" => worker'[x][y].pc # "unused"
    BY Zenon
  <2>1. CASE worker'[x][y] = worker[x][y]
    BY <2>1, Zenon DEF Kept
  <2>2. CASE x = a /\ worker'[a][y].pc = worker[a][y].pc /\ worker'[a][y].outcome = worker[a][y].outcome
    BY <2>2, Zenon DEF Kept
  <2>3. CASE x = a /\ worker[a][y].pc = "unused" /\ worker'[a][y].pc \in {"gone", "prep"}
    BY <2>3 DEF Kept
  <2> QED
    BY <1>w, <2>1, <2>2, <2>3 DEF WorkersStay
<1>6. Known'
  <2>1. ASSUME NEW x \in Agents, NEW y \in Workers, worker'[x][y].pc # "unused"
        PROVE  Exists(x)' /\ y <= restarts' + 1
    <3>1. CASE worker[x][y].pc # "unused"
      BY <1>u, <1>4, <3>1, Zenon DEF ExecutorInv, Known
    <3>2. CASE worker[x][y].pc = "unused"
      <4>1. x = a /\ caller[c].pc \in Restarting /\ caller[c].k = y
        BY <1>w, <2>1, <3>2 DEF WorkersStay
      <4> QED
        BY <1>u, <1>3, <1>4, <4>1, CallFacts, Zenon DEF CallerFits
    <3> QED
      BY <3>1, <3>2
  <2>2. ASSUME NEW x \in Agents, Exists(x)'
        PROVE  /\ record'[x].mailbox <= restarts' + 1
               /\ record'[x].join # NoWorker => worker'[x][record'[x].join].pc # "unused"
    <3>1. record[x] \in Records(Workers) /\ record[x].mailbox <= restarts + 1
          /\ (record[x].join # NoWorker => worker[x][record[x].join].pc # "unused")
      BY <1>u, <1>4, <2>2, ExistsFacts, Zenon DEF ExecutorInv, Known
    <3>2. record[x].join # NoWorker => record[x].join \in Workers
      BY <3>1, Zenon DEF Records
    <3>3. /\ record'[x].mailbox = record[x].mailbox \/ record'[x].mailbox <= restarts + 1
          /\ record'[x].join \in {record[x].join, NoWorker}
      BY <1>r, <1>c, Zenon DEF RecordTo, CallActs
    <3> QED
      BY <1>u, <1>5, <3>1, <3>2, <3>3, Zenon
  <2> QED
    BY <1>u, <2>1, <2>2, Zenon DEF ExecutorInv, Known
<1>7. \A x \in Agents : record'[x].mailbox = 1 => record[x].mailbox = 1
  BY <1>r, <1>c, Zenon DEF RecordTo, CallActs
<1>8. CallersFit'
  <2> SUFFICES ASSUME NEW d \in Callers, d # c PROVE CallerFits(caller[d])'
    BY <1>1 DEF ExecutorInv, CallersFit
  <2>1. CallerFits(caller[d]) /\ caller'[d] = caller[d] /\ caller[d] \in CallerFrames
    BY <1>u, <1>1, Zenon DEF ExecutorInv, CallersFit, Shape
  <2>2. caller[d].pc \in Restarting => /\ caller[d].agent \in Agents /\ caller[d].k \in Workers
                                       /\ worker[caller[d].agent][caller[d].k].pc = "unused"
    BY <1>u, <2>1, Zenon DEF CallerFits, Restarting, WithAgent
  <2>3. caller[d].pc \in Restarting => worker'[caller[d].agent][caller[d].k].pc = "unused"
    <3> SUFFICES ASSUME caller[d].pc \in Restarting
                 PROVE  worker'[caller[d].agent][caller[d].k].pc = "unused"
      BY Zenon
    <3>1. PICK x \in Agents, y \in Workers : x = caller[d].agent /\ y = caller[d].k /\ worker[x][y].pc = "unused"
      BY <2>2, Zenon
    <3>2. ~(caller[c].pc \in Restarting /\ caller[c].k = y)
      BY <3>1, Zenon DEF ExecutorInv, OwnRestarts
    <3>3. worker'[x][y] = worker[x][y] \/ worker'[x][y].pc = worker[x][y].pc
      BY <1>w, <3>2 DEF WorkersStay
    <3> QED
      BY <3>1, <3>3, Zenon
  <2> QED
    BY <1>u, <1>4, <1>7, <2>1, <2>2, <2>3, Zenon DEF CallerFits, Restarting
<1>9. OwnRestarts'
  BY <1>c, <1>1 DEF ExecutorInv, OwnRestarts, CallActs
<1>10. OwnBatches'
  BY <1>c, <1>1 DEF ExecutorInv, OwnBatches, CallActs
<1>11. caller[c].pc \notin WithBatch /\ caller[c].batch = 0
  BY <1>c, CallFacts, Zenon DEF CallActs, WithAgent, WithBatch
<1>12. \A d \in Callers : caller'[d].pc \in WithBatch => caller'[d] = caller[d]
  BY <1>c, <1>1, Zenon DEF CallActs
<1>13. BatchesWhole'
  <2>1. \A b \in DOMAIN Batches : InBatch(b) \subseteq Agents
    BY BatchFacts
  <2>2. \A d \in Callers : caller[d].pc \in WithBatch => caller[d].batch \in DOMAIN Batches
    BY CallFacts, Zenon
  <2> QED
    <3>1. ASSUME NEW d \in Callers, caller'[d].pc = "claim", NEW x \in InBatch(caller'[d].batch)
          PROVE  ~Exists(x)'
      BY <1>4, <1>12, <2>1, <2>2, <3>1 DEF ExecutorInv, BatchesWhole, WithBatch
    <3>2. ASSUME NEW d \in Callers, caller'[d].pc = "launchBatch", NEW x \in InBatch(caller'[d].batch)
          PROVE  Exists(x)' /\ (Deps[x] # {} => worker'[x][1].pc = "blocked")
      <4>1. caller'[d] = caller[d] /\ x \in Agents /\ x \in InBatch(caller[d].batch)
        BY <1>12, <2>1, <2>2, <3>2, Zenon DEF WithBatch
      <4>2. Exists(x) /\ (Deps[x] # {} => worker[x][1].pc = "blocked")
        BY <3>2, <4>1, Zenon DEF ExecutorInv, BatchesWhole
      <4> QED
        BY <1>4, <1>5, <4>1, <4>2, WorkerNumbers, Zenon
    <3>3. ASSUME NEW b \in DOMAIN Batches
          PROVE  (\A x \in InBatch(b) : Exists(x)') \/ (\A x \in InBatch(b) : ~Exists(x)')
      BY <1>4, <2>1, Zenon DEF ExecutorInv, BatchesWhole
    <3> QED
      BY <3>1, <3>2, <3>3, Zenon DEF BatchesWhole
<1>14. LeasesExclusive'
  BY <1>u, Zenon DEF ExecutorInv, LeasesExclusive
<1>15. LeasesAreOwned'
  <2>1. caller[c].pc # "claim"
    BY <1>11 DEF WithBatch
  <2> QED
    BY <1>u, <1>1, <1>4, <2>1, Zenon DEF ExecutorInv, LeasesAreOwned
<1>16. \A b \in DOMAIN Batches :
          (\E d \in Callers : caller'[d].batch = b) <=> (\E d \in Callers : caller[d].batch = b)
  <2>1. \A d \in Callers : caller'[d].batch = caller[d].batch
    BY <1>c, <1>1, <1>11, Zenon DEF CallActs
  <2> QED
    BY <2>1, Zenon
<1>17. SchedulersFit'
  <2>1. \A b \in DOMAIN Batches : InBatch(b) \subseteq Agents
    BY BatchFacts
  <2> QED
    <3> SUFFICES ASSUME NEW b \in DOMAIN Batches PROVE SchedulerFits(b, scheduler[b])'
      BY <1>u DEF SchedulersFit
    <3>1. SchedulerFits(b, scheduler[b]) /\ scheduler' = scheduler
      BY <1>u, Zenon DEF ExecutorInv, SchedulersFit
    <3>2. \A x \in scheduler[b].blocked : worker'[x][1].pc = "blocked"
      BY <1>u, <1>5, <2>1, <3>1, WorkerNumbers DEF SchedulerFits
    <3>3. (\E d \in Callers : caller'[d].batch = b) => scheduler[b].blocked = {}
      BY <1>u, <1>16, <3>1, Zenon DEF SchedulerFits
    <3> QED
      BY <1>u, <3>1, <3>2, <3>3, Zenon DEF SchedulerFits
<1>18. PlansAreHeld'
  BY <1>u, <1>5, <1>16 DEF ExecutorInv, PlansAreHeld
<1>19. EndedHasResult'
  BY <1>r, <1>c DEF ExecutorInv, EndedHasResult, IsTerminal, RecordTo, CallActs
<1>20. MailboxIsServed'
  <2> SUFFICES ASSUME ~StoreFails, NEW x \in Agents, Exists(x)', record'[x].result = None
               PROVE  \/ /\ worker'[x][record'[x].mailbox].pc \notin {"unused", "closing", "gone"}
                         /\ ~worker'[x][record'[x].mailbox].aborted
                      \/ \E d \in Callers : /\ caller'[d].pc = "announce" /\ caller'[d].agent = x
                                            /\ caller'[d].k = record'[x].mailbox
    BY Zenon DEF ExecutorInv, MailboxIsServed
  <2>1. CASE x = a
    <3>1. record'[x] = r
      BY <1>r, <2>1, Zenon DEF RecordTo
    <3> QED
      BY <1>s, <1>1, <2>1, <3>1, Zenon DEF Served
  <2>2. CASE x # a
    <3>1. record'[x] = record[x] /\ Exists(x)
      BY <1>r, <1>4, <2>2 DEF RecordTo
    <3>2. record[x].mailbox \in Workers
      BY <3>1, ExistsFacts, Zenon DEF ExecutorInv, Records
    <3>3. \/ /\ worker[x][record[x].mailbox].pc \notin {"unused", "closing", "gone"}
             /\ ~worker[x][record[x].mailbox].aborted
          \/ \E d \in Callers : /\ caller[d].pc = "announce" /\ caller[d].agent = x
                                /\ caller[d].k = record[x].mailbox
      BY <3>1, Zenon DEF ExecutorInv, MailboxIsServed
    <3>4. caller[c].agent # x
      BY <1>c, <2>2, Zenon DEF CallActs
    <3> QED
      <4>1. worker'[x][record[x].mailbox] = worker[x][record[x].mailbox]
        BY <1>w, <2>2, <3>2 DEF WorkersStay
      <4>2. \A d \in Callers : caller[d].agent = x => caller'[d] = caller[d]
        BY <1>1, <3>4, Zenon
      <4> QED
        BY <3>1, <3>3, <4>1, <4>2, Zenon
  <2> QED
    BY <2>1, <2>2, Zenon
<1>21. CompletedIsEarned'
  <2> SUFFICES ASSUME NEW x \in Agents, record'[x].status = "Completed"
               PROVE  \E y \in Workers : CompletedBy(x, y)'
    BY Zenon DEF ExecutorInv, CompletedIsEarned
  <2>1. record[x].status = "Completed"
    BY <1>r, <1>c, Zenon DEF RecordTo, CallActs
  <2>2. \E y \in Workers : CompletedBy(x, y)
    BY <2>1, Zenon DEF ExecutorInv, CompletedIsEarned
  <2> QED
    BY <1>5, <2>2, EarnedStaysEarned, Zenon
<1>22. FirstMailbox'
  <2> SUFFICES ASSUME NEW x \in Agents, record'[x].mailbox = 1
               PROVE  /\ \A y \in Workers \ {1} : worker'[x][y].pc \in {"unused", "gone"}
                      /\ Waits(x)' \/ DepsDone(x)'
                      /\ \A b \in DOMAIN Batches :
                            x \in scheduler[b].ready => IsTerminal(x)' \/ DepsDone(x)'
    BY <1>u, Zenon DEF ExecutorInv, FirstMailbox
  <2>1. /\ \A y \in Workers \ {1} : worker[x][y].pc \in {"unused", "gone"}
        /\ Waits(x) \/ DepsDone(x)
        /\ \A b \in DOMAIN Batches : x \in scheduler[b].ready => IsTerminal(x) \/ DepsDone(x)
    BY <1>u, <1>7, Zenon DEF ExecutorInv, FirstMailbox
  <2>2. x = a => r.mailbox = 1
    BY <1>r, Zenon DEF RecordTo
  <2>3. \A y \in Workers : worker'[x][y].pc \in {worker[x][y].pc, "gone"}
    BY <1>w, <2>2 DEF WorkersStay
  <2>4. DepsDone(x) => DepsDone(x)'
    BY <1>5, DoneStaysDone, Zenon
  <2>5. Waits(x) => Waits(x)'
    BY <2>3, WorkerNumbers, Zenon DEF Waits
  <2>6. IsTerminal(x) => IsTerminal(x)'
    BY <1>r, <1>c, <2>2, Zenon DEF RecordTo, IsTerminal, CallActs
  <2> QED
    BY <2>1, <2>3, <2>4, <2>5, <2>6, Zenon
<1> QED
  BY <1>2, <1>6, <1>8, <1>9, <1>10, <1>13, <1>14, <1>15, <1>17, <1>18, <1>19, <1>20, <1>21, <1>22,
     Zenon DEF ExecutorInv

-----------------------------------------------------------------------------

(* The abort of an agent's attached worker moves no frame. *)
LEMMA AbortMovesNothing ==
    ASSUME ExecutorInv, NEW a \in Agents, Exists(a), worker' = Aborting(worker, a)
    PROVE  /\ worker' \in [Agents -> [Workers -> WorkerFrames]] /\ FramesFit'
           /\ \A x \in Agents, y \in Workers : x # a => worker'[x][y] = worker[x][y]
           /\ \A y \in Workers : /\ worker'[a][y].pc = worker[a][y].pc
                                 /\ worker'[a][y].outcome = worker[a][y].outcome
           /\ \A y \in Workers : worker[a][y].pc = "unused" => ~worker'[a][y].aborted
<1>1. worker \in [Agents -> [Workers -> WorkerFrames]] /\ record[a] \in Records(Workers) /\ FramesFit
  BY ExistsFacts, Zenon DEF ExecutorInv, Shape
<1>2. CASE record[a].join = NoWorker
  <2>1. worker' = worker
    BY <1>2, Zenon DEF Aborting
  <2> QED
    BY <1>1, <2>1 DEF FramesFit, FrameFits
<1>3. CASE record[a].join # NoWorker
  <2>1. PICK j \in Workers : j = record[a].join
    BY <1>1, <1>3 DEF Records
  <2>2. worker' = [worker EXCEPT ![a][j].aborted = TRUE]
    BY <1>3, <2>1, Zenon DEF Aborting
  <2> DEFINE v == worker[a][j]
             w == [v EXCEPT !.aborted = TRUE]
  <2>3. v \in WorkerFrames /\ v.pc # "unused" /\ FrameFits(v)
    BY <1>1, <1>3, <2>1, Zenon DEF ExecutorInv, Known, FramesFit
  <2>4. /\ w \in WorkerFrames /\ w.pc = v.pc /\ w.outcome = v.outcome /\ w.mode = v.mode
        /\ w.inputs = v.inputs /\ w.launch = v.launch
    BY <2>3, Zenon DEF WorkerFrames
  <2>5. FrameFits(w)
    BY <2>3, <2>4, Zenon DEF FrameFits
  <2>6. worker' = [worker EXCEPT ![a][j] = w]
    BY <1>1, <2>2, Zenon
  <2> HIDE DEF v, w
  <2>7. WorkerTo(a, j, w)
    BY <2>4, <2>6, WorkerUpdated, Zenon DEF ExecutorInv
  <2>8. FramesFit'
    BY <1>1, <2>5, <2>7 DEF FramesFit, WorkerTo
  <2>9. \A y \in Workers : /\ worker'[a][y].pc = worker[a][y].pc
                           /\ worker'[a][y].outcome = worker[a][y].outcome
    BY <2>4, <2>7, Zenon DEF WorkerTo, v
  <2> QED
    BY <2>7, <2>8, <2>9 DEF WorkerTo, FramesFit, FrameFits
<1> QED
  BY <1>2, <1>3, Zenon

(* queue_child_input sends into the mailbox the record has. *)
LEMMA QueueInputKeeps ==
    ASSUME ExecutorInv, NEW c \in Callers, QueueInput(c) PROVE ExecutorInv'
<1>1. /\ caller[c].pc = "queue" /\ caller' = [caller EXCEPT ![c] = IdleCaller]
      /\ UNCHANGED <<record, leases, scheduler, restarts, sent>>
  BY Zenon DEF QueueInput, Return, Frame
<1>2. PICK a \in Agents : a = caller[c].agent
  BY <1>1, CallFacts DEF WithAgent
<1>3. Exists(a) /\ record[a] \in Records(Workers)
  BY <1>1, <1>2, CallFacts, Zenon DEF WithAgent
<1>4. PICK k \in Workers : k = record[a].mailbox
  BY <1>3 DEF Records
<1>5. RecordTo(a, record[a])
  BY <1>1, Zenon DEF RecordTo, ExecutorInv, Shape
<1>6. CallActs(c, IdleCaller, a, record[a])
  BY <1>1, <1>2, <1>3, IdleFrame, Zenon
     DEF CallActs, WithAgent, WithBatch, Restarting, ExecutorInv, Known, EndedHasResult, IsTerminal
<1>7. worker \in [Agents -> [Workers -> WorkerFrames]] /\ FramesFit
  BY Zenon DEF ExecutorInv, Shape
<1>8. caller[c].k \in Messages
  BY <1>1, Zenon DEF ExecutorInv, CallersFit, CallerFits
<1>10. Served(c, IdleCaller, a, record[a]) \/ worker' # worker
  BY <1>1, <1>3, Zenon DEF ExecutorInv, MailboxIsServed, Served
<1>11. CASE worker[a][k].pc = "gone"
  <2>1. worker' = worker
    BY <1>2, <1>4, <1>11, Zenon DEF QueueInput
  <2>2. WorkersStay(c, IdleCaller, a, record[a]) /\ FramesFit'
    BY <1>7, <2>1 DEF WorkersStay, FramesFit, FrameFits
  <2> QED
    BY <1>1, <1>3, <1>5, <1>6, <1>10, <2>1, <2>2, IdleFrame, OneCallActs, Zenon DEF CallMade
<1>12. CASE worker[a][k].pc # "gone"
  <2> DEFINE v == worker[a][k]
             w == [v EXCEPT !.queue = Append(v.queue, caller[c].k)]
  <2>1. worker' = [worker EXCEPT ![a][k].queue = Append(@, caller[c].k)]
    BY <1>2, <1>4, <1>12, Zenon DEF QueueInput
  <2>3. v \in WorkerFrames /\ FrameFits(v)
    BY <1>7 DEF FramesFit
  <2>4. Append(v.queue, caller[c].k) \in Seq(Messages)
    <3>1. v.queue \in Seq(Messages)
      BY <2>3, Zenon DEF WorkerFrames
    <3> QED
      BY <1>8, <3>1
  <2>5. /\ w \in WorkerFrames /\ w.pc = v.pc /\ w.outcome = v.outcome /\ w.mode = v.mode
        /\ w.inputs = v.inputs /\ w.launch = v.launch /\ w.aborted = v.aborted
    BY <2>3, <2>4, Zenon DEF WorkerFrames
  <2>6. FrameFits(w)
    BY <2>3, <2>5, Zenon DEF FrameFits
  <2>7. worker' = [worker EXCEPT ![a][k] = w]
    BY <1>7, <2>1, Zenon
  <2> HIDE DEF w
  <2>8. WorkerTo(a, k, w)
    BY <2>5, <2>7, WorkerUpdated, Zenon DEF ExecutorInv
  <2>9. WorkersStay(c, IdleCaller, a, record[a]) /\ FramesFit'
    BY <1>7, <2>5, <2>6, <2>8, Zenon DEF WorkersStay, FramesFit, WorkerTo
  <2>10. Served(c, IdleCaller, a, record[a])
    <3>1. worker'[a][k] = w
      BY <2>8 DEF WorkerTo
    <3>2. ~StoreFails /\ record[a].result = None =>
             \/ v.pc \notin {"unused", "closing", "gone"} /\ ~v.aborted
             \/ \E d \in Callers : /\ caller[d].pc = "announce" /\ caller[d].agent = a
                                   /\ caller[d].k = record[a].mailbox
      BY <1>3, <1>4, Zenon DEF ExecutorInv, MailboxIsServed
    <3> QED
      BY <1>1, <1>4, <2>5, <3>1, <3>2, Zenon DEF Served
  <2> QED
    BY <1>1, <1>3, <1>5, <1>6, <2>9, <2>10, IdleFrame, OneCallActs, Zenon DEF CallMade
<1> QED
  BY <1>11, <1>12
=============================================================================
