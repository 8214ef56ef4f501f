----------------------- MODULE SubagentExecutorProofs -----------------------
(***************************************************************************)
(* The calls that change records (cancel, send's interrupt, resume and     *)
(* spawn's insertion of a batch) keep the invariant too, so that it holds  *)
(* always, and with it what the subagent executor promises: one writer per *)
(* path, batches spawned as a whole, dependents that wait, and no child    *)
(* without somebody to give it an outcome.                                 *)
(***************************************************************************)
EXTENDS SubagentExecutorCalls

(* cancel ends the record, unless it is terminal by now, and aborts its worker. *)
LEMMA CancelRecordKeeps ==
    ASSUME ExecutorInv, NEW c \in Callers, CancelRecord(c) PROVE ExecutorInv'
<1>1. caller[c].pc = "cancel" /\ UNCHANGED <<leases, scheduler, restarts, sent>>
  BY DEF CancelRecord
<1>2. PICK a \in Agents : a = caller[c].agent
  BY <1>1, CallFacts DEF WithAgent
<1>3. Exists(a) /\ record[a] \in Records(Workers) /\ caller[c] \in CallerFrames /\ caller[c].batch = 0
  BY <1>1, <1>2, CallFacts DEF WithAgent, WithBatch
<1> DEFINE h == [caller[c] EXCEPT !.pc = "unlease"]
<1>4. h \in CallerFrames /\ h.pc = "unlease" /\ h.agent = a /\ h.batch = 0
  BY <1>2, <1>3 DEF CallerFrames, WithAgent
<1>5. caller' = [caller EXCEPT ![c] = h]
  BY DEF CancelRecord, Frame
<1> HIDE DEF h
<1>6. PICK f \in CallerFrames : f = h
  BY <1>4
<1>7. f.pc = "unlease" /\ f.agent = a /\ f.batch = 0 /\ caller' = [caller EXCEPT ![c] = f]
  BY <1>4, <1>5, <1>6
<1>9. CASE IsTerminal(a)
  <2>1. UNCHANGED <<record, worker>>
    BY <1>2, <1>9 DEF CancelRecord
  <2>2. RecordTo(a, record[a]) /\ WorkersStay(c, f, a, record[a]) /\ FramesFit'
    BY <2>1 DEF RecordTo, WorkersStay, ExecutorInv, Shape, FramesFit, FrameFits
  <2>3. CallActs(c, f, a, record[a])
    BY <1>1, <1>2, <1>3, <1>7, Zenon
       DEF CallActs, WithAgent, WithBatch, Restarting, ExecutorInv, Known, EndedHasResult, IsTerminal
  <2>4. Served(c, f, a, record[a])
    BY <1>9 DEF Served, ExecutorInv, EndedHasResult
  <2>5. CallerFits(f)'
    BY <1>3, <1>7, <2>1 DEF CallerFits, WithAgent, WithBatch, Restarting, Exists
  <2> QED
    BY <1>1, <1>3, <1>7, <2>2, <2>3, <2>4, <2>5, OneCallActs, Zenon DEF CallMade
<1>10. CASE ~IsTerminal(a)
  <2> DEFINE r == Cancel(record[a])
  <2>1. SetRecord(a, r) /\ worker' = Aborting(worker, a)
    BY <1>2, <1>10 DEF CancelRecord
  <2>2. /\ r \in Records(Workers) /\ r.status = "Cancelled" /\ r.result = "Cancelled"
        /\ r.mailbox = record[a].mailbox /\ r.join = NoWorker
    BY <1>3, Zenon DEF Cancel, Records, Statuses, Terminal
  <2> HIDE DEF r
  <2>3. RecordTo(a, r)
    BY <2>1, <2>2, RecordUpdated DEF ExecutorInv
  <2>4. WorkersStay(c, f, a, r) /\ FramesFit'
    BY <1>3, <2>1, AbortMovesNothing DEF WorkersStay
  <2>5. CallActs(c, f, a, r)
    BY <1>1, <1>2, <1>3, <1>7, <2>2
       DEF CallActs, WithAgent, WithBatch, Restarting, ExecutorInv, Known, Terminal, None
  <2>6. Served(c, f, a, r)
    BY <2>2, Zenon DEF Served, None
  <2>7. CallerFits(f)'
    <3>1. record'[a] = r
      BY <2>3 DEF RecordTo
    <3>2. Exists(a)'
      BY <2>2, <3>1 DEF Exists, NoRecord, None
    <3> QED
      BY <1>7, <3>2 DEF CallerFits, WithAgent, WithBatch, Restarting
  <2> QED
    BY <1>1, <1>7, <2>2, <2>3, <2>4, <2>5, <2>6, <2>7, OneCallActs, Zenon DEF CallMade
<1> QED
  BY <1>9, <1>10

(* The frames of plans: one handed to its launch, and one that waits *)
LEMMA PlanFrames ==
    ASSUME NEW q \in Seq(Messages), NEW mode \in {"RunInput", "AwaitMessage"}
    PROVE  /\ Launching(mode) \in WorkerFrames /\ FrameFits(Launching(mode))
           /\ Launching(mode).pc = "prep" /\ ~Launching(mode).aborted
           /\ Launching(mode).outcome = None /\ Launching(mode).launch = "prep"
           /\ [Launching(mode) EXCEPT !.queue = q] \in WorkerFrames
           /\ FrameFits([Launching(mode) EXCEPT !.queue = q])
           /\ [Launching(mode) EXCEPT !.queue = q].pc = "prep"
           /\ ~[Launching(mode) EXCEPT !.queue = q].aborted
           /\ [Launching("RunInput") EXCEPT !.pc = "blocked", !.launch = "none"] \in WorkerFrames
           /\ FrameFits([Launching("RunInput") EXCEPT !.pc = "blocked", !.launch = "none"])
           /\ [Launching("RunInput") EXCEPT !.pc = "blocked", !.launch = "none"].pc = "blocked"
           /\ ~[Launching("RunInput") EXCEPT !.pc = "blocked", !.launch = "none"].aborted
<1>1. Unused \in WorkerFrames
  <2>1. <<>> \in Seq(Messages) /\ <<>> \in Seq(Messages \cup {First})
    OBVIOUS
  <2> QED
    BY <2>1 DEF Unused, WorkerFrames, None
<1>2. Unused.outcome = None /\ ~Unused.aborted
  BY DEF Unused
<1>3. ASSUME NEW m \in {"RunInput", "AwaitMessage"}
      PROVE  /\ Launching(m) \in WorkerFrames
             /\ Launching(m).pc = "prep" /\ Launching(m).launch = "prep" /\ Launching(m).mode = m
             /\ Launching(m).outcome = None /\ ~Launching(m).aborted
             /\ m = "RunInput" => Launching(m).inputs # <<>>
  <2> DEFINE i == IF m = "RunInput" THEN <<First>> ELSE <<>>
  <2>1. i \in Seq(Messages \cup {First}) /\ (m = "RunInput" => i # <<>>)
    <3>1. <<>> \in Seq(Messages \cup {First}) /\ Len(<<>>) = 0
      OBVIOUS
    <3>2. <<First>> \in Seq(Messages \cup {First}) /\ Len(<<First>>) = 1
      OBVIOUS
    <3>3. <<First>> # <<>>
      BY <3>1, <3>2
    <3> HIDE DEF First
    <3> QED
      BY <3>1, <3>2, <3>3, Zenon
  <2>2. Launching(m) = [Unused EXCEPT !.pc = "prep", !.launch = "prep", !.mode = m, !.inputs = i]
    BY DEF Launching
  <2> HIDE DEF i
  <2>3. /\ Launching(m) \in WorkerFrames
        /\ Launching(m).pc = "prep" /\ Launching(m).launch = "prep" /\ Launching(m).mode = m
        /\ Launching(m).outcome = Unused.outcome /\ Launching(m).aborted = Unused.aborted
        /\ Launching(m).inputs = i
    BY <1>1, <2>1, <2>2, Zenon DEF WorkerFrames
  <2> QED
    BY <1>2, <2>1, <2>3
<1>4. FrameFits(Launching(mode))
  BY <1>3 DEF FrameFits
<1> HIDE DEF Launching
<1> DEFINE u == [Launching(mode) EXCEPT !.queue = q]
           v == [Launching("RunInput") EXCEPT !.pc = "blocked", !.launch = "none"]
<1>5. /\ u \in WorkerFrames /\ u.pc = "prep" /\ u.launch = "prep" /\ u.mode = mode
      /\ u.outcome = None /\ u.aborted = Launching(mode).aborted /\ u.inputs = Launching(mode).inputs
  BY <1>3, Zenon DEF WorkerFrames
<1>6. /\ v \in WorkerFrames /\ v.pc = "blocked" /\ v.launch = "none" /\ v.mode = "RunInput"
      /\ v.outcome = None /\ v.aborted = Launching("RunInput").aborted
      /\ v.inputs = Launching("RunInput").inputs
  BY <1>3, Zenon DEF WorkerFrames
<1> HIDE DEF u, v
<1>7. FrameFits(u) /\ FrameFits(v) /\ ~u.aborted /\ ~v.aborted
  BY <1>3, <1>5, <1>6 DEF FrameFits
<1> QED
  BY <1>3, <1>4, <1>5, <1>6, <1>7 DEF u, v

(* What the invariant says of a call that is about to launch a worker *)
LEMMA RestartFacts ==
    ASSUME ExecutorInv, NEW c \in Callers, caller[c].pc \in Restarting
    PROVE  /\ caller[c] \in CallerFrames /\ caller[c].agent \in Agents /\ caller[c].k \in Workers
           /\ caller[c].k >= 2 /\ caller[c].k <= restarts + 1 /\ caller[c].batch = 0
           /\ Exists(caller[c].agent) /\ record[caller[c].agent] \in Records(Workers)
           /\ worker[caller[c].agent][caller[c].k] \in WorkerFrames
           /\ worker[caller[c].agent][caller[c].k].pc = "unused"
           /\ ~worker[caller[c].agent][caller[c].k].aborted
           /\ caller[c].pc = "announce" => record[caller[c].agent].mailbox # 1
<1>1. /\ caller[c] \in CallerFrames /\ CallerFits(caller[c]) /\ caller[c].pc \in WithAgent
      /\ caller[c].batch = 0
  BY CallFacts DEF Restarting, WithAgent, WithBatch
<1>2. /\ caller[c].agent \in Agents /\ caller[c].k \in Workers /\ caller[c].k >= 2
      /\ caller[c].k <= restarts + 1 /\ Exists(caller[c].agent)
      /\ worker[caller[c].agent][caller[c].k].pc = "unused"
      /\ caller[c].pc = "announce" => record[caller[c].agent].mailbox # 1
  BY <1>1 DEF CallerFits, Restarting
<1>3. record[caller[c].agent] \in Records(Workers)
  BY <1>2, ExistsFacts DEF ExecutorInv
<1> QED
  BY <1>1, <1>2, <1>3 DEF ExecutorInv, Shape, FramesFit, FrameFits

(* The record of an agent that gets a new mailbox *)
LEMMA FreshRecord ==
    ASSUME NEW k \in Workers
    PROVE  /\ NewRecord(k) \in Records(Workers) /\ NewRecord(k).status = "Queued"
           /\ NewRecord(k).result = None /\ NewRecord(k).mailbox = k
           /\ NewRecord(k).join = NoWorker /\ NewRecord(k) # NoRecord
  BY DEF NewRecord, Records, Statuses, Active, NoRecord, None

(* restart aborts the worker and gives the record its new mailbox. *)
LEMMA InterruptRestartKeeps ==
    ASSUME ExecutorInv, NEW c \in Callers, InterruptRestart(c) PROVE ExecutorInv'
<1>1. caller[c].pc = "rollback" /\ UNCHANGED <<leases, scheduler, restarts, sent>>
  BY DEF InterruptRestart
<1>2. PICK a \in Agents, k \in Workers : a = caller[c].agent /\ k = caller[c].k
  BY <1>1, RestartFacts DEF Restarting
<1>3. /\ caller[c] \in CallerFrames /\ k >= 2 /\ k <= restarts + 1 /\ Exists(a)
      /\ record[a] \in Records(Workers) /\ worker[a][k].pc = "unused" /\ caller[c].batch = 0
  BY <1>1, <1>2, RestartFacts, Zenon DEF Restarting
<1> DEFINE h == [caller[c] EXCEPT !.pc = "announce"]
<1>4. h \in CallerFrames /\ h.pc = "announce" /\ h.agent = a /\ h.batch = 0 /\ h.k = k
  BY <1>2, <1>3 DEF CallerFrames, WithAgent
<1>5. /\ caller' = [caller EXCEPT ![c] = h] /\ SetRecord(a, NewRecord(k))
      /\ worker' = Aborting(worker, a)
  BY <1>2 DEF InterruptRestart, Frame, Restart
<1> HIDE DEF h
<1>6. PICK f \in CallerFrames : f = h
  BY <1>4
<1>7. /\ f.pc = "announce" /\ f.agent = a /\ f.batch = 0 /\ f.k = k
      /\ caller' = [caller EXCEPT ![c] = f]
  BY <1>4, <1>5, <1>6
<1>9. RecordTo(a, NewRecord(k))
  BY <1>5, FreshRecord, RecordUpdated DEF ExecutorInv
<1>10. WorkersStay(c, f, a, NewRecord(k)) /\ FramesFit' /\ worker'[a][k].pc = "unused"
  BY <1>3, <1>5, AbortMovesNothing DEF WorkersStay
<1>11. CallActs(c, f, a, NewRecord(k))
  BY <1>1, <1>2, <1>3, <1>7, FreshRecord DEF CallActs, WithAgent, WithBatch, Restarting, Terminal
<1>12. Served(c, f, a, NewRecord(k))
  BY <1>7, FreshRecord DEF Served
<1>13. CallerFits(f)'
  <2>1. record'[a] = NewRecord(k)
    BY <1>9 DEF RecordTo
  <2>2. Exists(a)' /\ record'[a].mailbox # 1
    BY <1>3, <2>1, FreshRecord DEF Exists
  <2> QED
    BY <1>1, <1>3, <1>7, <1>10, <2>2 DEF CallerFits, WithAgent, WithBatch, Restarting
<1> QED
  BY <1>1, <1>7, <1>9, <1>10, <1>11, <1>12, <1>13, FreshRecord, OneCallActs, Zenon DEF CallMade

(* The interrupt's worker is launched, with what its mailbox got meanwhile. *)
LEMMA InterruptLaunchKeeps ==
    ASSUME ExecutorInv, NEW c \in Callers, InterruptLaunch(c) PROVE ExecutorInv'
<1>1. caller[c].pc = "announce" /\ UNCHANGED <<record, leases, scheduler, restarts, sent>>
  BY DEF InterruptLaunch
<1>2. PICK a \in Agents, k \in Workers : a = caller[c].agent /\ k = caller[c].k
  BY <1>1, RestartFacts DEF Restarting
<1>3. /\ caller[c] \in CallerFrames /\ k >= 2 /\ k <= restarts + 1 /\ Exists(a)
      /\ record[a] \in Records(Workers) /\ worker[a][k].pc = "unused" /\ caller[c].batch = 0
      /\ worker[a][k] \in WorkerFrames /\ record[a].mailbox # 1
  BY <1>1, <1>2, RestartFacts DEF Restarting
<1> DEFINE h == [caller[c] EXCEPT !.pc = "launch"]
           w == [Launching("RunInput") EXCEPT !.queue = worker[a][k].queue]
<1>4. h \in CallerFrames /\ h.pc = "launch" /\ h.agent = a /\ h.batch = 0 /\ h.k = k
  BY <1>2, <1>3 DEF CallerFrames, WithAgent
<1>5. caller' = [caller EXCEPT ![c] = h] /\ worker' = [worker EXCEPT ![a][k] = w]
  BY <1>2 DEF InterruptLaunch, Frame
<1>6. w \in WorkerFrames /\ FrameFits(w) /\ w.pc = "prep" /\ ~w.aborted
  <2>1. worker[a][k].queue \in Seq(Messages)
    BY <1>3 DEF WorkerFrames
  <2> QED
    BY <2>1, PlanFrames, Zenon
<1> HIDE DEF h, w
<1>7. PICK f \in CallerFrames : f = h
  BY <1>4
<1>8. /\ f.pc = "launch" /\ f.agent = a /\ f.batch = 0 /\ f.k = k
      /\ caller' = [caller EXCEPT ![c] = f]
  BY <1>4, <1>5, <1>7
<1>10. RecordTo(a, record[a])
  BY <1>1 DEF RecordTo, ExecutorInv, Shape
<1>11. WorkerTo(a, k, w)
  BY <1>5, <1>6, WorkerUpdated, Zenon DEF ExecutorInv
<1>12. WorkersStay(c, f, a, record[a]) /\ FramesFit'
  BY <1>1, <1>2, <1>3, <1>6, <1>8, <1>11, Zenon DEF WorkersStay, WorkerTo, ExecutorInv, FramesFit, Restarting
<1>13. CallActs(c, f, a, record[a])
  BY <1>1, <1>2, <1>3, <1>8
     DEF CallActs, WithAgent, WithBatch, Restarting, ExecutorInv, Known, EndedHasResult, IsTerminal
<1>14. Served(c, f, a, record[a])
  <2> SUFFICES ASSUME ~StoreFails, record[a].result = None
               PROVE  \/ /\ worker'[a][record[a].mailbox].pc \notin {"unused", "closing", "gone"}
                         /\ ~worker'[a][record[a].mailbox].aborted
                      \/ \E d \in Callers \ {c} : /\ caller[d].pc = "announce" /\ caller[d].agent = a
                                                   /\ caller[d].k = record[a].mailbox
    BY Zenon DEF Served
  <2>1. record[a].mailbox \in Workers
    BY <1>3 DEF Records
  <2>2. CASE record[a].mailbox = k
    BY <1>6, <1>11, <2>2 DEF WorkerTo
  <2>3. CASE record[a].mailbox # k
    <3>1. worker'[a][record[a].mailbox] = worker[a][record[a].mailbox]
      BY <1>11, <2>1, <2>3, Zenon DEF WorkerTo
    <3>2. \A d \in Callers : caller[d].k = record[a].mailbox => d # c
      BY <1>2, <2>3, Zenon
    <3>3. \/ /\ worker[a][record[a].mailbox].pc \notin {"unused", "closing", "gone"}
             /\ ~worker[a][record[a].mailbox].aborted
          \/ \E d \in Callers : /\ caller[d].pc = "announce" /\ caller[d].agent = a
                                /\ caller[d].k = record[a].mailbox
      BY <1>3, Zenon DEF ExecutorInv, MailboxIsServed
    <3> QED
      BY <3>1, <3>2, <3>3, Zenon
  <2> QED
    BY <2>2, <2>3, Zenon
<1>15. CallerFits(f)'
  BY <1>1, <1>3, <1>8 DEF CallerFits, WithAgent, WithBatch, Restarting, Exists
<1> QED
  BY <1>1, <1>3, <1>8, <1>10, <1>12, <1>13, <1>14, <1>15, OneCallActs, Zenon DEF CallMade

(* An interrupt that cannot load, roll back or announce just ends. *)
LEMMA InterruptFailsKeeps ==
    ASSUME ExecutorInv, NEW c \in Callers, InterruptFails(c) PROVE ExecutorInv'
<1>1. /\ StoreFails /\ caller[c].pc \in {"rollback", "announce"}
      /\ UNCHANGED <<record, leases, scheduler, restarts, sent>>
  BY DEF InterruptFails
<1>2. PICK a \in Agents, k \in Workers : a = caller[c].agent /\ k = caller[c].k
  BY <1>1, RestartFacts, Zenon DEF Restarting
<1>3. /\ k >= 2 /\ k <= restarts + 1 /\ Exists(a) /\ record[a] \in Records(Workers)
      /\ worker[a][k].pc = "unused" /\ caller[c].batch = 0 /\ worker[a][k] \in WorkerFrames
  BY <1>1, <1>2, RestartFacts, Zenon DEF Restarting
<1> DEFINE w == Ended(worker[a][k])
<1>4. caller' = [caller EXCEPT ![c] = IdleCaller] /\ worker' = [worker EXCEPT ![a][k] = w]
  BY <1>2 DEF InterruptFails, Return, Frame, ExecutorInv, Shape
<1>5. w \in WorkerFrames /\ FrameFits(w) /\ w.pc = "gone"
  BY <1>3, EndedFrame
<1> HIDE DEF w
<1>7. RecordTo(a, record[a])
  BY <1>1 DEF RecordTo, ExecutorInv, Shape
<1>8. WorkerTo(a, k, w)
  BY <1>4, <1>5, WorkerUpdated, Zenon DEF ExecutorInv
<1>9. WorkersStay(c, IdleCaller, a, record[a]) /\ FramesFit'
  BY <1>1, <1>2, <1>3, <1>5, <1>8, IdleFrame, Zenon
     DEF WorkersStay, WorkerTo, ExecutorInv, FramesFit, Restarting
<1>10. CallActs(c, IdleCaller, a, record[a])
  BY <1>1, <1>2, <1>3, IdleFrame, Zenon
     DEF CallActs, WithAgent, WithBatch, Restarting, ExecutorInv, Known, EndedHasResult, IsTerminal
<1>11. Served(c, IdleCaller, a, record[a])
  BY <1>1 DEF Served
<1> QED
  BY <1>1, <1>3, <1>4, <1>7, <1>9, <1>10, <1>11, IdleFrame, OneCallActs, Zenon DEF CallMade

(* reopen gives a terminal record its new mailbox and launches its worker. *)
LEMMA ResumeReopenKeeps ==
    ASSUME ExecutorInv, NEW c \in Callers, ResumeReopen(c) PROVE ExecutorInv'
<1>1. caller[c].pc = "load" /\ UNCHANGED <<leases, scheduler, restarts, sent>>
  BY DEF ResumeReopen
<1>2. PICK a \in Agents, k \in Workers : a = caller[c].agent /\ k = caller[c].k
  BY <1>1, RestartFacts, Zenon DEF Restarting
<1>3. /\ caller[c] \in CallerFrames /\ k >= 2 /\ k <= restarts + 1 /\ Exists(a)
      /\ record[a] \in Records(Workers) /\ worker[a][k].pc = "unused" /\ caller[c].batch = 0
  BY <1>1, <1>2, RestartFacts, Zenon DEF Restarting
<1> DEFINE h == [caller[c] EXCEPT !.pc = "launch"]
           w == Launching("AwaitMessage")
<1>4. h \in CallerFrames /\ h.pc = "launch" /\ h.agent = a /\ h.batch = 0 /\ h.k = k
  BY <1>2, <1>3 DEF CallerFrames, WithAgent
<1>5. /\ caller' = [caller EXCEPT ![c] = h] /\ worker' = [worker EXCEPT ![a][k] = w]
      /\ SetRecord(a, NewRecord(k))
  BY <1>2 DEF ResumeReopen, Frame, Reopen
<1>6. w \in WorkerFrames /\ FrameFits(w) /\ w.pc = "prep" /\ ~w.aborted
  <2>1. <<>> \in Seq(Messages)
    OBVIOUS
  <2> QED
    BY <2>1, PlanFrames, Zenon
<1> HIDE DEF h, w
<1>7. PICK f \in CallerFrames : f = h
  BY <1>4
<1>8. /\ f.pc = "launch" /\ f.agent = a /\ f.batch = 0 /\ f.k = k
      /\ caller' = [caller EXCEPT ![c] = f]
  BY <1>4, <1>5, <1>7
<1>10. RecordTo(a, NewRecord(k))
  BY <1>5, FreshRecord, RecordUpdated DEF ExecutorInv
<1>11. WorkerTo(a, k, w)
  BY <1>5, <1>6, WorkerUpdated, Zenon DEF ExecutorInv
<1>12. NewRecord(k).mailbox = k /\ k # 1
  BY <1>3, FreshRecord
<1>13. WorkersStay(c, f, a, NewRecord(k)) /\ FramesFit'
  BY <1>1, <1>2, <1>3, <1>6, <1>8, <1>11, <1>12, Zenon
     DEF WorkersStay, WorkerTo, ExecutorInv, FramesFit, Restarting
<1>14. CallActs(c, f, a, NewRecord(k))
  BY <1>1, <1>2, <1>3, <1>8, <1>12, FreshRecord
     DEF CallActs, WithAgent, WithBatch, Restarting, Terminal
<1>15. Served(c, f, a, NewRecord(k))
  BY <1>6, <1>11, <1>12 DEF Served, WorkerTo
<1>16. CallerFits(f)'
  <2>1. record'[a] = NewRecord(k)
    BY <1>10 DEF RecordTo
  <2>2. Exists(a)'
    BY <2>1, FreshRecord DEF Exists
  <2> QED
    BY <1>1, <1>3, <1>8, <2>2 DEF CallerFits, WithAgent, WithBatch, Restarting
<1> QED
  BY <1>1, <1>8, <1>10, <1>13, <1>14, <1>15, <1>16, FreshRecord, OneCallActs, Zenon DEF CallMade

-----------------------------------------------------------------------------
(* The records of a batch are inserted, and its plans go to their launches or are held
   for their dependencies (spawn, append_spawn_events). *)
LEMMA SpawnInsertKeeps ==
    ASSUME ExecutorInv, NEW c \in Callers, SpawnInsert(c) PROVE ExecutorInv'
<1>1. /\ caller[c].pc = "claim" /\ UNCHANGED <<leases, scheduler, restarts, sent>>
      /\ caller' = [caller EXCEPT ![c] = [caller[c] EXCEPT !.pc = "launchBatch"]]
  BY DEF SpawnInsert, Frame
<1>2. PICK b \in DOMAIN Batches : b = caller[c].batch
  BY <1>1, Zenon DEF ExecutorInv, CallersFit, CallerFits, WithBatch
<1>3. InBatch(b) \subseteq Agents /\ b # 0
  BY BatchFacts, Zenon
<1>4. PICK f \in CallerFrames : f = [caller[c] EXCEPT !.pc = "launchBatch"]
  BY Zenon DEF ExecutorInv, Shape, CallerFrames, WithBatch
<1>5. /\ f.pc = "launchBatch" /\ f.batch = b /\ f.agent = caller[c].agent /\ f.k = caller[c].k
      /\ f.claimed = caller[c].claimed /\ caller' = [caller EXCEPT ![c] = f]
  BY <1>1, <1>2, <1>4, Zenon DEF ExecutorInv, Shape, CallerFrames
<1>6. /\ caller' \in [Callers -> CallerFrames]
      /\ \A d \in Callers : caller'[d] = IF d = c THEN f ELSE caller[d]
  BY <1>5, Zenon DEF ExecutorInv, Shape
<1>8. ASSUME NEW x \in InBatch(b)
      PROVE  ~Exists(x) /\ \A y \in Workers : worker[x][y].pc = "unused"
  BY <1>1, <1>2, <1>3, <1>8 DEF ExecutorInv, BatchesWhole, Known
<1>9. ASSUME NEW x \in Agents, Exists(x) PROVE x \notin InBatch(b)
  BY <1>8, <1>9
<1>10. \A x \in Agents : record'[x] = IF x \in InBatch(b) THEN NewRecord(1) ELSE record[x]
  BY <1>2 DEF SpawnInsert
<1>11. /\ NewRecord(1) \in Records(Workers) /\ NewRecord(1).status = "Queued"
       /\ NewRecord(1).result = None /\ NewRecord(1).mailbox = 1
       /\ NewRecord(1).join = NoWorker /\ NewRecord(1) # NoRecord
  BY FreshRecord, WorkerNumbers
<1>12. record' \in [Agents -> Records(Workers) \cup {NoRecord}]
  BY <1>11, Zenon DEF ExecutorInv, SpawnInsert, Shape
<1> DEFINE plan(x) == IF Deps[x] = {} THEN Launching("RunInput")
                      ELSE [Launching("RunInput") EXCEPT !.pc = "blocked", !.launch = "none"]
<1>13. \A x \in Agents : /\ plan(x) \in WorkerFrames /\ FrameFits(plan(x)) /\ ~plan(x).aborted
                         /\ plan(x).pc = IF Deps[x] = {} THEN "prep" ELSE "blocked"
  <2>1. <<>> \in Seq(Messages)
    OBVIOUS
  <2> QED
    BY <2>1, PlanFrames, Zenon
<1>14. worker' = [x \in Agents |-> IF x \notin InBatch(b) THEN worker[x]
                                   ELSE [worker[x] EXCEPT ![1] = plan(x)]]
  BY <1>2, Zenon DEF SpawnInsert
<1> HIDE DEF plan
<1>15. worker' \in [Agents -> [Workers -> WorkerFrames]]
  BY <1>13, <1>14, Zenon DEF ExecutorInv, Shape
<1>16. \A x \in Agents, y \in Workers :
          worker'[x][y] = IF x \in InBatch(b) /\ y = 1 THEN plan(x) ELSE worker[x][y]
  BY <1>14 DEF ExecutorInv, Shape
<1>17. Shape'
  BY <1>1, <1>6, <1>12, <1>15 DEF ExecutorInv, Shape
<1>18. \A x \in Agents : Exists(x)' <=> Exists(x) \/ x \in InBatch(b)
  BY <1>10, <1>11, Zenon DEF Exists
<1>19. \A x \in Agents, y \in Workers : Kept(worker[x][y], worker'[x][y])
  BY <1>8, <1>16 DEF Kept
<1>20. FramesFit'
  BY <1>13, <1>16 DEF ExecutorInv, FramesFit
<1>21. Known'
  <2>1. ASSUME NEW x \in Agents, NEW y \in Workers, worker'[x][y].pc # "unused"
        PROVE  Exists(x)' /\ y <= restarts' + 1
    <3>1. CASE x \in InBatch(b) /\ y = 1
      BY <1>1, <1>18, <3>1 DEF ExecutorInv, Shape
    <3>2. CASE ~(x \in InBatch(b) /\ y = 1)
      BY <1>1, <1>16, <1>18, <2>1, <3>2 DEF ExecutorInv, Known
    <3> QED
      BY <3>1, <3>2
  <2>2. ASSUME NEW x \in Agents, Exists(x)'
        PROVE  /\ record'[x].mailbox <= restarts' + 1
               /\ record'[x].join # NoWorker => worker'[x][record'[x].join].pc # "unused"
    <3>1. CASE x \in InBatch(b)
      BY <1>1, <1>10, <1>11, <3>1 DEF ExecutorInv, Shape
    <3>2. CASE x \notin InBatch(b)
      <4>1. Exists(x) /\ record'[x] = record[x]
        BY <1>10, <1>18, <2>2, <3>2
      <4>2. record[x] \in Records(Workers)
        BY <4>1, ExistsFacts DEF ExecutorInv
      <4>3. record[x].join # NoWorker => record[x].join \in Workers
        BY <4>2 DEF Records
      <4> QED
        BY <1>1, <1>16, <3>2, <4>1, <4>3 DEF ExecutorInv, Known
    <3> QED
      BY <3>1, <3>2, Zenon
  <2> QED
    BY <2>1, <2>2 DEF Known
<1>22. CallersFit'
  <2> SUFFICES ASSUME NEW d \in Callers PROVE CallerFits(caller[d])'
    BY DEF CallersFit
  <2>1. CASE d = c
    <3>1. f.claimed <= Len(Batches[b])
      BY <1>1, <1>2, <1>5, Zenon DEF ExecutorInv, CallersFit, CallerFits, WithBatch
    <3> QED
      BY <1>5, <1>6, <2>1, <3>1, Zenon DEF CallerFits, WithAgent, WithBatch, Restarting
  <2>2. CASE d # c
    <3>1. caller'[d] = caller[d] /\ CallerFits(caller[d])
      BY <1>6, <2>2 DEF ExecutorInv, CallersFit
    <3>2. caller[d].pc \in WithAgent => /\ caller[d].agent \in Agents /\ Exists(caller[d].agent)
                                        /\ caller[d].agent \notin InBatch(b)
      BY <1>9, <3>1, Zenon DEF CallerFits
    <3>3. caller[d].pc \in WithAgent => /\ Exists(caller[d].agent)'
                                        /\ record'[caller[d].agent] = record[caller[d].agent]
                                        /\ worker'[caller[d].agent] = worker[caller[d].agent]
      <4> SUFFICES ASSUME caller[d].pc \in WithAgent
                   PROVE  /\ Exists(caller[d].agent)'
                          /\ record'[caller[d].agent] = record[caller[d].agent]
                          /\ worker'[caller[d].agent] = worker[caller[d].agent]
        OBVIOUS
      <4>1. PICK x \in Agents : x = caller[d].agent /\ Exists(x) /\ x \notin InBatch(b)
        BY <3>2
      <4>2. record'[x] = record[x] /\ worker'[x] = worker[x] /\ Exists(x)'
        BY <1>10, <1>14, <1>18, <4>1, Zenon
      <4> QED
        BY <3>1, <4>1, <4>2, Zenon
    <3> QED
      BY <1>1, <3>1, <3>2, <3>3, Zenon DEF CallerFits, WithAgent, WithBatch, Restarting
  <2> QED
    BY <2>1, <2>2, Zenon
<1>23. OwnRestarts' /\ OwnBatches'
  <2>1. OwnRestarts'
    BY <1>5, <1>6 DEF ExecutorInv, OwnRestarts, Restarting
  <2>2. \A d \in Callers : caller'[d].batch = caller[d].batch
    BY <1>2, <1>5, <1>6, Zenon
  <2> QED
    BY <2>1, <2>2 DEF ExecutorInv, OwnBatches
<1>24. BatchesWhole'
  <2>1. ASSUME NEW e \in DOMAIN Batches, e # b, NEW x \in InBatch(e)
        PROVE  /\ x \in Agents /\ x \notin InBatch(b) /\ (Exists(x)' <=> Exists(x))
               /\ worker'[x] = worker[x]
    BY <1>14, <1>18, <2>1, BatchFacts, Zenon
  <2>2. ASSUME NEW d \in Callers, d # c, caller[d].pc \in WithBatch
        PROVE  caller[d].batch \in DOMAIN Batches /\ caller[d].batch # b
    BY <1>2, <1>3, <2>2, Zenon DEF ExecutorInv, CallersFit, CallerFits, OwnBatches
  <2>3. ASSUME NEW d \in Callers, caller'[d].pc = "claim", NEW x \in InBatch(caller'[d].batch)
        PROVE  ~Exists(x)'
    <3>1. d # c /\ caller'[d] = caller[d] /\ caller[d].pc \in WithBatch
      BY <1>5, <1>6, <2>3, Zenon DEF WithBatch
    <3>2. PICK e \in DOMAIN Batches : e = caller[d].batch /\ e # b
      BY <2>2, <3>1, Zenon
    <3>3. x \in InBatch(e) /\ ~Exists(x)
      BY <2>3, <3>1, <3>2, Zenon DEF ExecutorInv, BatchesWhole
    <3> QED
      BY <2>1, <3>2, <3>3, Zenon
  <2>4. ASSUME NEW d \in Callers, caller'[d].pc = "launchBatch", NEW x \in InBatch(caller'[d].batch)
        PROVE  Exists(x)' /\ (Deps[x] # {} => worker'[x][1].pc = "blocked")
    <3>1. CASE d = c
      <4>1. x \in InBatch(b) /\ x \in Agents
        BY <1>3, <1>5, <1>6, <2>4, <3>1, Zenon
      <4> QED
        BY <1>13, <1>16, <1>18, <4>1, WorkerNumbers
    <3>2. CASE d # c
      <4>1. caller'[d] = caller[d] /\ caller[d].pc \in WithBatch
        BY <1>6, <2>4, <3>2 DEF WithBatch
      <4> QED
        BY <2>1, <2>2, <2>4, <3>2, <4>1 DEF ExecutorInv, BatchesWhole
    <3> QED
      BY <3>1, <3>2
  <2>5. ASSUME NEW e \in DOMAIN Batches
        PROVE  (\A a \in InBatch(e) : Exists(a)') \/ (\A a \in InBatch(e) : ~Exists(a)')
    <3>1. CASE e = b
      BY <1>3, <1>18, <3>1, Zenon
    <3>2. CASE e # b
      <4>1. \A x \in InBatch(e) : Exists(x)' <=> Exists(x)
        BY <2>1, <3>2
      <4> QED
        BY <4>1 DEF ExecutorInv, BatchesWhole
    <3> QED
      BY <3>1, <3>2, Zenon
  <2> QED
    BY <2>3, <2>4, <2>5, Zenon DEF BatchesWhole
<1>25. LeasesAreOwned' /\ LeasesExclusive'
  <2>1. LeasesExclusive'
    BY <1>1, Zenon DEF ExecutorInv, LeasesExclusive
  <2>2. ASSUME NEW x \in Agents, leases'[x] # {}
        PROVE  Exists(x)' \/ \E d \in Callers : caller'[d].pc = "claim" /\ x \in InBatch(caller'[d].batch)
    <3>1. CASE Exists(x)
      BY <1>18, <3>1, Zenon
    <3>2. CASE ~Exists(x)
      <4>1. PICK d \in Callers : caller[d].pc = "claim" /\ x \in InBatch(caller[d].batch)
        BY <1>1, <2>2, <3>2 DEF ExecutorInv, LeasesAreOwned
      <4>2. CASE d = c
        BY <1>2, <1>18, <4>1, <4>2, Zenon
      <4>3. CASE d # c
        BY <1>6, <4>1, <4>3, Zenon
      <4> QED
        BY <4>2, <4>3, Zenon
    <3> QED
      BY <3>1, <3>2, Zenon
  <2> QED
    BY <2>1, <2>2, Zenon DEF LeasesAreOwned
<1>26. \A x \in Agents : worker[x][1].pc = "blocked" => x \notin InBatch(b) /\ worker'[x][1] = worker[x][1]
  BY <1>8, <1>16, WorkerNumbers, Zenon
<1>27. \A d \in Callers : caller'[d].batch = caller[d].batch
  BY <1>2, <1>5, <1>6
<1>28. SchedulersFit'
  <2>1. \A e \in DOMAIN Batches : InBatch(e) \subseteq Agents
    BY BatchFacts
  <2> QED
    BY <1>1, <1>26, <1>27, <2>1 DEF ExecutorInv, SchedulersFit, SchedulerFits
<1>29. PlansAreHeld'
  <2> SUFFICES ASSUME NEW x \in Agents, NEW y \in Workers, worker'[x][y].pc = "blocked"
               PROVE  /\ y = 1 /\ Deps[x] # {}
                      /\ \E e \in DOMAIN Batches : x \in InBatch(e) /\
                            (x \in scheduler'[e].blocked \/ \E d \in Callers : caller'[d].batch = e)
    BY DEF PlansAreHeld
  <2>1. CASE x \in InBatch(b) /\ y = 1
    BY <1>2, <1>13, <1>16, <1>27, <2>1
  <2>2. CASE ~(x \in InBatch(b) /\ y = 1)
    BY <1>1, <1>16, <1>27, <2>2 DEF ExecutorInv, PlansAreHeld
  <2> QED
    BY <2>1, <2>2
<1>30. EndedHasResult'
  BY <1>10, <1>11 DEF ExecutorInv, EndedHasResult, IsTerminal, Terminal
<1>31. MailboxIsServed'
  <2> SUFFICES ASSUME ~StoreFails, NEW x \in Agents, Exists(x)', record'[x].result = None
               PROVE  \/ /\ worker'[x][record'[x].mailbox].pc \notin {"unused", "closing", "gone"}
                         /\ ~worker'[x][record'[x].mailbox].aborted
                      \/ \E d \in Callers : /\ caller'[d].pc = "announce" /\ caller'[d].agent = x
                                            /\ caller'[d].k = record'[x].mailbox
    BY Zenon DEF MailboxIsServed
  <2>1. CASE x \in InBatch(b)
    BY <1>10, <1>11, <1>13, <1>16, <2>1, WorkerNumbers
  <2>2. CASE x \notin InBatch(b)
    <3>1. Exists(x) /\ record'[x] = record[x] /\ worker'[x] = worker[x]
      BY <1>10, <1>14, <1>18, <2>2
    <3>2. \A d \in Callers : caller[d].pc = "announce" => caller'[d] = caller[d]
      BY <1>1, <1>6, Zenon
    <3> QED
      BY <3>1, <3>2 DEF ExecutorInv, MailboxIsServed
  <2> QED
    BY <2>1, <2>2, Zenon
<1>32. CompletedIsEarned'
  <2> SUFFICES ASSUME NEW x \in Agents, record'[x].status = "Completed"
               PROVE  \E y \in Workers : CompletedBy(x, y)'
    BY DEF CompletedIsEarned
  <2>1. record[x].status = "Completed"
    BY <1>10, <1>11
  <2>2. \E y \in Workers : CompletedBy(x, y)
    BY <2>1 DEF ExecutorInv, CompletedIsEarned
  <2> QED
    BY <1>19, <2>2, EarnedStaysEarned, Zenon
<1>33. FirstMailbox'
  <2> SUFFICES ASSUME NEW x \in Agents, record'[x].mailbox = 1
               PROVE  /\ \A y \in Workers \ {1} : worker'[x][y].pc \in {"unused", "gone"}
                      /\ Waits(x)' \/ DepsDone(x)'
                      /\ \A e \in DOMAIN Batches :
                            x \in scheduler'[e].ready => IsTerminal(x)' \/ DepsDone(x)'
    BY DEF FirstMailbox
  <2>1. CASE x \in InBatch(b)
    <3>1. \A y \in Workers \ {1} : worker'[x][y].pc \in {"unused", "gone"}
      BY <1>8, <1>16, <2>1
    <3>2. Waits(x)' \/ DepsDone(x)'
      BY <1>13, <1>16, <2>1, WorkerNumbers DEF Waits, DepsDone
    <3>3. \A e \in DOMAIN Batches : x \notin scheduler'[e].ready
      BY <1>1, <1>26, <2>1 DEF ExecutorInv, SchedulersFit, SchedulerFits
    <3> QED
      BY <3>1, <3>2, <3>3
  <2>2. CASE x \notin InBatch(b)
    <3>1. record'[x] = record[x] /\ worker'[x] = worker[x]
      BY <1>10, <1>14, <2>2
    <3>2. DepsDone(x) => DepsDone(x)'
      BY <1>19, DoneStaysDone
    <3> QED
      BY <1>1, <3>1, <3>2 DEF ExecutorInv, FirstMailbox, Waits, IsTerminal
  <2> QED
    BY <2>1, <2>2, Zenon
<1> QED
  BY <1>17, <1>20, <1>21, <1>22, <1>23, <1>24, <1>25, <1>28, <1>29, <1>30, <1>31, <1>32, <1>33 DEF ExecutorInv

(* spawn returns and leaves the blocked children to their scheduler. *)
LEMMA SpawnReturnKeeps ==
    ASSUME ExecutorInv, NEW c \in Callers, SpawnReturn(c) PROVE ExecutorInv'
<1>1. /\ caller[c].pc = "launchBatch" /\ UNCHANGED <<record, worker, leases, restarts, sent>>
      /\ caller' = [caller EXCEPT ![c] = IdleCaller]
  BY DEF SpawnReturn, Return, Frame
<1>2. PICK b \in DOMAIN Batches : b = caller[c].batch
  BY <1>1, Zenon DEF ExecutorInv, CallersFit, CallerFits, WithBatch
<1> DEFINE blocked == {a \in InBatch(b) : Deps[a] # {}}
           s == IF blocked = {} THEN scheduler[b]
                ELSE [IdleScheduler EXCEPT !.pc = "scan", !.blocked = blocked]
<1>3. /\ b # 0 /\ blocked \subseteq Agents /\ blocked \subseteq InBatch(b)
      /\ \A a \in blocked : worker[a][1].pc = "blocked"
  BY <1>1, <1>2, BatchFacts, Zenon DEF ExecutorInv, BatchesWhole
<1>4. /\ caller' \in [Callers -> CallerFrames]
      /\ \A d \in Callers : caller'[d] = IF d = c THEN IdleCaller ELSE caller[d]
  BY <1>1, IdleFrame, Zenon DEF ExecutorInv, Shape
<1>5. /\ scheduler[b] \in SchedulerFrames /\ SchedulerFits(b, scheduler[b])
      /\ scheduler[b].blocked = {} /\ scheduler[b].ready = {}
  BY <1>2, SchedulerFacts, Zenon DEF SchedulerFits
<1>6. /\ s \in SchedulerFrames /\ s.blocked = blocked /\ s.ready = {}
      /\ s.failed = {} /\ (s.pc = "scan" \/ s.blocked = {})
  <2>1. CASE blocked = {}
    <3>1. scheduler[b].failed = {}
      BY <1>5, Zenon DEF SchedulerFits
    <3> QED
      BY <1>5, <2>1, <3>1, Zenon
  <2>2. CASE blocked # {}
    BY <1>3, <2>2, Zenon DEF IdleScheduler, SchedulerFrames
  <2> QED
    BY <2>1, <2>2, Zenon
<1>7. \A e \in DOMAIN Batches : scheduler'[e] = IF e = b THEN s ELSE scheduler[e]
  BY <1>2, Zenon DEF ExecutorInv, SpawnReturn, Shape
<1>8. scheduler' \in [DOMAIN Batches -> SchedulerFrames]
  BY <1>2, <1>6, Zenon DEF ExecutorInv, SpawnReturn, Shape
<1> HIDE DEF s
<1>9. Shape'
  BY <1>1, <1>4, <1>8, Zenon DEF ExecutorInv, Shape
<1>10. FramesFit' /\ Known' /\ LeasesExclusive' /\ EndedHasResult' /\ CompletedIsEarned'
  BY <1>1, Zenon DEF ExecutorInv, FramesFit, Known, LeasesExclusive, EndedHasResult, CompletedIsEarned, CompletedBy,
              Exists, IsTerminal
<1>11. CallersFit'
  <2> SUFFICES ASSUME NEW d \in Callers PROVE CallerFits(caller[d])'
    BY DEF CallersFit
  <2>1. CASE d = c
    BY <1>4, <2>1, IdleFrame, Zenon DEF CallerFits, WithAgent, WithBatch, Restarting
  <2>2. CASE d # c
    BY <1>1, <1>4, <2>2, Zenon DEF ExecutorInv, CallersFit, CallerFits, Exists
  <2> QED
    BY <2>1, <2>2
<1>12. IdleCaller.pc = "idle" /\ IdleCaller.batch = 0
  BY DEF IdleCaller
<1>13. OwnRestarts' /\ OwnBatches'
  BY <1>4, <1>12 DEF ExecutorInv, OwnRestarts, OwnBatches, Restarting
<1>14. BatchesWhole' /\ LeasesAreOwned'
  <2>1. BatchesWhole'
    BY <1>1, <1>4, <1>12 DEF ExecutorInv, BatchesWhole, Exists
  <2>2. LeasesAreOwned'
    BY <1>1, <1>4 DEF ExecutorInv, LeasesAreOwned, Exists
  <2> QED
    BY <2>1, <2>2, Zenon
<1>15. \A d \in Callers : caller'[d].batch # b
  BY <1>2, <1>3, <1>4, <1>12, Zenon DEF ExecutorInv, OwnBatches
<1>16. SchedulersFit'
  <2> SUFFICES ASSUME NEW e \in DOMAIN Batches PROVE SchedulerFits(e, scheduler[e])'
    BY Zenon DEF SchedulersFit
  <2>1. CASE e = b
    BY <1>1, <1>3, <1>6, <1>7, <1>15, <2>1, Zenon DEF SchedulerFits
  <2>2. CASE e # b
    <3>1. scheduler'[e] = scheduler[e] /\ SchedulerFits(e, scheduler[e])
      BY <1>7, <2>2, Zenon DEF ExecutorInv, SchedulersFit
    <3>2. (\E d \in Callers : caller'[d].batch = e) => \E d \in Callers : caller[d].batch = e
      BY <1>4, <1>12, BatchFacts
    <3> QED
      BY <1>1, <3>1, <3>2, Zenon DEF SchedulerFits
  <2> QED
    BY <2>1, <2>2
<1>17. PlansAreHeld'
  <2> SUFFICES ASSUME NEW x \in Agents, NEW y \in Workers, worker'[x][y].pc = "blocked"
               PROVE  /\ y = 1 /\ Deps[x] # {}
                      /\ \E e \in DOMAIN Batches : x \in InBatch(e) /\
                            (x \in scheduler'[e].blocked \/ \E d \in Callers : caller'[d].batch = e)
    BY DEF PlansAreHeld
  <2>1. y = 1 /\ Deps[x] # {}
    BY <1>1, Zenon DEF ExecutorInv, PlansAreHeld
  <2>2. PICK e \in DOMAIN Batches :
           x \in InBatch(e) /\ (x \in scheduler[e].blocked \/ \E d \in Callers : caller[d].batch = e)
    BY <1>1 DEF ExecutorInv, PlansAreHeld
  <2>3. CASE e = b
    BY <1>6, <1>7, <2>1, <2>2, <2>3
  <2>4. CASE e # b
    BY <1>2, <1>4, <1>7, <2>1, <2>2, <2>4, Zenon
  <2> QED
    BY <2>3, <2>4
<1>18. MailboxIsServed'
  <2>1. \A d \in Callers : caller[d].pc = "announce" => caller'[d] = caller[d]
    BY <1>1, <1>4
  <2> QED
    BY <1>1, <2>1 DEF ExecutorInv, MailboxIsServed, Exists
<1>19. FirstMailbox'
  <2>1. \A x \in Agents : (Waits(x)' <=> Waits(x)) /\ (DepsDone(x)' <=> DepsDone(x))
                           /\ (IsTerminal(x)' <=> IsTerminal(x))
    BY <1>1 DEF Waits, DepsDone, CompletedBy, IsTerminal
  <2> QED
    BY <1>1, <1>6, <1>7, <2>1 DEF ExecutorInv, FirstMailbox
<1> QED
  BY <1>9, <1>10, <1>11, <1>13, <1>14, <1>16, <1>17, <1>18, <1>19, Zenon DEF ExecutorInv

(* A step of something else keeps the invariant. *)
LEMMA ExecutorStutters == ASSUME ExecutorInv, UNCHANGED vars PROVE ExecutorInv'
<1>0. /\ record' = record /\ worker' = worker /\ leases' = leases /\ caller' = caller
      /\ scheduler' = scheduler /\ restarts' = restarts /\ sent' = sent
  BY DEF vars
<1>1. Shape' /\ FramesFit' /\ Known'
  BY <1>0, Zenon DEF ExecutorInv, Shape, FramesFit, Known, Exists
<1>2. OwnRestarts' /\ OwnBatches' /\ LeasesExclusive'
  BY <1>0, Zenon DEF ExecutorInv, OwnRestarts, OwnBatches, LeasesExclusive
<1>3. CallersFit'
  BY <1>0, Zenon DEF ExecutorInv, CallersFit, CallerFits, Exists
<1>4. BatchesWhole' /\ LeasesAreOwned'
  BY <1>0, Zenon DEF ExecutorInv, BatchesWhole, LeasesAreOwned, Exists
<1>5. SchedulersFit'
  BY <1>0, Zenon DEF ExecutorInv, SchedulersFit, SchedulerFits
<1>6. PlansAreHeld'
  BY <1>0 DEF ExecutorInv, PlansAreHeld
<1>7. EndedHasResult' /\ CompletedIsEarned'
  BY <1>0, Zenon DEF ExecutorInv, EndedHasResult, CompletedIsEarned, CompletedBy, IsTerminal
<1>8. MailboxIsServed'
  BY <1>0, Zenon DEF ExecutorInv, MailboxIsServed, Exists
<1>9. FirstMailbox'
  BY <1>0, Zenon DEF ExecutorInv, FirstMailbox, Waits, DepsDone, CompletedBy, IsTerminal
<1> QED
  BY <1>1, <1>2, <1>3, <1>4, <1>5, <1>6, <1>7, <1>8, <1>9, Zenon DEF ExecutorInv

-----------------------------------------------------------------------------
(* The executor starts with an empty registry. *)
LEMMA ExecutorStarts == Init => ExecutorInv
<1> SUFFICES ASSUME Init PROVE ExecutorInv
  OBVIOUS
<1> USE DEF Init
<1>1. Unused \in WorkerFrames /\ FrameFits(Unused) /\ Unused.pc = "unused"
  <2>1. <<>> \in Seq(Messages) /\ <<>> \in Seq(Messages \cup {First})
    OBVIOUS
  <2> QED
    BY <2>1, Zenon DEF Unused, WorkerFrames, None, FrameFits
<1>2. IdleScheduler \in SchedulerFrames /\ IdleScheduler.blocked = {} /\ IdleScheduler.ready = {}
      /\ IdleScheduler.failed = {} /\ IdleScheduler.pc = "off"
  BY Zenon DEF IdleScheduler, SchedulerFrames
<1>3. /\ NoRecord.status \notin Terminal /\ NoRecord.mailbox # 1 /\ NoRecord.status # "Completed"
  BY DEF NoRecord, None, Terminal, NoWorker
<1>4. IdleCaller \in CallerFrames /\ IdleCaller.pc = "idle" /\ IdleCaller.batch = 0
  BY IdleFrame DEF IdleCaller
<1>5. \A a \in Agents : ~Exists(a)
  BY Zenon DEF Exists
<1>6. Shape
  <2>1. MaxRestarts \in Nat /\ MaxSends \in Nat
    BY ExecutorAssumption
  <2> QED
    BY <1>1, <1>2, <1>4, <2>1 DEF Shape
<1>7. FramesFit /\ Known
  BY <1>1, <1>5, Zenon DEF FramesFit, Known
<1>8. CallersFit /\ OwnRestarts /\ OwnBatches
  BY <1>4, Zenon DEF CallersFit, CallerFits, OwnRestarts, OwnBatches, WithAgent, WithBatch, Restarting
<1>9. BatchesWhole /\ LeasesAreOwned
  <2>1. \A b \in DOMAIN Batches : \A a \in InBatch(b) : ~Exists(a)
    BY <1>5, BatchFacts
  <2> QED
    BY <1>4, <2>1 DEF BatchesWhole, LeasesAreOwned
<1>10. LeasesExclusive
  BY Zenon DEF LeasesExclusive
<1>11. SchedulersFit /\ PlansAreHeld
  BY <1>1, <1>2 DEF SchedulersFit, SchedulerFits, PlansAreHeld
<1>12. EndedHasResult /\ MailboxIsServed /\ CompletedIsEarned /\ FirstMailbox
  BY <1>3, <1>5, Zenon DEF EndedHasResult, MailboxIsServed, CompletedIsEarned, FirstMailbox, IsTerminal
<1> QED
  BY <1>6, <1>7, <1>8, <1>9, <1>10, <1>11, <1>12 DEF ExecutorInv

(* Every step of the callers, the launches, the workers and the schedulers keeps the
   invariant. *)
LEMMA ExecutorSteps == ASSUME ExecutorInv, [Next]_vars PROVE ExecutorInv'
<1>1. ASSUME NEW a \in Agents, NEW k \in Workers, LaunchStep(a, k) PROVE ExecutorInv'
  BY <1>1, LaunchSpawnKeeps, LaunchAttachKeeps, LaunchFailKeeps, Zenon DEF LaunchStep
<1>2. ASSUME NEW a \in Agents, NEW k \in Workers, WorkerStep(a, k) PROVE ExecutorInv'
  BY <1>2, WorkerStartKeeps, WorkerStartedKeeps, WorkerAppendFailsKeeps, WorkerReceiveKeeps,
     WorkerWokenKeeps, WorkerMailboxClosedKeeps, WorkerTurnKeeps, WorkerDrainKeeps,
     WorkerFinishKeeps, WorkerReleaseKeeps, WorkerAbortedKeeps, Zenon DEF WorkerStep
<1>3. ASSUME NEW c \in Callers, CallerStep(c) PROVE ExecutorInv'
  BY <1>3, SpawnClaimKeeps, SpawnInsertKeeps, SpawnEventsFailKeeps, SpawnReturnKeeps,
     QueueInputKeeps, InterruptRestartKeeps, InterruptLaunchKeeps, InterruptFailsKeeps,
     ResumeReopenKeeps, ResumeFailsKeeps, LaunchReturnKeeps, CancelRecordKeeps,
     CancelReleaseKeeps, Zenon DEF CallerStep
<1>4. ASSUME NEW c \in Callers, CallerBegins(c) PROVE ExecutorInv'
  BY <1>4, SpawnBeginKeeps, SendBeginKeeps, ResumeBeginKeeps, CancelBeginKeeps DEF CallerBegins
<1>5. ASSUME NEW b \in DOMAIN Batches, SchedulerStep(b) PROVE ExecutorInv'
  BY <1>5, SchedulerScanKeeps, SchedulerTakeKeeps, SchedulerFailKeeps, SchedulerRestKeeps,
     SchedulerWakeKeeps, Zenon DEF SchedulerStep
<1> QED
  BY <1>1, <1>2, <1>3, <1>4, <1>5, ExecutorStutters DEF Next, Progress

(* The invariant holds in every state of every behaviour of the executor. *)
LEMMA ExecutorHolds == Spec => []ExecutorInv
  BY ExecutorStarts, ExecutorSteps, PTL DEF Spec

-----------------------------------------------------------------------------
(* Records, frames, leases and counters keep their shapes, for any agents, callers,
   batches and bounds (the registry of subagent_impl.rs). *)
THEOREM ExecutorTypes == Spec => []TypeOK
<1>1. ExecutorInv => TypeOK
  BY Zenon DEF ExecutorInv, Shape, TypeOK
<1> QED
  BY <1>1, ExecutorHolds, PTL

(* Two children never hold overlapping paths, for any file sets and any interleaving
   of spawns, resumes, releases and failures (claim, release). *)
THEOREM OneWriterPerPath == Spec => []LeasesExclusive
<1>1. ExecutorInv => LeasesExclusive
  BY DEF ExecutorInv
<1> QED
  BY <1>1, ExecutorHolds, PTL

(* A batch that no call is spawning is registered as a whole, or holds neither a
   record nor a lease, for any batches and with a store that may fail (spawn). *)
THEOREM BatchesAllOrNothing == Spec => []SpawnAllOrNothing
<1>1. ExecutorInv => SpawnAllOrNothing
  <2> SUFFICES ASSUME ExecutorInv, NEW b \in DOMAIN Batches,
                      \A c \in Callers : caller[c].batch # b,
                      ~ \A a \in InBatch(b) : Exists(a),
                      NEW a \in InBatch(b)
               PROVE  ~Exists(a) /\ leases[a] = {}
    BY Zenon DEF SpawnAllOrNothing
  <2>1. ~Exists(a) /\ a \in Agents
    BY BatchFacts DEF ExecutorInv, BatchesWhole
  <2>2. ASSUME leases[a] # {} PROVE FALSE
    <3>1. PICK c \in Callers : caller[c].pc = "claim" /\ a \in InBatch(caller[c].batch)
      BY <2>1, <2>2, Zenon DEF ExecutorInv, LeasesAreOwned
    <3>2. caller[c].batch \in DOMAIN Batches
      BY <3>1, Zenon DEF ExecutorInv, CallersFit, CallerFits, WithBatch
    <3> QED
      BY <3>1, <3>2, BatchFacts
  <2> QED
    BY <2>1, <2>2, Zenon
<1> QED
  BY <1>1, ExecutorHolds, PTL

(* A child runs on the mailbox spawn gave it only after each of its dependencies has
   completed, for any dependencies and however they are cancelled, interrupted and resumed
   meanwhile (run_dependency_scheduler, dependency_gate). *)
THEOREM DependentsAlwaysWait == Spec => []DependentsWait
<1>1. ExecutorInv => DependentsWait
  BY DEF ExecutorInv, FirstMailbox, DependentsWait, Started, Waits, DepsDone
<1> QED
  BY <1>1, ExecutorHolds, PTL

(* With a store that does not fail, a child without an outcome always has somebody to
   give it one: a worker no abort has hit, a plan in the hands of spawn or the scheduler, or
   the interrupt about to launch one (subagent_impl.rs). *)
THEOREM NoChildIsOrphaned == ASSUME ~StoreFails PROVE Spec => []NoOrphan
<1>1. ExecutorInv => NoOrphan
  <2> SUFFICES ASSUME ExecutorInv, NEW a \in Agents, Exists(a), record[a].result = None
               PROVE  \/ \E k \in Workers : Alive(a, k) /\ ~worker[a][k].aborted
                      \/ \E c \in Callers : caller[c].agent = a /\ caller[c].pc = "announce"
    BY DEF NoOrphan
  <2>1. PICK k \in Workers : k = record[a].mailbox
    BY ExistsFacts DEF ExecutorInv, Records
  <2>2. ASSUME worker[a][k].pc \notin {"unused", "closing", "gone"} PROVE Alive(a, k)
    BY <2>2, Zenon DEF Alive, ExecutorInv, PlansAreHeld
  <2> QED
    BY <2>1, <2>2, Zenon DEF ExecutorInv, MailboxIsServed
<1> QED
  BY <1>1, ExecutorHolds, PTL
=============================================================================
