---------------------------- MODULE ManagerProofs ---------------------------
(***************************************************************************)
(* The host's managers, for any agents, paths, monitors, stops,            *)
(* automations and run limits: no two agents hold leases on overlapping    *)
(* paths, a monitor listed as finished has no process left and a stop is   *)
(* reported, and an automation's counted runs have their tasks and a       *)
(* deleted one runs no more.                                               *)
(***************************************************************************)
EXTENDS WriteLease, MonitorManager, CronManager, TLAPS

(* The write leases: write_lease.rs *)

(***************************************************************************)
(* Exclusive write access, for any set of agents and any set of paths.     *)
(***************************************************************************)

(* Which of two overlapping paths is the longer one does not matter: claim
   checks the requested path against both directions of the tree. *)
LEMMA OverlapSymmetric ==
    ASSUME NEW p, NEW q
    PROVE  Overlap(p, q) <=> Overlap(q, p)
BY DEF Overlap

(* A granted claim adds no overlap with another agent's leases. *)
LEMMA ClaimKeepsExclusive ==
    ASSUME TypeOK, Exclusive, NEW a \in Agents, NEW P \in SUBSET Paths, Claim(a, P)
    PROVE  Exclusive'
<1> SUFFICES ASSUME NEW b \in Agents, NEW c \in Agents,
                    NEW p \in leases'[b], NEW q \in leases'[c],
                    Overlap(p, q), b # c
             PROVE  FALSE
  BY DEF Exclusive
<1>1. leases'[b] = IF b = a THEN leases[b] \cup P ELSE leases[b]
  BY Zenon DEF Claim, TypeOK
<1>2. leases'[c] = IF c = a THEN leases[c] \cup P ELSE leases[c]
  BY DEF Claim, TypeOK
<1>3. ~(p \in leases[b] /\ q \in leases[c])
  BY DEF Exclusive
<1>4. CASE b = a /\ p \in P /\ q \in leases[c]
  BY <1>4 DEF Claim, Claimable, Blockers
<1>5. CASE c = a /\ q \in P /\ p \in leases[b]
  BY <1>5, OverlapSymmetric DEF Claim, Claimable, Blockers
<1> QED
  BY <1>1, <1>2, <1>3, <1>4, <1>5

(* Every operation of the manager keeps the table well typed. *)
THEOREM TypeCorrect == Spec => []TypeOK
<1>1. Init => TypeOK
  BY DEF Init, TypeOK, None
<1>2. TypeOK /\ [Next]_vars => TypeOK'
  BY DEF TypeOK, Next, vars, Claim, Release, Write, Refuse, Answer, None
<1> QED
  BY <1>1, <1>2, PTL DEF Spec

(* No two agents ever hold leases on overlapping paths. *)
THEOREM ExclusiveAlways == Spec => []Exclusive
<1>1. Init => Exclusive
  BY DEF Init, Exclusive
<1>2. TypeOK /\ Exclusive /\ [Next]_vars => Exclusive'
  <2> SUFFICES ASSUME TypeOK, Exclusive, [Next]_vars
               PROVE  Exclusive'
    OBVIOUS
  <2>1. CASE \E a \in Agents : \E P \in SUBSET Paths : Claim(a, P)
    BY <2>1, ClaimKeepsExclusive
  <2>2. CASE \E a \in Agents : Release(a)
    BY <2>2 DEF Release, Exclusive, TypeOK
  <2>3. CASE UNCHANGED leases
    BY <2>3 DEF Exclusive
  <2> QED
    BY <2>1, <2>2, <2>3 DEF Next, Write, Refuse, vars
<1> QED
  BY <1>1, <1>2, TypeCorrect, PTL DEF Spec

-----------------------------------------------------------------------------
(* The monitors: monitor_manager.rs *)
(* The shapes of the registry's entries and of the frames. *)
MonitorRecord == [status: MonitorStatus, lock: {Nobody, Finalizer}, cancelled: BOOLEAN]
FinalizerStage == {"none", "publish_started", "abandoned", "lock", "wait",
                   "publish", "update", "notify", "done"}
FinalizerFrame == [pc: FinalizerStage, status: {"none"} \cup TerminalMonitor]
StopResult == {"none", "error"} \cup MonitorStatus
StopperFrame == [pc: {"idle", "lock", "register", "notified"},
                 monitor: Monitors \cup {Nobody}, reason: BOOLEAN, result: StopResult]

MonitorShape ==
    /\ process \in [Monitors -> {"none", "running", "killed", "success", "failure", "reaped"}]
    /\ monitor \in [Monitors -> MonitorRecord]
    /\ finalizer \in [Monitors -> FinalizerFrame]
    /\ stopper \in [Stoppers -> StopperFrame]
    /\ monitorLog \in [Monitors -> Seq(MonitorStatus)]

(* The finalizer has a status for the monitor exactly when it has reaped the
   process; the registry has that status once update_summary has run. *)
Finished(m) == finalizer[m].pc \in {"notify", "done"}
FinalizerOrder ==
    \A m \in Monitors :
        /\ finalizer[m].pc \in {"publish", "update"} \/ Finished(m)
              <=> finalizer[m].status # "none"
        /\ finalizer[m].status # "none" => process[m] = "reaped"
        /\ Finished(m) => monitor[m].status = finalizer[m].status
        /\ monitor[m].status \in TerminalMonitor => Finished(m)
        /\ monitor[m].status = "absent" => finalizer[m].pc = "none"

(* The events the log can hold, by where the finalizer is. *)
LogOrder ==
    \A m \in Monitors :
        /\ finalizer[m].pc \in {"none", "publish_started", "abandoned"} => Len(monitorLog[m]) = 0
        /\ finalizer[m].pc \in {"lock", "wait", "publish"} => Len(monitorLog[m]) <= 1
        /\ finalizer[m].pc = "update" => Len(monitorLog[m]) <= 2
        /\ Len(monitorLog[m]) <= 3

(* A stop that has named its monitor has recorded its reason there. *)
StopsRecorded ==
    \A k \in Stoppers :
        stopper[k].pc # "idle" =>
            /\ stopper[k].monitor \in Monitors
            /\ stopper[k].reason => monitor[stopper[k].monitor].cancelled

MonitorInv ==
    /\ MonitorShape /\ FinalizerOrder /\ LogOrder
    /\ StopsRecorded /\ StopReported /\ StopReturnsFinal

-----------------------------------------------------------------------------
(* The frames a stop can get: returned with a result, begun, or one await further. *)
LEMMA StopFrames ==
    /\ \A r \in StopResult : [IdleStopper EXCEPT !.result = r] \in StopperFrame
    /\ \A m \in Monitors, b \in BOOLEAN :
          [IdleStopper EXCEPT !.pc = "lock", !.monitor = m, !.reason = b] \in StopperFrame
    /\ \A s \in StopperFrame : /\ [s EXCEPT !.pc = "register"] \in StopperFrame
                               /\ [s EXCEPT !.pc = "notified"] \in StopperFrame
<1>1. IdleStopper \in StopperFrame
  BY Zenon DEF IdleStopper, StopperFrame, StopResult
<1> QED
  BY <1>1, Zenon DEF StopperFrame

(* A stop moves, and the finalizers do not: what the invariant needs of its new
   frame. *)
LEMMA OneStopMoves ==
    ASSUME MonitorInv, NEW k \in Stoppers, NEW s \in StopperFrame,
           stopper' = [stopper EXCEPT ![k] = s],
           UNCHANGED <<finalizer, monitorLog>>,
           process' \in [Monitors -> {"none", "running", "killed", "success", "failure", "reaped"}],
           monitor' \in [Monitors -> MonitorRecord],
           \A n \in Monitors :
              /\ process[n] = "reaped" => process'[n] = "reaped"
              /\ monitor'[n].status = monitor[n].status
              /\ monitor[n].cancelled => monitor'[n].cancelled,
           s.pc # "idle" => /\ s.monitor \in Monitors
                            /\ s.reason => monitor'[s.monitor].cancelled,
           s.pc \in {"register", "notified"} /\ s.reason
              => finalizer[s.monitor].status \in {"none", "Cancelled"},
           s.result # "Running"
    PROVE  MonitorInv'
<1>1. \A j \in Stoppers : stopper'[j] = IF j = k THEN s ELSE stopper[j]
  BY DEF MonitorInv, MonitorShape
<1>2. MonitorShape'
  BY DEF MonitorInv, MonitorShape
<1>3. FinalizerOrder' /\ LogOrder'
  BY DEF MonitorInv, FinalizerOrder, Finished, LogOrder
<1>4. StopsRecorded'
  BY <1>1 DEF MonitorInv, StopsRecorded
<1>5. StopReported' /\ StopReturnsFinal'
  BY <1>1 DEF MonitorInv, StopReported, StopReturnsFinal
<1> QED
  BY <1>2, <1>3, <1>4, <1>5 DEF MonitorInv

(* Nothing is monitored at first. *)
LEMMA MonitorInitially == MonitorInit => MonitorInv
<1> SUFFICES ASSUME MonitorInit PROVE MonitorInv
  OBVIOUS
<1>1. NoMonitor \in MonitorRecord
  BY Zenon DEF NoMonitor, MonitorStatus, MonitorRecord
<1>2. IdleStopper \in StopperFrame
  BY Zenon DEF IdleStopper, StopperFrame, StopResult
<1>3. [pc |-> "none", status |-> "none"] \in FinalizerFrame
  BY Zenon DEF FinalizerFrame, FinalizerStage
<1>4. MonitorShape
  BY <1>1, <1>2, <1>3 DEF MonitorInit, MonitorShape
<1>5. FinalizerOrder /\ LogOrder
  BY DEF MonitorInit, FinalizerOrder, LogOrder, Finished, NoMonitor, TerminalMonitor
<1> QED
  BY <1>4, <1>5 DEF MonitorInit, MonitorInv, StopsRecorded, StopReported, StopReturnsFinal,
                    IdleStopper

(* Every step of the manager, of a stop and of the process keeps the invariant. *)
LEMMA MonitorStepKeeps == MonitorInv /\ [MonitorNext]_monitorVars => MonitorInv'
<1> SUFFICES ASSUME MonitorInv, [MonitorNext]_monitorVars PROVE MonitorInv'
  OBVIOUS
<1>1. ASSUME NEW m \in Monitors, StartMonitor(m) PROVE MonitorInv'
  <2>1. StopReturnsFinal'
    BY <1>1 DEF MonitorInv, StartMonitor, StopReturnsFinal
  <2>2. MonitorShape'
    <3>1. process' \in [Monitors -> {"none", "running", "killed", "success", "failure", "reaped"}]
      BY <1>1 DEF MonitorInv, MonitorShape, StartMonitor, Finalize, NoMonitor
    <3>2. monitor' \in [Monitors -> MonitorRecord]
      BY <1>1, Zenon DEF MonitorInv, MonitorShape, StartMonitor, Finalize, NoMonitor, MonitorRecord,
             MonitorStatus, TerminalMonitor
    <3>3. finalizer' \in [Monitors -> FinalizerFrame]
      BY <1>1, ZenonT(30) DEF MonitorInv, MonitorShape, StartMonitor, Finalize, NoMonitor, FinalizerFrame,
             FinalizerStage, TerminalMonitor
    <3> QED
      BY <1>1, <3>1, <3>2, <3>3 DEF MonitorInv, MonitorShape, StartMonitor
  <2>3. FinalizerOrder'
    BY <1>1 DEF MonitorInv, StartMonitor, Finalize, NoMonitor, MonitorShape, FinalizerOrder,
           Finished, MonitorRecord, FinalizerFrame, FinalizerStage, StopperFrame, MonitorStatus,
           TerminalMonitor
  <2>4. LogOrder'
    BY <1>1 DEF MonitorInv, StartMonitor, Finalize, NoMonitor, MonitorShape, LogOrder,
           FinalizerOrder, Finished, MonitorRecord, FinalizerFrame, FinalizerStage,
           StopperFrame, MonitorStatus, TerminalMonitor
  <2>5. StopsRecorded'
    BY <1>1 DEF MonitorInv, StartMonitor, Finalize, NoMonitor, MonitorShape, StopsRecorded,
           FinalizerOrder, Finished, MonitorRecord, FinalizerFrame, FinalizerStage,
           StopperFrame, MonitorStatus, TerminalMonitor
  <2>6. StopReported'
    BY <1>1 DEF MonitorInv, StartMonitor, Finalize, NoMonitor, MonitorShape, FinalizerOrder,
           StopsRecorded, StopReported, Finished, MonitorRecord, FinalizerFrame, FinalizerStage,
           StopperFrame, MonitorStatus, TerminalMonitor
  <2> QED
    BY <2>1, <2>2, <2>3, <2>4, <2>5, <2>6 DEF MonitorInv
<1>2. ASSUME NEW m \in Monitors, PublishStarted(m) PROVE MonitorInv'
  <2>1. StopsRecorded' /\ StopReturnsFinal'
    BY <1>2 DEF MonitorInv, PublishStarted, StopsRecorded, StopReturnsFinal
  <2>2. MonitorShape'
    <3>1. finalizer' \in [Monitors -> FinalizerFrame]
      BY <1>2, ZenonT(30) DEF MonitorInv, MonitorShape, PublishStarted, LogMonitor, Finalize, FinalizerFrame,
             FinalizerStage, TerminalMonitor
    <3>2. monitorLog' \in [Monitors -> Seq(MonitorStatus)]
      BY <1>2 DEF MonitorInv, MonitorShape, PublishStarted, LogMonitor, Finalize, MonitorStatus,
             TerminalMonitor, FinalizerFrame
    <3> QED
      BY <1>2, <3>1, <3>2 DEF MonitorInv, MonitorShape, PublishStarted
  <2>3. FinalizerOrder'
    BY <1>2 DEF MonitorInv, PublishStarted, LogMonitor, Finalize, MonitorShape, FinalizerOrder,
           Finished, MonitorRecord, FinalizerFrame, FinalizerStage, StopperFrame, MonitorStatus,
           TerminalMonitor
  <2>4. LogOrder'
    BY <1>2 DEF MonitorInv, PublishStarted, LogMonitor, Finalize, MonitorShape, LogOrder,
           FinalizerOrder, Finished, MonitorRecord, FinalizerFrame, FinalizerStage,
           StopperFrame, MonitorStatus, TerminalMonitor
  <2>5. StopReported'
    BY <1>2 DEF MonitorInv, PublishStarted, LogMonitor, Finalize, MonitorShape, FinalizerOrder,
           StopsRecorded, StopReported, Finished, MonitorRecord, FinalizerFrame, FinalizerStage,
           StopperFrame, MonitorStatus, TerminalMonitor
  <2> QED
    BY <2>1, <2>2, <2>3, <2>4, <2>5 DEF MonitorInv
<1>3. ASSUME NEW m \in Monitors, PublishStartedFails(m) PROVE MonitorInv'
  <2>1. StopsRecorded' /\ StopReturnsFinal'
    BY <1>3 DEF MonitorInv, PublishStartedFails, StopsRecorded, StopReturnsFinal
  <2>2. MonitorShape'
    <3>1. finalizer' \in [Monitors -> FinalizerFrame]
      BY <1>3, SMTT(30) DEF MonitorInv, MonitorShape, PublishStartedFails, Finalize, FinalizerFrame,
             FinalizerStage, TerminalMonitor
    <3> QED
      BY <1>3, <3>1 DEF MonitorInv, MonitorShape, PublishStartedFails
  <2>3. FinalizerOrder'
    BY <1>3 DEF MonitorInv, PublishStartedFails, Finalize, MonitorShape, FinalizerOrder,
           Finished, MonitorRecord, FinalizerFrame, FinalizerStage, StopperFrame, MonitorStatus,
           TerminalMonitor
  <2>4. LogOrder'
    BY <1>3 DEF MonitorInv, PublishStartedFails, Finalize, MonitorShape, LogOrder,
           FinalizerOrder, Finished, MonitorRecord, FinalizerFrame, FinalizerStage,
           StopperFrame, MonitorStatus, TerminalMonitor
  <2>5. StopReported'
    BY <1>3 DEF MonitorInv, PublishStartedFails, Finalize, MonitorShape, FinalizerOrder,
           StopsRecorded, StopReported, Finished, MonitorRecord, FinalizerFrame, FinalizerStage,
           StopperFrame, MonitorStatus, TerminalMonitor
  <2> QED
    BY <2>1, <2>2, <2>3, <2>4, <2>5 DEF MonitorInv
<1>4. ASSUME NEW m \in Monitors, ProcessExit(m) PROVE MonitorInv'
  <2>1. LogOrder' /\ StopsRecorded' /\ StopReported' /\ StopReturnsFinal'
    BY <1>4, Zenon DEF MonitorInv, ProcessExit, LogOrder, StopsRecorded, StopReported, StopReturnsFinal
  <2>2. MonitorShape'
    <3>1. process' \in [Monitors -> {"none", "running", "killed", "success", "failure", "reaped"}]
      BY <1>4 DEF MonitorInv, MonitorShape, ProcessExit
    <3> QED
      BY <1>4, <3>1 DEF MonitorInv, MonitorShape, ProcessExit
  <2>3. FinalizerOrder'
    BY <1>4 DEF MonitorInv, ProcessExit, MonitorShape, FinalizerOrder, Finished, MonitorRecord,
           FinalizerFrame, FinalizerStage, StopperFrame, MonitorStatus, TerminalMonitor
  <2> QED
    BY <2>1, <2>2, <2>3 DEF MonitorInv
<1>5. ASSUME NEW m \in Monitors, ProcessDies(m) PROVE MonitorInv'
  <2>1. LogOrder' /\ StopsRecorded' /\ StopReported' /\ StopReturnsFinal'
    BY <1>5 DEF MonitorInv, ProcessDies, LogOrder, StopsRecorded, StopReported, StopReturnsFinal
  <2>2. MonitorShape'
    <3>1. process' \in [Monitors -> {"none", "running", "killed", "success", "failure", "reaped"}]
      BY <1>5 DEF MonitorInv, MonitorShape, ProcessDies
    <3> QED
      BY <1>5, <3>1 DEF MonitorInv, MonitorShape, ProcessDies
  <2>3. FinalizerOrder'
    BY <1>5 DEF MonitorInv, ProcessDies, MonitorShape, FinalizerOrder, Finished, MonitorRecord,
           FinalizerFrame, FinalizerStage, StopperFrame, MonitorStatus, TerminalMonitor
  <2> QED
    BY <2>1, <2>2, <2>3 DEF MonitorInv
<1>6. ASSUME NEW m \in Monitors, FinalizeLock(m) PROVE MonitorInv'
  <2>1. StopReturnsFinal'
    BY <1>6 DEF MonitorInv, FinalizeLock, StopReturnsFinal
  <2>2. MonitorShape'
    <3>1. monitor' \in [Monitors -> MonitorRecord]
      BY <1>6, ZenonT(60) DEF MonitorInv, MonitorShape, FinalizeLock, Finalize, MonitorRecord, MonitorStatus,
             TerminalMonitor
    <3>2. finalizer' \in [Monitors -> FinalizerFrame]
      BY <1>6, ZenonT(30) DEF MonitorInv, MonitorShape, FinalizeLock, Finalize, FinalizerFrame,
             FinalizerStage, TerminalMonitor
    <3> QED
      BY <1>6, <3>1, <3>2 DEF MonitorInv, MonitorShape, FinalizeLock
  <2>3. FinalizerOrder'
    BY <1>6 DEF MonitorInv, FinalizeLock, Finalize, MonitorShape, FinalizerOrder, Finished,
           MonitorRecord, FinalizerFrame, FinalizerStage, StopperFrame, MonitorStatus,
           TerminalMonitor
  <2>4. LogOrder'
    BY <1>6 DEF MonitorInv, FinalizeLock, Finalize, MonitorShape, LogOrder, FinalizerOrder,
           Finished, MonitorRecord, FinalizerFrame, FinalizerStage, StopperFrame, MonitorStatus,
           TerminalMonitor
  <2>5. StopsRecorded'
    BY <1>6 DEF MonitorInv, FinalizeLock, Finalize, MonitorShape, StopsRecorded, FinalizerOrder,
           Finished, MonitorRecord, FinalizerFrame, FinalizerStage, StopperFrame, MonitorStatus,
           TerminalMonitor
  <2>6. StopReported'
    BY <1>6 DEF MonitorInv, FinalizeLock, Finalize, MonitorShape, FinalizerOrder, StopsRecorded,
           StopReported, Finished, MonitorRecord, FinalizerFrame, FinalizerStage, StopperFrame,
           MonitorStatus, TerminalMonitor
  <2> QED
    BY <2>1, <2>2, <2>3, <2>4, <2>5, <2>6 DEF MonitorInv
<1>7. ASSUME NEW m \in Monitors, FinalizeWait(m) PROVE MonitorInv'
  <2>1. StopReturnsFinal'
    BY <1>7 DEF MonitorInv, FinalizeWait, StopReturnsFinal
  <2>2. MonitorShape'
    <3>1. process' \in [Monitors -> {"none", "running", "killed", "success", "failure", "reaped"}]
      BY <1>7 DEF MonitorInv, MonitorShape, FinalizeWait, MonitorOutcome
    <3>2. monitor' \in [Monitors -> MonitorRecord]
      BY <1>7, ZenonT(30) DEF MonitorInv, MonitorShape, FinalizeWait, MonitorOutcome, MonitorRecord,
             MonitorStatus, TerminalMonitor
    <3>3. finalizer' \in [Monitors -> FinalizerFrame]
      BY <1>7 DEF MonitorInv, MonitorShape, FinalizeWait, MonitorOutcome, FinalizerFrame,
             FinalizerStage, TerminalMonitor
    <3> QED
      BY <1>7, <3>1, <3>2, <3>3 DEF MonitorInv, MonitorShape, FinalizeWait
  <2>3. FinalizerOrder'
    BY <1>7 DEF MonitorInv, FinalizeWait, MonitorOutcome, MonitorShape, FinalizerOrder,
           Finished, MonitorRecord, FinalizerFrame, FinalizerStage, StopperFrame, MonitorStatus,
           TerminalMonitor
  <2>4. LogOrder'
    BY <1>7 DEF MonitorInv, FinalizeWait, MonitorOutcome, MonitorShape, LogOrder,
           FinalizerOrder, Finished, MonitorRecord, FinalizerFrame, FinalizerStage,
           StopperFrame, MonitorStatus, TerminalMonitor
  <2>5. StopsRecorded'
    BY <1>7 DEF MonitorInv, FinalizeWait, MonitorOutcome, MonitorShape, StopsRecorded,
           FinalizerOrder, Finished, MonitorRecord, FinalizerFrame, FinalizerStage,
           StopperFrame, MonitorStatus, TerminalMonitor
  <2>6. StopReported'
    BY <1>7 DEF MonitorInv, FinalizeWait, MonitorOutcome, MonitorShape, FinalizerOrder,
           StopsRecorded, StopReported, Finished, MonitorRecord, FinalizerFrame, FinalizerStage,
           StopperFrame, MonitorStatus, TerminalMonitor
  <2> QED
    BY <2>1, <2>2, <2>3, <2>4, <2>5, <2>6 DEF MonitorInv
<1>8. ASSUME NEW m \in Monitors, FinalizePublish(m) PROVE MonitorInv'
  <2>0. finalizer[m].status \in TerminalMonitor
    BY <1>8 DEF FinalizePublish, MonitorInv, MonitorShape, FinalizerOrder, FinalizerFrame
  <2>1. StopsRecorded' /\ StopReturnsFinal'
    BY <1>8 DEF MonitorInv, FinalizePublish, StopsRecorded, StopReturnsFinal
  <2>2. MonitorShape'
    <3>1. finalizer' \in [Monitors -> FinalizerFrame]
      BY <1>8, SMTT(30) DEF MonitorInv, MonitorShape, FinalizePublish, LogMonitor, Finalize, FinalizerFrame,
             FinalizerStage, TerminalMonitor
    <3>2. monitorLog' \in [Monitors -> Seq(MonitorStatus)]
      <4>1. Append(monitorLog[m], finalizer[m].status) \in Seq(MonitorStatus)
        BY <2>0 DEF MonitorInv, MonitorShape, MonitorStatus
      <4>2. CASE LogMonitor(m, finalizer[m].status)
        BY <4>1, <4>2 DEF MonitorInv, MonitorShape, LogMonitor
      <4>3. CASE UNCHANGED monitorLog
        BY <4>3 DEF MonitorInv, MonitorShape
      <4> QED
        BY <1>8, <4>2, <4>3 DEF FinalizePublish
    <3> QED
      BY <1>8, <3>1, <3>2 DEF MonitorInv, MonitorShape, FinalizePublish
  <2>3. FinalizerOrder'
    BY <1>8 DEF MonitorInv, FinalizePublish, LogMonitor, Finalize, MonitorShape, FinalizerOrder,
           Finished, MonitorRecord, FinalizerFrame, FinalizerStage, StopperFrame, MonitorStatus,
           TerminalMonitor
  <2>4. LogOrder'
    BY <1>8 DEF MonitorInv, FinalizePublish, LogMonitor, Finalize, MonitorShape, LogOrder,
           FinalizerOrder, Finished, MonitorRecord, FinalizerFrame, FinalizerStage,
           StopperFrame, MonitorStatus, TerminalMonitor
  <2>5. StopReported'
    BY <1>8 DEF MonitorInv, FinalizePublish, LogMonitor, Finalize, MonitorShape, FinalizerOrder,
           StopsRecorded, StopReported, Finished, MonitorRecord, FinalizerFrame, FinalizerStage,
           StopperFrame, MonitorStatus, TerminalMonitor
  <2> QED
    BY <2>1, <2>2, <2>3, <2>4, <2>5 DEF MonitorInv
<1>9. ASSUME NEW m \in Monitors, FinalizeUpdate(m) PROVE MonitorInv'
  <2>0. finalizer[m].status \in TerminalMonitor
    BY <1>9 DEF FinalizeUpdate, MonitorInv, MonitorShape, FinalizerOrder, FinalizerFrame
  <2>1. StopReturnsFinal'
    BY <1>9 DEF MonitorInv, FinalizeUpdate, StopReturnsFinal
  <2>2. MonitorShape'
    <3>1. monitor' \in [Monitors -> MonitorRecord]
      BY <1>9, <2>0, ZenonT(30) DEF MonitorInv, MonitorShape, FinalizeUpdate, MonitorRecord, MonitorStatus
    <3>2. finalizer' \in [Monitors -> FinalizerFrame]
      BY <1>9, ZenonT(30) DEF MonitorInv, MonitorShape, FinalizeUpdate, LogMonitor, Finalize, FinalizerFrame,
             FinalizerStage, TerminalMonitor
    <3>3. monitorLog' \in [Monitors -> Seq(MonitorStatus)]
      <4>1. Append(monitorLog[m], finalizer[m].status) \in Seq(MonitorStatus)
        BY <2>0 DEF MonitorInv, MonitorShape, MonitorStatus
      <4>2. CASE LogMonitor(m, finalizer[m].status)
        BY <4>1, <4>2 DEF MonitorInv, MonitorShape, LogMonitor
      <4>3. CASE UNCHANGED monitorLog
        BY <4>3 DEF MonitorInv, MonitorShape
      <4> QED
        BY <1>9, <4>2, <4>3 DEF FinalizeUpdate
    <3> QED
      BY <1>9, <3>1, <3>2, <3>3 DEF MonitorInv, MonitorShape, FinalizeUpdate
  <2>3. FinalizerOrder'
    BY <1>9 DEF MonitorInv, FinalizeUpdate, LogMonitor, Finalize, MonitorShape, FinalizerOrder,
           Finished, MonitorRecord, FinalizerFrame, FinalizerStage, StopperFrame, MonitorStatus,
           TerminalMonitor
  <2>4. LogOrder'
    BY <1>9 DEF MonitorInv, FinalizeUpdate, LogMonitor, Finalize, MonitorShape, LogOrder,
           FinalizerOrder, Finished, MonitorRecord, FinalizerFrame, FinalizerStage,
           StopperFrame, MonitorStatus, TerminalMonitor
  <2>5. StopsRecorded'
    BY <1>9 DEF MonitorInv, FinalizeUpdate, LogMonitor, Finalize, MonitorShape, StopsRecorded,
           FinalizerOrder, Finished, MonitorRecord, FinalizerFrame, FinalizerStage,
           StopperFrame, MonitorStatus, TerminalMonitor
  <2>6. StopReported'
    BY <1>9 DEF MonitorInv, FinalizeUpdate, LogMonitor, Finalize, MonitorShape, FinalizerOrder,
           StopsRecorded, StopReported, Finished, MonitorRecord, FinalizerFrame, FinalizerStage,
           StopperFrame, MonitorStatus, TerminalMonitor
  <2> QED
    BY <2>1, <2>2, <2>3, <2>4, <2>5, <2>6 DEF MonitorInv
<1>10. ASSUME NEW m \in Monitors, FinalizeNotify(m) PROVE MonitorInv'
  <2>1. MonitorShape'
    <3>1. finalizer' \in [Monitors -> FinalizerFrame]
      BY <1>10, Zenon DEF MonitorInv, MonitorShape, FinalizeNotify, Finalize, IdleStopper, FinalizerFrame,
             FinalizerStage, TerminalMonitor
    <3>2. stopper' \in [Stoppers -> StopperFrame]
      <4>1. monitor[m].status \in MonitorStatus
        BY DEF MonitorInv, MonitorShape, MonitorRecord
      <4>2. [IdleStopper EXCEPT !.result = monitor[m].status] \in StopperFrame
        BY <4>1, StopFrames, Zenon DEF StopResult
      <4> QED
        BY <1>10, <4>2 DEF FinalizeNotify, MonitorInv, MonitorShape
    <3> QED
      BY <1>10, <3>1, <3>2, Zenon DEF MonitorInv, MonitorShape, FinalizeNotify
  <2>2. FinalizerOrder'
    BY <1>10 DEF MonitorInv, FinalizeNotify, Finalize, IdleStopper, MonitorShape,
           FinalizerOrder, Finished, MonitorRecord, FinalizerFrame, FinalizerStage,
           StopperFrame, MonitorStatus, TerminalMonitor
  <2>3. LogOrder'
    BY <1>10 DEF MonitorInv, FinalizeNotify, Finalize, IdleStopper, MonitorShape, LogOrder,
           FinalizerOrder, Finished, MonitorRecord, FinalizerFrame, FinalizerStage,
           StopperFrame, MonitorStatus, TerminalMonitor
  <2>4. StopsRecorded'
    BY <1>10 DEF MonitorInv, FinalizeNotify, Finalize, IdleStopper, MonitorShape, StopsRecorded,
           FinalizerOrder, Finished, MonitorRecord, FinalizerFrame, FinalizerStage,
           StopperFrame, MonitorStatus, TerminalMonitor
  <2>5. StopReported'
    BY <1>10 DEF MonitorInv, FinalizeNotify, Finalize, IdleStopper, MonitorShape,
           FinalizerOrder, StopsRecorded, StopReported, Finished, MonitorRecord, FinalizerFrame,
           FinalizerStage, StopperFrame, MonitorStatus, TerminalMonitor
  <2>6. StopReturnsFinal'
    BY <1>10, Zenon DEF MonitorInv, FinalizeNotify, Finalize, IdleStopper, MonitorShape,
           StopReturnsFinal, FinalizerOrder, Finished, MonitorRecord, FinalizerFrame,
           FinalizerStage, StopperFrame, MonitorStatus, TerminalMonitor
  <2> QED
    BY <2>1, <2>2, <2>3, <2>4, <2>5, <2>6 DEF MonitorInv
<1>11. ASSUME NEW k \in Stoppers, NEW m \in Monitors, StopMonitor(k, m) PROVE MonitorInv'
  <2>1. \A n \in Monitors : monitor[n].status \in MonitorStatus /\ monitor[n].cancelled \in BOOLEAN
    BY DEF MonitorInv, MonitorShape, MonitorRecord
  <2>3. CASE monitor[m].status \in TerminalMonitor
    <3> DEFINE s == [IdleStopper EXCEPT !.result = monitor[m].status]
    <3>1. stopper' = [stopper EXCEPT ![k] = s] /\ UNCHANGED <<process, monitor, finalizer, monitorLog>>
      BY <1>11, <2>3 DEF StopMonitor, StopReturned
    <3>2. s \in StopperFrame
      BY <2>1, StopFrames, Zenon DEF StopResult
    <3>3. s.pc = "idle" /\ s.result # "Running"
      BY <2>3 DEF IdleStopper, TerminalMonitor
    <3> HIDE DEF s
    <3> QED
      BY <3>1, <3>2, <3>3, OneStopMoves, Zenon DEF MonitorInv, MonitorShape
  <2>4. CASE monitor[m].status \notin TerminalMonitor
    <3>1. PICK reason \in BOOLEAN :
             /\ stopper' = [stopper EXCEPT ![k] = [IdleStopper EXCEPT
                               !.pc = "lock", !.monitor = m, !.reason = reason]]
             /\ monitor' = [monitor EXCEPT ![m].cancelled = @ \/ reason]
      BY <1>11, <2>4, Zenon DEF StopMonitor
    <3> DEFINE s == [IdleStopper EXCEPT !.pc = "lock", !.monitor = m, !.reason = reason]
    <3>2. s \in StopperFrame
      BY StopFrames, Zenon
    <3>3. s.pc = "lock" /\ s.monitor = m /\ s.reason = reason /\ s.result = "none"
      BY DEF IdleStopper
    <3>4. UNCHANGED <<process, finalizer, monitorLog>> /\ stopper' = [stopper EXCEPT ![k] = s]
      BY <1>11, <3>1, Zenon DEF StopMonitor
    <3>5. monitor' \in [Monitors -> MonitorRecord]
      <4>1. (monitor[m].cancelled \/ reason) \in BOOLEAN
        OBVIOUS
      <4> QED
        BY <3>1, <4>1, ZenonT(30) DEF MonitorInv, MonitorShape, MonitorRecord
    <3>6. \A n \in Monitors : /\ monitor'[n].status = monitor[n].status
                              /\ monitor[n].cancelled => monitor'[n].cancelled
      BY <3>1 DEF MonitorInv, MonitorShape, MonitorRecord
    <3>7. reason => monitor'[m].cancelled
      BY <3>1, Zenon DEF MonitorInv, MonitorShape, MonitorRecord
    <3> HIDE DEF s
    <3> QED
      BY <3>2, <3>3, <3>4, <3>5, <3>6, <3>7, OneStopMoves, Zenon DEF MonitorInv, MonitorShape
  <2> QED
    BY <2>3, <2>4
<1>12. ASSUME NEW k \in Stoppers, StopKill(k) PROVE MonitorInv'
  <2> DEFINE m == stopper[k].monitor
  <2>1. /\ stopper[k] \in StopperFrame /\ m \in Monitors
        /\ stopper[k].reason => monitor[m].cancelled
    BY <1>12 DEF StopKill, MonitorInv, MonitorShape, StopsRecorded
  <2>2. UNCHANGED <<monitor, finalizer, monitorLog>>
    BY <1>12, Zenon DEF StopKill
  <2>3. CASE process[m] = "reaped"
    <3> DEFINE s == [IdleStopper EXCEPT !.result = "error"]
    <3>1. stopper' = [stopper EXCEPT ![k] = s] /\ UNCHANGED process
      BY <1>12, <2>3 DEF StopKill, StopReturned
    <3>2. s \in StopperFrame /\ s.pc = "idle" /\ s.result = "error"
      BY StopFrames, Zenon DEF StopResult, IdleStopper
    <3> HIDE DEF s
    <3> QED
      BY <2>2, <3>1, <3>2, OneStopMoves, Zenon DEF MonitorInv, MonitorShape
  <2>4. CASE process[m] # "reaped"
    <3> DEFINE s == [stopper[k] EXCEPT !.pc = "register"]
    <3>1. /\ stopper' = [stopper EXCEPT ![k] = s]
          /\ process' = [process EXCEPT ![m] = IF @ = "running" THEN "killed" ELSE @]
      BY <1>12, <2>4 DEF StopKill
    <3>2. s \in StopperFrame
      BY <2>1, StopFrames, Zenon
    <3>3. /\ s.monitor = m /\ s.reason = stopper[k].reason /\ s.result = stopper[k].result
      BY <2>1 DEF StopperFrame
    <3>4. finalizer[m].status = "none" /\ stopper[k].result # "Running"
      BY <2>1, <2>4 DEF MonitorInv, FinalizerOrder, StopReturnsFinal
    <3>5. /\ process' \in [Monitors -> {"none", "running", "killed", "success", "failure", "reaped"}]
          /\ \A n \in Monitors : process[n] = "reaped" => process'[n] = "reaped"
      BY <2>1, <3>1 DEF MonitorInv, MonitorShape
    <3>6. monitor' \in [Monitors -> MonitorRecord] /\ UNCHANGED <<finalizer, monitorLog>>
      BY <2>2 DEF MonitorInv, MonitorShape
    <3>7. \A n \in Monitors : monitor'[n] = monitor[n]
      BY <2>2
    <3>8. s.reason => monitor'[s.monitor].cancelled
      BY <2>1, <3>3, <3>7
    <3> HIDE DEF s, m
    <3> QED
      BY <2>1, <3>1, <3>2, <3>3, <3>4, <3>5, <3>6, <3>7, <3>8, OneStopMoves, Zenon
  <2> QED
    BY <2>3, <2>4
<1>13. ASSUME NEW k \in Stoppers, StopRegister(k) PROVE MonitorInv'
  <2> DEFINE s == [stopper[k] EXCEPT !.pc = "notified"]
  <2>1. /\ stopper' = [stopper EXCEPT ![k] = s] /\ stopper[k] \in StopperFrame
        /\ UNCHANGED <<process, monitor, finalizer, monitorLog>>
    BY <1>13 DEF StopRegister, MonitorInv, MonitorShape
  <2>2. s \in StopperFrame
    BY <2>1, StopFrames, Zenon
  <2>3. /\ s.monitor = stopper[k].monitor /\ s.reason = stopper[k].reason
        /\ s.result = stopper[k].result
    BY <2>1 DEF StopperFrame
  <2>4. /\ stopper[k].monitor \in Monitors
        /\ stopper[k].reason => /\ monitor[stopper[k].monitor].cancelled
                                /\ finalizer[stopper[k].monitor].status \in {"none", "Cancelled"}
        /\ stopper[k].result # "Running"
    BY <1>13, Zenon DEF StopRegister, MonitorInv, StopsRecorded, StopReported, StopReturnsFinal
  <2> HIDE DEF s
  <2> QED
    BY <2>1, <2>2, <2>3, <2>4, OneStopMoves, Zenon DEF MonitorInv, MonitorShape
<1>14. CASE UNCHANGED monitorVars
  BY <1>14 DEF MonitorInv, monitorVars, MonitorShape, FinalizerOrder, Finished, LogOrder,
         StopsRecorded, StopReported, StopReturnsFinal
<1> QED
  BY <1>1, <1>2, <1>3, <1>4, <1>5, <1>6, <1>7, <1>8, <1>9, <1>10, <1>11, <1>12, <1>13, <1>14 DEF
         MonitorNext

(* The invariant holds of every behaviour. *)
LEMMA MonitorAlways == MonitorSpec => []MonitorInv
BY MonitorInitially, MonitorStepKeeps, PTL DEF MonitorSpec

(* For any monitors and stops: registry, frames and log keep their shapes, and the
   finalizer appends at most one start and two ends (finalize_monitor). *)
THEOREM MonitorTypes == MonitorSpec => []MonitorTypeOK
<1>1. MonitorInv => MonitorTypeOK
  BY DEF MonitorInv, MonitorShape, LogOrder, MonitorTypeOK, MonitorRecord, FinalizerFrame,
         FinalizerStage, StopperFrame, StopResult
<1> QED
  BY <1>1, MonitorAlways, PTL

(* For any monitors and stops: a monitor listed as finished has no process left
   (finalize_monitor waits before update_summary). *)
THEOREM FinishedMonitorsAreGone == MonitorSpec => []FinishedIsGone
<1>1. MonitorInv => FinishedIsGone
  BY DEF MonitorInv, FinalizerOrder, Finished, FinishedIsGone, TerminalMonitor
<1> QED
  BY <1>1, MonitorAlways, PTL

(* For any monitors and stops: stop_monitor never returns a running monitor. *)
THEOREM StopsReturnFinal == MonitorSpec => []StopReturnsFinal
<1>1. MonitorInv => StopReturnsFinal
  BY DEF MonitorInv
<1> QED
  BY <1>1, MonitorAlways, PTL

(* For any monitors and stops: a stop with a reason that killed the process is
   reported as a cancellation (request_cancel, finalize_monitor). *)
THEOREM StopsReported == MonitorSpec => []StopReported
<1>1. MonitorInv => StopReported
  BY DEF MonitorInv
<1> QED
  BY <1>1, MonitorAlways, PTL

-----------------------------------------------------------------------------
(* The automations: cron_manager.rs *)
LoopFrame == [pc: {"none", "sleep", "create", "notify", "persist", "failed"},
              aborted: BOOLEAN, written: CronRecord]
CronCallFrame == [pc: {"idle", "insert", "persist"}, cron: Crons \cup {"none"},
                  written: CronRecord]

CronShape ==
    /\ summary \in [Crons -> CronRecord] /\ cronLog \in [Crons -> CronRecord]
    /\ runLoop \in [Crons -> LoopFrame] /\ tasks \in [Crons -> Seq(Nat)]
    /\ cronCall \in CronCallFrame /\ deleted \subseteq Crons
    /\ restarts \in Nat /\ cronFaults \in 0..MaxCronFaults

(* A run loop that creates no task any more. *)
Stopped(l) == l.pc = "none" \/ l.aborted

(* What memory s, log g, run loop l and the t tasks of an automation of max runs have
   to do with each other after n restarts. *)
CronFits(s, g, l, t, n, max) ==
    /\ g.runs <= t /\ g.runs <= max /\ s.runs <= max /\ t <= max + n
    /\ g.status = "Scheduled" => g.runs < max /\ t <= g.runs + 1 + n
    /\ g.status = "absent" => s.status = "absent" /\ l.pc = "none" /\ t = 0
    /\ l.pc = "none" => ~l.aborted /\ s.status # "Scheduled"
    /\ l.aborted => s.status \in {"Cancelled", "Completed"}
    /\ l.pc = "notify" => s.runs < max
    /\ ~Stopped(l) =>
          /\ l.pc \in {"sleep", "create", "notify"} => g = s /\ s.status = "Scheduled"
          /\ l.pc \in {"sleep", "create"} => t <= s.runs + n
          /\ l.pc = "notify" => s.runs + 1 <= t
          /\ l.pc \in {"persist", "failed"} => s = l.written /\ s.runs <= t
          /\ l.pc = "persist" =>
                /\ t <= s.runs + n
                /\ s.status = "Completed" \/ (s.status = "Scheduled" /\ s.runs < max)
          /\ l.pc = "failed" => s.status = "Failed"

(* The same for the call w that is between its two steps. *)
CallFits(w, s, g, l, t, max) ==
    /\ w.pc = "insert" => /\ g = [status |-> "Scheduled", runs |-> 0]
                          /\ s.status = "absent" /\ l.pc = "none" /\ t = 0
    /\ w.pc = "persist" => /\ w.written.status = "Cancelled"
                           /\ w.written.runs <= t /\ w.written.runs <= max
                           /\ s.status \in {"Cancelled", "Completed"} /\ Stopped(l)

CronsFit ==
    \A c \in Crons : CronFits(summary[c], cronLog[c], runLoop[c], Len(tasks[c]), restarts, MaxRuns[c])

CallFitsCron ==
    cronCall.pc # "idle" =>
        /\ cronCall.cron \in Crons
        /\ CallFits(cronCall, summary[cronCall.cron], cronLog[cronCall.cron],
                    runLoop[cronCall.cron], Len(tasks[cronCall.cron]), MaxRuns[cronCall.cron])

(* A deleted automation is over in memory and in the log, and its run loop stopped. *)
DeletedIsOver ==
    \A c \in deleted : /\ cronLog[c].status \in TerminalCron /\ summary[c].status \in TerminalCron
                       /\ Stopped(runLoop[c])

CronInv == CronShape /\ CronsFit /\ CallFitsCron /\ DeletedIsOver

-----------------------------------------------------------------------------
(* What the invariant says of one automation, field by field. *)
LEMMA CronFacts ==
    ASSUME CronInv, NEW c \in Crons
    PROVE  /\ summary[c] \in CronRecord /\ cronLog[c] \in CronRecord /\ runLoop[c] \in LoopFrame
           /\ summary[c].runs \in Nat /\ cronLog[c].runs \in Nat
           /\ tasks[c] \in Seq(Nat) /\ Len(tasks[c]) \in Nat
           /\ MaxRuns[c] \in Nat /\ MaxRuns[c] > 0 /\ restarts \in Nat
           /\ CronFits(summary[c], cronLog[c], runLoop[c], Len(tasks[c]), restarts, MaxRuns[c])
           /\ summary = [summary EXCEPT ![c] = summary[c]]
           /\ cronLog = [cronLog EXCEPT ![c] = cronLog[c]]
           /\ runLoop = [runLoop EXCEPT ![c] = runLoop[c]]
           /\ tasks = [tasks EXCEPT ![c] = tasks[c]]
<1>1. summary[c] \in CronRecord /\ cronLog[c] \in CronRecord /\ runLoop[c] \in LoopFrame
  BY DEF CronInv, CronShape
<1>2. summary[c].runs \in Nat /\ cronLog[c].runs \in Nat
  BY <1>1 DEF CronRecord
<1>3. tasks[c] \in Seq(Nat) /\ Len(tasks[c]) \in Nat
  BY DEF CronInv, CronShape
<1>4. MaxRuns[c] \in Nat /\ MaxRuns[c] > 0 /\ restarts \in Nat
  BY CronAssumption DEF CronInv, CronShape
<1>5. /\ summary = [summary EXCEPT ![c] = summary[c]]
      /\ cronLog = [cronLog EXCEPT ![c] = cronLog[c]]
      /\ runLoop = [runLoop EXCEPT ![c] = runLoop[c]]
      /\ tasks = [tasks EXCEPT ![c] = tasks[c]]
  BY DEF CronInv, CronShape
<1> QED
  BY <1>1, <1>2, <1>3, <1>4, <1>5 DEF CronInv, CronsFit

(* An automation whose loop may still create tasks is neither deleted nor the
   subject of a call that is under way. *)
LEMMA RunningIsUntouched ==
    ASSUME CronInv, NEW c \in Crons, ~Stopped(runLoop[c])
    PROVE  c \notin deleted /\ (cronCall.pc = "idle" \/ cronCall.cron # c)
<1>1. cronCall.pc \in {"idle", "insert", "persist"}
  BY DEF CronInv, CronShape, CronCallFrame
<1> QED
  BY <1>1 DEF CronInv, CallFitsCron, CallFits, DeletedIsOver, Stopped

(* The state of one automation moves alone, to s, g, l and q: the invariant of the
   others is left as it was. *)
CronMoves(c, s, g, l, q) ==
    /\ summary' = [summary EXCEPT ![c] = s] /\ cronLog' = [cronLog EXCEPT ![c] = g]
    /\ runLoop' = [runLoop EXCEPT ![c] = l] /\ tasks' = [tasks EXCEPT ![c] = q]
    /\ restarts' = restarts /\ cronFaults' \in 0..MaxCronFaults

(* One automation moves, with its loop and the call on it, as CronMoves says: the
   invariant stays for it and for the others. *)
LEMMA OneCronMoves ==
    ASSUME CronInv, NEW c \in Crons, NEW s \in CronRecord, NEW g \in CronRecord,
           NEW l \in LoopFrame, NEW q \in Seq(Nat),
           CronMoves(c, s, g, l, q), cronCall' \in CronCallFrame,
           CronFits(s, g, l, Len(q), restarts, MaxRuns[c]),
           \/ cronCall'.pc = "idle"
           \/ cronCall' = cronCall /\ cronCall.cron # c
           \/ cronCall'.cron = c /\ CallFits(cronCall', s, g, l, Len(q), MaxRuns[c]),
           deleted' \subseteq deleted \cup {c},
           c \in deleted' => /\ g.status \in TerminalCron /\ s.status \in TerminalCron
                             /\ Stopped(l)
    PROVE  CronInv'
<1>1. \A d \in Crons : /\ summary'[d] = IF d = c THEN s ELSE summary[d]
                       /\ cronLog'[d] = IF d = c THEN g ELSE cronLog[d]
                       /\ runLoop'[d] = IF d = c THEN l ELSE runLoop[d]
                       /\ tasks'[d] = IF d = c THEN q ELSE tasks[d]
  BY DEF CronInv, CronShape, CronMoves
<1>2. CronShape'
  BY DEF CronInv, CronShape, CronMoves
<1>3. CronsFit'
  BY <1>1, SMTT(30) DEF CronInv, CronsFit, CronMoves
<1>4. CallFitsCron'
  BY <1>1 DEF CronInv, CallFitsCron
<1>5. DeletedIsOver'
  BY <1>1, Zenon DEF CronInv, CronShape, DeletedIsOver
<1> QED
  BY <1>2, <1>3, <1>4, <1>5 DEF CronInv

(* Records and frames of the values the code builds. *)
LEMMA CronValues ==
    /\ NoCron \in CronRecord /\ [status |-> "Scheduled", runs |-> 0] \in CronRecord
    /\ NoLoop \in LoopFrame /\ Sleeping \in LoopFrame /\ NoCronCall \in CronCallFrame
    /\ NoLoop.pc = "none" /\ ~NoLoop.aborted
    /\ Sleeping.pc = "sleep" /\ ~Sleeping.aborted /\ NoCronCall.pc = "idle"
<1>1. NoCron \in CronRecord /\ [status |-> "Scheduled", runs |-> 0] \in CronRecord
  BY DEF NoCron, CronRecord
<1>2. NoLoop \in LoopFrame
  BY <1>1, Zenon DEF NoLoop, LoopFrame
<1>3. NoCronCall \in CronCallFrame
  BY <1>1, Zenon DEF NoCronCall, CronCallFrame
<1>4. Sleeping \in LoopFrame /\ Sleeping.pc = "sleep" /\ ~Sleeping.aborted
  BY <1>2, Zenon DEF Sleeping, NoLoop, LoopFrame
<1> QED
  BY <1>1, <1>2, <1>3, <1>4 DEF NoLoop, NoCronCall

(* Nothing is scheduled at first. *)
LEMMA CronInitially == CronInit => CronInv
<1> SUFFICES ASSUME CronInit PROVE CronInv
  OBVIOUS
<1>1. CronShape
  BY CronValues, CronAssumption DEF CronInit, CronShape
<1>2. CronsFit
  <2>1. NoCron.status = "absent" /\ NoCron.runs = 0 /\ Len(<<>>) = 0
    BY DEF NoCron
  <2>2. ASSUME NEW c \in Crons
        PROVE  CronFits(summary[c], cronLog[c], runLoop[c], Len(tasks[c]), restarts, MaxRuns[c])
    <3>1. /\ summary[c] = NoCron /\ cronLog[c] = NoCron /\ runLoop[c] = NoLoop
          /\ Len(tasks[c]) = 0 /\ restarts = 0 /\ MaxRuns[c] \in Nat
      BY <2>1, CronAssumption DEF CronInit
    <3> QED
      BY <2>1, <3>1, CronValues DEF CronFits, Stopped
  <2> QED
    BY <2>2 DEF CronsFit
<1> QED
  BY <1>1, <1>2, CronValues DEF CronInit, CronInv, CallFitsCron, DeletedIsOver

(* create_schedule appends, then inserts. *)
LEMMA CreateKeeps ==
    ASSUME CronInv, NEW c \in Crons, CreateSchedule(c) PROVE CronInv'
<1> DEFINE g == [status |-> "Scheduled", runs |-> 0]
           w == [NoCronCall EXCEPT !.pc = "insert", !.cron = c]
<1>1. /\ cronLog[c].status = "absent" /\ cronLog' = [cronLog EXCEPT ![c] = g] /\ cronCall' = w
      /\ UNCHANGED <<summary, runLoop, tasks, deleted, restarts, cronFaults>>
  BY DEF CreateSchedule, NoCron
<1>2. g \in CronRecord /\ g.status = "Scheduled" /\ g.runs = 0
  BY CronValues
<1>3. w \in CronCallFrame /\ w.pc = "insert" /\ w.cron = c
  BY CronValues, Zenon DEF NoCronCall, CronCallFrame
<1>4. /\ summary[c].status = "absent" /\ runLoop[c].pc = "none" /\ Len(tasks[c]) = 0
      /\ ~runLoop[c].aborted /\ c \notin deleted
  BY <1>1, CronFacts, Zenon DEF CronFits, CronInv, DeletedIsOver, TerminalCron
<1>5. CronFits(summary[c], g, runLoop[c], Len(tasks[c]), restarts, MaxRuns[c])
  BY <1>2, <1>4, CronFacts DEF CronFits, Stopped
<1>6. CallFits(w, summary[c], g, runLoop[c], Len(tasks[c]), MaxRuns[c])
  BY <1>3, <1>4 DEF CallFits
<1>7. CronMoves(c, summary[c], g, runLoop[c], tasks[c])
  BY <1>1, CronFacts DEF CronInv, CronShape, CronMoves
<1> HIDE DEF g, w
<1> QED
  BY <1>1, <1>2, <1>3, <1>4, <1>5, <1>6, <1>7, CronFacts, OneCronMoves

(* create_schedule inserts the automation and starts its loop. *)
LEMMA InsertKeeps == ASSUME CronInv, CreateInsert PROVE CronInv'
<1> DEFINE c == cronCall.cron
           s == [status |-> "Scheduled", runs |-> 0]
<1>1. /\ summary' = [summary EXCEPT ![c] = s] /\ runLoop' = [runLoop EXCEPT ![c] = Sleeping]
      /\ cronCall' = NoCronCall /\ cronCall.pc = "insert"
      /\ UNCHANGED <<cronLog, tasks, deleted, restarts, cronFaults>>
  BY SMTT(30) DEF CreateInsert
<1>2. c \in Crons /\ cronLog[c] = s /\ Len(tasks[c]) = 0
  BY <1>1 DEF CronInv, CallFitsCron, CallFits
<1>3. s \in CronRecord /\ s.status = "Scheduled" /\ s.runs = 0
  BY CronValues
<1>4. CronFits(s, cronLog[c], Sleeping, Len(tasks[c]), restarts, MaxRuns[c])
  BY <1>2, <1>3, CronFacts, CronValues, SMTT(30) DEF CronFits, Stopped
<1>5. c \notin deleted
  BY <1>2, <1>3, SMTT(30) DEF CronInv, DeletedIsOver, TerminalCron
<1>6. CronMoves(c, s, cronLog[c], Sleeping, tasks[c])
  BY <1>1, <1>2, CronFacts DEF CronInv, CronShape, CronMoves
<1> HIDE DEF s, c
<1> QED
  BY <1>1, <1>2, <1>3, <1>4, <1>5, <1>6, CronFacts, CronValues, OneCronMoves

(* delete_schedule cancels and aborts, then appends. *)
LEMMA DeleteKeeps ==
    ASSUME CronInv, NEW c \in Crons, DeleteSchedule(c) PROVE CronInv'
<1> DEFINE s == [summary[c] EXCEPT !.status = "Cancelled"]
           l == [runLoop[c] EXCEPT !.aborted = TRUE]
           w == [pc |-> "persist", cron |-> c, written |-> summary'[c]]
<1>1. /\ summary' = [summary EXCEPT ![c] = s] /\ runLoop' = [runLoop EXCEPT ![c] = l]
      /\ cronCall' = w /\ summary[c].status = "Scheduled"
      /\ UNCHANGED <<cronLog, tasks, deleted, restarts, cronFaults>>
  BY DEF DeleteSchedule, IsLive
<1>2. s \in CronRecord /\ s.status = "Cancelled" /\ s.runs = summary[c].runs
  BY CronFacts DEF CronRecord, TerminalCron
<1>3. l \in LoopFrame /\ l.aborted /\ l.pc = runLoop[c].pc
  BY CronFacts, Zenon DEF LoopFrame
<1>4. summary'[c] = s
  BY <1>1 DEF CronInv, CronShape
<1>5. w \in CronCallFrame /\ w.pc = "persist" /\ w.cron = c /\ w.written = s
  BY <1>2, <1>4 DEF CronCallFrame
<1>6. /\ runLoop[c].pc # "none" /\ ~runLoop[c].aborted
      /\ s.runs <= Len(tasks[c]) /\ s.runs <= MaxRuns[c]
  BY <1>1, <1>2, CronFacts, Zenon DEF CronFits, Stopped, LoopFrame
<1>7. CronFits(s, cronLog[c], l, Len(tasks[c]), restarts, MaxRuns[c])
  BY <1>1, <1>2, <1>3, <1>6, CronFacts DEF CronFits, Stopped
<1>8. CallFits(w, s, cronLog[c], l, Len(tasks[c]), MaxRuns[c])
  BY <1>2, <1>3, <1>5, <1>6, Zenon DEF CallFits, Stopped
<1>9. c \notin deleted
  BY <1>1, <1>6 DEF CronInv, DeletedIsOver, Stopped
<1>10. CronMoves(c, s, cronLog[c], l, tasks[c])
  BY <1>1, CronFacts DEF CronInv, CronShape, CronMoves
<1> HIDE DEF s, l, w
<1> QED
  BY <1>1, <1>2, <1>3, <1>5, <1>7, <1>8, <1>9, <1>10, CronFacts, OneCronMoves, Zenon

(* delete_schedule appends the cancellation. *)
LEMMA DeletePersistKeeps == ASSUME CronInv, DeletePersist PROVE CronInv'
<1> DEFINE c == cronCall.cron
           g == cronCall.written
<1>1. /\ cronLog' = [cronLog EXCEPT ![c] = g] /\ deleted' = deleted \cup {c}
      /\ cronCall' = NoCronCall /\ cronCall.pc = "persist"
      /\ UNCHANGED <<summary, runLoop, tasks, restarts, cronFaults>>
  BY SMTT(30) DEF DeletePersist
<1>2. /\ c \in Crons /\ g.status = "Cancelled" /\ g.runs <= Len(tasks[c]) /\ g.runs <= MaxRuns[c]
      /\ summary[c].status \in {"Cancelled", "Completed"} /\ Stopped(runLoop[c])
  BY <1>1 DEF CronInv, CallFitsCron, CallFits
<1>3. g \in CronRecord /\ g.runs \in Nat
  BY SMTT(30) DEF CronInv, CronShape, CronCallFrame, CronRecord
<1>4. CronFits(summary[c], g, runLoop[c], Len(tasks[c]), restarts, MaxRuns[c])
  BY <1>2, <1>3, CronFacts, Zenon DEF CronFits
<1>5. CronMoves(c, summary[c], g, runLoop[c], tasks[c])
  <2>1. /\ summary \in [Crons -> CronRecord] /\ runLoop \in [Crons -> LoopFrame]
        /\ tasks \in [Crons -> Seq(Nat)] /\ cronFaults \in 0..MaxCronFaults
    BY Zenon DEF CronInv, CronShape
  <2> HIDE DEF c, g
  <2> QED
    BY <1>1, <1>2, <2>1, Zenon DEF CronMoves
<1> HIDE DEF c, g
<1> QED
  BY <1>1, <1>2, <1>3, <1>4, <1>5, CronFacts, CronValues, OneCronMoves, Zenon DEF TerminalCron

(* A call that is dropped leaves what it has done. *)
LEMMA DropKeeps == ASSUME CronInv, CallDropped PROVE CronInv'
<1>1. /\ UNCHANGED <<summary, cronLog, runLoop, tasks, deleted, restarts>>
      /\ cronCall' = NoCronCall /\ cronFaults' \in 0..MaxCronFaults
  BY CronAssumption DEF CallDropped, CronFault, CronInv, CronShape
<1> QED
  BY <1>1, CronValues DEF CronInv, CronShape, CronsFit, CallFitsCron, DeletedIsOver

(* An aborted loop ends. *)
LEMMA StoppedLoopEnds ==
    ASSUME CronInv, NEW c \in Crons, runLoop[c].aborted,
           runLoop' = [runLoop EXCEPT ![c] = NoLoop],
           UNCHANGED <<summary, cronLog, cronCall, tasks, deleted, restarts, cronFaults>>
    PROVE  CronInv'
<1>1. CronFits(summary[c], cronLog[c], NoLoop, Len(tasks[c]), restarts, MaxRuns[c])
  BY CronFacts, CronValues, Zenon DEF CronFits, Stopped
<1>2. cronCall.pc = "idle" \/ cronCall.cron # c
        \/ CallFits(cronCall, summary[c], cronLog[c], NoLoop, Len(tasks[c]), MaxRuns[c])
  BY CronValues, Zenon DEF CronInv, CallFitsCron, CallFits, Stopped
<1>3. CronMoves(c, summary[c], cronLog[c], NoLoop, tasks[c]) /\ cronCall' \in CronCallFrame
  BY CronFacts DEF CronInv, CronShape, CronMoves
<1>4. c \in deleted => /\ cronLog[c].status \in TerminalCron
                       /\ summary[c].status \in TerminalCron /\ Stopped(NoLoop)
  BY CronValues DEF CronInv, DeletedIsOver, Stopped
<1> QED
  BY <1>1, <1>2, <1>3, <1>4, CronFacts, CronValues, OneCronMoves, SMTT(30)

(* The run loop's own steps, which find and leave it running or stopped. *)
LEMMA WakeKeeps ==
    ASSUME CronInv, NEW c \in Crons, LoopWakes(c) PROVE CronInv'
<1>1. /\ UNCHANGED <<summary, cronLog, cronCall, tasks, deleted, restarts, cronFaults>>
      /\ runLoop[c].pc = "sleep" /\ runLoop[c].aborted \in BOOLEAN
      /\ cronFaults \in 0..MaxCronFaults /\ cronCall \in CronCallFrame
  BY CronFacts DEF LoopWakes, CronInv, CronShape, LoopFrame
<1>2. CASE summary[c].status = "Scheduled"
  <2> DEFINE l == [runLoop[c] EXCEPT !.pc = "create"]
  <2>1. runLoop' = [runLoop EXCEPT ![c] = l]
    BY <1>2 DEF LoopWakes, IsLive, LoopGoto
  <2>2. l \in LoopFrame /\ l.pc = "create" /\ l.aborted = runLoop[c].aborted
    BY CronFacts, Zenon DEF LoopFrame
  <2>3. ~runLoop[c].aborted
    BY <1>2, CronFacts, Zenon DEF CronFits
  <2>4. CronFits(summary[c], cronLog[c], l, Len(tasks[c]), restarts, MaxRuns[c])
    BY <1>1, <1>2, <2>2, <2>3, CronFacts, Zenon DEF CronFits, Stopped
  <2>5. c \notin deleted /\ (cronCall.pc = "idle" \/ cronCall.cron # c)
    BY <1>1, <2>3, RunningIsUntouched DEF Stopped
  <2>6. CronMoves(c, summary[c], cronLog[c], l, tasks[c])
    BY <1>1, <2>1, CronFacts DEF CronMoves
  <2> HIDE DEF l
  <2> QED
    BY <1>1, <2>2, <2>4, <2>5, <2>6, CronFacts, OneCronMoves
<1>3. CASE summary[c].status # "Scheduled"
  <2>1. runLoop' = [runLoop EXCEPT ![c] = NoLoop]
    BY <1>3 DEF LoopWakes, IsLive, LoopEnds
  <2>2. runLoop[c].aborted
    BY <1>1, <1>3, CronFacts, Zenon DEF CronFits, Stopped
  <2> QED
    BY <1>1, <2>1, <2>2, StoppedLoopEnds, Zenon
<1> QED
  BY <1>2, <1>3

(* fire_schedule creates the task of a run. *)
LEMMA CreatesTaskKeeps ==
    ASSUME CronInv, NEW c \in Crons, LoopCreatesTask(c) PROVE CronInv'
<1> DEFINE l == [runLoop[c] EXCEPT !.pc = "notify"]
           q == Append(tasks[c], summary[c].runs + 1)
<1>1. /\ UNCHANGED <<summary, cronLog, cronCall, deleted, restarts, cronFaults>>
      /\ runLoop[c].pc = "create" /\ ~runLoop[c].aborted
      /\ runLoop' = [runLoop EXCEPT ![c] = l] /\ tasks' = [tasks EXCEPT ![c] = q]
  BY DEF LoopCreatesTask, LoopGoto
<1>2. l \in LoopFrame /\ l.pc = "notify" /\ ~l.aborted
  BY <1>1, CronFacts, Zenon DEF LoopFrame
<1>3. q \in Seq(Nat) /\ Len(q) = Len(tasks[c]) + 1
  BY CronFacts
<1>4. CronFits(summary[c], cronLog[c], l, Len(q), restarts, MaxRuns[c])
  <2> DEFINE s == summary[c]
             t == Len(tasks[c])
  <2>1. /\ cronLog[c] = s /\ s.status = "Scheduled"
        /\ t <= s.runs + restarts /\ s.runs <= t /\ s.runs < MaxRuns[c]
    BY <1>1, CronFacts, Zenon DEF CronFits, Stopped
  <2>2. /\ s.runs <= t + 1 /\ s.runs + 1 <= t + 1 /\ s.runs <= MaxRuns[c]
        /\ t + 1 <= s.runs + 1 + restarts /\ t + 1 <= MaxRuns[c] + restarts
    BY <2>1, CronFacts, SMTT(30)
  <2>3. s.status # "absent"
    BY <2>1
  <2> HIDE DEF l, q, s, t
  <2> QED
    BY <1>2, <1>3, <2>1, <2>2, <2>3 DEF CronFits, Stopped, s, t
<1>5. c \notin deleted /\ (cronCall.pc = "idle" \/ cronCall.cron # c)
  BY <1>1, RunningIsUntouched DEF Stopped
<1>6. CronMoves(c, summary[c], cronLog[c], l, q) /\ cronCall' \in CronCallFrame
  BY <1>1, CronFacts, Zenon DEF CronInv, CronShape, CronMoves
<1> HIDE DEF l, q
<1> QED
  BY <1>1, <1>2, <1>3, <1>4, <1>5, <1>6, CronFacts, OneCronMoves

(* fire_schedule fails to create the task of a run. *)
LEMMA CreateFailsKeeps ==
    ASSUME CronInv, NEW c \in Crons, LoopCreateFails(c) PROVE CronInv'
<1> DEFINE s == [summary[c] EXCEPT !.status = "Failed"]
           l == [runLoop[c] EXCEPT !.pc = "failed", !.written = summary'[c]]
<1>1. /\ UNCHANGED <<cronLog, cronCall, tasks, deleted, restarts>>
      /\ runLoop[c].pc = "create" /\ ~runLoop[c].aborted
      /\ summary' = [summary EXCEPT ![c] = s]
      /\ cronFaults' \in 0..MaxCronFaults
  BY CronAssumption DEF LoopCreateFails, CronFault, CronInv, CronShape
<1>0. runLoop' = [runLoop EXCEPT ![c] = l]
  <2>1. /\ runLoop' = [runLoop EXCEPT ![c].pc = "failed", ![c].written = summary'[c]]
        /\ runLoop \in [Crons -> LoopFrame]
    BY DEF LoopCreateFails, CronInv, CronShape
  <2> QED
    BY <2>1, Zenon
<1>2. s \in CronRecord /\ s.status = "Failed" /\ s.runs = summary[c].runs /\ s.runs \in Nat
  BY CronFacts DEF CronRecord, TerminalCron
<1>3. summary'[c] = s
  BY <1>1 DEF CronInv, CronShape
<1>4. l \in LoopFrame /\ l.pc = "failed" /\ l.written = s /\ ~l.aborted
  BY <1>1, <1>2, <1>3, CronFacts, Zenon DEF LoopFrame
<1>5. CronFits(s, cronLog[c], l, Len(tasks[c]), restarts, MaxRuns[c])
  BY <1>1, <1>2, <1>4, CronFacts, Zenon DEF CronFits, Stopped
<1>6. c \notin deleted /\ (cronCall.pc = "idle" \/ cronCall.cron # c)
  BY <1>1, RunningIsUntouched DEF Stopped
<1>7. CronMoves(c, s, cronLog[c], l, tasks[c]) /\ cronCall' \in CronCallFrame
  BY <1>0, <1>1, CronFacts DEF CronInv, CronShape, CronMoves
<1> HIDE DEF s, l
<1> QED
  BY <1>1, <1>2, <1>4, <1>5, <1>6, <1>7, CronFacts, OneCronMoves

(* The run is counted: by a loop that goes on, or by one that was aborted after the
   task was created. *)
LEMMA UpdatesKeeps ==
    ASSUME CronInv, NEW c \in Crons, LoopUpdates(c) PROVE CronInv'
<1> DEFINE s == AfterRun(summary[c], MaxRuns[c])
           l == [runLoop[c] EXCEPT !.pc = "persist", !.written = summary'[c]]
<1>1. /\ UNCHANGED <<cronLog, cronCall, tasks, deleted, restarts, cronFaults>>
      /\ runLoop[c].pc = "notify"
      /\ summary' = [summary EXCEPT ![c] = s]
  BY DEF LoopUpdates
<1>0. runLoop' = [runLoop EXCEPT ![c] = l]
  <2>1. /\ runLoop' = [runLoop EXCEPT ![c].pc = "persist", ![c].written = summary'[c]]
        /\ runLoop \in [Crons -> LoopFrame]
    BY DEF LoopUpdates, CronInv, CronShape
  <2> QED
    BY <2>1, Zenon
<1>2. s.runs = summary[c].runs + 1 /\ s.runs \in Nat /\ s.runs <= MaxRuns[c]
  BY <1>1, CronFacts DEF AfterRun, CronFits
<1>3. s.status = "Completed" \/ (s.status = summary[c].status /\ s.runs < MaxRuns[c])
  BY CronFacts DEF AfterRun
<1>4. s \in CronRecord
  <2>1. summary[c].status \in {"absent", "Scheduled"} \cup TerminalCron
    BY CronFacts DEF CronRecord
  <2>2. s.status \in {"absent", "Scheduled"} \cup TerminalCron
    BY <1>3, <2>1 DEF TerminalCron
  <2>3. s = [runs |-> s.runs, status |-> s.status]
    BY DEF AfterRun
  <2> HIDE DEF s
  <2> QED
    BY <1>2, <2>2, <2>3 DEF CronRecord
<1>5. summary'[c] = s
  BY <1>1 DEF CronInv, CronShape
<1>6. l \in LoopFrame /\ l.pc = "persist" /\ l.written = s /\ l.aborted = runLoop[c].aborted
  BY <1>4, <1>5, CronFacts, Zenon DEF LoopFrame
<1>7. CronFits(s, cronLog[c], l, Len(tasks[c]), restarts, MaxRuns[c])
  <2> HIDE DEF s, l
  <2>1. CASE runLoop[c].aborted
    BY <1>1, <1>2, <1>3, <1>6, <2>1, CronFacts, SMTT(30) DEF CronFits, Stopped
  <2>2. CASE ~runLoop[c].aborted
    <3>1. /\ cronLog[c] = summary[c] /\ summary[c].status = "Scheduled"
          /\ summary[c].runs + 1 <= Len(tasks[c])
          /\ Len(tasks[c]) <= summary[c].runs + 1 + restarts
      BY <1>1, <2>2, CronFacts, Zenon DEF CronFits, Stopped
    <3> QED
      BY <1>1, <1>2, <1>3, <1>6, <2>2, <3>1, CronFacts, Zenon DEF CronFits, Stopped
  <2> QED
    BY <2>1, <2>2, SMTT(30)
<1>8. \/ cronCall.pc = "idle" \/ cronCall.cron # c
      \/ CallFits(cronCall, s, cronLog[c], l, Len(tasks[c]), MaxRuns[c])
  BY <1>1, <1>3, <1>6 DEF CronInv, CallFitsCron, CallFits, Stopped
<1>9. c \in deleted => /\ cronLog[c].status \in TerminalCron /\ s.status \in TerminalCron
                       /\ Stopped(l)
  BY <1>1, <1>3, <1>6, Zenon DEF CronInv, DeletedIsOver, Stopped, TerminalCron
<1>10. CronMoves(c, s, cronLog[c], l, tasks[c]) /\ cronCall' \in CronCallFrame
  BY <1>0, <1>1, CronFacts DEF CronInv, CronShape, CronMoves
<1> HIDE DEF s, l
<1> QED
  BY <1>1, <1>4, <1>6, <1>7, <1>8, <1>9, <1>10, CronFacts, OneCronMoves, Zenon

(* The loop appends the summary it has updated. *)
LEMMA PersistsKeeps ==
    ASSUME CronInv, NEW c \in Crons, LoopPersists(c) PROVE CronInv'
<1> DEFINE w == runLoop[c].written
           l == IF w.status \in TerminalCron THEN NoLoop ELSE Sleeping
<1>1. /\ UNCHANGED <<summary, cronCall, tasks, deleted, restarts, cronFaults>>
      /\ runLoop[c].pc \in {"persist", "failed"} /\ ~runLoop[c].aborted
      /\ cronLog' = [cronLog EXCEPT ![c] = w] /\ runLoop' = [runLoop EXCEPT ![c] = l]
  BY DEF LoopPersists, LoopEnds
<1>2. w = summary[c]
  BY <1>1, CronFacts, Zenon DEF CronFits, Stopped
<1>3. l \in LoopFrame
  BY CronValues, Zenon
<1>4. CronFits(summary[c], w, l, Len(tasks[c]), restarts, MaxRuns[c])
  <2>1. CASE w.status \in TerminalCron
    BY <1>1, <1>2, <2>1, CronFacts, CronValues, Zenon DEF CronFits, Stopped, TerminalCron
  <2>2. CASE w.status \notin TerminalCron
    BY <1>1, <1>2, <2>2, CronFacts, CronValues, SMTT(30) DEF CronFits, Stopped, TerminalCron
  <2> QED
    BY <2>1, <2>2, SMTT(30)
<1>5. c \notin deleted /\ (cronCall.pc = "idle" \/ cronCall.cron # c)
  BY <1>1, RunningIsUntouched DEF Stopped
<1>6. CronMoves(c, summary[c], w, l, tasks[c]) /\ cronCall' \in CronCallFrame
  BY <1>1, CronFacts DEF CronInv, CronShape, CronMoves
<1> HIDE DEF w, l
<1> QED
  BY <1>1, <1>2, <1>3, <1>4, <1>5, <1>6, CronFacts, OneCronMoves

(* The loop fails to append the summary it has updated. *)
LEMMA PersistFailsKeeps ==
    ASSUME CronInv, NEW c \in Crons, LoopPersistFails(c) PROVE CronInv'
<1> DEFINE s == [summary[c] EXCEPT !.status = "Failed"]
<1>1. /\ UNCHANGED <<cronLog, cronCall, tasks, deleted, restarts>>
      /\ runLoop[c].pc \in {"persist", "failed"} /\ ~runLoop[c].aborted
      /\ summary' = [summary EXCEPT ![c] = s] /\ runLoop' = [runLoop EXCEPT ![c] = NoLoop]
      /\ cronFaults' \in 0..MaxCronFaults
  BY CronAssumption DEF LoopPersistFails, LoopEnds, CronFault, CronInv, CronShape
<1>2. s \in CronRecord /\ s.status = "Failed" /\ s.runs = summary[c].runs
  BY CronFacts DEF CronRecord, TerminalCron
<1>3. CronFits(s, cronLog[c], NoLoop, Len(tasks[c]), restarts, MaxRuns[c])
  BY <1>1, <1>2, CronFacts, CronValues, Zenon DEF CronFits, Stopped
<1>4. c \notin deleted /\ (cronCall.pc = "idle" \/ cronCall.cron # c)
  BY <1>1, RunningIsUntouched DEF Stopped
<1>5. CronMoves(c, s, cronLog[c], NoLoop, tasks[c]) /\ cronCall' \in CronCallFrame
  BY <1>1, CronFacts DEF CronInv, CronShape, CronMoves
<1> HIDE DEF s
<1> QED
  BY <1>1, <1>2, <1>3, <1>4, <1>5, CronFacts, CronValues, OneCronMoves, Zenon

(* After a restart memory is what the log says, and the loops of what is scheduled
   there start again; a task whose run was not yet counted may be repeated. *)
LEMMA RestartKeeps == ASSUME CronInv, CronRestart PROVE CronInv'
<1>1. /\ restarts' = restarts + 1 /\ summary' = cronLog /\ cronCall' = NoCronCall
      /\ UNCHANGED <<cronLog, tasks, deleted>> /\ cronFaults' \in 0..MaxCronFaults
  BY CronAssumption DEF CronRestart, CronFault, CronInv, CronShape
<1>2. ASSUME NEW c \in Crons
      PROVE  runLoop'[c] = IF cronLog[c].status = "Scheduled" THEN Sleeping ELSE NoLoop
  BY DEF CronRestart
<1>3. CronShape'
  BY <1>1, CronValues DEF CronRestart, CronInv, CronShape
<1>4. CronsFit'
  <2> SUFFICES ASSUME NEW c \in Crons
               PROVE  CronFits(cronLog[c], cronLog[c], runLoop'[c], Len(tasks[c]),
                               restarts + 1, MaxRuns[c])
    BY <1>1, SMTT(30) DEF CronsFit
  <2>1. CASE cronLog[c].status = "Scheduled"
    <3>1. runLoop'[c] = Sleeping
      BY <1>2, <2>1
    <3> QED
      BY <2>1, <3>1, CronFacts, CronValues, SMTT(30) DEF CronFits, Stopped
  <2>2. CASE cronLog[c].status # "Scheduled"
    <3>1. runLoop'[c] = NoLoop
      BY <1>2, <2>2, SMTT(30)
    <3> QED
      BY <2>2, <3>1, CronFacts, CronValues DEF CronFits, Stopped
  <2> QED
    BY <2>1, <2>2
<1>5. DeletedIsOver'
  BY <1>1, <1>2, CronValues, Zenon DEF CronInv, CronShape, DeletedIsOver, Stopped, TerminalCron
<1> QED
  BY <1>1, <1>3, <1>4, <1>5, CronValues DEF CronInv, CallFitsCron

(* Every step of the calls, of the run loops and of the host keeps the invariant. *)
LEMMA CronStepKeeps == CronInv /\ [CronNext]_cronVars => CronInv'
<1> SUFFICES ASSUME CronInv, [CronNext]_cronVars PROVE CronInv'
  OBVIOUS
<1>1. CASE UNCHANGED cronVars
  BY <1>1, Zenon DEF cronVars, CronInv, CronShape, CronsFit, CallFitsCron, DeletedIsOver
<1>2. ASSUME NEW c \in Crons, LoopStep(c) PROVE CronInv'
  <2>1. CASE LoopDropped(c)
    BY <2>1, StoppedLoopEnds, Zenon DEF LoopDropped, LoopEnds
  <2> QED
    BY <1>2, <2>1, WakeKeeps, CreatesTaskKeeps, UpdatesKeeps, PersistsKeeps DEF LoopStep
<1> QED
  BY <1>1, <1>2, CreateKeeps, DeleteKeeps, CreateFailsKeeps, PersistFailsKeeps, InsertKeeps,
     DeletePersistKeeps, DropKeeps, RestartKeeps, SMTT(30) DEF CronNext

(* The invariant holds in every state the automations can reach. *)
LEMMA CronAlways == CronSpec => []CronInv
BY CronInitially, CronStepKeeps, PTL DEF CronSpec

(* For any automations and run limits: summaries, frames and log keep their shapes,
   and no run count passes max_runs (update_summary_after_run). *)
THEOREM CronTypes == CronSpec => []CronTypeOK
<1>1. CronInv => CronTypeOK
  BY Zenon DEF CronInv, CronShape, CronsFit, CronFits, CronTypeOK, LoopFrame, CronCallFrame
<1> QED
  BY <1>1, CronAlways, PTL

(* For any automations, run limits and number of crashes: a counted run has its task,
   and at most one task per restart is repeated (fire_schedule, restore_session). *)
THEOREM CountedRunsHaveTasks == CronSpec => []RunsHaveTasks
<1>1. CronInv => RunsHaveTasks
  BY DEF CronInv, CronsFit, CronFits, RunsHaveTasks
<1> QED
  BY <1>1, CronAlways, PTL

(* For any automations: a waiting automation is in the log as in memory
   (append_cron_created, fire_schedule). *)
THEOREM WaitingArePersisted == CronSpec => []WaitingIsPersisted
<1>1. CronInv => WaitingIsPersisted
  <2> SUFFICES ASSUME CronInv, NEW c \in Crons, runLoop[c].pc = "sleep",
                      summary[c].status = "Scheduled"
               PROVE  cronLog[c] = summary[c]
    BY DEF WaitingIsPersisted, IsLive
  <2> QED
    BY CronFacts, Zenon DEF CronFits, Stopped
<1> QED
  BY <1>1, CronAlways, PTL

(* For any automations: once delete_schedule has returned the automation creates no
   task, whatever its loop was doing and after any restart. *)
THEOREM DeletedCronsRunNoMore == CronSpec => DeletedRunsNoMore
<1>1. ASSUME CronInv, [CronNext]_cronVars
      PROVE  [\A c \in deleted : tasks'[c] = tasks[c]]_cronVars
  <2>1. CASE UNCHANGED cronVars
    BY <2>1
  <2>2. ASSUME NEW d \in Crons, LoopCreatesTask(d) PROVE \A c \in deleted : tasks'[c] = tasks[c]
    BY <1>1, <2>2, RunningIsUntouched DEF LoopCreatesTask, Stopped, CronInv, CronShape
  <2>3. CASE CronNext /\ ~\E d \in Crons : LoopCreatesTask(d)
    <3>1. UNCHANGED tasks
      BY <2>3, Zenon DEF CronNext, CreateSchedule, DeleteSchedule, LoopStep, LoopCreateFails,
                  LoopPersistFails, CreateInsert, DeletePersist, CallDropped, CronRestart,
                  LoopWakes, LoopUpdates, LoopPersists, LoopDropped
    <3> QED
      BY <3>1
  <2> QED
    BY <1>1, <2>1, <2>2, <2>3
<1> QED
  BY <1>1, CronAlways, PTL DEF CronSpec, DeletedRunsNoMore
=============================================================================
