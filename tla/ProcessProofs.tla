---------------------------- MODULE ProcessProofs ---------------------------
(***************************************************************************)
(* The programs that hold child processes, for any clients, callers,       *)
(* sessions and limits: the daemon knows every process that lives, and the *)
(* exec tool's sessions deliver their output once and lock their input     *)
(* only for a call that is writing.                                        *)
(***************************************************************************)
EXTENDS DaemonServer, ExecSessions, FiniteSetTheorems, TLAPS

(* The deployments: the daemon's server.rs *)
ChildRecord == [state: {"none", "running", "terminated", "killed", "exited", "reaped"},
                lock: Tasks \cup {"free"}]
TaskFrame == [pc: {"idle", "reap", "try_wait", "clear_exited", "lease", "stop", "lock",
                   "wait", "wait_killed", "clear_stopped", "check", "start"},
              op: {"none", "activate", "replace", "stop", "tick", "lease", "shutdown", "down"},
              pid: Nat]
ExitRecord == [pid: Nat, reason: {"none", "exited", "replaced", "requested_stop",
                                  "lease_expired", "daemon_shutdown"}]

DaemonShape ==
    /\ active \in Nat /\ launched \in Nat /\ requests \in Nat
    /\ lastExit \in ExitRecord /\ child \in [Pids -> ChildRecord] /\ task \in [Tasks -> TaskFrame]

(* The requests that may still start a process. *)
Starts == {"activate", "replace"}
Starting == {k \in Clients : task[k].op \in Starts}

(* Every process is the one of a request of its own. *)
LaunchesAreRequested ==
    requests <= MaxRequests /\ launched + Cardinality(Starting) <= requests

(* The processes are the ones launched so far, and so is every pid in a record. *)
PidsAreLaunched ==
    /\ active <= launched /\ lastExit.pid <= launched
    /\ \A p \in Pids : p <= launched <=> child[p].state # "none"
    /\ orphans \cup expired \subseteq 1..launched

Owning == {"try_wait", "clear_exited", "lock", "wait", "wait_killed", "clear_stopped"}

(* A task that works on a deployment has its pid, and one that is about to clear the
   record has reaped the process; only what was asked to start starts. *)
TasksKnowTheirChild ==
    \A x \in Tasks :
        /\ task[x].pid <= launched
        /\ task[x].pc \in Owning => task[x].pid # 0
        /\ task[x].pc \in {"clear_exited", "clear_stopped"} => child[task[x].pid].state = "reaped"
        /\ task[x].pc \in {"check", "start"} => task[x].op \in Starts

DaemonInv ==
    /\ DaemonShape /\ LaunchesAreRequested /\ PidsAreLaunched /\ TasksKnowTheirChild
    /\ LivingIsRecorded /\ ExitIsReal

-----------------------------------------------------------------------------
(* There are at most as many processes as requests, so that every launched process
   is one of Pids. *)
LEMMA LaunchedPids ==
    ASSUME DaemonInv
    PROVE  /\ IsFiniteSet(Starting) /\ Cardinality(Starting) \in Nat
           /\ launched <= requests /\ launched <= MaxRequests
           /\ \A p \in Nat : p # 0 /\ p <= launched => p \in Pids
<1>1. IsFiniteSet(Starting)
  BY DaemonAssumption, FS_Subset DEF Starting
<1>2. Cardinality(Starting) \in Nat
  BY <1>1, FS_CardinalityType
<1>3. launched \in Nat /\ requests \in Nat /\ MaxRequests \in Nat
  BY DaemonAssumption DEF DaemonInv, DaemonShape
<1>4. launched <= requests /\ launched <= MaxRequests
  BY <1>2, <1>3 DEF DaemonInv, LaunchesAreRequested
<1> QED
  BY <1>1, <1>2, <1>3, <1>4 DEF Pids

(* What the invariant says of one task. *)
LEMMA TaskFacts ==
    ASSUME DaemonInv, NEW x \in Tasks
    PROVE  /\ task[x] \in TaskFrame /\ task[x].pid \in Nat /\ task[x].pid <= launched
           /\ task[x].pc \in Owning => task[x].pid \in Pids
<1>1. task[x] \in TaskFrame /\ task[x].pid \in Nat
  BY DEF DaemonInv, DaemonShape, TaskFrame
<1> QED
  BY <1>1, LaunchedPids, Zenon DEF DaemonInv, TasksKnowTheirChild

(* A task moves and starts no process: what the invariant needs of its frame, of the
   records and of the children. *)
LEMMA OneTaskMoves ==
    ASSUME DaemonInv, NEW x \in Tasks, NEW f \in TaskFrame, task' = [task EXCEPT ![x] = f],
           UNCHANGED <<expired, launched, requests, orphans>>,
           child' \in [Pids -> ChildRecord],
           active' \in Nat, active' <= launched,
           lastExit' \in ExitRecord, lastExit'.pid <= launched,
           \A p \in Pids : /\ child'[p].state = "none" <=> child[p].state = "none"
                           /\ child[p].state = "reaped" => child'[p].state = "reaped",
           f.pid <= launched, f.pc \in Owning => f.pid # 0,
           f.pc \in {"clear_exited", "clear_stopped"} => child'[f.pid].state = "reaped",
           f.pc \in {"check", "start"} => f.op \in Starts,
           f.op \in Starts => task[x].op \in Starts,
           LivingIsRecorded', ExitIsReal'
    PROVE  DaemonInv'
<1>1. \A y \in Tasks : task'[y] = IF y = x THEN f ELSE task[y]
  BY DEF DaemonInv, DaemonShape
<1>2. DaemonShape'
  BY DEF DaemonInv, DaemonShape
<1>3. LaunchesAreRequested'
  <2>1. Starting' \subseteq Starting
    BY <1>1 DEF Starting, Tasks
  <2>2. Cardinality(Starting') <= Cardinality(Starting) /\ Cardinality(Starting') \in Nat
    BY <2>1, LaunchedPids, FS_Subset, FS_CardinalityType, Zenon
  <2>3. launched \in Nat /\ requests \in Nat /\ Cardinality(Starting) \in Nat
    BY LaunchedPids DEF DaemonInv, DaemonShape
  <2> QED
    BY <2>2, <2>3 DEF DaemonInv, LaunchesAreRequested
<1>4. PidsAreLaunched'
  BY DEF DaemonInv, PidsAreLaunched
<1>5. TasksKnowTheirChild'
  <2> SUFFICES ASSUME NEW y \in Tasks, y # x
               PROVE  /\ task[y].pid <= launched
                      /\ task[y].pc \in Owning => task[y].pid # 0
                      /\ task[y].pc \in {"clear_exited", "clear_stopped"}
                            => child'[task[y].pid].state = "reaped"
                      /\ task[y].pc \in {"check", "start"} => task[y].op \in Starts
    BY <1>1 DEF TasksKnowTheirChild
  <2>1. task[y].pc \in {"clear_exited", "clear_stopped"} => task[y].pid \in Pids
    BY TaskFacts DEF Owning
  <2> QED
    BY <2>1, Zenon DEF DaemonInv, TasksKnowTheirChild
<1> QED
  BY <1>2, <1>3, <1>4, <1>5 DEF DaemonInv

(* The same when neither record changes and no process comes to life. *)
LEMMA OneTaskMovesQuietly ==
    ASSUME DaemonInv, NEW x \in Tasks, NEW f \in TaskFrame, task' = [task EXCEPT ![x] = f],
           UNCHANGED <<active, lastExit, expired, launched, requests, orphans>>,
           child' \in [Pids -> ChildRecord],
           \A p \in Pids : /\ child'[p].state = "none" <=> child[p].state = "none"
                           /\ child[p].state = "reaped" => child'[p].state = "reaped"
                           /\ Living(p)' => Living(p),
           f.pid <= launched, f.pc \in Owning => f.pid # 0,
           f.pc \in {"clear_exited", "clear_stopped"} => child'[f.pid].state = "reaped",
           f.pc \in {"check", "start"} => f.op \in Starts,
           f.op \in Starts => task[x].op \in Starts
    PROVE  DaemonInv'
<1>1. active \in Nat /\ active <= launched /\ lastExit \in ExitRecord /\ lastExit.pid <= launched
  BY DEF DaemonInv, DaemonShape, PidsAreLaunched
<1>2. LivingIsRecorded'
  BY DEF DaemonInv, LivingIsRecorded
<1>3. lastExit.pid # 0 => lastExit.pid \in Pids
  BY <1>1, LaunchedPids DEF ExitRecord
<1>4. ExitIsReal'
  BY <1>3 DEF DaemonInv, ExitIsReal
<1> QED
  BY <1>1, <1>2, <1>4, OneTaskMoves, Zenon

Ops == {"none", "activate", "replace", "stop", "tick", "lease", "shutdown", "down"}

Reaping(op) == [AtRest EXCEPT !.pc = "reap", !.op = op]

(* The frames the code builds, and where it goes after a reap or a stop. *)
LEMMA RestFrame ==
    /\ AtRest \in TaskFrame /\ AtRest.pc = "idle" /\ AtRest.op = "none" /\ AtRest.pid = 0
    /\ AtRest.pc \notin Owning /\ AtRest.op \notin Starts
BY DEF AtRest, TaskFrame, Owning, Starts

(* The frame of a task that begins with reap_active_if_exited. *)
LEMMA ReapingFrame ==
    ASSUME NEW op \in Ops
    PROVE  /\ Reaping(op) \in TaskFrame /\ Reaping(op).pc = "reap"
           /\ Reaping(op).op = op /\ Reaping(op).pid = 0 /\ Reaping(op).pc \notin Owning
BY Zenon DEF Reaping, AtRest, TaskFrame, Ops, Owning

(* Where a task goes once reap_active_if_exited has returned. *)
LEMMA ReapedStage ==
    ASSUME NEW op \in Ops
    PROVE  /\ AfterReap(op) \in {"check", "lease", "stop"} /\ AfterReap(op) \notin Owning
           /\ AfterReap(op) = "check" => op \in Starts
BY DEF AfterReap, Starts, Owning

(* The frame of a task once stop_active has returned. *)
LEMMA StoppedFrame ==
    ASSUME NEW op \in Ops
    PROVE  /\ AfterStop(op) \in TaskFrame /\ AfterStop(op).pc \in {"idle", "start"}
           /\ AfterStop(op).pid = 0 /\ AfterStop(op).pc \notin Owning
           /\ AfterStop(op).pc = "start" => AfterStop(op).op \in Starts
           /\ AfterStop(op).op \in Starts => op \in Starts
<1>1. CASE op = "replace"
  BY <1>1, Zenon DEF AfterStop, AtRest, TaskFrame, Starts, Owning
<1>2. CASE op = "shutdown"
  BY <1>2 DEF AfterStop, AtRest, TaskFrame, Starts, Owning
<1>3. CASE op \notin {"replace", "shutdown"}
  <2>1. AfterStop(op) = AtRest
    BY <1>3 DEF AfterStop
  <2> QED
    BY <2>1, RestFrame
<1> QED
  BY <1>1, <1>2, <1>3

(* The reason stop_active records is one of its reasons. *)
LEMMA StopReasons ==
    \A op \in Ops : Reason(op) \in {"none", "exited", "replaced", "requested_stop",
                                    "lease_expired", "daemon_shutdown"}
BY DEF Reason

(* Nothing is deployed at first. *)
LEMMA DaemonInitially == DaemonInit => DaemonInv
<1> SUFFICES ASSUME DaemonInit PROVE DaemonInv
  OBVIOUS
<1>1. /\ [state |-> "none", lock |-> "free"] \in ChildRecord /\ NoExit \in ExitRecord
      /\ NoExit.pid = 0
  BY DEF ChildRecord, ExitRecord, NoExit
<1>2. DaemonShape
  BY <1>1, RestFrame DEF DaemonInit, DaemonShape
<1>3. Starting = {}
  BY RestFrame DEF DaemonInit, Starting, Tasks
<1>4. LaunchesAreRequested
  BY <1>3, FS_EmptySet, DaemonAssumption DEF DaemonInit, LaunchesAreRequested
<1>5. PidsAreLaunched
  BY <1>1, DaemonAssumption DEF DaemonInit, PidsAreLaunched, Pids
<1>6. TasksKnowTheirChild
  <2>1. AtRest.pc \notin {"clear_exited", "clear_stopped", "check", "start"} /\ AtRest.pid <= launched
    BY RestFrame DEF DaemonInit
  <2> QED
    BY <2>1, RestFrame DEF DaemonInit, TasksKnowTheirChild
<1> QED
  BY <1>1, <1>2, <1>4, <1>5, <1>6 DEF DaemonInit, DaemonInv, LivingIsRecorded, Living, ExitIsReal

(* The children when a step leaves them alone. *)
LEMMA ChildrenAlone ==
    ASSUME DaemonInv, UNCHANGED child
    PROVE  /\ child' \in [Pids -> ChildRecord]
           /\ \A p \in Pids : /\ child'[p].state = "none" <=> child[p].state = "none"
                              /\ child[p].state = "reaped" => child'[p].state = "reaped"
                              /\ Living(p)' => Living(p)
BY DEF DaemonInv, DaemonShape, Living

(* A task begins with the reap: a tick, a shutdown or, with a request more, a
   client's call. *)
LEMMA RequestKeeps ==
    ASSUME DaemonInv, NEW k \in Clients, NEW op \in {"activate", "replace", "stop"},
           Request(k, op)
    PROVE  DaemonInv'
<1> DEFINE f == Reaping(op)
<1>1. /\ task[k] = AtRest /\ requests < MaxRequests /\ requests' = requests + 1
      /\ task' = [task EXCEPT ![k] = f]
      /\ UNCHANGED <<active, lastExit, child, expired, launched, orphans>>
  BY DEF Request, Begin, Reaping
<1>2. f \in TaskFrame /\ f.pc = "reap" /\ f.op = op /\ f.pid = 0 /\ f.pc \notin Owning
  BY ReapingFrame DEF Ops
<1> HIDE DEF f
<1>3. k \in Tasks /\ \A y \in Tasks : task'[y] = IF y = k THEN f ELSE task[y]
  BY <1>1 DEF DaemonInv, DaemonShape, Tasks
<1>4. DaemonShape'
  BY <1>1, <1>2, <1>3 DEF DaemonInv, DaemonShape
<1>5. LaunchesAreRequested'
  <2>1. Starting' \subseteq Starting \cup {k}
    BY <1>3 DEF Starting, Tasks
  <2>2. IsFiniteSet(Starting \cup {k}) /\ Cardinality(Starting \cup {k}) <= Cardinality(Starting) + 1
    BY LaunchedPids, FS_AddElement
  <2>3. Cardinality(Starting') <= Cardinality(Starting \cup {k}) /\ Cardinality(Starting') \in Nat
    BY <2>1, <2>2, FS_Subset, FS_CardinalityType
  <2>4. /\ launched \in Nat /\ requests \in Nat /\ Cardinality(Starting) \in Nat
        /\ Cardinality(Starting \cup {k}) \in Nat /\ MaxRequests \in Nat
    BY <2>2, LaunchedPids, FS_CardinalityType, DaemonAssumption DEF DaemonInv, DaemonShape
  <2> QED
    BY <1>1, <2>2, <2>3, <2>4 DEF DaemonInv, LaunchesAreRequested
<1>6. PidsAreLaunched' /\ LivingIsRecorded' /\ ExitIsReal'
  BY <1>1 DEF DaemonInv, PidsAreLaunched, LivingIsRecorded, Living, ExitIsReal
<1>7. TasksKnowTheirChild'
  BY <1>1, <1>2, <1>3 DEF DaemonInv, DaemonShape, TasksKnowTheirChild, Owning
<1> QED
  BY <1>4, <1>5, <1>6, <1>7 DEF DaemonInv

(* The tick begins, with reap_active_if_exited. *)
LEMMA TickBeginKeeps ==
    ASSUME DaemonInv, NEW op \in {"tick", "lease", "shutdown"}, Begin(Tick, op),
           UNCHANGED <<active, lastExit, child, expired, launched, requests, orphans>>
    PROVE  DaemonInv'
<1> DEFINE f == Reaping(op)
<1>1. task' = [task EXCEPT ![Tick] = f] /\ Tick \in Tasks
  BY DEF Begin, Tasks, Reaping
<1>2. f \in TaskFrame /\ f.pc = "reap" /\ f.op = op /\ f.pid = 0 /\ f.pc \notin Owning
  BY ReapingFrame DEF Ops
<1>3. f.pid <= launched /\ f.op \notin Starts
  BY <1>2 DEF DaemonInv, DaemonShape, Starts
<1> HIDE DEF f
<1> QED
  BY <1>1, <1>2, <1>3, ChildrenAlone, OneTaskMovesQuietly, Zenon

(* A task goes to rest. *)
LEMMA EndKeeps ==
    ASSUME DaemonInv, NEW x \in Tasks, TaskEnds(x),
           UNCHANGED <<active, lastExit, child, expired, launched, requests, orphans>>
    PROVE  DaemonInv'
<1>1. task' = [task EXCEPT ![x] = AtRest] /\ AtRest.pid <= launched
  BY RestFrame DEF TaskEnds, DaemonInv, DaemonShape
<1>2. AtRest.pc \notin {"clear_exited", "clear_stopped", "check", "start"}
  BY RestFrame
<1> QED
  BY <1>1, <1>2, RestFrame, ChildrenAlone, OneTaskMovesQuietly, Zenon

(* reap_active_if_exited reads the active record. *)
LEMMA ReapKeeps ==
    ASSUME DaemonInv, NEW x \in Tasks, ReapActive(x)
    PROVE  DaemonInv'
<1> DEFINE f == [task[x] EXCEPT !.pid = active,
                                !.pc = IF active = 0 THEN AfterReap(task[x].op) ELSE "try_wait"]
<1>1. UNCHANGED <<active, lastExit, child, expired, launched, requests, orphans>>
  BY DEF ReapActive
<1>2. task' = [task EXCEPT ![x] = f]
  <2>1. /\ task' = [task EXCEPT ![x].pid = active,
                      ![x].pc = IF active = 0 THEN AfterReap(task[x].op) ELSE "try_wait"]
        /\ task \in [Tasks -> TaskFrame]
    BY DEF ReapActive, DaemonInv, DaemonShape
  <2> QED
    BY <2>1, Zenon
<1>3. task[x] \in TaskFrame /\ task[x].op \in Ops /\ active \in Nat /\ active <= launched
  BY TaskFacts DEF TaskFrame, Ops, DaemonInv, DaemonShape, PidsAreLaunched
<1>4. f \in TaskFrame /\ f.op = task[x].op /\ f.pid = active
  BY <1>3, ReapedStage, Zenon DEF TaskFrame
<1>5. f.pc = IF active = 0 THEN AfterReap(task[x].op) ELSE "try_wait"
  BY <1>3 DEF TaskFrame
<1>6. CASE active = 0
  <2>1. f.pc \in {"check", "lease", "stop"} /\ f.pc \notin Owning /\ (f.pc = "check" => f.op \in Starts)
    BY <1>3, <1>4, <1>5, <1>6, ReapedStage
  <2> HIDE DEF f
  <2> QED
    BY <1>1, <1>2, <1>3, <1>4, <2>1, ChildrenAlone, OneTaskMovesQuietly, Zenon
<1>7. CASE active # 0
  <2>1. f.pc = "try_wait"
    BY <1>5, <1>7
  <2> HIDE DEF f
  <2> QED
    BY <1>1, <1>2, <1>3, <1>4, <1>7, <2>1, ChildrenAlone, OneTaskMovesQuietly, Zenon
<1> QED
  BY <1>6, <1>7

(* A reap that cleared nothing ends: on to what the task was asked for. *)
LEMMA ReapDone ==
    ASSUME DaemonInv, NEW x \in Tasks, 
           task' = [task EXCEPT ![x].pc = AfterReap(task[x].op), ![x].pid = 0],
           UNCHANGED <<active, lastExit, child, expired, launched, requests, orphans>>
    PROVE  DaemonInv'
<1> DEFINE f == [task[x] EXCEPT !.pc = AfterReap(task[x].op), !.pid = 0]
<1>1. task[x] \in TaskFrame /\ task[x].op \in Ops /\ task \in [Tasks -> TaskFrame] /\ launched \in Nat
  BY TaskFacts DEF TaskFrame, Ops, DaemonInv, DaemonShape
<1>2. task' = [task EXCEPT ![x] = f]
  BY <1>1, Zenon
<1>3. f \in TaskFrame /\ f.pc = AfterReap(task[x].op) /\ f.op = task[x].op /\ f.pid = 0
  BY <1>1, ReapedStage, Zenon DEF TaskFrame
<1>4. f.pc \notin Owning /\ f.pc \in {"check", "lease", "stop"} /\ (f.pc = "check" => f.op \in Starts)
  BY <1>1, <1>3, ReapedStage
<1>5. f.pid <= launched /\ f.pc \notin {"clear_exited", "clear_stopped", "start"}
  BY <1>1, <1>3, <1>4
<1> HIDE DEF f
<1> QED
  BY <1>2, <1>3, <1>4, <1>5, ChildrenAlone, OneTaskMovesQuietly, Zenon

(* One child's record changes to c, which has not come to life with it. *)
LEMMA OneChildChanges ==
    ASSUME DaemonInv, NEW q \in Pids, NEW c \in ChildRecord, child' = [child EXCEPT ![q] = c],
           c.state = "none" <=> child[q].state = "none",
           child[q].state = "reaped" => c.state = "reaped",
           c.state \in {"running", "terminated", "killed"} => Living(q)
    PROVE  /\ child' \in [Pids -> ChildRecord] /\ child'[q] = c
           /\ \A p \in Pids : /\ child'[p].state = "none" <=> child[p].state = "none"
                              /\ child[p].state = "reaped" => child'[p].state = "reaped"
                              /\ Living(p)' => Living(p)
<1>1. child' \in [Pids -> ChildRecord] /\ \A p \in Pids : child'[p] = IF p = q THEN c ELSE child[p]
  BY DEF DaemonInv, DaemonShape
<1> QED
  BY <1>1 DEF Living

(* The child of a task, whose process was launched. *)
LEMMA OwnChild ==
    ASSUME DaemonInv, NEW x \in Tasks, task[x].pc \in Owning
    PROVE  /\ task[x].pid \in Pids /\ task[x].pid # 0 /\ child[task[x].pid] \in ChildRecord
           /\ child[task[x].pid].state # "none"
<1>1. task[x].pid \in Pids /\ task[x].pid <= launched
  BY TaskFacts
<1> QED
  BY <1>1 DEF DaemonInv, DaemonShape, PidsAreLaunched, Pids

(* reap_active_if_exited asks the child whether it has exited. *)
LEMMA TryWaitKeeps ==
    ASSUME DaemonInv, NEW x \in Tasks, TryWait(x) PROVE DaemonInv'
<1> DEFINE p == task[x].pid
<1>1. /\ UNCHANGED <<active, lastExit, expired, launched, requests, orphans>>
      /\ task[x].pc = "try_wait" /\ task[x].pc \in Owning
  BY DEF TryWait, Owning
<1>2. /\ task[x] \in TaskFrame /\ task[x].op \in Ops /\ p \in Pids /\ p # 0 /\ p <= launched
      /\ child[p] \in ChildRecord /\ child[p].state # "none" /\ launched \in Nat
  BY <1>1, TaskFacts, OwnChild DEF TaskFrame, Ops, DaemonInv, DaemonShape
<1>3. CASE Exited(p)
  <2> DEFINE c == [child[p] EXCEPT !.state = "reaped"]
             f == [task[x] EXCEPT !.pc = "clear_exited"]
  <2>1. child' = [child EXCEPT ![p] = c] /\ task' = [task EXCEPT ![x] = f]
    BY <1>3 DEF TryWait, TaskAt
  <2>2. c \in ChildRecord /\ c.state = "reaped"
    BY <1>2 DEF ChildRecord
  <2>3. f \in TaskFrame /\ f.pc = "clear_exited" /\ f.op = task[x].op /\ f.pid = p
    BY <1>2 DEF TaskFrame
  <2> HIDE DEF c, f, p
  <2>4. /\ child' \in [Pids -> ChildRecord] /\ child'[p] = c
        /\ \A q \in Pids : /\ child'[q].state = "none" <=> child[q].state = "none"
                           /\ child[q].state = "reaped" => child'[q].state = "reaped"
                           /\ Living(q)' => Living(q)
    BY <1>2, <2>1, <2>2, OneChildChanges, Zenon
  <2> QED
    BY <1>1, <1>2, <2>1, <2>2, <2>3, <2>4, OneTaskMovesQuietly, Zenon
<1>4. CASE ~Exited(p)
  <2>1. UNCHANGED child /\ task' = [task EXCEPT ![x].pc = AfterReap(task[x].op), ![x].pid = 0]
    BY <1>4 DEF TryWait, TaskDone
  <2> QED
    BY <1>1, <2>1, ReapDone, Zenon
<1> QED
  BY <1>3, <1>4

(* reap_active_if_exited clears the record it has read, if it is still there. *)
LEMMA ClearKeepsRecords ==
    ASSUME DaemonInv, NEW p \in Pids, NEW reason \in {"none", "exited", "replaced",
              "requested_stop", "lease_expired", "daemon_shutdown"},
           p <= launched, child[p].state = "reaped", ClearActive(p, reason),
           UNCHANGED <<child, orphans>>
    PROVE  /\ active' \in Nat /\ active' <= launched
           /\ lastExit' \in ExitRecord /\ lastExit'.pid <= launched
           /\ LivingIsRecorded' /\ ExitIsReal'
<1>1. active \in Nat /\ active <= launched /\ launched \in Nat /\ p \in Nat
  BY DaemonAssumption DEF DaemonInv, DaemonShape, PidsAreLaunched, Pids
<1>2. CASE active = p
  <2>1. active' = 0 /\ lastExit' = [pid |-> p, reason |-> reason]
    BY <1>2 DEF ClearActive
  <2>2. lastExit' \in ExitRecord /\ lastExit'.pid = p
    BY <1>1, <2>1 DEF ExitRecord
  <2>3. LivingIsRecorded'
    BY <1>2 DEF DaemonInv, LivingIsRecorded, Living
  <2>4. ExitIsReal'
    BY <2>1, <2>2 DEF ExitIsReal
  <2> QED
    BY <1>1, <2>1, <2>2, <2>3, <2>4
<1>3. CASE active # p
  BY <1>1, <1>3 DEF ClearActive, DaemonInv, DaemonShape, PidsAreLaunched, LivingIsRecorded,
                    Living, ExitIsReal
<1> QED
  BY <1>2, <1>3

(* reap_active_if_exited clears a child that has exited. *)
LEMMA ClearExitedKeeps ==
    ASSUME DaemonInv, NEW x \in Tasks, ClearExited(x) PROVE DaemonInv'
<1> DEFINE p == task[x].pid
           f == [task[x] EXCEPT !.pc = AfterReap(task[x].op), !.pid = 0]
<1>1. /\ UNCHANGED <<child, expired, launched, requests, orphans>> /\ ClearActive(p, "exited")
      /\ task[x].pc = "clear_exited" /\ task[x].pc \in Owning
  BY DEF ClearExited, Owning
<1>2. task' = [task EXCEPT ![x] = f]
  <2>1. /\ task' = [task EXCEPT ![x].pc = AfterReap(task[x].op), ![x].pid = 0]
        /\ task \in [Tasks -> TaskFrame]
    BY DEF ClearExited, TaskDone, DaemonInv, DaemonShape
  <2> QED
    BY <2>1, Zenon
<1>3. /\ task[x] \in TaskFrame /\ task[x].op \in Ops /\ p \in Pids /\ p <= launched
      /\ child[p].state = "reaped" /\ launched \in Nat
  BY <1>1, TaskFacts DEF TaskFrame, Ops, DaemonInv, DaemonShape, TasksKnowTheirChild
<1>4. f \in TaskFrame /\ f.pc = AfterReap(task[x].op) /\ f.op = task[x].op /\ f.pid = 0
  BY <1>3, ReapedStage, Zenon DEF TaskFrame
<1>5. f.pc \notin Owning /\ f.pc \in {"check", "lease", "stop"} /\ (f.pc = "check" => f.op \in Starts)
  BY <1>3, <1>4, ReapedStage
<1> HIDE DEF p, f
<1>6. /\ active' \in Nat /\ active' <= launched /\ lastExit' \in ExitRecord
      /\ lastExit'.pid <= launched /\ LivingIsRecorded' /\ ExitIsReal'
  BY <1>1, <1>3, ClearKeepsRecords
<1>7. f.pid <= launched /\ f.pc \notin {"clear_exited", "clear_stopped", "start"}
  BY <1>3, <1>4, <1>5
<1> QED
  BY <1>1, <1>2, <1>4, <1>5, <1>6, <1>7, ChildrenAlone, OneTaskMoves, Zenon

(* stop_active clears the child it has waited for. *)
LEMMA ClearStoppedKeeps ==
    ASSUME DaemonInv, NEW x \in Tasks, ClearStopped(x) PROVE DaemonInv'
<1> DEFINE p == task[x].pid
           f == AfterStop(task[x].op)
<1>1. /\ UNCHANGED <<child, expired, launched, requests, orphans>>
      /\ ClearActive(p, Reason(task[x].op)) /\ task' = [task EXCEPT ![x] = f]
      /\ task[x].pc = "clear_stopped" /\ task[x].pc \in Owning
  BY DEF ClearStopped, Owning
<1>2. /\ task[x] \in TaskFrame /\ task[x].op \in Ops /\ p \in Pids /\ p <= launched
      /\ child[p].state = "reaped" /\ launched \in Nat
  BY <1>1, TaskFacts, Zenon DEF TaskFrame, Ops, DaemonInv, DaemonShape, TasksKnowTheirChild
<1>3. /\ f \in TaskFrame /\ f.pc \in {"idle", "start"} /\ f.pid = 0 /\ f.pc \notin Owning
      /\ f.pc = "start" => f.op \in Starts
      /\ f.op \in Starts => task[x].op \in Starts
  BY <1>2, StoppedFrame
<1> HIDE DEF p, f
<1>4. /\ active' \in Nat /\ active' <= launched /\ lastExit' \in ExitRecord
      /\ lastExit'.pid <= launched /\ LivingIsRecorded' /\ ExitIsReal'
  BY <1>1, <1>2, StopReasons, ClearKeepsRecords
<1>5. f.pid <= launched /\ f.pc \notin {"clear_exited", "clear_stopped", "check"}
  BY <1>2, <1>3
<1> QED
  BY <1>1, <1>3, <1>4, <1>5, ChildrenAlone, OneTaskMoves, Zenon

(* stop_active takes the active child and signals it. *)
LEMMA StopActiveKeeps ==
    ASSUME DaemonInv, NEW x \in Tasks, StopActive(x) PROVE DaemonInv'
<1>1. /\ UNCHANGED <<active, lastExit, expired, launched, requests, orphans>>
      /\ task[x] \in TaskFrame /\ task[x].op \in Ops /\ launched \in Nat /\ active \in Nat
      /\ active <= launched /\ task \in [Tasks -> TaskFrame]
  BY TaskFacts DEF StopActive, TaskFrame, Ops, DaemonInv, DaemonShape, PidsAreLaunched
<1>2. CASE active = 0
  <2> DEFINE f == AfterStop(task[x].op)
  <2>1. task' = [task EXCEPT ![x] = f] /\ UNCHANGED child
    BY <1>2 DEF StopActive
  <2>2. /\ f \in TaskFrame /\ f.pc \in {"idle", "start"} /\ f.pid = 0 /\ f.pc \notin Owning
        /\ f.pc = "start" => f.op \in Starts
        /\ f.op \in Starts => task[x].op \in Starts
    BY <1>1, StoppedFrame
  <2>3. f.pid <= launched /\ f.pc \notin {"clear_exited", "clear_stopped", "check"}
    BY <1>1, <2>2
  <2> HIDE DEF f
  <2> QED
    BY <1>1, <2>1, <2>2, <2>3, ChildrenAlone, OneTaskMovesQuietly, Zenon
<1>3. CASE active # 0
  <2> DEFINE f == [task[x] EXCEPT !.pc = "lock", !.pid = active]
             c == [child[active] EXCEPT !.state = IF @ = "running" THEN "terminated" ELSE @]
  <2>1. child' = [child EXCEPT ![active] = c]
    BY <1>3 DEF StopActive
  <2>2. task' = [task EXCEPT ![x].pc = "lock", ![x].pid = active]
    BY <1>3 DEF StopActive
  <2>3. task' = [task EXCEPT ![x] = f]
    BY <1>1, <2>2, Zenon
  <2>4. f \in TaskFrame /\ f.pc = "lock" /\ f.op = task[x].op /\ f.pid = active
    BY <1>1, Zenon DEF TaskFrame
  <2>5. active \in Pids
    BY <1>1, <1>3, LaunchedPids
  <2>6. /\ c \in ChildRecord
        /\ c.state = IF child[active].state = "running" THEN "terminated" ELSE child[active].state
    BY <2>5 DEF ChildRecord, DaemonInv, DaemonShape
  <2>7. /\ c.state = "none" <=> child[active].state = "none"
        /\ child[active].state = "reaped" => c.state = "reaped"
        /\ c.state \in {"running", "terminated", "killed"} => Living(active)
    BY <2>6 DEF Living
  <2> HIDE DEF c, f
  <2>8. /\ child' \in [Pids -> ChildRecord]
        /\ \A q \in Pids : /\ child'[q].state = "none" <=> child[q].state = "none"
                           /\ child[q].state = "reaped" => child'[q].state = "reaped"
                           /\ Living(q)' => Living(q)
    BY <2>1, <2>5, <2>6, <2>7, OneChildChanges, Zenon
  <2>9. f.pid <= launched /\ f.pid # 0 /\ f.pc \notin {"clear_exited", "clear_stopped", "check", "start"}
    BY <1>1, <1>3, <2>4
  <2> QED
    BY <1>1, <2>3, <2>4, <2>8, <2>9, OneTaskMovesQuietly, Zenon
<1> QED
  BY <1>2, <1>3

(* The steps on the child a task owns: its lock, the kill, the wait. *)
LEMMA OwnChildKeeps ==
    ASSUME DaemonInv, NEW x \in Tasks, LockChild(x) \/ KillChild(x) \/ WaitChild(x)
    PROVE  DaemonInv'
<1> DEFINE p == task[x].pid
<1>1. /\ UNCHANGED <<active, lastExit, expired, launched, requests, orphans>>
      /\ task[x].pc \in Owning
  BY DEF LockChild, KillChild, WaitChild, Owning
<1>2. /\ task[x] \in TaskFrame /\ p \in Pids /\ p # 0 /\ p <= launched
      /\ child[p] \in ChildRecord /\ child[p].state # "none"
  BY <1>1, TaskFacts, OwnChild
<1>3. ASSUME NEW c \in ChildRecord, NEW pc \in Owning,
             child' = [child EXCEPT ![p] = c], task' = [task EXCEPT ![x].pc = pc],
             c.state # "none", child[p].state = "reaped" => c.state = "reaped",
             c.state \in {"running", "terminated", "killed"} => Living(p),
             pc \in {"clear_exited", "clear_stopped"} => c.state = "reaped"
      PROVE  DaemonInv'
  <2> DEFINE f == [task[x] EXCEPT !.pc = pc]
  <2>1. f \in TaskFrame /\ f.pc = pc /\ f.op = task[x].op /\ f.pid = p
    BY <1>2, <1>3 DEF TaskFrame, Owning
  <2>2. task' = [task EXCEPT ![x] = f]
    BY <1>3
  <2> HIDE DEF f, p
  <2>3. /\ child' \in [Pids -> ChildRecord] /\ child'[p] = c
        /\ \A q \in Pids : /\ child'[q].state = "none" <=> child[q].state = "none"
                           /\ child[q].state = "reaped" => child'[q].state = "reaped"
                           /\ Living(q)' => Living(q)
    BY <1>2, <1>3, OneChildChanges, Zenon
  <2>4. pc \notin {"check", "start"}
    BY DEF Owning
  <2> QED
    BY <1>1, <1>2, <1>3, <2>1, <2>2, <2>3, <2>4, OneTaskMovesQuietly, Zenon
<1>4. CASE LockChild(x)
  <2> DEFINE c == [child[p] EXCEPT !.lock = x]
  <2>1. child' = [child EXCEPT ![p] = c] /\ task' = [task EXCEPT ![x].pc = "wait"]
    BY <1>4 DEF LockChild, TaskAt
  <2>2. c \in ChildRecord /\ c.state = child[p].state
    BY <1>2 DEF ChildRecord
  <2>3. c.state \in {"running", "terminated", "killed"} => Living(p)
    BY <2>2 DEF Living
  <2> HIDE DEF c, p
  <2> QED
    BY <1>2, <1>3, <2>1, <2>2, <2>3, Zenon DEF Owning
<1>5. CASE KillChild(x)
  <2> DEFINE c == [child[p] EXCEPT !.state = "killed"]
  <2>1. child' = [child EXCEPT ![p] = c] /\ task' = [task EXCEPT ![x].pc = "wait_killed"] /\ ~Exited(p)
    BY <1>5 DEF KillChild, TaskAt
  <2>2. c \in ChildRecord /\ c.state = "killed"
    BY <1>2 DEF ChildRecord
  <2>3. Living(p) /\ child[p].state # "reaped"
    BY <1>2, <2>1 DEF Living, Exited, ChildRecord
  <2> HIDE DEF c, p
  <2> QED
    BY <1>2, <1>3, <2>1, <2>2, <2>3, Zenon DEF Owning
<1>6. CASE WaitChild(x)
  <2> DEFINE c == [state |-> "reaped", lock |-> "free"]
  <2>1. child' = [child EXCEPT ![p] = c] /\ task' = [task EXCEPT ![x].pc = "clear_stopped"]
    BY <1>6 DEF WaitChild, TaskAt
  <2>2. c \in ChildRecord /\ c.state = "reaped"
    BY DEF ChildRecord
  <2> HIDE DEF c, p
  <2> QED
    BY <1>2, <1>3, <2>1, <2>2, Zenon DEF Owning
<1> QED
  BY <1>4, <1>5, <1>6

(* An activation is checked against the child that is active. *)
LEMMA CheckKeeps ==
    ASSUME DaemonInv, NEW k \in Clients, CheckActive(k) PROVE DaemonInv'
<1>1. /\ UNCHANGED <<active, lastExit, child, expired, launched, requests, orphans>>
      /\ k \in Tasks /\ task[k].pc = "check"
  BY DEF CheckActive, Tasks
<1>2. CASE active = 0
  <2> DEFINE f == [task[k] EXCEPT !.pc = "start"]
  <2>1. task' = [task EXCEPT ![k] = f]
    BY <1>2 DEF CheckActive, TaskAt
  <2>2. /\ f \in TaskFrame /\ f.pc = "start" /\ f.op = task[k].op /\ f.pid <= launched
    BY <1>1, TaskFacts DEF TaskFrame
  <2>3. task[k].op \in Starts /\ "start" \notin Owning
    BY <1>1 DEF DaemonInv, TasksKnowTheirChild, Owning
  <2> HIDE DEF f
  <2> QED
    BY <1>1, <2>1, <2>2, <2>3, ChildrenAlone, OneTaskMovesQuietly, Zenon
<1>3. CASE active # 0
  BY <1>1, <1>3, EndKeeps DEF CheckActive
<1> QED
  BY <1>2, <1>3

(* A new deployment: its process is the next pid, and the record it overwrites, if
   there is one, leaves an orphan. *)
LEMMA StartKeeps ==
    ASSUME DaemonInv, NEW k \in Clients, StartActive(k) PROVE DaemonInv'
<1> DEFINE p == launched + 1
           c == [child[p] EXCEPT !.state = "running"]
<1>1. /\ task[k].pc = "start" /\ launched' = p /\ child' = [child EXCEPT ![p] = c]
      /\ active' = p /\ lastExit' = NoExit /\ orphans' = orphans \cup ({active} \ {0})
      /\ task' = [task EXCEPT ![k] = AtRest] /\ UNCHANGED <<expired, requests>>
  BY DEF StartActive, TaskEnds
<1>2. k \in Tasks /\ task[k].op \in Starts /\ k \in Starting
  BY <1>1 DEF Tasks, DaemonInv, TasksKnowTheirChild, Starting
<1>3. /\ launched \in Nat /\ requests \in Nat /\ MaxRequests \in Nat /\ active \in Nat
      /\ active <= launched /\ launched + Cardinality(Starting) <= requests
      /\ requests <= MaxRequests
  BY DaemonAssumption DEF DaemonInv, DaemonShape, PidsAreLaunched, LaunchesAreRequested
<1>4. \A y \in Tasks : task'[y] = IF y = k THEN AtRest ELSE task[y]
  BY <1>1 DEF DaemonInv, DaemonShape
<1>5. /\ Starting' = Starting \ {k}
      /\ Cardinality(Starting') = Cardinality(Starting) - 1 /\ Cardinality(Starting') \in Nat
  <2>1. Starting' = Starting \ {k}
    BY <1>4, RestFrame DEF Starting, Tasks
  <2> QED
    BY <1>2, <2>1, LaunchedPids, FS_RemoveElement, FS_CardinalityType
<1>6. p \in Pids /\ p \in Nat /\ p # 0 /\ p <= requests
  BY <1>3, <1>5, LaunchedPids DEF Pids
<1>7. child[p].state = "none" /\ child[p] \in ChildRecord
  BY <1>3, <1>6 DEF DaemonInv, DaemonShape, PidsAreLaunched
<1>8. c \in ChildRecord /\ c.state = "running"
  BY <1>7 DEF ChildRecord
<1> HIDE DEF c
<1>9. \A q \in Pids : child'[q] = IF q = p THEN c ELSE child[q]
  BY <1>1 DEF DaemonInv, DaemonShape
<1>10. NoExit \in ExitRecord /\ NoExit.pid = 0
  BY DEF NoExit, ExitRecord
<1>11. DaemonShape'
  BY <1>1, <1>2, <1>3, <1>6, <1>8, <1>10, RestFrame DEF DaemonInv, DaemonShape
<1>12. LaunchesAreRequested'
  BY <1>1, <1>3, <1>5, LaunchedPids DEF LaunchesAreRequested
<1>13. PidsAreLaunched'
  <2>1. \A q \in Pids : q <= p <=> child'[q].state # "none"
    BY <1>3, <1>7, <1>8, <1>9 DEF DaemonInv, PidsAreLaunched, Pids
  <2>2. orphans \cup expired \subseteq 1..p
    BY <1>3 DEF DaemonInv, PidsAreLaunched
  <2>3. {active} \ {0} \subseteq 1..p
    BY <1>3
  <2> QED
    BY <1>1, <1>6, <1>10, <2>1, <2>2, <2>3 DEF PidsAreLaunched
<1>14. TasksKnowTheirChild'
  <2>1. ASSUME NEW y \in Tasks, y # k
        PROVE  /\ task[y].pid <= p
               /\ task[y].pc \in Owning => task[y].pid # 0
               /\ task[y].pc \in {"clear_exited", "clear_stopped"}
                     => child'[task[y].pid].state = "reaped"
               /\ task[y].pc \in {"check", "start"} => task[y].op \in Starts
    <3>1. task[y].pid \in Nat /\ task[y].pid <= launched
      BY TaskFacts
    <3>2. task[y].pc \in {"clear_exited", "clear_stopped"} => task[y].pid \in Pids
      BY TaskFacts DEF Owning
    <3>3. task[y].pid # p /\ task[y].pid <= p
      BY <1>3, <3>1
    <3> HIDE DEF p
    <3> QED
      BY <1>9, <3>2, <3>3 DEF DaemonInv, TasksKnowTheirChild
  <2>2. AtRest.pid <= p /\ AtRest.pc \notin {"clear_exited", "clear_stopped", "check", "start"}
    BY <1>3, RestFrame
  <2> QED
    BY <1>1, <1>4, <2>1, <2>2, RestFrame DEF TasksKnowTheirChild
<1>15. LivingIsRecorded'
  <2> SUFFICES ASSUME NEW q \in Pids, q \notin orphans', Living(q)', q # p PROVE FALSE
    BY <1>1 DEF LivingIsRecorded
  <2>1. Living(q) /\ q \notin orphans
    BY <1>1, <1>9 DEF Living
  <2>2. active = q /\ q # 0
    BY <2>1 DEF DaemonInv, LivingIsRecorded, Pids
  <2> QED
    BY <1>1, <2>2
<1>16. ExitIsReal'
  BY <1>1, <1>10 DEF ExitIsReal
<1> QED
  BY <1>11, <1>12, <1>13, <1>14, <1>15, <1>16 DEF DaemonInv

(* What happens to the processes by themselves. *)
LEMMA ProcessEndsKeeps ==
    ASSUME DaemonInv, NEW p \in Pids, ProcessEnds(p) PROVE DaemonInv'
<1> DEFINE c == [child[p] EXCEPT !.state = "exited"]
<1>1. /\ child[p].state \in {"running", "terminated", "killed"}
      /\ child' = [child EXCEPT ![p] = c]
      /\ UNCHANGED <<active, lastExit, expired, task, launched, requests, orphans>>
  BY DEF ProcessEnds
<1>2. c \in ChildRecord /\ c.state = "exited"
  BY DEF ChildRecord, DaemonInv, DaemonShape
<1> HIDE DEF c
<1>3. /\ child' \in [Pids -> ChildRecord]
      /\ \A q \in Pids : /\ child'[q].state = "none" <=> child[q].state = "none"
                         /\ child[q].state = "reaped" => child'[q].state = "reaped"
                         /\ Living(q)' => Living(q)
  BY <1>1, <1>2, OneChildChanges, Zenon
<1>4. Tick \in Tasks /\ task' = [task EXCEPT ![Tick] = task[Tick]]
  BY <1>1 DEF Tasks, DaemonInv, DaemonShape
<1>5. /\ task[Tick] \in TaskFrame /\ task[Tick].pid <= launched
      /\ task[Tick].pc \in Owning => task[Tick].pid # 0
      /\ task[Tick].pc \in {"clear_exited", "clear_stopped"} => child'[task[Tick].pid].state = "reaped"
      /\ task[Tick].pc \in {"check", "start"} => task[Tick].op \in Starts
  <2>1. task[Tick].pc \in {"clear_exited", "clear_stopped"} => task[Tick].pid \in Pids
    BY <1>4, TaskFacts DEF Owning
  <2> QED
    BY <1>3, <1>4, <2>1, TaskFacts DEF DaemonInv, TasksKnowTheirChild
<1> QED
  BY <1>1, <1>3, <1>4, <1>5, OneTaskMovesQuietly, Zenon

(* The lease of a deployment runs out. *)
LEMMA LeaseExpiresKeeps ==
    ASSUME DaemonInv, NEW p \in Pids, LeaseExpires(p) PROVE DaemonInv'
<1>1. /\ child[p].state # "none" /\ expired' = expired \cup {p}
      /\ UNCHANGED <<active, lastExit, child, task, launched, requests, orphans>>
  BY DEF LeaseExpires
<1>2. p \in 1..launched
  BY <1>1, DaemonAssumption DEF DaemonInv, DaemonShape, PidsAreLaunched, Pids
<1> QED
  BY <1>1, <1>2 DEF DaemonInv, DaemonShape, LaunchesAreRequested, Starting, PidsAreLaunched,
                    TasksKnowTheirChild, LivingIsRecorded, Living, ExitIsReal

(* Every step of the clients, of the tick and of the processes keeps the invariant. *)
LEMMA DaemonStepKeeps == DaemonInv /\ [DaemonNext]_daemonVars => DaemonInv'
<1> SUFFICES ASSUME DaemonInv, [DaemonNext]_daemonVars PROVE DaemonInv'
  OBVIOUS
<1>1. CASE UNCHANGED daemonVars
  BY <1>1 DEF daemonVars, DaemonInv, DaemonShape, LaunchesAreRequested, Starting,
              PidsAreLaunched, TasksKnowTheirChild, LivingIsRecorded, Living, ExitIsReal
<1>2. ASSUME NEW x \in Tasks, TaskStep(x) PROVE DaemonInv'
  BY <1>2, ReapKeeps, TryWaitKeeps, ClearExitedKeeps, StopActiveKeeps, OwnChildKeeps,
     ClearStoppedKeeps DEF TaskStep
<1>3. ASSUME NEW k \in Clients, ClientStep(k) PROVE DaemonInv'
  <2>1. k \in Tasks
    BY DEF Tasks
  <2>2. CASE StartFails(k)
    BY <2>1, <2>2, EndKeeps DEF StartFails
  <2> QED
    BY <1>2, <1>3, <2>1, <2>2, CheckKeeps, StartKeeps DEF ClientStep
<1>4. CASE TickStep \/ Shutdown
  <2>1. Tick \in Tasks
    BY DEF Tasks
  <2>2. CASE TickBegins
    BY <2>2, TickBeginKeeps DEF TickBegins
  <2>3. CASE Shutdown
    BY <2>3, TickBeginKeeps DEF Shutdown
  <2>4. CASE EnforceLease
    BY <2>1, <2>4, TickBeginKeeps, EndKeeps DEF EnforceLease
  <2> QED
    BY <1>2, <1>4, <2>1, <2>2, <2>3, <2>4 DEF TickStep
<1> QED
  BY <1>1, <1>3, <1>4, RequestKeeps, ProcessEndsKeeps, LeaseExpiresKeeps DEF DaemonNext

(* The invariant holds in every state the daemon can reach. *)
LEMMA DaemonAlways == DaemonSpec => []DaemonInv
BY DaemonInitially, DaemonStepKeeps, PTL DEF DaemonSpec

(* For any number of clients and requests: records, processes and frames keep their
   shapes, and there is no process without a request of its own (start_active). *)
THEOREM DaemonTypes == DaemonSpec => []DaemonTypeOK
<1>1. ASSUME DaemonInv PROVE DaemonTypeOK
  <2>1. /\ active \in 0..launched /\ launched \in 0..requests /\ requests \in 0..MaxRequests
        /\ orphans \cup expired \subseteq 1..launched
    BY <1>1, LaunchedPids, DaemonAssumption DEF DaemonInv, DaemonShape, PidsAreLaunched,
       LaunchesAreRequested
  <2>2. lastExit \in [pid: 0..launched, reason: {"none", "exited", "replaced", "requested_stop",
                                                 "lease_expired", "daemon_shutdown"}]
    BY <1>1 DEF DaemonInv, DaemonShape, PidsAreLaunched, ExitRecord
  <2>3. \A x \in Tasks : task[x].pid \in 0..launched
    BY <1>1, TaskFacts DEF DaemonInv, DaemonShape
  <2> QED
    BY <1>1, <2>1, <2>2, <2>3 DEF DaemonInv, DaemonShape, DaemonTypeOK, TaskFrame, ChildRecord
<1> QED
  BY <1>1, DaemonAlways, PTL

(* For any number of clients and requests: a process that lives is the recorded
   deployment, unless a second activation overwrote its record
   (reap_active_if_exited, stop_active, start_active). *)
THEOREM LivingAreRecorded == DaemonSpec => []LivingIsRecorded
<1>1. DaemonInv => LivingIsRecorded
  BY DEF DaemonInv
<1> QED
  BY <1>1, DaemonAlways, PTL

(* For any number of clients and requests: last_exit is of a process that has been
   reaped, and is gone once another deployment is active (start_active,
   stop_active). *)
THEOREM ExitsAreReal == DaemonSpec => []ExitIsReal
<1>1. DaemonInv => ExitIsReal
  BY DEF DaemonInv
<1> QED
  BY <1>1, DaemonAlways, PTL

-----------------------------------------------------------------------------
(* The sessions: unified_exec.rs *)
ExecRecord == [proc: {"none", "running", "exited"}, written: Nat, captured: Nat, cursor: Nat,
               status: {"running", "completed"}, stdin: {"open", "closed"},
               lock: ExecCallers \cup {"free"}]
ExecFrame == [pc: {"idle", "write", "writing", "close", "activity"},
              session: ExecIds \cup {"none"}, close: BOOLEAN]

ExecShape ==
    /\ exec \in [ExecIds -> ExecRecord] /\ caller \in [ExecCallers -> ExecFrame]
    /\ registry \subseteq ExecIds /\ finished \in Seq(ExecIds)
    /\ windows \in [ExecIds -> SUBSET [from: Nat, to: Nat]]
    /\ \A x \in ExecCallers : caller[x] # NoExec => caller[x].session \in ExecIds

(* The output is captured as it is written and delivered as it is captured, ... *)
OutputInOrder ==
    \A s \in ExecIds :
        /\ exec[s].cursor <= exec[s].captured /\ exec[s].captured <= exec[s].written
        /\ exec[s].written <= MaxOutput[s]

(* ... character by character, in windows of one. *)
Window(i) == [from |-> i, to |-> i + 1]
WindowsUpToCursor ==
    \A s \in ExecIds : windows[s] = {Window(i) : i \in 0..(exec[s].cursor - 1)}

(* Only what has completed is on the list of the completed. *)
FinishedAreCompleted == \A i \in DOMAIN finished : exec[finished[i]].status = "completed"

ExecInv ==
    ExecShape /\ OutputInOrder /\ WindowsUpToCursor /\ StdinLockIsLive /\ FinishedAreCompleted

-----------------------------------------------------------------------------
(* One caller and one session move, to f and e. *)
ExecMoves(x, f, s, e) ==
    caller' = [caller EXCEPT ![x] = f] /\ exec' = [exec EXCEPT ![s] = e]

(* What the invariant needs of a step that delivers nothing: the session's counters
   keep their order, and its lock follows the caller. *)
LEMMA OneSessionMoves ==
    ASSUME ExecInv, NEW x \in ExecCallers, NEW f \in ExecFrame, NEW s \in ExecIds,
           NEW e \in ExecRecord, ExecMoves(x, f, s, e), UNCHANGED <<finished, windows>>,
           registry' \subseteq ExecIds, f # NoExec => f.session \in ExecIds,
           e.cursor = exec[s].cursor, e.cursor <= e.captured, e.captured <= e.written,
           e.written <= MaxOutput[s],
           exec[s].status = "completed" => e.status = "completed",
           e.lock # "free" =>
              \/ e.lock = x /\ f.pc = "writing" /\ f.session = s
              \/ e.lock # x /\ e.lock = exec[s].lock,
           \A t \in ExecIds \ {s} : exec[t].lock = x => exec[t].lock = "free"
    PROVE  ExecInv'
<1>1. \A t \in ExecIds : exec'[t] = IF t = s THEN e ELSE exec[t]
  BY DEF ExecInv, ExecShape, ExecMoves
<1>2. \A y \in ExecCallers : caller'[y] = IF y = x THEN f ELSE caller[y]
  BY DEF ExecInv, ExecShape, ExecMoves
<1>3. ExecShape'
  BY <1>2 DEF ExecInv, ExecShape, ExecMoves
<1>4. OutputInOrder'
  BY <1>1 DEF ExecInv, OutputInOrder
<1>5. WindowsUpToCursor'
  BY <1>1 DEF ExecInv, WindowsUpToCursor
<1>6. StdinLockIsLive'
  <2> SUFFICES ASSUME NEW t \in ExecIds, exec'[t].lock # "free"
               PROVE  caller'[exec'[t].lock].pc = "writing" /\ caller'[exec'[t].lock].session = t
    BY DEF StdinLockIsLive
  <2>1. exec[t].lock # "free" => /\ exec[t].lock \in ExecCallers
                                 /\ caller[exec[t].lock].pc = "writing"
                                 /\ caller[exec[t].lock].session = t
    BY DEF ExecInv, ExecShape, ExecRecord, StdinLockIsLive
  <2>2. CASE t = s
    BY <1>1, <1>2, <2>1, <2>2
  <2>3. CASE t # s
    BY <1>1, <1>2, <2>1, <2>3
  <2> QED
    BY <2>2, <2>3
<1>7. FinishedAreCompleted'
  BY <1>1 DEF ExecInv, ExecShape, FinishedAreCompleted
<1> QED
  BY <1>3, <1>4, <1>5, <1>6, <1>7 DEF ExecInv

(* The process and the tasks that serve it move one session, and no caller. *)
LEMMA SessionWorks ==
    ASSUME ExecInv, NEW s \in ExecIds, NEW e \in ExecRecord,
           exec' = [exec EXCEPT ![s] = e], UNCHANGED <<caller, registry, windows>>,
           e.cursor = exec[s].cursor, e.cursor <= e.captured, e.captured <= e.written,
           e.written <= MaxOutput[s], e.lock = exec[s].lock,
           exec[s].status = "completed" => e.status = "completed",
           \/ finished' = finished
           \/ finished' = Append(finished, s) /\ e.status = "completed"
    PROVE  ExecInv'
<1>1. \A t \in ExecIds : exec'[t] = IF t = s THEN e ELSE exec[t]
  BY DEF ExecInv, ExecShape
<1>2. ExecShape'
  <2>1. finished \in Seq(ExecIds)
    BY DEF ExecInv, ExecShape
  <2>2. finished' \in Seq(ExecIds)
    BY <2>1
  <2>3. exec' \in [ExecIds -> ExecRecord]
    BY DEF ExecInv, ExecShape
  <2> QED
    BY <2>2, <2>3 DEF ExecInv, ExecShape
<1>3. OutputInOrder' /\ WindowsUpToCursor' /\ StdinLockIsLive'
  BY <1>1 DEF ExecInv, OutputInOrder, WindowsUpToCursor, StdinLockIsLive
<1>4. FinishedAreCompleted'
  <2>1. CASE finished' = finished
    BY <1>1, <2>1 DEF ExecInv, ExecShape, FinishedAreCompleted
  <2>2. CASE finished' = Append(finished, s) /\ e.status = "completed"
    <3> SUFFICES ASSUME NEW i \in DOMAIN finished'
                 PROVE  exec'[finished'[i]].status = "completed"
      BY DEF FinishedAreCompleted
    <3>1. finished \in Seq(ExecIds) /\ i \in 1..(Len(finished) + 1)
      BY <2>2 DEF ExecInv, ExecShape
    <3>2. CASE i = Len(finished) + 1
      BY <1>1, <2>2, <3>1, <3>2
    <3>3. CASE i \in 1..Len(finished)
      <4>1. finished'[i] = finished[i] /\ finished[i] \in ExecIds
        BY <2>2, <3>1, <3>3
      <4>2. exec[finished[i]].status = "completed"
        BY <3>1, <3>3 DEF ExecInv, FinishedAreCompleted
      <4> QED
        BY <1>1, <4>1, <4>2
    <3> QED
      BY <3>1, <3>2, <3>3
  <2> QED
    BY <2>1, <2>2
<1> QED
  BY <1>2, <1>3, <1>4 DEF ExecInv

(* A caller at its session: what the invariant says of both. *)
LEMMA CallerFacts ==
    ASSUME ExecInv, NEW x \in ExecCallers, caller[x] # NoExec
    PROVE  /\ caller[x] \in ExecFrame /\ caller[x].session \in ExecIds
           /\ exec[caller[x].session] \in ExecRecord
           /\ exec[caller[x].session].cursor <= exec[caller[x].session].captured
           /\ exec[caller[x].session].captured <= exec[caller[x].session].written
           /\ exec[caller[x].session].written <= MaxOutput[caller[x].session]
  BY DEF ExecInv, ExecShape, OutputInOrder

(* A caller holds no lock but that of the session it is writing to. *)
LEMMA OtherLocks ==
    ASSUME ExecInv, NEW x \in ExecCallers, NEW t \in ExecIds, exec[t].lock = x,
           caller[x].pc # "writing" \/ caller[x].session # t
    PROVE  exec[t].lock = "free"
  BY DEF ExecInv, StdinLockIsLive

-----------------------------------------------------------------------------
(* No session has been started. *)
LEMMA ExecInitially == ExecInit => ExecInv
<1> SUFFICES ASSUME ExecInit PROVE ExecInv
  OBVIOUS
<1>1. NotStarted \in ExecRecord /\ NoExec \in ExecFrame
  BY DEF NotStarted, NoExec, ExecRecord, ExecFrame
<1>2. ExecShape
  BY <1>1 DEF ExecInit, ExecShape
<1>3. OutputInOrder /\ StdinLockIsLive /\ FinishedAreCompleted
  BY ExecAssumption DEF ExecInit, NotStarted, OutputInOrder, StdinLockIsLive, FinishedAreCompleted
<1>4. WindowsUpToCursor
  BY DEF ExecInit, NotStarted, WindowsUpToCursor
<1> QED
  BY <1>2, <1>3, <1>4 DEF ExecInv

(* exec_command prunes, registers its session and waits for activity. *)
LEMMA ExecCommandKeeps ==
    ASSUME ExecInv, NEW x \in ExecCallers, NEW s \in ExecIds, ExecCommand(x, s)
    PROVE  ExecInv'
<1> DEFINE f == [NoExec EXCEPT !.pc = "activity", !.session = s]
           e == [exec[s] EXCEPT !.proc = "running"]
<1>1. f \in ExecFrame /\ f.session = s
  BY Zenon DEF NoExec, ExecFrame
<1>2. exec[s] \in ExecRecord
  BY DEF ExecInv, ExecShape
<1>3. /\ e \in ExecRecord /\ e.cursor = exec[s].cursor /\ e.captured = exec[s].captured
      /\ e.written = exec[s].written /\ e.status = exec[s].status /\ e.lock = exec[s].lock
  BY <1>2 DEF ExecRecord
<1>4. /\ exec[s].cursor <= exec[s].captured /\ exec[s].captured <= exec[s].written
      /\ exec[s].written <= MaxOutput[s]
  BY DEF ExecInv, OutputInOrder
<1>5. caller[x].pc # "writing"
  BY DEF ExecCommand, NoExec
<1>6. ExecMoves(x, f, s, e) /\ UNCHANGED <<finished, windows>>
  BY DEF ExecCommand, ExecMoves
<1>7. registry' \subseteq ExecIds
  BY DEF ExecCommand, ExecInv, ExecShape
<1>8. \A t \in ExecIds : exec[t].lock = x => exec[t].lock = "free"
  BY <1>5, OtherLocks
<1> HIDE DEF f, e
<1> QED
  BY <1>1, <1>3, <1>4, <1>6, <1>7, <1>8, OneSessionMoves

(* write_stdin finds its session. *)
LEMMA WriteStdinKeeps ==
    ASSUME ExecInv, NEW x \in ExecCallers, NEW s \in ExecIds, NEW chars \in BOOLEAN,
           NEW close \in BOOLEAN, WriteStdin(x, s, chars, close)
    PROVE  ExecInv'
<1> DEFINE f == [pc |-> CASE chars -> "write" [] ~chars /\ close -> "close" [] OTHER -> "activity",
                 session |-> s, close |-> close]
           e == exec[s]
<1>1. f \in ExecFrame /\ f.session = s
  BY DEF ExecFrame
<1>2. e \in ExecRecord
  BY DEF ExecInv, ExecShape
<1>4. e.cursor <= e.captured /\ e.captured <= e.written /\ e.written <= MaxOutput[s]
  BY DEF ExecInv, OutputInOrder
<1>5. caller[x].pc # "writing"
  BY DEF WriteStdin, NoExec
<1>6. ExecMoves(x, f, s, e) /\ UNCHANGED <<finished, windows, registry>>
  BY DEF WriteStdin, ExecMoves, ExecInv, ExecShape
<1>7. registry' \subseteq ExecIds
  BY <1>6 DEF ExecInv, ExecShape
<1>8. \A t \in ExecIds : exec[t].lock = x => exec[t].lock = "free"
  BY <1>5, OtherLocks
<1>9. e.cursor = exec[s].cursor /\ e.status = exec[s].status /\ e.lock = exec[s].lock
  OBVIOUS
<1> HIDE DEF f, e
<1> QED
  BY <1>1, <1>2, <1>4, <1>6, <1>7, <1>8, <1>9, OneSessionMoves

(* write_input takes the lock of stdin. *)
LEMMA LockStdinKeeps ==
    ASSUME ExecInv, NEW x \in ExecCallers, LockStdin(x)
    PROVE  ExecInv'
<1> DEFINE s == caller[x].session
           closed == exec[s].stdin = "closed"
           f == IF closed THEN NoExec ELSE [caller[x] EXCEPT !.pc = "writing"]
           e == IF closed THEN exec[s] ELSE [exec[s] EXCEPT !.lock = x]
<1>1. caller[x] # NoExec /\ caller[x].pc = "write"
  BY DEF LockStdin, NoExec
<1>2. /\ caller[x] \in ExecFrame /\ s \in ExecIds /\ exec[s] \in ExecRecord
      /\ exec[s].cursor <= exec[s].captured /\ exec[s].captured <= exec[s].written
      /\ exec[s].written <= MaxOutput[s]
  BY <1>1, CallerFacts
<1>3. f \in ExecFrame /\ (f # NoExec => f.pc = "writing" /\ f.session = s)
  BY <1>2 DEF ExecFrame, NoExec
<1>4. /\ e \in ExecRecord /\ e.cursor = exec[s].cursor /\ e.captured = exec[s].captured
      /\ e.written = exec[s].written /\ e.status = exec[s].status
  BY <1>2, Zenon DEF ExecRecord
<1>5. e.lock # "free" => e.lock = x /\ f.pc = "writing" /\ f.session = s
  BY <1>2, Zenon DEF ExecRecord, ExecFrame, LockStdin
<1>6. ExecMoves(x, f, s, e) /\ UNCHANGED <<finished, windows, registry>>
  BY <1>2 DEF LockStdin, ExecMoves, ExecInv, ExecShape, Returned, CallerAt
<1>7. registry' \subseteq ExecIds
  BY <1>6 DEF ExecInv, ExecShape
<1>8. \A t \in ExecIds : exec[t].lock = x => exec[t].lock = "free"
  BY <1>1, OtherLocks
<1> HIDE DEF f, e, s, closed
<1> QED
  BY <1>2, <1>3, <1>4, <1>5, <1>6, <1>7, <1>8, OneSessionMoves

(* write_input returns, and lets the lock go however the write ended. *)
LEMMA WriteReturnsKeeps ==
    ASSUME ExecInv, NEW x \in ExecCallers, WriteReturns(x)
    PROVE  ExecInv'
<1> DEFINE s == caller[x].session
           runs == exec[s].proc = "running"
           f == IF runs THEN [caller[x] EXCEPT !.pc = IF caller[x].close THEN "close" ELSE "activity"]
                ELSE NoExec
           e == IF runs THEN [exec[s] EXCEPT !.lock = "free"]
                ELSE [exec[s] EXCEPT !.lock = "free", !.stdin = "closed"]
<1>1. caller[x] # NoExec /\ caller[x].pc = "writing"
  BY DEF WriteReturns, NoExec
<1>2. /\ caller[x] \in ExecFrame /\ s \in ExecIds /\ exec[s] \in ExecRecord
      /\ exec[s].cursor <= exec[s].captured /\ exec[s].captured <= exec[s].written
      /\ exec[s].written <= MaxOutput[s]
  BY <1>1, CallerFacts
<1>3. f \in ExecFrame /\ (f # NoExec => f.session = s)
  BY <1>2, Zenon DEF ExecFrame, NoExec
<1>4. /\ e \in ExecRecord /\ e.cursor = exec[s].cursor /\ e.captured = exec[s].captured
      /\ e.written = exec[s].written /\ e.status = exec[s].status /\ e.lock = "free"
  BY <1>2, Zenon DEF ExecRecord
<1>5. exec' = [exec EXCEPT ![s] = e]
  <2>1. exec \in [ExecIds -> ExecRecord]
    BY DEF ExecInv, ExecShape
  <2>2. CASE runs
    BY <1>2, <2>1, <2>2, Zenon DEF WriteReturns
  <2>3. CASE ~runs
    <3>1. exec' = [exec EXCEPT ![s].lock = "free", ![s].stdin = "closed"]
      BY <2>3 DEF WriteReturns
    <3>2. [exec EXCEPT ![s].lock = "free", ![s].stdin = "closed"]
             = [exec EXCEPT ![s] = [exec[s] EXCEPT !.lock = "free", !.stdin = "closed"]]
      BY <1>2, <2>1, Zenon DEF ExecRecord
    <3> QED
      BY <2>3, <3>1, <3>2, Zenon
  <2> QED
    BY <2>2, <2>3
<1>6. caller' = [caller EXCEPT ![x] = f] /\ UNCHANGED <<finished, windows, registry>>
  BY <1>2, Zenon DEF WriteReturns, ExecInv, ExecShape, Returned, CallerAt
<1>7. registry' \subseteq ExecIds
  BY <1>6 DEF ExecInv, ExecShape
<1>8. \A t \in ExecIds \ {s} : exec[t].lock = x => exec[t].lock = "free"
  BY OtherLocks
<1>9. ExecMoves(x, f, s, e)
  BY <1>5, <1>6 DEF ExecMoves
<1> HIDE DEF f, e, s, runs
<1> QED
  BY <1>2, <1>3, <1>4, <1>6, <1>7, <1>8, <1>9, OneSessionMoves

(* close_stdin drops the input. *)
LEMMA CloseStdinKeeps ==
    ASSUME ExecInv, NEW x \in ExecCallers, CloseStdin(x)
    PROVE  ExecInv'
<1> DEFINE s == caller[x].session
           f == [caller[x] EXCEPT !.pc = "activity"]
           e == [exec[s] EXCEPT !.stdin = "closed"]
<1>1. caller[x] # NoExec /\ caller[x].pc = "close"
  BY DEF CloseStdin, NoExec
<1>2. /\ caller[x] \in ExecFrame /\ s \in ExecIds /\ exec[s] \in ExecRecord
      /\ exec[s].cursor <= exec[s].captured /\ exec[s].captured <= exec[s].written
      /\ exec[s].written <= MaxOutput[s]
  BY <1>1, CallerFacts
<1>3. f \in ExecFrame /\ f.session = s
  BY <1>2 DEF ExecFrame
<1>4. /\ e \in ExecRecord /\ e.cursor = exec[s].cursor /\ e.captured = exec[s].captured
      /\ e.written = exec[s].written /\ e.status = exec[s].status /\ e.lock = "free"
  BY <1>2, Zenon DEF ExecRecord, CloseStdin
<1>6. ExecMoves(x, f, s, e) /\ UNCHANGED <<finished, windows, registry>>
  BY <1>2 DEF CloseStdin, ExecMoves, ExecInv, ExecShape, CallerAt
<1>7. registry' \subseteq ExecIds
  BY <1>6 DEF ExecInv, ExecShape
<1>8. \A t \in ExecIds : exec[t].lock = x => exec[t].lock = "free"
  BY <1>1, OtherLocks
<1> HIDE DEF f, e, s
<1> QED
  BY <1>2, <1>3, <1>4, <1>6, <1>7, <1>8, OneSessionMoves

(* The turn is aborted and the tool call dropped. *)
LEMMA ExecDroppedKeeps ==
    ASSUME ExecInv, NEW x \in ExecCallers, ExecDropped(x)
    PROVE  ExecInv'
<1> DEFINE s == caller[x].session
           e == IF caller[x].pc = "writing" THEN [exec[s] EXCEPT !.lock = "free"] ELSE exec[s]
<1>1. caller[x] # NoExec
  BY DEF ExecDropped
<1>2. /\ caller[x] \in ExecFrame /\ s \in ExecIds /\ exec[s] \in ExecRecord
      /\ exec[s].cursor <= exec[s].captured /\ exec[s].captured <= exec[s].written
      /\ exec[s].written <= MaxOutput[s]
  BY <1>1, CallerFacts
<1>3. NoExec \in ExecFrame
  BY DEF ExecFrame, NoExec
<1>4. /\ e \in ExecRecord /\ e.cursor = exec[s].cursor /\ e.captured = exec[s].captured
      /\ e.written = exec[s].written /\ e.status = exec[s].status
  BY <1>2, Zenon DEF ExecRecord
<1>5. e.lock # "free" => e.lock # x /\ e.lock = exec[s].lock
  <2>1. CASE caller[x].pc = "writing"
    BY <1>2, <2>1, Zenon DEF ExecRecord
  <2>2. CASE caller[x].pc # "writing"
    BY <1>2, <2>2, OtherLocks
  <2> QED
    BY <2>1, <2>2
<1>6. ExecMoves(x, NoExec, s, e) /\ UNCHANGED <<finished, windows, registry>>
  BY <1>2, Zenon DEF ExecDropped, ExecMoves, ExecInv, ExecShape, Returned
<1>7. registry' \subseteq ExecIds
  BY <1>6 DEF ExecInv, ExecShape
<1>8. \A t \in ExecIds \ {s} : exec[t].lock = x => exec[t].lock = "free"
  BY OtherLocks
<1> HIDE DEF e, s
<1> QED
  BY <1>2, <1>3, <1>4, <1>5, <1>6, <1>7, <1>8, OneSessionMoves

(* build_session_result takes the next window of the output. *)
LEMMA PollKeeps ==
    ASSUME ExecInv, NEW x \in ExecCallers, Poll(x)
    PROVE  ExecInv'
<1> DEFINE s == caller[x].session
           more == exec[s].cursor < exec[s].captured
           n == IF more THEN exec[s].cursor + 1 ELSE exec[s].cursor
           e == [exec[s] EXCEPT !.cursor = n]
<1>1. caller[x] # NoExec /\ caller[x].pc = "activity"
  BY DEF Poll, NoExec
<1>2. /\ caller[x] \in ExecFrame /\ s \in ExecIds /\ exec[s] \in ExecRecord
      /\ exec[s].cursor <= exec[s].captured /\ exec[s].captured <= exec[s].written
      /\ exec[s].written <= MaxOutput[s]
  BY <1>1, CallerFacts, Zenon
<1>3. exec[s].cursor \in Nat /\ exec[s].captured \in Nat /\ exec[s].written \in Nat
  BY <1>2, Zenon DEF ExecRecord
<1>4. n \in Nat /\ n <= exec[s].captured
  BY <1>2, <1>3
<1>5. /\ e \in ExecRecord /\ e.cursor = n /\ e.captured = exec[s].captured
      /\ e.written = exec[s].written /\ e.status = exec[s].status /\ e.lock = exec[s].lock
  BY <1>2, <1>4, Zenon DEF ExecRecord
<1>6. /\ exec' = [exec EXCEPT ![s] = e] /\ caller' = [caller EXCEPT ![x] = NoExec]
      /\ UNCHANGED <<finished, registry>>
  BY <1>2, Zenon DEF Poll, Slice, Returned, ExecInv, ExecShape
<1>7. windows' = [windows EXCEPT ![s] = IF more THEN @ \cup {Window(exec[s].cursor)} ELSE @]
  <2> DEFINE w == Slice(exec[s])
  <2>1. w.from = exec[s].cursor /\ w.to = n
    BY DEF Slice
  <2>2. windows' = [windows EXCEPT ![s] =
                       IF w.from < w.to THEN @ \cup {[from |-> w.from, to |-> w.to]} ELSE @]
    BY Zenon DEF Poll
  <2> HIDE DEF w
  <2>3. CASE more
    <3>0. n = exec[s].cursor + 1 /\ exec[s].cursor < exec[s].cursor + 1
      BY <1>3, <2>3
    <3>1. w.from < w.to /\ [from |-> w.from, to |-> w.to] = Window(exec[s].cursor)
      BY <2>1, <3>0, Zenon DEF Window
    <3> QED
      BY <2>2, <2>3, <3>1, Zenon
  <2>4. CASE ~more
    <3>1. n = exec[s].cursor /\ ~(exec[s].cursor < exec[s].cursor)
      BY <1>3, <2>4
    <3>2. ~(w.from < w.to)
      BY <2>1, <3>1, Zenon
    <3> QED
      BY <2>2, <2>4, <3>2, Zenon
  <2> QED
    BY <2>3, <2>4, Zenon
<1>8. \A t \in ExecIds : exec'[t] = IF t = s THEN e ELSE exec[t]
  BY <1>6 DEF ExecInv, ExecShape
<1>9. \A y \in ExecCallers : caller'[y] = IF y = x THEN NoExec ELSE caller[y]
  BY <1>6 DEF ExecInv, ExecShape
<1> HIDE DEF e, s, n
<1>10. ExecShape'
  <2>1. exec' \in [ExecIds -> ExecRecord]
    BY <1>2, <1>5, <1>6 DEF ExecInv, ExecShape
  <2>2. NoExec \in ExecFrame
    BY DEF ExecFrame, NoExec
  <2>3. caller' \in [ExecCallers -> ExecFrame]
    BY <1>6, <2>2 DEF ExecInv, ExecShape
  <2>4. Window(exec[s].cursor) \in [from: Nat, to: Nat]
    BY <1>3 DEF Window
  <2>5. windows' \in [ExecIds -> SUBSET [from: Nat, to: Nat]]
    BY <1>7, <2>4, Zenon DEF ExecInv, ExecShape
  <2> QED
    BY <1>6, <1>9, <2>1, <2>3, <2>5 DEF ExecInv, ExecShape
<1>11. OutputInOrder'
  BY <1>2, <1>4, <1>5, <1>8 DEF ExecInv, OutputInOrder
<1>12. WindowsUpToCursor'
  <2> SUFFICES ASSUME NEW t \in ExecIds
               PROVE  windows'[t] = {Window(i) : i \in 0..(exec'[t].cursor - 1)}
    BY DEF WindowsUpToCursor
  <2>1. windows[t] = {Window(i) : i \in 0..(exec[t].cursor - 1)}
    BY DEF ExecInv, WindowsUpToCursor
  <2>2. windows'[t] = IF t = s /\ more THEN windows[t] \cup {Window(exec[s].cursor)} ELSE windows[t]
    BY <1>7, Zenon DEF ExecInv, ExecShape
  <2>3. CASE t = s /\ more
    <3>1. exec'[t].cursor = exec[t].cursor + 1
      BY <1>5, <1>8, <2>3 DEF n
    <3>2. 0..exec[t].cursor = (0..(exec[t].cursor - 1)) \cup {exec[t].cursor}
      BY <1>3, <2>3
    <3>3. exec'[t].cursor - 1 = exec[t].cursor
      BY <1>3, <2>3, <3>1
    <3> QED
      BY <2>1, <2>2, <2>3, <3>2, <3>3
  <2>4. CASE ~(t = s /\ more)
    <3>1. exec'[t].cursor = exec[t].cursor
      BY <1>5, <1>8, <2>4 DEF n
    <3> QED
      BY <2>1, <2>2, <2>4, <3>1
  <2> QED
    BY <2>3, <2>4
<1>13. StdinLockIsLive'
  <2> SUFFICES ASSUME NEW t \in ExecIds, exec'[t].lock # "free"
               PROVE  caller'[exec'[t].lock].pc = "writing" /\ caller'[exec'[t].lock].session = t
    BY DEF StdinLockIsLive
  <2>1. exec'[t].lock = exec[t].lock
    BY <1>5, <1>8
  <2>2. /\ exec[t].lock \in ExecCallers /\ caller[exec[t].lock].pc = "writing"
        /\ caller[exec[t].lock].session = t
    BY <2>1 DEF ExecInv, ExecShape, ExecRecord, StdinLockIsLive
  <2> QED
    BY <1>1, <1>9, <2>1, <2>2, Zenon
<1>14. FinishedAreCompleted'
  BY <1>5, <1>6, <1>8 DEF ExecInv, ExecShape, FinishedAreCompleted
<1> QED
  BY <1>10, <1>11, <1>12, <1>13, <1>14 DEF ExecInv

(* The process of a session and the tasks that capture its output and wait for it *)
LEMMA SessionWorkKeeps ==
    ASSUME ExecInv, NEW s \in ExecIds,
           ProcessWrites(s) \/ ProcessExits(s) \/ Capture(s) \/ Complete(s)
    PROVE  ExecInv'
<1>1. exec[s] \in ExecRecord /\ exec \in [ExecIds -> ExecRecord] /\ MaxOutput[s] \in Nat
  BY ExecAssumption DEF ExecInv, ExecShape
<1>2. /\ exec[s].cursor <= exec[s].captured /\ exec[s].captured <= exec[s].written
      /\ exec[s].written <= MaxOutput[s]
  BY DEF ExecInv, OutputInOrder
<1>3. exec[s].cursor \in Nat /\ exec[s].captured \in Nat /\ exec[s].written \in Nat
  BY <1>1 DEF ExecRecord
<1>4. CASE ProcessWrites(s)
  <2> DEFINE e == [exec[s] EXCEPT !.written = @ + 1]
  <2>1. /\ e \in ExecRecord /\ e.cursor = exec[s].cursor /\ e.captured = exec[s].captured
        /\ e.written = exec[s].written + 1 /\ e.status = exec[s].status /\ e.lock = exec[s].lock
    BY <1>1, <1>3 DEF ExecRecord
  <2>2. /\ exec' = [exec EXCEPT ![s] = e] /\ UNCHANGED <<caller, registry, windows, finished>>
        /\ exec[s].written < MaxOutput[s]
    BY <1>1, <1>4 DEF ProcessWrites
  <2> HIDE DEF e
  <2>3. e.captured <= e.written /\ e.written <= MaxOutput[s]
    BY <1>1, <1>2, <1>3, <2>1, <2>2
  <2> QED
    BY <1>2, <2>1, <2>2, <2>3, SessionWorks, Zenon
<1>5. CASE ProcessExits(s)
  <2> DEFINE e == [exec[s] EXCEPT !.proc = "exited"]
  <2>1. /\ e \in ExecRecord /\ e.cursor = exec[s].cursor /\ e.captured = exec[s].captured
        /\ e.written = exec[s].written /\ e.status = exec[s].status /\ e.lock = exec[s].lock
    BY <1>1 DEF ExecRecord
  <2>2. exec' = [exec EXCEPT ![s] = e] /\ UNCHANGED <<caller, registry, windows, finished>>
    BY <1>1, <1>5 DEF ProcessExits
  <2> HIDE DEF e
  <2> QED
    BY <1>2, <2>1, <2>2, SessionWorks, Zenon
<1>6. CASE Capture(s)
  <2>1. PICK n \in (exec[s].captured + 1)..exec[s].written :
           exec' = [exec EXCEPT ![s].captured = n]
    BY <1>6, Zenon DEF Capture
  <2> DEFINE e == [exec[s] EXCEPT !.captured = n]
  <2>2. n \in Nat /\ exec[s].cursor <= n /\ n <= exec[s].written
    BY <1>2, <1>3
  <2>3. /\ e \in ExecRecord /\ e.cursor = exec[s].cursor /\ e.captured = n
        /\ e.written = exec[s].written /\ e.status = exec[s].status /\ e.lock = exec[s].lock
    BY <1>1, <2>2 DEF ExecRecord
  <2>4. exec' = [exec EXCEPT ![s] = e] /\ UNCHANGED <<caller, registry, windows, finished>>
    BY <1>1, <1>6, <2>1, Zenon DEF Capture
  <2> HIDE DEF e
  <2> QED
    BY <1>2, <2>2, <2>3, <2>4, SessionWorks, Zenon
<1>7. CASE Complete(s)
  <2> DEFINE e == [exec[s] EXCEPT !.status = "completed"]
  <2>1. /\ e \in ExecRecord /\ e.cursor = exec[s].cursor /\ e.captured = exec[s].captured
        /\ e.written = exec[s].written /\ e.status = "completed" /\ e.lock = exec[s].lock
    BY <1>1 DEF ExecRecord
  <2>2. /\ exec' = [exec EXCEPT ![s] = e] /\ UNCHANGED <<caller, registry, windows>>
        /\ finished' = Append(finished, s)
    BY <1>1, <1>7 DEF Complete
  <2> HIDE DEF e
  <2> QED
    BY <1>2, <2>1, <2>2, SessionWorks, Zenon
<1> QED
  BY <1>4, <1>5, <1>6, <1>7

(* No step of a caller, of a process or of the tasks breaks the invariant. *)
LEMMA ExecStepKeeps == ExecInv /\ [ExecNext]_execVars => ExecInv'
<1> SUFFICES ASSUME ExecInv, [ExecNext]_execVars PROVE ExecInv'
  OBVIOUS
<1>1. ASSUME NEW x \in ExecCallers, NEW s \in ExecIds, ExecCommand(x, s) PROVE ExecInv'
  BY <1>1, ExecCommandKeeps
<1>2. ASSUME NEW x \in ExecCallers, NEW s \in ExecIds, NEW chars \in BOOLEAN,
             NEW close \in BOOLEAN, WriteStdin(x, s, chars, close)
      PROVE  ExecInv'
  BY <1>2, WriteStdinKeeps
<1>3. ASSUME NEW x \in ExecCallers, LockStdin(x) PROVE ExecInv'
  BY <1>3, LockStdinKeeps
<1>4. ASSUME NEW x \in ExecCallers, WriteReturns(x) PROVE ExecInv'
  BY <1>4, WriteReturnsKeeps
<1>5. ASSUME NEW x \in ExecCallers, CloseStdin(x) PROVE ExecInv'
  BY <1>5, CloseStdinKeeps
<1>6. ASSUME NEW x \in ExecCallers, Poll(x) PROVE ExecInv'
  BY <1>6, PollKeeps
<1>7. ASSUME NEW x \in ExecCallers, ExecDropped(x) PROVE ExecInv'
  BY <1>7, ExecDroppedKeeps
<1>8. ASSUME NEW s \in ExecIds, ProcessWrites(s) \/ ProcessExits(s) \/ Capture(s) \/ Complete(s)
      PROVE  ExecInv'
  BY <1>8, SessionWorkKeeps
<1>9. CASE UNCHANGED execVars
  BY <1>9 DEF execVars, ExecInv, ExecShape, OutputInOrder, WindowsUpToCursor, StdinLockIsLive,
              FinishedAreCompleted
<1> QED
  BY <1>1, <1>2, <1>3, <1>4, <1>5, <1>6, <1>7, <1>8, <1>9 DEF ExecNext

(* The invariant holds in every state the tool can reach. *)
LEMMA ExecAlways == ExecSpec => []ExecInv
  BY ExecInitially, ExecStepKeeps, PTL DEF ExecSpec

(* Sessions and calls keep their shapes, whatever the callers do. *)
THEOREM ExecTypes == ExecSpec => []ExecTypeOK
<1>1. ExecInv => ExecTypeOK
  <2> SUFFICES ASSUME ExecInv PROVE ExecTypeOK
    OBVIOUS
  <2>1. Range(finished) \subseteq ExecIds
    BY DEF ExecInv, ExecShape, Range
  <2> QED
    BY <2>1 DEF ExecInv, ExecShape, OutputInOrder, ExecTypeOK, ExecRecord, ExecFrame
<1> QED
  BY <1>1, ExecAlways, PTL

(* For any number of sessions and callers, and any amount of output, the windows the
   pollers get tile the output from its start (build_session_result). *)
THEOREM OutputWindowsTile == ExecSpec => []WindowsTile
<1>1. ExecInv => WindowsTile
  <2> SUFFICES ASSUME ExecInv, NEW s \in ExecIds, NEW n \in 1..exec[s].cursor
               PROVE  Cardinality({w \in windows[s] : w.from < n /\ n <= w.to}) = 1
    BY DEF ExecInv, OutputInOrder, WindowsTile
  <2>1. exec[s].cursor \in Nat
    BY DEF ExecInv, ExecShape, ExecRecord
  <2>2. windows[s] = {Window(i) : i \in 0..(exec[s].cursor - 1)}
    BY DEF ExecInv, WindowsUpToCursor
  <2>3. Window(n - 1) \in windows[s] /\ (n - 1) < n /\ n <= (n - 1) + 1
    BY <2>1, <2>2
  <2>4. \A i \in 0..(exec[s].cursor - 1) :
           Window(i).from < n /\ n <= Window(i).to => i = n - 1
    BY <2>1 DEF Window
  <2>5. Window(n - 1).from = n - 1 /\ Window(n - 1).to = (n - 1) + 1
    BY DEF Window
  <2>6. {w \in windows[s] : w.from < n /\ n <= w.to} = {Window(n - 1)}
    BY <2>2, <2>3, <2>4, <2>5
  <2> QED
    BY <2>6, FS_Singleton, Zenon
<1> QED
  BY <1>1, ExecAlways, PTL

(* The lock of a session's input is never left behind by a call that has ended,
   failed or been dropped (write_input). *)
THEOREM StdinLocksAreLive == ExecSpec => []StdinLockIsLive
<1>1. ExecInv => StdinLockIsLive
  BY DEF ExecInv
<1> QED
  BY <1>1, ExecAlways, PTL

(* Only completed sessions are pruned, whatever the limit (prune_completed_sessions). *)
THEOREM OnlyCompletedArePruned == ExecSpec => PrunesOnlyCompleted
<1>1. ExecInv /\ [ExecNext]_execVars
         => [\A s \in registry \ registry' : exec[s].status = "completed"]_execVars
  <2> SUFFICES ASSUME ExecInv, ExecNext, NEW s \in registry \ registry'
               PROVE  exec[s].status = "completed"
    OBVIOUS
  <2>1. PICK x \in ExecCallers, t \in ExecIds : ExecCommand(x, t)
    BY Zenon DEF ExecNext, WriteStdin, LockStdin, WriteReturns, CloseStdin, Poll, ExecDropped,
           ProcessWrites, ProcessExits, Capture, Complete
  <2>2. s \in Pruned
    BY <2>1 DEF ExecCommand
  <2>3. PICK i \in DOMAIN finished : s = finished[i]
    BY <2>2, Zenon DEF Pruned
  <2> QED
    BY <2>3 DEF ExecInv, FinishedAreCompleted
<1> QED
  BY <1>1, ExecAlways, PTL DEF ExecSpec, PrunesOnlyCompleted
=============================================================================
