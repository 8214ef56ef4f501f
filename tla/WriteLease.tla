----------------------------- MODULE WriteLease -----------------------------
(***************************************************************************)
(* What crates/runtime/src/write_lease.rs promises to the subagent         *)
(* executor and to the file tools: a table of the paths each agent may     *)
(* write, in which a claim is granted only when no other agent holds the   *)
(* same path, a directory above it or a path below it.                     *)
(*                                                                         *)
(* The trie the code answers from is module LeaseIndex, which implements   *)
(* this specification.  A path is the sequence of its components below     *)
(* "/"; the manager's RwLock makes every operation one step.               *)
(***************************************************************************)
EXTENDS LeasePaths

CONSTANTS
    Agents,     \* AgentId
    Paths       \* normalized absolute paths

VARIABLES
    leases,     \* leases[a]: the paths agent a holds
    last        \* the last call and its answer

vars == <<leases, last>>

None == "none"

(* The agents other than a whose leases stand in the way of path p. *)
Blockers(a, p) ==
    {b \in Agents \ {a} : \E q \in leases[b] : Overlap(p, q)}

Claimable(a, P) == \A p \in P : Blockers(a, p) = {}

Answer(op, a, P, blocker) ==
    last' = [op |-> op, agent |-> a, paths |-> P, blocker |-> blocker]

-----------------------------------------------------------------------------
Init ==
    /\ leases = [a \in Agents |-> {}]
    /\ last = [op |-> None, agent |-> None, paths |-> {}, blocker |-> None]

(* WriteLeaseManager::claim, all paths free: every path is added. *)
Claim(a, P) ==
    /\ Answer("claim", a, P, None)
    /\ Claimable(a, P)
    /\ leases' = [leases EXCEPT ![a] = @ \cup P]

(* WriteLeaseManager::release. *)
Release(a) ==
    /\ Answer("release", a, {}, None)
    /\ leases' = [leases EXCEPT ![a] = {}]

(* ToolWriteGuard::assert_write_paths, called by a file tool of agent a. *)
Write(a, P) ==
    /\ Answer("write", a, P, None)
    /\ Claimable(a, P)
    /\ UNCHANGED leases

(* A claim or a write that meets a foreign lease is refused as a whole, and
   the error names an agent that really is in the way. *)
Refuse(op, a, P) ==
    /\ \E b \in Agents : Answer(op, a, P, b) /\ \E p \in P : b \in Blockers(a, p)
    /\ UNCHANGED leases

Next ==
    \E a \in Agents :
        \/ Release(a)
        \/ \E P \in SUBSET Paths :
              \/ Claim(a, P)
              \/ Write(a, P)
              \/ Refuse("claim", a, P)
              \/ Refuse("write", a, P)

Spec == Init /\ [][Next]_vars

-----------------------------------------------------------------------------
TypeOK ==
    /\ leases \in [Agents -> SUBSET Paths]
    /\ last.blocker \in Agents \cup {None}

(* No two agents ever hold leases on overlapping paths: the check of claim
   and its insertion leave no way to two owners of one file, whatever claims
   and releases came before. *)
Exclusive ==
    \A a, b \in Agents : \A p \in leases[a] : \A q \in leases[b] :
        Overlap(p, q) => a = b
=============================================================================
