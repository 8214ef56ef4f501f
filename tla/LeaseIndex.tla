----------------------------- MODULE LeaseIndex -----------------------------
(***************************************************************************)
(* The index behind WriteLeaseManager (crates/runtime/src/write_lease.rs): *)
(* `owners` lists the paths of each agent, `trie` answers the conflict     *)
(* questions.  The trie is a function from the paths of its existing nodes *)
(* to the node's owner and its subtree_owner_counts; a child exists when   *)
(* its path is in the domain.  The node of "/" is the empty path (the node *)
(* above it, reached only by relative paths, always agrees with it).       *)
(* Callers pass raw paths, which are normalized first.                     *)
(***************************************************************************)
EXTENDS Integers, FiniteSets, SequencesExt

CONSTANTS
    Holders,    \* AgentId
    RawPaths,   \* the absolute paths callers pass
    MaxClaim    \* most paths in one call

VARIABLES owners, trie, last

indexVars == <<owners, trie, last>>

Unowned == "none"
Cur == -1       \* Component::CurDir
Parent == -2    \* Component::ParentDir

(* A raw path is a sequence of names (naturals), "." and "..". *)
ASSUME IndexAssumption ==
    /\ RawPaths \subseteq Seq(Nat \cup {Cur, Parent})
    /\ MaxClaim \in Nat

(* normalize_path: "." is dropped, ".." pops, and popping "/" does nothing. *)
Normalize(raw) ==
    LET step(path, c) == CASE c = Cur    -> path
                           [] c = Parent -> IF path = <<>> THEN path ELSE Front(path)
                           [] OTHER      -> Append(path, c)
    IN  FoldLeft(step, <<>>, raw)

Paths == {Normalize(raw) : raw \in RawPaths}

EmptyNode == [owner |-> Unowned, counts |-> [a \in Holders |-> 0]]

Vacant(node) == node = EmptyNode

(* Fault: an owner of a single path below is overlooked. *)
HasForeignOwners(node, a) == \E b \in Holders \ {a} : node.counts[b] > 1

(* An absent subtree_owner_counts entry is a count of 0. *)
HasForeignOwner(node, a) == \E b \in Holders \ {a} : node.counts[b] > 0

ForeignOwner(node, a) == node.owner \notin {a, Unowned}

-----------------------------------------------------------------------------
(* The nodes find_conflict stops at while it walks down from the root: it
   goes on only while children exist and no foreign owner was met. *)
OwnersOnPath(a, path) ==
    {q \in Prefixes(path) :
        /\ Prefixes(q) \subseteq DOMAIN trie
        /\ ForeignOwner(trie[q], a)
        /\ \A r \in Prefixes(q) \ {q} : ~ForeignOwner(trie[r], a)}

(* The nodes find_conflicting_descendant can stop at below node: it enters a
   child only when the child's counts show a foreign owner.  The order of
   siblings is left open. *)
OwnersBelow(a, node) ==
    {q \in DOMAIN trie :
        /\ IsStrictPrefix(node, q)
        /\ ForeignOwner(trie[q], a)
        /\ \A r \in Prefixes(q) :
              IsPrefix(node, r) => /\ HasForeignOwner(trie[r], a)
                                   /\ r \notin {q, node} => ~ForeignOwner(trie[r], a)}

(* LeaseTrieNode::find_conflict: the paths it may report. *)
FindConflict(a, path) ==
    IF OwnersOnPath(a, path) # {} \/ path \notin DOMAIN trie
    THEN OwnersOnPath(a, path)
    ELSE OwnersBelow(a, path)

(* LeaseTrieNode::insert: one more path of a below every node on the way. *)
TrieInsert(t, a, path) ==
    [q \in DOMAIN t \cup Prefixes(path) |->
        LET node == IF q \in DOMAIN t THEN t[q] ELSE EmptyNode
        IN  IF q \notin Prefixes(path) THEN node
            ELSE [owner  |-> IF q = path THEN a ELSE node.owner,
                  counts |-> [node.counts EXCEPT ![a] = @ + 1]]]

(* LeaseTrieNode::remove: the counts along the way go down, the owner is
   cleared at the end, and nodes left empty are pruned on the way back. *)
TrieRemove(t, a, path) ==
    LET dec(n) == IF n > 0 THEN n - 1 ELSE 0
        cleared == [q \in DOMAIN t |->
            IF q \notin Prefixes(path) THEN t[q]
            ELSE [owner  |-> IF q = path THEN Unowned ELSE t[q].owner,
                  counts |-> [t[q].counts EXCEPT ![a] = dec(@)]]]
        pruned == {q \in Prefixes(path) \ {<<>>} :
            \A r \in DOMAIN t : IsPrefix(q, r) =>
                r \in Prefixes(path) /\ Vacant(cleared[r])}
    IN  Restrict(cleared, DOMAIN t \ pruned)

(* Fault: a path the agent already owns is counted again. *)
InsertAgain(a, P) ==
    /\ owners' = [owners EXCEPT ![a] = @ \cup P]
    /\ trie' = FoldSet(LAMBDA p, t : TrieInsert(t, a, p), trie, P)

(* LeaseIndex::insert: a path the agent already owns is skipped. *)
InsertAll(a, P) ==
    /\ owners' = [owners EXCEPT ![a] = @ \cup P]
    /\ trie' = FoldSet(LAMBDA p, t : TrieInsert(t, a, p), trie, P \ owners[a])

Answer(op, a, P, blocker) ==
    last' = [op |-> op, agent |-> a, paths |-> P, blocker |-> blocker]

-----------------------------------------------------------------------------
IndexInit ==
    /\ owners = [a \in Holders |-> {}]
    /\ trie = (<<>> :> EmptyNode)
    /\ last = [op |-> Unowned, agent |-> Unowned, paths |-> {}, blocker |-> Unowned]

(* WriteLeaseManager::claim: every path is checked before the first insert. *)
Claim(a, P) ==
    /\ \A p \in P : FindConflict(a, p) = {}
    /\ InsertAll(a, P)
    /\ Answer("claim", a, P, Unowned)

(* LeaseIndex::release: forget the agent's paths and remove each one. *)
Release(a) ==
    /\ owners' = [owners EXCEPT ![a] = {}]
    /\ trie' = FoldSet(LAMBDA p, t : TrieRemove(t, a, p), trie, owners[a])
    /\ Answer("release", a, {}, Unowned)

(* ToolWriteGuard::assert_write_paths for an identified agent. *)
Write(a, P) ==
    /\ \A p \in P : FindConflict(a, p) = {}
    /\ UNCHANGED <<owners, trie>>
    /\ Answer("write", a, P, Unowned)

(* claim and assert_write_paths return the first conflict they find. *)
Refuse(op, a, P) ==
    /\ \E p \in P : \E q \in FindConflict(a, p) : Answer(op, a, P, trie[q].owner)
    /\ UNCHANGED <<owners, trie>>

PathSets == {P \in SUBSET Paths : Cardinality(P) <= MaxClaim}

IndexNext ==
    \E a \in Holders :
        \/ Release(a)
        \/ \E P \in PathSets :
              \/ Claim(a, P)
              \/ Write(a, P)
              \/ Refuse("claim", a, P)
              \/ Refuse("write", a, P)

IndexSpec == IndexInit /\ [][IndexNext]_indexVars

-----------------------------------------------------------------------------
(* The trie and the owner table tell the same story after any history of
   claims and releases: a node is owned by the agent that lists its path, its
   counts are the numbers of leases at or below it, and no node outlives the
   last lease below it.  The pruned descent of find_conflicting_descendant is
   right only because of this. *)
IndexConsistent ==
    /\ DOMAIN trie = {<<>>} \cup UNION {Prefixes(p) : p \in UNION Range(owners)}
    /\ \A q \in DOMAIN trie : \A a \in Holders :
          /\ trie[q].owner = a <=> q \in owners[a]
          /\ trie[q].counts[a] = Cardinality({p \in owners[a] : IsPrefix(q, p)})

(* The trie answers every claim and every write check as the table of leases
   would: the index implements the write lease specification (its Spec, with the
   steps that stutter told apart first). *)
Leases == INSTANCE WriteLease WITH Agents <- Holders, leases <- owners
ImplementsWriteLease == Leases!Init /\ [][UNCHANGED Leases!vars \/ Leases!Next]_Leases!vars
=============================================================================
