------------------------- MODULE MCSubagentExecutor -------------------------
(* The instances: a child and a dependent of it, a single child, and two batches
   of which the second wants a file in the first one's directory. *)
EXTENDS SubagentExecutor, TLC

CONSTANTS a1, a2, a3

Pair == {a1, a2}
Solo == {a1}
Trio == {a1, a2, a3}

OneBatch == << <<a1, a2>> >>
SoloBatch == << <<a1>> >>
TwoBatches == << <<a1>>, <<a2, a3>> >>

Chain == (a1 :> {} @@ a2 :> {a1})
ChainedBatch == (a1 :> {} @@ a2 :> {} @@ a3 :> {a2})
Loose == [x \in Agents |-> {}]

Disjoint == (a1 :> {<<1>>} @@ a2 :> {<<2>>})
Nested == (a1 :> {<<1>>} @@ a2 :> {<<2>>} @@ a3 :> {<<1, 1>>})
SoloFile == (a1 :> {<<1>>})
=============================================================================
