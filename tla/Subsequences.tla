---------------------------- MODULE Subsequences ----------------------------
(* The elements of a sequence that lie in a set, in their order. *)
EXTENDS Naturals, Sequences

Kept(q, T) ==
    LET F[n \in 0..Len(q)] ==
            IF n = 0 THEN <<>> ELSE IF q[n] \in T THEN Append(F[n - 1], q[n]) ELSE F[n - 1]
    IN  F[Len(q)]
=============================================================================
