----------------------------- MODULE LeasePaths -----------------------------
(* Normalized absolute paths, as sequences of components below "/", and the
   relation crates/runtime/src/write_lease.rs calls a conflict: one path is
   the other or a directory above it. *)
EXTENDS Sequences, Naturals

Under(p, q) == Len(q) <= Len(p) /\ \A i \in 1..Len(q) : p[i] = q[i]
Overlap(p, q) == Under(p, q) \/ Under(q, p)
=============================================================================
