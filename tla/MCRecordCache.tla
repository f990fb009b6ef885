---------------------------- MODULE MCRecordCache ----------------------------
(* Finite values for the constants of RecordCache. *)
EXTENDS RecordCache, TLC

CONSTANTS loop, ui

\* Sound for safety: no action distinguishes two contents, syncers or workers.
Symmetry == Permutations(Content) \cup Permutations(Syncer) \cup Permutations(Worker)

OneZone == [r \in Record |-> 1]
\* Every record in zone 2, and a zone in front of it that holds none.
EmptyZoneInFront == [r \in Record |-> 2]
=============================================================================
