-------------------------- MODULE MCSnapshotStore --------------------------
(* SnapshotStore for TLC: the jobs are interchangeable.                    *)
EXTENDS SnapshotStore, TLC

WorkerSymmetry == Permutations(Workers)

=============================================================================
