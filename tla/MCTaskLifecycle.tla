-------------------------- MODULE MCTaskLifecycle --------------------------
(* Small instances of TaskLifecycle for TLC. Workers are interchangeable:   *)
(* the symmetry is used by the runs that check no temporal property with    *)
(* fairness.                                                                *)
EXTENDS TaskLifecycle, TLC

CONSTANTS paid, free, w1, w2

PaidTask == {paid}
BothTasks == {paid, free}
Workers == {w1, w2}
WorkerSymmetry == Permutations(Workers)
=============================================================================
