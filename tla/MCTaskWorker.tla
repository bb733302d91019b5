---------------------------- MODULE MCTaskWorker ----------------------------
(* Small instances of TaskWorker for TLC. *)
EXTENDS TaskWorker, TLC

CONSTANTS t1, t2, t3

TwoTasks   == {t1, t2}
ThreeTasks == {t1, t2, t3}
OneSlow    == {t1}
TwoInstants == 1..2

\* Tasks that are not slow are interchangeable.
TaskSymmetry == Permutations(Tasks \ Slow)
=============================================================================
