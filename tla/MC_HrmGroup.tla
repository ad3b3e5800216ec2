---------------------------- MODULE MC_HrmGroup ----------------------------
(* Model-checking instance of HrmGroup: a handful of threads, one or two  *)
(* group ids and a small counter region.                                  *)
EXTENDS HrmGroup

CONSTANTS t1, t2

MCTasks == {t1, t2}

=============================================================================
