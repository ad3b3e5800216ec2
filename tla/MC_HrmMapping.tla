--------------------------- MODULE MC_HrmMapping ---------------------------
(* Two threads of one process and one thread of another. *)
EXTENDS HrmMapping, TLC

CONSTANTS t1, t2, t3, p1, p2

MCThr == {t1, t2, t3}
MCProcs == {p1, p2}
MCTgid == (t1 :> p1) @@ (t2 :> p1) @@ (t3 :> p2)

=============================================================================
