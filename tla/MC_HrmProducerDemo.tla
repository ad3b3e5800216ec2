------------------------- MODULE MC_HrmProducerDemo -------------------------
(* Model-checking instance of HrmProducerDemo: main and two workers        *)
(* (producer -t 2).                                                         *)
EXTENDS HrmProducerDemo

CONSTANTS w1, w2

MCWorkers == {w1, w2}

=============================================================================
