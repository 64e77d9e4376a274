--------------------------- MODULE MCGenerationLoop ---------------------------
(* Small instances of GenerationLoop.  Against the baseline, better is       *)
(* promoted, reckless has the better score but gives up too much kick F1,   *)
(* and best beats both.                                                     *)
EXTENDS GenerationLoop

base     == [direction |-> 700, joint |-> 550, kick |-> 400]
better   == [direction |-> 690, joint |-> 570, kick |-> 390]
reckless == [direction |-> 700, joint |-> 620, kick |-> 340]
best     == [direction |-> 700, joint |-> 600, kick |-> 430]

MCMetrics == {base, better, reckless, best}
MCMetricsSmall == {base, better, best}
MCBaseline == base
=============================================================================
