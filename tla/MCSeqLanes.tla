----------------------------- MODULE MCSeqLanes -----------------------------
(* Small instances of SeqLanes.                                            *)
EXTENDS SeqLanes, TLC

CONSTANTS kick, disc, rim

Half  == [id |-> "half", slots |-> 1, rate |-> 2, count |-> 0]
Once  == [id |-> "once", slots |-> 2, rate |-> 1, count |-> 1]

LoopAndCount == {Half, Once}
OnlyLoop == {Half}
Alike == Permutations(Names)
=============================================================================
