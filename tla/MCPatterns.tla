----------------------------- MODULE MCPatterns -----------------------------
(* A pattern as it is typed, and the ticks its slots start on: either moves  *)
(* only while the other is as it was at the start.                           *)
EXTENDS SeqPattern, SlotGrid

SomeRates == {<<1, 1>>, <<3, 1>>, <<1, 2>>, <<1, 3>>}
AGrid == /\ tick = Min(WrittenAt) /\ swing = Min(Swings)
         /\ grid = [div |-> 1, rnum |-> 1, rden |-> 1, slots |-> Min(Slots), count |-> 0]
Init == PatternInit /\ GridInit
Next == \/ PatternNext /\ AGrid /\ GridInit /\ UNCHANGED gridVars
        \/ GridNext /\ PatternInit /\ UNCHANGED patternVars
Spec == Init /\ [][Next]_<<patternVars, gridVars>>
=============================================================================
