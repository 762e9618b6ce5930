----------------------------- MODULE MCSequencer -----------------------------
(* What keeps the deck in time: the clock and the note-offs, on small         *)
(* instances: periods of two and three moments, one lane of two channels and  *)
(* a queue that overflows. Neither model reads the other's state, so one run  *)
(* checks them side by side: each moves only while the other is as it was at  *)
(* the start. The queue that keeps up, where what must happen in the end is   *)
(* asked, is in MCSettles.                                                    *)
EXTENDS SeqClock, NoteOffs

CONSTANTS none, off, l1, l2
TwoTempos == {2, 3}
LateOrEarly == {-1, 1}
AheadOrBehind == {-1, 2}

AllInit == Init /\ OffsInit
ClockWaits == Init /\ UNCHANGED vars
OffsWait == OffsInit /\ UNCHANGED offsVars

AllNext ==
    \/ OffsWait /\ Next
    \/ ClockWaits /\ OffsNext
allVars == <<vars, offsVars>>
AllSpec == AllInit /\ [][AllNext]_allVars
==============================================================================
