----------------------------- MODULE MCJournal -----------------------------
(***************************************************************************)
(* Small partitions for TLC: two documents, texts of no, one and two       *)
(* sectors of payload, four sectors.  Twice, side by side: with room in    *)
(* the live table for every name, and (Full) with room for one, for the    *)
(* steps only a full table takes; what holds of a full table is proved for *)
(* tables of any size (JournalProofs).                                     *)
(***************************************************************************)
EXTENDS Journal, TLC

CONSTANTS scratch, song, garbled, empty, short, long, none

MCNames  == {scratch, song}
MCTexts  == {empty, short, long}
MCChunks == (empty :> 0) @@ (short :> 1) @@ (long :> 2)

VARIABLES fFlash, fUsed, fLive, fSeq, fPc, fJob, fK, fOff, fBest
fullVars == <<fFlash, fUsed, fLive, fSeq, fPc, fJob, fK, fOff, fBest>>
Full == INSTANCE Journal WITH
    MaxNames <- 1, flash <- fFlash, used <- fUsed, live <- fLive, seq <- fSeq,
    pc <- fPc, job <- fJob, k <- fK, off <- fOff, best <- fBest

BothInit == Init /\ Full!Init
BothNext ==
    \/ Full!Init /\ UNCHANGED fullVars /\ Next
    \/ Init /\ UNCHANGED vars /\ Full!Next
BothSpec == BothInit /\ [][BothNext]_<<vars, fullVars>>

=============================================================================
