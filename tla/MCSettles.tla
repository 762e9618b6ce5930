------------------------------ MODULE MCSettles ------------------------------
(* What must happen in the end, on small instances side by side: the restart  *)
(* and the trial of USB MIDI mode, the panel's rest, the buffers that are     *)
(* filed, the notes that end. None of them reads another's state: `turn` says *)
(* whose behaviour it is, and the others stay as at the start.                *)
EXTENDS BootDesk, PanelRest

CONSTANTS scratch, out, song, none, l1, l2, noNote

VARIABLES turn,
          fSlot, fCur, fArchive, fPhase, fAt, fWas, fFailed, fPlaying,
          nOffs, nPlaying, nQueue, nHeld, nChan, nTicking, nEd, nDestOn, nSounding, nIntact
Filing == INSTANCE DocBuffers WITH
    DocNames <- {scratch, out, song}, NoName <- scratch, Out <- out,
    Stored <- [n \in {scratch, out, song} |-> n], MaxBuffers <- 2, MaxDocs <- 2, MaxVer <- 1,
    Restarts <- TRUE, ReadFails <- FALSE, MallocFails <- FALSE, NoText <- none,
    slot <- fSlot, cur <- fCur, archive <- fArchive, phase <- fPhase, at <- fAt, was <- fWas,
    failed <- fFailed, playing <- fPlaying
KeepsUp == INSTANCE NoteOffs WITH
    Lanes <- {l1, l2}, NChans <- 1, NOffs <- 1, Cap <- 2, Keep <- 0, Sync <- TRUE,
    KeepsUp <- TRUE, Switches <- FALSE, Rebinds <- FALSE, NoNote <- noNote,
    offs <- nOffs, playing <- nPlaying, queue <- nQueue, held <- nHeld, chan <- nChan,
    ticking <- nTicking, ed <- nEd, destOn <- nDestOn, sounding <- nSounding, intact <- nIntact
fVars == <<fSlot, fCur, fArchive, fPhase, fAt, fWas, fFailed, fPlaying>>
nVars == <<nOffs, nPlaying, nQueue, nHeld, nChan, nTicking, nEd, nDestOn, nSounding, nIntact>>
allVars == <<turn, bootVars, restVars, fVars, nVars>>

Turns == {"boot", "rest", "filing", "notes"}
Init ==
    /\ turn \in Turns
    /\ BootInit /\ (turn # "boot" => ~want /\ tries = 0)
    /\ RestInit /\ Filing!BuffersInit /\ KeepsUp!OffsInit
Next ==
    /\ turn' = turn
    /\ \/ turn = "boot" /\ BootNext
          /\ UNCHANGED <<restVars, fVars, nVars>>
       \/ turn = "rest" /\ RestNext
          /\ UNCHANGED <<bootVars, fVars, nVars>>
       \/ turn = "filing" /\ Filing!BuffersNext
          /\ UNCHANGED <<bootVars, restVars, nVars>>
       \/ turn = "notes" /\ KeepsUp!OffsNext
          /\ UNCHANGED <<bootVars, restVars, fVars>>

\* The fairness of each, while it is its turn.
Fair ==
    /\ WF_bootVars(turn = "boot" /\ Boots)
    /\ WF_bootVars(turn = "boot" /\ Polls)
    /\ WF_bootVars(turn = "boot" /\ (UsbGoodbye \/ DeckReboot))
    /\ WF_bootVars(turn = "boot" /\ (FlashGoodbye \/ FlashRelease \/ FlashForce))
    /\ WF_bootVars(turn = "boot" /\ Restart)
    /\ WF_bootVars(turn = "boot" /\ TrialExpires)
    /\ WF_bootVars(turn = "boot" /\ WantRevert)
    /\ WF_restVars(turn = "rest" /\ Pass)
    /\ WF_restVars(turn = "rest" /\ Wait)
    /\ WF_restVars(turn = "rest" /\ IdleTimer)
    /\ WF_fVars(turn = "filing" /\ Filing!Autosave)
    /\ SF_nVars(turn = "notes" /\ KeepsUp!ClockStep) /\ SF_nVars(turn = "notes" /\ KeepsUp!EditorStep)
    /\ WF_nVars(turn = "notes" /\ KeepsUp!Deliver)
    /\ \A p \in KeepsUp!Producers : WF_nVars(turn = "notes" /\ KeepsUp!EmitStep(p))
    /\ \A i \in KeepsUp!Slots : WF_nVars(turn = "notes" /\ KeepsUp!TimePasses(i))
Spec == Init /\ [][Next]_allVars /\ Fair

-----------------------------------------------------------------------------
(* A document left on the screen is filed in the end (DocBuffers).           *)
EventuallyFiled == Filing!EventuallyFiled

(* No note sounds for ever, where the queue keeps up (NoteOffs).              *)
NoStuckNote == KeepsUp!NoStuckNote
==============================================================================
