-------------------------- MODULE BootDeskProofs ---------------------------
(***************************************************************************)
(* The deck at its desk: that it comes back after every reset, what is     *)
(* under the hands while it runs, and what the glass shows of it.          *)
(*                                                                         *)
(* A deck comes back, for any number of tries and any resets.  The         *)
(* invariant, by what could keep it from coming back:                      *)
(*                                                                         *)
(*   HatchInv   the loader is asked for on a PHY the flasher can reach     *)
(*   TriesInv   a bring-up is counted before it is made                    *)
(*   CrashInv   after a crash nothing brings the composite device up       *)
(*   ModeInv    what '>usb' and vitals take for the mode of this run is it *)
(*   RecordInv  the record in flash is of the last run that was marked     *)
(*                                                                         *)
(* The glass, for any panel, faces and damage list.  What a part of it     *)
(* promises the next: a cell is on the blocks its rectangle covers, turned *)
(* or not (CellOfIs); a rectangle folded or merged into others is covered  *)
(* by them (DamagedIs); a flush leaves off the glass only what the bus     *)
(* refused (FlushTells); a page that is drawn is all declared damaged      *)
(* (RenderKeeps).  The invariant is GlassInv.                              *)
(***************************************************************************)
EXTENDS BootDesk, EditorDesk, TextGrid, FiniteSetTheorems, SequenceTheorems, WellFoundedInduction, TLAPS

PastTop == pc \in Booting \ {"top", "begin"}

HatchInv == /\ force => pc \in {"save", "restart", "rom", "hung"}
            /\ force \/ pc \in {"force", "hatch", "rom"} => phy = "serial"
TriesInv == /\ unproven <= Tries /\ unproven <= MaxTries
            /\ Wanted => tries <= MaxTries
            /\ pc \in {"install", "installed"} => magic /\ want /\ tries <= MaxTries
            /\ pc = "install" => unproven < tries
CrashInv == /\ reason \in Crashes => ~active /\ pc \notin {"install", "installed"}
            /\ reason \in Crashes /\ pc = "usb" => ~want
            /\ active => pc \in Running \cup {"mark", "hung"}
ModeInv == /\ pc = "mark" => want = active
           /\ pc \in {"loop", "poll", "flash"} => want = run.usb
           /\ pc = "command" => was = run.usb
RecordInv == /\ rec.valid => rec.usb = run.usb
             /\ run.end \in {"going", "silent"} => rec.valid /\ ~rec.deliberate
             /\ PastTop /\ run.end = "silent" /\ run.usb => verdict = "dead"
             /\ pc \in Booting \cup {"rom"} => run.end # "going"
BootInv == BootTypeOK /\ HatchInv /\ TriesInv /\ CrashInv /\ ModeInv /\ RecordInv

BootSpec == BootInit /\ [][BootNext]_bootVars

Others == Crash \/ PowerCycle \/ Flashed \/ Restart \/ VitalsLoop
-----------------------------------------------------------------------------
\* The parts that the actions are put together from.
USE DEF At, Booting, Running, Crashes, Resets, Ends, Fresh, rtc, usbVars, calm, quietly,
        Up, Flag, Record, Goodbye, ModeOfRun, VerdictOn, Cancels, Refuses, Asks, Attempt

(* Types.                                                                  *)

LEMMA EndsTyped ==
    ASSUME BootTypeOK, NEW how \in {"goodbye", "chosen", "silent"}, Ends(how)
    PROVE  run' \in [usb : BOOLEAN, end : {"none", "going", "goodbye", "chosen", "silent"}]
    BY DEF BootTypeOK

UsbTyped == /\ {active, seen, attached, confirmed, was, loader, rtimer} \subseteq BOOLEAN
            /\ trial \in {"off", "armed", "expired"}
            /\ {action, polled} \subseteq {"none", "confirm", "revert", "reboot"}
            /\ line \in [rts : BOOLEAN, armed : BOOLEAN]

LEMMA FreshTyped == Fresh => UsbTyped' /\ verdict' = "none"
<1> SUFFICES ASSUME Fresh PROVE UsbTyped' /\ verdict' = "none"
    OBVIOUS
<1>1. {active', seen', attached', confirmed', was', loader', rtimer'} \subseteq BOOLEAN
    BY Zenon
<1>2. line' \in [rts : BOOLEAN, armed : BOOLEAN]
  <2>1. line' = [rts |-> FALSE, armed |-> FALSE]
    OBVIOUS
  <2>2. FALSE \in BOOLEAN
    OBVIOUS
  <2>3. QED
    BY <2>1, <2>2
<1>3. QED
    BY <1>1, <1>2 DEF UsbTyped

LEMMA ResetsTyped ==
    ASSUME BootTypeOK, NEW why \in Crashes \cup {"software"},
           NEW how \in {"chosen", "silent"},
           Resets(why, how), phy' \in {"serial", "otg"}
    PROVE  BootTypeOK'
<1>1. run' \in [usb : BOOLEAN, end : {"none", "going", "goodbye", "chosen", "silent"}]
    BY EndsTyped
<1>2. pc' \in {"rom", "top"} /\ UNCHANGED <<rtc, force, rec, unproven>> /\ reason' = why
      /\ Fresh
    OBVIOUS
<1>3. UsbTyped' /\ verdict' = "none"
    BY <1>2, FreshTyped
<1>4. QED
  <2> HIDE DEF Fresh, Resets
  <2>1. QED
    BY <1>1, <1>2, <1>3 DEF BootTypeOK, UsbTyped

LEMMA OthersTyped == BootInv /\ Others => BootTypeOK'
<1> USE DEF BootInv
<1>1. BootInv /\ Crash => BootTypeOK'
    BY ResetsTyped DEF Crash, BootTypeOK
<1>2. BootInv /\ PowerCycle => BootTypeOK'
  <2> SUFFICES ASSUME BootInv, PowerCycle PROVE BootTypeOK'
    OBVIOUS
  <2>1. run' \in [usb : BOOLEAN, end : {"none", "going", "goodbye", "chosen", "silent"}]
    BY EndsTyped DEF PowerCycle
  <2>2. UsbTyped' /\ verdict' = "none"
    BY FreshTyped DEF PowerCycle
  <2>3. /\ pc' = "top" /\ reason' = "power" /\ phy' = "serial" /\ rec' = rec
        /\ {magic', want', force'} \subseteq BOOLEAN
    BY Zenon DEF PowerCycle
  <2>4. tries' \in 0..(MaxTries + 1) /\ unproven' \in 0..(MaxTries + 1)
    BY TriesAssumption DEF PowerCycle
  <2>5. QED
    BY <2>1, <2>2, <2>3, <2>4 DEF BootTypeOK, UsbTyped
<1>3. BootInv /\ Flashed => BootTypeOK'
  <2> SUFFICES ASSUME BootInv, Flashed PROVE BootTypeOK'
    OBVIOUS
  <2>1. UsbTyped' /\ verdict' = "none"
    BY FreshTyped DEF Flashed
  <2>2. /\ pc' = "top" /\ reason' = "usb" /\ force' \in BOOLEAN
        /\ UNCHANGED <<rtc, phy, rec, run, unproven>>
    BY Zenon DEF Flashed
  <2>3. QED
    BY <2>1, <2>2 DEF BootTypeOK, UsbTyped
<1>4. BootInv /\ Restart => BootTypeOK'
  <2> SUFFICES ASSUME BootInv, Restart PROVE BootTypeOK'
    OBVIOUS
  <2>1. CASE phy' = "serial" /\ Resets("software", "chosen")
    BY <2>1, ResetsTyped DEF BootTypeOK
  <2>2. CASE active /\ pc' = "hung" /\ UNCHANGED <<reason, rtc, force, phy, rec, verdict,
                                                   usbVars, run, unproven>>
    BY <2>2 DEF BootTypeOK
  <2>3. QED
    BY <2>1, <2>2 DEF Restart
<1>5. BootInv /\ VitalsLoop => BootTypeOK'
    BY DEF VitalsLoop, BootTypeOK
<1>6. QED
    BY <1>1, <1>2, <1>3, <1>4, <1>5 DEF Others

LEMMA BootsTyped == BootInv /\ Boots => BootTypeOK'
<1> USE DEF BootInv, BootTypeOK
<1>1. BootInv /\ Top => BootTypeOK'
  <2> SUFFICES ASSUME BootInv, Top PROVE BootTypeOK'
    OBVIOUS
  <2>1. force' \in BOOLEAN
    BY Zenon DEF Top
  <2>2. /\ pc' = "begin" /\ phy' = "serial"
        /\ UNCHANGED <<reason, rtc, rec, verdict, usbVars, run, unproven>>
    BY DEF Top
  <2>3. QED
    BY <2>1, <2>2
<1>2. BootInv /\ VitalsBegin => BootTypeOK'
    BY DEF VitalsBegin
<1>3. BootInv /\ KeyAndCrash => BootTypeOK'
  <2> SUFFICES ASSUME BootInv, KeyAndCrash PROVE BootTypeOK'
    OBVIOUS
  <2>1. \/ magic' = TRUE /\ tries' = Tries /\ want' = FALSE
        \/ UNCHANGED rtc
    BY DEF KeyAndCrash
  <2>2. magic' \in BOOLEAN /\ want' \in BOOLEAN
    <3>1. magic \in BOOLEAN /\ want \in BOOLEAN
      OBVIOUS
    <3>2. QED
      BY <2>1, <3>1, Zenon
  <2>3. tries' \in 0..(MaxTries + 1)
    BY <2>1, TriesAssumption DEF Tries
  <2>4. QED
    BY <2>2, <2>3 DEF KeyAndCrash
<1>4. BootInv /\ UsbBoot => BootTypeOK'
  <2> SUFFICES ASSUME BootInv, UsbBoot PROVE BootTypeOK'
    OBVIOUS
  <2>1. tries \in 0..(MaxTries + 1) /\ MaxTries \in Nat /\ Tries \in 0..(MaxTries + 1)
    BY TriesAssumption DEF Tries
  <2>2. tries' \in 0..(MaxTries + 1)
    BY <2>1 DEF UsbBoot, TriesInv, Tries, Wanted
  <2>3. {want', seen', magic'} \subseteq BOOLEAN /\ pc' \in {"mark", "install"}
    BY DEF UsbBoot
  <2>4. QED
    BY <2>2, <2>3 DEF UsbBoot
<1>5. BootInv /\ TakePhy => BootTypeOK'
    BY TriesAssumption DEF TakePhy, TriesInv
<1>6. BootInv /\ Installed => BootTypeOK'
  <2> SUFFICES ASSUME BootInv, Installed PROVE BootTypeOK'
    OBVIOUS
  <2>1. active \in BOOLEAN /\ want \in BOOLEAN
    OBVIOUS
  <2>2. active' \in BOOLEAN /\ want' \in BOOLEAN
    BY <2>1, Zenon DEF Installed
  <2>3. pc' = "mark" /\ phy' \in {"otg", "serial"} /\ trial' \in {"armed", "off", "expired"}
    BY DEF Installed
  <2>4. UNCHANGED <<reason, magic, tries, force, rec, verdict, seen, attached, confirmed,
                    action, polled, was, line, loader, rtimer, run, unproven>>
    BY DEF Installed
  <2>5. QED
    BY <2>1, <2>2, <2>3, <2>4
<1>7. BootInv /\ VitalsStarted => BootTypeOK'
    BY DEF VitalsStarted
<1>8. QED
    BY <1>1, <1>2, <1>3, <1>4, <1>5, <1>6, <1>7 DEF Boots

LEMMA PollsTyped == BootInv /\ Polls => BootTypeOK'
<1> USE DEF BootInv, BootTypeOK
<1>1. BootInv /\ PollRead => BootTypeOK'
    BY DEF PollRead
<1>2. BootInv /\ PollConfirm => BootTypeOK'
  <2> SUFFICES ASSUME BootInv, PollConfirm PROVE BootTypeOK'
    OBVIOUS
  <2>1. /\ pc' = "loop" /\ action' = "none" /\ polled' = "none"
        /\ UNCHANGED <<calm, want, force, phy, verdict>>
    BY DEF PollConfirm
  <2>2. /\ trial' \in {"off", "armed", "expired"}
        /\ tries' \in 0..(MaxTries + 1) /\ unproven' \in 0..(MaxTries + 1)
    BY TriesAssumption DEF PollConfirm
  <2>3. confirmed' \in BOOLEAN
    <3>1. confirmed \in BOOLEAN
      OBVIOUS
    <3>2. confirmed' = confirmed \/ confirmed' = TRUE
      BY Zenon DEF PollConfirm
    <3>3. QED
      BY <3>1, <3>2, Zenon
  <2>4. QED
    BY <2>1, <2>2, <2>3
<1>3. BootInv /\ (PollRevert \/ PollReboot) => BootTypeOK'
  <2> SUFFICES ASSUME BootInv, PollRevert \/ PollReboot PROVE BootTypeOK'
    OBVIOUS
  <2>1. want' \in BOOLEAN
    <3>1. want \in BOOLEAN
      OBVIOUS
    <3>2. QED
      BY <3>1, Zenon DEF PollRevert, PollReboot
  <2>2. /\ pc' \in {"restart", "hatch"} /\ action' = "none" /\ polled' = "none"
        /\ phy' = "serial" /\ UNCHANGED <<calm, tries, force, verdict, confirmed, trial, unproven>>
    BY DEF PollRevert, PollReboot
  <2>3. QED
    BY <2>1, <2>2
<1>4. BootInv /\ (Hatch \/ SaveAll) => BootTypeOK'
    BY DEF Hatch, SaveAll
<1>5. QED
    BY <1>1, <1>2, <1>3, <1>4 DEF Polls

LEMMA CommandsTyped == BootInv /\ Commands => BootTypeOK'
<1> USE DEF BootInv
<1>1. BootInv /\ UsbCommand => BootTypeOK'
    BY DEF UsbCommand, BootTypeOK
<1>2. BootInv /\ UsbGoodbye => BootTypeOK'
    BY DEF UsbGoodbye, BootTypeOK
<1>3. BootInv /\ DeckReboot => BootTypeOK'
    BY ResetsTyped DEF DeckReboot, BootTypeOK
<1>4. BootInv /\ FlashGoodbye => BootTypeOK'
    BY DEF FlashGoodbye, BootTypeOK
<1>5. BootInv /\ (FlashNow \/ FlashRelease \/ FlashForce) => BootTypeOK'
  <2> SUFFICES ASSUME BootInv, FlashNow \/ FlashRelease \/ FlashForce PROVE BootTypeOK'
    OBVIOUS
  <2>1. force' \in BOOLEAN
    <3>1. force \in BOOLEAN
      BY DEF BootTypeOK
    <3>2. QED
      BY <3>1, Zenon DEF FlashNow, FlashRelease, FlashForce
  <2>2. /\ pc' \in {"flash", "force", "restart"} /\ phy' \in {phy, "serial"}
        /\ UNCHANGED <<reason, rtc, rec, verdict, usbVars, run, unproven>>
    BY DEF FlashNow, FlashRelease, FlashForce
  <2>3. QED
    BY <2>1, <2>2 DEF BootTypeOK
<1>6. QED
    BY <1>1, <1>2, <1>3, <1>4, <1>5 DEF Commands

LEMMA CallbacksTyped == BootInv /\ Callbacks => BootTypeOK'
<1> USE DEF BootInv, BootTypeOK
<1>1. BootInv /\ (Attach \/ CdcRx) => BootTypeOK'
  <2> SUFFICES ASSUME BootInv, Attach \/ CdcRx PROVE BootTypeOK'
    OBVIOUS
  <2>1. attached' \in BOOLEAN
    <3>1. attached \in BOOLEAN
      OBVIOUS
    <3>2. QED
      BY <3>1, Zenon DEF Attach, CdcRx
  <2>2. action' = "confirm" /\ UNCHANGED <<quietly, confirmed, trial, line, loader, rtimer>>
    BY DEF Attach, CdcRx
  <2>3. QED
    BY <2>1, <2>2
<1>2. BootInv /\ LineState => BootTypeOK'
    BY DEF LineState
<1>3. BootInv /\ RebootTimer => BootTypeOK'
  <2> SUFFICES ASSUME BootInv, RebootTimer PROVE BootTypeOK'
    OBVIOUS
  <2>1. rtimer' \in BOOLEAN
    BY Zenon DEF RebootTimer
  <2>2. action' = "reboot" /\ UNCHANGED <<quietly, attached, confirmed, trial, line, loader>>
    BY DEF RebootTimer
  <2>3. QED
    BY <2>1, <2>2
<1>4. BootInv /\ (TrialExpires \/ WantRevert) => BootTypeOK'
    BY DEF TrialExpires, WantRevert
<1>5. QED
    BY <1>1, <1>2, <1>3, <1>4 DEF Callbacks

-----------------------------------------------------------------------------
(* The way to the loader, and the way out of USB MIDI mode.                *)

LEMMA HatchKept == BootInv /\ BootNext => HatchInv'
<1> USE DEF BootInv, BootTypeOK, HatchInv
<1>1. BootInv /\ Boots => HatchInv'
    BY DEF Boots, Top, VitalsBegin, KeyAndCrash, UsbBoot, TakePhy, Installed, VitalsStarted
<1>2. BootInv /\ Polls => HatchInv'
    BY DEF Polls, PollRead, PollConfirm, PollRevert, PollReboot, Hatch, SaveAll
<1>3. BootInv /\ Commands => HatchInv'
    BY DEF Commands, UsbCommand, UsbGoodbye, DeckReboot, FlashNow, FlashGoodbye,
       FlashRelease, FlashForce
<1>4. BootInv /\ Callbacks => HatchInv'
    BY DEF Callbacks, Attach, CdcRx, LineState, RebootTimer, TrialExpires, WantRevert
<1>5. BootInv /\ Others => HatchInv'
    BY DEF Others, Crash, PowerCycle, Flashed, Restart, VitalsLoop
<1>6. QED
    BY <1>1, <1>2, <1>3, <1>4, <1>5 DEF BootNext, Others

LEMMA TriesKept == BootInv /\ BootNext => TriesInv'
<1> USE TriesAssumption DEF BootInv, BootTypeOK, TriesInv, Tries, Wanted
<1>1. BootInv /\ Boots => TriesInv'
    BY DEF Boots, Top, VitalsBegin, KeyAndCrash, UsbBoot, TakePhy, Installed, VitalsStarted
<1>2. BootInv /\ Polls => TriesInv'
    BY DEF Polls, PollRead, PollConfirm, PollRevert, PollReboot, Hatch, SaveAll
<1>3. BootInv /\ Commands => TriesInv'
    BY DEF Commands, UsbCommand, UsbGoodbye, DeckReboot, FlashNow, FlashGoodbye,
       FlashRelease, FlashForce
<1>4. BootInv /\ Callbacks => TriesInv'
    BY DEF Callbacks, Attach, CdcRx, LineState, RebootTimer, TrialExpires, WantRevert
<1>5. BootInv /\ Others => TriesInv'
    BY DEF Others, Crash, PowerCycle, Flashed, Restart, VitalsLoop
<1>6. QED
    BY <1>1, <1>2, <1>3, <1>4, <1>5 DEF BootNext, Others

LEMMA CrashKept == BootInv /\ BootNext => CrashInv'
<1> USE DEF BootInv, BootTypeOK, CrashInv
<1>1. BootInv /\ Boots => CrashInv'
    BY DEF Boots, Top, VitalsBegin, KeyAndCrash, UsbBoot, Wanted, TakePhy, Installed,
       VitalsStarted
<1>2. BootInv /\ Polls => CrashInv'
    BY DEF Polls, PollRead, PollConfirm, PollRevert, PollReboot, Hatch, SaveAll
<1>3. BootInv /\ Commands => CrashInv'
    BY DEF Commands, UsbCommand, UsbGoodbye, DeckReboot, FlashNow, FlashGoodbye,
       FlashRelease, FlashForce
<1>4. BootInv /\ Callbacks => CrashInv'
    BY DEF Callbacks, Attach, CdcRx, LineState, RebootTimer, TrialExpires, WantRevert
<1>5. BootInv /\ Others => CrashInv'
    BY DEF Others, Crash, PowerCycle, Flashed, Restart, VitalsLoop
<1>6. QED
    BY <1>1, <1>2, <1>3, <1>4, <1>5 DEF BootNext, Others

-----------------------------------------------------------------------------
(* What is said of the last run.                                           *)

LEMMA ModeKept == BootInv /\ BootNext => ModeInv'
<1> USE DEF BootInv, BootTypeOK, ModeInv
<1>1. BootInv /\ Boots => ModeInv'
  <2> SUFFICES ASSUME BootInv, Boots PROVE ModeInv'
    OBVIOUS
  <2> USE DEF CrashInv
  <2>1. CASE Top \/ VitalsBegin \/ KeyAndCrash \/ TakePhy
    BY <2>1 DEF Top, VitalsBegin, KeyAndCrash, TakePhy
  <2>2. CASE UsbBoot
    BY <2>2 DEF UsbBoot
  <2>3. CASE Installed
    BY <2>3 DEF Installed, TriesInv
  <2>4. CASE VitalsStarted
    BY <2>4 DEF VitalsStarted
  <2>5. QED
    BY <2>1, <2>2, <2>3, <2>4 DEF Boots
<1>2. BootInv /\ Polls => ModeInv'
    BY DEF Polls, PollRead, PollConfirm, PollRevert, PollReboot, Hatch, SaveAll
<1>3. BootInv /\ Commands => ModeInv'
    BY DEF Commands, UsbCommand, UsbGoodbye, DeckReboot, FlashNow, FlashGoodbye,
       FlashRelease, FlashForce
<1>4. BootInv /\ Callbacks => ModeInv'
    BY DEF Callbacks, Attach, CdcRx, LineState, RebootTimer, TrialExpires, WantRevert
<1>5. BootInv /\ Others => ModeInv'
    BY DEF Others, Crash, PowerCycle, Flashed, Restart, VitalsLoop
<1>6. QED
    BY <1>1, <1>2, <1>3, <1>4, <1>5 DEF BootNext, Others

LEMMA RecordKept == BootInv /\ BootNext => RecordInv'
<1> USE DEF BootInv, BootTypeOK, RecordInv, PastTop
<1>1. BootInv /\ Boots => RecordInv'
    BY DEF Boots, Top, VitalsBegin, KeyAndCrash, UsbBoot, TakePhy, Installed, VitalsStarted
<1>2. BootInv /\ Polls => RecordInv'
    BY DEF Polls, PollRead, PollConfirm, PollRevert, PollReboot, Hatch, SaveAll
<1>3. BootInv /\ Commands => RecordInv'
    BY DEF Commands, UsbCommand, UsbGoodbye, DeckReboot, FlashNow, FlashGoodbye,
       FlashRelease, FlashForce, ModeInv
<1>4. BootInv /\ Callbacks => RecordInv'
    BY DEF Callbacks, Attach, CdcRx, LineState, RebootTimer, TrialExpires, WantRevert
<1>5. BootInv /\ (Crash \/ PowerCycle \/ Restart) => RecordInv'
    BY DEF Crash, PowerCycle, Restart
<1>6. BootInv /\ Flashed => RecordInv'
  <2> SUFFICES ASSUME BootInv, Flashed PROVE RecordInv'
    OBVIOUS
  <2>1. pc' = "top" /\ rec' = rec /\ run' = run /\ pc = "rom"
    BY DEF Flashed
  <2>2. QED
    BY <2>1
<1>7. BootInv /\ VitalsLoop => RecordInv'
  <2> SUFFICES ASSUME BootInv, VitalsLoop PROVE RecordInv'
    OBVIOUS
  <2>1. /\ pc = "loop" /\ pc' = "loop" /\ run' = run /\ want = run.usb
        /\ rec' = [valid |-> TRUE, usb |-> want, deliberate |-> FALSE]
    BY DEF VitalsLoop, ModeInv
  <2>2. rec'.usb = run'.usb /\ rec'.valid = TRUE /\ rec'.deliberate = FALSE
    BY <2>1
  <2>3. QED
    BY <2>1, <2>2
<1>8. QED
    BY <1>1, <1>2, <1>3, <1>4, <1>5, <1>6, <1>7 DEF BootNext

-----------------------------------------------------------------------------
LEMMA InitComesBack == BootInit => BootInv
<1> SUFFICES ASSUME BootInit PROVE BootInv
    OBVIOUS
<1>1. BootTypeOK
  <2>1. /\ {magic, want, force, active, seen, attached, confirmed, was, loader, rtimer}
             \subseteq BOOLEAN
        /\ FALSE \in BOOLEAN
    BY Zenon DEF BootInit
  <2>2. /\ rec \in [valid : BOOLEAN, usb : BOOLEAN, deliberate : BOOLEAN]
        /\ line \in [rts : BOOLEAN, armed : BOOLEAN]
        /\ run \in [usb : BOOLEAN, end : {"none", "going", "goodbye", "chosen", "silent"}]
    BY <2>1 DEF BootInit
  <2>3. QED
    BY <2>1, <2>2, TriesAssumption DEF BootInit, BootTypeOK
<1>2. HatchInv /\ TriesInv /\ CrashInv
    BY TriesAssumption DEF BootInit, HatchInv, TriesInv, Tries, Wanted, CrashInv
<1>3. ModeInv /\ RecordInv
    BY DEF BootInit, ModeInv, RecordInv, PastTop
<1>4. QED
    BY <1>1, <1>2, <1>3 DEF BootInv

LEMMA StepComesBack == BootInv /\ [BootNext]_bootVars => BootInv'
<1>1. ASSUME BootInv, BootNext PROVE BootInv'
  <2>1. BootTypeOK'
    BY <1>1, OthersTyped, BootsTyped, PollsTyped, CommandsTyped, CallbacksTyped
       DEF BootNext, Others
  <2>2. QED
    BY <1>1, <2>1, HatchKept, TriesKept, CrashKept, ModeKept, RecordKept DEF BootInv
<1>2. ASSUME BootInv, UNCHANGED bootVars PROVE BootInv'
    BY <1>2 DEF bootVars, BootInv, BootTypeOK, HatchInv, TriesInv, Tries, Wanted, CrashInv,
       ModeInv, RecordInv, PastTop
<1>3. QED
    BY <1>1, <1>2

\* Wherever a panic, the watchdog or the plug cuts a boot, a trial or a restart
\* short, the deck can be spoken to, reaches the loader when sent there, and
\* says of its last run what it came to (app_main, usbdev.c, vitals.c).
THEOREM ComesBackFromAnything == BootSpec => []DeckComesBack
<1>1. BootSpec => []BootInv
    BY InitComesBack, StepComesBack, PTL DEF BootSpec
<1>2. BootInv => DeckComesBack
  <2> SUFFICES ASSUME BootInv PROVE DeckComesBack
    OBVIOUS
  <2>1. LoaderIsReachable
    BY DEF BootInv, HatchInv, LoaderIsReachable
  <2>2. ComesBack
    BY DEF BootInv, CrashInv, TriesInv, ComesBack
  <2>3. LastRunIsToldTrue
    BY DEF BootInv, RecordInv, PastTop, LastRunIsToldTrue
  <2>4. QED
    BY <2>1, <2>2, <2>3 DEF DeckComesBack
<1>3. QED
    BY <1>1, <1>2, PTL

-----------------------------------------------------------------------------
(***************************************************************************)
(* What is under the hands, for any number of slots, edits and answers.    *)
(***************************************************************************)
Questions == [on : BOOLEAN, len : Int, fn : {"none", "wifi", "ssh"}]
HandsInv ==
    /\ ask \in Questions /\ mark = [slot |-> mark.slot, ver |-> mark.ver, by |-> mark.by]
    /\ MarkKeptToItsText /\ AnswersWiped
    /\ shown >= 0 => prev = shown

LEMMA NoMarkIs == NoMark.by # "line" /\ NoMark = [slot |-> NoMark.slot, ver |-> NoMark.ver, by |-> NoMark.by]
    BY DEF NoMark

LEMMA NoQuestionIs == NoQuestion \in Questions /\ ~NoQuestion.on
  <1>1. PICK o, l, f : o = FALSE /\ l = 0 /\ f = "none"
      OBVIOUS
  <1>2. o \in BOOLEAN /\ l \in Int /\ f \in {"none", "wifi", "ssh"}
    <2>1. o \in BOOLEAN
        BY <1>1, Zenon
    <2>2. QED
        BY <1>1, <2>1
  <1>3. NoQuestion = [on |-> o, len |-> l, fn |-> f]
      BY <1>1 DEF NoQuestion
  <1>4. NoQuestion \in Questions /\ NoQuestion.on = o
      BY <1>2, <1>3 DEF Questions
  <1>5. QED
      BY <1>1, <1>4

\* The ways a step treats the mark, the question and the way back.
LEMMA HandsKept ==
    ASSUME HandsInv, ask' \in Questions, AnswersWiped',
           \/ mark' = NoMark
           \/ UNCHANGED <<mark, here, ver>>
           \/ /\ mark' = [slot |-> mark'.slot, ver |-> mark'.ver, by |-> mark'.by]
              /\ mark'.by = "line" => mark'.slot = here' /\ mark'.ver = ver'[here'],
           UNCHANGED <<prev, shown>> \/ shown' = -1 \/ shown' = prev'
    PROVE  HandsInv'
<1>1. MarkKeptToItsText' /\ mark' = [slot |-> mark'.slot, ver |-> mark'.ver, by |-> mark'.by]
  <2>1. CASE mark' = NoMark
      BY <2>1, NoMarkIs DEF MarkKeptToItsText
  <2>2. CASE UNCHANGED <<mark, here, ver>>
      BY <2>2 DEF HandsInv, MarkKeptToItsText, MarkPointsAtItsText
  <2>3. CASE /\ mark' = [slot |-> mark'.slot, ver |-> mark'.ver, by |-> mark'.by]
             /\ mark'.by = "line" => mark'.slot = here' /\ mark'.ver = ver'[here']
      BY <2>3 DEF MarkKeptToItsText, MarkPointsAtItsText
  <2>4. QED
      BY <2>1, <2>2, <2>3
<1>2. shown' >= 0 => prev' = shown'
    BY DEF HandsInv
<1>3. QED
    BY <1>1, <1>2 DEF HandsInv

LEMMA Sames == HandsInv /\ UNCHANGED ask => ask' \in Questions /\ AnswersWiped'
    BY DEF HandsInv, AnswersWiped

LEMMA HandsStep == HandsInv /\ [DeskNext]_deskVars => HandsInv'
<1>1. SUFFICES ASSUME HandsInv, [DeskNext]_deskVars PROVE HandsInv'
    OBVIOUS
<1>2. CASE EditKey
    BY <1>1, <1>2, HandsKept, Sames DEF EditKey, Forgotten
<1>3. CASE Guide
    BY <1>1, <1>3, HandsKept, Sames DEF Guide, Forgotten
<1>4. CASE Toggle
    BY <1>1, <1>4, HandsKept, Sames DEF Toggle, Forgotten, CameFrom
<1>5. ASSUME NEW dir \in {1, -1}, Walk(dir) PROVE HandsInv'
  <2>1. mark' = NoMark /\ UNCHANGED <<prev, ask>> /\ (shown' = shown \/ shown' = -1)
      BY <1>5 DEF Walk, Forgotten
  <2>2. QED
      BY <1>1, <2>1, HandsKept, Sames
<1>6. CASE Enter
  <2>1. CASE Prose
      BY <1>1, <2>1, HandsKept, Sames DEF Prose, Forgotten
  <2>2. CASE OutputPage
    <3>1. UNCHANGED <<prev, ask>> /\ (shown' = shown \/ shown' = -1)
        BY <2>2 DEF OutputPage, Ran
    <3>2. \/ mark' = NoMark
          \/ mark' = [slot |-> here, ver |-> ver[here], by |-> "page"]
        BY <2>2 DEF OutputPage, Forgotten
    <3>3. QED
        BY <1>1, <3>1, <3>2, HandsKept, Sames
  <2>3. ASSUME NEW kind \in DOMAIN Answers, Command(kind) PROVE HandsInv'
    <3>1. UNCHANGED <<ask, ver>> /\ (UNCHANGED <<prev, shown>> \/ shown' = prev')
        BY <2>3 DEF Command, ShowOutput, Ran
    <3>2. CASE kind = "refused"
      <4>1. Answers[kind] = 1
          BY <3>2 DEF Answers
      <4>2. here' = here
          BY <2>3, <4>1 DEF Command, Ran
      <4>3. mark' = [slot |-> here, ver |-> ver[here], by |-> "line"]
          BY <2>3, <3>2 DEF Command
      <4>4. QED
          BY <1>1, <3>1, <4>2, <4>3, HandsKept, Sames
    <3>3. CASE kind # "refused"
      <4>1. mark' = NoMark
          BY <2>3, <3>3 DEF Command
      <4>2. QED
          BY <1>1, <3>1, <4>1, HandsKept, Sames
    <3>4. QED
        BY <3>2, <3>3
  <2>4. ASSUME NEW cmd \in {"new", "close", "open", "name"}, OnADocument(cmd) PROVE HandsInv'
    <3>1. mark' = NoMark /\ UNCHANGED <<prev, ask>> /\ (shown' = shown \/ shown' = -1)
        BY <2>4 DEF OnADocument, Forgotten
    <3>2. QED
        BY <1>1, <3>1, HandsKept, Sames
  <2>5. CASE Secret
    <3>1. mark' = NoMark /\ UNCHANGED <<prev, shown>>
        BY <2>5 DEF Secret, Forgotten
    <3>2. ask' = ask \/ \E fn \in {"wifi", "ssh"} : ask' = [on |-> TRUE, len |-> 0, fn |-> fn]
        BY <2>5 DEF Secret
    <3>3. ASSUME NEW fn \in {"wifi", "ssh"}, ask' = [on |-> TRUE, len |-> 0, fn |-> fn]
          PROVE  ask' \in Questions /\ AnswersWiped'
      <4>1. PICK o, l : o = TRUE /\ l = 0
          OBVIOUS
      <4>2. o \in BOOLEAN /\ l \in Int
          BY <4>1
      <4>3. ask' = [on |-> o, len |-> l, fn |-> fn]
          BY <3>3, <4>1
      <4>4. ask' \in Questions /\ ask'.on = o
          BY <4>2, <4>3 DEF Questions
      <4>5. QED
          BY <4>1, <4>4 DEF AnswersWiped
    <3>4. QED
        BY <1>1, <3>1, <3>2, <3>3, HandsKept, Sames
  <2>6. QED
      BY <1>6, <2>1, <2>2, <2>3, <2>4, <2>5 DEF Enter
<1>7. CASE Question
  <2>1. UNCHANGED <<here, prev, ver, mark, shown>>
      BY <1>7 DEF Question
  <2>2. \/ ask.on /\ \E n : ask' = [ask EXCEPT !.len = n] /\ n \in Int
        \/ ask' = ask \/ ask' = NoQuestion
    <3>1. ask.len \in Int
        BY <1>1 DEF HandsInv, Questions
    <3>2. CASE AskChar
      <4>1. ask.len + 1 \in Int
          BY <3>1
      <4>2. QED
          BY <3>2, <4>1 DEF AskChar
    <3>3. CASE AskBackspace
      <4>1. Max({0, ask.len - 1}) \in {0, ask.len - 1}
        <5>1. PICK n \in Int : n = ask.len - 1
            BY <3>1
        <5>2. \E x \in {0, n} : \A y \in {0, n} : x >= y
            BY <5>1
        <5>3. QED
            BY <5>1, <5>2 DEF Max
      <4>2. Max({0, ask.len - 1}) \in Int
          BY <3>1, <4>1
      <4>3. QED
          BY <3>3, <4>2 DEF AskBackspace
    <3>4. QED
        BY <1>7, <3>2, <3>3 DEF Question, AskChord, AskCancel, AskSubmit, Wiped
  <2>3. ask' \in Questions /\ AnswersWiped'
    <3>1. CASE ask' = NoQuestion
        BY <3>1, NoQuestionIs DEF AnswersWiped
    <3>2. CASE ask' = ask
        BY <1>1, <3>2, Sames
    <3>3. ASSUME NEW n \in Int, ask' = [ask EXCEPT !.len = n], ask.on
          PROVE  ask' \in Questions /\ AnswersWiped'
      <4>1. ask' \in Questions /\ ask'.on = ask.on
          BY <1>1, <3>3 DEF HandsInv, Questions
      <4>2. QED
          BY <3>3, <4>1 DEF AnswersWiped
    <3>4. QED
        BY <2>2, <3>1, <3>2, <3>3
  <2>4. QED
      BY <1>1, <2>1, <2>3, HandsKept
<1>8. CASE SessionEnds
  <2>1. UNCHANGED <<ask, ver>>
      BY <1>8 DEF SessionEnds
  <2>2. CASE Moves(Ensured(buf), here)
    <3>1. shown' = prev'
        BY <1>8, <2>2 DEF SessionEnds, ShowOutput
    <3>2. mark' = NoMark \/ mark' = [mark EXCEPT !.by = "left"]
        BY <1>8, <2>2 DEF SessionEnds
    <3>3. mark = [slot |-> mark.slot, ver |-> mark.ver, by |-> mark.by]
        BY <1>1 DEF HandsInv
    <3>4. \/ mark' = NoMark
          \/ /\ mark' = [slot |-> mark'.slot, ver |-> mark'.ver, by |-> mark'.by]
             /\ mark'.by # "line"
      <4>1. CASE mark' = [mark EXCEPT !.by = "left"]
        <5>1. PICK s, v : s = mark.slot /\ v = mark.ver
            OBVIOUS
        <5>2. mark' = [slot |-> s, ver |-> v, by |-> "left"]
            BY <3>3, <4>1, <5>1
        <5>3. QED
            BY <5>2
      <4>2. QED
          BY <3>2, <4>1
    <3>5. QED
        BY <1>1, <2>1, <3>1, <3>4, HandsKept, Sames
  <2>3. CASE ~Moves(Ensured(buf), here)
    <3>1. UNCHANGED <<here, prev, shown, mark>>
        BY <1>8, <2>3 DEF SessionEnds
    <3>2. QED
        BY <1>1, <2>1, <3>1, HandsKept, Sames
  <2>4. QED
      BY <2>2, <2>3
<1>9. CASE TimePasses
    BY <1>1, <1>9, HandsKept, Sames DEF TimePasses
<1>10. CASE UNCHANGED deskVars
    BY <1>1, <1>10, HandsKept, Sames DEF deskVars
<1>11. QED
    BY <1>1, <1>2, <1>3, <1>4, <1>5, <1>6, <1>7, <1>8, <1>9, <1>10 DEF DeskNext

LEMMA HandsStart == DeskInit => HandsInv
<1>1. SUFFICES ASSUME DeskInit PROVE HandsInv
    OBVIOUS
<1>2. mark = NoMark /\ ask = NoQuestion /\ shown = -1
    BY <1>1 DEF DeskInit
<1>3. ~(shown >= 0)
    BY <1>2
<1>4. QED
    BY <1>2, <1>3, NoMarkIs, NoQuestionIs DEF HandsInv, MarkKeptToItsText, AnswersWiped

(* However many documents are open and whatever is typed, run, asked and     *)
(* answered: the mark of a refused character stands in its own text, nothing *)
(* is left of an answer, and Ctrl-O goes back to where the view was taken    *)
(* from (s_err_off, ask_end, s_prev_buf).                                    *)
THEOREM KeptIsGoodWhenUsed == DeskSpec => []DeskKept
<1>1. DeskInit => HandsInv
    BY HandsStart
<1>2. HandsInv /\ [DeskNext]_deskVars => HandsInv'
    BY HandsStep
<1>3. HandsInv => DeskKept
    BY DEF HandsInv, DeskKept, TheWayBack
<1>4. QED
    BY <1>1, <1>2, <1>3, PTL DEF DeskSpec

-----------------------------------------------------------------------------
\* A set of numbers between two others has a least one.
LEMMA LeastIn ==
    ASSUME NEW S \in SUBSET Int, NEW lo \in Int, NEW hi \in Int, S \subseteq lo .. hi, S # {}
    PROVE  \E i \in S : \A j \in S : i <= j
<1> DEFINE D == lo .. hi
           Upto(i) == {m \in D : m <= i}
           T == {Upto(i) : i \in S}
<1>1. T \subseteq FiniteSubsetsOf(D) /\ T # {}
  <2>1. \A i \in S : Upto(i) \in SUBSET D
    OBVIOUS
  <2>2. IsFiniteSet(D)
    BY FS_Interval
  <2>3. SUBSET D = FiniteSubsetsOf(D)
    BY <2>2, FS_FiniteSubsetsOfFinite
  <2> HIDE DEF Upto
  <2>4. T # {}
    OBVIOUS
  <2> QED
    BY <2>1, <2>3, <2>4
<1>2. PICK x \in T : \A y \in T : ~ (<<y, x>> \in StrictSubsetOrdering(D))
  BY <1>1, FS_StrictSubsetOrderingWellFounded, WFMin
<1>3. PICK i \in S : x = Upto(i)
  BY <1>2
<1>4. ASSUME NEW j \in S PROVE i <= j
  <2>1. Upto(j) \in T /\ Upto(j) \in SUBSET D /\ Upto(i) \in SUBSET D
    OBVIOUS
  <2>2. ~(Upto(j) \subseteq Upto(i)) \/ Upto(j) = Upto(i)
    BY <1>2, <1>3, <2>1 DEF StrictSubsetOrdering
  <2>3. i \in Upto(i) /\ i \in Int /\ j \in Int
    OBVIOUS
  <2>4. j < i => Upto(j) \subseteq Upto(i) /\ i \notin Upto(j)
    BY <2>3
  <2> QED
    BY <2>2, <2>3, <2>4
<1> QED
  BY <1>4

\* What holds at one end of a span and of the next number with each holds of the span.
LEMMA GoingUp ==
    ASSUME NEW S, NEW lo \in Int, NEW hi \in Int, lo \in S,
           \A j \in lo .. hi - 1 : j \in S => j + 1 \in S
    PROVE  \A j \in lo .. hi : j \in S
<1> DEFINE B == {j \in lo .. hi : j \notin S}
<1>1. SUFFICES ASSUME B # {} PROVE FALSE
    OBVIOUS
<1>2. B \in SUBSET Int /\ B \subseteq lo .. hi
    OBVIOUS
<1>3. PICK i \in B : \A j \in B : i <= j
    BY <1>1, <1>2, LeastIn
<1>4. i \in lo .. hi /\ i \notin S /\ i # lo
    OBVIOUS
<1>5. i - 1 \in lo .. hi - 1 /\ ~(i <= i - 1)
    BY <1>4
<1>6. i - 1 \in lo .. hi /\ i - 1 \notin B
    BY <1>3, <1>4, <1>5
<1>7. i - 1 \in S /\ (i - 1) + 1 = i
    BY <1>4, <1>6
<1>8. QED
    BY <1>4, <1>5, <1>7

LEMMA GoingDown ==
    ASSUME NEW S, NEW lo \in Int, NEW hi \in Int, hi \in S,
           \A j \in lo + 1 .. hi : j \in S => j - 1 \in S
    PROVE  \A j \in lo .. hi : j \in S
<1> DEFINE T == {m \in Int : lo + hi - m \in S}
<1>1. lo \in T
    OBVIOUS
<1>2. ASSUME NEW m \in lo .. hi - 1, m \in T PROVE m + 1 \in T
  <2>1. lo + hi - m \in lo + 1 .. hi /\ lo + hi - m \in S
      BY <1>2
  <2>2. (lo + hi - m) - 1 \in S /\ (lo + hi - m) - 1 = lo + hi - (m + 1)
      BY <2>1
  <2>3. QED
      BY <2>2
<1> HIDE DEF T
<1>3. \A m \in lo .. hi : m \in T
    BY <1>1, <1>2, GoingUp
<1>4. ASSUME NEW j \in lo .. hi PROVE j \in S
  <2>1. lo + hi - j \in lo .. hi /\ lo + hi - (lo + hi - j) = j
      OBVIOUS
  <2>2. lo + hi - j \in T
      BY <1>3, <2>1
  <2>3. QED
      BY <2>1, <2>2 DEF T
<1>5. QED
    BY <1>4

-----------------------------------------------------------------------------
(* The panel: which blocks a rectangle is in, however the panel is held.     *)
Rects == {r \in [x0 : Int, y0 : Int, x1 : Int, y1 : Int] : r.x0 <= r.x1 /\ r.y0 <= r.y1}
LowX(o, r)  == IF o \in {0, 3} THEN r.x0 ELSE Width - 1 - r.x1
HighX(o, r) == IF o \in {0, 3} THEN r.x1 ELSE Width - 1 - r.x0
LowY(o, r)  == IF o \in {0, 1} THEN r.y0 ELSE Height - 1 - r.y1
HighY(o, r) == IF o \in {0, 1} THEN r.y1 ELSE Height - 1 - r.y0

LEMMA DivIs ==
    ASSUME NEW a \in Int, NEW n \in Nat \ {0}
    PROVE  a \div n \in Int /\ n * (a \div n) <= a /\ a < n * (a \div n) + n
    OBVIOUS
LEMMA DivIsOnly ==
    ASSUME NEW a \in Int, NEW n \in Nat \ {0}, NEW q \in Int, n * q <= a, a < n * q + n
    PROVE  q = a \div n
    OBVIOUS
LEMMA MoreTimes ==
    ASSUME NEW a \in Int, NEW b \in Int, a < b, NEW n \in Nat \ {0}
    PROVE  n * a + n <= n * b
    OBVIOUS

LEMMA TwoLeast ==
    ASSUME NEW a \in Int, NEW b \in Int, a <= b
    PROVE  Min({a, b}) = a /\ Min({b, a}) = a /\ Max({a, b}) = b /\ Max({b, a}) = b
<1>1. {b, a} = {a, b}
    OBVIOUS
<1>2. \A x \in {a, b} : a <= x /\ x <= b
    OBVIOUS
<1>3. Min({a, b}) = a
  <2>1. \A z \in {a, b} : (\A y \in {a, b} : z <= y) => z = a
      OBVIOUS
  <2>2. a \in {a, b} /\ \A y \in {a, b} : a <= y
      BY <1>2
  <2>3. QED
      BY <2>1, <2>2 DEF Min
<1>4. Max({a, b}) = b
  <2>1. \A z \in {a, b} : (\A y \in {a, b} : z >= y) => z = b
      OBVIOUS
  <2>2. b \in {a, b} /\ \A y \in {a, b} : b >= y
      BY <1>2
  <2>3. QED
      BY <2>1, <2>2 DEF Max
<1>5. QED
    BY <1>1, <1>3, <1>4

LEMMA WindowIs ==
    ASSUME NEW o \in 0 .. 3, NEW r \in Rects
    PROVE  /\ LowX(o, r) \in Int /\ HighX(o, r) \in Int /\ LowX(o, r) <= HighX(o, r)
           /\ LowY(o, r) \in Int /\ HighY(o, r) \in Int /\ LowY(o, r) <= HighY(o, r)
           /\ Window(o, r).start = LowY(o, r) \div 12
           /\ Window(o, r).cols = HighY(o, r) \div 12 - LowY(o, r) \div 12 + 1
           /\ Window(o, r).caset[2] = MirrorBase - (AddrStart + LowY(o, r) \div 12)
           /\ Window(o, r).raset = <<LowX(o, r) \div 2, HighX(o, r) \div 2>>
<1>1. /\ r.x0 \in Int /\ r.x1 \in Int /\ r.y0 \in Int /\ r.y1 \in Int
      /\ r.x0 <= r.x1 /\ r.y0 <= r.y1 /\ Width \in Int /\ Height \in Int
    BY PanelAssumption DEF Rects
<1>2. /\ LowX(o, r) \in Int /\ HighX(o, r) \in Int /\ LowX(o, r) <= HighX(o, r)
      /\ LowY(o, r) \in Int /\ HighY(o, r) \in Int /\ LowY(o, r) <= HighY(o, r)
    BY <1>1 DEF LowX, HighX, LowY, HighY
<1> DEFINE p == ToNative(o, r.x0, r.y0)
           q == ToNative(o, r.x1, r.y1)
<1>3. /\ Min({p[1], q[1]}) = LowY(o, r) /\ Max({p[1], q[1]}) = HighY(o, r)
      /\ Min({p[2], q[2]}) = LowX(o, r) /\ Max({p[2], q[2]}) = HighX(o, r)
  <2>1. /\ {p[1], q[1]} = {LowY(o, r), HighY(o, r)}
        /\ {p[2], q[2]} = {LowX(o, r), HighX(o, r)}
    <3>1. CASE o = 0
        BY <3>1 DEF ToNative, LowX, HighX, LowY, HighY
    <3>2. CASE o = 1
        BY <3>2 DEF ToNative, LowX, HighX, LowY, HighY
    <3>3. CASE o = 2
        BY <3>3 DEF ToNative, LowX, HighX, LowY, HighY
    <3>4. CASE o = 3
        BY <3>4 DEF ToNative, LowX, HighX, LowY, HighY
    <3>5. QED
        BY <3>1, <3>2, <3>3, <3>4
  <2>2. /\ Min({LowY(o, r), HighY(o, r)}) = LowY(o, r) /\ Max({LowY(o, r), HighY(o, r)}) = HighY(o, r)
        /\ Min({LowX(o, r), HighX(o, r)}) = LowX(o, r) /\ Max({LowX(o, r), HighX(o, r)}) = HighX(o, r)
      BY <1>2, TwoLeast
  <2> HIDE DEF p, q
  <2>3. QED
      BY <2>1, <2>2
<1> HIDE DEF p, q
<1>4. QED
    BY <1>2, <1>3 DEF Window, p, q

LEMMA CoveredIs ==
    ASSUME NEW o \in 0 .. 3, NEW r \in Rects, NEW b \in Blocks
    PROVE  b \in Covered(o, r) <=> /\ LowY(o, r) \div 12 <= b[1] /\ b[1] <= HighY(o, r) \div 12
                                   /\ LowX(o, r) \div 2 <= b[2] /\ b[2] <= HighX(o, r) \div 2
<1>1. b[1] \in Int /\ b[2] \in Int
    BY DEF Blocks
<1>2. PICK ly, hy, lx, hx : /\ ly = LowY(o, r) \div 12 /\ hy = HighY(o, r) \div 12
                            /\ lx = LowX(o, r) \div 2 /\ hx = HighX(o, r) \div 2
    OBVIOUS
<1>3. ly \in Int /\ hy \in Int /\ lx \in Int /\ hx \in Int
    BY <1>2, WindowIs
<1>4. /\ Window(o, r).start = ly /\ Window(o, r).cols = hy - ly + 1
      /\ Window(o, r).raset = <<lx, hx>>
    BY <1>2, WindowIs
<1>5. ly + (hy - ly + 1) - 1 = hy
    BY <1>3
<1>6. b \in Covered(o, r) <=> b[1] \in ly .. hy /\ b[2] \in lx .. hx
    BY <1>4, <1>5 DEF Covered
<1>7. QED
    BY <1>1, <1>2, <1>3, <1>6

\* A rectangle within another is on no other blocks.
Within(r, s) == s.x0 <= r.x0 /\ r.x1 <= s.x1 /\ s.y0 <= r.y0 /\ r.y1 <= s.y1

LEMMA DivUp ==
    ASSUME NEW a \in Int, NEW b \in Int, a <= b
    PROVE  a \div 2 <= b \div 2 /\ a \div 12 <= b \div 12
    OBVIOUS

LEMMA WithinIsCovered ==
    ASSUME NEW o \in 0 .. 3, NEW r \in Rects, NEW s \in Rects, Within(r, s)
    PROVE  Covered(o, r) \subseteq Covered(o, s)
<1>1. SUFFICES ASSUME NEW b \in Blocks, b \in Covered(o, r) PROVE b \in Covered(o, s)
    BY DEF Covered
<1>2. /\ LowX(o, s) <= LowX(o, r) /\ HighX(o, r) <= HighX(o, s)
      /\ LowY(o, s) <= LowY(o, r) /\ HighY(o, r) <= HighY(o, s)
    BY PanelAssumption DEF Within, Rects, LowX, HighX, LowY, HighY
<1>3. /\ LowX(o, s) \in Int /\ LowX(o, r) \in Int /\ HighX(o, r) \in Int /\ HighX(o, s) \in Int
      /\ LowY(o, s) \in Int /\ LowY(o, r) \in Int /\ HighY(o, r) \in Int /\ HighY(o, s) \in Int
    BY WindowIs
<1>4. /\ LowX(o, s) \div 2 <= LowX(o, r) \div 2 /\ HighX(o, r) \div 2 <= HighX(o, s) \div 2
      /\ LowY(o, s) \div 12 <= LowY(o, r) \div 12 /\ HighY(o, r) \div 12 <= HighY(o, s) \div 12
    BY <1>2, <1>3, DivUp
<1>5. /\ LowY(o, r) \div 12 <= b[1] /\ b[1] <= HighY(o, r) \div 12
      /\ LowX(o, r) \div 2 <= b[2] /\ b[2] <= HighX(o, r) \div 2
    BY <1>1, CoveredIs
<1>6. b[1] \in Int /\ b[2] \in Int
    BY DEF Blocks
<1>7. /\ LowY(o, s) \div 12 <= b[1] /\ b[1] <= HighY(o, s) \div 12
      /\ LowX(o, s) \div 2 <= b[2] /\ b[2] <= HighX(o, s) \div 2
    BY <1>3, <1>4, <1>5, <1>6
<1>8. QED
    BY <1>7, CoveredIs

LEMMA UniteIs ==
    ASSUME NEW r \in Rects, NEW s \in Rects
    PROVE  Unite(r, s) \in Rects /\ Within(r, Unite(r, s)) /\ Within(s, Unite(r, s))
<1>1. /\ r.x0 \in Int /\ r.x1 \in Int /\ r.y0 \in Int /\ r.y1 \in Int /\ r.x0 <= r.x1 /\ r.y0 <= r.y1
      /\ s.x0 \in Int /\ s.x1 \in Int /\ s.y0 \in Int /\ s.y1 \in Int /\ s.x0 <= s.x1 /\ s.y0 <= s.y1
    BY DEF Rects
<1>2. ASSUME NEW a \in Int, NEW b \in Int
      PROVE  /\ Min({a, b}) \in {a, b} /\ Min({a, b}) <= a /\ Min({a, b}) <= b
             /\ Max({a, b}) \in {a, b} /\ a <= Max({a, b}) /\ b <= Max({a, b})
  <2>1. CASE a <= b
      BY <2>1, TwoLeast
  <2>2. CASE b <= a
      BY <2>2, TwoLeast
  <2>3. QED
      BY <2>1, <2>2
<1>3. PICK a, b, c, d : /\ a = Min({r.x0, s.x0}) /\ b = Min({r.y0, s.y0})
                        /\ c = Max({r.x1, s.x1}) /\ d = Max({r.y1, s.y1})
    OBVIOUS
<1>4. /\ a \in {r.x0, s.x0} /\ a <= r.x0 /\ a <= s.x0
      /\ b \in {r.y0, s.y0} /\ b <= r.y0 /\ b <= s.y0
      /\ c \in {r.x1, s.x1} /\ r.x1 <= c /\ s.x1 <= c
      /\ d \in {r.y1, s.y1} /\ r.y1 <= d /\ s.y1 <= d
    BY <1>1, <1>2, <1>3
<1>5. Unite(r, s) = [x0 |-> a, y0 |-> b, x1 |-> c, y1 |-> d]
    BY <1>3 DEF Unite
<1>6. QED
    BY <1>1, <1>4, <1>5 DEF Rects, Within

-----------------------------------------------------------------------------
\* A sequence defined step by step exists, and each step of it is as it says.
Climbs(f, N, a, F) == f[0] = a /\ \A i \in 1 .. N : f[i] = F[<<f[i - 1], i>>]

LEMMA StepsExist ==
    ASSUME NEW N \in Nat, NEW D, NEW a \in D, NEW F,
           \A d \in D : \A i \in 1 .. N : F[<<d, i>>] \in D
    PROVE  \E f \in [0 .. N -> D] : Climbs(f, N, a, F)
<1> DEFINE Steps(n, f) == /\ f \in [0 .. n -> D] /\ f[0] = a
                          /\ \A i \in 1 .. n : f[i] = F[<<f[i - 1], i>>]
           S == {n \in 0 .. N : \E f \in [0 .. n -> D] : Steps(n, f)}
<1>1. 0 \in S
  <2>1. PICK f : f = [i \in 0 .. 0 |-> a]
      OBVIOUS
  <2>2. f \in [0 .. 0 -> D] /\ f[0] = a
      BY <2>1
  <2>3. \A i \in 1 .. 0 : FALSE
      OBVIOUS
  <2>4. Steps(0, f) /\ 0 \in 0 .. N
      BY <2>2, <2>3
  <2> HIDE DEF Steps
  <2>5. QED
      BY <2>2, <2>4
<1>2. ASSUME NEW n \in 0 .. N - 1, n \in S PROVE n + 1 \in S
  <2>1. PICK f \in [0 .. n -> D] : Steps(n, f)
      BY <1>2
  <2>2. PICK d : d = F[<<f[n], n + 1>>]
      OBVIOUS
  <2>3. d \in D
    <3>1. f[n] \in D /\ n + 1 \in 1 .. N
        BY <2>1
    <3>2. QED
        BY <2>2, <3>1
  <2> DEFINE g == [i \in 0 .. n + 1 |-> IF i = n + 1 THEN d ELSE f[i]]
  <2>4. \A i \in 0 .. n : g[i] = f[i]
      OBVIOUS
  <2>5. g[n + 1] = d
      OBVIOUS
  <2>6. g \in [0 .. n + 1 -> D]
    <3>1. ASSUME NEW i \in 0 .. n + 1 PROVE (IF i = n + 1 THEN d ELSE f[i]) \in D
      <4>1. i = n + 1 \/ i \in 0 .. n
          OBVIOUS
      <4>2. QED
          BY <4>1, <2>1, <2>3
    <3>2. QED
        BY <3>1
  <2> HIDE DEF g
  <2>7. ASSUME NEW i \in 1 .. n + 1 PROVE g[i] = F[<<g[i - 1], i>>]
    <3>1. CASE i = n + 1
      <4>1. i - 1 = n /\ n \in 0 .. n
          BY <3>1
      <4>2. QED
          BY <2>2, <2>4, <2>5, <3>1, <4>1
    <3>2. CASE i # n + 1
      <4>1. i \in 1 .. n /\ i \in 0 .. n /\ i - 1 \in 0 .. n
          BY <3>2
      <4>2. f[i] = F[<<f[i - 1], i>>]
          BY <2>1, <4>1
      <4>3. QED
          BY <2>4, <4>1, <4>2
    <3>3. QED
        BY <3>1, <3>2
  <2>8. g[0] = a
    <3>1. 0 \in 0 .. n
        OBVIOUS
    <3>2. QED
        BY <2>1, <2>4, <3>1
  <2>9. Steps(n + 1, g) /\ n + 1 \in 0 .. N
      BY <2>6, <2>7, <2>8
  <2>10. QED
      BY <2>6, <2>9
<1>3. N \in S
  <2> HIDE DEF S
  <2>1. \A j \in 0 .. N : j \in S
    <3>1. \A j \in 0 .. N - 1 : j \in S => j + 1 \in S
        BY <1>2
    <3>2. N \in Int /\ 0 \in Int
        OBVIOUS
    <3>3. QED
        BY <1>1, <3>1, <3>2, GoingUp
  <2>2. QED
      BY <2>1
<1>4. PICK f \in [0 .. N -> D] : Steps(N, f)
    BY <1>3
<1>5. QED
    BY <1>4 DEF Climbs

-----------------------------------------------------------------------------
\* What is on the glass after a window is pushed: all but what it covered.
LEMMA PushedIs ==
    ASSUME NEW o \in 0 .. 3, NEW r \in Rects, NEW st \in SUBSET Blocks
    PROVE  AfterPush(st, o, r) = st \ Covered(o, r)
<1>1. PICK w : w = Window(o, r)
    OBVIOUS
<1>2. PICK s, n, c, ra : s = w.start /\ n = w.cols /\ c = w.caset[2] /\ ra = w.raset
    OBVIOUS
<1>3. /\ s \in Int /\ n \in Int /\ c = MirrorBase - (AddrStart + s)
      /\ ra[1] \in Int /\ ra[2] \in Int
  <2>1. PICK ly, hy, lx, hx : /\ ly = LowY(o, r) \div 12 /\ hy = HighY(o, r) \div 12
                              /\ lx = LowX(o, r) \div 2 /\ hx = HighX(o, r) \div 2
      OBVIOUS
  <2>2. ly \in Int /\ hy \in Int /\ lx \in Int /\ hx \in Int
      BY <2>1, WindowIs
  <2>3. /\ w.start = ly /\ w.cols = hy - ly + 1
        /\ w.caset[2] = MirrorBase - (AddrStart + ly) /\ w.raset = <<lx, hx>>
      BY <1>1, <2>1, WindowIs
  <2>4. QED
      BY <1>2, <2>2, <2>3
<1>4. AddrEnd \in Int /\ AddrEnd - c = s
  <2>1. PICK h : h = Height \div 12
      OBVIOUS
  <2>2. h \in Int
      BY <2>1, PanelAssumption
  <2>3. QED
      BY <1>3, <2>1, <2>2 DEF MirrorBase, AddrEnd, AddrStart
<1>5. c \in Int
    BY <1>3, <1>4
<1>6. \A k \in 0 .. n - 1 : AddrEnd - (c - k) = s + k
    BY <1>3, <1>4, <1>5
<1>7. Sent(w) = [b \in {<<s + k, q>> : k \in 0 .. n - 1, q \in ra[1] .. ra[2]} |-> <<s + b[1] - s, b[2]>>]
    BY <1>2, <1>4, <1>6 DEF Sent
<1>8. DOMAIN Sent(w) = {<<s + k, q>> : k \in 0 .. n - 1, q \in ra[1] .. ra[2]}
    BY <1>7
<1>9. ASSUME NEW b \in DOMAIN Sent(w) PROVE Sent(w)[b] = b
  <2>1. PICK k \in 0 .. n - 1, q \in ra[1] .. ra[2] : b = <<s + k, q>>
      BY <1>8
  <2>2. Sent(w)[b] = <<s + b[1] - s, b[2]>>
      BY <1>7, <1>8
  <2>3. s + (s + k) - s = s + k
      BY <1>3
  <2>4. QED
      BY <2>1, <2>2, <2>3
<1>10. ASSUME NEW b \in Blocks PROVE b \in DOMAIN Sent(w) <=> b \in Covered(o, r)
  <2>1. b[1] \in Int /\ b[2] \in Int /\ b = <<b[1], b[2]>>
      BY DEF Blocks
  <2>2. b \in Covered(o, r) <=> b[1] \in s .. s + n - 1 /\ b[2] \in ra[1] .. ra[2]
      BY <1>1, <1>2 DEF Covered
  <2>3. ASSUME b \in DOMAIN Sent(w) PROVE b[1] \in s .. s + n - 1 /\ b[2] \in ra[1] .. ra[2]
    <3>1. PICK k \in 0 .. n - 1, q \in ra[1] .. ra[2] : b = <<s + k, q>>
        BY <1>8, <2>3
    <3>2. QED
        BY <1>3, <3>1
  <2>4. ASSUME b[1] \in s .. s + n - 1, b[2] \in ra[1] .. ra[2] PROVE b \in DOMAIN Sent(w)
    <3>1. PICK k : k = b[1] - s
        OBVIOUS
    <3>2. k \in 0 .. n - 1 /\ s + k = b[1]
        BY <1>3, <2>1, <2>4, <3>1
    <3>3. b = <<s + k, b[2]>>
        BY <2>1, <3>2
    <3>4. QED
        BY <1>8, <2>4, <3>2, <3>3
  <2>5. QED
      BY <2>2, <2>3, <2>4
<1>11. AfterPush(st, o, r) = {b \in st : b \notin DOMAIN Sent(w)} \cup {b \in DOMAIN Sent(w) : Sent(w)[b] # b}
    BY <1>1 DEF AfterPush
<1>12. {b \in DOMAIN Sent(w) : Sent(w)[b] # b} = {}
    BY <1>9
<1>13. {b \in st : b \notin DOMAIN Sent(w)} = st \ Covered(o, r)
    BY <1>10
<1>14. QED
    BY <1>11, <1>12, <1>13

CoveredBy(o, list) == UNION {Covered(o, list[i]) : i \in DOMAIN list}

\* The list's least costly pair is a pair of it.
LEMMA CheapestIs ==
    ASSUME NEW list \in Seq(Rects), Len(list) >= 2, Len(list) <= DmgMax
    PROVE  /\ Cheapest(list) \in (1 .. Len(list)) \X (1 .. Len(list))
           /\ Cheapest(list)[1] < Cheapest(list)[2]
<1> DEFINE pairs == {p \in (1 .. Len(list)) \X (1 .. Len(list)) : p[1] < p[2]}
           cost(p) == MergeCost(list[p[1]], list[p[2]])
           order(p) == p[1] * (DmgMax + 1) + p[2]
           costs == {cost(p) : p \in pairs}
<1>1. ASSUME NEW p \in pairs PROVE cost(p) \in Int /\ order(p) \in Int /\ order(p) >= 0
  <2>1. list[p[1]] \in Rects /\ list[p[2]] \in Rects
      OBVIOUS
  <2>2. ASSUME NEW r \in Rects PROVE Area(r) \in Int
    <3>1. r.x0 \in Int /\ r.x1 \in Int /\ r.y0 \in Int /\ r.y1 \in Int
        BY DEF Rects
    <3>2. r.x1 - r.x0 + 1 \in Int /\ r.y1 - r.y0 + 1 \in Int
        BY <3>1
    <3>3. QED
        BY <3>2 DEF Area
  <2>3. cost(p) \in Int
      BY <2>1, <2>2, UniteIs DEF MergeCost
  <2>4. DmgMax \in Nat /\ p[1] \in Nat /\ p[2] \in Nat
      BY PanelAssumption
  <2>5. QED
      BY <2>3, <2>4
<1> DEFINE good(p, q) == cost(p) < cost(q) \/ (cost(p) = cost(q) /\ order(p) <= order(q))
           upto(p) == {q \in pairs : good(q, p)}
           T == {upto(p) : p \in pairs}
<1>2. /\ \A p \in pairs : good(p, p)
      /\ \A p \in pairs, q \in pairs : good(p, q) \/ good(q, p)
      /\ \A p \in pairs, q \in pairs, s \in pairs : good(p, q) /\ good(q, s) => good(p, s)
  <2> HIDE DEF pairs, cost, order
  <2>1. \A p \in pairs : cost(p) \in Int /\ order(p) \in Int
      BY <1>1
  <2>2. QED
      BY <2>1
<1>3. IsFiniteSet(pairs)
  <2>1. IsFiniteSet(1 .. Len(list))
      BY FS_Interval
  <2>2. IsFiniteSet((1 .. Len(list)) \X (1 .. Len(list)))
      BY <2>1, FS_Product
  <2>3. pairs \subseteq (1 .. Len(list)) \X (1 .. Len(list))
      OBVIOUS
  <2>4. QED
      BY <2>2, <2>3, FS_Subset
<1>4. <<1, 2>> \in pairs
    OBVIOUS
<1>5. Cheapest(list) = CHOOSE p \in pairs : \A q \in pairs : good(p, q)
    BY DEF Cheapest
<1> HIDE DEF good, pairs, cost, order
<1>6. T \subseteq FiniteSubsetsOf(pairs) /\ T # {}
  <2>1. \A p \in pairs : upto(p) \in SUBSET pairs
      OBVIOUS
  <2>2. SUBSET pairs = FiniteSubsetsOf(pairs)
      BY <1>3, FS_FiniteSubsetsOfFinite
  <2> HIDE DEF upto
  <2>3. T # {}
      BY <1>4
  <2>4. QED
      BY <2>1, <2>2, <2>3
<1>7. PICK x \in T : \A y \in T : ~ (<<y, x>> \in StrictSubsetOrdering(pairs))
    BY <1>6, FS_StrictSubsetOrderingWellFounded, WFMin
<1>8. PICK p \in pairs : x = upto(p)
    BY <1>7
<1>9. ASSUME NEW q \in pairs PROVE good(p, q)
  <2>1. SUFFICES ASSUME ~good(p, q) PROVE FALSE
      OBVIOUS
  <2>2. good(q, p)
      BY <1>2, <2>1
  <2>3. upto(q) \subseteq upto(p)
      BY <1>2, <2>2
  <2>4. p \in upto(p) /\ p \notin upto(q)
      BY <1>2, <2>1
  <2>5. upto(q) \in T /\ upto(q) \in SUBSET pairs /\ upto(p) \in SUBSET pairs
      OBVIOUS
  <2>6. QED
      BY <1>7, <1>8, <2>3, <2>4, <2>5 DEF StrictSubsetOrdering
<1>10. Cheapest(list) \in pairs
  <2> HIDE DEF upto, T
  <2>1. \E m \in pairs : \A q \in pairs : good(m, q)
      BY <1>9
  <2>2. QED
      BY <1>5, <2>1
<1>11. QED
    BY <1>10 DEF pairs

\* st7305_damage(): whatever it folds or merges, what was damaged still is, and
\* the new rectangle with it.
LEMMA DamagedIs ==
    ASSUME NEW o \in 0 .. 3, NEW list \in Seq(Rects), Len(list) <= DmgMax, NEW r \in Rects
    PROVE  /\ Damaged(list, r) \in Seq(Rects) /\ Len(Damaged(list, r)) <= DmgMax
           /\ CoveredBy(o, list) \cup Covered(o, r) \subseteq CoveredBy(o, Damaged(list, r))
<1> DEFINE near == {i \in 1 .. Len(list) : Touch(r, list[i])}
<1>1. Len(list) \in Nat /\ DOMAIN list = 1 .. Len(list) /\ \A i \in 1 .. Len(list) : list[i] \in Rects
    OBVIOUS
<1>2. DmgMax \in Nat /\ DmgMax >= 2
    BY PanelAssumption
<1>3. Damaged(list, r) = IF near # {} THEN [list EXCEPT ![Min(near)] = Unite(list[Min(near)], r)]
                         ELSE IF Len(list) < DmgMax THEN Append(list, r) ELSE Merged(list, r)
    BY DEF Damaged, Room
<1>4. CASE near # {}
  <2>1. PICK m \in near : \A j \in near : m <= j
    <3>1. near \in SUBSET Int /\ near \subseteq 1 .. Len(list)
        OBVIOUS
    <3>2. PICK n : n = Len(list)
        OBVIOUS
    <3>3. n \in Int /\ 1 \in Int /\ near \subseteq 1 .. n
        BY <1>1, <3>1, <3>2
    <3> HIDE DEF near
    <3>4. QED
        BY <1>4, <3>1, <3>3, LeastIn
  <2>2. Min(near) \in near
    <3> HIDE DEF near
    <3>1. \E x \in near : \A y \in near : x <= y
        BY <2>1
    <3>2. QED
        BY <3>1 DEF Min
  <2>3. PICK k \in 1 .. Len(list) : k = Min(near)
      BY <2>2
  <2>4. Damaged(list, r) = [list EXCEPT ![k] = Unite(list[k], r)]
      BY <1>3, <1>4, <2>3
  <2>5. PICK u : u = Unite(list[k], r)
      OBVIOUS
  <2>6. u \in Rects /\ Within(list[k], u) /\ Within(r, u)
      BY <1>1, <2>5, UniteIs
  <2>7. PICK new : new = Damaged(list, r)
      OBVIOUS
  <2>8. new = [list EXCEPT ![k] = u]
      BY <2>4, <2>5, <2>7
  <2>9. /\ new \in Seq(Rects) /\ Len(new) = Len(list) /\ DOMAIN new = 1 .. Len(list)
        /\ \A i \in 1 .. Len(list) : new[i] = IF i = k THEN u ELSE list[i]
      BY <2>6, <2>8
  <2>10. CoveredBy(o, list) \cup Covered(o, r) \subseteq CoveredBy(o, new)
    <3>1. ASSUME NEW b \in CoveredBy(o, list) PROVE b \in CoveredBy(o, new)
      <4>1. PICK i \in 1 .. Len(list) : b \in Covered(o, list[i])
          BY <1>1, <3>1 DEF CoveredBy
      <4>2. b \in Covered(o, new[i])
          BY <1>1, <2>6, <2>9, <4>1, WithinIsCovered
      <4>3. QED
          BY <2>9, <4>2 DEF CoveredBy
    <3>2. Covered(o, r) \subseteq Covered(o, new[k])
        BY <2>6, <2>9, WithinIsCovered
    <3>3. Covered(o, r) \subseteq CoveredBy(o, new)
        BY <2>9, <3>2 DEF CoveredBy
    <3>4. QED
        BY <3>1, <3>3
  <2>11. QED
      BY <2>7, <2>9, <2>10
<1>5. CASE near = {} /\ Len(list) < DmgMax
  <2>1. PICK new : new = Append(list, r)
      OBVIOUS
  <2>2. /\ new \in Seq(Rects) /\ Len(new) = Len(list) + 1 /\ DOMAIN new = 1 .. Len(list) + 1
        /\ \A i \in 1 .. Len(list) : new[i] = list[i]
        /\ new[Len(list) + 1] = r
      BY <2>1
  <2>3. CoveredBy(o, list) \cup Covered(o, r) \subseteq CoveredBy(o, new)
    <3>1. Len(list) + 1 \in DOMAIN new /\ 1 .. Len(list) \subseteq DOMAIN new
        BY <1>1, <2>2
    <3>2. \A i \in 1 .. Len(list) : i \in DOMAIN new /\ Covered(o, list[i]) = Covered(o, new[i])
        BY <2>2, <3>1
    <3>3. QED
        BY <1>1, <2>2, <3>1, <3>2 DEF CoveredBy
  <2>4. Damaged(list, r) = new
      BY <1>3, <1>5, <2>1
  <2>5. Len(new) <= DmgMax
      BY <1>1, <1>2, <1>5, <2>2
  <2>6. QED
      BY <2>2, <2>3, <2>4, <2>5
<1>6. CASE near = {} /\ ~(Len(list) < DmgMax)
  <2>1. Len(list) = DmgMax /\ Len(list) >= 2
    <3>1. PICK n : n = Len(list)
        OBVIOUS
    <3>2. n \in Nat /\ n <= DmgMax /\ ~(n < DmgMax)
        BY <1>1, <1>6, <3>1
    <3>3. n = DmgMax
        BY <1>2, <3>2
    <3>4. QED
        BY <1>2, <3>1, <3>3
  <2>2. PICK p : p = Cheapest(list)
      OBVIOUS
  <2>3. PICK k, m : k = p[1] /\ m = p[2]
      OBVIOUS
  <2>4. k \in 1 .. Len(list) /\ m \in 1 .. Len(list) /\ k < m
      BY <1>1, <2>1, <2>2, <2>3, CheapestIs
  <2>5. PICK n : n = Len(list)
      OBVIOUS
  <2>6. n \in 1 .. n /\ k # n /\ k # m /\ DOMAIN list = 1 .. n
      BY <1>1, <2>1, <2>4, <2>5
  <2>7. PICK u : u = Unite(list[k], list[m])
      OBVIOUS
  <2>8. u \in Rects /\ Within(list[k], u) /\ Within(list[m], u)
      BY <1>1, <2>4, <2>7, UniteIs
  <2>9. PICK new : new = Merged(list, r)
      OBVIOUS
  <2>10. new = [list EXCEPT ![k] = u, ![m] = list[n], ![n] = r]
      BY <2>2, <2>3, <2>5, <2>7, <2>9 DEF Merged
  <2>11. /\ DOMAIN new = 1 .. n
         /\ \A i \in 1 .. n : new[i] = IF i = n THEN r ELSE IF i = m THEN list[n] ELSE IF i = k THEN u ELSE list[i]
      BY <2>4, <2>5, <2>6, <2>10
  <2>12. new \in Seq(Rects) /\ Len(new) = n
    <3>1. \A i \in 1 .. n : new[i] \in Rects
        BY <1>1, <2>5, <2>6, <2>8, <2>11
    <3>2. new = [i \in 1 .. n |-> new[i]]
        BY <2>10, <2>6, <2>11
    <3>3. n \in Nat
        BY <1>1, <2>5
    <3>4. QED
        BY <3>1, <3>2, <3>3
  <2>13. ASSUME NEW b \in CoveredBy(o, list) PROVE b \in CoveredBy(o, new)
    <3>1. PICK i \in 1 .. n : b \in Covered(o, list[i])
        BY <2>6, <2>13 DEF CoveredBy
    <3>2. \E j \in 1 .. n : b \in Covered(o, new[j])
      <4>1. CASE i \in {k, m}
        <5>1. new[k] = u
            BY <2>4, <2>5, <2>6, <2>11
        <5>2. b \in Covered(o, u)
            BY <1>1, <2>4, <2>5, <2>8, <3>1, <4>1, WithinIsCovered
        <5>3. QED
            BY <2>4, <2>5, <5>1, <5>2
      <4>2. CASE i = n /\ i # m
        <5>1. new[m] = list[n]
            BY <2>4, <2>5, <2>6, <2>11, <4>2
        <5>2. QED
            BY <2>4, <2>5, <3>1, <4>2, <5>1
      <4>3. CASE i \notin {k, m, n}
        <5>1. new[i] = list[i]
            BY <2>11, <4>3
        <5>2. QED
            BY <3>1, <5>1
      <4>4. QED
          BY <4>1, <4>2, <4>3
    <3>3. QED
        BY <2>11, <3>2 DEF CoveredBy
  <2>14. Covered(o, r) \subseteq CoveredBy(o, new)
    <3>1. new[n] = r /\ n \in DOMAIN new
        BY <2>6, <2>11
    <3>2. QED
        BY <3>1 DEF CoveredBy
  <2>15. Damaged(list, r) = new
      BY <1>3, <1>6, <2>9
  <2>16. QED
      BY <2>1, <2>5, <2>12, <2>13, <2>14, <2>15
<1>7. QED
    BY <1>4, <1>5, <1>6

-----------------------------------------------------------------------------
\* st7305_flush(): what it leaves off the glass, a push that failed lost.
Lists == {l \in Seq(Rects) : Len(l) <= DmgMax}

LEMMA FlushIs ==
    ASSUME NEW list \in Seq(Rects), stale \in SUBSET Blocks, orient \in 0 .. 3, NEW n \in 0 .. Len(list)
    PROVE  Unpushed(list, n) = {b \in stale : \A i \in 1 .. n : b \notin Covered(orient, list[i])}
<1>1. n \in Nat /\ \A i \in 1 .. n : list[i] \in Rects
    OBVIOUS
<1> DEFINE D == SUBSET Blocks
           F == [p \in D \X (1 .. n) |-> AfterPush(p[1], orient, list[p[2]])]
           Step(f) == [i \in 0 .. n |-> IF i = 0 THEN stale ELSE AfterPush(f[i - 1], orient, list[i])]
           fun == CHOOSE f : f = Step(f)
<1>2. ASSUME NEW d \in D, NEW i \in 1 .. n
      PROVE  AfterPush(d, orient, list[i]) = d \ Covered(orient, list[i]) /\ F[<<d, i>>] = AfterPush(d, orient, list[i])
    BY <1>1, PushedIs
<1>3. \A d \in D : \A i \in 1 .. n : F[<<d, i>>] \in D
  <2>1. ASSUME NEW d \in D, NEW i \in 1 .. n PROVE F[<<d, i>>] \in D
    <3>1. F[<<d, i>>] = d \ Covered(orient, list[i])
        BY <1>2
    <3> HIDE DEF F
    <3>2. QED
        BY <3>1
  <2> HIDE DEF F, D
  <2>2. QED
      BY <2>1
<1>4. PICK g \in [0 .. n -> D] : g[0] = stale /\ \A i \in 1 .. n : g[i] = F[<<g[i - 1], i>>]
  <2>1. stale \in D
      OBVIOUS
  <2> HIDE DEF F, D
  <2>2. PICK a, E, G : a = stale /\ E = D /\ G = F
      OBVIOUS
  <2>3. a \in E /\ \A d \in E : \A i \in 1 .. n : G[<<d, i>>] \in E
      BY <1>3, <2>1, <2>2
  <2>4. \E g \in [0 .. n -> E] : Climbs(g, n, a, G)
      BY <1>1, <2>3, StepsExist
  <2>5. QED
      BY <2>2, <2>4 DEF Climbs
<1>5. g = Step(g)
  <2> HIDE DEF F
  <2>1. ASSUME NEW i \in 0 .. n
        PROVE  g[i] = IF i = 0 THEN stale ELSE AfterPush(g[i - 1], orient, list[i])
    <3>1. i = 0 \/ (i # 0 /\ i \in 1 .. n /\ i - 1 \in 0 .. n)
        BY <1>1
    <3>2. QED
        BY <1>2, <1>4, <3>1
  <2>2. QED
      BY <1>4, <2>1
<1>6. fun = Step(fun)
  <2> HIDE DEF Step
  <2>1. QED
      BY <1>5, Zenon
<1>7. fun[0] = stale /\ \A i \in 1 .. n : fun[i] = AfterPush(fun[i - 1], orient, list[i])
  <2>1. PICK f : f = fun
      OBVIOUS
  <2>2. f = Step(f)
      BY <1>6, <2>1
  <2> HIDE DEF fun
  <2>3. f[0] = stale
      BY <1>1, <2>2
  <2>4. ASSUME NEW i \in 1 .. n PROVE f[i] = AfterPush(f[i - 1], orient, list[i])
    <3>1. i \in 0 .. n /\ i # 0
        BY <1>1
    <3>2. QED
        BY <2>2, <3>1
  <2>5. QED
      BY <2>1, <2>3, <2>4
<1> HIDE DEF fun
<1> DEFINE Left(m) == {b \in stale : \A i \in 1 .. m : b \notin Covered(orient, list[i])}
           S == {m \in 0 .. n : fun[m] = Left(m)}
<1>8. 0 \in S
  <2>1. Left(0) = stale
      OBVIOUS
  <2>2. QED
      BY <1>1, <1>7, <2>1
<1>9. ASSUME NEW m \in 0 .. n - 1, m \in S PROVE m + 1 \in S
  <2>1. m + 1 \in 1 .. n /\ m + 1 - 1 = m /\ m + 1 \in 0 .. n /\ m \in Nat
      BY <1>1
  <2>2. fun[m + 1] = AfterPush(Left(m), orient, list[m + 1])
    <3>1. fun[m] = Left(m)
        BY <1>9
    <3>2. fun[m + 1] = AfterPush(fun[m], orient, list[m + 1])
        BY <1>7, <2>1
    <3> HIDE DEF Left
    <3>3. QED
        BY <3>1, <3>2
  <2>3. Left(m) \in D
      OBVIOUS
  <2>4. fun[m + 1] = Left(m) \ Covered(orient, list[m + 1])
    <3> HIDE DEF Left, D
    <3>1. QED
        BY <1>2, <2>1, <2>2, <2>3
  <2>5. \A i : i \in 1 .. m + 1 <=> i \in 1 .. m \/ i = m + 1
      BY <2>1
  <2>6. Left(m) \ Covered(orient, list[m + 1]) = Left(m + 1)
      BY <2>5, Zenon
  <2>7. QED
      BY <2>1, <2>4, <2>6
<1>10. n \in S
  <2> HIDE DEF S
  <2>1. \A j \in 0 .. n - 1 : j \in S => j + 1 \in S
      BY <1>9
  <2>2. n \in Int /\ 0 \in Int
      BY <1>1
  <2>3. \A j \in 0 .. n : j \in S
      BY <1>8, <2>1, <2>2, GoingUp
  <2>4. QED
      BY <1>1, <2>3
<1>11. fun[n] = Left(n)
    BY <1>10
<1>12. QED
    BY <1>11 DEF fun, Unpushed

LEMMA FlushTells ==
    ASSUME NEW list \in Seq(Rects), orient \in 0 .. 3, stale \in SUBSET Blocks,
           Flush(list), stale \subseteq lost \cup CoveredBy(orient, list)
    PROVE  dmg' = << >> /\ orient' = orient /\ stale' \in SUBSET Blocks /\ stale' \subseteq lost'
           /\ (lost \in SUBSET Blocks => lost' \in SUBSET Blocks)
<1>1. PICK n \in (IF lost = {} THEN 0 ELSE Len(list)) .. Len(list) :
           /\ dmg' = << >> /\ stale' = Unpushed(list, n)
           /\ lost' = (lost \cap stale') \cup UNION {Covered(orient, list[i]) : i \in n + 1 .. Len(list)}
           /\ UNCHANGED orient
    BY DEF Flush
<1>2. n \in 0 .. Len(list) /\ Len(list) \in Nat /\ DOMAIN list = 1 .. Len(list)
    OBVIOUS
<1>3. stale' = {b \in stale : \A i \in 1 .. n : b \notin Covered(orient, list[i])}
    BY <1>1, <1>2, FlushIs
<1>4. /\ dmg' = << >> /\ orient' = orient
      /\ lost' = (lost \cap stale') \cup UNION {Covered(orient, list[i]) : i \in n + 1 .. Len(list)}
    BY <1>1
<1>5. ASSUME NEW b \in stale' PROVE b \in lost'
  <2>1. b \in stale /\ \A i \in 1 .. n : b \notin Covered(orient, list[i])
      BY <1>3
  <2>2. CASE b \in lost
      BY <1>4, <2>2
  <2>3. CASE b \in CoveredBy(orient, list)
    <3>1. PICK i \in 1 .. Len(list) : b \in Covered(orient, list[i])
        BY <1>2, <2>3 DEF CoveredBy
    <3>2. i \notin 1 .. n
        BY <2>1, <3>1
    <3>3. i \in n + 1 .. Len(list)
        BY <1>2, <3>2
    <3>4. QED
        BY <1>4, <3>1, <3>3
  <2>4. QED
      BY <2>1, <2>2, <2>3
<1>6. \A i : Covered(orient, list[i]) \subseteq Blocks
    BY DEF Covered
<1>7. QED
    BY <1>3, <1>4, <1>5, <1>6

-----------------------------------------------------------------------------
\* The grid: the cells of a face fill the panel between its margins.
LEMMA WholeIs ==
    ASSUME NEW a \in Int, NEW n \in Nat \ {0}
    PROVE  a % n \in 0 .. n - 1 /\ a = n * (a \div n) + (a % n)
    OBVIOUS

LEMMA NotLess ==
    ASSUME NEW a \in Int, NEW n \in Nat \ {0}, 0 <= n * a
    PROVE  0 <= a
<1>1. SUFFICES ASSUME a < 0 PROVE FALSE
    OBVIOUS
<1>2. n * a + n <= n * 0
    BY <1>1, MoreTimes
<1>3. QED
    BY <1>2

LEMMA FaceIs ==
    ASSUME NEW f \in DOMAIN Faces
    PROVE  /\ Faces[f].w \in Nat \ {0} /\ Faces[f].h \in Nat \ {0}
           /\ Faces[f].w % 2 = 0 /\ Faces[f].h % 12 = 0
           /\ Cols(f) \in Nat /\ Rows(f) \in Nat
           /\ Faces[f].w * Cols(f) = Width - 2 * MarginX
           /\ Faces[f].h * Rows(f) = Height - MarginTop
<1>1. PICK w, h, a, b : w = Faces[f].w /\ h = Faces[f].h /\ a = Width - 2 * MarginX /\ b = Height - MarginTop
    OBVIOUS
<1>2. /\ w \in Nat \ {0} /\ h \in Nat \ {0} /\ w % 2 = 0 /\ h % 12 = 0
      /\ a \in Nat /\ b \in Nat /\ a % w = 0 /\ b % h = 0
    BY <1>1, PanelAssumption, FacesAssumption
<1>3. PICK i, j : i = a \div w /\ j = b \div h
    OBVIOUS
<1>4. i \in Int /\ j \in Int
    BY <1>2, <1>3, DivIs
<1>5. a = w * i + 0 /\ b = h * j + 0
    BY <1>2, <1>3, WholeIs
<1>6. a = w * i /\ b = h * j
  <2>1. w * i \in Int /\ h * j \in Int
      BY <1>2, <1>4
  <2>2. QED
      BY <1>5, <2>1
<1>7. 0 <= i /\ 0 <= j
    BY <1>2, <1>4, <1>6, NotLess
<1>8. QED
    BY <1>1, <1>2, <1>3, <1>4, <1>6, <1>7 DEF Cols, Rows

LEMMA CornerIs ==
    ASSUME NEW f \in DOMAIN Faces, NEW c \in Corners(f)
    PROVE  /\ c.x \in Int /\ c.y \in Int /\ CellRect(f, c) \in Rects
           /\ \E i \in 0 .. Cols(f) - 1, j \in 0 .. Rows(f) - 1 : c = CellAt(f, i, j)
<1>1. PICK w, h : w = Faces[f].w /\ h = Faces[f].h
    OBVIOUS
<1>2. /\ w \in Nat \ {0} /\ h \in Nat \ {0} /\ Cols(f) \in Nat /\ Rows(f) \in Nat
      /\ MarginX \in Int /\ MarginTop \in Int
    BY <1>1, FaceIs, FacesAssumption
<1>3. PICK i \in 0 .. Cols(f) - 1, j \in 0 .. Rows(f) - 1 : c = CellAt(f, i, j)
    BY DEF Corners, CornersOf
<1>4. i \in Int /\ j \in Int
    BY <1>2
<1>5. c = [x |-> MarginX + w * i, y |-> MarginTop + h * j]
    BY <1>1, <1>3 DEF CellAt
<1>6. c.x \in Int /\ c.y \in Int
    BY <1>2, <1>4, <1>5
<1>7. CellRect(f, c) = [x0 |-> c.x, y0 |-> c.y, x1 |-> c.x + w - 1, y1 |-> c.y + h - 1]
    BY <1>1 DEF CellRect
<1>8. CellRect(f, c) \in Rects
    BY <1>2, <1>6, <1>7 DEF Rects
<1>9. QED
    BY <1>3, <1>6, <1>8

\* Reading order comes to every cell of the grid.
LEMMA ReadingOrder ==
    ASSUME NEW f \in DOMAIN Faces, NEW c \in Corners(f)
    PROVE  \E i \in 1 .. Cols(f) * Rows(f) : c = Cell(f, i - 1)
<1>1. PICK m, n : m = Cols(f) /\ n = Rows(f)
    OBVIOUS
<1>2. m \in Nat /\ n \in Nat
    BY <1>1, FaceIs
<1>3. PICK p \in 0 .. m - 1, q \in 0 .. n - 1 : c = CellAt(f, p, q)
    BY <1>1, CornerIs
<1>4. p \in Int /\ q \in Int /\ m \in Nat \ {0} /\ 0 <= p /\ p < m /\ 0 <= q /\ q < n
    BY <1>2, <1>3
<1>5. PICK t : t = m * q
    OBVIOUS
<1>6. t \in Int /\ t + m <= m * n /\ 0 <= t /\ m * n \in Int
  <2>1. t + m <= m * n
      BY <1>2, <1>4, <1>5, MoreTimes
  <2>2. t \in Int /\ m * n \in Int
      BY <1>2, <1>4, <1>5
  <2>3. 0 <= t
    <3>1. CASE q = 0
        BY <1>4, <1>5, <3>1
    <3>2. CASE 0 < q
      <4>1. m * 0 + m <= m * q
          BY <1>4, <3>2, MoreTimes
      <4>2. QED
          BY <1>4, <1>5, <4>1
    <3>3. QED
        BY <1>4, <3>1, <3>2
  <2>4. QED
      BY <2>1, <2>2, <2>3
<1>7. PICK i : i = t + p
    OBVIOUS
<1>8. i \in Int /\ t <= i /\ i < t + m
    BY <1>4, <1>6, <1>7
<1>9. q = i \div m
    BY <1>4, <1>5, <1>8, DivIsOnly
<1>10. i % m = p
  <2>1. PICK e : e = i % m
      OBVIOUS
  <2>2. e \in 0 .. m - 1 /\ i = m * (i \div m) + e
      BY <1>4, <1>8, <2>1, WholeIs
  <2>3. i = t + e /\ e \in Int
      BY <1>4, <1>5, <1>9, <2>2
  <2>4. e = p
      BY <1>4, <1>6, <1>7, <2>3
  <2>5. QED
      BY <2>1, <2>4
<1>11. c = Cell(f, i)
    BY <1>1, <1>3, <1>9, <1>10 DEF Cell
<1>12. i + 1 \in 1 .. m * n /\ (i + 1) - 1 = i
    BY <1>4, <1>6, <1>7
<1>13. QED
    BY <1>1, <1>11, <1>12

\* tg_render() declares what every cell it draws is on.
LEMMA DamagedByIs ==
    ASSUME face \in DOMAIN Faces, NEW cells \in SUBSET Corners(face), NEW o \in 0 .. 3,
           dmg \in Seq(Rects), Len(dmg) <= DmgMax
    PROVE  /\ DamagedBy(cells) \in Seq(Rects) /\ Len(DamagedBy(cells)) <= DmgMax
           /\ CoveredBy(o, dmg) \subseteq CoveredBy(o, DamagedBy(cells))
           /\ \A c \in cells : Covered(o, CellRect(face, c)) \subseteq CoveredBy(o, DamagedBy(cells))
<1> DEFINE N == Cols(face) * Rows(face)
           D == Lists
           Add(l, i) == IF Cell(face, i - 1) \in cells THEN Damaged(l, CellRect(face, Cell(face, i - 1))) ELSE l
           F == [p \in D \X (1 .. N) |-> Add(p[1], p[2])]
           Step(f) == [i \in 0 .. N |-> IF i = 0 THEN dmg
                          ELSE IF Cell(face, i - 1) \in cells THEN Damaged(f[i - 1], CellRect(face, Cell(face, i - 1)))
                          ELSE f[i - 1]]
           fun == CHOOSE f : f = Step(f)
<1>1. N \in Nat
  <2>1. PICK m, n : m = Cols(face) /\ n = Rows(face)
      OBVIOUS
  <2>2. m \in Nat /\ n \in Nat
      BY <2>1, FaceIs
  <2>3. m * n \in Nat
      BY <2>2
  <2>4. QED
      BY <2>1, <2>3
<1>2. ASSUME NEW l \in D, NEW i \in 1 .. N
      PROVE  /\ Add(l, i) \in D /\ CoveredBy(o, l) \subseteq CoveredBy(o, Add(l, i))
             /\ Cell(face, i - 1) \in cells =>
                    Covered(o, CellRect(face, Cell(face, i - 1))) \subseteq CoveredBy(o, Add(l, i))
  <2>1. CASE Cell(face, i - 1) \in cells
    <3>1. PICK r : r = CellRect(face, Cell(face, i - 1))
        OBVIOUS
    <3>2. r \in Rects
        BY <2>1, <3>1, CornerIs
    <3>3. l \in Seq(Rects) /\ Len(l) <= DmgMax
        BY DEF Lists
    <3>4. Add(l, i) = Damaged(l, r)
        BY <2>1, <3>1
    <3> HIDE DEF Add
    <3>5. QED
        BY <3>1, <3>2, <3>3, <3>4, DamagedIs DEF Lists
  <2>2. CASE Cell(face, i - 1) \notin cells
      BY <2>2
  <2>3. QED
      BY <2>1, <2>2
<1>3. \A l \in D : \A i \in 1 .. N : F[<<l, i>>] = Add(l, i) /\ F[<<l, i>>] \in D
  <2> HIDE DEF Add, D
  <2>1. QED
      BY <1>2
<1>4. PICK g \in [0 .. N -> D] : g[0] = dmg /\ \A i \in 1 .. N : g[i] = F[<<g[i - 1], i>>]
  <2>1. dmg \in D
      BY DEF Lists
  <2> HIDE DEF F, D, N
  <2>2. PICK a, E, G, n : a = dmg /\ E = D /\ G = F /\ n = N
      OBVIOUS
  <2>3. a \in E /\ n \in Nat /\ \A d \in E : \A i \in 1 .. n : G[<<d, i>>] \in E
      BY <1>1, <1>3, <2>1, <2>2
  <2>4. \E f \in [0 .. n -> E] : Climbs(f, n, a, G)
      BY <2>3, StepsExist
  <2>5. QED
      BY <2>2, <2>4 DEF Climbs
<1>5. ASSUME NEW i \in 1 .. N PROVE g[i] = Add(g[i - 1], i)
  <2>1. i - 1 \in 0 .. N
      BY <1>1
  <2> HIDE DEF F, D, N, Add
  <2>2. g[i - 1] \in D
      BY <1>4, <2>1
  <2>3. QED
      BY <1>3, <1>4, <2>2
<1>6. g = Step(g)
  <2>1. ASSUME NEW i \in 0 .. N
        PROVE  g[i] = IF i = 0 THEN dmg
                      ELSE IF Cell(face, i - 1) \in cells THEN Damaged(g[i - 1], CellRect(face, Cell(face, i - 1)))
                      ELSE g[i - 1]
    <3>1. i = 0 \/ (i # 0 /\ i \in 1 .. N)
        BY <1>1
    <3> HIDE DEF N, F, D
    <3>2. CASE i = 0
        BY <1>4, <3>2
    <3>3. CASE i # 0 /\ i \in 1 .. N
        BY <1>5, <3>3
    <3>4. QED
        BY <3>1, <3>2, <3>3
  <2> HIDE DEF N, F, D
  <2>2. QED
      BY <1>4, <2>1
<1>7. fun = Step(fun)
  <2> HIDE DEF Step
  <2>1. QED
      BY <1>6, Zenon
<1>8. fun[0] = dmg /\ \A i \in 1 .. N : fun[i] = Add(fun[i - 1], i)
  <2>1. PICK f : f = fun
      OBVIOUS
  <2>2. f = Step(f)
      BY <1>7, <2>1
  <2> HIDE DEF fun
  <2>3. 0 \in 0 .. N /\ \A i \in 1 .. N : i \in 0 .. N /\ i # 0
      BY <1>1
  <2> HIDE DEF N
  <2>4. f[0] = dmg
      BY <2>2, <2>3
  <2>5. ASSUME NEW i \in 1 .. N PROVE f[i] = Add(f[i - 1], i)
      BY <2>2, <2>3
  <2> HIDE DEF Add
  <2>6. QED
      BY <2>1, <2>4, <2>5
<1>9. fun[N] = DamagedBy(cells)
    BY DEF DamagedBy
<1> HIDE DEF fun, Add, F, D
<1> DEFINE S == {m \in 0 .. N : /\ fun[m] \in D /\ CoveredBy(o, dmg) \subseteq CoveredBy(o, fun[m])
                               /\ \A i \in 1 .. m : Cell(face, i - 1) \in cells =>
                                      Covered(o, CellRect(face, Cell(face, i - 1))) \subseteq CoveredBy(o, fun[m])}
<1>10. 0 \in S
  <2>1. dmg \in D
      BY DEF Lists, D
  <2>2. 0 \in 0 .. N /\ \A i \in 1 .. 0 : FALSE
      BY <1>1
  <2> HIDE DEF N
  <2>3. QED
      BY <1>8, <2>1, <2>2
<1>11. ASSUME NEW m \in 0 .. N - 1, m \in S PROVE m + 1 \in S
  <2>1. m + 1 \in 1 .. N /\ m + 1 \in 0 .. N /\ m + 1 - 1 = m /\ m \in Nat
      BY <1>1
  <2> HIDE DEF N
  <2>2. PICK l : l = fun[m]
      OBVIOUS
  <2>3. PICK new : new = fun[m + 1]
      OBVIOUS
  <2>4. /\ l \in D /\ CoveredBy(o, dmg) \subseteq CoveredBy(o, l)
        /\ \A i \in 1 .. m : Cell(face, i - 1) \in cells =>
               Covered(o, CellRect(face, Cell(face, i - 1))) \subseteq CoveredBy(o, l)
      BY <1>11, <2>2
  <2>5. new = Add(l, m + 1)
      BY <1>8, <2>1, <2>2, <2>3
  <2>6. /\ new \in D /\ CoveredBy(o, l) \subseteq CoveredBy(o, new)
        /\ Cell(face, m + 1 - 1) \in cells =>
               Covered(o, CellRect(face, Cell(face, m + 1 - 1))) \subseteq CoveredBy(o, new)
      BY <1>2, <2>1, <2>4, <2>5
  <2>7. \A i \in 1 .. m + 1 : i \in 1 .. m \/ i = m + 1
      BY <2>1
  <2>8. \A i \in 1 .. m + 1 : Cell(face, i - 1) \in cells =>
            Covered(o, CellRect(face, Cell(face, i - 1))) \subseteq CoveredBy(o, new)
    <3>1. ASSUME NEW i \in 1 .. m + 1, Cell(face, i - 1) \in cells
          PROVE  Covered(o, CellRect(face, Cell(face, i - 1))) \subseteq CoveredBy(o, new)
      <4>1. CASE i \in 1 .. m
        <5>1. Covered(o, CellRect(face, Cell(face, i - 1))) \subseteq CoveredBy(o, l)
            BY <2>4, <3>1, <4>1
        <5>2. QED
            BY <2>6, <5>1
      <4>2. CASE i = m + 1
          BY <2>6, <3>1, <4>2
      <4>3. QED
          BY <2>7, <4>1, <4>2
    <3>2. QED
        BY <3>1
  <2>9. CoveredBy(o, dmg) \subseteq CoveredBy(o, new)
      BY <2>4, <2>6
  <2>10. QED
      BY <2>1, <2>3, <2>6, <2>8, <2>9
<1>12. N \in S
  <2> HIDE DEF S
  <2>1. \A j \in 0 .. N - 1 : j \in S => j + 1 \in S
      BY <1>11
  <2> HIDE DEF N
  <2>2. \A j \in 0 .. N : j \in S
    <3>1. N \in Int /\ 0 \in Int
        BY <1>1
    <3>2. QED
        BY <1>10, <2>1, <3>1, GoingUp
  <2>3. QED
      BY <1>1, <2>2
<1>13. PICK new : new = DamagedBy(cells)
    OBVIOUS
<1>14. /\ new \in D /\ CoveredBy(o, dmg) \subseteq CoveredBy(o, new)
       /\ \A i \in 1 .. N : Cell(face, i - 1) \in cells =>
              Covered(o, CellRect(face, Cell(face, i - 1))) \subseteq CoveredBy(o, new)
    BY <1>9, <1>12, <1>13
<1>15. ASSUME NEW c \in cells PROVE Covered(o, CellRect(face, c)) \subseteq CoveredBy(o, new)
  <2>1. PICK i \in 1 .. N : c = Cell(face, i - 1)
      BY ReadingOrder
  <2>2. QED
      BY <1>14, <2>1
<1>16. QED
    BY <1>13, <1>14, <1>15 DEF Lists, D

-----------------------------------------------------------------------------
\* A block's cell: where its pixels are as the panel is held.
BlockX(o, b) == IF o \in {0, 3} THEN 2 * b[2] ELSE Width - 1 - 2 * b[2]
BlockY(o, b) == IF o \in {0, 1} THEN 12 * b[1] ELSE Height - 1 - 12 * b[1]
InPage(o, b) == /\ MarginX <= BlockX(o, b) /\ BlockX(o, b) < Width - MarginX
                /\ MarginTop <= BlockY(o, b) /\ BlockY(o, b) < Height

LEMMA SameTimes ==
    ASSUME NEW a \in Int, NEW b \in Int, NEW n \in Nat \ {0}, n * a = n * b
    PROVE  a = b
<1>1. CASE a < b
  <2>1. n * a + n <= n * b
      BY <1>1, MoreTimes
  <2>2. n * a \in Int
      OBVIOUS
  <2>3. QED
      BY <2>1, <2>2
<1>2. CASE b < a
  <2>1. n * b + n <= n * a
      BY <1>2, MoreTimes
  <2>2. n * a \in Int
      OBVIOUS
  <2>3. QED
      BY <2>1, <2>2
<1>3. QED
    BY <1>1, <1>2

\* A number is in one of m spans of n exactly when it is below all of them together.
LEMMA SpanIs ==
    ASSUME NEW a \in Int, NEW n \in Nat \ {0}, NEW m \in Nat
    PROVE  a \div n \in 0 .. m - 1 <=> 0 <= a /\ a < n * m
<1>1. PICK q : q = a \div n
    OBVIOUS
<1>2. q \in Int /\ n * q <= a /\ a < n * q + n
    BY <1>1, DivIs
<1>3. n * q \in Int /\ n * m \in Int
    BY <1>2
<1>4. ASSUME 0 <= q, q < m PROVE 0 <= a /\ a < n * m
  <2>1. n * q + n <= n * m
      BY <1>2, <1>4, MoreTimes
  <2>2. 0 <= n * q
    <3>1. CASE q = 0
        BY <3>1
    <3>2. CASE 0 < q
      <4>1. n * 0 + n <= n * q
          BY <1>2, <3>2, MoreTimes
      <4>2. QED
          BY <1>3, <4>1
    <3>3. QED
        BY <1>2, <1>4, <3>1, <3>2
  <2>3. QED
      BY <1>2, <1>3, <2>1, <2>2
<1>5. ASSUME 0 <= a, a < n * m PROVE 0 <= q /\ q < m
  <2>1. 0 <= q
    <3>1. SUFFICES ASSUME q < 0 PROVE FALSE
        BY <1>2
    <3>2. n * q + n <= n * 0
        BY <1>2, <3>1, MoreTimes
    <3>3. QED
        BY <1>2, <1>3, <1>5, <3>2
  <2>2. q < m
    <3>1. SUFFICES ASSUME ~(q < m) PROVE FALSE
        OBVIOUS
    <3>2. n * m <= n * q
      <4>1. CASE m = q
          BY <1>3, <4>1
      <4>2. CASE m < q
        <5>1. n * m + n <= n * q
            BY <1>2, <4>2, MoreTimes
        <5>2. QED
            BY <1>3, <5>1
      <4>3. QED
          BY <1>2, <3>1, <4>1, <4>2
    <3>3. QED
        BY <1>2, <1>3, <1>5, <3>2
  <2>3. QED
      BY <2>1, <2>2
<1>6. q \in 0 .. m - 1 <=> 0 <= q /\ q < m
    BY <1>2
<1>7. QED
    BY <1>1, <1>4, <1>5, <1>6

LEMMA BlockIs ==
    ASSUME NEW o \in 0 .. 3, NEW b \in Blocks
    PROVE  /\ b[1] \in Int /\ b[2] \in Int /\ b = <<b[1], b[2]>>
           /\ BlockX(o, b) \in 0 .. Width - 1 /\ BlockY(o, b) \in 0 .. Height - 1
<1>1. PICK w, h : w = Width \div 2 /\ h = Height \div 12
    OBVIOUS
<1>2. /\ Width \in Int /\ Height \in Int /\ w \in Int /\ h \in Int
      /\ 2 * w <= Width /\ 12 * h <= Height
    BY <1>1, PanelAssumption
<1>3. b[1] \in 0 .. h - 1 /\ b[2] \in 0 .. w - 1 /\ b = <<b[1], b[2]>>
    BY <1>1 DEF Blocks
<1>4. BlockX(o, b) \in 0 .. Width - 1
  <2>1. CASE o \in {0, 3}
      BY <1>2, <1>3, <2>1 DEF BlockX
  <2>2. CASE o \notin {0, 3}
      BY <1>2, <1>3, <2>2 DEF BlockX
  <2>3. QED
      BY <2>1, <2>2
<1>5. BlockY(o, b) \in 0 .. Height - 1
  <2>1. CASE o \in {0, 1}
      BY <1>2, <1>3, <2>1 DEF BlockY
  <2>2. CASE o \notin {0, 1}
      BY <1>2, <1>3, <2>2 DEF BlockY
  <2>3. QED
      BY <2>1, <2>2
<1>6. QED
    BY <1>2, <1>3, <1>4, <1>5

LEMMA CellOfIs ==
    ASSUME NEW f \in DOMAIN Faces, NEW o \in 0 .. 3, NEW b \in Blocks
    PROVE  /\ CellOf(f, o, b) \in Corners(f) <=> InPage(o, b)
           /\ b \in Covered(o, CellRect(f, CellOf(f, o, b)))
<1>1. PICK w, h, x, y : w = Faces[f].w /\ h = Faces[f].h /\ x = BlockX(o, b) /\ y = BlockY(o, b)
    OBVIOUS
<1>2. /\ w \in Nat \ {0} /\ h \in Nat \ {0} /\ Cols(f) \in Nat /\ Rows(f) \in Nat
      /\ w * Cols(f) = Width - 2 * MarginX /\ h * Rows(f) = Height - MarginTop
      /\ MarginX \in Int /\ MarginTop \in Int /\ Width \in Int /\ Height \in Int
    BY <1>1, FaceIs, FacesAssumption, PanelAssumption
<1>3. x \in 0 .. Width - 1 /\ y \in 0 .. Height - 1
    BY <1>1, BlockIs
<1>4. PICK p, q, i, j : p = x - MarginX /\ q = y - MarginTop /\ i = p \div w /\ j = q \div h
    OBVIOUS
<1>5. p \in Int /\ q \in Int /\ x \in Int /\ y \in Int
    BY <1>2, <1>3, <1>4
<1>6. /\ i \in Int /\ w * i <= p /\ p < w * i + w
      /\ j \in Int /\ h * j <= q /\ q < h * j + h
    BY <1>2, <1>4, <1>5, DivIs
<1>7. CellOf(f, o, b) = CellAt(f, i, j)
    BY <1>1, <1>4 DEF CellOf, BlockX, BlockY
<1>8. CellOf(f, o, b) \in Corners(f) <=> i \in 0 .. Cols(f) - 1 /\ j \in 0 .. Rows(f) - 1
  <2>1. ASSUME CellAt(f, i, j) \in Corners(f) PROVE i \in 0 .. Cols(f) - 1 /\ j \in 0 .. Rows(f) - 1
    <3>1. PICK k \in 0 .. Cols(f) - 1, m \in 0 .. Rows(f) - 1 : CellAt(f, i, j) = CellAt(f, k, m)
        BY <2>1, CornerIs
    <3>2. k \in Int /\ m \in Int
        BY <1>2
    <3>3. MarginX + w * i = MarginX + w * k /\ MarginTop + h * j = MarginTop + h * m
        BY <1>1, <3>1 DEF CellAt
    <3>4. w * i \in Int /\ w * k \in Int /\ h * j \in Int /\ h * m \in Int
        BY <1>2, <1>6, <3>2
    <3>5. w * i = w * k /\ h * j = h * m
        BY <1>2, <3>3, <3>4
    <3>6. i = k /\ j = m
        BY <1>2, <1>6, <3>2, <3>5, SameTimes
    <3>7. QED
        BY <3>6
  <2>2. ASSUME i \in 0 .. Cols(f) - 1, j \in 0 .. Rows(f) - 1 PROVE CellAt(f, i, j) \in Corners(f)
      BY <2>2 DEF Corners, CornersOf
  <2>3. QED
      BY <1>7, <2>1, <2>2
<1>9. i \in 0 .. Cols(f) - 1 <=> 0 <= p /\ p < Width - 2 * MarginX
    BY <1>2, <1>4, <1>5, SpanIs
<1>10. j \in 0 .. Rows(f) - 1 <=> 0 <= q /\ q < Height - MarginTop
    BY <1>2, <1>4, <1>5, SpanIs
<1>11. CellOf(f, o, b) \in Corners(f) <=> InPage(o, b)
  <2>1. InPage(o, b) <=> /\ MarginX <= x /\ x < Width - MarginX /\ MarginTop <= y /\ y < Height
      BY <1>1 DEF InPage
  <2>2. /\ 0 <= p /\ p < Width - 2 * MarginX <=> MarginX <= x /\ x < Width - MarginX
        /\ 0 <= q /\ q < Height - MarginTop <=> MarginTop <= y /\ y < Height
      BY <1>2, <1>4, <1>5
  <2>3. QED
      BY <1>8, <1>9, <1>10, <2>1, <2>2
<1>12. PICK cx, cy, r : /\ cx = MarginX + w * i /\ cy = MarginTop + h * j
                        /\ r = CellRect(f, CellOf(f, o, b))
    OBVIOUS
<1>13. /\ cx \in Int /\ cy \in Int /\ cx <= x /\ x <= cx + w - 1 /\ cy <= y /\ y <= cy + h - 1
  <2>1. w * i \in Int /\ h * j \in Int
      BY <1>2, <1>6
  <2>2. QED
      BY <1>2, <1>4, <1>5, <1>6, <1>12, <2>1
<1>14. r = [x0 |-> cx, y0 |-> cy, x1 |-> cx + w - 1, y1 |-> cy + h - 1]
    BY <1>1, <1>7, <1>12 DEF CellRect, CellAt
<1>15. r \in Rects
    BY <1>2, <1>13, <1>14 DEF Rects
<1>16. /\ LowX(o, r) <= 2 * b[2] /\ 2 * b[2] <= HighX(o, r)
       /\ LowY(o, r) <= 12 * b[1] /\ 12 * b[1] <= HighY(o, r)
  <2>1. b[1] \in Int /\ b[2] \in Int
      BY BlockIs
  <2>2. r.x0 = cx /\ r.x1 = cx + w - 1 /\ r.y0 = cy /\ r.y1 = cy + h - 1
      BY <1>14
  <2>3. LowX(o, r) <= 2 * b[2] /\ 2 * b[2] <= HighX(o, r)
    <3>1. CASE o \in {0, 3}
        BY <1>1, <1>2, <1>13, <2>1, <2>2, <3>1 DEF LowX, HighX, BlockX
    <3>2. CASE o \notin {0, 3}
        BY <1>1, <1>2, <1>13, <2>1, <2>2, <3>2 DEF LowX, HighX, BlockX
    <3>3. QED
        BY <3>1, <3>2
  <2>4. LowY(o, r) <= 12 * b[1] /\ 12 * b[1] <= HighY(o, r)
    <3>1. CASE o \in {0, 1}
        BY <1>1, <1>2, <1>13, <2>1, <2>2, <3>1 DEF LowY, HighY, BlockY
    <3>2. CASE o \notin {0, 1}
        BY <1>1, <1>2, <1>13, <2>1, <2>2, <3>2 DEF LowY, HighY, BlockY
    <3>3. QED
        BY <3>1, <3>2
  <2>5. QED
      BY <2>3, <2>4
<1>17. b \in Covered(o, r)
  <2>1. /\ b[1] \in Int /\ b[2] \in Int /\ LowX(o, r) \in Int /\ HighX(o, r) \in Int
        /\ LowY(o, r) \in Int /\ HighY(o, r) \in Int
      BY <1>15, BlockIs, WindowIs
  <2>2. (2 * b[2]) \div 2 = b[2] /\ (12 * b[1]) \div 12 = b[1]
      BY <2>1
  <2>3. /\ LowX(o, r) \div 2 <= (2 * b[2]) \div 2 /\ (2 * b[2]) \div 2 <= HighX(o, r) \div 2
        /\ LowY(o, r) \div 12 <= (12 * b[1]) \div 12 /\ (12 * b[1]) \div 12 <= HighY(o, r) \div 12
    <3>1. 2 * b[2] \in Int /\ 12 * b[1] \in Int
        BY <2>1
    <3>2. QED
        BY <1>16, <2>1, <3>1, DivUp
  <2>4. QED
      BY <1>15, <2>2, <2>3, CoveredIs
<1>18. QED
    BY <1>11, <1>12, <1>17

\* The whole panel is every block.
LEMMA AllIsCovered ==
    ASSUME NEW o \in 0 .. 3
    PROVE  /\ Everything \in Seq(Rects) /\ Len(Everything) <= DmgMax
           /\ Blocks \subseteq CoveredBy(o, Everything)
<1>1. PICK r : r = [x0 |-> 0, y0 |-> 0, x1 |-> Width - 1, y1 |-> Height - 1]
    OBVIOUS
<1>2. Width \in Nat \ {0} /\ Height \in Nat \ {0} /\ DmgMax \in Nat /\ 1 <= DmgMax
    BY PanelAssumption
<1>3. r \in Rects
    BY <1>1, <1>2 DEF Rects
<1>4. Everything = <<r>> /\ DOMAIN Everything = {1} /\ Everything[1] = r
    BY <1>1 DEF Everything
<1>5. ASSUME NEW b \in Blocks PROVE b \in Covered(o, r)
  <2>1. LowX(o, r) = 0 /\ HighX(o, r) = Width - 1 /\ LowY(o, r) = 0 /\ HighY(o, r) = Height - 1
      BY <1>1, <1>2 DEF LowX, HighX, LowY, HighY
  <2>2. PICK w, h : w = Width \div 2 /\ h = Height \div 12
      OBVIOUS
  <2>3. (Width - 1) \div 2 = w - 1 /\ (Height - 1) \div 12 = h - 1
      BY <2>2, PanelAssumption
  <2>4. b[1] \in 0 .. h - 1 /\ b[2] \in 0 .. w - 1 /\ w \in Int /\ h \in Int
      BY <1>2, <2>2 DEF Blocks
  <2>5. 0 \div 12 = 0 /\ 0 \div 2 = 0
      OBVIOUS
  <2>6. QED
      BY <1>3, <2>1, <2>3, <2>4, <2>5, CoveredIs
<1>6. QED
    BY <1>2, <1>3, <1>4, <1>5 DEF CoveredBy

-----------------------------------------------------------------------------
\* The glass: the inductive invariant, and what a step of the loop does to it.
GlassTyped == /\ orient \in 0 .. 3 /\ dmg \in Seq(Rects) /\ Len(dmg) <= DmgMax
              /\ stale \in SUBSET Blocks /\ lost \in SUBSET Blocks
              /\ face \in DOMAIN Faces /\ DOMAIN txt = Corners(face) /\ dirty \in SUBSET Corners(face)
TurnedOneWay == turnOrient = -1 \/ \A g \in DOMAIN turned : turned[g] = turnOrient
PushedBetween == phase \notin {"pin push", "push", "blink push", "draw"} => dmg = << >>
DrawnWhenDue == phase = "draw" => needDraw
TextIsThePage == ~needDraw /\ phase # "pin push" => dirty = {} /\ txt = Page(cursorOn)
GlassInv == /\ GlassTyped /\ TurnedOneWay /\ StaleIsDamaged /\ CleanCellIsDrawn
            /\ PushedBetween /\ DrawnWhenDue /\ TextIsThePage

LEMMA PageIs ==
    ASSUME NEW at PROVE DOMAIN Page(at) = Corners(face) /\ DOMAIN PinPage = Corners(face)
    BY DEF Page, PinPage

LEMMA StaleCovered == StaleIsDamaged <=> stale \subseteq lost \cup CoveredBy(orient, dmg)
    BY DEF StaleIsDamaged, CoveredBy

\* What a step that leaves the panel and the grid alone leaves true.
LEMMA GlassAlone ==
    ASSUME GlassTyped, TurnedOneWay, StaleIsDamaged, CleanCellIsDrawn, UNCHANGED <<panelVars, gridVars>>
    PROVE  GlassTyped' /\ TurnedOneWay' /\ StaleIsDamaged' /\ CleanCellIsDrawn'
<1>1. /\ orient' = orient /\ dmg' = dmg /\ stale' = stale /\ lost' = lost
      /\ face' = face /\ txt' = txt /\ dirty' = dirty /\ fb' = fb /\ turned' = turned /\ turnOrient' = turnOrient
    BY DEF panelVars, gridVars
<1>2. GlassTyped' /\ TurnedOneWay'
    BY <1>1 DEF GlassTyped, TurnedOneWay
<1>3. StaleIsDamaged'
    BY <1>1 DEF StaleIsDamaged
<1>4. CleanCellIsDrawn'
    BY <1>1 DEF CleanCellIsDrawn, InCell
<1>5. QED
    BY <1>2, <1>3, <1>4

\* tg_render(): all that is written is drawn, and all that is drawn is damaged.
LEMMA RenderKeeps ==
    ASSUME GlassTyped, TurnedOneWay, StaleIsDamaged, CleanCellIsDrawn,
           NEW page, DOMAIN page = Corners(face), Render(page)
    PROVE  /\ GlassTyped' /\ TurnedOneWay' /\ StaleIsDamaged' /\ CleanCellIsDrawn'
           /\ txt' = page /\ dirty' = {} /\ face' = face
<1> DEFINE cells == dirty \cup {c \in DOMAIN page : page[c] # txt[c]}
           had == Ready(turned)
           now == [g \in DOMAIN had \cup {page[c] : c \in cells} |-> IF g \in DOMAIN had THEN had[g] ELSE orient]
           of == [b \in Blocks |-> CellOf(face, orient, b)]
<1>1. /\ txt' = page /\ dirty' = {} /\ turned' = now /\ turnOrient' = orient
      /\ fb' = [b \in Blocks |-> IF of[b] \notin cells THEN fb[b]
                                 ELSE Look(face, of[b], page[of[b]], now[page[of[b]]])]
      /\ dmg' = DamagedBy(cells)
      /\ stale' = stale \cup {b \in Blocks : of[b] \in cells}
      /\ orient' = orient /\ lost' = lost /\ face' = face
    BY DEF Render
<1>2. cells \in SUBSET Corners(face)
    BY DEF GlassTyped
<1>3. \A g \in DOMAIN now : now[g] = orient
  <2>1. \A g \in DOMAIN had : had[g] = orient
    <3>1. CASE turnOrient = orient
      <4>1. turnOrient # -1
          BY <3>1 DEF GlassTyped
      <4>2. QED
          BY <3>1, <4>1 DEF Ready, TurnedOneWay
    <3>2. CASE turnOrient # orient
        BY <3>2 DEF Ready, NoGlyphs
    <3>3. QED
        BY <3>1, <3>2
  <2> HIDE DEF had
  <2>2. QED
      BY <2>1
<1>4. \A c \in cells : now[page[c]] = orient
  <2> HIDE DEF had
  <2>1. \A c \in cells : page[c] \in DOMAIN now
      OBVIOUS
  <2>2. QED
      BY <1>3, <2>1
<1>5. \A b \in Blocks : of[b] = CellOf(face, orient, b)
    OBVIOUS
<1> HIDE DEF had, now, of
<1>6. PICK new : new = DamagedBy(cells)
    OBVIOUS
<1>7. /\ new \in Seq(Rects) /\ Len(new) <= DmgMax
      /\ CoveredBy(orient, dmg) \subseteq CoveredBy(orient, new)
      /\ \A c \in cells : Covered(orient, CellRect(face, c)) \subseteq CoveredBy(orient, new)
  <2>1. face \in DOMAIN Faces /\ orient \in 0 .. 3 /\ dmg \in Seq(Rects) /\ Len(dmg) <= DmgMax
      BY DEF GlassTyped
  <2>2. PICK o : o = orient
      OBVIOUS
  <2>3. o \in 0 .. 3
      BY <2>1, <2>2
  <2> HIDE DEF cells
  <2>4. QED
      BY <1>2, <1>6, <2>1, <2>2, <2>3, DamagedByIs
<1> HIDE DEF cells
<1>8. GlassTyped'
  <2>1. stale' \in SUBSET Blocks
      BY <1>1 DEF GlassTyped
  <2>2. Corners(face)' = Corners(face)
      BY <1>1 DEF Corners
  <2>3. DOMAIN txt' = Corners(face)' /\ dirty' \in SUBSET Corners(face)'
      BY <1>1, <2>2
  <2>4. QED
      BY <1>1, <1>6, <1>7, <2>1, <2>3 DEF GlassTyped
<1>9. TurnedOneWay'
    BY <1>1, <1>3 DEF TurnedOneWay
<1>10. StaleIsDamaged'
  <2>1. ASSUME NEW b \in stale' PROVE b \in lost \cup CoveredBy(orient, new)
    <3>1. CASE b \in stale
        BY <1>7, <3>1, StaleCovered
    <3>2. CASE b \in Blocks /\ of[b] \in cells
      <4>1. b \in Covered(orient, CellRect(face, CellOf(face, orient, b)))
          BY <3>2, CellOfIs DEF GlassTyped
      <4>2. QED
          BY <1>5, <1>7, <3>2, <4>1
    <3>3. QED
        BY <1>1, <2>1, <3>1, <3>2
  <2>2. stale' \subseteq lost' \cup CoveredBy(orient, dmg')
      BY <1>1, <1>6, <2>1
  <2>3. QED
      BY <1>1, <2>2 DEF StaleIsDamaged, CoveredBy
<1>11. CleanCellIsDrawn'
  <2>1. ASSUME NEW b \in Blocks, NEW c, c = CellOf(face, orient, b)
        PROVE  fb'[b] = IF c \in DOMAIN page THEN Look(face, c, page[c], orient) ELSE Blank
    <3>1. of[b] = c
        BY <1>5, <2>1
    <3>2. CASE c \in cells
      <4>1. fb'[b] = Look(face, c, page[c], now[page[c]])
          BY <1>1, <3>1, <3>2
      <4>2. c \in DOMAIN page
          BY <1>2, <3>2
      <4>3. QED
          BY <1>4, <3>2, <4>1, <4>2
    <3>3. CASE c \notin cells
      <4>1. fb'[b] = fb[b]
          BY <1>1, <3>1, <3>3
      <4>2. c \notin dirty /\ (c \in DOMAIN page => page[c] = txt[c])
          BY <3>3 DEF cells
      <4>3. fb[b] = InCell(c, txt)
          BY <2>1, <4>2 DEF CleanCellIsDrawn
      <4>4. DOMAIN txt = DOMAIN page
          BY DEF GlassTyped
      <4>5. QED
          BY <4>1, <4>2, <4>3, <4>4 DEF InCell
    <3>4. QED
        BY <3>2, <3>3
  <2>2. QED
      BY <1>1, <2>1 DEF CleanCellIsDrawn, InCell
<1>12. QED
    BY <1>1, <1>8, <1>9, <1>10, <1>11

\* What a page shows when nothing it is made of changes.
LEMMA SamePage ==
    ASSUME doc' = doc, face' = face, cursorOn' = cursorOn
    PROVE  Page(cursorOn)' = Page(cursorOn)
    BY DEF Page, Corners

LEMMA GlassStart == GridInit => GlassInv
<1>1. SUFFICES ASSUME GridInit PROVE GlassInv
    OBVIOUS
<1>2. /\ orient = 0 /\ dmg = << >> /\ stale = {} /\ lost = {} /\ face = "low"
      /\ txt = [c \in Corners(face) |-> " "] /\ dirty = {} /\ fb = [b \in Blocks |-> Blank]
      /\ turnOrient = -1 /\ needDraw = TRUE /\ phase = "wait"
    BY <1>1 DEF GridInit, PanelInit
<1>3. GlassTyped
  <2>1. << >> \in Seq(Rects) /\ Len(<< >>) <= DmgMax /\ "low" \in DOMAIN Faces
      BY FacesAssumption, PanelAssumption
  <2>2. DOMAIN txt = Corners(face) /\ dirty \in SUBSET Corners(face)
      BY <1>2
  <2>3. orient \in 0 .. 3 /\ dmg \in Seq(Rects) /\ Len(dmg) <= DmgMax /\ face \in DOMAIN Faces
    <3>1. 0 \in 0 .. 3
        OBVIOUS
    <3>2. QED
        BY <1>2, <2>1, <3>1, Zenon
  <2>4. stale \in SUBSET Blocks /\ lost \in SUBSET Blocks
      BY <1>2
  <2>5. QED
      BY <2>2, <2>3, <2>4 DEF GlassTyped
<1>4. TurnedOneWay /\ StaleIsDamaged /\ PushedBetween /\ DrawnWhenDue /\ TextIsThePage
    BY <1>2 DEF TurnedOneWay, StaleIsDamaged, PushedBetween, DrawnWhenDue, TextIsThePage
<1>5. CleanCellIsDrawn
    BY <1>2 DEF CleanCellIsDrawn, InCell, Look
<1>6. QED
    BY <1>3, <1>4, <1>5 DEF GlassInv

LEMMA GlassStep == GlassInv /\ [GridNext]_glassVars => GlassInv'
<1>1. SUFFICES ASSUME GlassInv, [GridNext]_glassVars PROVE GlassInv'
    OBVIOUS
<1>2. /\ GlassTyped /\ TurnedOneWay /\ StaleIsDamaged /\ CleanCellIsDrawn
      /\ PushedBetween /\ DrawnWhenDue /\ TextIsThePage
    BY <1>1 DEF GlassInv
<1> USE DEF SameLoop, From
<1>3. CASE Key
  <2>1. UNCHANGED <<panelVars, gridVars>> /\ phase' = phase /\ phase = "wait" /\ needDraw' = TRUE
      BY <1>3 DEF Key
  <2>2. GlassTyped' /\ TurnedOneWay' /\ StaleIsDamaged' /\ CleanCellIsDrawn'
      BY <1>2, <2>1, GlassAlone
  <2>3. PushedBetween' /\ DrawnWhenDue' /\ TextIsThePage'
      BY <1>2, <2>1 DEF PushedBetween, DrawnWhenDue, TextIsThePage, panelVars
  <2>4. QED
      BY <2>2, <2>3 DEF GlassInv
<1>4. CASE Density
  <2>1. PICK f \in DOMAIN Faces : face' = f /\ txt' = [c \in Corners(f) |-> " "] /\ dirty' = Corners(f)
      BY <1>4 DEF Density
  <2>2. /\ phase = "wait" /\ needDraw' = TRUE /\ turnOrient' = -1 /\ phase' = phase
        /\ orient' = orient /\ dmg' = dmg /\ stale' = stale /\ lost' = lost /\ fb' = fb
      BY <1>4 DEF Density, panelVars
  <2>3. Corners(face)' = Corners(f)
      BY <2>1 DEF Corners
  <2>4. GlassTyped'
    <3>1. DOMAIN txt' = Corners(face)' /\ dirty' \in SUBSET Corners(face)'
        BY <2>1, <2>3
    <3>2. QED
        BY <1>2, <2>1, <2>2, <3>1 DEF GlassTyped
  <2>5. TurnedOneWay' /\ StaleIsDamaged' /\ PushedBetween' /\ DrawnWhenDue' /\ TextIsThePage'
      BY <1>2, <2>2 DEF TurnedOneWay, StaleIsDamaged, PushedBetween, DrawnWhenDue, TextIsThePage
  <2>6. CleanCellIsDrawn'
    <3>1. ASSUME NEW b \in Blocks, CellOf(f, orient, b) \notin dirty'
          PROVE  fb[b] = Blank /\ CellOf(f, orient, b) \notin DOMAIN txt'
      <4>1. orient \in 0 .. 3 /\ face \in DOMAIN Faces /\ DOMAIN txt = Corners(face) /\ dirty \subseteq Corners(face)
          BY <1>2 DEF GlassTyped
      <4>2. CellOf(f, orient, b) \notin Corners(f)
          BY <2>1, <3>1
      <4>3. PICK c : c = CellOf(face, orient, b)
          OBVIOUS
      <4>4. c \notin Corners(face)
          BY <4>1, <4>2, <4>3, CellOfIs
      <4>5. fb[b] = InCell(c, txt)
          BY <1>2, <4>1, <4>3, <4>4 DEF CleanCellIsDrawn
      <4>6. fb[b] = Blank
          BY <4>1, <4>4, <4>5 DEF InCell
      <4>7. QED
          BY <2>1, <4>2, <4>6
    <3>2. QED
        BY <2>1, <2>2, <3>1 DEF CleanCellIsDrawn, InCell
  <2>7. QED
      BY <2>4, <2>5, <2>6 DEF GlassInv
<1>5. CASE PasskeyAsked \/ Nothing \/ NoTap \/ NoBlink
  <2>1. /\ UNCHANGED <<panelVars, gridVars>> /\ needDraw' = needDraw /\ doc' = doc /\ cursorOn' = cursorOn
        /\ phase \in {"wait", "key", "blink"}
        /\ phase' \in {"wait", "pin", "key", "blink"} \/ (phase' = "draw" /\ needDraw)
      BY <1>5 DEF PasskeyAsked, Nothing, NoTap, NoBlink
  <2>2. GlassTyped' /\ TurnedOneWay' /\ StaleIsDamaged' /\ CleanCellIsDrawn'
      BY <1>2, <2>1, GlassAlone
  <2>3. dmg' = dmg /\ dirty' = dirty /\ txt' = txt /\ face' = face
      BY <2>1 DEF panelVars, gridVars
  <2>4. PushedBetween' /\ DrawnWhenDue'
      BY <1>2, <2>1, <2>3 DEF PushedBetween, DrawnWhenDue
  <2>5. TextIsThePage'
    <3>1. Page(cursorOn)' = Page(cursorOn)
        BY <2>1, <2>3, SamePage
    <3>2. phase # "pin push"
        BY <2>1
    <3>3. QED
        BY <1>2, <2>1, <2>3, <3>1, <3>2 DEF TextIsThePage
  <2>6. QED
      BY <2>2, <2>4, <2>5 DEF GlassInv
<1>6. CASE DrawPin
  <2>1. Render(PinPage) /\ phase' = "pin push"
      BY <1>6 DEF DrawPin
  <2>2. PICK page : page = PinPage
      OBVIOUS
  <2>3. DOMAIN page = Corners(face) /\ Render(page)
      BY <2>1, <2>2, PageIs
  <2>4. GlassTyped' /\ TurnedOneWay' /\ StaleIsDamaged' /\ CleanCellIsDrawn'
      BY <1>2, <2>3, RenderKeeps
  <2>5. QED
      BY <2>1, <2>4 DEF GlassInv, PushedBetween, DrawnWhenDue, TextIsThePage
<1>7. CASE PushPin
  <2>1. /\ Flush(Everything) /\ phase' = "key" /\ dirty' = Corners(face) /\ needDraw' = TRUE
        /\ face' = face /\ txt' = txt /\ fb' = fb /\ turned' = turned /\ turnOrient' = turnOrient
      BY <1>7 DEF PushPin
  <2>2. PICK list : list = Everything
      OBVIOUS
  <2>3. list \in Seq(Rects) /\ Flush(list) /\ orient \in 0 .. 3 /\ stale \in SUBSET Blocks /\ lost \in SUBSET Blocks
      BY <1>2, <2>1, <2>2, AllIsCovered DEF GlassTyped
  <2>4. stale \subseteq lost \cup CoveredBy(orient, list)
      BY <2>2, <2>3, AllIsCovered
  <2>5. /\ dmg' = << >> /\ orient' = orient /\ stale' \in SUBSET Blocks /\ stale' \subseteq lost'
        /\ lost' \in SUBSET Blocks
      BY <2>3, <2>4, FlushTells
  <2>6. Corners(face)' = Corners(face)
      BY <2>1 DEF Corners
  <2>7. GlassTyped'
    <3>1. DOMAIN txt' = Corners(face)' /\ dirty' \in SUBSET Corners(face)'
        BY <1>2, <2>1, <2>6 DEF GlassTyped
    <3>2. << >> \in Seq(Rects) /\ Len(<< >>) <= DmgMax
        BY PanelAssumption
    <3>3. QED
        BY <1>2, <2>1, <2>3, <2>5, <3>1, <3>2 DEF GlassTyped
  <2>8. TurnedOneWay' /\ StaleIsDamaged' /\ PushedBetween' /\ DrawnWhenDue' /\ TextIsThePage'
      BY <1>2, <2>1, <2>5 DEF TurnedOneWay, StaleIsDamaged, PushedBetween, DrawnWhenDue, TextIsThePage
  <2>9. CleanCellIsDrawn'
    <3>1. ASSUME NEW b \in Blocks, NEW c, c = CellOf(face, orient, b)
          PROVE  c \in Corners(face) \/ fb[b] = IF c \in DOMAIN txt THEN Look(face, c, txt[c], orient) ELSE Blank
        BY <1>2, <3>1 DEF CleanCellIsDrawn, InCell, GlassTyped
    <3>2. QED
        BY <2>1, <2>5, <3>1 DEF CleanCellIsDrawn, InCell
  <2>10. QED
      BY <2>7, <2>8, <2>9 DEF GlassInv
<1>8. CASE KeyTap
  <2>1. /\ orient' = (orient + 1) % 4 /\ dirty' = Corners(face) /\ needDraw' = TRUE /\ phase' = "draw"
        /\ dmg' = Everything /\ stale' = Blocks /\ fb' = [b \in Blocks |-> Blank]
        /\ face' = face /\ txt' = txt /\ turned' = turned /\ turnOrient' = turnOrient /\ lost' = lost
      BY <1>8 DEF KeyTap
  <2>2. orient' \in 0 .. 3
    <3>1. orient + 1 \in Int
        BY <1>2 DEF GlassTyped
    <3>2. QED
        BY <2>1, <3>1
  <2>3. /\ Everything \in Seq(Rects) /\ Len(Everything) <= DmgMax
        /\ Blocks \subseteq CoveredBy(orient', Everything)
    <3>1. PICK o : o = orient'
        OBVIOUS
    <3>2. QED
        BY <2>2, <3>1, AllIsCovered
  <2>4. Corners(face)' = Corners(face)
      BY <2>1 DEF Corners
  <2>5. GlassTyped'
    <3>1. DOMAIN txt' = Corners(face)' /\ dirty' \in SUBSET Corners(face)'
        BY <1>2, <2>1, <2>4 DEF GlassTyped
    <3>2. QED
        BY <1>2, <2>1, <2>2, <2>3, <3>1 DEF GlassTyped
  <2>6. TurnedOneWay' /\ PushedBetween' /\ DrawnWhenDue' /\ TextIsThePage'
      BY <1>2, <2>1 DEF TurnedOneWay, PushedBetween, DrawnWhenDue, TextIsThePage
  <2>7. StaleIsDamaged'
    <3>1. stale' \subseteq lost' \cup CoveredBy(orient', dmg')
        BY <2>1, <2>3
    <3>2. QED
        BY <3>1 DEF StaleIsDamaged, CoveredBy
  <2>8. CleanCellIsDrawn'
    <3>1. DOMAIN txt' = dirty'
        BY <1>2, <2>1 DEF GlassTyped
    <3>2. \A b \in Blocks : fb'[b] = Blank
        BY <2>1
    <3>3. QED
        BY <3>1, <3>2 DEF CleanCellIsDrawn, InCell
  <2>9. QED
      BY <2>5, <2>6, <2>7, <2>8 DEF GlassInv
<1>9. CASE Draw
  <2>1. Render(Page(cursorOn)) /\ phase' = "push" /\ doc' = doc /\ cursorOn' = cursorOn
      BY <1>9 DEF Draw
  <2>2. PICK page : page = Page(cursorOn)
      OBVIOUS
  <2>3. DOMAIN page = Corners(face) /\ Render(page)
      BY <2>1, <2>2, PageIs
  <2>4. /\ GlassTyped' /\ TurnedOneWay' /\ StaleIsDamaged' /\ CleanCellIsDrawn'
        /\ txt' = page /\ dirty' = {} /\ face' = face
      BY <1>2, <2>3, RenderKeeps
  <2>5. Page(cursorOn)' = Page(cursorOn)
      BY <2>1, <2>4, SamePage
  <2>6. PushedBetween' /\ DrawnWhenDue' /\ TextIsThePage'
      BY <2>1, <2>2, <2>4, <2>5 DEF PushedBetween, DrawnWhenDue, TextIsThePage
  <2>7. QED
      BY <2>4, <2>6 DEF GlassInv
<1>10. CASE Present
  <2>1. /\ phase \in {"push", "blink push"} /\ phase' \in {"blink", "wait"}
        /\ doc' = doc /\ cursorOn' = cursorOn /\ needDraw' = needDraw
        /\ face' = face /\ txt' = txt /\ dirty' = dirty /\ fb' = fb /\ turned' = turned /\ turnOrient' = turnOrient
      BY <1>10 DEF Present, gridVars
  <2>2. Flush(dmg)
      BY <1>10 DEF Present, Pushed
  <2>3. PICK list : list = dmg
      OBVIOUS
  <2>4. list \in Seq(Rects) /\ Flush(list) /\ orient \in 0 .. 3 /\ stale \in SUBSET Blocks /\ lost \in SUBSET Blocks
      BY <1>2, <2>2, <2>3 DEF GlassTyped
  <2>5. stale \subseteq lost \cup CoveredBy(orient, list)
      BY <1>2, <2>3, StaleCovered
  <2>6. /\ dmg' = << >> /\ orient' = orient /\ stale' \in SUBSET Blocks /\ stale' \subseteq lost'
        /\ lost' \in SUBSET Blocks
      BY <2>4, <2>5, FlushTells
  <2>7. GlassTyped'
    <3>1. Corners(face)' = Corners(face)
        BY <2>1 DEF Corners
    <3>2. DOMAIN txt' = Corners(face)' /\ dirty' \in SUBSET Corners(face)'
        BY <1>2, <2>1, <3>1 DEF GlassTyped
    <3>3. << >> \in Seq(Rects) /\ Len(<< >>) <= DmgMax
        BY PanelAssumption
    <3>4. QED
        BY <1>2, <2>1, <2>4, <2>6, <3>2, <3>3 DEF GlassTyped
  <2>8. TurnedOneWay' /\ StaleIsDamaged' /\ PushedBetween' /\ DrawnWhenDue'
      BY <1>2, <2>1, <2>6 DEF TurnedOneWay, StaleIsDamaged, PushedBetween, DrawnWhenDue
  <2>9. CleanCellIsDrawn'
      BY <1>2, <2>1, <2>6 DEF CleanCellIsDrawn, InCell
  <2>10. TextIsThePage'
    <3>1. Page(cursorOn)' = Page(cursorOn)
        BY <2>1, SamePage
    <3>2. phase # "pin push"
        BY <2>1
    <3>3. QED
        BY <1>2, <2>1, <3>1, <3>2 DEF TextIsThePage
  <2>11. QED
      BY <2>7, <2>8, <2>9, <2>10 DEF GlassInv
<1>11. CASE Blink
  <2>1. Render(Page(cursorOn')) /\ phase' = "blink push" /\ doc' = doc
      BY <1>11 DEF Blink
  <2>2. PICK at : at = cursorOn'
      OBVIOUS
  <2>3. PICK page : page = Page(at)
      OBVIOUS
  <2>4. DOMAIN page = Corners(face) /\ Render(page)
      BY <2>1, <2>2, <2>3, PageIs
  <2>5. /\ GlassTyped' /\ TurnedOneWay' /\ StaleIsDamaged' /\ CleanCellIsDrawn'
        /\ txt' = page /\ dirty' = {} /\ face' = face
      BY <1>2, <2>4, RenderKeeps
  <2>6. Page(cursorOn)' = Page(at)
      BY <2>1, <2>2, <2>5 DEF Page, Corners
  <2>7. PushedBetween' /\ DrawnWhenDue' /\ TextIsThePage'
      BY <2>1, <2>3, <2>5, <2>6 DEF PushedBetween, DrawnWhenDue, TextIsThePage
  <2>8. QED
      BY <2>5, <2>7 DEF GlassInv
<1>12. CASE UNCHANGED glassVars
  <2>1. /\ UNCHANGED <<panelVars, gridVars>> /\ needDraw' = needDraw /\ doc' = doc /\ cursorOn' = cursorOn
        /\ phase' = phase
      BY <1>12 DEF glassVars, loopVars
  <2>2. GlassTyped' /\ TurnedOneWay' /\ StaleIsDamaged' /\ CleanCellIsDrawn'
      BY <1>2, <2>1, GlassAlone
  <2>3. dmg' = dmg /\ dirty' = dirty /\ txt' = txt /\ face' = face
      BY <2>1 DEF panelVars, gridVars
  <2>4. PushedBetween' /\ DrawnWhenDue'
      BY <1>2, <2>1, <2>3 DEF PushedBetween, DrawnWhenDue
  <2>5. TextIsThePage'
    <3>1. Page(cursorOn)' = Page(cursorOn)
        BY <2>1, <2>3, SamePage
    <3>2. QED
        BY <1>2, <2>1, <2>3, <3>1 DEF TextIsThePage
  <2>6. QED
      BY <2>2, <2>4, <2>5 DEF GlassInv
<1>13. QED
    BY <1>1, <1>3, <1>4, <1>5, <1>6, <1>7, <1>8, <1>9, <1>10, <1>11, <1>12 DEF GridNext

(* Whatever is typed, turned, asked for and refused by the bus: from the text *)
(* to the glass nothing is lost but what a failed push lost (tg_render,       *)
(* st7305_damage, st7305_push, editor_present).                               *)
THEOREM GlassShowsWhatIsWritten == GlassSpec => []GlassIsTrue
<1>1. GlassInv => GlassIsTrue
  <2>1. SUFFICES ASSUME GlassInv PROVE GlassShowsDocument
      BY DEF GlassInv, GlassIsTrue
  <2>2. SUFFICES ASSUME phase = "wait", ~needDraw
                 PROVE  /\ stale \subseteq lost
                        /\ \A b \in Blocks : fb[b] = InCell(CellOf(face, orient, b), Page(cursorOn))
      BY DEF GlassShowsDocument
  <2>3. dmg = << >> /\ dirty = {} /\ txt = Page(cursorOn)
      BY <2>1, <2>2 DEF GlassInv, PushedBetween, TextIsThePage
  <2>4. stale \subseteq lost
      BY <2>1, <2>3 DEF GlassInv, StaleIsDamaged
  <2>5. QED
      BY <2>1, <2>3, <2>4 DEF GlassInv, CleanCellIsDrawn
<1>2. QED
    BY <1>1, GlassStart, GlassStep, PTL DEF GlassSpec
=============================================================================
