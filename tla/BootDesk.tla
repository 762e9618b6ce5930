------------------------------ MODULE BootDesk ------------------------------
(* How a deck starts, becomes a USB MIDI device and finds its way back:      *)
(* app_main() up to its loop (main.c), the trial of the composite device     *)
(* (usbdev.c), the switch of the one USB PHY (usbmux.c), '>usb' and '>flash' *)
(* (builtins.c) and the record of the last run (vitals.c). Whatever an RTC   *)
(* register holds outlives a reset and not a loss of power; a panic, a       *)
(* watchdog or a pulled plug may come between any two steps; esp_restart()   *)
(* out of USB MIDI mode may never return, as builtins.c reports.             *)
EXTENDS Naturals

CONSTANT MaxTries       \* MAX_TRIES
ASSUME TriesAssumption == MaxTries \in Nat \ {0}

VARIABLES
    pc,        \* where the deck is
    reason,    \* esp_reset_reason()
    magic,     \* s_try_magic is what it should be
    want,      \* s_want
    tries,     \* s_tries
    force,     \* RTC_CNTL_FORCE_DOWNLOAD_BOOT
    phy,       \* the block the PHY is routed to
    rec,       \* vitals: the record in flash
    verdict,   \* vitals: what this boot says of the last run
    active,    \* s_active
    seen,      \* s_host_seen_usj
    attached,  \* s_attached
    confirmed, \* s_confirmed
    trial,     \* the trial's timer: "expired" has looked and is about to act
    action,    \* s_action
    polled,    \* the action usbdev_poll() has read
    was,       \* c_usb: the mode this run was in
    line,      \* s_prev_rts, s_reset_armed
    loader,    \* s_reboot_to_loader
    rtimer,    \* s_reboot_timer is running
    run,       \* the last run that was marked: its mode, how it ended
    unproven   \* USB bring-ups since power came on or one was confirmed

rtc == <<magic, want, tries>>
usbVars == <<active, seen, attached, confirmed, trial, action, polled, was, line, loader, rtimer>>
bootVars == <<pc, reason, rtc, force, phy, rec, verdict, usbVars, run, unproven>>

Booting == {"top", "begin", "key", "usb", "install", "installed", "mark"}
Running == {"loop", "poll", "command", "goodbye", "flash", "release", "force",
            "hatch", "save", "restart"}
Crashes == {"panic", "watchdog"}

BootTypeOK ==
    /\ pc \in Booting \cup Running \cup {"rom", "hung"}
    /\ reason \in Crashes \cup {"power", "software", "usb"}
    /\ {magic, want, force, active, seen, attached, confirmed, was, loader, rtimer} \subseteq BOOLEAN
    /\ tries \in 0..(MaxTries + 1) /\ unproven \in 0..(MaxTries + 1)
    /\ phy \in {"serial", "otg"}
    /\ rec \in [valid : BOOLEAN, usb : BOOLEAN, deliberate : BOOLEAN]
    /\ verdict \in {"none", "nothing", "unwatched", "dead", "hung", "purpose"}
    /\ trial \in {"off", "armed", "expired"}
    /\ {action, polled} \subseteq {"none", "confirm", "revert", "reboot"}
    /\ line \in [rts : BOOLEAN, armed : BOOLEAN]
    /\ run \in [usb : BOOLEAN, end : {"none", "going", "goodbye", "chosen", "silent"}]

Fresh == /\ active' = FALSE /\ seen' = FALSE /\ attached' = FALSE /\ confirmed' = FALSE
         /\ trial' = "off" /\ action' = "none" /\ polled' = "none" /\ was' = FALSE
         /\ line' = [rts |-> FALSE, armed |-> FALSE] /\ loader' = FALSE /\ rtimer' = FALSE
         /\ verdict' = "none"

BootInit ==
    /\ pc = "top" /\ reason = "power" /\ magic = FALSE /\ want \in BOOLEAN /\ tries \in {0, 1}
    /\ force = FALSE /\ phy = "serial"
    /\ rec = [valid |-> FALSE, usb |-> FALSE, deliberate |-> FALSE] /\ verdict = "none"
    /\ active = FALSE /\ seen = FALSE /\ attached = FALSE /\ confirmed = FALSE
    /\ trial = "off" /\ action = "none" /\ polled = "none" /\ was = FALSE
    /\ line = [rts |-> FALSE, armed |-> FALSE] /\ loader = FALSE /\ rtimer = FALSE
    /\ run = [usb |-> FALSE, end |-> "none"] /\ unproven = 0

(***************************************************************************)
(* Resets.                                                                 *)
(***************************************************************************)
Ends(how) == run' = IF run.end = "going" THEN [run EXCEPT !.end = how] ELSE run

(* A reset that keeps the power: the ROM looks at the force-download bit.   *)
Resets(why, how) ==
    /\ pc' = IF force THEN "rom" ELSE "top"
    /\ reason' = why /\ Ends(how) /\ Fresh
    /\ UNCHANGED <<rtc, force, rec, unproven>>

Crash == /\ pc \notin {"rom", "hung"}
         /\ \E why \in Crashes : Resets(why, "silent")
         /\ UNCHANGED phy

(* The plug: what the RTC memory holds is anything.                         *)
PowerCycle ==
    /\ pc' = "top" /\ reason' = "power" /\ magic' = FALSE
    /\ want' \in BOOLEAN /\ tries' \in {0, 1}
    /\ force' = FALSE /\ phy' = "serial" /\ Ends("silent") /\ unproven' = 0
    /\ Fresh /\ UNCHANGED rec

(* A deck in the ROM loader is written and started by the flasher.          *)
Flashed == /\ pc = "rom" /\ phy = "serial"
           /\ pc' = "top" /\ reason' = "usb" /\ force' = FALSE /\ Fresh
           /\ UNCHANGED <<rtc, phy, rec, run, unproven>>

(* esp_restart(): the registered handler gives the PHY back.                *)
Restart ==
    /\ pc = "restart"
    /\ \/ phy' = "serial" /\ Resets("software", "chosen")
       \/ active /\ pc' = "hung" /\ UNCHANGED <<reason, rtc, force, phy, rec, verdict, usbVars, run, unproven>>

(***************************************************************************)
(* app_main(), in the order it goes.                                       *)
(***************************************************************************)
At(here, there) == pc = here /\ pc' = there

Top == /\ At("top", "begin") /\ force' = FALSE /\ phy' = "serial"
       /\ UNCHANGED <<reason, rtc, rec, verdict, usbVars, run, unproven>>

(* vitals_verdict()                                                         *)
VerdictOn(r, powerOn) ==
    CASE ~r.valid -> "nothing"
      [] r.valid /\ ~r.deliberate /\ ~r.usb -> "unwatched"
      [] r.valid /\ ~r.deliberate /\ r.usb -> "dead"
      [] r.valid /\ r.deliberate -> IF powerOn THEN "hung" ELSE "purpose"

VitalsBegin == /\ At("begin", "key") /\ verdict' = VerdictOn(rec, reason = "power")
               /\ UNCHANGED <<reason, rtc, force, phy, rec, usbVars, run, unproven>>

(* rtc_init_once(), which every reader of the intent goes through.          *)
Wanted == magic /\ want
Tries == IF magic THEN tries ELSE 0

(* KEY held at boot, and a boot that follows a crash, cancel the mode.      *)
\* mutant: only the key
KeyCancels(held) == held
Cancels(held) == held \/ reason \in Crashes
KeyAndCrash ==
    /\ At("key", "usb")
    /\ \E held \in BOOLEAN :
         IF Cancels(held) THEN magic' = TRUE /\ tries' = Tries /\ want' = FALSE
         ELSE UNCHANGED rtc
    /\ UNCHANGED <<reason, force, phy, rec, verdict, usbVars, run, unproven>>

(* usbdev_boot() counts the attempt before it makes it.                     *)
Attempt == Tries + 1
UsbBoot ==
    /\ pc = "usb" /\ magic' = TRUE
    /\ \/ ~Wanted /\ pc' = "mark" /\ want' = FALSE /\ tries' = Tries /\ UNCHANGED seen
       \/ Wanted /\ Attempt > MaxTries
          /\ pc' = "mark" /\ want' = FALSE /\ tries' = Attempt /\ UNCHANGED seen
       \/ Wanted /\ Attempt <= MaxTries
          /\ pc' = "install" /\ tries' = Attempt /\ seen' \in BOOLEAN /\ UNCHANGED want
    /\ UNCHANGED <<reason, force, phy, rec, verdict, active, attached, confirmed, trial, action,
                   polled, was, line, loader, rtimer, run, unproven>>

(* tinyusb_driver_install() takes the PHY first.                            *)
TakePhy == /\ At("install", "installed") /\ phy' = "otg" /\ unproven' = unproven + 1
           /\ UNCHANGED <<reason, rtc, force, rec, verdict, usbVars, run>>
Installed ==
    /\ At("installed", "mark")
    /\ \/ active' = TRUE /\ trial' = "armed" /\ UNCHANGED <<want, phy>>
       \/ want' = FALSE /\ phy' = "serial" /\ UNCHANGED <<active, trial>>
    /\ UNCHANGED <<reason, magic, tries, force, rec, verdict, seen, attached, confirmed, action,
                   polled, was, line, loader, rtimer, run, unproven>>

Record(usb, deliberate) == rec' = [valid |-> TRUE, usb |-> usb, deliberate |-> deliberate]

(* vitals_started(): this run began, and in which mode.                     *)
VitalsStarted == /\ At("mark", "loop") /\ Record(active, FALSE)
                 /\ run' = [usb |-> active, end |-> "going"]
                 /\ UNCHANGED <<reason, rtc, force, phy, verdict, usbVars, unproven>>

(* vitals_loop(): once a minute, in USB MIDI mode.                          *)
VitalsLoop == /\ At("loop", "loop") /\ want /\ Record(want, FALSE)
              /\ UNCHANGED <<reason, rtc, force, phy, verdict, usbVars, run, unproven>>

(***************************************************************************)
(* '>usb on | off' and '>flash now', in the main task.                     *)
(***************************************************************************)
(* usbdev_want() refuses after three failures.                              *)
\* mutant: it takes the word for it
NeverRefuses(on) == FALSE
Refuses(on) == on /\ tries >= MaxTries
UsbCommand ==
    /\ At("loop", "command")
    /\ \E on \in BOOLEAN : ~Refuses(on) /\ want' = on
    /\ was' = want
    /\ UNCHANGED <<reason, magic, tries, force, phy, rec, verdict, active, seen, attached,
                   confirmed, trial, action, polled, line, loader, rtimer, run, unproven>>

Goodbye(usb) == Record(usb, TRUE) /\ run' = [run EXCEPT !.end = "goodbye"]
\* mutant: the intent is read again
ModeToCome == want
ModeOfRun == was
UsbGoodbye == /\ At("command", "goodbye") /\ Goodbye(ModeOfRun)
              /\ UNCHANGED <<reason, rtc, force, phy, verdict, usbVars, unproven>>

(* deck_reboot(): the reset without the shutdown handlers.                  *)
DeckReboot == pc = "goodbye" /\ Resets("software", "chosen") /\ UNCHANGED phy

FlashNow == /\ At("loop", "flash")
            /\ UNCHANGED <<reason, rtc, force, phy, rec, verdict, usbVars, run, unproven>>
FlashGoodbye == /\ At("flash", "release") /\ Goodbye(want)
                /\ UNCHANGED <<reason, rtc, force, phy, verdict, usbVars, unproven>>
\* mutant: the PHY is left where it is
FlashKeepsPhy == /\ At("release", "force")
                 /\ UNCHANGED <<reason, rtc, force, phy, rec, verdict, usbVars, run, unproven>>
FlashRelease == /\ At("release", "force") /\ phy' = "serial"
                /\ UNCHANGED <<reason, rtc, force, rec, verdict, usbVars, run, unproven>>
FlashForce == /\ At("force", "restart") /\ force' = TRUE
              /\ UNCHANGED <<reason, rtc, phy, rec, verdict, usbVars, run, unproven>>

(***************************************************************************)
(* The callbacks: TinyUSB's task and the timers only leave a flag.         *)
(***************************************************************************)
Up == active /\ pc \in Running
Flag(a) == action' = a
quietly == <<pc, reason, rtc, force, phy, rec, verdict, active, seen, polled, was, run, unproven>>

Attach == /\ Up /\ attached' = TRUE /\ Flag("confirm")
          /\ UNCHANGED <<quietly, confirmed, trial, line, loader, rtimer>>
CdcRx == /\ Up /\ attached /\ ~confirmed /\ Flag("confirm")
         /\ UNCHANGED <<quietly, attached, confirmed, trial, line, loader, rtimer>>

(* cdc_line_state(): esptool drops DTR under a raised RTS, then RTS falls   *)
(* with DTR up.                                                             *)
Asks(rts, dtr) == ~rts /\ line.rts /\ line.armed /\ dtr
LineState ==
    /\ Up /\ attached
    /\ \E rts, dtr \in BOOLEAN :
         /\ line' = [rts |-> rts, armed |-> (line.armed \/ (rts /\ ~dtr)) /\ ~Asks(rts, dtr)]
         /\ loader' = (loader \/ Asks(rts, dtr)) /\ rtimer' = (rtimer \/ Asks(rts, dtr))
    /\ UNCHANGED <<quietly, attached, confirmed, trial, action>>
RebootTimer == /\ Up /\ rtimer /\ rtimer' = FALSE /\ Flag("reboot")
               /\ UNCHANGED <<quietly, attached, confirmed, trial, line, loader>>

\* mutant: it waits on where a host was seen
WaitsOn ==
    /\ Up /\ trial = "armed"
    /\ trial' = IF confirmed \/ attached THEN "off" ELSE IF seen THEN "armed" ELSE "expired"
    /\ UNCHANGED <<quietly, attached, confirmed, action, line, loader, rtimer>>
(* trial_expired(): with no host there ever was it waits on.                *)
TrialExpires ==
    /\ Up /\ trial = "armed"
    /\ trial' = IF confirmed \/ attached THEN "off" ELSE IF ~seen THEN "armed" ELSE "expired"
    /\ UNCHANGED <<quietly, attached, confirmed, action, line, loader, rtimer>>
WantRevert == /\ Up /\ trial = "expired" /\ trial' = "off" /\ Flag("revert")
              /\ UNCHANGED <<quietly, attached, confirmed, line, loader, rtimer>>

(***************************************************************************)
(* usbdev_poll(), in the main task: read, clear, act.                      *)
(***************************************************************************)
calm == <<reason, magic, rec, active, seen, attached, was, line, loader, rtimer, run>>
PollRead == /\ At("loop", "poll") /\ action # "none" /\ polled' = action
            /\ UNCHANGED <<calm, want, tries, force, phy, verdict, confirmed, trial, action, unproven>>
PollConfirm ==
    /\ At("poll", "loop") /\ polled = "confirm" /\ action' = "none" /\ polled' = "none"
    /\ IF confirmed THEN UNCHANGED <<confirmed, trial, tries, unproven>>
       ELSE confirmed' = TRUE /\ trial' = (IF trial = "armed" THEN "off" ELSE trial)
            /\ tries' = 0 /\ unproven' = 0
    /\ UNCHANGED <<calm, want, force, phy, verdict>>
PollRevert == /\ At("poll", "restart") /\ polled = "revert" /\ action' = "none" /\ polled' = "none"
              /\ want' = FALSE /\ phy' = "serial"
              /\ UNCHANGED <<calm, tries, force, verdict, confirmed, trial, unproven>>
(* do_reboot(): the PHY and the bit first, then the work that can block.    *)
PollReboot == /\ At("poll", "hatch") /\ polled = "reboot" /\ action' = "none" /\ polled' = "none"
              /\ phy' = "serial"
              /\ UNCHANGED <<calm, want, tries, force, verdict, confirmed, trial, unproven>>
\* mutant: the work first
SaveFirst == /\ At("hatch", "save")
             /\ UNCHANGED <<reason, rtc, force, phy, rec, verdict, usbVars, run, unproven>>
Hatch == /\ At("hatch", "save") /\ force' = (force \/ loader)
         /\ UNCHANGED <<reason, rtc, phy, rec, verdict, usbVars, run, unproven>>
SaveAll == /\ At("save", "restart")
           /\ UNCHANGED <<reason, rtc, force, phy, rec, verdict, usbVars, run, unproven>>

Boots == Top \/ VitalsBegin \/ KeyAndCrash \/ UsbBoot \/ TakePhy \/ Installed \/ VitalsStarted
Polls == PollRead \/ PollConfirm \/ PollRevert \/ PollReboot \/ Hatch \/ SaveAll
Commands == UsbCommand \/ UsbGoodbye \/ DeckReboot \/ FlashNow \/ FlashGoodbye \/ FlashRelease \/ FlashForce
Callbacks == Attach \/ CdcRx \/ LineState \/ RebootTimer \/ TrialExpires \/ WantRevert
BootNext == Crash \/ PowerCycle \/ Flashed \/ Restart \/ VitalsLoop
            \/ Boots \/ Polls \/ Commands \/ Callbacks

(* app_main() goes on, the loop polls and a command is finished; a running  *)
(* timer comes due.                                                         *)
BootFair == /\ WF_bootVars(Boots) /\ WF_bootVars(Polls) /\ WF_bootVars(UsbGoodbye \/ DeckReboot)
            /\ WF_bootVars(FlashGoodbye \/ FlashRelease \/ FlashForce) /\ WF_bootVars(Restart)
            /\ WF_bootVars(TrialExpires) /\ WF_bootVars(WantRevert)

(***************************************************************************)
(* Properties.                                                             *)
(***************************************************************************)
(* The loader is never entered on a PHY the flasher cannot reach, whatever  *)
(* cut the way there short (usbmux.h).                                      *)
LoaderIsReachable == pc = "rom" => phy = "serial"

(* A boot that follows a crash leaves USB MIDI mode (main.c), and one power *)
(* cycle makes no more than three attempts nothing confirmed (usbdev.c).    *)
ComesBack == /\ active => reason \notin Crashes
             /\ unproven <= MaxTries

(* The record names the mode of the run it is about, though '>usb' changes  *)
(* the mode before it says goodbye; and a run in USB MIDI mode that stopped *)
(* without a word is reported as dead (vitals.h).                           *)
LastRunIsToldTrue ==
    /\ rec.valid => rec.usb = run.usb
    /\ pc \in Booting \ {"top", "begin"} /\ run.end = "silent" /\ run.usb => verdict = "dead"

(* Once esptool's reset is being carried out, whatever resets the deck -    *)
(* the restart, the watchdog over a save that hangs, a panic - lands in the *)
(* loader (do_reboot).                                                      *)
HatchIsArmedFirst ==
    [][pc = "save" /\ loader /\ pc' \in {"top", "rom"} /\ reason' # "power" => pc' = "rom"]_bootVars

(* A host that was on the cable and never takes the composite device: the   *)
(* deck gives the mode up (trial_expired, usbdev_poll).                     *)
TrialEnds == (active /\ seen) ~> (attached \/ ~want \/ ~active \/ pc = "hung")

(* vitals.h: a deliberate restart says goodbye, "so the next boot can tell  *)
(* a restart the deck CHOSE from a run that simply stopped".                *)
ChosenIsNotDead == pc \in Booting \ {"top", "begin"} /\ verdict = "dead" => run.end # "chosen"

(* Whatever resets it and wherever, the deck comes up in a way it can be     *)
(* spoken to, reaches the loader when sent there and tells what the run      *)
(* before it came to (app_main, usbdev.c, vitals.c).                         *)
DeckComesBack == LoaderIsReachable /\ ComesBack /\ LastRunIsToldTrue
=============================================================================
