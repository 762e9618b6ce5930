------------------------------ MODULE SeqClock ------------------------------
(***************************************************************************)
(* The sequencer's clock (seq.c, seq_clock.h): a one-shot timer that every *)
(* tick arms again, for the moment the grid says the next tick is due.     *)
(*                                                                         *)
(*   "timer"   the esp_timer task on core 1: tick();                       *)
(*   "editor"  the main task on core 0: '>bpm', '>play', '>stop';          *)
(*   "radio"   the Wi-Fi task, on core 0 and above the editor: it slides   *)
(*             the grid, takes over a tempo and asks for a new count.      *)
(*                                                                         *)
(* The grid is one 64-bit word under a spinlock, so reading or writing it  *)
(* is one step; everything else is plain memory, and s_tick++ is a load    *)
(* and a store.  Note-offs, lanes and statistics are left out.             *)
(***************************************************************************)
EXTENDS Integers, FiniteSets, FiniteSetsExt

CONSTANTS Periods,    \* period_us() of the tempos that are used
          WaitMin,    \* SEQ_WAIT_MIN_US
          Second,     \* ticks a follower is silent for at most
          Slides,     \* corrections the ensemble makes to the grid
          Jumps,      \* pulses the leader's count is ahead of ours
          NoGrid,     \* s_grid_t0 = 0
          Off,        \* the timer is not armed
          MaxNow,     \* bound: time
          MaxLate,    \* bound: how late a tick begins
          MaxCalls    \* bound: commands and radio calls

ASSUME ClockAssumption ==
    /\ Periods \subseteq Nat \ {0} /\ Periods # {} /\ WaitMin \in Nat \ {0}
    /\ Second \in Nat /\ Slides \subseteq Int /\ Jumps \subseteq Int
    /\ {MaxNow, MaxLate, MaxCalls} \subseteq Nat
    /\ NoGrid \notin Int /\ Off \notin Int

VARIABLES now,      \* esp_timer_get_time()
          alarm,    \* when the one-shot is armed for
          running,  \* s_running
          tick,     \* s_tick
          grid,     \* s_grid_t0
          last,     \* s_last_tick_us
          per,      \* period_us()
          follows,  \* s_follows
          pending,  \* s_adopt_pending
          jump,     \* s_adopt
          await,    \* s_await_ticks
          clk,      \* where tick() stands
          call,     \* where the editor's and the radio's calls stand
          calls,    \* calls so far
          due,      \* observed: when a metronome would play the next tick
          count,    \* observed: the number it would give it
          clean     \* observed: no call ran into a tick or another call

countVars == <<pending, jump, await>>
gridVars  == <<grid, last, per>>
seenVars  == <<due, count>>
vars == <<now, alarm, running, tick, gridVars, follows, countVars, clk, call, calls,
          seenVars, clean>>

Callers == {"editor", "radio"}

FirstPeriod == CHOOSE p \in Periods : TRUE

TickPcs == {"off", "begin", "number", "jump", "slide", "joined", "await", "anchor",
            "anchored", "work", "count", "arm", "start"}
CallPcs == {"idle", "anchor", "set", "zero", "stop", "arm", "start",
            "ungrid", "unpend", "go"}

Init ==
    /\ now = 0 /\ alarm = FirstPeriod /\ per = FirstPeriod
    /\ running = FALSE /\ tick = 0 /\ grid = NoGrid /\ last = 0
    /\ follows = FALSE /\ pending = FALSE /\ jump = 0 /\ await = 0
    /\ clk = [pc |-> "off", began |-> 0, num |-> 0, at |-> 0]   \* AtRest
    /\ call = [c \in Callers |-> [pc |-> "idle", at |-> 0]]
    /\ calls = 0 /\ due = 0 /\ count = 0 /\ clean = TRUE

\* seq_clock_wait(), as the moment it waits for.
WakeAt(began) ==
    LET on == running /\ grid # NoGrid
        at == IF on THEN grid + tick * per ELSE began + per
    IN  IF at < now + WaitMin THEN now + WaitMin ELSE at

\* esp_timer_start_once() on a timer that is armed changes nothing.
StartOnce(at) == alarm' = IF alarm = Off THEN at ELSE alarm

\* grid_slide(): a grid that is not anchored stays so.
\* Mutants: the wrong way; not at all.
GridKept(by) == grid
Slid(by) == IF grid = NoGrid THEN NoGrid ELSE grid + by
----------------------------------------------------------------------------
(* tick(), on core 1.                                                      *)

AtRest == [pc |-> "off", began |-> 0, num |-> 0, at |-> 0]
At(pc) == clk.pc = pc
GotoWith(pc, num, at) ==
    clk' = [pc |-> pc, began |-> clk.began, num |-> num, at |-> at]
Goto(pc) == GotoWith(pc, 0, 0)
Uncalled == \A c \in Callers : call[c].pc = "idle"
timerUnchanged == <<now, follows, call, calls>>

Fire ==
    /\ At("off") /\ alarm # Off /\ now >= alarm
    /\ alarm' = Off
    /\ clk' = [pc |-> "begin", began |-> now, num |-> 0, at |-> 0]
    /\ clean' = (clean /\ Uncalled)
    /\ UNCHANGED <<timerUnchanged, running, tick, gridVars, countVars, seenVars>>

Begin ==
    /\ At("begin")
    /\ IF running THEN last' = clk.began /\ Goto("number")
                  ELSE last' = last /\ Goto("arm")
    /\ UNCHANGED <<timerUnchanged, clean, alarm, running, tick, grid, per, countVars, seenVars>>

\* The count the ensemble asked for; s_tick is loaded here.
TakeJump ==
    /\ At("number") /\ pending
    /\ pending' = FALSE
    /\ GotoWith(IF jump = 0 THEN "joined" ELSE "jump", tick, jump)
    /\ UNCHANGED <<timerUnchanged, clean, alarm, running, tick, gridVars, jump, await, seenVars>>

NoJump ==
    /\ At("number") /\ ~pending
    /\ Goto("await")
    /\ UNCHANGED <<timerUnchanged, clean, alarm, running, tick, gridVars, countVars, seenVars>>

Renumber ==
    /\ At("jump")
    /\ tick' = clk.num + clk.at
    /\ GotoWith("slide", 0, clk.at)
    /\ UNCHANGED <<timerUnchanged, clean, alarm, running, gridVars, countVars, seenVars>>

\* This tick keeps its time; only its number changes.
KeepTime ==
    /\ At("slide")
    /\ grid' = Slid(-(clk.at * per))
    /\ Goto("joined")
    /\ UNCHANGED <<timerUnchanged, clean, alarm, running, tick, last, per, countVars, seenVars>>

Joined ==
    /\ At("joined")
    /\ await' = 0
    /\ Goto("await")
    /\ UNCHANGED <<timerUnchanged, clean, alarm, running, tick, gridVars, pending, jump, seenVars>>

\* A follower that does not know the count yet is silent; its ticks go on.
\* Mutant: it counts past nought.
PastNought == await - 1
CountDown == IF await > 0 THEN await - 1 ELSE 0

Wait ==
    /\ At("await")
    /\ await' = CountDown
    /\ Goto("anchor")
    /\ UNCHANGED <<timerUnchanged, clean, alarm, running, tick, gridVars, pending, jump, seenVars>>

\* The first tick after '>play' is where the grid begins.
\* Mutant: whatever its number.
AnchorAtZero(t) == t
AnchorOf(t) == t - tick * per

FindGrid ==
    /\ At("anchor")
    /\ IF grid = NoGrid
       THEN GotoWith("anchored", 0, AnchorOf(clk.began))
       ELSE Goto("work")
    /\ UNCHANGED <<timerUnchanged, clean, alarm, running, tick, gridVars, countVars, seenVars>>

Anchor ==
    /\ At("anchored")
    /\ grid' = clk.at
    /\ due' = clk.began /\ count' = count
    /\ Goto("work")
    /\ UNCHANGED <<timerUnchanged, clean, alarm, running, tick, last, per, countVars>>

\* The lanes play here, and s_tick++ begins.
Work ==
    /\ At("work")
    /\ GotoWith("count", tick, 0)
    /\ UNCHANGED <<timerUnchanged, clean, alarm, running, tick, gridVars, countVars, seenVars>>

CountOn ==
    /\ At("count")
    /\ tick' = clk.num + 1
    /\ due' = due + per /\ count' = count + 1
    /\ Goto("arm")
    /\ UNCHANGED <<timerUnchanged, clean, alarm, running, gridVars, countVars>>

\* arm_next(): the moment is worked out, and then the timer started.
Arm ==
    /\ At("arm")
    /\ GotoWith("start", 0, WakeAt(clk.began))
    /\ UNCHANGED <<timerUnchanged, clean, alarm, running, tick, gridVars, countVars, seenVars>>

Start ==
    /\ At("start")
    /\ StartOnce(clk.at)
    /\ clk' = AtRest
    /\ UNCHANGED <<timerUnchanged, clean, running, tick, gridVars, countVars, seenVars>>

Timer == \/ Fire \/ Begin \/ TakeJump \/ NoJump \/ Renumber \/ KeepTime \/ Joined
         \/ Wait \/ FindGrid \/ Anchor \/ Work \/ CountOn \/ Arm \/ Start
----------------------------------------------------------------------------
(* Calls from core 0.  The radio interrupts the editor, never the reverse. *)

Turn(c) == c = "editor" => call["radio"].pc = "idle"
Alone(c) == At("off") /\ \A d \in Callers \ {c} : call[d].pc = "idle"

Call(c) ==
    /\ Turn(c) /\ call[c].pc = "idle" /\ calls < MaxCalls
    /\ calls' = calls + 1

\* clean is judged at every step of a call that others can see.
StepWith(c, from, to, at) ==
    /\ Turn(c) /\ call[c].pc = from
    /\ call' = [call EXCEPT ![c] = [pc |-> to, at |-> at]]
    /\ clean' = (clean /\ Alone(c))
    /\ calls' = calls
Step(c, from, to) == StepWith(c, from, to, 0)
callUnchanged == <<now, clk, follows>>

\* seq_bpm(): from '>bpm', or from seq_nudge_by() when the leader's differs.
Bpm(c) ==
    /\ Call(c)
    /\ c = "radio" => running /\ grid # NoGrid
    /\ \E p \in Periods :
          /\ c = "radio" => p # per
          /\ per' = p
    /\ call' = [call EXCEPT ![c].pc = "anchor"]
    /\ clean' = (clean /\ Alone(c))
    /\ UNCHANGED <<callUnchanged, alarm, running, tick, grid, last, countVars, seenVars>>

\* The next tick is due one new period after the last one fired.
\* Mutant: the anchor before this one, "due now".
ReanchorNow == now - tick * per
Reanchored == last + per - tick * per

FindAnchor(c) ==
    /\ running /\ grid # NoGrid
    /\ StepWith(c, "anchor", "set", Reanchored)
    /\ UNCHANGED <<callUnchanged, alarm, running, tick, gridVars, countVars, seenVars>>

SetGrid(c) ==
    /\ Step(c, "set", "stop")
    /\ grid' = call[c].at
    /\ due' = last + per /\ count' = count
    /\ UNCHANGED <<callUnchanged, alarm, running, tick, last, per, countVars>>

ForgetGrid(c) ==
    /\ ~running
    /\ Step(c, "anchor", "zero")
    /\ grid' = NoGrid
    /\ UNCHANGED <<callUnchanged, alarm, running, tick, last, per, countVars, seenVars>>

\* Playing, and no tick yet: nothing to anchor.
LeaveGrid(c) ==
    /\ running /\ grid = NoGrid
    /\ Step(c, "anchor", "stop")
    /\ UNCHANGED <<callUnchanged, alarm, running, tick, gridVars, countVars, seenVars>>

Zero(c) ==
    /\ Step(c, "zero", "stop")
    /\ tick' = 0 /\ count' = 0
    /\ UNCHANGED <<callUnchanged, alarm, running, gridVars, countVars, due>>

StopTimer(c) ==
    /\ Step(c, "stop", "arm")
    /\ alarm' = Off
    /\ UNCHANGED <<callUnchanged, running, tick, gridVars, countVars, seenVars>>

\* arm_next(esp_timer_get_time()).  Mutant: the tick in hand will do it.
LeaveToTick == "idle"
AfterStop == "start"

ArmAgain(c) ==
    /\ StepWith(c, "arm", AfterStop, WakeAt(now))
    /\ UNCHANGED <<callUnchanged, alarm, running, tick, gridVars, countVars, seenVars>>

StartAgain(c) ==
    /\ Step(c, "start", "idle")
    /\ StartOnce(call[c].at)
    /\ UNCHANGED <<callUnchanged, running, tick, gridVars, countVars, seenVars>>

\* seq_play(), a store at a time.
Play ==
    /\ Call("editor")
    /\ tick' = 0
    /\ call' = [call EXCEPT !["editor"].pc = "ungrid"]
    /\ clean' = (clean /\ Alone("editor"))
    /\ UNCHANGED <<callUnchanged, alarm, running, gridVars, countVars, seenVars>>

Ungrid ==
    /\ Step("editor", "ungrid", "unpend")
    /\ grid' = NoGrid
    /\ UNCHANGED <<callUnchanged, alarm, running, tick, last, per, countVars, seenVars>>

\* Mutant: what was asked of the old count is done to the new one.
KeepAsked == pending
Unasked == FALSE

Unpend ==
    /\ Step("editor", "unpend", "go")
    /\ pending' = Unasked
    /\ await' = IF follows THEN Second ELSE 0
    /\ count' = 0
    /\ UNCHANGED <<callUnchanged, alarm, running, tick, gridVars, jump, due>>

Go ==
    /\ Step("editor", "go", "idle")
    /\ running' = TRUE
    /\ UNCHANGED <<callUnchanged, alarm, tick, gridVars, countVars, seenVars>>

StopPlay ==
    /\ Call("editor") /\ running
    /\ running' = FALSE
    /\ clean' = (clean /\ Alone("editor"))
    /\ UNCHANGED <<callUnchanged, call, alarm, tick, gridVars, countVars, seenVars>>

\* seq_nudge_by() with the tempo we have.
Nudge ==
    /\ Call("radio") /\ running /\ grid # NoGrid
    /\ \E by \in Slides : grid' = Slid(by) /\ due' = due + by
    /\ clean' = (clean /\ Alone("radio"))
    /\ UNCHANGED <<callUnchanged, call, alarm, running, tick, last, per, countVars, count>>

\* seq_adopt(): one move at a time, and none of a clock that does not run.
Adopt ==
    /\ Call("radio") /\ running /\ ~pending
    /\ \E d \in Jumps : jump' = d /\ count' = count + d
    /\ pending' = TRUE
    /\ clean' = (clean /\ call["editor"].pc = "idle")
    /\ UNCHANGED <<callUnchanged, call, alarm, running, tick, gridVars, await, due>>

\* seq_follow()
Follow(on) ==
    /\ Call("radio")
    /\ follows' = on
    /\ pending' = (pending /\ on)
    /\ await' = IF on THEN await ELSE 0
    /\ count' = IF pending /\ ~on THEN count - jump ELSE count
    /\ UNCHANGED <<now, clk, call, alarm, running, tick, gridVars, jump, due, clean>>

Calling ==
    \/ \E c \in Callers :
          \/ Bpm(c) \/ FindAnchor(c) \/ SetGrid(c) \/ ForgetGrid(c) \/ LeaveGrid(c)
          \/ Zero(c) \/ StopTimer(c) \/ ArmAgain(c) \/ StartAgain(c)
    \/ Play \/ Ungrid \/ Unpend \/ Go \/ StopPlay
    \/ Nudge \/ Adopt \/ \E on \in BOOLEAN : Follow(on)

\* Time passes while the timer waits and while the lanes play.
Pass ==
    /\ clk.pc \in {"off", "count"} /\ now < MaxNow
    /\ alarm # Off => now < alarm + MaxLate
    /\ now' = now + 1
    /\ UNCHANGED <<alarm, running, tick, gridVars, follows, countVars, clk, call, calls,
                   seenVars, clean>>

Next == Timer \/ Calling \/ Pass

Spec == Init /\ [][Next]_vars
----------------------------------------------------------------------------
TypeOK ==
    /\ now \in Nat /\ last \in Nat /\ tick \in Int /\ count \in Int /\ due \in Int
    /\ alarm \in Int \cup {Off} /\ grid \in Int \cup {NoGrid}
    /\ per \in Periods /\ await \in Nat /\ jump \in Int /\ calls \in Nat
    /\ running \in BOOLEAN /\ follows \in BOOLEAN
    /\ pending \in BOOLEAN /\ clean \in BOOLEAN
    /\ clk \in [pc : TickPcs, began : Nat, num : Int, at : Int]
    /\ call \in [Callers -> [pc : CallPcs, at : Int]]

\* "The timer runs even when stopped": whoever stops it and whoever finds it
\* armed already, it is armed, or someone is still on the way to arming it.
TimerAlive ==
    \/ alarm # Off
    \/ ~At("off")
    \/ \E c \in Callers : call[c].pc \in {"arm", "start"}

Settled == At("off") /\ Uncalled

\* "The grid is the clock": through tempo changes, corrections and a new count,
\* the next tick is due when a metronome that keeps its bar would play it, if no
\* call ran into a tick.
OnTheGrid ==
    Settled /\ clean /\ running /\ grid # NoGrid => grid + tick * per = due

\* "The bar carries on where it was", and '>play' is from the top: ticks are
\* numbered from the last '>play' in the count last asked for.
BarKept ==
    Settled /\ clean /\ running => tick + (IF pending THEN jump ELSE 0) = count

\* A tick is where the bar has it and under the number the bar gives it (tick).
OnTheBar == OnTheGrid /\ BarKept
=============================================================================
