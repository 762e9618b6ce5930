--------------------------- MODULE SequencerProofs --------------------------
(***************************************************************************)
(* The one-shot that plays the music is never left unarmed, whatever the   *)
(* tempos, however late a tick and however often it is called into; and a  *)
(* tick that no call runs into is where the bar has it.  A note is left    *)
(* sounding only by what is lost on its way.                               *)
(***************************************************************************)
EXTENDS SeqClock, NoteOffs, TLAPS

USE DEF TickPcs, CallPcs, Callers, GotoWith

Inv == TypeOK /\ TimerAlive

\* What a period and an armed moment are.
LEMMA Numbers ==
    ASSUME TypeOK
    PROVE  /\ per \in Nat \ {0} /\ WaitMin \in Nat \ {0}
           /\ tick * per \in Int /\ Second \in Nat
           /\ NoGrid \notin Int /\ Off \notin Int
BY ClockAssumption DEF TypeOK

\* seq_clock_wait() gives a moment, and never "not at all".
LEMMA WakeIsATime ==
    ASSUME TypeOK, NEW b \in Nat
    PROVE  WakeAt(b) \in Int
<1>1. grid + tick * per \in Int \/ grid = NoGrid
  BY Numbers DEF TypeOK
<1> QED BY <1>1, Numbers DEF WakeAt, TypeOK

LEMMA Initially == Init => Inv
<1> SUFFICES ASSUME Init PROVE Inv OBVIOUS
<1>1. FirstPeriod \in Periods /\ FirstPeriod \in Nat
  BY ClockAssumption DEF FirstPeriod
<1>2. TypeOK
  <2>1. clk \in [pc : TickPcs, began : Nat, num : Int, at : Int]
    BY DEF Init
  <2>2. call \in [Callers -> [pc : CallPcs, at : Int]]
    BY DEF Init
  <2>3. alarm \in Nat /\ per \in Periods
    BY <1>1 DEF Init
  <2>4. /\ now = 0 /\ tick = 0 /\ last = 0 /\ jump = 0 /\ await = 0
        /\ calls = 0 /\ due = 0 /\ count = 0 /\ grid = NoGrid
    BY DEF Init
  <2>5. /\ running \in BOOLEAN /\ follows \in BOOLEAN
        /\ pending \in BOOLEAN /\ clean \in BOOLEAN
    BY Zenon DEF Init
  <2> QED BY <2>1, <2>2, <2>3, <2>4, <2>5 DEF TypeOK
<1>3. TimerAlive
  <2>1. alarm \in Int
    BY <1>1 DEF Init
  <2> QED BY <2>1, ClockAssumption DEF TimerAlive
<1> QED BY <1>2, <1>3 DEF Inv

LEMMA FireKeeps ==
    ASSUME Inv, Fire
    PROVE  Inv'
<1>0. TypeOK /\ TimerAlive BY DEF Inv
<1>1. TypeOK'
  <2>1. clean' \in BOOLEAN
    BY <1>0 DEF Fire, TypeOK
  <2>2. clk' \in [pc : TickPcs, began : Nat, num : Int, at : Int]
    BY <1>0 DEF Inv, Fire, AtRest, At, timerUnchanged, gridVars, countVars,
       seenVars, TypeOK
  <2>3. /\ alarm' = Off
        /\ UNCHANGED <<now, follows, call, calls, running, tick, grid, last, per,
                       pending, jump, await, due, count>>
    BY DEF Fire, timerUnchanged, gridVars, countVars, seenVars
  <2> QED BY <1>0, <2>1, <2>2, <2>3 DEF TypeOK
<1>2. TimerAlive'
  BY <1>0, Numbers, ClockAssumption DEF Inv, Fire, AtRest, At, timerUnchanged,
     gridVars, countVars, seenVars, TypeOK, TimerAlive
<1> QED BY <1>1, <1>2 DEF Inv

LEMMA BeginKeeps ==
    ASSUME Inv, Begin
    PROVE  Inv'
<1>0. TypeOK /\ TimerAlive BY DEF Inv
<1>1. TypeOK'
  BY <1>0, Numbers, ClockAssumption DEF Inv, Begin, At, timerUnchanged, gridVars,
     countVars, seenVars, Goto, TypeOK
<1>2. TimerAlive'
  BY <1>0, Numbers, ClockAssumption DEF Inv, Begin, At, timerUnchanged, gridVars,
     countVars, seenVars, Goto, TypeOK, TimerAlive
<1> QED BY <1>1, <1>2 DEF Inv

LEMMA TakeJumpKeeps ==
    ASSUME Inv, TakeJump
    PROVE  Inv'
<1>0. TypeOK /\ TimerAlive BY DEF Inv
<1>1. TypeOK'
  BY <1>0, Numbers, ClockAssumption DEF Inv, TakeJump, At, timerUnchanged,
     gridVars, countVars, seenVars, TypeOK
<1>2. TimerAlive'
  BY <1>0, Numbers, ClockAssumption DEF Inv, TakeJump, At, timerUnchanged,
     gridVars, countVars, seenVars, TypeOK, TimerAlive
<1> QED BY <1>1, <1>2 DEF Inv

LEMMA NoJumpKeeps ==
    ASSUME Inv, NoJump
    PROVE  Inv'
<1>0. TypeOK /\ TimerAlive BY DEF Inv
<1>1. TypeOK'
  BY <1>0, Numbers, ClockAssumption DEF Inv, NoJump, At, timerUnchanged, gridVars,
     countVars, seenVars, Goto, TypeOK
<1>2. TimerAlive'
  BY <1>0, Numbers, ClockAssumption DEF Inv, NoJump, At, timerUnchanged, gridVars,
     countVars, seenVars, Goto, TypeOK, TimerAlive
<1> QED BY <1>1, <1>2 DEF Inv

LEMMA RenumberKeeps ==
    ASSUME Inv, Renumber
    PROVE  Inv'
<1>0. TypeOK /\ TimerAlive BY DEF Inv
<1>1. TypeOK'
  BY <1>0, Numbers, ClockAssumption DEF Inv, Renumber, At, timerUnchanged,
     gridVars, countVars, seenVars, TypeOK
<1>2. TimerAlive'
  BY <1>0, Numbers, ClockAssumption DEF Inv, Renumber, At, timerUnchanged,
     gridVars, countVars, seenVars, TypeOK, TimerAlive
<1> QED BY <1>1, <1>2 DEF Inv

LEMMA KeepTimeKeeps ==
    ASSUME Inv, KeepTime
    PROVE  Inv'
<1>0. TypeOK /\ TimerAlive BY DEF Inv
<1>1. TypeOK'
  BY <1>0, Numbers, ClockAssumption DEF Inv, KeepTime, At, timerUnchanged,
     gridVars, countVars, seenVars, Goto, Slid, TypeOK
<1>2. TimerAlive'
  BY <1>0, Numbers, ClockAssumption DEF Inv, KeepTime, At, timerUnchanged,
     gridVars, countVars, seenVars, Goto, Slid, TypeOK, TimerAlive
<1> QED BY <1>1, <1>2 DEF Inv

LEMMA JoinedKeeps ==
    ASSUME Inv, Joined
    PROVE  Inv'
<1>0. TypeOK /\ TimerAlive BY DEF Inv
<1>1. TypeOK'
  BY <1>0, Numbers, ClockAssumption DEF Inv, Joined, At, timerUnchanged, gridVars,
     countVars, seenVars, Goto, TypeOK
<1>2. TimerAlive'
  BY <1>0, Numbers, ClockAssumption DEF Inv, Joined, At, timerUnchanged, gridVars,
     countVars, seenVars, Goto, TypeOK, TimerAlive
<1> QED BY <1>1, <1>2 DEF Inv

LEMMA WaitKeeps ==
    ASSUME Inv, Wait
    PROVE  Inv'
<1>0. TypeOK /\ TimerAlive BY DEF Inv
<1>1. TypeOK'
  BY <1>0, Numbers, ClockAssumption DEF Inv, Wait, At, timerUnchanged, gridVars,
     countVars, seenVars, Goto, CountDown, TypeOK
<1>2. TimerAlive'
  BY <1>0, Numbers, ClockAssumption DEF Inv, Wait, At, timerUnchanged, gridVars,
     countVars, seenVars, Goto, CountDown, TypeOK, TimerAlive
<1> QED BY <1>1, <1>2 DEF Inv

LEMMA FindGridKeeps ==
    ASSUME Inv, FindGrid
    PROVE  Inv'
<1>0. TypeOK /\ TimerAlive BY DEF Inv
<1>1. TypeOK'
  BY <1>0, Numbers, ClockAssumption DEF Inv, FindGrid, At, timerUnchanged,
     gridVars, countVars, seenVars, Goto, AnchorOf, TypeOK
<1>2. TimerAlive'
  BY <1>0, Numbers, ClockAssumption DEF Inv, FindGrid, At, timerUnchanged,
     gridVars, countVars, seenVars, Goto, AnchorOf, TypeOK, TimerAlive
<1> QED BY <1>1, <1>2 DEF Inv

LEMMA AnchorKeeps ==
    ASSUME Inv, Anchor
    PROVE  Inv'
<1>0. TypeOK /\ TimerAlive BY DEF Inv
<1>1. TypeOK'
  BY <1>0, Numbers, ClockAssumption DEF Inv, Anchor, At, timerUnchanged, gridVars,
     countVars, seenVars, Goto, TypeOK
<1>2. TimerAlive'
  BY <1>0, Numbers, ClockAssumption DEF Inv, Anchor, At, timerUnchanged, gridVars,
     countVars, seenVars, Goto, TypeOK, TimerAlive
<1> QED BY <1>1, <1>2 DEF Inv

LEMMA WorkKeeps ==
    ASSUME Inv, Work
    PROVE  Inv'
<1>0. TypeOK /\ TimerAlive BY DEF Inv
<1>1. TypeOK'
  BY <1>0, Numbers, ClockAssumption DEF Inv, Work, At, timerUnchanged, gridVars,
     countVars, seenVars, TypeOK
<1>2. TimerAlive'
  BY <1>0, Numbers, ClockAssumption DEF Inv, Work, At, timerUnchanged, gridVars,
     countVars, seenVars, TypeOK, TimerAlive
<1> QED BY <1>1, <1>2 DEF Inv

LEMMA CountOnKeeps ==
    ASSUME Inv, CountOn
    PROVE  Inv'
<1>0. TypeOK /\ TimerAlive BY DEF Inv
<1>1. TypeOK'
  BY <1>0, Numbers, ClockAssumption DEF Inv, CountOn, At, timerUnchanged, gridVars,
     countVars, seenVars, Goto, TypeOK
<1>2. TimerAlive'
  BY <1>0, Numbers, ClockAssumption DEF Inv, CountOn, At, timerUnchanged, gridVars,
     countVars, seenVars, Goto, TypeOK, TimerAlive
<1> QED BY <1>1, <1>2 DEF Inv

LEMMA ArmKeeps ==
    ASSUME Inv, Arm
    PROVE  Inv'
<1>0. TypeOK /\ TimerAlive BY DEF Inv
<1>1. TypeOK'
  BY <1>0, Numbers, ClockAssumption, WakeIsATime DEF Inv, Arm, At, timerUnchanged,
     gridVars, countVars, seenVars, TypeOK
<1>2. TimerAlive'
  BY <1>0, Numbers, ClockAssumption DEF Inv, Arm, At, timerUnchanged, gridVars,
     countVars, seenVars, TypeOK, TimerAlive
<1> QED BY <1>1, <1>2 DEF Inv

LEMMA StartKeeps ==
    ASSUME Inv, Start
    PROVE  Inv'
<1>0. TypeOK /\ TimerAlive BY DEF Inv
<1>1. TypeOK'
  BY <1>0, Numbers, ClockAssumption DEF Inv, Start, At, timerUnchanged, gridVars,
     countVars, seenVars, AtRest, StartOnce, TypeOK
<1>2. TimerAlive'
  BY <1>0, Numbers, ClockAssumption DEF Inv, Start, At, timerUnchanged, gridVars,
     countVars, seenVars, AtRest, StartOnce, TypeOK, TimerAlive
<1> QED BY <1>1, <1>2 DEF Inv

LEMMA BpmKeeps ==
    ASSUME Inv, NEW c \in Callers, Bpm(c)
    PROVE  Inv'
<1>0. TypeOK /\ TimerAlive BY DEF Inv
<1>1. TypeOK'
  BY <1>0, Numbers, ClockAssumption DEF Inv, Bpm, At, timerUnchanged, gridVars,
     countVars, seenVars, Alone, Turn, Call, callUnchanged, TypeOK
<1>2. TimerAlive'
  BY <1>0, Numbers, ClockAssumption DEF Inv, Bpm, At, timerUnchanged, gridVars,
     countVars, seenVars, Alone, Turn, Call, callUnchanged, TypeOK, TimerAlive
<1> QED BY <1>1, <1>2 DEF Inv

LEMMA FindAnchorKeeps ==
    ASSUME Inv, NEW c \in Callers, FindAnchor(c)
    PROVE  Inv'
<1>0. TypeOK /\ TimerAlive BY DEF Inv
<1>1. TypeOK'
  BY <1>0, Numbers, ClockAssumption DEF Inv, FindAnchor, At, timerUnchanged,
     gridVars, countVars, seenVars, Alone, Turn, StepWith, Reanchored,
     callUnchanged, TypeOK
<1>2. TimerAlive'
  BY <1>0, Numbers, ClockAssumption DEF Inv, FindAnchor, At, timerUnchanged,
     gridVars, countVars, seenVars, Alone, Turn, StepWith, Reanchored,
     callUnchanged, TypeOK, TimerAlive
<1> QED BY <1>1, <1>2 DEF Inv

LEMMA SetGridKeeps ==
    ASSUME Inv, NEW c \in Callers, SetGrid(c)
    PROVE  Inv'
<1>0. TypeOK /\ TimerAlive BY DEF Inv
<1>1. TypeOK'
  BY <1>0, Numbers, ClockAssumption DEF Inv, SetGrid, At, timerUnchanged, gridVars,
     countVars, seenVars, Alone, Turn, Step, StepWith, callUnchanged, TypeOK
<1>2. TimerAlive'
  BY <1>0, Numbers, ClockAssumption DEF Inv, SetGrid, At, timerUnchanged, gridVars,
     countVars, seenVars, Alone, Turn, Step, StepWith, callUnchanged, TypeOK,
     TimerAlive
<1> QED BY <1>1, <1>2 DEF Inv

LEMMA ForgetGridKeeps ==
    ASSUME Inv, NEW c \in Callers, ForgetGrid(c)
    PROVE  Inv'
<1>0. TypeOK /\ TimerAlive BY DEF Inv
<1>1. TypeOK'
  BY <1>0, Numbers, ClockAssumption DEF Inv, ForgetGrid, At, timerUnchanged,
     gridVars, countVars, seenVars, Alone, Turn, Step, StepWith, callUnchanged,
     TypeOK
<1>2. TimerAlive'
  BY <1>0, Numbers, ClockAssumption DEF Inv, ForgetGrid, At, timerUnchanged,
     gridVars, countVars, seenVars, Alone, Turn, Step, StepWith, callUnchanged,
     TypeOK, TimerAlive
<1> QED BY <1>1, <1>2 DEF Inv

LEMMA LeaveGridKeeps ==
    ASSUME Inv, NEW c \in Callers, LeaveGrid(c)
    PROVE  Inv'
<1>0. TypeOK /\ TimerAlive BY DEF Inv
<1>1. TypeOK'
  BY <1>0, Numbers, ClockAssumption DEF Inv, LeaveGrid, At, timerUnchanged,
     gridVars, countVars, seenVars, Alone, Turn, Step, StepWith, callUnchanged,
     TypeOK
<1>2. TimerAlive'
  BY <1>0, Numbers, ClockAssumption DEF Inv, LeaveGrid, At, timerUnchanged,
     gridVars, countVars, seenVars, Alone, Turn, Step, StepWith, callUnchanged,
     TypeOK, TimerAlive
<1> QED BY <1>1, <1>2 DEF Inv

LEMMA ZeroKeeps ==
    ASSUME Inv, NEW c \in Callers, Zero(c)
    PROVE  Inv'
<1>0. TypeOK /\ TimerAlive BY DEF Inv
<1>1. TypeOK'
  BY <1>0, Numbers, ClockAssumption DEF Inv, Zero, At, timerUnchanged, gridVars,
     countVars, seenVars, Alone, Turn, Step, StepWith, callUnchanged, TypeOK
<1>2. TimerAlive'
  BY <1>0, Numbers, ClockAssumption DEF Inv, Zero, At, timerUnchanged, gridVars,
     countVars, seenVars, Alone, Turn, Step, StepWith, callUnchanged, TypeOK,
     TimerAlive
<1> QED BY <1>1, <1>2 DEF Inv

LEMMA StopTimerKeeps ==
    ASSUME Inv, NEW c \in Callers, StopTimer(c)
    PROVE  Inv'
<1>0. TypeOK /\ TimerAlive BY DEF Inv
<1>1. TypeOK'
  BY <1>0, Numbers, ClockAssumption DEF Inv, StopTimer, At, timerUnchanged,
     gridVars, countVars, seenVars, Alone, Turn, Step, StepWith, callUnchanged,
     TypeOK
<1>2. TimerAlive'
  BY <1>0, Numbers, ClockAssumption DEF Inv, StopTimer, At, timerUnchanged,
     gridVars, countVars, seenVars, Alone, Turn, Step, StepWith, callUnchanged,
     TypeOK, TimerAlive
<1> QED BY <1>1, <1>2 DEF Inv

LEMMA ArmAgainKeeps ==
    ASSUME Inv, NEW c \in Callers, ArmAgain(c)
    PROVE  Inv'
<1>0. TypeOK /\ TimerAlive BY DEF Inv
<1>1. TypeOK'
  BY <1>0, Numbers, ClockAssumption, WakeIsATime DEF Inv, ArmAgain, At,
     timerUnchanged, gridVars, countVars, seenVars, Alone, Turn, StepWith,
     AfterStop, callUnchanged, TypeOK
<1>2. TimerAlive'
  BY <1>0, Numbers, ClockAssumption DEF Inv, ArmAgain, At, timerUnchanged,
     gridVars, countVars, seenVars, Alone, Turn, StepWith, AfterStop,
     callUnchanged, TypeOK, TimerAlive
<1> QED BY <1>1, <1>2 DEF Inv

LEMMA StartAgainKeeps ==
    ASSUME Inv, NEW c \in Callers, StartAgain(c)
    PROVE  Inv'
<1>0. TypeOK /\ TimerAlive BY DEF Inv
<1>1. TypeOK'
  BY <1>0, Numbers, ClockAssumption DEF Inv, StartAgain, At, timerUnchanged,
     gridVars, countVars, seenVars, Alone, Turn, Step, StepWith, StartOnce,
     callUnchanged, TypeOK
<1>2. TimerAlive'
  BY <1>0, Numbers, ClockAssumption DEF Inv, StartAgain, At, timerUnchanged,
     gridVars, countVars, seenVars, Alone, Turn, Step, StepWith, StartOnce,
     callUnchanged, TypeOK, TimerAlive
<1> QED BY <1>1, <1>2 DEF Inv

LEMMA PlayKeeps ==
    ASSUME Inv, Play
    PROVE  Inv'
<1>0. TypeOK /\ TimerAlive BY DEF Inv
<1>1. TypeOK'
  BY <1>0, Numbers, ClockAssumption DEF Inv, Play, At, timerUnchanged, gridVars,
     countVars, seenVars, Alone, Turn, Call, callUnchanged, TypeOK
<1>2. TimerAlive'
  BY <1>0, Numbers, ClockAssumption DEF Inv, Play, At, timerUnchanged, gridVars,
     countVars, seenVars, Alone, Turn, Call, callUnchanged, TypeOK, TimerAlive
<1> QED BY <1>1, <1>2 DEF Inv

LEMMA UngridKeeps ==
    ASSUME Inv, Ungrid
    PROVE  Inv'
<1>0. TypeOK /\ TimerAlive BY DEF Inv
<1>1. TypeOK'
  BY <1>0, Numbers, ClockAssumption DEF Inv, Ungrid, At, timerUnchanged, gridVars,
     countVars, seenVars, Alone, Turn, Step, StepWith, callUnchanged, TypeOK
<1>2. TimerAlive'
  BY <1>0, Numbers, ClockAssumption DEF Inv, Ungrid, At, timerUnchanged, gridVars,
     countVars, seenVars, Alone, Turn, Step, StepWith, callUnchanged, TypeOK,
     TimerAlive
<1> QED BY <1>1, <1>2 DEF Inv

LEMMA UnpendKeeps ==
    ASSUME Inv, Unpend
    PROVE  Inv'
<1>0. TypeOK /\ TimerAlive BY DEF Inv
<1>1. TypeOK'
  <2>1. clean' \in BOOLEAN /\ running' \in BOOLEAN /\ pending' \in BOOLEAN
    BY <1>0, Zenon DEF Inv, Unpend, At, timerUnchanged, gridVars, countVars,
       seenVars, Alone, Turn, Step, StepWith, Unasked, callUnchanged, TypeOK
  <2>2. await' \in Nat
    BY <1>0, Numbers DEF Inv, Unpend, At, timerUnchanged, gridVars, countVars,
       seenVars, Alone, Turn, Step, StepWith, Unasked, callUnchanged, TypeOK
  <2>3. call' \in [Callers -> [pc : CallPcs, at : Int]] /\ calls' \in Nat
    BY <1>0 DEF Inv, Unpend, At, timerUnchanged, gridVars, countVars, seenVars,
       Alone, Turn, Step, StepWith, Unasked, callUnchanged, TypeOK
  <2> QED BY <1>0, <2>1, <2>2, <2>3 DEF Inv, Unpend, At, timerUnchanged, gridVars,
           countVars, seenVars, Alone, Turn, Step, StepWith, Unasked,
           callUnchanged, TypeOK
<1>2. TimerAlive'
  BY <1>0, Numbers, ClockAssumption DEF Inv, Unpend, At, timerUnchanged, gridVars,
     countVars, seenVars, Alone, Turn, Step, StepWith, Unasked, callUnchanged,
     TypeOK, TimerAlive
<1> QED BY <1>1, <1>2 DEF Inv

LEMMA GoKeeps ==
    ASSUME Inv, Go
    PROVE  Inv'
<1>0. TypeOK /\ TimerAlive BY DEF Inv
<1>1. TypeOK'
  BY <1>0, Numbers, ClockAssumption DEF Inv, Go, At, timerUnchanged, gridVars,
     countVars, seenVars, Alone, Turn, Step, StepWith, callUnchanged, TypeOK
<1>2. TimerAlive'
  BY <1>0, Numbers, ClockAssumption DEF Inv, Go, At, timerUnchanged, gridVars,
     countVars, seenVars, Alone, Turn, Step, StepWith, callUnchanged, TypeOK,
     TimerAlive
<1> QED BY <1>1, <1>2 DEF Inv

LEMMA StopPlayKeeps ==
    ASSUME Inv, StopPlay
    PROVE  Inv'
<1>0. TypeOK /\ TimerAlive BY DEF Inv
<1>1. TypeOK'
  <2>1. clean' \in BOOLEAN /\ running' \in BOOLEAN /\ pending' \in BOOLEAN
    BY <1>0, Zenon DEF Inv, StopPlay, At, timerUnchanged, gridVars, countVars,
       seenVars, Alone, Turn, Call, callUnchanged, TypeOK
  <2>2. await' \in Nat
    BY <1>0, Numbers DEF Inv, StopPlay, At, timerUnchanged, gridVars, countVars,
       seenVars, Alone, Turn, Call, callUnchanged, TypeOK
  <2>3. call' \in [Callers -> [pc : CallPcs, at : Int]] /\ calls' \in Nat
    BY <1>0 DEF Inv, StopPlay, At, timerUnchanged, gridVars, countVars, seenVars,
       Alone, Turn, Call, callUnchanged, TypeOK
  <2> QED BY <1>0, <2>1, <2>2, <2>3 DEF Inv, StopPlay, At, timerUnchanged,
           gridVars, countVars, seenVars, Alone, Turn, Call, callUnchanged, TypeOK
<1>2. TimerAlive'
  BY <1>0, Numbers, ClockAssumption DEF Inv, StopPlay, At, timerUnchanged,
     gridVars, countVars, seenVars, Alone, Turn, Call, callUnchanged, TypeOK,
     TimerAlive
<1> QED BY <1>1, <1>2 DEF Inv

LEMMA NudgeKeeps ==
    ASSUME Inv, Nudge
    PROVE  Inv'
<1>0. TypeOK /\ TimerAlive BY DEF Inv
<1>1. TypeOK'
  BY <1>0, Numbers, ClockAssumption DEF Inv, Nudge, At, timerUnchanged, gridVars,
     countVars, seenVars, Alone, Turn, Call, callUnchanged, Slid, TypeOK
<1>2. TimerAlive'
  BY <1>0, Numbers, ClockAssumption DEF Inv, Nudge, At, timerUnchanged, gridVars,
     countVars, seenVars, Alone, Turn, Call, callUnchanged, Slid, TypeOK,
     TimerAlive
<1> QED BY <1>1, <1>2 DEF Inv

LEMMA AdoptKeeps ==
    ASSUME Inv, Adopt
    PROVE  Inv'
<1>0. TypeOK /\ TimerAlive BY DEF Inv
<1>1. TypeOK'
  BY <1>0, Numbers, ClockAssumption DEF Inv, Adopt, At, timerUnchanged, gridVars,
     countVars, seenVars, Alone, Turn, Call, callUnchanged, TypeOK
<1>2. TimerAlive'
  BY <1>0, Numbers, ClockAssumption DEF Inv, Adopt, At, timerUnchanged, gridVars,
     countVars, seenVars, Alone, Turn, Call, callUnchanged, TypeOK, TimerAlive
<1> QED BY <1>1, <1>2 DEF Inv

LEMMA FollowKeeps ==
    ASSUME Inv, NEW on \in BOOLEAN, Follow(on)
    PROVE  Inv'
<1>1. TypeOK'
  BY DEF Inv, TypeOK, Follow, Call, gridVars, countVars, seenVars
<1>2. TimerAlive'
  BY DEF Inv, TimerAlive, Follow, At, Call
<1> QED BY <1>1, <1>2 DEF Inv

LEMMA PassKeeps ==
    ASSUME Inv, Pass
    PROVE  Inv'
BY DEF Inv, TypeOK, TimerAlive, Pass, At, gridVars, countVars, seenVars

LEMMA StepKeeps == Inv /\ [Next]_vars => Inv'
<1> SUFFICES ASSUME Inv, [Next]_vars PROVE Inv' OBVIOUS
<1>1. CASE Timer
  BY <1>1, FireKeeps, BeginKeeps, TakeJumpKeeps, NoJumpKeeps, RenumberKeeps,
     KeepTimeKeeps, JoinedKeeps, WaitKeeps, FindGridKeeps, AnchorKeeps, WorkKeeps,
     CountOnKeeps, ArmKeeps, StartKeeps DEF Timer
<1>2. CASE Calling
  <2>1. CASE \E c \in Callers :
                 \/ Bpm(c) \/ FindAnchor(c) \/ SetGrid(c) \/ ForgetGrid(c) \/ LeaveGrid(c)
                 \/ Zero(c) \/ StopTimer(c) \/ ArmAgain(c) \/ StartAgain(c)
    BY <2>1, BpmKeeps, FindAnchorKeeps, SetGridKeeps, ForgetGridKeeps,
       LeaveGridKeeps, ZeroKeeps, StopTimerKeeps, ArmAgainKeeps, StartAgainKeeps
  <2>2. CASE Play \/ Ungrid \/ Unpend \/ Go \/ StopPlay \/ Nudge \/ Adopt
    BY <2>2, PlayKeeps, UngridKeeps, UnpendKeeps, GoKeeps, StopPlayKeeps,
       NudgeKeeps, AdoptKeeps
  <2>3. CASE \E on \in BOOLEAN : Follow(on)
    BY <2>3, FollowKeeps
  <2> QED BY <1>2, <2>1, <2>2, <2>3 DEF Calling
<1>3. CASE Pass
  BY <1>3, PassKeeps
<1>4. CASE UNCHANGED vars
  BY <1>4 DEF Inv, TypeOK, TimerAlive, At, vars, gridVars, countVars, seenVars
<1> QED BY <1>1, <1>2, <1>3, <1>4 DEF Next

\* However a tick on one core and calls from two tasks on the other meet, the
\* clock's one-shot is armed or about to be: nothing stops the note-offs that
\* it serves (seq_init: "the timer runs even when stopped").
THEOREM ClockNeverStops == Spec => [](TypeOK /\ TimerAlive)
<1>1. Init => Inv BY Initially
<1>2. Inv /\ [Next]_vars => Inv' BY StepKeeps
<1> QED BY <1>1, <1>2, PTL DEF Spec, Inv
----------------------------------------------------------------------------
(***************************************************************************)
(* The grid and the count.                                                 *)
(***************************************************************************)

\* What is still to be added to the count.
Asked == IF pending THEN jump ELSE 0

\* The number t is due when the metronome plays the next tick, and is the one
\* it would give it.
OnGrid(t) == running /\ grid # NoGrid => grid + t * per = due
InCount(t) == running => t + Asked = count

\* Where tick() stands, how far the number and the grid have followed each other.
TickKept ==
    /\ clk.pc \notin {"jump", "slide", "anchored"} => OnGrid(tick)
    /\ clk.pc # "jump" => InCount(tick)
    /\ clk.pc = "jump" => OnGrid(tick) /\ InCount(tick + clk.at)
    /\ clk.pc = "slide" => OnGrid(tick - clk.at)
    /\ clk.pc = "anchored" => clk.at = clk.began - tick * per
    /\ clk.pc \in {"jump", "count"} => clk.num = tick

\* The same, where a call stands.
CallKept(pc, at) ==
    /\ pc \in {"anchor", "set", "stop", "arm", "start"} => InCount(tick)
    /\ pc \in {"stop", "arm", "start"} => OnGrid(tick)
    /\ pc = "set" => at + tick * per = last + per
    /\ pc = "zero" => ~running
    /\ pc \in {"ungrid", "unpend", "go"} => tick = 0
    /\ pc \in {"unpend", "go"} => grid = NoGrid
    /\ pc = "go" => count = 0 /\ ~pending

\* As long as no call runs into a tick or another call, one of them at most is
\* under way, and it stands where the bar has it.
BarInv ==
    clean => /\ ~At("off") => Uncalled
             /\ call["editor"].pc = "idle" \/ call["radio"].pc = "idle"
             /\ Uncalled => TickKept
             /\ \A c \in Callers : CallKept(call[c].pc, call[c].at)

Bar == Inv /\ BarInv

\* The products of numbers and periods that the steps meet.
LEMMA Products ==
    ASSUME TypeOK
    PROVE  /\ \A a, b \in Int : (a + b) * per = a * per + b * per
           /\ \A a, b \in Int : (a - b) * per = a * per - b * per
           /\ \A a \in Int : a * per \in Int /\ (-(a * per)) = 0 - a * per
           /\ \A a \in Int : (a + 1) * per = a * per + per
  BY Numbers

\* What the clock and the calls are.
LEMMA Parts ==
    ASSUME TypeOK
    PROVE  /\ clk.pc \in TickPcs /\ clk.began \in Nat /\ clk.num \in Int /\ clk.at \in Int
           /\ \A c \in Callers : call[c] \in [pc : CallPcs, at : Int]
           /\ \A c \in Callers : call[c].pc \in CallPcs /\ call[c].at \in Int
           /\ tick \in Int /\ count \in Int /\ due \in Int /\ last \in Nat /\ jump \in Int
           /\ per \in Nat /\ tick * per \in Int /\ (grid \in Int \/ grid = NoGrid)
           /\ pending \in BOOLEAN /\ running \in BOOLEAN /\ Asked \in Int
  BY Numbers DEF TypeOK, Asked

\* A step of the tick, when no call has run into it.
LEMMA TickGoesOn ==
    ASSUME TypeOK, BarInv, clk.pc # "off", call' = call, clean' = clean,
           TickKept => TickKept'
    PROVE  BarInv'
<1> SUFFICES ASSUME clean'
             PROVE  /\ ~At("off")' => Uncalled'
                    /\ call'["editor"].pc = "idle" \/ call'["radio"].pc = "idle"
                    /\ Uncalled' => TickKept'
                    /\ \A c \in Callers : CallKept(call[c].pc, call[c].at)'
  BY DEF BarInv
<1>1. Uncalled /\ TickKept
  BY DEF BarInv, At
<1>2. \A c \in Callers : call[c].pc = "idle" /\ call'[c].pc = "idle"
  BY <1>1 DEF Uncalled
<1>3. \A c \in Callers : CallKept(call[c].pc, call[c].at)'
  BY <1>2 DEF CallKept
<1> QED
  BY <1>1, <1>2, <1>3 DEF Uncalled

\* A step of a call, when it has run into nothing.
GoesTo(c, pc, v) ==
    /\ clk' = clk /\ call' = [call EXCEPT ![c] = [pc |-> pc, at |-> v]]
    /\ clean' = (clean /\ Alone(c))

\* Such a step keeps the bar, if the call stands where it should.
LEMMA CallGoesOn ==
    ASSUME TypeOK, BarInv, NEW c \in Callers, NEW pc, NEW v, GoesTo(c, pc, v),
           clean /\ Alone(c) => CallKept(pc, v)' /\ (pc = "idle" => TickKept')
    PROVE  BarInv'
<1> SUFFICES ASSUME clean'
             PROVE  /\ ~At("off")' => Uncalled'
                    /\ call'["editor"].pc = "idle" \/ call'["radio"].pc = "idle"
                    /\ Uncalled' => TickKept'
                    /\ \A d \in Callers : CallKept(call[d].pc, call[d].at)'
  BY DEF BarInv
<1>1. /\ At("off") /\ clk' = clk /\ CallKept(pc, v)' /\ (pc = "idle" => TickKept')
      /\ \A d \in Callers \ {c} : call[d].pc = "idle"
  BY DEF GoesTo, Alone
<1>2. /\ call'[c].pc = pc /\ call'[c].at = v
      /\ \A d \in Callers \ {c} : call'[d].pc = "idle"
  BY <1>1 DEF GoesTo, TypeOK
<1>3. At("off")'
  BY <1>1 DEF At
<1>4. \A d \in Callers \ {c} : CallKept(call[d].pc, call[d].at)'
  BY <1>2 DEF CallKept
<1>5. CallKept(call[c].pc, call[c].at)'
  BY <1>1, <1>2
<1>6. \A d \in Callers : CallKept(call[d].pc, call[d].at)'
  BY <1>4, <1>5
<1>7. call'["editor"].pc = "idle" \/ call'["radio"].pc = "idle"
  BY <1>2
<1>8. Uncalled' => TickKept'
  BY <1>1, <1>2 DEF Uncalled
<1> QED
  BY <1>3, <1>6, <1>7, <1>8

\* What a call finds when it has run into nothing.
LEMMA CallFinds ==
    ASSUME TypeOK, BarInv, NEW c \in Callers, clean, Alone(c)
    PROVE  /\ CallKept(call[c].pc, call[c].at)
           /\ call[c].pc = "idle" => OnGrid(tick) /\ InCount(tick)
           /\ clk.pc = "off"
<1>1. call[c].pc = "idle" => Uncalled
  BY DEF Alone, Uncalled
<1>2. call[c].pc = "idle" => TickKept
  <2>1. clean => (Uncalled => TickKept)
    BY DEF BarInv
  <2> QED
    BY <1>1, <2>1
<1> QED
  BY <1>2 DEF BarInv, TickKept, Alone, At

\* With the tick at rest, all there is to keep.
LEMMA AtRestKept ==
    ASSUME clk' = clk, clk.pc = "off", OnGrid(tick)', InCount(tick)'
    PROVE  TickKept'
  BY DEF TickKept

\* A call of one step.
LEMMA CallAtOnce ==
    ASSUME TypeOK, BarInv, NEW c \in Callers, call[c].pc = "idle", clk' = clk, call' = call,
           clean' = (clean /\ Alone(c)),
           OnGrid(tick) /\ InCount(tick) => OnGrid(tick)' /\ InCount(tick)'
    PROVE  BarInv'
<1> SUFFICES ASSUME clean'
             PROVE  /\ ~At("off")' => Uncalled'
                    /\ call'["editor"].pc = "idle" \/ call'["radio"].pc = "idle"
                    /\ Uncalled' => TickKept'
                    /\ \A d \in Callers : CallKept(call[d].pc, call[d].at)'
  BY DEF BarInv
<1>1. clk.pc = "off" /\ OnGrid(tick) /\ InCount(tick)
  BY CallFinds
<1>2. TickKept'
  BY <1>1, AtRestKept
<1>3. \A d \in Callers : call'[d].pc = "idle"
  BY DEF Alone
<1>4. \A d \in Callers : CallKept(call[d].pc, call[d].at)'
  BY <1>3 DEF CallKept
<1> QED
  BY <1>2, <1>3, <1>4 DEF Uncalled

\* Every step of the tick, of a call and of time keeps the bar.
LEMMA FireBar == ASSUME TypeOK, BarInv, Fire PROVE BarInv'
<1> SUFFICES ASSUME clean'
             PROVE  /\ ~At("off")' => Uncalled'
                    /\ call'["editor"].pc = "idle" \/ call'["radio"].pc = "idle"
                    /\ Uncalled' => TickKept'
                    /\ \A d \in Callers : CallKept(call[d].pc, call[d].at)'
  BY DEF BarInv
<1>1. /\ clean /\ Uncalled /\ clk.pc = "off" /\ call' = call /\ clk'.pc = "begin"
      /\ UNCHANGED <<running, tick, grid, per, pending, jump, due, count>>
  BY DEF Fire, At, timerUnchanged, gridVars, countVars, seenVars
<1>2. OnGrid(tick)' /\ InCount(tick)'
  BY <1>1 DEF BarInv, TickKept, OnGrid, InCount, Asked
<1>3. TickKept'
  BY <1>1, <1>2 DEF TickKept
<1>4. \A d \in Callers : call'[d].pc = "idle"
  BY <1>1 DEF Uncalled
<1>5. \A d \in Callers : CallKept(call[d].pc, call[d].at)'
  BY <1>4 DEF CallKept
<1> QED
  BY <1>3, <1>4, <1>5 DEF Uncalled

LEMMA BeginBar == ASSUME TypeOK, BarInv, Begin PROVE BarInv'
<1>1. clk.pc # "off" /\ call' = call /\ clean' = clean
  BY DEF Begin, At, timerUnchanged
<1>2. TickKept => TickKept'
  <2>1. clk.pc = "begin" /\ clk'.pc \in {"number", "arm"} /\ UNCHANGED <<running, tick, grid, per, pending, jump, due, count>>
    BY DEF Begin, At, timerUnchanged, gridVars, countVars, seenVars, Goto
  <2> QED
    BY <2>1 DEF TickKept, OnGrid, InCount, Asked
<1> QED
  BY <1>1, <1>2, TickGoesOn

LEMMA TakeJumpBar == ASSUME TypeOK, BarInv, TakeJump PROVE BarInv'
<1>1. clk.pc # "off" /\ call' = call /\ clean' = clean
  BY DEF TakeJump, At, timerUnchanged
<1>2. TickKept => TickKept'
  <2>1. /\ clk.pc = "number" /\ pending /\ ~pending' /\ clk'.num = tick /\ clk'.at = jump
        /\ (jump = 0 /\ clk'.pc = "joined") \/ clk'.pc = "jump"
        /\ UNCHANGED <<running, tick, grid, per, jump, due, count>>
    BY DEF TakeJump, At, timerUnchanged, gridVars, countVars, seenVars, Goto
  <2> SUFFICES ASSUME TickKept PROVE TickKept'
    OBVIOUS
  <2>2. running => tick + jump = count
    BY <2>1 DEF TickKept, OnGrid, InCount, Asked
  <2>3. OnGrid(tick)'
    BY <2>1 DEF TickKept, OnGrid, InCount, Asked
  <2>4. (InCount(tick))' \/ clk'.pc = "jump"
    BY <2>1, <2>2, Parts DEF TickKept, OnGrid, InCount, Asked
  <2>5. clk'.pc = "jump" => (running' => tick' + clk'.at + Asked' = count')
    BY <2>1, <2>2, Parts DEF Asked
  <2> QED
    BY <2>1, <2>3, <2>4, <2>5 DEF TickKept, InCount
<1> QED
  BY <1>1, <1>2, TickGoesOn

LEMMA NoJumpBar == ASSUME TypeOK, BarInv, NoJump PROVE BarInv'
<1>1. clk.pc # "off" /\ call' = call /\ clean' = clean
  BY DEF NoJump, At, timerUnchanged
<1>2. TickKept => TickKept'
  BY Parts, Products DEF NoJump, At, timerUnchanged, gridVars, countVars, seenVars, Goto, AtRest, StartOnce, TickKept, OnGrid, InCount, Asked
<1> QED
  BY <1>1, <1>2, TickGoesOn

LEMMA RenumberBar == ASSUME TypeOK, BarInv, Renumber PROVE BarInv'
<1>1. clk.pc # "off" /\ call' = call /\ clean' = clean
  BY DEF Renumber, At, timerUnchanged
<1>2. TickKept => TickKept'
  <2>1. /\ clk.pc = "jump" /\ clk'.pc = "slide" /\ clk'.at = clk.at /\ tick' = clk.num + clk.at
        /\ UNCHANGED <<running, grid, per, pending, jump, due, count>>
    BY DEF Renumber, At, timerUnchanged, gridVars, countVars, seenVars, Goto
  <2> SUFFICES ASSUME TickKept PROVE TickKept'
    OBVIOUS
  <2>2. clk.num = tick /\ OnGrid(tick) /\ InCount(tick + clk.at)
    BY <2>1 DEF TickKept
  <2>3. tick' = tick + clk.at /\ tick' - clk'.at = tick
    BY <2>1, <2>2, Parts
  <2>4. OnGrid(tick - clk.at)' /\ InCount(tick)'
    BY <2>1, <2>2, <2>3 DEF OnGrid, InCount, Asked
  <2> QED
    BY <2>1, <2>4 DEF TickKept
<1> QED
  BY <1>1, <1>2, TickGoesOn

LEMMA KeepTimeBar == ASSUME TypeOK, BarInv, KeepTime PROVE BarInv'
<1>1. clk.pc # "off" /\ call' = call /\ clean' = clean
  BY DEF KeepTime, At, timerUnchanged
<1>2. TickKept => TickKept'
  <2>1. /\ clk.pc = "slide" /\ clk'.pc = "joined" /\ grid' = Slid(-(clk.at * per))
        /\ UNCHANGED <<running, tick, per, pending, jump, due, count>>
    BY DEF KeepTime, At, timerUnchanged, gridVars, countVars, seenVars, Goto
  <2> SUFFICES ASSUME TickKept PROVE TickKept'
    OBVIOUS
  <2>2. OnGrid(tick - clk.at) /\ InCount(tick)
    BY <2>1 DEF TickKept
  <2>3. (tick - clk.at) * per = tick * per - clk.at * per /\ clk.at * per \in Int
    BY Parts, Products
  <2>4. CASE grid = NoGrid
    <3>1. grid' = NoGrid
      BY <2>1, <2>4 DEF Slid
    <3> QED
      BY <2>1, <2>2, <3>1 DEF TickKept, OnGrid, InCount, Asked
  <2>5. CASE grid # NoGrid
    <3>1. grid' = grid - clk.at * per
      BY <2>1, <2>3, <2>5, Parts DEF Slid
    <3>2. running => grid + (tick * per - clk.at * per) = due
      BY <2>2, <2>3, <2>5 DEF OnGrid
    <3>3. running => grid' + tick * per = due
      BY <2>3, <2>5, <3>1, <3>2, Parts
    <3> QED
      BY <2>1, <2>2, <3>3 DEF TickKept, OnGrid, InCount, Asked
  <2> QED
    BY <2>4, <2>5
<1> QED
  BY <1>1, <1>2, TickGoesOn

LEMMA JoinedBar == ASSUME TypeOK, BarInv, Joined PROVE BarInv'
<1>1. clk.pc # "off" /\ call' = call /\ clean' = clean
  BY DEF Joined, At, timerUnchanged
<1>2. TickKept => TickKept'
  BY Parts, Products DEF Joined, At, timerUnchanged, gridVars, countVars, seenVars, Goto, AtRest, StartOnce, TickKept, OnGrid, InCount, Asked
<1> QED
  BY <1>1, <1>2, TickGoesOn

LEMMA WaitBar == ASSUME TypeOK, BarInv, Wait PROVE BarInv'
<1>1. clk.pc # "off" /\ call' = call /\ clean' = clean
  BY DEF Wait, At, timerUnchanged
<1>2. TickKept => TickKept'
  BY Parts, Products DEF Wait, At, timerUnchanged, gridVars, countVars, seenVars, Goto, AtRest, StartOnce, TickKept, OnGrid, InCount, Asked
<1> QED
  BY <1>1, <1>2, TickGoesOn

LEMMA FindGridBar == ASSUME TypeOK, BarInv, FindGrid PROVE BarInv'
<1>1. clk.pc # "off" /\ call' = call /\ clean' = clean
  BY DEF FindGrid, At, timerUnchanged
<1>2. TickKept => TickKept'
  <2>1. /\ clk.pc = "anchor" /\ UNCHANGED <<running, tick, grid, per, pending, jump, due, count>>
        /\ \/ clk'.pc = "work"
           \/ clk'.pc = "anchored" /\ clk'.began = clk.began /\ clk'.at = clk.began - tick * per
    BY DEF FindGrid, At, timerUnchanged, gridVars, countVars, seenVars, Goto, AnchorOf
  <2> QED
    BY <2>1 DEF TickKept, OnGrid, InCount, Asked
<1> QED
  BY <1>1, <1>2, TickGoesOn

LEMMA AnchorBar == ASSUME TypeOK, BarInv, Anchor PROVE BarInv'
<1>1. clk.pc # "off" /\ call' = call /\ clean' = clean
  BY DEF Anchor, At, timerUnchanged
<1>2. TickKept => TickKept'
  <2>1. /\ clk.pc = "anchored" /\ clk'.pc = "work" /\ grid' = clk.at /\ due' = clk.began
        /\ UNCHANGED <<running, tick, per, pending, jump, count>>
    BY DEF Anchor, At, timerUnchanged, gridVars, countVars, seenVars, Goto
  <2> SUFFICES ASSUME TickKept PROVE TickKept'
    OBVIOUS
  <2>2. clk.at = clk.began - tick * per /\ InCount(tick)
    BY <2>1 DEF TickKept
  <2>3. grid' + tick * per = due'
    BY <2>1, <2>2, Parts
  <2> QED
    BY <2>1, <2>2, <2>3 DEF TickKept, OnGrid, InCount, Asked
<1> QED
  BY <1>1, <1>2, TickGoesOn

LEMMA WorkBar == ASSUME TypeOK, BarInv, Work PROVE BarInv'
<1>1. clk.pc # "off" /\ call' = call /\ clean' = clean
  BY DEF Work, At, timerUnchanged
<1>2. TickKept => TickKept'
  BY Parts, Products DEF Work, At, timerUnchanged, gridVars, countVars, seenVars, Goto, AtRest, StartOnce, TickKept, OnGrid, InCount, Asked
<1> QED
  BY <1>1, <1>2, TickGoesOn

LEMMA CountOnBar == ASSUME TypeOK, BarInv, CountOn PROVE BarInv'
<1>1. clk.pc # "off" /\ call' = call /\ clean' = clean
  BY DEF CountOn, At, timerUnchanged
<1>2. TickKept => TickKept'
  <2>1. /\ clk.pc = "count" /\ clk'.pc = "arm" /\ tick' = clk.num + 1 /\ due' = due + per
        /\ count' = count + 1
        /\ UNCHANGED <<running, grid, per, pending, jump>>
    BY DEF CountOn, At, timerUnchanged, gridVars, countVars, seenVars, Goto
  <2> SUFFICES ASSUME TickKept PROVE TickKept'
    OBVIOUS
  <2>2. clk.num = tick /\ OnGrid(tick) /\ InCount(tick)
    BY <2>1 DEF TickKept
  <2>3. tick' = tick + 1 /\ (tick + 1) * per = tick * per + per
    BY <2>1, <2>2, Parts, Products
  <2>4. OnGrid(tick)'
    <3>1. running /\ grid # NoGrid => grid + (tick * per + per) = due + per
      BY <2>2, Parts DEF OnGrid
    <3> QED
      BY <2>1, <2>3, <3>1 DEF OnGrid
  <2>5. InCount(tick)'
    <3>1. running => (tick + 1) + Asked = count + 1
      BY <2>2, Parts DEF InCount
    <3> QED
      BY <2>1, <2>3, <3>1 DEF InCount, Asked
  <2> QED
    BY <2>1, <2>4, <2>5 DEF TickKept
<1> QED
  BY <1>1, <1>2, TickGoesOn

LEMMA ArmBar == ASSUME TypeOK, BarInv, Arm PROVE BarInv'
<1>1. clk.pc # "off" /\ call' = call /\ clean' = clean
  BY DEF Arm, At, timerUnchanged
<1>2. TickKept => TickKept'
  BY Parts, Products DEF Arm, At, timerUnchanged, gridVars, countVars, seenVars, Goto, AtRest, StartOnce, TickKept, OnGrid, InCount, Asked
<1> QED
  BY <1>1, <1>2, TickGoesOn

LEMMA StartBar == ASSUME TypeOK, BarInv, Start PROVE BarInv'
<1>1. clk.pc # "off" /\ call' = call /\ clean' = clean
  BY DEF Start, At, timerUnchanged
<1>2. TickKept => TickKept'
  BY Parts, Products DEF Start, At, timerUnchanged, gridVars, countVars, seenVars, Goto, AtRest, StartOnce, TickKept, OnGrid, InCount, Asked
<1> QED
  BY <1>1, <1>2, TickGoesOn

LEMMA BpmBar == ASSUME TypeOK, BarInv, NEW c \in Callers, Bpm(c) PROVE BarInv'
<1>1. PICK v : v = call[c].at
  OBVIOUS
<1>2. GoesTo(c, "anchor", v)
  <2>1. call' = [call EXCEPT ![c].pc = "anchor"] /\ clk' = clk /\ clean' = (clean /\ Alone(c))
    BY DEF Bpm, callUnchanged
  <2>2. call[c] \in [pc : CallPcs, at : Int]
    BY Parts
  <2>3. [call[c] EXCEPT !.pc = "anchor"] = [pc |-> "anchor", at |-> call[c].at]
    BY <2>2
  <2>4. call' = [call EXCEPT ![c] = [call[c] EXCEPT !.pc = "anchor"]]
    BY <2>1
  <2> QED
    BY <1>1, <2>1, <2>3, <2>4 DEF GoesTo
<1>3. clean /\ Alone(c) => CallKept("anchor", v)' /\ ("anchor" = "idle" => TickKept')
  <2> SUFFICES ASSUME clean, Alone(c) PROVE CallKept("anchor", v)' /\ ("anchor" = "idle" => TickKept')
    OBVIOUS
  <2>1. /\ CallKept(call[c].pc, call[c].at)
        /\ call[c].pc = "idle" => OnGrid(tick) /\ InCount(tick)
        /\ clk.pc = "off" /\ clk' = clk
    BY <1>2, CallFinds DEF GoesTo
  <2>2. call[c].pc = "idle"
    BY DEF Bpm, Step, StepWith, Call
  <2>3. CallKept("anchor", v)'
    BY <1>1, <2>1, <2>2, Parts, Products DEF Bpm, Call, StepWith, Step, callUnchanged, gridVars, countVars, seenVars, CallKept, OnGrid, InCount, Asked
  <2> QED
    BY <2>3
<1> QED
  BY <1>2, <1>3, CallGoesOn

LEMMA FindAnchorBar == ASSUME TypeOK, BarInv, NEW c \in Callers, FindAnchor(c) PROVE BarInv'
<1>1. PICK v : v = Reanchored
  OBVIOUS
<1>2. GoesTo(c, "set", v)
  BY <1>1, Parts DEF FindAnchor, StepWith, Step, Call, GoesTo, callUnchanged
<1>3. clean /\ Alone(c) => CallKept("set", v)' /\ ("set" = "idle" => TickKept')
  <2> SUFFICES ASSUME clean, Alone(c) PROVE CallKept("set", v)' /\ ("set" = "idle" => TickKept')
    OBVIOUS
  <2>1. /\ CallKept(call[c].pc, call[c].at)
        /\ call[c].pc = "idle" => OnGrid(tick) /\ InCount(tick)
        /\ clk.pc = "off" /\ clk' = clk
    BY <1>2, CallFinds DEF GoesTo
  <2>2. call[c].pc = "anchor"
    BY DEF FindAnchor, Step, StepWith, Call
  <2>3. CallKept("set", v)'
    <3>1. /\ v = last + per - tick * per /\ running
          /\ UNCHANGED <<running, tick, last, per, pending, jump, count>>
      BY <1>1 DEF FindAnchor, StepWith, gridVars, countVars, seenVars, Reanchored
    <3>2. v + tick * per = last + per
      BY <3>1, Parts
    <3>3. InCount(tick)
      BY <2>1, <2>2 DEF CallKept
    <3> QED
      BY <3>1, <3>2, <3>3 DEF CallKept, InCount, Asked
  <2> QED
    BY <2>3
<1> QED
  BY <1>2, <1>3, CallGoesOn

LEMMA SetGridBar == ASSUME TypeOK, BarInv, NEW c \in Callers, SetGrid(c) PROVE BarInv'
<1>1. PICK v : v = 0
  OBVIOUS
<1>2. GoesTo(c, "stop", v)
  BY <1>1, Parts DEF SetGrid, StepWith, Step, Call, GoesTo, callUnchanged
<1>3. clean /\ Alone(c) => CallKept("stop", v)' /\ ("stop" = "idle" => TickKept')
  <2> SUFFICES ASSUME clean, Alone(c) PROVE CallKept("stop", v)' /\ ("stop" = "idle" => TickKept')
    OBVIOUS
  <2>1. /\ CallKept(call[c].pc, call[c].at)
        /\ call[c].pc = "idle" => OnGrid(tick) /\ InCount(tick)
        /\ clk.pc = "off" /\ clk' = clk
    BY <1>2, CallFinds DEF GoesTo
  <2>2. call[c].pc = "set"
    BY DEF SetGrid, Step, StepWith, Call
  <2>3. CallKept("stop", v)'
    <3>1. /\ grid' = call[c].at /\ due' = last + per
          /\ UNCHANGED <<running, tick, last, per, pending, jump, count>>
      BY DEF SetGrid, Step, StepWith, countVars
    <3>2. call[c].at + tick * per = last + per /\ InCount(tick)
      BY <2>1, <2>2 DEF CallKept
    <3> QED
      BY <3>1, <3>2 DEF CallKept, OnGrid, InCount, Asked
  <2> QED
    BY <2>3
<1> QED
  BY <1>2, <1>3, CallGoesOn

LEMMA ForgetGridBar == ASSUME TypeOK, BarInv, NEW c \in Callers, ForgetGrid(c) PROVE BarInv'
<1>1. PICK v : v = 0
  OBVIOUS
<1>2. GoesTo(c, "zero", v)
  BY <1>1, Parts DEF ForgetGrid, StepWith, Step, Call, GoesTo, callUnchanged
<1>3. clean /\ Alone(c) => CallKept("zero", v)' /\ ("zero" = "idle" => TickKept')
  <2> SUFFICES ASSUME clean, Alone(c) PROVE CallKept("zero", v)' /\ ("zero" = "idle" => TickKept')
    OBVIOUS
  <2>1. /\ CallKept(call[c].pc, call[c].at)
        /\ call[c].pc = "idle" => OnGrid(tick) /\ InCount(tick)
        /\ clk.pc = "off" /\ clk' = clk
    BY <1>2, CallFinds DEF GoesTo
  <2>2. call[c].pc = "anchor"
    BY DEF ForgetGrid, Step, StepWith, Call
  <2>3. CallKept("zero", v)'
    BY <1>1, <2>1, <2>2, Parts, Products DEF ForgetGrid, Call, StepWith, Step, callUnchanged, gridVars, countVars, seenVars, CallKept, OnGrid, InCount, Asked
  <2> QED
    BY <2>3
<1> QED
  BY <1>2, <1>3, CallGoesOn

LEMMA LeaveGridBar == ASSUME TypeOK, BarInv, NEW c \in Callers, LeaveGrid(c) PROVE BarInv'
<1>1. PICK v : v = 0
  OBVIOUS
<1>2. GoesTo(c, "stop", v)
  BY <1>1, Parts DEF LeaveGrid, StepWith, Step, Call, GoesTo, callUnchanged
<1>3. clean /\ Alone(c) => CallKept("stop", v)' /\ ("stop" = "idle" => TickKept')
  <2> SUFFICES ASSUME clean, Alone(c) PROVE CallKept("stop", v)' /\ ("stop" = "idle" => TickKept')
    OBVIOUS
  <2>1. /\ CallKept(call[c].pc, call[c].at)
        /\ call[c].pc = "idle" => OnGrid(tick) /\ InCount(tick)
        /\ clk.pc = "off" /\ clk' = clk
    BY <1>2, CallFinds DEF GoesTo
  <2>2. call[c].pc = "anchor"
    BY DEF LeaveGrid, Step, StepWith, Call
  <2>3. CallKept("stop", v)'
    BY <1>1, <2>1, <2>2, Parts, Products DEF LeaveGrid, Call, StepWith, Step, callUnchanged, gridVars, countVars, seenVars, CallKept, OnGrid, InCount, Asked
  <2> QED
    BY <2>3
<1> QED
  BY <1>2, <1>3, CallGoesOn

LEMMA ZeroBar == ASSUME TypeOK, BarInv, NEW c \in Callers, Zero(c) PROVE BarInv'
<1>1. PICK v : v = 0
  OBVIOUS
<1>2. GoesTo(c, "stop", v)
  BY <1>1, Parts DEF Zero, StepWith, Step, Call, GoesTo, callUnchanged
<1>3. clean /\ Alone(c) => CallKept("stop", v)' /\ ("stop" = "idle" => TickKept')
  <2> SUFFICES ASSUME clean, Alone(c) PROVE CallKept("stop", v)' /\ ("stop" = "idle" => TickKept')
    OBVIOUS
  <2>1. /\ CallKept(call[c].pc, call[c].at)
        /\ call[c].pc = "idle" => OnGrid(tick) /\ InCount(tick)
        /\ clk.pc = "off" /\ clk' = clk
    BY <1>2, CallFinds DEF GoesTo
  <2>2. call[c].pc = "zero"
    BY DEF Zero, Step, StepWith, Call
  <2>3. CallKept("stop", v)'
    BY <1>1, <2>1, <2>2, Parts, Products DEF Zero, Call, StepWith, Step, callUnchanged, gridVars, countVars, seenVars, CallKept, OnGrid, InCount, Asked
  <2> QED
    BY <2>3
<1> QED
  BY <1>2, <1>3, CallGoesOn

LEMMA StopTimerBar == ASSUME TypeOK, BarInv, NEW c \in Callers, StopTimer(c) PROVE BarInv'
<1>1. PICK v : v = 0
  OBVIOUS
<1>2. GoesTo(c, "arm", v)
  BY <1>1, Parts DEF StopTimer, StepWith, Step, Call, GoesTo, callUnchanged
<1>3. clean /\ Alone(c) => CallKept("arm", v)' /\ ("arm" = "idle" => TickKept')
  <2> SUFFICES ASSUME clean, Alone(c) PROVE CallKept("arm", v)' /\ ("arm" = "idle" => TickKept')
    OBVIOUS
  <2>1. /\ CallKept(call[c].pc, call[c].at)
        /\ call[c].pc = "idle" => OnGrid(tick) /\ InCount(tick)
        /\ clk.pc = "off" /\ clk' = clk
    BY <1>2, CallFinds DEF GoesTo
  <2>2. call[c].pc = "stop"
    BY DEF StopTimer, Step, StepWith, Call
  <2>3. CallKept("arm", v)'
    BY <1>1, <2>1, <2>2, Parts, Products DEF StopTimer, Call, StepWith, Step, callUnchanged, gridVars, countVars, seenVars, CallKept, OnGrid, InCount, Asked
  <2> QED
    BY <2>3
<1> QED
  BY <1>2, <1>3, CallGoesOn

LEMMA ArmAgainBar == ASSUME TypeOK, BarInv, NEW c \in Callers, ArmAgain(c) PROVE BarInv'
<1>1. PICK v : v = WakeAt(now)
  OBVIOUS
<1>2. GoesTo(c, "start", v)
  BY <1>1 DEF ArmAgain, StepWith, GoesTo, callUnchanged, AfterStop
<1>3. clean /\ Alone(c) => CallKept("start", v)' /\ ("start" = "idle" => TickKept')
  <2> SUFFICES ASSUME clean, Alone(c) PROVE CallKept("start", v)' /\ ("start" = "idle" => TickKept')
    OBVIOUS
  <2>1. /\ CallKept(call[c].pc, call[c].at)
        /\ call[c].pc = "idle" => OnGrid(tick) /\ InCount(tick)
        /\ clk.pc = "off" /\ clk' = clk
    BY <1>2, CallFinds DEF GoesTo
  <2>2. call[c].pc = "arm"
    BY DEF ArmAgain, Step, StepWith, Call
  <2>3. CallKept("start", v)'
    BY <1>1, <2>1, <2>2, Parts, Products DEF ArmAgain, Call, StepWith, Step, callUnchanged, gridVars, countVars, seenVars, CallKept, OnGrid, InCount, Asked, AfterStop
  <2> QED
    BY <2>3
<1> QED
  BY <1>2, <1>3, CallGoesOn

LEMMA StartAgainBar == ASSUME TypeOK, BarInv, NEW c \in Callers, StartAgain(c) PROVE BarInv'
<1>1. PICK v : v = 0
  OBVIOUS
<1>2. GoesTo(c, "idle", v)
  BY <1>1, Parts DEF StartAgain, StepWith, Step, Call, GoesTo, callUnchanged
<1>3. clean /\ Alone(c) => CallKept("idle", v)' /\ ("idle" = "idle" => TickKept')
  <2> SUFFICES ASSUME clean, Alone(c) PROVE CallKept("idle", v)' /\ ("idle" = "idle" => TickKept')
    OBVIOUS
  <2>1. /\ CallKept(call[c].pc, call[c].at)
        /\ call[c].pc = "idle" => OnGrid(tick) /\ InCount(tick)
        /\ clk.pc = "off" /\ clk' = clk
    BY <1>2, CallFinds DEF GoesTo
  <2>2. call[c].pc = "start"
    BY DEF StartAgain, Step, StepWith, Call
  <2>3. CallKept("idle", v)'
    BY <1>1, <2>1, <2>2, Parts, Products DEF StartAgain, Call, StepWith, Step, callUnchanged, gridVars, countVars, seenVars, CallKept, OnGrid, InCount, Asked
  <2>4. OnGrid(tick)' /\ InCount(tick)'
    BY <2>1, <2>2, Parts DEF StartAgain, StepWith, Step, callUnchanged, gridVars, countVars, seenVars, CallKept, OnGrid, InCount, Asked
  <2> QED
    BY <2>1, <2>3, <2>4, AtRestKept
<1> QED
  BY <1>2, <1>3, CallGoesOn

LEMMA PlayBar == ASSUME TypeOK, BarInv, Play PROVE BarInv'
<1>1. PICK v : v = call["editor"].at
  OBVIOUS
<1>2. GoesTo("editor", "ungrid", v)
  <2>1. call' = [call EXCEPT !["editor"].pc = "ungrid"] /\ clk' = clk /\ clean' = (clean /\ Alone("editor"))
    BY DEF Play, callUnchanged
  <2>2. call["editor"] \in [pc : CallPcs, at : Int]
    BY Parts
  <2>3. [call["editor"] EXCEPT !.pc = "ungrid"] = [pc |-> "ungrid", at |-> call["editor"].at]
    BY <2>2
  <2>4. call' = [call EXCEPT !["editor"] = [call["editor"] EXCEPT !.pc = "ungrid"]]
    BY <2>1
  <2> QED
    BY <1>1, <2>1, <2>3, <2>4 DEF GoesTo
<1>3. clean /\ Alone("editor") => CallKept("ungrid", v)' /\ ("ungrid" = "idle" => TickKept')
  <2> SUFFICES ASSUME clean, Alone("editor") PROVE CallKept("ungrid", v)' /\ ("ungrid" = "idle" => TickKept')
    OBVIOUS
  <2>1. /\ CallKept(call["editor"].pc, call["editor"].at)
        /\ call["editor"].pc = "idle" => OnGrid(tick) /\ InCount(tick)
        /\ clk.pc = "off" /\ clk' = clk
    BY <1>2, CallFinds DEF GoesTo
  <2>2. call["editor"].pc = "idle"
    BY DEF Play, Step, StepWith, Call
  <2>3. CallKept("ungrid", v)'
    BY <1>1, <2>1, <2>2, Parts, Products DEF Play, Call, StepWith, Step, callUnchanged, gridVars, countVars, seenVars, CallKept, OnGrid, InCount, Asked
  <2> QED
    BY <2>3
<1> QED
  BY <1>2, <1>3, CallGoesOn

LEMMA UngridBar == ASSUME TypeOK, BarInv, Ungrid PROVE BarInv'
<1>1. PICK v : v = 0
  OBVIOUS
<1>2. GoesTo("editor", "unpend", v)
  BY <1>1, Parts DEF Ungrid, StepWith, Step, Call, GoesTo, callUnchanged
<1>3. clean /\ Alone("editor") => CallKept("unpend", v)' /\ ("unpend" = "idle" => TickKept')
  <2> SUFFICES ASSUME clean, Alone("editor") PROVE CallKept("unpend", v)' /\ ("unpend" = "idle" => TickKept')
    OBVIOUS
  <2>1. /\ CallKept(call["editor"].pc, call["editor"].at)
        /\ call["editor"].pc = "idle" => OnGrid(tick) /\ InCount(tick)
        /\ clk.pc = "off" /\ clk' = clk
    BY <1>2, CallFinds DEF GoesTo
  <2>2. call["editor"].pc = "ungrid"
    BY DEF Ungrid, Step, StepWith, Call
  <2>3. CallKept("unpend", v)'
    BY <1>1, <2>1, <2>2, Parts, Products DEF Ungrid, Call, StepWith, Step, callUnchanged, gridVars, countVars, seenVars, CallKept, OnGrid, InCount, Asked
  <2> QED
    BY <2>3
<1> QED
  BY <1>2, <1>3, CallGoesOn

LEMMA UnpendBar == ASSUME TypeOK, BarInv, Unpend PROVE BarInv'
<1>1. PICK v : v = 0
  OBVIOUS
<1>2. GoesTo("editor", "go", v)
  BY <1>1, Parts DEF Unpend, StepWith, Step, Call, GoesTo, callUnchanged
<1>3. clean /\ Alone("editor") => CallKept("go", v)' /\ ("go" = "idle" => TickKept')
  <2> SUFFICES ASSUME clean, Alone("editor") PROVE CallKept("go", v)' /\ ("go" = "idle" => TickKept')
    OBVIOUS
  <2>1. /\ CallKept(call["editor"].pc, call["editor"].at)
        /\ call["editor"].pc = "idle" => OnGrid(tick) /\ InCount(tick)
        /\ clk.pc = "off" /\ clk' = clk
    BY <1>2, CallFinds DEF GoesTo
  <2>2. call["editor"].pc = "unpend"
    BY DEF Unpend, Step, StepWith, Call
  <2>3. CallKept("go", v)'
    BY <1>1, <2>1, <2>2, Parts, Products DEF Unpend, Call, StepWith, Step, callUnchanged, gridVars, countVars, seenVars, CallKept, OnGrid, InCount, Asked, Unasked
  <2> QED
    BY <2>3
<1> QED
  BY <1>2, <1>3, CallGoesOn

LEMMA GoBar == ASSUME TypeOK, BarInv, Go PROVE BarInv'
<1>1. PICK v : v = 0
  OBVIOUS
<1>2. GoesTo("editor", "idle", v)
  BY <1>1, Parts DEF Go, StepWith, Step, Call, GoesTo, callUnchanged
<1>3. clean /\ Alone("editor") => CallKept("idle", v)' /\ ("idle" = "idle" => TickKept')
  <2> SUFFICES ASSUME clean, Alone("editor") PROVE CallKept("idle", v)' /\ ("idle" = "idle" => TickKept')
    OBVIOUS
  <2>1. /\ CallKept(call["editor"].pc, call["editor"].at)
        /\ call["editor"].pc = "idle" => OnGrid(tick) /\ InCount(tick)
        /\ clk.pc = "off" /\ clk' = clk
    BY <1>2, CallFinds DEF GoesTo
  <2>2. call["editor"].pc = "go"
    BY DEF Go, Step, StepWith, Call
  <2>3. CallKept("idle", v)'
    BY <1>1, <2>1, <2>2, Parts, Products DEF Go, Call, StepWith, Step, callUnchanged, gridVars, countVars, seenVars, CallKept, OnGrid, InCount, Asked
  <2>4. OnGrid(tick)' /\ InCount(tick)'
    BY <2>1, <2>2, Parts DEF Go, StepWith, Step, callUnchanged, gridVars, countVars, seenVars, CallKept, OnGrid, InCount, Asked
  <2> QED
    BY <2>1, <2>3, <2>4, AtRestKept
<1> QED
  BY <1>2, <1>3, CallGoesOn

LEMMA StopPlayBar == ASSUME TypeOK, BarInv, StopPlay PROVE BarInv'
<1>1. call["editor"].pc = "idle" /\ clk' = clk /\ call' = call /\ clean' = (clean /\ Alone("editor"))
  BY DEF StopPlay, Call, callUnchanged
<1>2. OnGrid(tick) /\ InCount(tick) => OnGrid(tick)' /\ InCount(tick)'
  BY Parts, ClockAssumption DEF StopPlay, Call, callUnchanged, gridVars, countVars, seenVars, Slid, OnGrid, InCount, Asked
<1> QED
  BY <1>1, <1>2, CallAtOnce

LEMMA NudgeBar == ASSUME TypeOK, BarInv, Nudge PROVE BarInv'
<1>1. call["radio"].pc = "idle" /\ clk' = clk /\ call' = call /\ clean' = (clean /\ Alone("radio"))
  BY DEF Nudge, Call, callUnchanged
<1>2. OnGrid(tick) /\ InCount(tick) => OnGrid(tick)' /\ InCount(tick)'
  BY Parts, ClockAssumption DEF Nudge, Call, callUnchanged, gridVars, countVars, seenVars, Slid, OnGrid, InCount, Asked
<1> QED
  BY <1>1, <1>2, CallAtOnce

LEMMA AdoptBar == ASSUME TypeOK, BarInv, Adopt PROVE BarInv'
<1> SUFFICES ASSUME clean'
             PROVE  /\ ~At("off")' => Uncalled'
                    /\ call'["editor"].pc = "idle" \/ call'["radio"].pc = "idle"
                    /\ Uncalled' => TickKept'
                    /\ \A d \in Callers : CallKept(call[d].pc, call[d].at)'
  BY DEF BarInv
<1>1. /\ clean /\ call["editor"].pc = "idle" /\ call["radio"].pc = "idle" /\ call' = call /\ clk' = clk
      /\ UNCHANGED <<running, tick, grid, per, due>> /\ ~pending /\ pending'
      /\ jump' \in Int /\ count' = count + jump'
  BY ClockAssumption DEF Adopt, Call, callUnchanged, gridVars
<1>2. \A d \in Callers : call'[d].pc = "idle" /\ call[d].pc = "idle"
  BY <1>1
<1>3. TickKept
  BY <1>1, <1>2 DEF BarInv, Uncalled
<1>4. TickKept'
  BY <1>1, <1>3, Parts DEF TickKept, OnGrid, InCount, Asked
<1>5. \A d \in Callers : CallKept(call[d].pc, call[d].at)'
  BY <1>2 DEF CallKept
<1> QED
  BY <1>2, <1>4, <1>5 DEF Uncalled

LEMMA FollowBar == ASSUME TypeOK, BarInv, NEW on \in BOOLEAN, Follow(on) PROVE BarInv'
<1>1. /\ call' = call /\ clk' = clk /\ clean' = clean
      /\ UNCHANGED <<running, tick, grid, last, per, due, jump>>
      /\ \/ pending' = pending /\ count' = count
         \/ pending /\ ~pending' /\ count' = count - jump
  <2>1. CASE on
    BY <2>1, Parts DEF Follow, gridVars
  <2>2. CASE ~on
    BY <2>2, Parts DEF Follow, gridVars
  <2> QED
    BY <2>1, <2>2
<1>2. TickKept => TickKept'
  BY <1>1, Parts DEF TickKept, OnGrid, InCount, Asked
<1>3. ASSUME NEW c \in Callers, CallKept(call[c].pc, call[c].at)
      PROVE  CallKept(call[c].pc, call[c].at)'
  BY <1>1, <1>3, Parts DEF CallKept, OnGrid, InCount, Asked
<1> QED
  BY <1>1, <1>2, <1>3 DEF BarInv, Uncalled, At

LEMMA PassBar == ASSUME TypeOK, BarInv, Pass PROVE BarInv'
  BY DEF Pass, BarInv, TickKept, CallKept, OnGrid, InCount, Asked, Uncalled, At, gridVars, countVars, seenVars

LEMMA BarStays == Bar /\ [Next]_vars => Bar'
<1> SUFFICES ASSUME Bar, [Next]_vars PROVE Bar' OBVIOUS
<1>0. Inv' /\ TypeOK /\ BarInv
  BY StepKeeps DEF Bar, Inv
<1>1. CASE Timer
  BY <1>0, <1>1, FireBar, BeginBar, TakeJumpBar, NoJumpBar, RenumberBar, KeepTimeBar, JoinedBar,
     WaitBar, FindGridBar, AnchorBar, WorkBar, CountOnBar, ArmBar, StartBar DEF Timer, Bar
<1>2. CASE Calling
  <2>1. CASE \E c \in Callers :
                 \/ Bpm(c) \/ FindAnchor(c) \/ SetGrid(c) \/ ForgetGrid(c) \/ LeaveGrid(c)
                 \/ Zero(c) \/ StopTimer(c) \/ ArmAgain(c) \/ StartAgain(c)
    BY <1>0, <2>1, BpmBar, FindAnchorBar, SetGridBar, ForgetGridBar, LeaveGridBar, ZeroBar,
       StopTimerBar, ArmAgainBar, StartAgainBar DEF Bar
  <2>2. CASE Play \/ Ungrid \/ Unpend \/ Go \/ StopPlay \/ Nudge \/ Adopt
    BY <1>0, <2>2, PlayBar, UngridBar, UnpendBar, GoBar, StopPlayBar, NudgeBar, AdoptBar DEF Bar
  <2>3. CASE \E on \in BOOLEAN : Follow(on)
    BY <1>0, <2>3, FollowBar DEF Bar
  <2> QED BY <1>2, <2>1, <2>2, <2>3 DEF Calling
<1>3. CASE Pass
  BY <1>0, <1>3, PassBar DEF Bar
<1>4. CASE UNCHANGED vars
  BY <1>0, <1>4 DEF Bar, BarInv, TickKept, CallKept, OnGrid, InCount, Asked, Uncalled, At, vars,
     gridVars, countVars, seenVars
<1> QED BY <1>1, <1>2, <1>3, <1>4 DEF Next

\* Through tempo changes while the clock plays and while it does not, slid
\* grids, counts asked for and '>play' from the top: when nothing is under way
\* and no call has run into a tick, the next tick is due where a metronome that
\* keeps its bar would play it and has the number it would give it (seq_bpm,
\* seq_nudge_by, seq_adopt, seq_play, tick).
THEOREM TicksAreOnTheBar == Spec => []OnTheBar
<1>1. Init => Bar
  <2>1. Init => BarInv
    BY DEF Init, BarInv, TickKept, CallKept, OnGrid, InCount, Uncalled, At, Callers
  <2> QED
    BY <2>1, Initially DEF Bar
<1>2. Bar => OnTheBar
  <2> SUFFICES ASSUME Bar PROVE OnTheBar
    OBVIOUS
  <2>1. Settled /\ clean => OnGrid(tick) /\ InCount(tick)
    BY DEF Bar, BarInv, Settled, TickKept, At
  <2> QED
    BY <2>1 DEF OnTheBar, OnTheGrid, BarKept, OnGrid, InCount, Asked
<1> QED BY <1>1, <1>2, BarStays, PTL DEF Spec

-----------------------------------------------------------------------------
(* The notes.  A note that sounds, or will when the queue drains, has its   *)
(* off still to come.  That alone is not inductive: the clock books an     *)
(* entry in two stores that the editor's sweep may come between, so the    *)
(* invariant says who owes the off at every step of the booking.           *)

\* The entry the clock has found and not yet written the note of is nobody's.
Claimed(i) == ticking.pc = "take" /\ ticking.i = i /\ "note" \in ticking.unset

InTheTable(n) == \E i \in Slots : offs[i].armed = TRUE /\ offs[i].note = n /\ ~Claimed(i)
ClockOwes(n) == \/ ticking.pc = "serveEmit" /\ offs[ticking.i].note = n
                \/ ticking.pc \in {"book", "find", "take"} /\ ticking.note = n
EditorOwes(n) == \/ ed.pc \in {"sweep", "sweepEmit"}
                 \/ ed.pc = "cc" /\ ed.i <= n[2]

\* What the clock has written of the entry it books n in is there, or the editor
\* has swept it away and will silence n.
Booking(n) ==
    ticking.pc = "take" /\ ticking.note = n =>
        /\ "note" \notin ticking.unset => offs[ticking.i].note = n
        /\ "armed" \notin ticking.unset => offs[ticking.i].armed = TRUE \/ EditorOwes(n)

Quiet == intact = TRUE /\ \A p \in Producers : Free(p)

OwedInv == Quiet => \A n \in AfterDrain(sounding, queue) :
                        /\ InTheTable(n) \/ ClockOwes(n) \/ EditorOwes(n)
                        /\ Booking(n)

TableTyped == offs \in [Slots -> [armed : BOOLEAN, due : BOOLEAN, note : Notes \cup {NoNote}]]
HeldTyped == held \in [Producers -> [stage : {"free", "drop", "back"}, ev : Events,
                                     keep : Seq(Events)]]
ClockTyped ==
    /\ ticking \in [pc : {"idle", "serve", "serveEmit", "pulse", "fire", "book", "find", "take"},
                    i : 1..(NOffs + 1), note : Notes \cup {NoNote},
                    todo : SUBSET Lanes, unset : SUBSET {"armed", "note"}]
    /\ ticking.pc \in {"serveEmit", "take"} => ticking.i \in Slots
    /\ ticking.pc \in {"book", "find", "take"} => ticking.note \in Notes
    /\ ticking.pc = "take" => ticking.unset # {}
EditorTyped ==
    /\ ed \in [pc : {"idle", "spp", "start", "halt", "sweep", "sweepEmit", "cc"},
               i : Nat \ {0}, again : BOOLEAN]
    /\ ed.pc \in {"sweepEmit"} => ed.i \in Slots
    /\ ed.pc = "cc" => ed.i \in Chans
OffsTyped == /\ TableTyped /\ HeldTyped /\ ClockTyped /\ EditorTyped
             /\ queue \in Seq(Events) /\ sounding \subseteq Notes
             /\ chan \in [Lanes -> Chans] /\ intact \in BOOLEAN /\ destOn \in BOOLEAN
OffsInv == OffsTyped /\ OwedInv
-----------------------------------------------------------------------------
(* The queue.                                                              *)

LEMMA HeardIs ==
    ASSUME NEW S, NEW e, NEW n
    PROVE  /\ n \in Heard(S, e) <=> \/ e.kind = "on" /\ e.arg = n
                                    \/ /\ n \in S /\ ~(e.kind = "off" /\ e.arg = n)
                                       /\ ~(e.kind = "cc123" /\ n[2] = e.arg)
           /\ Strikes(e, n) <=> e.kind = "on" /\ e.arg = n
           /\ Silences(e, n) <=> \/ e.kind = "off" /\ e.arg = n
                                 \/ e.kind = "cc123" /\ n[2] = e.arg
<1>1. \A T : n \in Heard(T, e) <=> \/ e.kind = "on" /\ e.arg = n
                                   \/ /\ n \in T /\ ~(e.kind = "off" /\ e.arg = n)
                                      /\ ~(e.kind = "cc123" /\ n[2] = e.arg)
  <2>1. CASE e.kind = "on"
    BY <2>1 DEF Heard
  <2>2. CASE e.kind = "off"
    BY <2>2 DEF Heard
  <2>3. CASE e.kind = "cc123"
    BY <2>3 DEF Heard
  <2>4. CASE e.kind \notin {"on", "off", "cc123"}
    BY <2>4 DEF Heard
  <2>5. QED
    BY <2>1, <2>2, <2>3, <2>4
<1>2. Strikes(e, n) <=> e.kind = "on" /\ e.arg = n
    BY <1>1 DEF Strikes
<1>3. QED
  <2>1. Silences(e, n) <=> ~(n \in Heard({n}, e))
    BY DEF Silences
  <2>2. n \in {n}
    OBVIOUS
  <2>3. ~(e.kind = "on" /\ e.kind = "off") /\ ~(e.kind = "on" /\ e.kind = "cc123")
    OBVIOUS
  <2>4. QED
    BY <1>1, <1>2, <2>1, <2>2, <2>3

LEMMA AfterOneMore ==
    ASSUME NEW S, NEW q \in Seq(Events), NEW e \in Events, NEW n
    PROVE  n \in AfterDrain(S, Append(q, e)) <=>
               n \in Notes /\ (Strikes(e, n) \/ (n \in AfterDrain(S, q) /\ ~Silences(e, n)))
<1> DEFINE r == Append(q, e)
<1>1. /\ Len(q) \in Nat /\ DOMAIN q = 1..Len(q) /\ DOMAIN r = 1..(Len(q) + 1)
      /\ \A k \in 1..Len(q) : r[k] = q[k]
      /\ r[Len(q) + 1] = e
    OBVIOUS
<1> HIDE DEF r
<1>2. ASSUME NEW j \in 0..Len(q)
      PROVE  Undisturbed(r, j, n) <=> Undisturbed(q, j, n) /\ ~Silences(e, n)
  <2>1. ASSUME Undisturbed(r, j, n) PROVE Undisturbed(q, j, n) /\ ~Silences(e, n)
    BY <1>1, <2>1 DEF Undisturbed
  <2>2. ASSUME Undisturbed(q, j, n), ~Silences(e, n) PROVE Undisturbed(r, j, n)
    <3>1. ASSUME NEW k \in DOMAIN r, k > j PROVE ~Silences(r[k], n)
      <4>1. CASE k = Len(q) + 1
        BY <1>1, <2>2, <4>1
      <4>2. CASE k # Len(q) + 1
        <5>1. k \in DOMAIN q /\ r[k] = q[k]
          BY <1>1, <3>1, <4>2
        <5>2. QED
          BY <2>2, <3>1, <5>1 DEF Undisturbed
      <4>3. QED
        BY <4>1, <4>2
    <3>2. QED
      BY <3>1 DEF Undisturbed
  <2>3. QED
    BY <2>1, <2>2
<1>3. Undisturbed(r, Len(q) + 1, n)
    BY <1>1 DEF Undisturbed
<1>4. ASSUME n \in AfterDrain(S, r), ~Strikes(e, n)
      PROVE  n \in AfterDrain(S, q) /\ ~Silences(e, n)
  <2>1. CASE n \in S /\ Undisturbed(r, 0, n)
    BY <1>1, <1>2, <1>4, <2>1 DEF AfterDrain
  <2>2. CASE \E j \in DOMAIN r : Strikes(r[j], n) /\ Undisturbed(r, j, n)
    <3>1. PICK j \in DOMAIN r : Strikes(r[j], n) /\ Undisturbed(r, j, n)
      BY <2>2
    <3>2. j \in 1..Len(q) /\ r[j] = q[j]
      BY <1>1, <1>4, <3>1
    <3>3. QED
      BY <1>1, <1>2, <1>4, <3>1, <3>2 DEF AfterDrain
  <2>3. QED
    BY <1>4, <2>1, <2>2 DEF AfterDrain
<1>5. ASSUME n \in AfterDrain(S, q), ~Silences(e, n)
      PROVE  n \in AfterDrain(S, r)
  <2>1. CASE n \in S /\ Undisturbed(q, 0, n)
    BY <1>1, <1>2, <1>5, <2>1 DEF AfterDrain
  <2>2. CASE \E j \in DOMAIN q : Strikes(q[j], n) /\ Undisturbed(q, j, n)
    <3>1. PICK j \in DOMAIN q : Strikes(q[j], n) /\ Undisturbed(q, j, n)
      BY <2>2
    <3>2. j \in DOMAIN r /\ r[j] = q[j] /\ j \in 0..Len(q)
      BY <1>1, <3>1
    <3>3. Undisturbed(r, j, n)
      BY <1>2, <1>5, <3>1, <3>2
    <3>4. QED
      BY <1>5, <3>1, <3>2, <3>3 DEF AfterDrain
  <2>3. QED
    BY <1>5, <2>1, <2>2 DEF AfterDrain
<1>6. ASSUME n \in Notes, Strikes(e, n) PROVE n \in AfterDrain(S, r)
    BY <1>1, <1>3, <1>6 DEF AfterDrain
<1>7. n \in AfterDrain(S, r) => n \in Notes
    BY DEF AfterDrain
<1>8. QED
  <2>1. n \in AfterDrain(S, r) <=>
            n \in Notes /\ (Strikes(e, n) \/ (n \in AfterDrain(S, q) /\ ~Silences(e, n)))
    BY <1>4, <1>5, <1>6, <1>7
  <2>2. QED
    BY <2>1 DEF r

LEMMA AfterTheFirst ==
    ASSUME NEW S, NEW q \in Seq(Events), q # <<>>, NEW n
    PROVE  n \in AfterDrain(Heard(S, Head(q)), Tail(q)) => n \in AfterDrain(S, q)
<1> DEFINE r == Tail(q)
           e == Head(q)
<1>1. /\ Len(q) \in Nat \ {0} /\ DOMAIN q = 1..Len(q) /\ DOMAIN r = 1..(Len(q) - 1)
      /\ \A k \in 1..(Len(q) - 1) : r[k] = q[k + 1]
      /\ q[1] = e
    OBVIOUS
<1> HIDE DEF r, e
<1>2. ASSUME NEW j \in 0..(Len(q) - 1), Undisturbed(r, j, n) PROVE Undisturbed(q, j + 1, n)
  <2>1. ASSUME NEW k \in DOMAIN q, k > j + 1 PROVE ~Silences(q[k], n)
    <3>1. k - 1 \in DOMAIN r /\ r[k - 1] = q[k] /\ k - 1 > j
      BY <1>1, <2>1
    <3>2. QED
      BY <1>2, <3>1 DEF Undisturbed
  <2>2. QED
    BY <2>1 DEF Undisturbed
<1>3. SUFFICES ASSUME n \in AfterDrain(Heard(S, e), r) PROVE n \in AfterDrain(S, q)
    BY DEF r, e
<1>4. n \in Notes
    BY <1>3 DEF AfterDrain
<1>5. CASE n \in Heard(S, e) /\ Undisturbed(r, 0, n)
  <2>1. Undisturbed(q, 1, n)
    BY <1>1, <1>2, <1>5
  <2>2. CASE Strikes(e, n)
    BY <1>1, <1>4, <2>1, <2>2 DEF AfterDrain
  <2>3. CASE ~Strikes(e, n)
    <3>1. n \in S /\ ~Silences(e, n)
      BY <1>5, <2>3, HeardIs
    <3>2. Undisturbed(q, 0, n)
      <4>1. ASSUME NEW k \in DOMAIN q, k > 0 PROVE ~Silences(q[k], n)
        <5>1. CASE k = 1
          BY <1>1, <3>1, <5>1
        <5>2. CASE k # 1
          BY <1>1, <2>1, <4>1, <5>2 DEF Undisturbed
        <5>3. QED
          BY <5>1, <5>2
      <4>2. QED
        BY <4>1 DEF Undisturbed
    <3>3. QED
      BY <1>4, <3>1, <3>2 DEF AfterDrain
  <2>4. QED
    BY <2>2, <2>3
<1>6. CASE \E j \in DOMAIN r : Strikes(r[j], n) /\ Undisturbed(r, j, n)
  <2>1. PICK j \in DOMAIN r : Strikes(r[j], n) /\ Undisturbed(r, j, n)
    BY <1>6
  <2>2. j + 1 \in DOMAIN q /\ q[j + 1] = r[j] /\ Undisturbed(q, j + 1, n)
    BY <1>1, <1>2, <2>1
  <2>3. QED
    BY <1>4, <2>1, <2>2 DEF AfterDrain
<1>7. QED
    BY <1>3, <1>5, <1>6 DEF AfterDrain

\* emit(), where there was room; where there was none the task is held up.
LEMMA EmitRoom ==
    ASSUME HeldTyped, NEW p \in Producers, NEW e, Emit(p, e), Free(p)'
    PROVE  queue' = Append(queue, e) /\ held' = held
<1>1. CASE held' = [held EXCEPT ![p] = [stage |-> "drop", ev |-> e, keep |-> <<>>]]
  <2>1. held'[p].stage = "drop"
    BY <1>1 DEF HeldTyped
  <2>2. QED
    BY <2>1 DEF Free
<1>2. QED
    BY <1>1 DEF Emit

-----------------------------------------------------------------------------
(* Types.                                                                  *)

LEMMA EventsTyped ==
    /\ \A n \in Notes : On(n) \in Events
    /\ \A n \in Notes \cup {NoNote} : NoteOff(n) \in Events
    /\ \A c \in Chans : AllOff(c) \in Events
    /\ Clock \in Events /\ Spp \in Events
    BY DEF Events

\* An event is sent, or its producer is held up with it.
LEMMA EmitTyped ==
    ASSUME HeldTyped, queue \in Seq(Events), NEW p \in Producers, NEW e \in Events, Emit(p, e)
    PROVE  HeldTyped' /\ queue' \in Seq(Events)
<1>1. CASE queue' = Append(queue, e) /\ held' = held
    BY <1>1 DEF HeldTyped
<1>2. CASE queue' = queue /\ held' = [held EXCEPT ![p] = [stage |-> "drop", ev |-> e,
                                                          keep |-> <<>>]]
  <2>1. <<>> \in Seq(Events)
    OBVIOUS
  <2>2. QED
    BY <1>2, <2>1 DEF HeldTyped
<1>3. QED
    BY <1>1, <1>2 DEF Emit

LEMMA EmitStepTyped ==
    ASSUME OffsTyped, NEW p \in Producers, EmitStep(p)
    PROVE  /\ HeldTyped' /\ queue' \in Seq(Events) /\ intact' \in BOOLEAN
           /\ UNCHANGED <<taskVars, destVars>>
           /\ ~Free(p)' \/ intact' = FALSE
<1>1. held[p] \in [stage : {"free", "drop", "back"}, ev : Events, keep : Seq(Events)]
      /\ HeldTyped /\ queue \in Seq(Events) /\ intact \in BOOLEAN
    BY DEF OffsTyped, HeldTyped
<1>2. CASE DropOldest(p)
  <2>1. CASE held' = [held EXCEPT ![p].stage = "back"]
    <3>1. HeldTyped' /\ held'[p].stage = "back"
      BY <1>1, <2>1 DEF HeldTyped
    <3>2. QED
      BY <1>1, <1>2, <3>1 DEF DropOldest, Free
  <2>2. CASE /\ queue # <<>> /\ queue' = Tail(queue)
             /\ held' = [held EXCEPT ![p].keep = Append(@, Head(queue))]
    <3>1. Append(held[p].keep, Head(queue)) \in Seq(Events)
      BY <1>1, <2>2
    <3>2. held' = [held EXCEPT ![p] = [held[p] EXCEPT !.keep = Append(held[p].keep, Head(queue))]]
      BY <2>2
    <3>3. HeldTyped' /\ held'[p].stage = "drop"
      BY <1>1, <1>2, <3>1, <3>2 DEF HeldTyped, DropOldest
    <3>4. QED
      BY <1>1, <1>2, <2>2, <3>3 DEF DropOldest, Free
  <2>3. QED
    BY <1>2, <2>1, <2>2 DEF DropOldest
<1>3. CASE PutBack(p)
  <2>1. Tail(held[p].keep) \in Seq(Events) /\ Head(held[p].keep) \in Events
    BY <1>1, <1>3 DEF PutBack
  <2>2. held' = [held EXCEPT ![p] = [held[p] EXCEPT !.keep = Tail(held[p].keep)]]
    BY <1>3 DEF PutBack
  <2>3. HeldTyped' /\ held'[p].stage = "back"
    <3>1. /\ [held[p] EXCEPT !.keep = Tail(held[p].keep)]
                 \in [stage : {"free", "drop", "back"}, ev : Events, keep : Seq(Events)]
          /\ [held[p] EXCEPT !.keep = Tail(held[p].keep)].stage = "back"
      BY <1>1, <1>3, <2>1 DEF PutBack
    <3>2. QED
      BY <1>1, <2>2, <3>1 DEF HeldTyped
  <2>4. queue' \in Seq(Events)
    BY <1>1, <1>3, <2>1 DEF PutBack, SendIfRoom
  <2>5. QED
    BY <1>1, <1>3, <2>3, <2>4 DEF PutBack, Free
<1>4. CASE SendAgain(p)
  <2>1. NotHeld \in [stage : {"free", "drop", "back"}, ev : Events, keep : Seq(Events)]
    <3>1. <<>> \in Seq(Events)
      OBVIOUS
    <3>2. QED
      BY <3>1, EventsTyped DEF NotHeld
  <2>2. HeldTyped'
    BY <1>1, <1>4, <2>1 DEF HeldTyped, SendAgain
  <2>3. queue' \in Seq(Events)
    BY <1>1, <1>4 DEF SendAgain, SendIfRoom
  <2>4. intact' = FALSE /\ UNCHANGED <<taskVars, destVars>>
    BY <1>4 DEF SendAgain
  <2>5. QED
    BY <2>2, <2>3, <2>4
<1>5. QED
    BY <1>2, <1>3, <1>4 DEF EmitStep

LEMMA ClearedTyped ==
    ASSUME TableTyped, NEW i \in Slots, offs' = Cleared(i)
    PROVE  /\ TableTyped'
           /\ offs'[i].note = offs[i].note
           /\ \A j \in Slots : j # i => offs'[j] = offs[j]
<1>1. offs[i] \in [armed : BOOLEAN, due : BOOLEAN, note : Notes \cup {NoNote}]
    BY DEF TableTyped
<1>2. offs' = [offs EXCEPT ![i] = [offs[i] EXCEPT !.armed = FALSE, !.due = FALSE]]
    BY <1>1 DEF Cleared, TableTyped
<1>3. [offs[i] EXCEPT !.armed = FALSE, !.due = FALSE]
          \in [armed : BOOLEAN, due : BOOLEAN, note : Notes \cup {NoNote}]
    BY <1>1
<1>4. QED
    BY <1>1, <1>2, <1>3 DEF TableTyped

\* The clock's steps, the editor's, and what they do to the table.
ClockAsks == Serve \/ ServeEmit \/ Pulse \/ (\E l \in Lanes : FireLane(l)) \/ OffAtOnce \/ EndTick

LEMMA ClockGoes ==
    ASSUME ClockTyped, NEW c \in {"idle", "serve", "pulse", "fire", "find"},
           NEW j \in 1..(NOffs + 1), NEW n \in Notes \cup {NoNote},
           c = "find" => n \in Notes,
           ticking' = [ticking EXCEPT !.pc = c, !.i = j, !.note = n]
    PROVE  ClockTyped'
<1>1. /\ ticking'.pc = c /\ ticking'.i = j /\ ticking'.note = n
      /\ ticking' \in [pc : {"idle", "serve", "serveEmit", "pulse", "fire", "book", "find",
                             "take"},
                       i : 1..(NOffs + 1), note : Notes \cup {NoNote},
                       todo : SUBSET Lanes, unset : SUBSET {"armed", "note"}]
    BY DEF ClockTyped
<1>2. QED
    BY <1>1 DEF ClockTyped

LEMMA EditorGoes ==
    ASSUME EditorTyped, NEW c \in {"idle", "spp", "start", "halt", "sweep", "sweepEmit", "cc"},
           NEW j \in Nat \ {0}, ed' = [ed EXCEPT !.pc = c, !.i = j],
           c = "sweepEmit" => j \in Slots, c = "cc" => j \in Chans
    PROVE  EditorTyped'
<1>1. /\ ed'.pc = c /\ ed'.i = j
      /\ ed' \in [pc : {"idle", "spp", "start", "halt", "sweep", "sweepEmit", "cc"},
                  i : Nat \ {0}, again : BOOLEAN]
    BY DEF EditorTyped
<1>2. QED
    BY <1>1 DEF EditorTyped

LEMMA TickingTyped ==
    ASSUME OffsTyped, ClockStep
    PROVE  ClockTyped' /\ TableTyped' /\ EditorTyped' /\ playing' = playing /\ chan' = chan
           /\ UNCHANGED destVars /\ ed' = ed
<1> USE OffsAssumption DEF Slots
<1>1. /\ ClockTyped /\ TableTyped /\ EditorTyped /\ chan \in [Lanes -> Chans]
      /\ UNCHANGED destVars /\ playing' = playing /\ chan' = chan /\ ed' = ed
    BY DEF OffsTyped, ClockStep, Tick, Serve, ServeEmit, Pulse, FireLane, Book, FindSlot,
           OffAtOnce, TakeSlot, EndTick
<1>2. EditorTyped'
    BY <1>1 DEF EditorTyped
<1>3. CASE Tick
  <2>1. ticking' = [ticking EXCEPT !.pc = "serve", !.i = 1] /\ offs' = offs
    BY <1>3 DEF Tick
  <2>2. /\ 1 \in 1..(NOffs + 1) /\ ticking.note \in Notes \cup {NoNote}
        /\ ticking' = [ticking EXCEPT !.pc = "serve", !.i = 1, !.note = ticking.note]
    <3>1. ticking.note \in Notes \cup {NoNote} /\ 1 \in 1..(NOffs + 1)
      BY <1>1 DEF ClockTyped
    <3>2. ticking' = [ticking EXCEPT !.pc = "serve", !.i = 1, !.note = ticking.note]
      BY <1>1, <2>1 DEF ClockTyped
    <3>3. QED
      BY <3>1, <3>2
  <2>3. ClockTyped'
    BY <1>1, <2>2, ClockGoes
  <2>4. QED
    BY <1>1, <1>2, <2>1, <2>3 DEF TableTyped
<1>4. CASE Serve
  <2>1. CASE ticking.i > NOffs
    <3>1. /\ offs' = offs
          /\ \/ ticking' = [ticking EXCEPT !.pc = "pulse", !.todo = Lanes]
             \/ ticking' = [ticking EXCEPT !.pc = "idle"]
      BY <1>4, <2>1 DEF Serve
    <3>2. ClockTyped'
      BY <1>1, <3>1 DEF ClockTyped
    <3>3. QED
      BY <1>1, <1>2, <3>1, <3>2 DEF TableTyped
  <2>2. CASE ~(ticking.i > NOffs)
    <3>1. ticking.i \in Slots
      BY <1>1, <2>2 DEF ClockTyped
    <3>2. TableTyped'
      BY <1>1, <1>4, <2>2, <3>1, ClearedTyped DEF Serve, TableTyped
    <3>3. \/ ticking' = [ticking EXCEPT !.pc = "serveEmit"]
          \/ ticking' = [ticking EXCEPT !.i = ticking.i + 1] /\ ticking.pc = "serve"
      BY <1>1, <1>4, <2>2 DEF Serve, ClockAt, ClockTyped
    <3>4. ClockTyped'
      BY <1>1, <3>1, <3>3 DEF ClockTyped
    <3>5. QED
      BY <1>1, <1>2, <3>2, <3>4
  <2>3. QED
    BY <2>1, <2>2
<1>5. CASE ServeEmit \/ FindSlot
  <2>1. ticking.i \in Slots /\ offs' = offs
    BY <1>1, <1>5 DEF ServeEmit, FindSlot, ClockAt, ClockTyped, TableSearched
  <2>2. \/ ticking' = [ticking EXCEPT !.pc = "serve", !.i = ticking.i + 1]
        \/ ticking' = [ticking EXCEPT !.i = ticking.i + 1] /\ ticking.pc = "find"
        \/ /\ ticking' = [ticking EXCEPT !.pc = "take", !.unset = {"armed", "note"}]
           /\ ticking.pc = "find"
    BY <1>1, <1>5 DEF ServeEmit, FindSlot, ClockAt, ClockTyped
  <2>3. ticking.i + 1 \in 1..(NOffs + 1) /\ {"armed", "note"} # {}
    BY <2>1
  <2>4. ClockTyped'
    <3>1. CASE ticking' = [ticking EXCEPT !.pc = "serve", !.i = ticking.i + 1]
      BY <1>1, <2>3, <3>1 DEF ClockTyped
    <3>2. CASE ticking' = [ticking EXCEPT !.i = ticking.i + 1] /\ ticking.pc = "find"
      BY <1>1, <2>3, <3>2 DEF ClockTyped
    <3>3. CASE /\ ticking' = [ticking EXCEPT !.pc = "take", !.unset = {"armed", "note"}]
               /\ ticking.pc = "find"
      BY <1>1, <2>1, <2>3, <3>3 DEF ClockTyped
    <3>4. QED
      BY <2>2, <3>1, <3>2, <3>3
  <2>5. QED
    BY <1>1, <1>2, <2>1, <2>4 DEF TableTyped
<1>6. CASE Pulse \/ OffAtOnce \/ EndTick
  <2>1. /\ offs' = offs
        /\ \/ ticking' = [ticking EXCEPT !.pc = "fire"]
           \/ ticking' = [ticking EXCEPT !.pc = "idle", !.todo = {}]
    BY <1>6 DEF Pulse, OffAtOnce, EndTick
  <2>2. ClockTyped'
    BY <1>1, <2>1 DEF ClockTyped
  <2>3. QED
    BY <1>1, <1>2, <2>1, <2>2 DEF TableTyped
<1>7. ASSUME NEW l \in Lanes, FireLane(l) PROVE ClockTyped' /\ TableTyped'
  <2>1. <<l, chan[l]>> \in Notes
    BY <1>1 DEF Notes
  <2>2. ticking' = [ticking EXCEPT !.pc = "book", !.note = <<l, chan[l]>>,
                                   !.todo = ticking.todo \ {l}] /\ offs' = offs
    BY <1>1, <1>7 DEF FireLane, ClockTyped
  <2>3. QED
    BY <1>1, <2>1, <2>2 DEF ClockTyped, TableTyped
<1>8. CASE Book
  <2>1. PICK l, n : /\ n = <<l, chan[l]>> /\ l = ticking.note[1] /\ offs' = offs
                    /\ ticking' = [ticking EXCEPT !.pc = "find", !.i = 1, !.note = n]
    BY <1>8 DEF Book
  <2>2. ticking.note \in Notes
    BY <1>1, <1>8 DEF Book, ClockAt, ClockTyped
  <2>3. n \in Notes
    BY <1>1, <2>1, <2>2 DEF Notes
  <2>4. ClockTyped'
    <3>1. 1 \in 1..(NOffs + 1) /\ n \in Notes \cup {NoNote}
      BY <2>3
    <3>2. QED
      BY <1>1, <2>1, <2>3, <3>1, ClockGoes
  <2>5. QED
    BY <1>1, <1>2, <2>1, <2>4 DEF TableTyped
<1>9. ASSUME NEW f \in {"armed", "note"}, TakeSlot(f) PROVE ClockTyped' /\ TableTyped'
  <2>1. /\ ticking.pc = "take" /\ f \in ticking.unset /\ ticking.i \in Slots
        /\ ticking.note \in Notes /\ offs[ticking.i] \in [armed : BOOLEAN, due : BOOLEAN,
                                                          note : Notes \cup {NoNote}]
    BY <1>1, <1>9 DEF TakeSlot, ClockAt, ClockTyped, TableTyped
  <2>2. PICK u, c : /\ u = ticking.unset \ {f} /\ c = (IF ticking.unset = {f} THEN "fire" ELSE "take")
                    /\ ticking' = [ticking EXCEPT !.unset = u, !.pc = c]
    BY <1>1, <1>9 DEF TakeSlot, ClockTyped
  <2>3. u \in SUBSET {"armed", "note"} /\ c \in {"fire", "take"} /\ (c = "take" => u # {})
    BY <1>1, <2>1, <2>2 DEF ClockTyped
  <2>4. ClockTyped'
    BY <1>1, <2>1, <2>2, <2>3 DEF ClockTyped
  <2>5. TableTyped'
    BY <1>1, <1>9, <2>1 DEF TakeSlot, TableTyped
  <2>6. QED
    BY <2>4, <2>5
<1>10. QED
    BY <1>1, <1>2, <1>3, <1>4, <1>5, <1>6, <1>7, <1>8, <1>9 DEF ClockStep

\* The commands and their steps.
LEMMA EditingTyped ==
    ASSUME OffsTyped, EditorStep \/ Command
    PROVE  /\ EditorTyped' /\ TableTyped' /\ ClockTyped' /\ chan' \in [Lanes -> Chans]
           /\ ticking' = ticking /\ sounding' = sounding /\ intact' = intact
<1> USE OffsAssumption DEF Slots
<1>1. /\ ClockTyped /\ TableTyped /\ EditorTyped /\ chan \in [Lanes -> Chans]
      /\ ticking' = ticking /\ sounding' = sounding /\ intact' = intact
    BY DEF OffsTyped, EditorStep, Command, PlaySync, Halt, Sweep, SweepEmit, SendAllOff,
           StartPlaying, Stop, SwitchDest, Rebind, destVars, taskVars
<1>2. ClockTyped'
    BY <1>1 DEF ClockTyped
<1>3. chan' \in [Lanes -> Chans]
    BY <1>1 DEF EditorStep, Command, PlaySync, Halt, Sweep, SweepEmit, SendAllOff,
           StartPlaying, Stop, SwitchDest, Rebind, taskVars
<1>4. CASE Sweep
  <2>1. CASE ed.i > NOffs
    <3>1. ed' = [ed EXCEPT !.pc = "cc", !.i = 1] /\ offs' = offs
      BY <1>4, <2>1 DEF Sweep
    <3>2. 1 \in Chans /\ 1 \in Nat \ {0}
      BY DEF Chans
    <3>3. EditorTyped'
      BY <1>1, <3>1, <3>2, EditorGoes
    <3>4. QED
      BY <1>1, <1>2, <1>3, <3>1, <3>3 DEF TableTyped
  <2>2. CASE ~(ed.i > NOffs)
    <3>1. ed.i \in Slots
      BY <1>1, <2>2 DEF EditorTyped
    <3>2. TableTyped'
      BY <1>1, <1>4, <2>2, <3>1, ClearedTyped DEF Sweep, TableTyped
    <3>3. \/ ed' = [ed EXCEPT !.pc = "sweepEmit"]
          \/ ed' = [ed EXCEPT !.i = ed.i + 1] /\ ed.pc = "sweep"
      BY <1>1, <1>4, <2>2 DEF Sweep, EditorAt, EditorTyped
    <3>4. EditorTyped'
      BY <1>1, <3>1, <3>3 DEF EditorTyped
    <3>5. QED
      BY <1>1, <1>2, <1>3, <3>2, <3>4
  <2>3. QED
    BY <2>1, <2>2
<1>5. CASE SendAllOff
  <2>1. ed.i \in Chans /\ offs' = offs
    BY <1>1, <1>5 DEF SendAllOff, EditorAt, EditorTyped
  <2>2. \/ ed' = [ed EXCEPT !.i = ed.i + 1] /\ ed.i < NChans /\ ed.pc = "cc"
        \/ \E c \in {"sweep", "idle"} : ed' = [pc |-> c, i |-> 1, again |-> FALSE]
    BY <1>1, <1>5 DEF SendAllOff, EditorAt, EditorTyped
  <2>3. EditorTyped'
    <3>1. CASE ed' = [ed EXCEPT !.i = ed.i + 1] /\ ed.i < NChans /\ ed.pc = "cc"
      <4>1. ed.i + 1 \in Chans /\ ed.i + 1 \in Nat \ {0}
        BY <2>1, <3>1 DEF Chans
      <4>2. QED
        BY <1>1, <3>1, <4>1 DEF EditorTyped
    <3>2. ASSUME NEW c \in {"sweep", "idle"}, ed' = [pc |-> c, i |-> 1, again |-> FALSE]
          PROVE  EditorTyped'
      <4>1. FALSE \in BOOLEAN
        OBVIOUS
      <4>2. QED
        BY <3>2, <4>1 DEF EditorTyped
    <3>3. QED
      BY <2>2, <3>1, <3>2
  <2>4. QED
    BY <1>1, <1>2, <1>3, <2>1, <2>3 DEF TableTyped
<1>6. CASE PlaySync \/ Halt \/ SweepEmit
  <2>1. /\ offs' = offs
        /\ \/ ed' = [ed EXCEPT !.pc = "start"] \/ ed' = [ed EXCEPT !.pc = "idle"]
           \/ ed' = [ed EXCEPT !.pc = "sweep", !.i = 1]
           \/ ed' = [ed EXCEPT !.pc = "sweep", !.i = ed.i + 1]
    BY <1>1, <1>6 DEF PlaySync, Halt, SweepEmit, EditorTyped
  <2>2. EditorTyped'
    <3>1. ed.i \in Nat \ {0}
      BY <1>1 DEF EditorTyped
    <3>2. \E c \in {"start", "idle", "sweep"}, j \in Nat \ {0} :
              ed' = [ed EXCEPT !.pc = c, !.i = j]
      <4>1. CASE ed' = [ed EXCEPT !.pc = "start"] \/ ed' = [ed EXCEPT !.pc = "idle"]
        <5>1. \/ ed' = [ed EXCEPT !.pc = "start", !.i = ed.i]
              \/ ed' = [ed EXCEPT !.pc = "idle", !.i = ed.i]
          BY <1>1, <4>1 DEF EditorTyped
        <5>2. QED
          BY <3>1, <5>1
      <4>2. CASE \/ ed' = [ed EXCEPT !.pc = "sweep", !.i = 1]
                 \/ ed' = [ed EXCEPT !.pc = "sweep", !.i = ed.i + 1]
        <5>1. ed.i + 1 \in Nat \ {0} /\ 1 \in Nat \ {0}
          BY <3>1
        <5>2. QED
          BY <4>2, <5>1
      <4>3. QED
        BY <2>1, <4>1, <4>2
    <3>3. PICK c \in {"start", "idle", "sweep"}, j \in Nat \ {0} :
              ed' = [ed EXCEPT !.pc = c, !.i = j]
      BY <3>2
    <3>4. QED
      BY <1>1, <3>3, EditorGoes
  <2>3. QED
    BY <1>1, <1>2, <1>3, <2>1, <2>2 DEF TableTyped
<1>7. ASSUME NEW panic \in BOOLEAN, Stop(panic) PROVE EditorTyped' /\ TableTyped'
    BY <1>1, <1>7 DEF Stop, EditorTyped, TableTyped
<1>8. CASE StartPlaying \/ SwitchDest \/ \E l \in Lanes, c \in Chans : Rebind(l, c)
    BY <1>1, <1>2, <1>3, <1>8 DEF StartPlaying, SwitchDest, Rebind, taskVars, EditorTyped,
       TableTyped
<1>9. QED
    BY <1>1, <1>2, <1>3, <1>4, <1>5, <1>6, <1>7, <1>8 DEF EditorStep, Command

LEMMA ClockSends ==
    ASSUME OffsTyped, ClockStep
    PROVE  UNCHANGED emitVars \/ \E e \in Events : Emit("clock", e)
<1>1. CASE ServeEmit
  <2>1. offs[ticking.i].note \in Notes \cup {NoNote}
    BY <1>1 DEF OffsTyped, ServeEmit, ClockAt, ClockTyped, TableTyped
  <2>2. QED
    BY <1>1, <2>1, EventsTyped DEF ServeEmit
<1>2. ASSUME NEW l \in Lanes, FireLane(l) PROVE \E e \in Events : Emit("clock", e)
  <2>1. <<l, chan[l]>> \in Notes
    BY DEF OffsTyped, Notes
  <2>2. QED
    BY <1>2, <2>1, EventsTyped DEF FireLane
<1>3. CASE OffAtOnce
  <2>1. ticking.note \in Notes
    BY <1>3 DEF OffsTyped, OffAtOnce, ClockAt, ClockTyped
  <2>2. QED
    BY <1>3, <2>1, EventsTyped DEF OffAtOnce
<1>4. CASE Pulse
    BY <1>4, EventsTyped DEF Pulse
<1>5. CASE EndTick
    BY <1>5, EventsTyped DEF EndTick
<1>6. CASE Tick \/ Serve \/ Book \/ FindSlot \/ \E f \in {"armed", "note"} : TakeSlot(f)
    BY <1>6 DEF Tick, Serve, Book, FindSlot, TakeSlot
<1>7. QED
    BY <1>1, <1>2, <1>3, <1>4, <1>5, <1>6 DEF ClockStep

LEMMA EditorSends ==
    ASSUME OffsTyped, EditorStep \/ Command
    PROVE  UNCHANGED emitVars \/ \E e \in Events : Emit("editor", e)
<1>1. CASE SweepEmit
  <2>1. offs[ed.i].note \in Notes \cup {NoNote}
    BY <1>1 DEF OffsTyped, SweepEmit, EditorAt, EditorTyped, TableTyped
  <2>2. QED
    BY <1>1, <2>1, EventsTyped DEF SweepEmit
<1>2. CASE SendAllOff
  <2>1. ed.i \in Chans
    BY <1>2 DEF OffsTyped, SendAllOff, EditorAt, EditorTyped
  <2>2. QED
    BY <1>2, <2>1, EventsTyped DEF SendAllOff
<1>3. CASE PlaySync
    BY <1>3, EventsTyped DEF PlaySync
<1>4. ASSUME NEW panic \in BOOLEAN, Stop(panic)
      PROVE  UNCHANGED emitVars \/ \E e \in Events : Emit("editor", e)
    BY <1>4, EventsTyped DEF Stop
<1>5. CASE Halt \/ Sweep \/ StartPlaying \/ SwitchDest
           \/ \E l \in Lanes, c \in Chans : Rebind(l, c)
    BY <1>5 DEF Halt, Sweep, StartPlaying, SwitchDest, Rebind
<1>6. QED
    BY <1>1, <1>2, <1>3, <1>4, <1>5 DEF EditorStep, Command

\* No step makes the tasks quiet that were not; and what is sent while they are
\* goes to the end of the queue.
LEMMA Sent ==
    ASSUME OffsTyped, NEW p \in Producers, NEW e, Emit(p, e), Quiet'
    PROVE  queue' = Append(queue, e) /\ held' = held
    BY EmitRoom DEF OffsTyped, Quiet

LEMMA WasQuiet ==
    ASSUME OffsTyped, ClockStep \/ EditorStep \/ Command, Quiet'
    PROVE  Quiet
<1>1. held' = held
  <2>1. UNCHANGED emitVars \/ \E p \in Producers, e \in Events : Emit(p, e)
    <3>1. "clock" \in Producers /\ "editor" \in Producers
      BY DEF Producers
    <3>2. QED
      BY <3>1, ClockSends, EditorSends
  <2>2. QED
    BY <2>1, Sent DEF emitVars
<1>2. intact = TRUE
  <2>1. CASE ClockStep
    <3>1. CASE Book
      <4>1. PICK b \in BOOLEAN : intact' = (intact /\ b)
        BY <3>1 DEF Book
      <4>2. intact' = TRUE /\ intact \in BOOLEAN
        BY DEF Quiet, OffsTyped
      <4>3. QED
        BY <4>1, <4>2
    <3>2. CASE ~Book
      <4>1. intact' = intact
        BY <2>1, <3>2 DEF ClockStep, Tick, Serve, ServeEmit, Pulse, FireLane, FindSlot,
           OffAtOnce, TakeSlot, EndTick
      <4>2. QED
        BY <4>1 DEF Quiet
    <3>3. QED
      BY <3>1, <3>2
  <2>2. CASE EditorStep \/ Command
    BY <2>2, EditingTyped DEF Quiet
  <2>3. QED
    BY <2>1, <2>2
<1>3. QED
    BY <1>1, <1>2 DEF Quiet, Free

LEMMA DeliverTyped ==
    ASSUME OffsTyped, Deliver
    PROVE  OffsTyped' /\ UNCHANGED <<held, taskVars>> /\ (Quiet' => Quiet /\ destOn = TRUE)
<1>1. /\ queue \in Seq(Events) /\ queue # <<>> /\ UNCHANGED <<held, taskVars, destOn>>
      /\ queue' = Tail(queue) /\ sounding \subseteq Notes /\ intact \in BOOLEAN
    BY DEF OffsTyped, Deliver
<1>2. queue' \in Seq(Events) /\ Head(queue) \in Events
    BY <1>1
<1>3. sounding' \subseteq Notes
  <2>1. ASSUME NEW n \in Heard(sounding, Head(queue)) PROVE n \in Notes
    <3>1. CASE n \in sounding
      BY <1>1, <3>1
    <3>2. CASE n \notin sounding
      <4>1. Head(queue).kind = "on" /\ Head(queue).arg = n
        BY <2>1, <3>2, HeardIs
      <4>2. QED
        BY <1>2, <4>1 DEF Events, On, NoteOff, AllOff, Clock, Spp
    <3>3. QED
      BY <3>1, <3>2
  <2>2. sounding' = sounding \/ sounding' = Heard(sounding, Head(queue))
    BY DEF Deliver
  <2>3. QED
    BY <1>1, <2>1, <2>2
<1>4. intact' \in BOOLEAN /\ (intact' = TRUE => intact = TRUE /\ destOn = TRUE)
  <2>1. intact' = (intact /\ destOn)
    BY DEF Deliver
  <2>2. CASE intact' = TRUE
    <3>1. intact /\ destOn
      BY <2>1, <2>2, Zenon
    <3>2. QED
      BY <1>1, <2>2, <3>1
  <2>3. QED
    BY <2>1, <2>2, Zenon
<1>5. OffsTyped'
    BY <1>1, <1>2, <1>3, <1>4 DEF OffsTyped, taskVars, HeldTyped, TableTyped, ClockTyped, EditorTyped
<1>6. QED
    BY <1>1, <1>4, <1>5 DEF Quiet, Free

LEMMA SwitchTyped ==
    ASSUME OffsTyped, EditorStep \/ Command PROVE destOn' \in BOOLEAN
<1>1. destOn' = destOn \/ destOn' = ~destOn
    BY DEF EditorStep, Command, PlaySync, Halt, Sweep, SweepEmit, SendAllOff,
       StartPlaying, Stop, SwitchDest, Rebind, destVars
<1>2. destOn \in BOOLEAN
    BY DEF OffsTyped
<1>3. QED
    BY <1>1, <1>2, Zenon

LEMMA DueTyped ==
    ASSUME OffsTyped, NEW i \in Slots, TimePasses(i)
    PROVE  /\ OffsTyped' /\ \A j \in Slots : /\ offs'[j].armed = offs[j].armed
                                             /\ offs'[j].note = offs[j].note
           /\ UNCHANGED <<playing, chan, ticking, ed, emitVars, destVars, intact>>
<1>1. offs[i] \in [armed : BOOLEAN, due : BOOLEAN, note : Notes \cup {NoNote}]
      /\ TableTyped
    BY DEF OffsTyped, TableTyped
<1>2. offs' = [offs EXCEPT ![i] = [offs[i] EXCEPT !.due = TRUE]]
    BY <1>1 DEF TimePasses, TableTyped
<1>3. [offs[i] EXCEPT !.due = TRUE] \in [armed : BOOLEAN, due : BOOLEAN,
                                         note : Notes \cup {NoNote}]
    BY <1>1
<1>4. TableTyped' /\ \A j \in Slots : /\ offs'[j].armed = offs[j].armed
                                      /\ offs'[j].note = offs[j].note
    BY <1>1, <1>2, <1>3 DEF TableTyped
<1>5. UNCHANGED <<playing, chan, ticking, ed, emitVars, destVars, intact>>
    BY DEF TimePasses
<1>6. QED
    BY <1>4, <1>5 DEF OffsTyped, HeldTyped, ClockTyped, EditorTyped, emitVars, destVars

LEMMA TypedKept ==
    ASSUME OffsTyped, OffsNext PROVE OffsTyped'
<1>1. ASSUME NEW p \in Producers, NEW e \in Events, Emit(p, e)
      PROVE  HeldTyped' /\ queue' \in Seq(Events)
    BY <1>1, EmitTyped DEF OffsTyped
<1>2. CASE ClockStep
  <2>1. "clock" \in Producers
    BY DEF Producers
  <2>2. HeldTyped' /\ queue' \in Seq(Events)
    BY <1>1, <1>2, <2>1, ClockSends DEF OffsTyped, HeldTyped, emitVars
  <2>3. intact' \in BOOLEAN
    <3>1. intact' = intact \/ intact' = (intact /\ chan[ticking.note[1]] = ticking.note[2])
      BY <1>2 DEF ClockStep, Tick, Serve, ServeEmit, Pulse, FireLane, FindSlot, Book,
         OffAtOnce, TakeSlot, EndTick
    <3>2. intact \in BOOLEAN
      BY DEF OffsTyped
    <3>3. QED
      BY <3>1, <3>2, Zenon
  <2>4. QED
    BY <1>2, <2>2, <2>3, TickingTyped DEF OffsTyped, destVars
<1>3. CASE EditorStep \/ Command
  <2>1. "editor" \in Producers
    BY DEF Producers
  <2>2. HeldTyped' /\ queue' \in Seq(Events)
    BY <1>1, <1>3, <2>1, EditorSends DEF OffsTyped, HeldTyped, emitVars
  <2>3. QED
    BY <1>3, <2>2, EditingTyped, SwitchTyped DEF OffsTyped
<1>4. ASSUME NEW p \in Producers, EmitStep(p) PROVE OffsTyped'
    BY <1>4, EmitStepTyped DEF OffsTyped, taskVars, destVars, TableTyped, ClockTyped, EditorTyped
<1>5. QED
    BY <1>2, <1>3, <1>4, DeliverTyped, DueTyped DEF OffsNext

-----------------------------------------------------------------------------
(* What is owed.                                                           *)

Owed(n) == (InTheTable(n) \/ ClockOwes(n) \/ EditorOwes(n)) /\ Booking(n)

\* The clock where it has no entry in hand.
LEMMA Unhanded ==
    ASSUME NEW n, Owed(n), ticking.pc \notin {"serveEmit", "book", "find", "take"},
           ticking'.pc # "take", offs' = offs, ed' = ed
    PROVE  Owed(n)'
    BY DEF Owed, InTheTable, ClockOwes, EditorOwes, Booking, Claimed

\* What an event leaves sounding was sounding before, or is what it struck.
LEMMA StillSounds ==
    ASSUME OffsTyped, NEW e \in Events, queue' = Append(queue, e), sounding' = sounding,
           NEW n \in AfterDrain(sounding, queue)'
    PROVE  /\ n \in Notes
           /\ Strikes(e, n) \/ (n \in AfterDrain(sounding, queue) /\ ~Silences(e, n))
<1>1. queue \in Seq(Events)
    BY DEF OffsTyped
<1>2. PICK S, q : S = sounding /\ q = queue
    OBVIOUS
<1>3. n \in AfterDrain(S, Append(q, e)) /\ q \in Seq(Events)
    BY <1>1, <1>2
<1>4. n \in AfterDrain(S, Append(q, e)) <=>
          n \in Notes /\ (Strikes(e, n) \/ (n \in AfterDrain(S, q) /\ ~Silences(e, n)))
    BY <1>3, AfterOneMore, Zenon
<1>5. QED
    BY <1>2, <1>3, <1>4

LEMMA WithinTheTable ==
    ASSUME ClockTyped, ~(ticking.i > NOffs) PROVE ticking.i \in Slots
<1>1. ticking.i \in 1..(NOffs + 1) /\ NOffs \in Nat
    BY OffsAssumption DEF ClockTyped
<1>2. QED
    BY <1>1 DEF Slots

LEMMA ClockOwed ==
    ASSUME OffsTyped, OwedInv, ClockStep, Quiet', NEW n \in AfterDrain(sounding, queue)'
    PROVE  Owed(n)'
<1>1. Quiet /\ sounding' = sounding /\ ed' = ed
    BY WasQuiet, TickingTyped DEF destVars
<1>2. \A m \in AfterDrain(sounding, queue) : Owed(m)
    BY <1>1 DEF OwedInv, Owed
<1>3. "clock" \in Producers
    BY DEF Producers
<1>4. /\ queue \in Seq(Events) /\ ClockTyped /\ TableTyped
    BY DEF OffsTyped
<1>5. ASSUME NEW e \in Events, Emit("clock", e)
      PROVE  n \in Notes /\ (Strikes(e, n) \/ (Owed(n) /\ ~Silences(e, n)))
  <2>1. queue' = Append(queue, e)
    BY <1>3, <1>5, Sent
  <2>2. QED
    BY <1>1, <1>2, <2>1, StillSounds
<1>6. ASSUME queue' = queue PROVE Owed(n)
    BY <1>1, <1>2, <1>6
<1>7. CASE Tick \/ Pulse \/ EndTick
  <2>1. /\ ticking.pc \in {"idle", "pulse", "fire"} /\ ticking'.pc \in {"serve", "fire", "idle"}
        /\ offs' = offs
    BY <1>4, <1>7 DEF Tick, Pulse, EndTick, ClockAt, ClockTyped
  <2>2. Emit("clock", Clock) \/ UNCHANGED emitVars
    BY <1>7 DEF Tick, Pulse, EndTick
  <2>3. ~Strikes(Clock, n) /\ Clock \in Events
    BY HeardIs, EventsTyped DEF Clock
  <2>4. Owed(n)
    BY <1>5, <1>6, <2>2, <2>3 DEF emitVars
  <2>5. QED
    BY <1>1, <2>1, <2>4, Unhanded
<1>8. CASE Serve
  <2>1. Owed(n)
    BY <1>6, <1>8 DEF Serve, emitVars
  <2>2. CASE offs' = offs
    <3>1. ticking.pc = "serve" /\ ticking'.pc \in {"pulse", "idle", "serve", "serveEmit"}
      BY <1>4, <1>8 DEF Serve, ClockAt, ClockTyped
    <3>2. QED
      BY <1>1, <2>1, <2>2, <3>1, Unhanded
  <2>3. CASE offs' # offs
    <3>1. /\ ticking.i \in Slots /\ ticking' = [ticking EXCEPT !.pc = "serveEmit"]
          /\ offs' = Cleared(ticking.i) /\ ticking.pc = "serve"
      <4>1. /\ ~(ticking.i > NOffs) /\ ticking' = [ticking EXCEPT !.pc = "serveEmit"]
            /\ offs' = Cleared(ticking.i) /\ ticking.pc = "serve"
        BY <1>8, <2>3 DEF Serve, ClockAt
      <4>2. ticking.i \in Slots
        BY <1>4, <4>1, WithinTheTable
      <4>3. QED
        BY <4>1, <4>2
    <3>2. ticking'.pc = "serveEmit" /\ ticking'.i = ticking.i
      BY <1>4, <3>1 DEF ClockTyped
    <3>3. /\ offs'[ticking.i].note = offs[ticking.i].note
          /\ \A j \in Slots : j # ticking.i => offs'[j] = offs[j]
      BY <1>4, <3>1, ClearedTyped
    <3>4. CASE EditorOwes(n)
      BY <1>1, <3>2, <3>4 DEF Owed, EditorOwes, Booking
    <3>5. CASE InTheTable(n)
      <4>1. PICK j \in Slots : offs[j].armed = TRUE /\ offs[j].note = n
        BY <3>5 DEF InTheTable
      <4>2. CASE j = ticking.i
        BY <3>2, <3>3, <4>1, <4>2 DEF Owed, ClockOwes, Booking
      <4>3. CASE j # ticking.i
        BY <3>2, <3>3, <4>1, <4>3 DEF Owed, InTheTable, Claimed, Booking
      <4>4. QED
        BY <4>2, <4>3
    <3>6. QED
      BY <2>1, <3>1, <3>4, <3>5 DEF Owed, ClockOwes
  <2>4. QED
    BY <2>2, <2>3
<1>9. CASE ServeEmit
  <2>1. /\ ticking.pc = "serveEmit" /\ offs' = offs /\ ticking'.pc = "serve"
        /\ ticking.i \in Slots /\ Emit("clock", NoteOff(offs[ticking.i].note))
    BY <1>4, <1>9 DEF ServeEmit, ClockAt, ClockTyped
  <2>2. offs[ticking.i].note \in Notes \cup {NoNote}
    BY <1>4, <2>1 DEF TableTyped
  <2>3. NoteOff(offs[ticking.i].note) \in Events
    BY <2>2, EventsTyped
  <2>4. Owed(n) /\ n # offs[ticking.i].note
    <3>1. ~Strikes(NoteOff(offs[ticking.i].note), n)
      BY HeardIs DEF NoteOff
    <3>2. Owed(n) /\ ~Silences(NoteOff(offs[ticking.i].note), n)
      BY <1>5, <2>1, <2>3, <3>1
    <3>3. QED
      BY <3>2, HeardIs DEF NoteOff
  <2>5. QED
    BY <1>1, <2>1, <2>4 DEF Owed, InTheTable, Claimed, ClockOwes, EditorOwes, Booking
<1>10. ASSUME NEW l \in Lanes, FireLane(l) PROVE Owed(n)'
  <2>1. /\ ticking.pc = "fire" /\ ticking'.pc = "book" /\ ticking'.note = <<l, chan[l]>>
        /\ offs' = offs /\ Emit("clock", On(<<l, chan[l]>>))
    BY <1>4, <1>10 DEF FireLane, ClockAt, ClockTyped
  <2>2. <<l, chan[l]>> \in Notes
    BY DEF OffsTyped, Notes
  <2>3. n = <<l, chan[l]>> \/ Owed(n)
    <3>1. Strikes(On(<<l, chan[l]>>), n) \/ Owed(n)
      BY <1>5, <2>1, <2>2, EventsTyped
    <3>2. QED
      BY <3>1, HeardIs DEF On
  <2>4. CASE Owed(n)
    BY <1>1, <2>1, <2>4, Unhanded
  <2>5. CASE n = <<l, chan[l]>>
    BY <2>1, <2>5 DEF Owed, ClockOwes, Booking
  <2>6. QED
    BY <2>3, <2>4, <2>5
<1>11. CASE Book
  <2>1. Owed(n) /\ ticking.pc = "book" /\ ticking.note \in Notes /\ offs' = offs
    BY <1>4, <1>6, <1>11 DEF Book, emitVars, ClockAt, ClockTyped
  <2>2. PICK b \in BOOLEAN : intact' = (intact /\ b) /\ b = (chan[ticking.note[1]] = ticking.note[2])
    BY <1>11 DEF Book
  <2>3. chan[ticking.note[1]] = ticking.note[2]
    <3>1. intact' = TRUE
      BY DEF Quiet
    <3>2. QED
      BY <2>2, <3>1
  <2>4. ticking'.pc = "find" /\ ticking'.note = <<ticking.note[1], chan[ticking.note[1]]>>
    BY <1>4, <1>11 DEF Book, ClockTyped
  <2>5. ticking'.note = ticking.note
    BY <2>1, <2>3, <2>4 DEF Notes
  <2>6. QED
    BY <1>1, <2>1, <2>4, <2>5 DEF Owed, InTheTable, Claimed, ClockOwes, EditorOwes, Booking
<1>12. CASE FindSlot
  <2>1. Owed(n) /\ ticking.pc = "find" /\ offs' = offs /\ ticking.i \in Slots
    <3>1. Owed(n) /\ ticking.pc = "find" /\ offs' = offs /\ ~(ticking.i > NOffs)
      BY <1>6, <1>12 DEF FindSlot, emitVars, ClockAt, TableSearched
    <3>2. QED
      BY <1>4, <3>1, WithinTheTable
  <2>2. ticking'.note = ticking.note
    BY <1>4, <1>12 DEF FindSlot, ClockTyped
  <2>3. \/ ticking'.pc = "find"
        \/ /\ ticking'.pc = "take" /\ ticking'.i = ticking.i
           /\ ticking'.unset = {"armed", "note"} /\ ~offs[ticking.i].armed
    BY <1>4, <1>12, <2>1 DEF FindSlot, ClockTyped
  <2>4. InTheTable(n) => InTheTable(n)'
    <3>1. SUFFICES ASSUME InTheTable(n) PROVE InTheTable(n)'
      OBVIOUS
    <3>2. PICK j \in Slots : offs[j].armed = TRUE /\ offs[j].note = n
      BY <3>1 DEF InTheTable
    <3>3. ~Claimed(j)'
      BY <2>3, <3>2 DEF Claimed
    <3>4. QED
      BY <2>1, <3>2, <3>3 DEF InTheTable
  <2>5. Booking(n)'
    BY <2>3 DEF Booking
  <2>6. QED
    BY <1>1, <2>1, <2>2, <2>3, <2>4, <2>5 DEF Owed, ClockOwes, EditorOwes
<1>13. CASE OffAtOnce
  <2>1. /\ ticking.pc = "find" /\ offs' = offs /\ ticking'.pc = "fire"
        /\ ticking.note \in Notes /\ Emit("clock", NoteOff(ticking.note))
    BY <1>4, <1>13 DEF OffAtOnce, ClockAt, ClockTyped
  <2>2. NoteOff(ticking.note) \in Events
    BY <2>1, EventsTyped
  <2>3. Owed(n) /\ n # ticking.note
    <3>1. PICK e \in Events : e = NoteOff(ticking.note) /\ e.kind = "off" /\ e.arg = ticking.note
      BY <2>2 DEF NoteOff
    <3>2. ~Strikes(e, n) /\ (Silences(e, n) <=> e.arg = n)
      BY <3>1, HeardIs
    <3>3. Owed(n) /\ ~Silences(e, n)
      BY <1>5, <2>1, <3>1, <3>2
    <3>4. QED
      BY <3>1, <3>2, <3>3
  <2>4. QED
    BY <1>1, <2>1, <2>3 DEF Owed, InTheTable, Claimed, ClockOwes, EditorOwes, Booking
<1>14. ASSUME NEW f \in {"armed", "note"}, TakeSlot(f) PROVE Owed(n)'
  <2>1. /\ Owed(n) /\ ticking.pc = "take" /\ f \in ticking.unset /\ ticking.i \in Slots
        /\ ticking.note \in Notes
    BY <1>4, <1>6, <1>14 DEF TakeSlot, emitVars, ClockAt, ClockTyped
  <2>2. /\ ticking'.note = ticking.note /\ ticking'.i = ticking.i
        /\ ticking'.unset = ticking.unset \ {f}
        /\ ticking'.pc = IF ticking.unset = {f} THEN "fire" ELSE "take"
    BY <1>4, <1>14 DEF TakeSlot, ClockTyped
  <2>3. /\ \A j \in Slots : j # ticking.i => offs'[j] = offs[j]
        /\ f = "armed" => /\ offs'[ticking.i].armed = TRUE
                          /\ offs'[ticking.i].note = offs[ticking.i].note
        /\ f = "note" => /\ offs'[ticking.i].note = ticking.note
                         /\ offs'[ticking.i].armed = offs[ticking.i].armed
    BY <1>4, <1>14, <2>1 DEF TakeSlot, TableTyped
  <2>4. CASE n = ticking.note
    <3>1. /\ "note" \notin ticking.unset => offs[ticking.i].note = n
          /\ "armed" \notin ticking.unset => offs[ticking.i].armed = TRUE \/ EditorOwes(n)
      BY <2>1, <2>4 DEF Owed, Booking
    <3>2. EditorOwes(n)' <=> EditorOwes(n)
      BY <1>1 DEF EditorOwes
    <3>3. CASE ticking.unset = {f}
      <4>1. ticking'.pc = "fire" /\ offs'[ticking.i].note = n
        BY <2>2, <2>3, <2>4, <3>1, <3>3
      <4>2. offs'[ticking.i].armed = TRUE \/ EditorOwes(n)
        BY <2>3, <3>1, <3>3
      <4>3. QED
        BY <2>1, <3>2, <4>1, <4>2 DEF Owed, InTheTable, Claimed, Booking
    <3>4. CASE ticking.unset # {f}
      <4>1. ticking'.pc = "take"
        BY <2>2, <3>4
      <4>2. Booking(n)'
        BY <2>2, <2>3, <2>4, <3>1, <3>2 DEF Booking
      <4>3. QED
        BY <2>2, <2>4, <4>1, <4>2 DEF Owed, ClockOwes
    <3>5. QED
      BY <3>3, <3>4
  <2>5. CASE n # ticking.note
    <3>1. Booking(n)'
      BY <2>2, <2>5 DEF Booking
    <3>2. CASE EditorOwes(n)
      BY <1>1, <3>1, <3>2 DEF Owed, EditorOwes
    <3>3. CASE InTheTable(n)
      <4>1. PICK j \in Slots : offs[j].armed = TRUE /\ offs[j].note = n /\ ~Claimed(j)
        BY <3>3 DEF InTheTable
      <4>2. CASE j # ticking.i
        BY <2>2, <2>3, <3>1, <4>1, <4>2 DEF Owed, InTheTable, Claimed
      <4>3. CASE j = ticking.i
        <5>1. "note" \notin ticking.unset /\ f = "armed"
          BY <2>1, <4>1, <4>3 DEF Claimed
        <5>2. ~Claimed(j)' /\ offs'[j].armed = TRUE /\ offs'[j].note = n
          BY <2>2, <2>3, <4>1, <4>3, <5>1 DEF Claimed
        <5>3. QED
          BY <3>1, <5>2 DEF Owed, InTheTable
      <4>4. QED
        BY <4>2, <4>3
    <3>4. QED
      BY <2>1, <2>5, <3>2, <3>3 DEF Owed, ClockOwes
  <2>6. QED
    BY <2>4, <2>5
<1>15. QED
    BY <1>7, <1>8, <1>9, <1>10, <1>11, <1>12, <1>13, <1>14 DEF ClockStep

\* The editor before its sweep and after it touches neither table nor clock.
LEMMA Unswept ==
    ASSUME NEW n, Owed(n), offs' = offs, ticking' = ticking, ~EditorOwes(n)
    PROVE  Owed(n)'
    BY DEF Owed, InTheTable, ClockOwes, Booking, Claimed

LEMMA EditorOwed ==
    ASSUME OffsTyped, OwedInv, EditorStep \/ Command, Quiet',
           NEW n \in AfterDrain(sounding, queue)'
    PROVE  Owed(n)'
<1>1. Quiet /\ sounding' = sounding /\ ticking' = ticking
    BY WasQuiet, EditingTyped
<1>2. \A m \in AfterDrain(sounding, queue) : Owed(m)
    BY <1>1 DEF OwedInv, Owed
<1>3. "editor" \in Producers
    BY DEF Producers
<1>4. /\ EditorTyped /\ TableTyped /\ ClockTyped
    BY DEF OffsTyped
<1>5. ASSUME NEW e \in Events, Emit("editor", e)
      PROVE  n \in Notes /\ (Strikes(e, n) \/ (Owed(n) /\ ~Silences(e, n)))
  <2>1. queue' = Append(queue, e)
    BY <1>3, <1>5, Sent
  <2>2. QED
    BY <1>1, <1>2, <2>1, StillSounds
<1>6. ASSUME queue' = queue PROVE Owed(n) /\ n \in Notes
  <2>1. n \in AfterDrain(sounding, queue)
    BY <1>1, <1>6
  <2>2. QED
    BY <1>2, <2>1 DEF AfterDrain
<1>7. CASE PlaySync \/ \E panic \in BOOLEAN : Stop(panic)
  <2>1. ed.pc \in {"spp", "start", "idle"} /\ offs' = offs
    BY <1>7 DEF PlaySync, Stop, EditorAt
  <2>2. Emit("editor", Spp) \/ Emit("editor", Clock) \/ UNCHANGED emitVars
    BY <1>7 DEF PlaySync, Stop
  <2>3. ~Strikes(Spp, n) /\ ~Strikes(Clock, n)
    BY HeardIs DEF Spp, Clock
  <2>4. Owed(n)
    BY <1>5, <1>6, <2>2, <2>3, EventsTyped DEF emitVars
  <2>5. QED
    BY <1>1, <2>1, <2>4, Unswept DEF EditorOwes
<1>8. CASE Halt \/ StartPlaying \/ SwitchDest \/ \E l \in Lanes, c \in Chans : Rebind(l, c)
  <2>1. ed.pc \in {"halt", "idle"} /\ offs' = offs /\ queue' = queue
    BY <1>8 DEF Halt, StartPlaying, SwitchDest, Rebind, EditorAt, emitVars, taskVars
  <2>2. QED
    BY <1>1, <1>6, <2>1, Unswept DEF EditorOwes
<1>9. CASE Sweep
  <2>1. Owed(n) /\ n \in Notes /\ n[2] \in Chans
    BY <1>6, <1>9 DEF Sweep, emitVars, Notes
  <2>2. EditorOwes(n)'
    <3>1. \/ ed' = [ed EXCEPT !.pc = "cc", !.i = 1]
          \/ ed' = [ed EXCEPT !.pc = "sweepEmit"]
          \/ ed' = [ed EXCEPT !.i = ed.i + 1] /\ ed.pc = "sweep"
      BY <1>4, <1>9 DEF Sweep, EditorAt, EditorTyped
    <3>2. (ed'.pc = "cc" /\ ed'.i = 1) \/ ed'.pc \in {"sweepEmit", "sweep"}
      BY <1>4, <3>1 DEF EditorTyped
    <3>3. 1 <= n[2]
      BY <2>1, OffsAssumption DEF Chans
    <3>4. QED
      BY <3>2, <3>3 DEF EditorOwes
  <2>3. \A j \in Slots : offs'[j].note = offs[j].note
    <3>1. CASE ~(ed.i > NOffs) /\ offs' = Cleared(ed.i)
      <4>1. ed.i \in Slots
        BY <1>4, <3>1, OffsAssumption DEF EditorTyped, Slots
      <4>2. QED
        BY <1>4, <3>1, <4>1, ClearedTyped
    <3>2. CASE offs' = offs
      BY <3>2
    <3>3. QED
      BY <1>9, <3>1, <3>2 DEF Sweep
  <2>4. Booking(n)'
    BY <1>1, <1>4, <2>1, <2>2, <2>3 DEF Owed, Booking, ClockTyped
  <2>5. QED
    BY <2>2, <2>4 DEF Owed
<1>10. CASE SweepEmit
  <2>1. /\ offs' = offs /\ Emit("editor", NoteOff(offs[ed.i].note))
        /\ ed.pc = "sweepEmit" /\ ed.i \in Slots /\ ed'.pc = "sweep"
    BY <1>4, <1>10 DEF SweepEmit, EditorAt, EditorTyped
  <2>2. offs[ed.i].note \in Notes \cup {NoNote}
    BY <1>4, <2>1 DEF TableTyped
  <2>3. PICK e \in Events : e = NoteOff(offs[ed.i].note) /\ e.kind = "off"
    BY <2>2, EventsTyped DEF NoteOff
  <2>4. ~Strikes(e, n)
    BY <2>3, HeardIs
  <2>5. Owed(n)
    BY <1>5, <2>1, <2>3, <2>4
  <2>6. EditorOwes(n)'
    BY <2>1 DEF EditorOwes
  <2>7. QED
    BY <1>1, <2>1, <2>5, <2>6 DEF Owed, Booking
<1>11. CASE SendAllOff
  <2>1. ed.pc = "cc" /\ ed.i \in Chans /\ offs' = offs /\ Emit("editor", AllOff(ed.i))
    BY <1>4, <1>11 DEF SendAllOff, EditorAt, EditorTyped
  <2>2. PICK e \in Events : e = AllOff(ed.i) /\ e.kind = "cc123" /\ e.arg = ed.i
    BY <2>1, EventsTyped DEF AllOff
  <2>3. ~Strikes(e, n) /\ (Silences(e, n) <=> n[2] = ed.i)
    BY <2>2, HeardIs
  <2>4. n \in Notes /\ Owed(n) /\ n[2] # ed.i
    BY <1>5, <2>1, <2>2, <2>3
  <2>5. n[2] \in Chans
    BY <2>4 DEF Notes
  <2>6. CASE EditorOwes(n)
    <3>1. ed.i + 1 <= n[2] /\ ed.i < NChans
      BY <2>1, <2>4, <2>5, <2>6, OffsAssumption DEF EditorOwes, Chans
    <3>2. ed' = [ed EXCEPT !.i = ed.i + 1]
      BY <1>11, <3>1 DEF SendAllOff
    <3>3. ed'.pc = "cc" /\ ed'.i = ed.i + 1
      BY <1>4, <2>1, <3>2 DEF EditorTyped
    <3>4. EditorOwes(n)'
      BY <3>1, <3>3 DEF EditorOwes
    <3>5. QED
      BY <1>1, <2>1, <2>4, <3>4 DEF Owed, Booking
  <2>7. CASE ~EditorOwes(n)
    BY <1>1, <2>1, <2>4, <2>7, Unswept
  <2>8. QED
    BY <2>6, <2>7
<1>12. QED
    BY <1>7, <1>8, <1>9, <1>10, <1>11 DEF EditorStep, Command

\* What midi_task takes off the queue, the instrument has heard.
LEMMA DeliverOwed ==
    ASSUME OffsTyped, OwedInv, Deliver PROVE OwedInv'
<1>1. SUFFICES ASSUME Quiet', NEW n \in AfterDrain(sounding, queue)' PROVE Owed(n)'
    BY DEF OwedInv, Owed
<1>2. /\ Quiet /\ destOn = TRUE /\ offs' = offs /\ ticking' = ticking /\ ed' = ed
      /\ queue \in Seq(Events) /\ queue # <<>>
      /\ queue' = Tail(queue) /\ sounding' = Heard(sounding, Head(queue))
    BY <1>1, DeliverTyped DEF Deliver, OffsTyped, taskVars
<1>3. PICK S, q : S = sounding /\ q = queue
    OBVIOUS
<1>4. n \in AfterDrain(Heard(S, Head(q)), Tail(q)) /\ q \in Seq(Events) /\ q # <<>>
    BY <1>1, <1>2, <1>3
<1>5. n \in AfterDrain(S, q)
    BY <1>4, AfterTheFirst
<1>6. Owed(n)
    BY <1>2, <1>3, <1>5 DEF OwedInv, Owed
<1>7. QED
    BY <1>2, <1>6 DEF Owed, InTheTable, ClockOwes, EditorOwes, Booking, Claimed

\* Nothing of what is owed depends on when an entry falls due.
LEMMA StillOwed ==
    ASSUME OwedInv, ticking' = ticking, ed' = ed, UNCHANGED <<queue, held, sounding, intact>>,
           OffsTyped, \A j \in Slots : offs'[j].armed = offs[j].armed /\ offs'[j].note = offs[j].note
    PROVE  OwedInv'
<1>1. SUFFICES ASSUME Quiet', NEW n \in AfterDrain(sounding, queue)' PROVE Owed(n)'
    BY DEF OwedInv, Owed
<1>2. Quiet /\ n \in AfterDrain(sounding, queue)
    BY <1>1 DEF Quiet, Free
<1>3. Owed(n)
    BY <1>2 DEF OwedInv, Owed
<1>4. ticking.pc \in {"serveEmit", "take"} => ticking.i \in Slots
    BY DEF OffsTyped, ClockTyped
<1>5. QED
    BY <1>3, <1>4 DEF Owed, InTheTable, ClockOwes, EditorOwes, Booking, Claimed

LEMMA OwedAtFirst == OffsInit => OffsTyped /\ OwedInv
<1>1. SUFFICES ASSUME OffsInit PROVE OffsTyped /\ OwedInv
    OBVIOUS
<1> USE <1>1, OffsAssumption DEF OffsInit
<1>2. TableTyped /\ EditorTyped /\ ClockTyped
  <2>1. TableTyped
    BY DEF TableTyped
  <2>2. EditorTyped
    BY DEF EditorTyped
  <2>3. ClockTyped
    <3>1. 1 \in 1..(NOffs + 1)
      OBVIOUS
    <3>2. QED
      BY <3>1 DEF ClockTyped
  <2>4. QED
    BY <2>1, <2>2, <2>3
<1>3. HeldTyped
  <2>1. <<>> \in Seq(Events)
    OBVIOUS
  <2>2. NotHeld \in [stage : {"free", "drop", "back"}, ev : Events, keep : Seq(Events)]
    BY <2>1, EventsTyped DEF NotHeld
  <2>3. QED
    BY <2>2 DEF HeldTyped
<1>4. OffsTyped
  <2>1. 1 \in Chans
    BY DEF Chans
  <2>2. queue \in Seq(Events) /\ sounding \subseteq Notes
    OBVIOUS
  <2>3. chan \in [Lanes -> Chans] /\ destOn \in BOOLEAN /\ intact \in BOOLEAN
    BY <2>1
  <2>4. QED
    BY <1>2, <1>3, <2>2, <2>3 DEF OffsTyped
<1>5. OwedInv
    BY DEF OwedInv, AfterDrain
<1>6. QED
    BY <1>4, <1>5

LEMMA OwedKept == OffsTyped /\ OwedInv /\ [OffsNext]_offsVars => OffsTyped' /\ OwedInv'
<1>1. SUFFICES ASSUME OffsTyped, OwedInv, [OffsNext]_offsVars PROVE OffsTyped' /\ OwedInv'
    OBVIOUS
<1>2. CASE ClockStep
    BY <1>1, <1>2, TypedKept, ClockOwed DEF OffsNext, OwedInv, Owed
<1>3. CASE EditorStep \/ Command
    BY <1>1, <1>3, TypedKept, EditorOwed DEF OffsNext, OwedInv, Owed
<1>4. CASE Deliver
    BY <1>1, <1>4, DeliverTyped, DeliverOwed
<1>5. ASSUME NEW p \in Producers, EmitStep(p) PROVE OffsTyped' /\ OwedInv'
    BY <1>1, <1>5, TypedKept, EmitStepTyped DEF OffsNext, OwedInv, Quiet
<1>6. ASSUME NEW i \in Slots, TimePasses(i) PROVE OffsTyped' /\ OwedInv'
    BY <1>1, <1>6, DueTyped, StillOwed DEF emitVars, destVars
<1>7. CASE UNCHANGED offsVars
  <2>1. UNCHANGED <<offs, chan, queue, held, ticking, ed, destOn, sounding, intact>>
    BY <1>7 DEF offsVars
  <2>2. OffsTyped'
    BY <1>1, <2>1 DEF OffsTyped, TableTyped, HeldTyped, ClockTyped, EditorTyped
  <2>3. QED
    BY <1>1, <2>1, <2>2, StillOwed
<1>8. QED
    BY <1>1, <1>2, <1>3, <1>4, <1>5, <1>6, <1>7 DEF OffsNext

LEMMA OwedIsEnough == OffsTyped /\ OwedInv => StuckOnlyByLoss
<1>1. SUFFICES ASSUME OffsTyped, OwedInv, intact, \A p \in Producers : Free(p),
                      NEW n \in AfterDrain(sounding, queue)
               PROVE  OffIsOwed(n)
    BY DEF StuckOnlyByLoss
<1>2. intact = TRUE
  <2>1. intact \in BOOLEAN
    BY <1>1 DEF OffsTyped
  <2>2. QED
    BY <1>1, <2>1
<1>3. InTheTable(n) \/ ClockOwes(n) \/ EditorOwes(n)
    BY <1>1, <1>2 DEF OwedInv, Quiet
<1>4. CASE InTheTable(n)
  <2>1. PICK i \in Slots : offs[i].armed = TRUE /\ offs[i].note = n
    BY <1>4 DEF InTheTable
  <2>2. QED
    BY <2>1 DEF OffIsOwed
<1>5. QED
    BY <1>3, <1>4 DEF ClockOwes, EditorOwes, OffIsOwed

(* Whatever the lanes, channels, entries and depth of the queue, however    *)
(* the tick, the commands, midi_task and a full queue interleave: a note    *)
(* is left without its off only after an event was dropped, went to a       *)
(* destination that was off, or was of a lane rebound before its booking    *)
(* (schedule_off, service_offs, seq_all_notes_off, midi_task).              *)
THEOREM StuckOnlyByWhatIsLost == OffsSpec => []StuckOnlyByLoss
<1>1. OffsTyped /\ OwedInv /\ [OffsNext]_offsVars => (OffsTyped /\ OwedInv)'
    BY OwedKept
<1>2. QED
    BY <1>1, OwedAtFirst, OwedIsEnough, PTL DEF OffsSpec
=============================================================================
