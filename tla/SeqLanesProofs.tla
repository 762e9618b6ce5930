--------------------------- MODULE SeqLanesProofs ---------------------------
(***************************************************************************)
(* For any number of lanes, any patterns and any history of edits: a tick  *)
(* plays whole patterns, a lane that follows another plays on the same     *)
(* tick, and a lane that counts plays exactly what it was asked for.       *)
(*                                                                         *)
(*   WholeInv  what a lane and the stage hold between two stores           *)
(*   RanksInv  a lane ranks above the one it follows, unless a command is  *)
(*             between a route and its rerank(), or they go in a circle    *)
(*   TickInv   what has played was visited; what follows it has played, or *)
(*             is told to and has its visit before it                      *)
(*   CountInv  what a lane has played since it began, plus where it began, *)
(*             is the slots there were before the tick it has come to      *)
(*                                                                         *)
(* Ranks are a recursive function's values.  What it computes is shown by  *)
(* the least number at which it would not be so (LeastOne, AllNumbers).    *)
(***************************************************************************)
EXTENDS SeqLanes, TLAPS, WellFoundedInduction

ClockSteps == {"off", "taking", "begin", "look", "play"}
EditorSteps == {"idle", "write", "sourced", "fill", "fillOne", "handed", "handedOne",
                "unmute", "release", "rank", "clear", "untrig", "reroute", "play"}

\* The parts of the state the argument needs, and their types.
Shape ==
    /\ lane \in [Slots -> Lane]
    /\ stage \in [ev : AllPats, pat : AllPats]
    /\ stageFor \in Slots \cup {None}
    /\ clk \in [pc : ClockSteps, i : Slots, pos : Nat, at : Nat,
                pat : AllPats, side : BOOLEAN]
    /\ ed \in [pc : EditorSteps, i : Slots, p : AllPats]
    /\ tick \in Nat

\* While the stage is handed over the editor waits, and both words are there.
StageWhole ==
    stageFor # None => /\ stage.ev = stage.pat
                       /\ ed.pc \in {"handed", "handedOne"}

\* Between its two stores the editor has the stage to itself.
StageBegun ==
    ed.pc \in {"fill", "fillOne"} => stageFor = None /\ stage.ev = ed.p

\* Between the clock's two stores only that lane's events are new.
TakingBegun ==
    clk.pc = "taking" => stageFor = clk.i /\ lane[clk.i].ev = stage.ev

\* A lane with a pattern to play has its events, unless the clock is at it.
LanesWhole ==
    \A i \in Slots :
        \/ lane[i].ev = lane[i].pat
        \/ lane[i].pat = Blank
        \/ clk.pc = "taking" /\ i = clk.i

\* What was found in turn is still there when it is played, or nothing is.
PlayWhole ==
    clk.pc = "play" /\ ~clk.side => lane[Here].ev \in {clk.pat, Blank}

WholeInv == /\ Shape /\ StageWhole /\ StageBegun /\ TakingBegun
            /\ LanesWhole /\ PlayWhole /\ PatternWhole

\* What every step but the two of the clock's copy does to the lanes' patterns.
PatternsKept ==
    \A i \in Slots :
        \/ lane'[i].ev = lane[i].ev /\ lane'[i].pat \in {lane[i].pat, Blank}
        \/ lane'[i].ev = Blank /\ lane'[i].pat = Blank
----------------------------------------------------------------------------
LEMMA BlankTyped == Blank \in AllPats /\ OneHit \in AllPats
    BY DEF AllPats

LEMMA HereTyped ==
    ASSUME clk.pos \in Nat PROVE Here \in Slots
    BY LanesAssumption DEF Here, Slots

LEMMA FirstSlot == 1 \in Slots
    BY LanesAssumption DEF Slots

LEMMA RatePositive ==
    ASSUME NEW p \in AllPats PROVE p.rate \in Nat \ {0}
    BY LanesAssumption DEF AllPats, Pattern, Blank, OneHit

LEMMA FreshTyped ==
    ASSUME NEW n \in Names \cup {NoName}
    PROVE /\ Fresh(n) \in Lane
          /\ Fresh(n).ev = Blank /\ Fresh(n).pat = Blank
    BY BlankTyped DEF Fresh, Lane, NoRoute

LEMMA InitWhole == Init => WholeInv
<1> SUFFICES ASSUME Init PROVE WholeInv
    OBVIOUS
<1> USE DEF Init, Nothing
<1>1. 1 \in Slots
    BY FirstSlot
<1>2. Unused \in Lane
    BY BlankTyped DEF Unused, Fresh, Lane, NoRoute
<1>3. Shape
  <2>1. lane \in [Slots -> Lane]
    BY <1>2
  <2>2. stage \in [ev : AllPats, pat : AllPats] /\ stageFor = None
    BY BlankTyped
  <2>3. clk \in [pc : ClockSteps, i : Slots, pos : Nat, at : Nat,
                pat : AllPats, side : BOOLEAN]
    BY <1>1, BlankTyped DEF ClockSteps, EditorSteps
  <2>4. ed \in [pc : EditorSteps, i : Slots, p : AllPats] /\ tick \in Nat
    BY <1>1, BlankTyped DEF ClockSteps, EditorSteps
  <2>5. QED
    BY <2>1, <2>2, <2>3, <2>4 DEF Shape
<1>4. LanesWhole
    BY DEF LanesWhole, Unused, Fresh
<1>5. QED
    BY <1>3, <1>4 DEF WholeInv, StageWhole, StageBegun, TakingBegun, PlayWhole,
                      PatternWhole

\* While the clock copies the stage the editor waits for it.
LEMMA EditorWaits ==
    ASSUME WholeInv, Editor PROVE clk.pc # "taking"
<1>1. SUFFICES ASSUME clk.pc = "taking" PROVE FALSE
    OBVIOUS
<1>2. stageFor \in Slots /\ stageFor # None
    BY <1>1 DEF WholeInv, TakingBegun, Shape, Slots, None
<1>3. ed.pc \in {"handed", "handedOne"} /\ ~StageFree
    BY <1>2 DEF WholeInv, StageWhole, StageFree
<1>4. QED
    BY <1>3 DEF Editor, WriteLane, Route, Mute, Forget, RouteToItself, Command, Idle,
                FillEvents, FillRest, LaneWritten, Unmute, Continue, Release, Forgotten,
                NewDocument, ClearLane, Untrig, RouteDone, Play, FromTheTop, Stop

\* An editor's step that keeps the patterns keeps what the clock relies on.
LEMMA EditorStep ==
    ASSUME WholeInv, clk.pc # "taking", UNCHANGED <<clk, played>>,
           Shape', PatternsKept, StageWhole', StageBegun'
    PROVE WholeInv'
<1>1. Here' = Here /\ Here \in Slots
    BY HereTyped DEF Here, WholeInv, Shape
<1>2. TakingBegun'
    BY DEF TakingBegun
<1>3. LanesWhole'
    BY DEF LanesWhole, PatternsKept, WholeInv
<1>4. PlayWhole'
    BY <1>1 DEF PlayWhole, PatternsKept, WholeInv
<1>5. PatternWhole'
    BY DEF PatternWhole, WholeInv
<1>6. QED
    BY <1>2, <1>3, <1>4, <1>5 DEF WholeInv

\* A clock's step that keeps the patterns and does not touch the stage.
LEMMA ClockStep ==
    ASSUME WholeInv, clk.pc # "taking", clk'.pc # "taking",
           UNCHANGED <<ed, stage, stageFor>>,
           Shape', PatternsKept, PlayWhole', PatternWhole'
    PROVE WholeInv'
<1>1. StageWhole' /\ StageBegun'
    BY DEF StageWhole, StageBegun, WholeInv
<1>2. TakingBegun'
    BY DEF TakingBegun
<1>3. LanesWhole'
    BY DEF LanesWhole, PatternsKept, WholeInv
<1>4. QED
    BY <1>1, <1>2, <1>3 DEF WholeInv
----------------------------------------------------------------------------
(* The editor's steps.                                                     *)

\* A command that is not about the stage runs when nothing waits there.
LEMMA StageLeft ==
    ASSUME WholeInv, UNCHANGED stageVars, stageFor = None,
           ed'.pc \notin {"fill", "fillOne"}
    PROVE StageWhole' /\ StageBegun'
    BY DEF stageVars, StageWhole, StageBegun

LEMMA NothingWaits ==
    ASSUME WholeInv, ed.pc \notin {"handed", "handedOne"} PROVE stageFor = None
    BY DEF WholeInv, StageWhole

\* A command that writes one lane, and what it may write there.
LEMMA OneLane ==
    ASSUME WholeInv, NEW i \in Slots, NEW l \in Lane,
           lane' = [lane EXCEPT ![i] = l],
           \/ l.ev = lane[i].ev /\ l.pat \in {lane[i].pat, Blank}
           \/ l.ev = Blank /\ l.pat = Blank
    PROVE  lane' \in [Slots -> Lane] /\ PatternsKept
    BY DEF WholeInv, Shape, PatternsKept

LEMMA LanesLeft ==
    ASSUME WholeInv, lane' = lane
    PROVE  lane' \in [Slots -> Lane] /\ PatternsKept
    BY DEF WholeInv, Shape, PatternsKept

\* find() hands out the lane of that name, or a slot with nothing in it.
LEMMA OpenedTyped ==
    ASSUME WholeInv, NEW n \in Names, NEW i \in Target(n)
    PROVE  /\ i \in Slots /\ Opened(i, n) \in Lane
           /\ \/ Opened(i, n).ev = lane[i].ev /\ Opened(i, n).pat = lane[i].pat
              \/ Opened(i, n).ev = Blank /\ Opened(i, n).pat = Blank
<1>1. i \in Slots
    BY DEF Target, Find, Free
<1>2. lane[i] \in Lane
    BY <1>1 DEF WholeInv, Shape
<1>3. QED
    BY <1>1, <1>2, FreshTyped DEF Opened

\* What is left to show of a step of the editor that does not write the stage.
EditorAt == [pc : EditorSteps, i : Slots, p : AllPats]

LEMMA StageUntouched ==
    ASSUME WholeInv, Editor, ed.pc \notin {"handed", "handedOne"} \/ StageFree,
           lane' \in [Slots -> Lane], PatternsKept,
           ed' \in EditorAt, ed'.pc \notin {"fill", "fillOne"},
           UNCHANGED <<stageVars, clk, played>>, tick' \in Nat
    PROVE  WholeInv'
<1>1. stageFor = None
    BY NothingWaits DEF StageFree
<1>2. StageWhole' /\ StageBegun'
    BY <1>1, StageLeft
<1>3. Shape'
    BY DEF WholeInv, Shape, stageVars, EditorAt
<1>4. clk.pc # "taking"
    BY EditorWaits
<1>5. QED
    BY <1>2, <1>3, <1>4, EditorStep

LEMMA WriteLaneKeeps ==
    ASSUME WholeInv, Editor, NEW n \in Names, NEW p \in Pats, WriteLane(n, p)
    PROVE  WholeInv'
<1>1. PICK i \in Target(n) : /\ lane' = [lane EXCEPT ![i] = Opened(i, n)]
                             /\ Goto("write", i, p)
    BY DEF WriteLane
<1>2. UNCHANGED <<stageVars, clk, played, tick>> /\ Idle
    BY DEF WriteLane, editUnchanged, seenVars, Command
<1>3. i \in Slots /\ lane' \in [Slots -> Lane] /\ PatternsKept
    BY <1>1, OpenedTyped, OneLane
<1>4. ed' \in EditorAt /\ ed'.pc = "write"
    BY <1>1, <1>3 DEF Goto, EditorSteps, AllPats, EditorAt
<1>5. QED
    BY <1>2, <1>3, <1>4, StageUntouched DEF Idle, WholeInv, Shape

LEMMA RouteKeeps ==
    ASSUME WholeInv, Editor, NEW n \in Names, NEW s \in Sources \cup {NoRoute},
           Route(n, s)
    PROVE  WholeInv'
<1>1. PICK i \in Target(n) :
          /\ lane' = [lane EXCEPT ![i] = [Opened(i, n) EXCEPT !.route = s]]
          /\ Goto("untrig", i, Blank)
    BY DEF Route
<1>2. UNCHANGED <<stageVars, clk, played, tick>> /\ Idle
    BY DEF Route, editUnchanged, seenVars, Command
<1>3. i \in Slots /\ lane' \in [Slots -> Lane] /\ PatternsKept
  <2>1. i \in Slots /\ [Opened(i, n) EXCEPT !.route = s] \in Lane
    BY <1>1, OpenedTyped DEF Lane
  <2>2. /\ [Opened(i, n) EXCEPT !.route = s].ev = Opened(i, n).ev
        /\ [Opened(i, n) EXCEPT !.route = s].pat = Opened(i, n).pat
    BY <1>1, OpenedTyped DEF Lane
  <2>3. QED
    BY <1>1, <2>1, <2>2, OpenedTyped, OneLane
<1>4. ed' \in EditorAt /\ ed'.pc = "untrig"
    BY <1>1, <1>3, BlankTyped DEF Goto, EditorSteps, EditorAt
<1>5. QED
    BY <1>2, <1>3, <1>4, StageUntouched DEF Idle, WholeInv, Shape

LEMMA RouteToItselfKeeps ==
    ASSUME WholeInv, Editor, NEW n \in Names, RouteToItself(n) PROVE WholeInv'
<1>1. PICK i \in Target(n) : lane' = [lane EXCEPT ![i] = Fresh(n)]
    BY DEF RouteToItself
<1>2. UNCHANGED <<stageVars, clk, played, tick, ed>> /\ Idle
    BY DEF RouteToItself, editUnchanged, seenVars, Command
<1>3. lane' \in [Slots -> Lane] /\ PatternsKept
    BY <1>1, OpenedTyped, FreshTyped, OneLane
<1>4. QED
    BY <1>2, <1>3, StageUntouched DEF Idle, WholeInv, Shape, EditorAt

LEMMA MuteKeeps ==
    ASSUME WholeInv, Editor, NEW n \in Names, NEW b \in BOOLEAN, Mute(n, b)
    PROVE  WholeInv'
<1>1. PICK i \in Find(n) : lane' = [lane EXCEPT ![i].muted = b]
    BY DEF Mute
<1>2. UNCHANGED <<stageVars, clk, played, tick, ed>> /\ Idle
    BY DEF Mute, editUnchanged, seenVars, Command
<1>3. lane' \in [Slots -> Lane] /\ PatternsKept
    BY <1>1 DEF Find, WholeInv, Shape, Lane, PatternsKept
<1>4. QED
    BY <1>2, <1>3, StageUntouched DEF Idle, WholeInv, Shape, EditorAt

LEMMA ForgetKeeps ==
    ASSUME WholeInv, Editor, NEW n \in Names, Forget(n) PROVE WholeInv'
<1>1. PICK i \in Find(n) : /\ lane' = [lane EXCEPT ![i].pat = Blank]
                           /\ Goto("release", i, Blank)
    BY DEF Forget
<1>2. UNCHANGED <<stageVars, clk, played, tick>> /\ Idle
    BY DEF Forget, editUnchanged, seenVars, Command
<1>3. i \in Slots /\ lane' \in [Slots -> Lane] /\ PatternsKept
    BY <1>1, BlankTyped DEF Find, WholeInv, Shape, Lane, PatternsKept
<1>4. ed' \in EditorAt /\ ed'.pc = "release"
    BY <1>1, <1>3, BlankTyped DEF Goto, EditorSteps, EditorAt
<1>5. QED
    BY <1>2, <1>3, <1>4, StageUntouched DEF Idle, WholeInv, Shape

LEMMA MuteTyped ==
    ASSUME NEW l \in Lane
    PROVE  /\ Released(l) \in Lane /\ Rearmed(l) \in Lane
           /\ Released(l).ev = l.ev /\ Released(l).pat = Blank
           /\ Rearmed(l).ev = l.ev /\ Rearmed(l).pat = l.pat
    BY BlankTyped DEF Released, Rearmed, Lane, NoRoute

\* The steps that go on with a command and leave the lanes alone, or only the
\* one that the command is about.
LEMMA ContinueKeeps ==
    ASSUME WholeInv, Editor,
           \/ LaneWritten \/ Unmute \/ Release \/ Forgotten
           \/ NewDocument \/ ClearLane \/ Untrig \/ RouteDone
    PROVE  WholeInv'
<1>1. /\ UNCHANGED <<stageVars, clk, played, tick>>
      /\ ed.pc \notin {"handed", "handedOne"} \/ StageFree
    BY DEF LaneWritten, Unmute, Release, Forgotten, NewDocument, ClearLane, Untrig,
           RouteDone, Continue, Rerank, Command, Idle, editUnchanged, seenVars
<1>2. ed' \in EditorAt /\ ed'.pc \notin {"fill", "fillOne"}
  <2>1. ed.i \in Slots /\ ed.p \in AllPats /\ 1 \in Slots
    BY FirstSlot DEF WholeInv, Shape
  <2>2. CASE LaneWritten \/ Forgotten
    BY <2>1, <2>2 DEF LaneWritten, Forgotten, Rerank, Goto, EditorAt, EditorSteps
  <2>3. CASE Unmute \/ Release \/ Untrig
    BY <2>1, <2>3, BlankTyped DEF Unmute, Release, Untrig, Goto, EditorAt, EditorSteps
  <2>4. CASE RouteDone \/ NewDocument
    BY <2>1, <2>4, BlankTyped DEF RouteDone, NewDocument, Goto, EditorAt, EditorSteps
  <2>5. CASE ClearLane
    <3>1. ed.i # MaxLanes => ed.i + 1 \in Slots
      BY <2>1, LanesAssumption DEF Slots
    <3>2. QED
      BY <2>1, <2>5, <3>1, BlankTyped DEF ClearLane, Goto, EditorAt, EditorSteps
  <2>6. QED
    BY <2>2, <2>3, <2>4, <2>5
<1>3. lane' \in [Slots -> Lane] /\ PatternsKept
  <2>1. ed.i \in Slots /\ lane[ed.i] \in Lane
    BY DEF WholeInv, Shape
  <2>2. CASE LaneWritten \/ Forgotten \/ NewDocument \/ RouteDone
    BY <2>2, LanesLeft DEF LaneWritten, Forgotten, Rerank, NewDocument, RouteDone
  <2>3. CASE Unmute
    BY <2>1, <2>3 DEF Unmute, WholeInv, Shape, Lane, PatternsKept
  <2>4. CASE Release \/ ClearLane
    BY <2>1, <2>4, MuteTyped, OneLane DEF Release, ClearLane
  <2>5. CASE Untrig
    BY <2>1, <2>5 DEF Untrig, WholeInv, Shape, Lane, PatternsKept
  <2>6. QED
    BY <2>2, <2>3, <2>4, <2>5
<1>4. QED
    BY <1>1, <1>2, <1>3, StageUntouched DEF WholeInv, Shape

LEMMA TransportKeeps ==
    ASSUME WholeInv, Editor, Play \/ FromTheTop \/ Stop PROVE WholeInv'
<1>1. UNCHANGED <<stageVars, clk, played>> /\ ed.pc \notin {"handed", "handedOne"}
    BY DEF Play, FromTheTop, Stop, Command, Continue, Idle, editUnchanged, seenVars,
           editVars, clockVars
<1>2. tick' \in Nat
    BY DEF Play, FromTheTop, Stop, editUnchanged, clockVars, WholeInv, Shape
<1>3. ed' \in EditorAt /\ ed'.pc \notin {"fill", "fillOne"}
  <2>1. ed \in EditorAt
    BY DEF WholeInv, Shape, EditorAt
  <2>2. CASE Play \/ FromTheTop
    BY <2>1, <2>2, BlankTyped, FirstSlot DEF Play, FromTheTop, Goto, EditorAt, EditorSteps
  <2>3. CASE Stop
    BY <2>1, <2>3 DEF Stop, Idle, editVars
  <2>4. QED
    BY <2>2, <2>3
<1>4. lane' \in [Slots -> Lane] /\ PatternsKept
  <2>1. CASE Play
    <3>1. \A i \in Slots : lane[i] \in Lane
      BY DEF WholeInv, Shape
    <3>2. lane' = [i \in Slots |-> Rearmed(lane[i])]
      BY <2>1 DEF Play
    <3>3. QED
      BY <3>1, <3>2, MuteTyped DEF PatternsKept
  <2>2. CASE FromTheTop \/ Stop
    BY <2>2, LanesLeft DEF FromTheTop, Stop
  <2>3. QED
    BY <2>1, <2>2
<1>5. QED
    BY <1>1, <1>2, <1>3, <1>4, StageUntouched

\* The two stores of the stage: nobody reads between them.
LEMMA FillKeeps ==
    ASSUME WholeInv, Editor, FillEvents \/ FillRest PROVE WholeInv'
<1>1. /\ UNCHANGED <<lane, clk, played, tick>> /\ stageFor = None
      /\ ed.i \in Slots /\ ed.p \in AllPats
    BY DEF FillEvents, FillRest, StageFree, editUnchanged, seenVars, WholeInv, StageBegun,
           Shape
<1>2. clk.pc # "taking"
    BY EditorWaits
<1>3. PatternsKept /\ lane' \in [Slots -> Lane]
    BY <1>1, LanesLeft
<1>4. CASE FillEvents
  <2>1. ed' \in EditorAt
    BY <1>1, <1>4 DEF FillEvents, Goto, EditorAt, EditorSteps
  <2>2. stage' \in [ev : AllPats, pat : AllPats] /\ stageFor' = None
    BY <1>1, <1>4 DEF FillEvents, WholeInv, Shape
  <2>3. Shape'
    BY <1>1, <2>1, <2>2, <1>3 DEF WholeInv, Shape, EditorAt
  <2>4. StageWhole' /\ StageBegun'
    BY <1>1, <1>4, <2>2 DEF FillEvents, Goto, StageWhole, StageBegun, WholeInv, Shape
  <2>5. QED
    BY <1>1, <1>2, <1>3, <2>3, <2>4, EditorStep
<1>5. CASE FillRest
  <2>1. ed' \in EditorAt /\ ed'.pc \in {"handed", "handedOne"}
    BY <1>1, <1>5 DEF FillRest, Goto, EditorAt, EditorSteps
  <2>2. stage' \in [ev : AllPats, pat : AllPats] /\ stageFor' \in Slots
    BY <1>1, <1>5 DEF FillRest, WholeInv, Shape
  <2>3. Shape'
    BY <1>1, <2>1, <2>2, <1>3 DEF WholeInv, Shape, EditorAt
  <2>4. stage'.ev = stage'.pat
    BY <1>5 DEF FillRest, WholeInv, StageBegun, Shape
  <2>5. StageWhole' /\ StageBegun'
    BY <2>1, <2>4 DEF StageWhole, StageBegun
  <2>6. QED
    BY <1>1, <1>2, <1>3, <2>3, <2>5, EditorStep
<1>6. QED
    BY <1>4, <1>5

LEMMA EditorKeeps == ASSUME WholeInv, Editor PROVE WholeInv'
    BY WriteLaneKeeps, RouteKeeps, RouteToItselfKeeps, MuteKeeps, ForgetKeeps,
       ContinueKeeps, TransportKeeps, FillKeeps DEF Editor
----------------------------------------------------------------------------
(* The clock's steps.                                                      *)

ClockAt == [pc : ClockSteps, i : Slots, pos : Nat, at : Nat,
            pat : AllPats, side : BOOLEAN]

\* What is left to show of a step of the clock that neither takes nor plays.
LEMMA ClockGoesOn ==
    ASSUME WholeInv, clk.pc # "taking", UNCHANGED <<ed, stage, stageFor>>,
           played' \in {played, Nothing},
           lane' \in [Slots -> Lane], PatternsKept, tick' \in Nat,
           clk' \in ClockAt, clk'.pc \notin {"taking", "play"}
    PROVE  WholeInv'
<1>1. Shape'
    BY DEF WholeInv, Shape, ClockAt
<1>2. PlayWhole' /\ PatternWhole'
    BY DEF PlayWhole, PatternWhole, WholeInv, Nothing
<1>3. QED
    BY <1>1, <1>2, ClockStep

\* The pattern of a lane in turn is whole, and is what is played.
LEMMA ClockFires ==
    ASSUME WholeInv, clk.pc = "look", UNCHANGED <<ed, stage, stageFor, played, tick>>,
           NEW l \in Lane, l.ev = lane[Here].ev, l.pat = lane[Here].pat,
           l.pat.slots # 0, NEW side \in BOOLEAN, FireWith(l, side)
    PROVE  WholeInv'
<1>1. Here \in Slots /\ Here' = Here
    BY HereTyped DEF WholeInv, Shape, FireWith, Here
<1>2. lane' \in [Slots -> Lane] /\ PatternsKept
    BY <1>1, OneLane DEF FireWith
<1>3. clk' \in ClockAt /\ clk'.pc = "play" /\ clk'.pat = l.pat
    BY DEF FireWith, WholeInv, Shape, ClockAt, ClockSteps, Lane
<1>4. Shape'
    BY <1>2, <1>3 DEF WholeInv, Shape, ClockAt
<1>5. l.ev = l.pat
    BY <1>1 DEF WholeInv, LanesWhole, Blank
<1>6. lane'[Here] = l
    BY <1>1 DEF FireWith, WholeInv, Shape
<1>7. PlayWhole' /\ PatternWhole'
    BY <1>1, <1>3, <1>5, <1>6 DEF PlayWhole, PatternWhole, WholeInv
<1>8. QED
    BY <1>2, <1>3, <1>4, <1>7, ClockStep

LEMMA CountingTyped ==
    ASSUME WholeInv, NEW l \in Lane
    PROVE  /\ Counting(l) \in Lane
           /\ Counting(l).ev = l.ev /\ Counting(l).pat = l.pat
<1>1. Slot(l.pat) \in Nat
  <2>1. clk.at \in Nat /\ l.pat \in AllPats
    BY DEF WholeInv, Shape, Lane
  <2>2. l.pat.rate \in Nat \ {0}
    BY <2>1, RatePositive
  <2>3. QED
    BY <2>1, <2>2 DEF Slot
<1>2. QED
    BY <1>1 DEF Counting, Lane

LEMMA ToldTyped ==
    ASSUME NEW ls \in [Slots -> Lane], NEW s
    PROVE  /\ Told(ls, s) \in [Slots -> Lane]
           /\ \A i \in Slots : /\ Told(ls, s)[i].ev = ls[i].ev
                               /\ Told(ls, s)[i].pat = ls[i].pat
<1>1. \A i \in Slots : /\ [ls[i] EXCEPT !.trig = TRUE] \in Lane
                       /\ [ls[i] EXCEPT !.trig = TRUE].ev = ls[i].ev
                       /\ [ls[i] EXCEPT !.trig = TRUE].pat = ls[i].pat
    BY DEF Lane
<1>2. QED
    BY <1>1 DEF Told

LEMMA TakeKeeps == ASSUME WholeInv, TakeEvents \/ TakeRest PROVE WholeInv'
<1>1. CASE TakeEvents
  <2>1. /\ stageFor \in Slots /\ stage.ev \in AllPats /\ stage.ev = stage.pat
        /\ ed.pc \in {"handed", "handedOne"}
    BY <1>1 DEF TakeEvents, WholeInv, Shape, StageWhole
  <2>2. UNCHANGED <<ed, stage, stageFor, played, tick>>
    BY <1>1 DEF TakeEvents, editVars, stageVars, seenVars
  <2>3. lane' = [lane EXCEPT ![stageFor].ev = stage.ev] /\ lane' \in [Slots -> Lane]
    BY <1>1, <2>1 DEF TakeEvents, WholeInv, Shape, Lane
  <2>4. clk' \in ClockAt /\ clk'.pc = "taking" /\ clk'.i = stageFor
    BY <1>1, <2>1 DEF TakeEvents, WholeInv, Shape, ClockAt, ClockSteps
  <2>5. Shape'
    BY <2>2, <2>3, <2>4 DEF WholeInv, Shape, ClockAt
  <2>6. StageWhole' /\ StageBegun'
    BY <2>2 DEF StageWhole, StageBegun, WholeInv
  <2>7. TakingBegun'
    BY <2>1, <2>2, <2>3, <2>4 DEF TakingBegun, WholeInv, Shape, Lane
  <2>8. LanesWhole'
    <3>1. ASSUME NEW i \in Slots, i # stageFor PROVE lane'[i] = lane[i]
      BY <2>1, <2>3, <3>1 DEF WholeInv, Shape
    <3>2. clk.pc # "taking"
      BY <1>1 DEF TakeEvents
    <3>3. QED
      BY <2>4, <3>1, <3>2 DEF LanesWhole, WholeInv
  <2>9. PlayWhole' /\ PatternWhole'
    BY <2>2, <2>4 DEF PlayWhole, PatternWhole, WholeInv
  <2>10. QED
    BY <2>5, <2>6, <2>7, <2>8, <2>9 DEF WholeInv
<1>2. CASE TakeRest
  <2>1. /\ clk.pc = "taking" /\ clk.i \in Slots /\ stageFor = clk.i /\ stageFor # None
        /\ lane[clk.i].ev = stage.ev /\ stage.ev = stage.pat /\ stage.pat \in AllPats
        /\ ed.pc \in {"handed", "handedOne"}
    BY <1>2 DEF TakeRest, WholeInv, Shape, TakingBegun, StageWhole, Slots, None
  <2>2. UNCHANGED <<ed, stage, played, tick>> /\ stageFor' = None
    BY <1>2 DEF TakeRest, editVars, seenVars
  <2>3. /\ lane' = [lane EXCEPT ![clk.i].pat = stage.pat, ![clk.i].idle = TRUE,
                                ![clk.i].done = FALSE]
        /\ lane' \in [Slots -> Lane]
    BY <1>2, <2>1 DEF TakeRest, WholeInv, Shape, Lane
  <2>4. clk' \in ClockAt /\ clk'.pc = "begin"
    BY <1>2, FirstSlot DEF TakeRest, WholeInv, Shape, ClockAt, ClockSteps
  <2>5. Shape'
    BY <2>2, <2>3, <2>4 DEF WholeInv, Shape, ClockAt
  <2>6. StageWhole' /\ StageBegun' /\ TakingBegun'
    BY <2>1, <2>2, <2>4 DEF StageWhole, StageBegun, TakingBegun
  <2>7. LanesWhole'
    <3>1. lane'[clk.i].ev = lane'[clk.i].pat
      BY <2>1, <2>3 DEF WholeInv, Shape, Lane
    <3>2. ASSUME NEW i \in Slots, i # clk.i PROVE lane'[i] = lane[i]
      BY <2>1, <2>3, <3>2 DEF WholeInv, Shape
    <3>3. QED
      BY <3>1, <3>2 DEF LanesWhole, WholeInv
  <2>8. PlayWhole' /\ PatternWhole'
    BY <2>2, <2>4 DEF PlayWhole, PatternWhole, WholeInv
  <2>9. QED
    BY <2>5, <2>6, <2>7, <2>8 DEF WholeInv
<1>3. QED
    BY <1>1, <1>2

\* Beginning, ending, and passing a lane over.
LEMMA RestKeeps ==
    ASSUME WholeInv, NothingStaged \/ RestTick \/ BeginTick \/ EndTick PROVE WholeInv'
<1>1. UNCHANGED <<ed, stage, stageFor>> /\ clk.pc # "taking" /\ played' \in {played, Nothing}
    BY DEF NothingStaged, RestTick, BeginTick, EndTick, AtEnd, editVars, stageVars, seenVars
<1>2. tick' \in Nat /\ clk' \in ClockAt /\ clk'.pc \notin {"taking", "play"}
  <2>1. clk \in ClockAt /\ tick \in Nat
    BY DEF WholeInv, Shape, ClockAt
  <2>2. CASE NothingStaged \/ RestTick \/ EndTick
    <3>1. CASE NothingStaged \/ RestTick
      BY <2>1, <3>1 DEF NothingStaged, RestTick, ClockAt, ClockSteps
    <3>2. CASE EndTick
      <4>1. clk' = [clk EXCEPT !.pc = "off", !.pos = 0, !.at = 0] /\ tick' = tick + 1
        BY <3>2 DEF EndTick
      <4>2. tick' \in Nat
        BY <2>1, <4>1
      <4>3. clk' \in ClockAt /\ clk'.pc = "off"
        <5>1. "off" \in ClockSteps /\ 0 \in Nat
          BY DEF ClockSteps
        <5>2. QED
          BY <2>1, <4>1, <5>1 DEF ClockAt
      <4>4. QED
        BY <4>2, <4>3
    <3>3. QED
      BY <2>2, <3>1, <3>2
  <2>3. CASE BeginTick
    <3>1. PICK d \in {0, 1} :
             /\ tick' = tick + d
             /\ clk' = [clk EXCEPT !.pc = "look", !.pos = 0, !.at = tick + d]
      BY <2>3 DEF BeginTick
    <3>2. tick + d \in Nat
      BY <2>1
    <3>3. QED
      BY <2>1, <3>1, <3>2 DEF ClockAt, ClockSteps
  <2>4. QED
    BY <2>2, <2>3
<1>3. lane' \in [Slots -> Lane] /\ PatternsKept
  <2>1. CASE NothingStaged \/ RestTick \/ EndTick
    BY <2>1, LanesLeft DEF NothingStaged, RestTick, EndTick
  <2>2. CASE BeginTick
    <3>1. PICK again \in SUBSET Slots :
             lane' = [i \in Slots |-> [lane[i] EXCEPT !.idle = @ \/ i \in again]]
      BY <2>2 DEF BeginTick
    <3>2. ASSUME NEW i \in Slots
          PROVE  /\ [lane[i] EXCEPT !.idle = @ \/ i \in again] \in Lane
                 /\ [lane[i] EXCEPT !.idle = @ \/ i \in again].ev = lane[i].ev
                 /\ [lane[i] EXCEPT !.idle = @ \/ i \in again].pat = lane[i].pat
      <4>1. (lane[i].idle \/ i \in again) \in BOOLEAN
        OBVIOUS
      <4>2. lane[i] \in Lane
        BY DEF WholeInv, Shape
      <4>3. QED
        BY <4>1, <4>2 DEF Lane
    <3>3. QED
      BY <3>1, <3>2 DEF PatternsKept
  <2>3. QED
    BY <2>1, <2>2
<1>4. QED
    BY <1>1, <1>2, <1>3, ClockGoesOn

\* The lane the clock is at.
LEMMA AtHere ==
    ASSUME WholeInv PROVE Here \in Slots /\ lane[Here] \in Lane
    BY HereTyped DEF WholeInv, Shape

LEMMA Onward ==
    ASSUME WholeInv, clk.pc = "look", UNCHANGED <<ed, stage, stageFor, played, tick>>,
           NEW l \in Lane, l.ev = lane[Here].ev, l.pat = lane[Here].pat, OnwardWith(l)
    PROVE  WholeInv'
<1>1. lane' \in [Slots -> Lane] /\ PatternsKept
    BY AtHere, OneLane DEF OnwardWith
<1>2. clk' \in ClockAt /\ clk'.pc = "look"
    BY DEF OnwardWith, WholeInv, Shape, ClockAt
<1>3. tick' \in Nat
    BY DEF WholeInv, Shape
<1>4. QED
    BY <1>1, <1>2, <1>3, ClockGoesOn

LEMMA VisitKeeps ==
    ASSUME WholeInv, PassOver \/ FireRouted \/ FireOwn \/ CountWaits \/ CountPlays
    PROVE  WholeInv'
<1>1. UNCHANGED <<ed, stage, stageFor, played, tick>> /\ clk.pc = "look"
    BY DEF PassOver, FireRouted, FireOwn, CountWaits, CountPlays, CountsNow,
           visitUnchanged, editVars, stageVars, seenVars
<1>2. /\ Counting(lane[Here]) \in Lane
      /\ Counting(lane[Here]).ev = lane[Here].ev
      /\ Counting(lane[Here]).pat = lane[Here].pat
    BY AtHere, CountingTyped
<1>3. CASE PassOver
    BY <1>1, <1>3, AtHere, Onward DEF PassOver
<1>4. CASE CountWaits
    BY <1>1, <1>2, <1>4, Onward DEF CountWaits
<1>5. CASE CountPlays
    BY <1>1, <1>2, <1>5, ClockFires DEF CountPlays, CountsNow, InTurn
<1>6. CASE FireOwn
    BY <1>1, <1>6, AtHere, ClockFires DEF FireOwn, InTurn
<1>7. CASE FireRouted
  <2> DEFINE l == [lane[Here] EXCEPT !.trig = FALSE]
  <2>1. l \in Lane /\ l.ev = lane[Here].ev /\ l.pat = lane[Here].pat
    BY AtHere DEF Lane
  <2>2. FireWith(l, TRUE) /\ l.pat.slots # 0
    BY <1>7, <2>1 DEF FireRouted, InTurn
  <2>3. QED
    BY <1>1, <2>1, <2>2, ClockFires
<1>8. QED
    BY <1>3, <1>4, <1>5, <1>6, <1>7

LEMMA CountEndsKeeps == ASSUME WholeInv, CountEnds PROVE WholeInv'
<1> DEFINE c == Counting(lane[Here])
           own == ~Routed(c)
           l == [c EXCEPT !.idle = TRUE, !.done = @ \/ own, !.muted = @ \/ own]
           e == [of |-> c.name, end |-> TRUE]
           ls == [lane EXCEPT ![Here] = l]
<1>1. UNCHANGED <<ed, stage, stageFor, played, tick>> /\ clk.pc = "look"
    BY DEF CountEnds, CountsNow, visitUnchanged, editVars, stageVars
<1>2. c \in Lane /\ c.ev = lane[Here].ev /\ c.pat = lane[Here].pat
    BY AtHere, CountingTyped
<1>3. own \in BOOLEAN
    BY DEF Routed
<1>4. l \in Lane /\ l.ev = lane[Here].ev /\ l.pat = lane[Here].pat
    BY <1>2, <1>3 DEF Lane
<1>5. ls \in [Slots -> Lane] /\ \A i \in Slots : ls[i].ev = lane[i].ev /\ ls[i].pat = lane[i].pat
    BY <1>4, AtHere DEF WholeInv, Shape
<1>6. lane' = Told(ls, e) /\ clk' = [clk EXCEPT !.pos = @ + 1]
    BY DEF CountEnds
<1>7. lane' \in [Slots -> Lane] /\ PatternsKept
  <2> HIDE DEF l, e, ls
  <2>1. /\ Told(ls, e) \in [Slots -> Lane]
        /\ \A i \in Slots : Told(ls, e)[i].ev = ls[i].ev /\ Told(ls, e)[i].pat = ls[i].pat
    BY <1>5, ToldTyped
  <2>2. QED
    BY <1>5, <1>6, <2>1 DEF PatternsKept
<1>8. clk' \in ClockAt /\ clk'.pc = "look" /\ tick' \in Nat
    BY <1>1, <1>6 DEF WholeInv, Shape, ClockAt
<1>9. QED
    BY <1>1, <1>7, <1>8, ClockGoesOn

\* The events are those of the pattern found in turn, or none and not played.
LEMMA PlayKeeps == ASSUME WholeInv, PlayEvent PROVE WholeInv'
<1> DEFINE s == [of |-> lane[Here].name, end |-> FALSE]
<1>1. UNCHANGED <<ed, stage, stageFor, tick>> /\ clk.pc = "play"
    BY DEF PlayEvent, visitUnchanged, editVars, stageVars
<1>2. \/ lane' = lane /\ played' = played
      \/ /\ lane' = Told(lane, s)
         /\ played' = played \/ (~clk.side /\ lane[Here].ev # Blank
                                 /\ played' = [ev |-> lane[Here].ev, pat |-> clk.pat])
    BY DEF PlayEvent
<1>3. lane' \in [Slots -> Lane] /\ PatternsKept
  <2> HIDE DEF s
  <2>1. lane \in [Slots -> Lane]
    BY DEF WholeInv, Shape
  <2>2. /\ Told(lane, s) \in [Slots -> Lane]
        /\ \A i \in Slots : Told(lane, s)[i].ev = lane[i].ev /\ Told(lane, s)[i].pat = lane[i].pat
    BY <2>1, ToldTyped
  <2>3. QED
    BY <1>2, <2>1, <2>2 DEF PatternsKept
<1>4. clk' \in ClockAt /\ clk'.pc = "look"
  <2>1. clk' = [clk EXCEPT !.pc = "look", !.pos = @ + 1, !.pat = Blank, !.side = FALSE]
    BY DEF PlayEvent
  <2>2. clk \in ClockAt /\ clk.pos \in Nat /\ "look" \in ClockSteps
    BY DEF WholeInv, Shape, ClockAt, ClockSteps
  <2>3. clk.pos + 1 \in Nat
    BY <2>2
  <2>4. QED
    BY <2>1, <2>2, <2>3, BlankTyped DEF ClockAt
<1>5. Shape'
    BY <1>1, <1>3, <1>4 DEF WholeInv, Shape, ClockAt
<1>6. PatternWhole'
    BY <1>1, <1>2 DEF PatternWhole, PlayWhole, WholeInv
<1>7. PlayWhole'
    BY <1>4 DEF PlayWhole
<1>8. QED
    BY <1>1, <1>3, <1>4, <1>5, <1>6, <1>7, ClockStep

LEMMA ClockKeeps == ASSUME WholeInv, Clock PROVE WholeInv'
    BY TakeKeeps, RestKeeps, VisitKeeps, CountEndsKeeps, PlayKeeps DEF Clock

LEMMA StepWhole == WholeInv /\ [Next]_vars => WholeInv'
<1>1. ASSUME WholeInv, UNCHANGED vars PROVE WholeInv'
  <2>1. UNCHANGED <<lane, stage, stageFor, clk, ed, tick, played>>
    BY <1>1 DEF vars, stageVars, clockVars, editVars, seenVars
  <2>2. Shape' /\ StageWhole' /\ StageBegun' /\ TakingBegun'
    BY <1>1, <2>1 DEF WholeInv, Shape, StageWhole, StageBegun, TakingBegun
  <2>3. LanesWhole' /\ PlayWhole' /\ PatternWhole'
    BY <1>1, <2>1 DEF WholeInv, LanesWhole, PlayWhole, PatternWhole, Here
  <2>4. QED
    BY <2>2, <2>3 DEF WholeInv
<1>2. QED
    BY <1>1, EditorKeeps, ClockKeeps DEF Next

\* "A compiled lane is handed to the clock, not written under it", for any
\* number of lanes, any patterns and any history of edits: the events a tick
\* plays are of the pattern it keeps time by (stage(), stage_apply()).
THEOREM PlayedWhole == Spec => []PatternWhole
<1>1. Spec => []WholeInv
    BY InitWhole, StepWhole, PTL DEF Spec
<1>2. WholeInv => PatternWhole
    BY DEF WholeInv
<1>3. QED
    BY <1>1, <1>2, PTL

-----------------------------------------------------------------------------
(* Ranks: the hops of a chain, and the sources that come before it.        *)

\* A set of numbers that is not empty has a least one: with this, what is so
\* of the first and passes to the next is so of all.
LEMMA LeastOne ==
    ASSUME NEW T, T \subseteq Nat, T # {}
    PROVE  \E x \in T : \A y \in T : x <= y
<1>1. PICK x \in T : \A y \in T : ~(<<y, x>> \in OpToRel(<, Nat))
    BY NatLessThanWellFounded, WFMin
<1>2. ASSUME NEW y \in T PROVE x <= y
  <2>1. ~(y < x)
    BY <1>1 DEF OpToRel
  <2>2. QED
    BY <2>1
<1>3. QED
    BY <1>2

LEMMA AllNumbers ==
    ASSUME NEW S, NEW n \in Nat, 0 \in S,
           \A m \in Nat : m < n /\ m \in S => m + 1 \in S
    PROVE  \A m \in 0..n : m \in S
<1> DEFINE T == {m \in 0..n : m \notin S}
<1>1. SUFFICES ASSUME T # {} PROVE FALSE
    OBVIOUS
<1>2. PICK x \in T : \A y \in T : x <= y
  <2>1. T \subseteq Nat
    OBVIOUS
  <2> HIDE DEF T
  <2>2. QED
    BY <1>1, <2>1, LeastOne
<1>3. x # 0 /\ x - 1 \in 0..n /\ x - 1 \notin T
    BY <1>2
<1>4. QED
    BY <1>2, <1>3

FollowedIn(ls, l) == {i \in Slots : ls[i].used /\ ls[i].name = l.route.of}
Picked(S) == CHOOSE j \in S : TRUE

\* HopsWithin, of any table of lanes.
HopsIn(ls) ==
    LET h[d \in 0..(MaxLanes + 2)] ==
        [i \in Slots |->
            IF d = 0 \/ ~Routed(ls[i]) \/ FollowedIn(ls, ls[i]) = {} THEN 0
            ELSE 1 + h[d - 1][Picked(FollowedIn(ls, ls[i]))]]
    IN  h

LEMMA HopsAreHops == HopsWithin = HopsIn(lane)
    BY DEF HopsWithin, HopsIn, Followed, FollowedIn, Picked

\* The lane that lane i follows, if there is one.
Source(ls, i) == IF ~Routed(ls[i]) \/ FollowedIn(ls, ls[i]) = {} THEN None
                 ELSE Picked(FollowedIn(ls, ls[i]))

LEMMA SourceTyped ==
    ASSUME NEW ls, NEW i \in Slots, Source(ls, i) # None
    PROVE  /\ Source(ls, i) \in Slots /\ Routed(ls[i])
           /\ ls[Source(ls, i)].used /\ ls[Source(ls, i)].name = ls[i].route.of
<1>1. /\ FollowedIn(ls, ls[i]) # {} /\ Routed(ls[i])
      /\ Source(ls, i) = Picked(FollowedIn(ls, ls[i]))
    BY DEF Source
<1>2. Picked(FollowedIn(ls, ls[i])) \in FollowedIn(ls, ls[i])
    BY <1>1 DEF Picked
<1>3. QED
    BY <1>1, <1>2 DEF FollowedIn

\* What one more hop adds.
Hop(ls, h) == [i \in Slots |-> IF Source(ls, i) = None THEN 0 ELSE 1 + h[Source(ls, i)]]
NoHop == [i \in Slots |-> 0]
IsHops(ls, h, n) == h = [d \in 0..n |-> IF d = 0 THEN NoHop ELSE Hop(ls, h[d - 1])]

LEMMA HopsExist ==
    ASSUME NEW ls, NEW n \in Nat PROVE \E h : IsHops(ls, h, n)
<1> DEFINE S == {m \in Nat : \E h : IsHops(ls, h, m)}
<1>1. 0 \in S
  <2>1. IsHops(ls, [d \in 0..0 |-> NoHop], 0)
    BY DEF IsHops
  <2>2. QED
    BY <2>1
<1>2. ASSUME NEW m \in Nat, m < n, m \in S PROVE m + 1 \in S
  <2>1. PICK g : IsHops(ls, g, m)
    BY <1>2
  <2> DEFINE h == [d \in 0..(m + 1) |-> IF d = m + 1 THEN Hop(ls, g[m]) ELSE g[d]]
  <2>2. ASSUME NEW d \in 0..(m + 1)
        PROVE  h[d] = IF d = 0 THEN NoHop ELSE Hop(ls, h[d - 1])
    <3>1. CASE d = m + 1
      BY <3>1
    <3>2. CASE d # m + 1
      <4>1. d \in 0..m /\ h[d] = g[d]
        BY <3>2
      <4>2. g[d] = IF d = 0 THEN NoHop ELSE Hop(ls, g[d - 1])
        BY <2>1, <4>1 DEF IsHops
      <4>3. d # 0 => h[d - 1] = g[d - 1]
        BY <4>1
      <4>4. QED
        BY <4>1, <4>2, <4>3
    <3>3. QED
      BY <3>1, <3>2
  <2>3. IsHops(ls, h, m + 1)
    <3>1. h = [d \in 0..(m + 1) |-> h[d]]
      OBVIOUS
    <3> HIDE DEF h
    <3>2. QED
      BY <2>2, <3>1 DEF IsHops
  <2>4. QED
    BY <2>3
<1>3. QED
  <2> HIDE DEF S
  <2>1. \A m \in 0..n : m \in S
    BY <1>1, <1>2, AllNumbers
  <2>2. n \in S
    BY <2>1
  <2>3. QED
    BY <2>2 DEF S

LEMMA HopsRecursive ==
    ASSUME NEW ls PROVE IsHops(ls, HopsIn(ls), MaxLanes + 2)
<1> DEFINE D == 0..(MaxLanes + 2)
           Body(h, d) == [i \in Slots |->
              IF d = 0 \/ ~Routed(ls[i]) \/ FollowedIn(ls, ls[i]) = {} THEN 0
              ELSE 1 + h[d - 1][Picked(FollowedIn(ls, ls[i]))]]
<1>1. MaxLanes + 2 \in Nat
    BY LanesAssumption
<1>2. ASSUME NEW h, NEW d \in D
      PROVE  Body(h, d) = IF d = 0 THEN NoHop ELSE Hop(ls, h[d - 1])
  <2>1. CASE d = 0
    BY <2>1 DEF NoHop
  <2>2. CASE d # 0
    <3>1. \A i \in Slots :
             (Source(ls, i) = None) <=> (~Routed(ls[i]) \/ FollowedIn(ls, ls[i]) = {})
      <4>1. \A i \in Slots : Source(ls, i) # None =>
                ~(~Routed(ls[i]) \/ FollowedIn(ls, ls[i]) = {})
        BY DEF Source
      <4>2. \A S : S \subseteq Slots /\ S # {} => Picked(S) # None
        BY DEF Picked, Slots, None
      <4>3. \A i \in Slots : FollowedIn(ls, ls[i]) \subseteq Slots
        BY DEF FollowedIn
      <4>4. QED
        BY <4>1, <4>2, <4>3 DEF Source
    <3>2. \A i \in Slots : Source(ls, i) # None =>
                Source(ls, i) = Picked(FollowedIn(ls, ls[i]))
      BY DEF Source
    <3>3. QED
      BY <2>2, <3>1, <3>2 DEF Hop
  <2>3. QED
    BY <2>1, <2>2
<1>3. PICK g : IsHops(ls, g, MaxLanes + 2)
    BY <1>1, HopsExist
<1>4. g = [d \in D |-> Body(g, d)]
    BY <1>2, <1>3 DEF IsHops
<1>5. HopsIn(ls) = CHOOSE h : h = [d \in D |-> Body(h, d)]
    BY DEF HopsIn
<1>6. HopsIn(ls) = [d \in D |-> Body(HopsIn(ls), d)]
    BY <1>4, <1>5
<1>7. QED
    BY <1>2, <1>6 DEF IsHops

Depths == 0..(MaxLanes + 2)

LEMMA HopsAt ==
    ASSUME NEW ls, NEW d \in Depths, NEW i \in Slots
    PROVE  /\ d = 0 \/ Source(ls, i) = None => HopsIn(ls)[d][i] = 0
           /\ d # 0 /\ Source(ls, i) # None =>
                 HopsIn(ls)[d][i] = 1 + HopsIn(ls)[d - 1][Source(ls, i)]
<1>1. HopsIn(ls)[d] = IF d = 0 THEN NoHop ELSE Hop(ls, HopsIn(ls)[d - 1])
    BY HopsRecursive DEF IsHops, Depths
<1>2. QED
    BY <1>1 DEF NoHop, Hop

\* Cut off after d hops there are at most d.
LEMMA HopsBounded ==
    ASSUME NEW ls PROVE \A d \in Depths : \A i \in Slots : HopsIn(ls)[d][i] \in 0..d
<1> DEFINE S == {d \in Depths : \A i \in Slots : HopsIn(ls)[d][i] \in 0..d}
<1>1. 0 \in S
  <2>1. 0 \in Depths
    BY LanesAssumption DEF Depths
  <2>2. \A i \in Slots : HopsIn(ls)[0][i] = 0
    BY <2>1, HopsAt
  <2>3. QED
    BY <2>1, <2>2
<1>2. ASSUME NEW m \in Nat, m < MaxLanes + 2, m \in S PROVE m + 1 \in S
  <2>1. m + 1 \in Depths /\ m + 1 # 0 /\ (m + 1) - 1 = m
    BY <1>2, LanesAssumption DEF Depths
  <2>2. ASSUME NEW i \in Slots PROVE HopsIn(ls)[m + 1][i] \in 0..(m + 1)
    <3>1. CASE Source(ls, i) = None
      <4>1. HopsIn(ls)[m + 1][i] = 0
        BY <2>1, <3>1, HopsAt
      <4>2. QED
        BY <4>1
    <3>2. CASE Source(ls, i) # None
      <4>1. HopsIn(ls)[m + 1][i] = 1 + HopsIn(ls)[m][Source(ls, i)]
        BY <2>1, <3>2, HopsAt
      <4>2. HopsIn(ls)[m][Source(ls, i)] \in 0..m
        BY <1>2, <3>2, SourceTyped
      <4>3. QED
        BY <4>1, <4>2
    <3>3. QED
      BY <3>1, <3>2
  <2>3. QED
    BY <2>1, <2>2
<1>3. QED
  <2> HIDE DEF S
  <2>1. \A m \in 0..(MaxLanes + 2) : m \in S
    BY <1>1, <1>2, AllNumbers, LanesAssumption
  <2>2. QED
    BY <2>1 DEF S, Depths

\* A chain that ended before it was cut off is as long wherever it is cut off.
LEMMA HopsEnd ==
    ASSUME NEW ls
    PROVE  \A d \in 0..(MaxLanes + 1) : \A i \in Slots :
              HopsIn(ls)[d][i] < d => HopsIn(ls)[d + 1][i] = HopsIn(ls)[d][i]
<1> DEFINE S == {d \in 0..(MaxLanes + 1) : \A i \in Slots :
                    HopsIn(ls)[d][i] < d => HopsIn(ls)[d + 1][i] = HopsIn(ls)[d][i]}
<1>1. 0 \in S
  <2>1. 0 \in Depths /\ 0 \in 0..(MaxLanes + 1)
    BY LanesAssumption DEF Depths
  <2>2. QED
    BY <2>1, HopsAt
<1>2. ASSUME NEW m \in Nat, m < MaxLanes + 1, m \in S PROVE m + 1 \in S
  <2>1. /\ m + 1 \in Depths /\ m + 1 # 0 /\ (m + 1) - 1 = m /\ m + 1 \in 0..(MaxLanes + 1)
        /\ m + 2 \in Depths /\ m + 2 # 0 /\ (m + 2) - 1 = m + 1 /\ (m + 1) + 1 = m + 2
        /\ m \in Depths
    BY <1>2, LanesAssumption DEF Depths
  <2>2. ASSUME NEW i \in Slots, HopsIn(ls)[m + 1][i] < m + 1
        PROVE  HopsIn(ls)[m + 2][i] = HopsIn(ls)[m + 1][i]
    <3>1. CASE Source(ls, i) = None
      BY <2>1, <3>1, HopsAt
    <3>2. CASE Source(ls, i) # None
      <4> DEFINE j == Source(ls, i)
      <4>1. /\ HopsIn(ls)[m + 1][i] = 1 + HopsIn(ls)[m][j]
            /\ HopsIn(ls)[m + 2][i] = 1 + HopsIn(ls)[m + 1][j]
        BY <2>1, <3>2, HopsAt
      <4>2. j \in Slots
        BY <3>2, SourceTyped
      <4>3. HopsIn(ls)[m][j] \in 0..m
        BY <4>2, <2>1, HopsBounded
      <4>4. HopsIn(ls)[m][j] < m
        BY <4>1, <4>3, <2>2
      <4>5. HopsIn(ls)[m + 1][j] = HopsIn(ls)[m][j]
        BY <1>2, <4>2, <4>4
      <4>6. QED
        BY <4>1, <4>5
    <3>3. QED
      BY <3>1, <3>2
  <2>3. QED
    BY <2>1, <2>2
<1>3. QED
  <2> HIDE DEF S
  <2>1. \A m \in 0..(MaxLanes + 1) : m \in S
    BY <1>1, <1>2, AllNumbers, LanesAssumption
  <2>2. QED
    BY <2>1 DEF S

\* Where more lanes follow another, and those that did follow the same, no
\* chain is shorter.
LEMMA HopsGrow ==
    ASSUME NEW ls, NEW more,
           \A i \in Slots : ls[i].used /\ Source(ls, i) # None
                              => Source(more, i) = Source(ls, i)
    PROVE  \A d \in Depths : \A i \in Slots :
              ls[i].used => HopsIn(ls)[d][i] <= HopsIn(more)[d][i]
<1> DEFINE S == {d \in Depths : \A i \in Slots :
                    ls[i].used => HopsIn(ls)[d][i] <= HopsIn(more)[d][i]}
<1>1. 0 \in S
  <2>1. 0 \in Depths
    BY LanesAssumption DEF Depths
  <2>2. \A i \in Slots : HopsIn(ls)[0][i] = 0 /\ HopsIn(more)[0][i] = 0
    BY <2>1, HopsAt
  <2>3. QED
    BY <2>1, <2>2
<1>2. ASSUME NEW m \in Nat, m < MaxLanes + 2, m \in S PROVE m + 1 \in S
  <2>1. m + 1 \in Depths /\ m + 1 # 0 /\ (m + 1) - 1 = m /\ m \in Depths
    BY <1>2, LanesAssumption DEF Depths
  <2>2. ASSUME NEW i \in Slots, ls[i].used
        PROVE  HopsIn(ls)[m + 1][i] <= HopsIn(more)[m + 1][i]
    <3>1. CASE Source(ls, i) = None
      <4>1. HopsIn(ls)[m + 1][i] = 0
        BY <2>1, <3>1, HopsAt
      <4>2. HopsIn(more)[m + 1][i] \in 0..(m + 1)
        BY <2>1, HopsBounded
      <4>3. QED
        BY <4>1, <4>2
    <3>2. CASE Source(ls, i) # None
      <4> DEFINE j == Source(ls, i)
      <4>1. HopsIn(ls)[m + 1][i] = 1 + HopsIn(ls)[m][j]
        BY <2>1, <3>2, HopsAt
      <4>2. j \in Slots /\ ls[j].used /\ Source(more, i) = j
        BY <2>2, <3>2, SourceTyped
      <4>3. HopsIn(more)[m + 1][i] = 1 + HopsIn(more)[m][j]
        BY <2>1, <3>2, <4>2, HopsAt
      <4>4. HopsIn(ls)[m][j] \in 0..m /\ HopsIn(more)[m][j] \in 0..m
        BY <4>2, <2>1, HopsBounded
      <4>5. HopsIn(ls)[m][j] <= HopsIn(more)[m][j]
        BY <1>2, <4>2
      <4>6. QED
        BY <4>1, <4>3, <4>4, <4>5
    <3>3. QED
      BY <3>1, <3>2
  <2>3. QED
    BY <2>1, <2>2
<1>3. QED
  <2> HIDE DEF S
  <2>1. \A m \in 0..(MaxLanes + 2) : m \in S
    BY <1>1, <1>2, AllNumbers, LanesAssumption
  <2>2. QED
    BY <2>1 DEF S, Depths

RankIn(ls, i) == HopsIn(ls)[MaxLanes + 1][i]

LEMMA RankTyped ==
    ASSUME NEW ls, NEW i \in Slots PROVE RankIn(ls, i) \in Nat
<1>1. MaxLanes + 1 \in Depths
    BY LanesAssumption DEF Depths
<1>2. QED
    BY <1>1, HopsBounded DEF RankIn

\* But for a circle, a lane ranks one above its source.
LEMMA RankAboveSource ==
    ASSUME NEW ls, NEW i \in Slots, Source(ls, i) # None, RankIn(ls, i) <= MaxLanes
    PROVE  RankIn(ls, i) = 1 + RankIn(ls, Source(ls, i))
<1> DEFINE j == Source(ls, i)
<1>1. /\ MaxLanes + 1 \in Depths /\ MaxLanes + 1 # 0 /\ (MaxLanes + 1) - 1 = MaxLanes
      /\ MaxLanes \in Depths /\ MaxLanes \in 0..(MaxLanes + 1)
    BY LanesAssumption DEF Depths
<1>2. j \in Slots
    BY SourceTyped
<1>3. RankIn(ls, i) = 1 + HopsIn(ls)[MaxLanes][j]
    BY <1>1, HopsAt DEF RankIn
<1>4. HopsIn(ls)[MaxLanes][j] \in 0..MaxLanes
    BY <1>1, <1>2, HopsBounded
<1>5. HopsIn(ls)[MaxLanes][j] < MaxLanes
    BY <1>3, <1>4, LanesAssumption
<1>6. HopsIn(ls)[MaxLanes + 1][j] = HopsIn(ls)[MaxLanes][j]
    BY <1>1, <1>2, <1>5, HopsEnd
<1>7. QED
    BY <1>3, <1>6 DEF RankIn

LEMMA RanksAreHops ==
    /\ \A i : RankOf(i) = RankIn(lane, i)
    /\ \A i : RankOf(i)' = RankIn(lane', i)
<1>1. HopsWithin = HopsIn(lane) /\ HopsWithin' = HopsIn(lane')
    BY HopsAreHops DEF HopsIn, FollowedIn, Picked, Followed, HopsWithin
<1>2. QED
    BY <1>1 DEF RankOf, RankIn
----------------------------------------------------------------------------
(* What ranks are worth while commands change the routes.                  *)

Used == {i \in Slots : lane[i].used}
Follows(i, j) == Routed(lane[i]) /\ lane[i].route.of = lane[j].name

\* Where a command has a lane in hand; where the ranks are of the routes there
\* are; and where they have just been worked out.
Holding == {"write", "fill", "handed", "unmute", "sourced", "fillOne", "handedOne",
            "untrig", "reroute"}
Freshly == {"unmute", "sourced", "fillOne", "handedOne"}
Settled == Freshly \cup {"idle", "play"}

RanksTyped == rank \in [Slots -> Nat] /\ maxrank \in Nat
EditedIsUsed == ed.pc \in Holding => lane[ed.i].used
OneOfAName == \A i, j \in Used : lane[i].name = lane[j].name => i = j
RanksBounded == \A i \in Used : rank[i] <= maxrank
RanksNotPast == ed.pc \in Settled => \A i \in Used : rank[i] <= RankOf(i)

\* A lane ranks above the one it follows, circles apart.  '>route foo foo' makes
\* a lane and works out no ranks: until it has a pattern it may be too low.
SourcesFirst ==
    ed.pc \in Settled =>
        \A i, j \in Used : Follows(i, j) /\ rank[i] <= MaxLanes
            => \/ rank[j] < rank[i]
               \/ lane[j].pat.slots = 0 /\ ed.pc \notin Freshly

RanksInv == /\ RanksTyped /\ EditedIsUsed /\ OneOfAName /\ RanksBounded
            /\ RanksNotPast /\ SourcesFirst

\* A table whose lanes have the places they had.
SamePlaces(ls, more) ==
    \A i \in Slots : /\ more[i].used = ls[i].used /\ more[i].name = ls[i].name
                     /\ more[i].route = ls[i].route

LEMMA SameSources ==
    ASSUME NEW ls, NEW more, SamePlaces(ls, more), NEW i \in Slots
    PROVE  Source(more, i) = Source(ls, i)
<1>1. FollowedIn(more, more[i]) = FollowedIn(ls, ls[i])
    BY DEF FollowedIn, SamePlaces
<1>2. Routed(more[i]) <=> Routed(ls[i])
    BY DEF Routed, SamePlaces
<1>3. QED
    BY <1>1, <1>2 DEF Source

LEMMA SameRanks ==
    ASSUME NEW ls, NEW more, SamePlaces(ls, more), NEW i \in Slots, ls[i].used
    PROVE  RankIn(more, i) = RankIn(ls, i)
<1>1. MaxLanes + 1 \in Depths
    BY LanesAssumption DEF Depths
<1>2. \A j \in Slots : Source(more, j) = Source(ls, j)
    BY SameSources
<1>3. RankIn(ls, i) <= RankIn(more, i)
    BY <1>1, <1>2, HopsGrow DEF RankIn
<1>4. RankIn(more, i) <= RankIn(ls, i)
  <2>1. more[i].used
    BY DEF SamePlaces
  <2>2. QED
    BY <1>1, <1>2, <2>1, HopsGrow DEF RankIn
<1>5. QED
    BY <1>3, <1>4, RankTyped

LEMMA RanksOfSamePlaces ==
    ASSUME SamePlaces(lane, lane') PROVE \A i \in Used : RankOf(i)' = RankOf(i)
    BY SameRanks, RanksAreHops DEF Used

\* Where lanes keep their places the ranks are worth what they were.
LEMMA PlacesKept ==
    ASSUME RanksInv, SamePlaces(lane, lane'), UNCHANGED rankVars,
           ed'.pc \in Holding => ed.pc \in Holding /\ ed'.i = ed.i,
           ed'.pc \in Settled => ed.pc \in Settled,
           ed'.pc \in Freshly => ed.pc \in Freshly,
           ed'.pc \in Settled \ Freshly =>
               \A i \in Slots : lane'[i].pat = lane[i].pat,
           ed'.i \in Slots
    PROVE  RanksInv'
<1>1. rank' = rank /\ maxrank' = maxrank
    BY DEF rankVars
<1>2. Used' = Used
    BY DEF Used, SamePlaces
<1>3. \A i \in Used : RankOf(i)' = RankOf(i)
    BY RanksOfSamePlaces
<1>4. RanksTyped' /\ RanksBounded'
    BY <1>1, <1>2 DEF RanksInv, RanksTyped, RanksBounded
<1>5. EditedIsUsed'
    BY DEF RanksInv, EditedIsUsed, SamePlaces
<1>6. OneOfAName'
    BY <1>2 DEF RanksInv, OneOfAName, SamePlaces, Used
<1>7. RanksNotPast'
  <2>1. SUFFICES ASSUME ed'.pc \in Settled, NEW i \in Used PROVE rank[i] <= RankOf(i)'
    BY <1>1, <1>2 DEF RanksNotPast
  <2>2. rank[i] <= RankOf(i) /\ i \in Slots
    BY <2>1 DEF RanksInv, RanksNotPast, Used
  <2>3. QED
    BY <1>3, <2>2
<1>8. SourcesFirst'
  <2>1. SUFFICES ASSUME ed'.pc \in Settled, NEW i \in Used, NEW j \in Used,
                        Follows(i, j)', rank[i] <= MaxLanes
                 PROVE  \/ rank[j] < rank[i]
                        \/ lane'[j].pat.slots = 0 /\ ed'.pc \notin Freshly
    BY <1>1, <1>2 DEF SourcesFirst
  <2>2. Follows(i, j)
    BY <2>1 DEF Follows, SamePlaces, Routed, Used
  <2>3. \/ rank[j] < rank[i]
        \/ lane[j].pat.slots = 0 /\ ed.pc \notin Freshly
    BY <2>1, <2>2 DEF RanksInv, SourcesFirst
  <2>4. QED
    BY <2>1, <2>3 DEF Used
<1>9. QED
    BY <1>4, <1>5, <1>6, <1>7, <1>8 DEF RanksInv

LEMMA NotSettled ==
    ASSUME ed'.pc \notin Settled, RanksTyped', EditedIsUsed', OneOfAName', RanksBounded'
    PROVE  RanksInv'
    BY DEF RanksInv, RanksNotPast, SourcesFirst

\* The highest rank there is.
LEMMA TopIsTop ==
    ASSUME NEW S, S \subseteq Nat, 0 \in S, NEW n \in Nat, \A x \in S : x <= n
    PROVE  Max(S) \in S /\ \A x \in S : x <= Max(S)
<1> DEFINE T == {n - x : x \in S}
<1>1. T \subseteq Nat /\ T # {}
  <2>1. \A x \in S : n - x \in Nat
    OBVIOUS
  <2>2. n - 0 \in T
    OBVIOUS
  <2>3. QED
    BY <2>1, <2>2
<1>2. PICK t \in T : \A u \in T : t <= u
  <2> HIDE DEF T
  <2>1. QED
    BY <1>1, LeastOne
<1>3. PICK x \in S : t = n - x
    BY <1>2
<1>4. ASSUME NEW y \in S PROVE x >= y
  <2>1. t <= n - y
    BY <1>2
  <2>2. QED
    BY <1>3, <2>1
<1>5. QED
    BY <1>4 DEF Max

LEMMA TopRanks ==
    /\ TopRank \in Nat
    /\ \A i \in Used : RankOf(i) <= TopRank
<1> DEFINE S == {0} \cup {RankOf(i) : i \in {j \in Slots : lane[j].used}}
<1>1. \A i \in Slots : RankOf(i) \in 0..(MaxLanes + 1)
  <2>1. MaxLanes + 1 \in Depths
    BY LanesAssumption DEF Depths
  <2>2. QED
    BY <2>1, HopsBounded, RanksAreHops DEF RankIn
<1>2. S \subseteq Nat /\ 0 \in S /\ \A x \in S : x <= MaxLanes + 1
    BY <1>1, LanesAssumption
<1>3. MaxLanes + 1 \in Nat
    BY LanesAssumption
<1>4. Max(S) \in S /\ \A x \in S : x <= Max(S)
  <2> HIDE DEF S
  <2>1. QED
    BY <1>2, <1>3, TopIsTop
<1>5. QED
    BY <1>2, <1>4 DEF TopRank, Used

\* rerank() makes the ranks those of the routes.
LEMMA RerankKeeps ==
    ASSUME RanksInv, lane' = lane, rank' = Ranked, maxrank' = TopRank,
           ed'.pc \in Holding => ed.pc \in Holding /\ ed'.i = ed.i
    PROVE  RanksInv'
<1>1. Used' = Used
    BY DEF Used
<1>2. /\ \A i \in Used : RankOf(i)' = RankOf(i)
      /\ \A i \in Slots : RankOf(i) \in Nat
  <2>1. SamePlaces(lane, lane')
    BY DEF SamePlaces
  <2>2. QED
    BY <2>1, RanksOfSamePlaces, RankTyped, RanksAreHops
<1>3. RanksTyped'
    BY <1>2, TopRanks DEF Ranked, RanksInv, RanksTyped
<1>4. \A i \in Used : i \in Slots /\ rank'[i] = RankOf(i)
    BY DEF Ranked, Used
<1>5. RanksBounded' /\ RanksNotPast'
    BY <1>1, <1>2, <1>4, TopRanks DEF RanksBounded, RanksNotPast
<1>6. EditedIsUsed' /\ OneOfAName'
    BY <1>1 DEF RanksInv, EditedIsUsed, OneOfAName
<1>7. SourcesFirst'
  <2>1. SUFFICES ASSUME NEW i \in Used, NEW j \in Used, Follows(i, j), rank'[i] <= MaxLanes
                 PROVE  rank'[j] < rank'[i]
    BY <1>1 DEF SourcesFirst, Follows
  <2>2. i \in Slots /\ j \in Slots /\ lane[j].used /\ Routed(lane[i])
    BY <2>1 DEF Used, Follows
  <2>3. j \in FollowedIn(lane, lane[i])
    BY <2>1, <2>2 DEF FollowedIn, Follows
  <2>4. Source(lane, i) = Picked(FollowedIn(lane, lane[i]))
    BY <2>2, <2>3 DEF Source
  <2>5. Picked(FollowedIn(lane, lane[i])) \in FollowedIn(lane, lane[i])
    BY <2>3 DEF Picked
  <2>6. Source(lane, i) = j
    BY <2>2, <2>3, <2>4, <2>5 DEF FollowedIn, RanksInv, OneOfAName, Used
  <2>7. RankOf(i) = 1 + RankOf(j)
    <3>1. j # None
      BY <2>2 DEF Slots, None
    <3>2. RankIn(lane, i) <= MaxLanes
      BY <1>4, <2>1, RanksAreHops
    <3>3. QED
      BY <2>2, <2>6, <3>1, <3>2, RankAboveSource, RanksAreHops
  <2>8. QED
    BY <1>2, <1>4, <2>1, <2>2, <2>7
<1>8. QED
    BY <1>3, <1>5, <1>6, <1>7 DEF RanksInv
----------------------------------------------------------------------------
\* The editor's steps, and the ranks.

\* A lane that find() makes: its name is nobody else's.
LEMMA OpenedAlone ==
    ASSUME WholeInv, RanksInv, NEW n \in Names, NEW i \in Target(n),
           NEW l \in Lane, l.used = TRUE, l.name = n, lane' = [lane EXCEPT ![i] = l],
           RankZeroed(i, n), maxrank' = maxrank
    PROVE  /\ i \in Slots /\ lane'[i] = l
           /\ \A j \in Slots : j # i => lane'[j] = lane[j]
           /\ RanksTyped' /\ OneOfAName' /\ RanksBounded'
<1>1. i \in Slots
    BY OpenedTyped
<1>2. lane'[i] = l /\ \A j \in Slots : j # i => lane'[j] = lane[j]
    BY <1>1 DEF WholeInv, Shape
<1>3. RanksTyped'
    BY <1>1 DEF RanksInv, RanksTyped, RankZeroed
<1>4. \A j \in Used : lane[j].name = n => j = i
  <2>1. CASE Find(n) # {}
    <3>1. i \in Used /\ lane[i].name = n
      BY <2>1 DEF Target, Find, Used
    <3>2. QED
      BY <3>1 DEF RanksInv, OneOfAName
  <2>2. CASE Find(n) = {}
    BY <2>2 DEF Find, Used
  <2>3. QED
    BY <2>1, <2>2
<1>5. Used' = Used \cup {i}
    BY <1>1, <1>2 DEF Used
<1>6. OneOfAName'
    BY <1>2, <1>4, <1>5 DEF RanksInv, OneOfAName, Used
<1>7. RanksBounded'
  <2>1. ASSUME NEW j \in Used' PROVE rank'[j] <= maxrank
    <3>1. j \in Slots
      BY <2>1 DEF Used
    <3>2. CASE i \in Find(n)
      <4>1. i \in Used /\ rank' = rank
        BY <3>2 DEF Find, Used, RankZeroed
      <4>2. QED
        BY <1>5, <4>1, <2>1 DEF RanksInv, RanksBounded
    <3>3. CASE i \notin Find(n)
      <4>1. rank' = [rank EXCEPT ![i] = 0]
        BY <3>3 DEF RankZeroed
      <4>2. CASE j = i
        BY <1>1, <4>1, <4>2 DEF RanksInv, RanksTyped
      <4>3. CASE j # i
        <5>1. rank'[j] = rank[j] /\ j \in Used
          BY <1>5, <3>1, <4>1, <4>3, <2>1 DEF RanksInv, RanksTyped
        <5>2. QED
          BY <5>1 DEF RanksInv, RanksBounded
      <4>4. QED
        BY <4>2, <4>3
    <3>4. QED
      BY <3>2, <3>3
  <2>2. QED
    BY <2>1 DEF RanksBounded
<1>8. QED
    BY <1>1, <1>2, <1>3, <1>6, <1>7

LEMMA OpenedNamed ==
    ASSUME WholeInv, NEW n \in Names, NEW i \in Target(n)
    PROVE  Opened(i, n).used /\ Opened(i, n).name = n
    BY DEF Opened, Find, Fresh

\* Such a lane's command has not come to its rerank() yet.
LEMMA OpenedRanks ==
    ASSUME RanksTyped', OneOfAName', RanksBounded', lane'[ed'.i].used = TRUE,
           ed'.pc \in {"write", "untrig"}
    PROVE  RanksInv'
<1>1. EditedIsUsed'
    BY DEF EditedIsUsed
<1>2. ed'.pc \notin Settled
    BY DEF Settled, Freshly
<1>3. QED
    BY <1>1, <1>2, NotSettled

LEMMA WriteLaneRanks ==
    ASSUME WholeInv, RanksInv, NEW n \in Names, NEW p \in Pats, WriteLane(n, p)
    PROVE  RanksInv'
<1>1. PICK i \in Target(n) : /\ lane' = [lane EXCEPT ![i] = Opened(i, n)]
                             /\ RankZeroed(i, n) /\ Goto("write", i, p)
    BY DEF WriteLane
<1>2. PICK l \in Lane : l = Opened(i, n)
    BY OpenedTyped
<1>3. maxrank' = maxrank /\ ed'.i = i /\ ed'.pc = "write"
    BY <1>1 DEF WriteLane, Goto
<1>4. /\ l.used = TRUE /\ l.name = n /\ lane' = [lane EXCEPT ![i] = l]
      /\ RankZeroed(i, n) /\ maxrank' = maxrank
    BY <1>1, <1>2, <1>3, OpenedNamed DEF Lane
<1>5. i \in Slots /\ RanksTyped' /\ OneOfAName' /\ RanksBounded'
    BY <1>4, OpenedAlone
<1>6. lane'[i] = l
    BY <1>4, <1>5 DEF WholeInv, Shape
<1>7. QED
    BY <1>3, <1>4, <1>5, <1>6, OpenedRanks

LEMMA RouteRanks ==
    ASSUME WholeInv, RanksInv, NEW n \in Names, NEW s \in Sources \cup {NoRoute},
           Route(n, s)
    PROVE  RanksInv'
<1>1. PICK i \in Target(n) :
         /\ lane' = [lane EXCEPT ![i] = [Opened(i, n) EXCEPT !.route = s]]
         /\ RankZeroed(i, n) /\ Goto("untrig", i, Blank)
    BY DEF Route
<1>2. PICK l \in Lane : l = [Opened(i, n) EXCEPT !.route = s]
    BY OpenedTyped DEF Lane
<1>3. maxrank' = maxrank /\ ed'.i = i /\ ed'.pc = "untrig"
    BY <1>1 DEF Route, Goto
<1>4. /\ l.used = TRUE /\ l.name = n /\ lane' = [lane EXCEPT ![i] = l]
      /\ RankZeroed(i, n) /\ maxrank' = maxrank
    BY <1>1, <1>2, <1>3, OpenedNamed, OpenedTyped DEF Lane
<1>5. i \in Slots /\ RanksTyped' /\ OneOfAName' /\ RanksBounded'
    BY <1>4, OpenedAlone
<1>6. lane'[i] = l
    BY <1>4, <1>5 DEF WholeInv, Shape
<1>7. QED
    BY <1>3, <1>4, <1>5, <1>6, OpenedRanks

\* '>route foo foo': a lane that nobody followed by that name, without a pattern.
LEMMA RouteToItselfRanks ==
    ASSUME WholeInv, RanksInv, NEW n \in Names, RouteToItself(n) PROVE RanksInv'
<1>1. PICK i \in Target(n) : lane' = [lane EXCEPT ![i] = Fresh(n)] /\ RankZeroed(i, n)
    BY DEF RouteToItself
<1>2. /\ ed' = ed /\ ed.pc = "idle" /\ Find(n) = {} /\ maxrank' = maxrank
    BY DEF RouteToItself, Command, Idle
<1>3. /\ Fresh(n) \in Lane /\ Fresh(n).used = TRUE /\ Fresh(n).name = n /\ ~Routed(Fresh(n))
      /\ Fresh(n).pat.slots = 0
    BY FreshTyped DEF Fresh, Routed, Blank
<1>4. /\ i \in Slots /\ lane'[i] = Fresh(n)
      /\ \A j \in Slots : j # i => lane'[j] = lane[j]
      /\ RanksTyped' /\ OneOfAName' /\ RanksBounded'
    BY <1>1, <1>2, <1>3, OpenedAlone
<1>5. ~lane[i].used /\ \A j \in Slots : lane[j].used => lane[j].name # n
    BY <1>2, <1>1 DEF Target, Find, Free
<1>6. rank' = [rank EXCEPT ![i] = 0]
    BY <1>1, <1>2 DEF RankZeroed
<1>7. \A j \in Used : j \in Slots /\ j # i /\ rank'[j] = rank[j] /\ lane'[j] = lane[j]
    BY <1>4, <1>5, <1>6 DEF Used, RanksInv, RanksTyped
<1>8. Used' = Used \cup {i}
    BY <1>3, <1>4 DEF Used
<1>9. rank'[i] = 0
    BY <1>4, <1>6 DEF RanksInv, RanksTyped
<1>10. EditedIsUsed'
    BY <1>2 DEF EditedIsUsed, Holding
<1>11. RanksNotPast'
  <2>1. ASSUME NEW j \in Slots, j # i, Source(lane, j) # None
        PROVE  Source(lane', j) = Source(lane, j)
    <3>1. FollowedIn(lane, lane[j]) # {} /\ Routed(lane[j]) /\ lane'[j] = lane[j]
      BY <1>4, <2>1 DEF Source
    <3>2. lane[j].route.of # n
      BY <1>5, <3>1 DEF FollowedIn
    <3>3. FollowedIn(lane', lane'[j]) = FollowedIn(lane, lane[j])
      BY <1>3, <1>4, <1>5, <3>1, <3>2 DEF FollowedIn
    <3>4. QED
      BY <3>1, <3>3 DEF Source
  <2>2. ASSUME NEW j \in Used PROVE RankOf(j) <= RankOf(j)'
    <3>1. MaxLanes + 1 \in Depths
      BY LanesAssumption DEF Depths
    <3>2. \A k \in Slots : lane[k].used /\ Source(lane, k) # None
                             => Source(lane', k) = Source(lane, k)
      BY <1>5, <2>1
    <3>3. RankIn(lane, j) <= RankIn(lane', j)
      BY <3>1, <3>2, HopsGrow DEF RankIn, Used
    <3>4. QED
      BY <3>3, RanksAreHops
  <2>3. ASSUME NEW j \in Used' PROVE rank'[j] <= RankOf(j)'
    <3>1. RankOf(j)' \in Nat
      BY RankTyped, RanksAreHops, <2>3 DEF Used
    <3>2. CASE j = i
      BY <1>9, <3>1, <3>2
    <3>3. CASE j # i
      <4>1. j \in Used
        BY <1>8, <2>3, <3>3
      <4>2. rank[j] <= RankOf(j) /\ RankOf(j) \in Nat /\ rank[j] \in Nat
        BY <1>2, <4>1, RankTyped, RanksAreHops
           DEF RanksInv, RanksNotPast, RanksTyped, Settled, Used
      <4>3. QED
        BY <1>7, <2>2, <3>1, <4>1, <4>2
    <3>4. QED
      BY <3>2, <3>3
  <2>4. QED
    BY <2>3 DEF RanksNotPast
<1>12. SourcesFirst'
  <2>1. SUFFICES ASSUME NEW k \in Used', NEW j \in Used', Follows(k, j)',
                        rank'[k] <= MaxLanes
                 PROVE  rank'[j] < rank'[k] \/ lane'[j].pat.slots = 0
    BY <1>2 DEF SourcesFirst, Freshly
  <2>2. k # i
    BY <1>3, <1>4, <2>1 DEF Follows
  <2>3. k \in Used /\ lane'[k] = lane[k] /\ rank'[k] = rank[k]
    BY <1>7, <1>8, <2>1, <2>2
  <2>4. CASE j = i
    BY <1>3, <1>4, <2>4
  <2>5. CASE j # i
    <3>1. j \in Used /\ lane'[j] = lane[j] /\ rank'[j] = rank[j]
      BY <1>7, <1>8, <2>1, <2>5
    <3>2. Follows(k, j)
      BY <2>1, <2>3, <3>1 DEF Follows
    <3>3. QED
      BY <1>2, <2>1, <2>3, <3>1, <3>2 DEF RanksInv, SourcesFirst, Settled
  <2>6. QED
    BY <2>4, <2>5
<1>13. QED
    BY <1>4, <1>10, <1>11, <1>12 DEF RanksInv
----------------------------------------------------------------------------
LEMMA InitRanks == Init => RanksInv
<1> SUFFICES ASSUME Init PROVE RanksInv
    OBVIOUS
<1>1. \A i \in Slots : ~lane[i].used
    BY DEF Init, Unused, Fresh
<1>2. Used = {}
    BY <1>1 DEF Used
<1>3. RanksTyped
    BY DEF Init, RanksTyped
<1>4. ed.pc = "idle"
    BY DEF Init
<1>5. QED
    BY <1>2, <1>3, <1>4 DEF RanksInv, EditedIsUsed, Holding, OneOfAName, RanksBounded,
       RanksNotPast, SourcesFirst

LEMMA NothingMoved ==
    ASSUME lane' = lane PROVE SamePlaces(lane, lane')
    BY DEF SamePlaces

LEMMA EditedTyped ==
    ASSUME WholeInv
    PROVE  /\ ed.i \in Slots
           /\ lane \in [Slots -> Lane] /\ \A i \in Slots : lane[i] \in Lane
    BY DEF WholeInv, Shape

\* A command under way that leaves the names, the routes and the ranks.
LEMMA GoesOnRanks ==
    ASSUME WholeInv, WholeInv', RanksInv,
           FillEvents \/ FillRest \/ Unmute \/ Untrig \/ FromTheTop \/ Stop
    PROVE  RanksInv'
<1> USE EditedTyped
<1>0. ed'.i \in Slots /\ UNCHANGED rankVars
    BY EditedTyped DEF FillEvents, FillRest, Unmute, Untrig, FromTheTop, Stop, WholeInv, Shape
<1>1. CASE FillEvents
  <2>1. lane' = lane
    BY <1>1 DEF FillEvents
  <2>2. \/ ed.pc = "write" /\ ed'.pc = "fill" /\ ed'.i = ed.i
        \/ ed.pc = "sourced" /\ ed'.pc = "fillOne" /\ ed'.i = ed.i
    BY <1>1 DEF FillEvents, Goto
  <2>3. QED
    BY <1>0, <2>1, <2>2, NothingMoved, PlacesKept DEF Holding, Settled, Freshly
<1>2. CASE FillRest
  <2>1. lane' = lane
    BY <1>2 DEF FillRest
  <2>2. \/ ed.pc = "fill" /\ ed'.pc = "handed" /\ ed'.i = ed.i
        \/ ed.pc = "fillOne" /\ ed'.pc = "handedOne" /\ ed'.i = ed.i
    BY <1>2 DEF FillRest, Goto
  <2>3. QED
    BY <1>0, <2>1, <2>2, NothingMoved, PlacesKept DEF Holding, Settled, Freshly
<1>3. CASE Unmute
  <2>1. ed.pc \in {"unmute", "handedOne"} /\ ed'.pc = "idle"
    BY <1>3 DEF Unmute, Continue, Goto
  <2>2. lane[ed.i].used = TRUE
    BY <2>1 DEF RanksInv, EditedIsUsed, Holding, Lane
  <2>3. SamePlaces(lane, lane') /\ \A i \in Slots : lane'[i].pat = lane[i].pat
    BY <1>3, <2>2 DEF Unmute, SamePlaces, Lane
  <2>4. QED
    BY <1>0, <2>1, <2>3, PlacesKept DEF Holding, Settled, Freshly
<1>4. CASE Untrig
  <2>1. ed.pc = "untrig" /\ ed'.pc = "reroute" /\ ed'.i = ed.i
    BY <1>4 DEF Untrig, Continue, Goto
  <2>2. SamePlaces(lane, lane')
    BY <1>4 DEF Untrig, SamePlaces, Lane
  <2>3. QED
    BY <1>0, <2>1, <2>2, PlacesKept DEF Holding, Settled, Freshly
<1>5. CASE FromTheTop
  <2>1. ed.pc = "play" /\ ed'.pc = "idle" /\ lane' = lane
    BY <1>5 DEF FromTheTop, Continue, Goto
  <2>2. QED
    BY <1>0, <2>1, NothingMoved, PlacesKept DEF Holding, Settled, Freshly
<1>6. CASE Stop
  <2>1. ed.pc = "idle" /\ ed'.pc = "idle" /\ lane' = lane
    BY <1>6 DEF Stop, Idle, editVars
  <2>2. QED
    BY <1>0, <2>1, NothingMoved, PlacesKept DEF Holding, Settled, Freshly
<1>7. QED
    BY <1>1, <1>2, <1>3, <1>4, <1>5, <1>6

LEMMA RearmedPlaces ==
    ASSUME NEW l \in Lane
    PROVE  /\ Rearmed(l).used = l.used /\ Rearmed(l).name = l.name
           /\ Rearmed(l).route = l.route /\ Rearmed(l).pat = l.pat
    BY DEF Rearmed, Lane

\* A command that begins.
LEMMA BegunRanks ==
    ASSUME WholeInv, WholeInv', RanksInv, NEW n, NEW b,
           Mute(n, b) \/ Forget(n) \/ NewDocument \/ Play
    PROVE  RanksInv'
<1>0. ed'.i \in Slots /\ UNCHANGED rankVars /\ ed.pc = "idle"
    BY DEF Mute, Forget, NewDocument, Play, Command, Idle, WholeInv, Shape
<1>1. CASE Mute(n, b)
  <2>1. PICK i \in Find(n) : lane' = [lane EXCEPT ![i].muted = b]
    BY <1>1 DEF Mute
  <2>2. SamePlaces(lane, lane') /\ \A j \in Slots : lane'[j].pat = lane[j].pat
    BY <2>1, EditedTyped DEF SamePlaces, Lane, Find
  <2>3. ed' = ed
    BY <1>1 DEF Mute
  <2>4. QED
    BY <1>0, <2>2, <2>3, PlacesKept DEF Holding, Settled, Freshly
<1>2. CASE Forget(n)
  <2>1. PICK i \in Find(n) : lane' = [lane EXCEPT ![i].pat = Blank]
                             /\ Goto("release", i, Blank)
    BY <1>2 DEF Forget
  <2>2. SamePlaces(lane, lane') /\ ed'.pc = "release"
    BY <2>1, EditedTyped DEF SamePlaces, Lane, Find, Goto
  <2>3. QED
    BY <1>0, <2>2, PlacesKept DEF Holding, Settled, Freshly
<1>3. CASE NewDocument
  <2>1. lane' = lane /\ ed'.pc = "clear"
    BY <1>3 DEF NewDocument, Goto
  <2>2. QED
    BY <1>0, <2>1, NothingMoved, PlacesKept DEF Holding, Settled, Freshly
<1>4. CASE Play
  <2>1. lane' = [i \in Slots |-> Rearmed(lane[i])] /\ ed'.pc = "play"
    BY <1>4 DEF Play, Goto
  <2>2. SamePlaces(lane, lane') /\ \A j \in Slots : lane'[j].pat = lane[j].pat
    BY <2>1, EditedTyped, RearmedPlaces DEF SamePlaces
  <2>3. QED
    BY <1>0, <2>1, <2>2, PlacesKept DEF Holding, Settled, Freshly
<1>5. QED
    BY <1>1, <1>2, <1>3, <1>4

\* A lane that is let go leaves the others as they are.
LEMMA ReleasedRanks ==
    ASSUME WholeInv, WholeInv', RanksInv, Release \/ ClearLane
    PROVE  RanksInv'
<1>1. /\ lane' = [lane EXCEPT ![ed.i] = Released(lane[ed.i])]
      /\ UNCHANGED rankVars /\ ed'.pc \in {"rank", "clear"}
    BY DEF Release, ClearLane, Goto
<1>2. \A i \in Slots : lane'[i].used => i # ed.i /\ lane'[i] = lane[i]
  <2>1. Released(lane[ed.i]).used = FALSE
    BY EditedTyped DEF Released, Lane
  <2>2. lane'[ed.i] = Released(lane[ed.i])
    BY <1>1, EditedTyped
  <2>3. \A i \in Slots : i # ed.i => lane'[i] = lane[i]
    BY <1>1, EditedTyped
  <2>4. QED
    BY <2>1, <2>2, <2>3
<1>3. Used' \subseteq Used /\ \A i \in Used' : lane'[i].name = lane[i].name
    BY <1>2 DEF Used
<1>4. RanksTyped' /\ RanksBounded' /\ OneOfAName'
    BY <1>1, <1>3 DEF RanksInv, RanksTyped, RanksBounded, OneOfAName, rankVars
<1>5. EditedIsUsed' /\ ed'.pc \notin Settled
    BY <1>1 DEF EditedIsUsed, Holding, Settled, Freshly
<1>6. QED
    BY <1>4, <1>5, NotSettled

\* The end of an edit: rerank().
LEMMA RerankedRanks ==
    ASSUME WholeInv, RanksInv, LaneWritten \/ Forgotten \/ RouteDone
    PROVE  RanksInv'
<1>1. lane' = lane /\ rank' = Ranked /\ maxrank' = TopRank
    BY DEF LaneWritten, Forgotten, RouteDone, Rerank
<1>2. ed'.pc \in Holding => ed.pc \in Holding /\ ed'.i = ed.i
  <2>1. CASE LaneWritten
    BY <2>1 DEF LaneWritten, Rerank, Goto, Continue, Holding
  <2>2. CASE Forgotten
    BY <2>2 DEF Forgotten, Rerank, Goto, Continue, Holding
  <2>3. CASE RouteDone
    BY <2>3 DEF RouteDone, Goto, Continue, Holding
  <2>4. QED
    BY <2>1, <2>2, <2>3
<1>3. QED
    BY <1>1, <1>2, RerankKeeps

LEMMA EditorRanks ==
    ASSUME WholeInv, WholeInv', RanksInv, Editor PROVE RanksInv'
<1>1. CASE \E n \in Names : \E p \in Pats : WriteLane(n, p)
    BY <1>1, WriteLaneRanks
<1>2. CASE \E n \in Names : \E s \in Sources \cup {NoRoute} : Route(n, s)
    BY <1>2, RouteRanks
<1>3. CASE \E n \in Names : Forget(n) \/ \E b \in BOOLEAN : Mute(n, b)
    BY <1>3, BegunRanks
<1>4. CASE NewDocument \/ Play
    BY <1>4, BegunRanks
<1>5. CASE \E n \in Names : RouteToItself(n)
    BY <1>5, RouteToItselfRanks
<1>7. CASE FillEvents \/ FillRest \/ Unmute \/ Untrig \/ FromTheTop \/ Stop
    BY <1>7, GoesOnRanks
<1>8. CASE Release \/ ClearLane
    BY <1>8, ReleasedRanks
<1>9. CASE LaneWritten \/ Forgotten \/ RouteDone
    BY <1>9, RerankedRanks
<1>10. QED
    BY <1>1, <1>2, <1>3, <1>4, <1>5, <1>7, <1>8, <1>9 DEF Editor
----------------------------------------------------------------------------
(* A tick that no command runs into: rank by rank, and table order within. *)

\* What a visit leaves of a lane, and what it leaves of the others.
SamePlay(l, k) == /\ l.used = k.used /\ l.name = k.name
                  /\ l.route = k.route /\ l.pat = k.pat
SameCount(l, k) == /\ l.muted = k.muted /\ l.idle = k.idle
                   /\ l.done = k.done /\ l.origin = k.origin
Kept == \A i \in Slots :
            /\ SamePlay(lane'[i], lane[i])
            /\ i # Here => /\ SameCount(lane'[i], lane[i])
                           /\ lane[i].trig = TRUE => lane'[i].trig = TRUE

LEMMA OneKept ==
    ASSUME WholeInv, NEW l \in Lane, lane' = [lane EXCEPT ![Here] = l],
           SamePlay(l, lane[Here])
    PROVE  Kept /\ lane'[Here] = l
<1>1. lane'[Here] = l /\ \A i \in Slots : i # Here => lane'[i] = lane[i]
    BY AtHere, EditedTyped
<1>2. ASSUME NEW i \in Slots, i # Here
      PROVE  /\ SamePlay(lane'[i], lane[i]) /\ SameCount(lane'[i], lane[i])
             /\ lane[i].trig = TRUE => lane'[i].trig = TRUE
    BY <1>1, <1>2 DEF SamePlay, SameCount
<1>3. QED
    BY <1>1, <1>2 DEF Kept

LEMMA CountingPlay ==
    ASSUME WholeInv, NEW l \in Lane
    PROVE  SamePlay(Counting(l), l) /\ Counting(l).muted = l.muted
    BY DEF Counting, Lane, SamePlay

LEMMA ToldPlay ==
    ASSUME NEW ls \in [Slots -> Lane], NEW s, NEW i \in Slots
    PROVE  /\ SamePlay(Told(ls, s)[i], ls[i])
           /\ SameCount(Told(ls, s)[i], ls[i])
           /\ ls[i].trig = TRUE => Told(ls, s)[i].trig = TRUE
           /\ ls[i].route = s /\ ls[i].used => Told(ls, s)[i].trig = TRUE
<1>1. ls[i] \in Lane
    OBVIOUS
<1>2. Told(ls, s)[i] = IF ls[i].route = s /\ (s.end => ls[i].used)
                       THEN [ls[i] EXCEPT !.trig = TRUE] ELSE ls[i]
    BY DEF Told
<1>3. CASE ls[i].route = s /\ (s.end => ls[i].used)
  <2>1. Told(ls, s)[i] = [ls[i] EXCEPT !.trig = TRUE]
    BY <1>2, <1>3
  <2>2. QED
    BY <1>1, <2>1 DEF Lane, SamePlay, SameCount
<1>4. CASE ~(ls[i].route = s /\ (s.end => ls[i].used))
  <2>1. Told(ls, s)[i] = ls[i]
    BY <1>2, <1>4
  <2>2. ~(ls[i].route = s /\ ls[i].used)
    BY <1>4
  <2>3. QED
    BY <2>1, <2>2 DEF SamePlay, SameCount
<1>5. QED
    BY <1>3, <1>4

Visit == \/ PassOver \/ FireRouted \/ FireOwn
         \/ CountWaits \/ CountPlays \/ CountEnds \/ PlayEvent

\* What CountEnds writes of the lane that ended, before the others are told.
Ended == LET l == Counting(lane[Here])
         IN  [lane EXCEPT ![Here] = [l EXCEPT !.idle = TRUE, !.done = @ \/ ~Routed(l),
                                              !.muted = @ \/ ~Routed(l)]]

LEMMA EndedPlay ==
    ASSUME WholeInv
    PROVE  /\ Ended \in [Slots -> Lane]
           /\ SamePlay(Ended[Here], lane[Here])
           /\ \A i \in Slots : i # Here => Ended[i] = lane[i]
<1> DEFINE l == Counting(lane[Here])
           k == [l EXCEPT !.idle = TRUE, !.done = @ \/ ~Routed(l), !.muted = @ \/ ~Routed(l)]
<1>1. l \in Lane /\ SamePlay(l, lane[Here])
    BY AtHere, CountingTyped, CountingPlay
<1>2. k \in Lane /\ SamePlay(k, lane[Here])
  <2>1. (l.done \/ ~Routed(l)) \in BOOLEAN /\ (l.muted \/ ~Routed(l)) \in BOOLEAN
    BY <1>1 DEF Routed
  <2> HIDE DEF l
  <2>2. QED
    BY <1>1, <2>1 DEF Lane, SamePlay
<1>3. Ended = [lane EXCEPT ![Here] = k]
    BY DEF Ended
<1> HIDE DEF k
<1>4. QED
    BY <1>2, <1>3, AtHere, EditedTyped

\* A visit either writes the lane it is at, or tells those that follow it.
LEMMA VisitLanes ==
    ASSUME WholeInv, Visit PROVE Kept
<1> USE AtHere
<1>1. CASE PassOver \/ FireOwn
  <2>1. lane' = [lane EXCEPT ![Here] = lane[Here]]
    BY <1>1 DEF PassOver, FireOwn, OnwardWith, FireWith
  <2>2. QED
    BY <2>1, OneKept DEF SamePlay
<1>2. CASE FireRouted
  <2>1. lane' = [lane EXCEPT ![Here] = [lane[Here] EXCEPT !.trig = FALSE]]
    BY <1>2 DEF FireRouted, FireWith
  <2>2. /\ [lane[Here] EXCEPT !.trig = FALSE] \in Lane
        /\ SamePlay([lane[Here] EXCEPT !.trig = FALSE], lane[Here])
    BY DEF Lane, SamePlay
  <2>3. QED
    BY <2>1, <2>2, OneKept
<1>3. CASE CountWaits \/ CountPlays
  <2>1. lane' = [lane EXCEPT ![Here] = Counting(lane[Here])]
    BY <1>3 DEF CountWaits, CountPlays, OnwardWith, FireWith
  <2>2. Counting(lane[Here]) \in Lane /\ SamePlay(Counting(lane[Here]), lane[Here])
    BY CountingTyped, CountingPlay
  <2>3. QED
    BY <2>1, <2>2, OneKept
<1>4. CASE CountEnds
  <2>1. PICK e : lane' = Told(Ended, e)
    BY <1>4 DEF CountEnds, Ended
  <2>2. \A i \in Slots : /\ SamePlay(lane'[i], Ended[i])
                         /\ SameCount(lane'[i], Ended[i])
                         /\ Ended[i].trig = TRUE => lane'[i].trig = TRUE
    BY <2>1, EndedPlay, ToldPlay
  <2>3. QED
    BY <2>2, EndedPlay DEF Kept, SamePlay
<1>5. CASE PlayEvent
  <2>1. CASE lane' = lane
    BY <2>1 DEF Kept, SamePlay, SameCount
  <2>2. CASE lane' # lane
    <3>1. PICK s : lane' = Told(lane, s)
      BY <1>5, <2>2 DEF PlayEvent
    <3>2. QED
      BY <3>1, EditedTyped, ToldPlay DEF Kept
  <2>3. QED
    BY <2>1, <2>2
<1>6. QED
    BY <1>1, <1>2, <1>3, <1>4, <1>5 DEF Visit

LEMMA VisitLeaves ==
    ASSUME Visit
    PROVE  UNCHANGED visitUnchanged /\ clk.pc \in {"look", "play"}
    BY DEF Visit, PassOver, FireRouted, FireOwn, CountWaits, CountPlays, CountEnds,
           PlayEvent, CountsNow

LEMMA BetweenTicks ==
    ASSUME WholeInv, \/ NothingStaged \/ TakeEvents \/ TakeRest
                     \/ RestTick \/ BeginTick \/ EndTick
    PROVE  /\ SamePlaces(lane, lane') /\ UNCHANGED rankVars /\ ed' = ed
           /\ ed.pc \in {"idle", "play"} => \A i \in Slots : lane'[i].pat = lane[i].pat
<1> USE EditedTyped
<1>1. CASE NothingStaged \/ RestTick \/ EndTick
    BY <1>1, NothingMoved DEF NothingStaged, RestTick, EndTick, editVars
<1>2. CASE TakeEvents
  <2>1. stageFor \in Slots
    BY <1>2 DEF TakeEvents, WholeInv, Shape
  <2>2. QED
    BY <1>2, <2>1 DEF TakeEvents, SamePlaces, Lane, editVars
<1>3. CASE TakeRest
  <2>1. clk.i \in Slots /\ stageFor # None /\ ed.pc \in {"handed", "handedOne"}
    BY <1>3 DEF TakeRest, WholeInv, Shape, TakingBegun, StageWhole, Slots, None
  <2>2. QED
    BY <1>3, <2>1 DEF TakeRest, SamePlaces, Lane, editVars
<1>4. CASE BeginTick
  <2>1. PICK again \in SUBSET Slots :
           lane' = [i \in Slots |-> [lane[i] EXCEPT !.idle = @ \/ i \in again]]
    BY <1>4 DEF BeginTick
  <2>2. ASSUME NEW i \in Slots
        PROVE  /\ lane'[i].used = lane[i].used /\ lane'[i].name = lane[i].name
               /\ lane'[i].route = lane[i].route /\ lane'[i].pat = lane[i].pat
    BY <2>1 DEF Lane
  <2>3. QED
    BY <1>4, <2>2 DEF SamePlaces, BeginTick, editVars
<1>5. QED
    BY <1>1, <1>2, <1>3, <1>4

LEMMA ClockRanks ==
    ASSUME WholeInv, RanksInv, Clock PROVE RanksInv'
<1>1. /\ SamePlaces(lane, lane') /\ UNCHANGED rankVars /\ ed' = ed
      /\ ed.pc \in {"idle", "play"} => \A i \in Slots : lane'[i].pat = lane[i].pat
  <2>1. CASE Visit
    BY <2>1, VisitLanes, VisitLeaves DEF Kept, SamePlay, SamePlaces, visitUnchanged, editVars
  <2>2. CASE ~Visit
    BY <2>2, BetweenTicks DEF Clock, Visit
  <2>3. QED
    BY <2>1, <2>2
<1>2. QED
    BY <1>1, EditedTyped, PlacesKept DEF Settled, Freshly
----------------------------------------------------------------------------
\* The lane has had its visit in this tick.
Visited(i) == rank[i] < Pass \/ (rank[i] = Pass /\ i < Here)

Own(l) == [of |-> l.name, end |-> FALSE]
Hears(l) == l.used /\ ~l.muted /\ l.pat.slots # 0 /\ Sidechain(l)

RankByRank == passes = maxrank + 1
HereInTurn == clk.pc = "play" => /\ lane[Here].used /\ rank[Here] = Pass
                                 /\ lane[Here].pat.slots # 0
                                 /\ clk.side = TRUE <=> Sidechain(lane[Here])

\* What has played was visited, and had a pattern.
FiredVisited ==
    \A s \in fired : \E j \in Used :
        lane[j].name = s.of /\ lane[j].pat.slots # 0 /\ Visited(j)

\* A lane whose source has played has played, or is told to and has its visit
\* before it.
HeardSoFar ==
    \A i \in Slots :
        Hears(lane[i]) /\ rank[i] <= MaxLanes /\ lane[i].route \in fired
        => /\ Visited(i) => Own(lane[i]) \in fired
           /\ ~Visited(i) => lane[i].trig = TRUE \/ (clk.pc = "play" /\ i = Here)

Quietly == quiet = TRUE /\ clk.pc \in {"look", "play"}
TickInv == /\ quiet = TRUE => ed.pc = "idle"
           /\ Quietly => RankByRank /\ HereInTurn /\ FiredVisited /\ HeardSoFar

LEMMA PassTyped ==
    ASSUME WholeInv PROVE clk.pos \in Nat /\ Pass \in Nat /\ Here \in Slots
<1>1. clk.pos \in Nat
    BY DEF WholeInv, Shape
<1>2. MaxLanes \in Nat \ {0}
    BY LanesAssumption
<1>3. QED
    BY <1>1, <1>2, HereTyped DEF Pass

\* The visits go through the table once for each rank.
LEMMA NextVisit ==
    ASSUME NEW p \in Nat, NEW m \in Nat \ {0}
    PROVE  \/ ((p + 1) % m) = (p % m) + 1 /\ ((p + 1) \div m) = (p \div m)
           \/ ((p + 1) % m) = 0 /\ (p % m) = m - 1 /\ ((p + 1) \div m) = (p \div m) + 1
    OBVIOUS

LEMMA VisitedNext ==
    ASSUME WholeInv, RanksInv, rank' = rank, clk'.pos = clk.pos + 1, NEW i \in Slots
    PROVE  Visited(i)' <=> Visited(i) \/ (rank[i] = Pass /\ i = Here)
<1>1. rank[i] \in Nat /\ i \in 1..MaxLanes /\ MaxLanes \in Nat \ {0}
    BY LanesAssumption DEF RanksInv, RanksTyped, Slots
<1>2. clk.pos \in Nat /\ Pass \in Nat /\ Here \in 1..MaxLanes
    BY PassTyped DEF Slots
<1>3. \/ Here' = Here + 1 /\ Pass' = Pass
      \/ Here' = 1 /\ Here = MaxLanes /\ Pass' = Pass + 1
  <2>1. /\ Here' = ((clk.pos + 1) % MaxLanes) + 1 /\ Here = (clk.pos % MaxLanes) + 1
        /\ Pass' = ((clk.pos + 1) \div MaxLanes) /\ Pass = (clk.pos \div MaxLanes)
    BY DEF Here, Pass
  <2>2. (clk.pos % MaxLanes) \in Nat
    BY <1>1, <1>2
  <2>3. \/ ((clk.pos + 1) % MaxLanes) = (clk.pos % MaxLanes) + 1
           /\ ((clk.pos + 1) \div MaxLanes) = (clk.pos \div MaxLanes)
        \/ ((clk.pos + 1) % MaxLanes) = 0 /\ (clk.pos % MaxLanes) = MaxLanes - 1
           /\ ((clk.pos + 1) \div MaxLanes) = (clk.pos \div MaxLanes) + 1
    BY <1>1, <1>2, NextVisit
  <2>4. QED
    BY <1>1, <2>1, <2>2, <2>3
<1>4. Visited(i)' <=> (rank[i] < Pass' \/ (rank[i] = Pass' /\ i < Here'))
    BY DEF Visited
<1>5. QED
    BY <1>1, <1>2, <1>3, <1>4 DEF Visited

LEMMA VisitedStays ==
    ASSUME rank' = rank, clk'.pos = clk.pos
    PROVE  Here' = Here /\ Pass' = Pass /\ \A i \in Slots : Visited(i)' <=> Visited(i)
    BY DEF Here, Pass, Visited

\* A visit in a quiet tick.
QuietVisit == /\ WholeInv /\ RanksInv /\ TickInv /\ Visit /\ quiet = TRUE

LEMMA QuietVisitLeaves ==
    ASSUME QuietVisit
    PROVE  /\ quiet' = quiet /\ ed' = ed /\ rank' = rank /\ ed.pc = "idle"
           /\ RankByRank' /\ RankByRank /\ HereInTurn /\ FiredVisited /\ HeardSoFar
           /\ Kept /\ Used' = Used
<1>1. UNCHANGED visitUnchanged /\ clk.pc \in {"look", "play"} /\ Kept
    BY VisitLeaves, VisitLanes DEF QuietVisit
<1>2. /\ quiet' = quiet /\ ed' = ed /\ rank' = rank
      /\ maxrank' = maxrank /\ passes' = passes
    BY <1>1 DEF visitUnchanged, editVars, rankVars
<1>3. RankByRank /\ HereInTurn /\ FiredVisited /\ HeardSoFar /\ ed.pc = "idle"
    BY <1>1 DEF QuietVisit, TickInv, Quietly
<1>4. RankByRank'
    BY <1>2, <1>3 DEF RankByRank
<1>5. Used' = Used
    BY <1>1 DEF Kept, SamePlay, Used
<1>6. QED
    BY <1>1, <1>2, <1>3, <1>4, <1>5

\* What has played has had its visit, and so has what plays now.
LEMMA FiredStays ==
    ASSUME QuietVisit, clk'.pos \in {clk.pos, clk.pos + 1},
           \A s \in fired' : s \in fired \/
               /\ s.of = lane[Here].name /\ Here \in Used /\ lane[Here].pat.slots # 0
               /\ rank[Here] = Pass /\ clk'.pos = clk.pos + 1
    PROVE  FiredVisited'
<1>1. WholeInv /\ RanksInv /\ rank' = rank /\ FiredVisited /\ Used' = Used /\ Kept
    BY QuietVisitLeaves DEF QuietVisit
<1>2. ASSUME NEW s \in fired'
      PROVE  \E j \in Used' : lane'[j].name = s.of /\ lane'[j].pat.slots # 0 /\ Visited(j)'
  <2>1. CASE s \in fired
    <3>1. PICK j \in Used : lane[j].name = s.of /\ lane[j].pat.slots # 0 /\ Visited(j)
      BY <1>1, <2>1 DEF FiredVisited
    <3>2. j \in Slots
      BY DEF Used
    <3>3. Visited(j)'
      BY <1>1, <3>1, <3>2, VisitedNext, VisitedStays
    <3>4. lane'[j].name = s.of /\ lane'[j].pat.slots # 0
      BY <1>1, <3>1, <3>2 DEF Kept, SamePlay
    <3>5. QED
      BY <1>1, <3>3, <3>4
  <2>2. CASE s \notin fired
    <3>1. /\ s.of = lane[Here].name /\ Here \in Used /\ lane[Here].pat.slots # 0
          /\ rank[Here] = Pass /\ clk'.pos = clk.pos + 1
      BY <1>2, <2>2
    <3>2. Here \in Slots
      BY <1>1, PassTyped
    <3>3. PICK j \in Slots : j = Here
      BY <3>2
    <3>4. Visited(j)'
      BY <1>1, <3>1, <3>3, VisitedNext
    <3>5. lane'[j].name = s.of /\ lane'[j].pat.slots # 0 /\ j \in Used'
      BY <1>1, <3>1, <3>3 DEF Kept, SamePlay
    <3>6. QED
      BY <3>4, <3>5
  <2>3. QED
    BY <2>1, <2>2
<1>3. QED
    BY <1>2 DEF FiredVisited

\* A lane that the clock is not at goes on hearing its source.
LEMMA StillHears ==
    ASSUME QuietVisit, clk'.pos \in {clk.pos, clk.pos + 1}, fired \subseteq fired',
           NEW i \in Slots, i # Here, Hears(lane'[i]), rank[i] <= MaxLanes,
           lane[i].route \notin fired =>
               /\ lane[i].route.of = lane[Here].name
               /\ Here \in Used /\ lane[Here].pat.slots # 0 /\ rank[Here] = Pass
               /\ lane'[i].trig = TRUE
    PROVE  /\ Visited(i)' => Own(lane'[i]) \in fired'
           /\ ~Visited(i)' => lane'[i].trig = TRUE
<1>1. WholeInv /\ RanksInv /\ rank' = rank /\ HeardSoFar /\ Kept /\ ed.pc = "idle"
    BY QuietVisitLeaves DEF QuietVisit
<1>2. Visited(i)' <=> Visited(i)
    BY <1>1, VisitedNext, VisitedStays
<1>3. /\ SamePlay(lane'[i], lane[i]) /\ lane'[i].muted = lane[i].muted
      /\ lane[i].trig = TRUE => lane'[i].trig = TRUE
    BY <1>1 DEF Kept, SameCount
<1>4. Hears(lane[i]) /\ Own(lane'[i]) = Own(lane[i])
    BY <1>3 DEF Hears, Own, SamePlay, Sidechain, Routed
<1>5. CASE lane[i].route \in fired
    BY <1>1, <1>2, <1>3, <1>4, <1>5 DEF HeardSoFar
<1>6. CASE lane[i].route \notin fired
  <2>1. Here \in Slots /\ Pass \in Nat /\ rank[i] \in Nat
    BY <1>1, PassTyped DEF RanksInv, RanksTyped
  <2>2. Follows(i, Here) /\ i \in Used
    BY <1>4, <1>6 DEF Follows, Hears, Sidechain, Used
  <2>3. rank[Here] < rank[i]
    BY <1>1, <1>6, <2>2 DEF RanksInv, SourcesFirst, Settled
  <2>4. ~Visited(i)
    BY <1>6, <2>1, <2>3 DEF Visited
  <2>5. QED
    BY <1>2, <1>6, <2>4
<1>7. QED
    BY <1>5, <1>6
----------------------------------------------------------------------------
\* What is left to show of a quiet visit.
LEMMA QuietVisitDone ==
    ASSUME QuietVisit, HereInTurn', FiredVisited', HeardSoFar' PROVE TickInv'
    BY QuietVisitLeaves DEF TickInv

\* The lane that the clock is at.
LEMMA HereNext ==
    ASSUME QuietVisit
    PROVE  /\ Here \in Slots /\ lane[Here] \in Lane /\ lane'[Here] \in Lane
           /\ SamePlay(lane'[Here], lane[Here])
           /\ Sidechain(lane'[Here]) <=> Sidechain(lane[Here])
           /\ rank[Here] = Pass => ~Visited(Here)
<1>1. WholeInv /\ Kept /\ lane' \in [Slots -> Lane] /\ Here \in Slots
  <2>1. WholeInv /\ Kept /\ Here \in Slots
    BY QuietVisitLeaves, PassTyped DEF QuietVisit
  <2>2. Clock
    BY DEF QuietVisit, Visit, Clock
  <2>3. WholeInv'
    BY <2>1, <2>2, ClockKeeps
  <2>4. QED
    BY <2>1, <2>3 DEF WholeInv, Shape
<1>2. SamePlay(lane'[Here], lane[Here])
    BY <1>1 DEF Kept
<1>3. Pass \in Nat /\ Here \in Nat
    BY <1>1, PassTyped DEF Slots
<1>4. rank[Here] = Pass => ~Visited(Here)
    BY <1>3 DEF Visited
<1>5. QED
    BY <1>1, <1>2, <1>4, AtHere DEF SamePlay, Sidechain, Routed

LEMMA PassOverHeard ==
    ASSUME QuietVisit, PassOver PROVE TickInv'
<1>1. /\ clk.pc = "look" /\ clk'.pc = "look" /\ clk'.pos = clk.pos + 1
      /\ fired' = fired /\ lane' = lane
  <2>1. clk' = [clk EXCEPT !.pos = clk.pos + 1] /\ lane' = [lane EXCEPT ![Here] = lane[Here]]
    BY DEF PassOver, OnwardWith
  <2>2. QED
    BY <2>1, EditedTyped DEF PassOver, seenVars, QuietVisit, WholeInv, Shape
<1>2. FiredVisited' /\ HereInTurn'
    BY <1>1, FiredStays DEF HereInTurn
<1>3. ASSUME NEW i \in Slots, Hears(lane'[i]), rank'[i] <= MaxLanes, lane'[i].route \in fired'
      PROVE  /\ Visited(i)' => Own(lane'[i]) \in fired'
             /\ ~Visited(i)' => lane'[i].trig = TRUE
  <2>1. rank' = rank /\ HeardSoFar /\ WholeInv /\ RanksInv
    BY QuietVisitLeaves DEF QuietVisit
  <2>2. CASE i # Here
    BY <1>1, <1>3, <2>1, <2>2, StillHears
  <2>3. CASE i = Here
    <3>1. Visited(i)' <=> Visited(i) \/ rank[i] = Pass
      BY <1>1, <2>1, <2>3, VisitedNext
    <3>2. /\ Visited(i) => Own(lane[i]) \in fired
          /\ ~Visited(i) => lane[i].trig = TRUE
      BY <1>1, <1>3, <2>1 DEF HeardSoFar
    <3>3. rank[i] # Pass
      <4>1. SUFFICES ASSUME rank[i] = Pass PROVE FALSE
        OBVIOUS
      <4>2. InTurn(lane[Here]) /\ Sidechain(lane[Here])
        BY <1>1, <1>3, <2>3, <4>1 DEF Hears, InTurn
      <4>3. lane[Here].trig = TRUE
        BY <2>3, <3>2, <4>1, HereNext
      <4>4. QED
        BY <4>2, <4>3 DEF PassOver
    <3>4. QED
      BY <1>1, <3>1, <3>2, <3>3
  <2>4. QED
    BY <2>2, <2>3
<1>4. HeardSoFar'
    BY <1>3 DEF HeardSoFar
<1>5. QED
    BY <1>2, <1>4, QuietVisitDone

\* A lane found in turn: it plays next.
LEMMA FoundHeard ==
    ASSUME QuietVisit, clk'.pc = "play", clk'.pos = clk.pos, fired' = fired,
           clk.pc = "look", InTurn(lane[Here]),
           clk'.side = TRUE <=> Sidechain(lane[Here])
    PROVE  TickInv'
<1>1. rank' = rank /\ Here' = Here /\ Pass' = Pass
    BY QuietVisitLeaves, VisitedStays
<1>2. HereInTurn'
    BY <1>1, HereNext DEF HereInTurn, InTurn, SamePlay
<1>3. FiredVisited'
    BY FiredStays
<1>4. ASSUME NEW i \in Slots, Hears(lane'[i]), rank'[i] <= MaxLanes, lane'[i].route \in fired'
      PROVE  /\ Visited(i)' => Own(lane'[i]) \in fired'
             /\ ~Visited(i)' => lane'[i].trig = TRUE \/ i = Here
  <2>1. CASE i # Here
    <3>1. lane'[i].route = lane[i].route
      BY QuietVisitLeaves DEF Kept, SamePlay
    <3>2. QED
      BY <1>1, <1>4, <2>1, <3>1, StillHears
  <2>2. CASE i = Here
    <3>1. ~Visited(i)
      BY <2>2, HereNext DEF InTurn
    <3>2. ~Visited(i)'
      BY <1>1, <3>1, VisitedStays
    <3>3. QED
      BY <2>2, <3>2
  <2>3. QED
    BY <2>1, <2>2
<1>5. HeardSoFar'
    BY <1>1, <1>4 DEF HeardSoFar
<1>6. QED
    BY <1>2, <1>3, <1>5, QuietVisitDone

LEMMA FireHeard ==
    ASSUME QuietVisit, FireRouted \/ FireOwn \/ CountPlays PROVE TickInv'
<1>1. /\ clk.pc = "look" /\ fired' = fired /\ InTurn(lane[Here])
      /\ clk \in ClockAt
    BY DEF FireRouted, FireOwn, CountPlays, CountsNow, seenVars, QuietVisit, WholeInv,
           Shape, ClockAt
<1>2. clk'.pc = "play" /\ clk'.pos = clk.pos
    BY <1>1 DEF FireRouted, FireOwn, CountPlays, FireWith, ClockAt
<1>3. clk'.side = TRUE <=> Sidechain(lane[Here])
  <2>1. CASE FireRouted
    BY <1>1, <2>1 DEF FireRouted, FireWith, ClockAt
  <2>2. CASE FireOwn \/ CountPlays
    <3>1. ~Sidechain(lane[Here])
      BY <2>2 DEF FireOwn, CountPlays, CountsNow, Sidechain
    <3>2. clk'.side = FALSE
      BY <1>1, <2>2 DEF FireOwn, CountPlays, FireWith, ClockAt
    <3>3. QED
      BY <3>1, <3>2
  <2>3. QED
    BY <2>1, <2>2
<1>4. QED
    BY <1>1, <1>2, <1>3, FoundHeard

\* A lane that has had its turn: what it plays it is to tell.
LEMMA TurnOverHeard ==
    ASSUME QuietVisit, clk'.pc = "look", clk'.pos = clk.pos + 1,
           lane[Here].used, lane[Here].pat.slots # 0, rank[Here] = Pass,
           NEW s, s.of = lane[Here].name, fired' = fired \/ fired' = fired \cup {s},
           \A i \in Slots : fired' # fired /\ i # Here /\ lane[i].route = s /\ lane[i].used
                               => lane'[i].trig = TRUE,
           Hears(lane'[Here]) => Own(lane'[Here]) \in fired'
    PROVE  TickInv'
<1>1. rank' = rank /\ WholeInv /\ RanksInv /\ Here \in Used /\ Kept
    BY QuietVisitLeaves, HereNext DEF Used, QuietVisit
<1>2. HereInTurn'
    BY DEF HereInTurn
<1>3. FiredVisited'
    BY <1>1, FiredStays
<1>4. ASSUME NEW i \in Slots, Hears(lane'[i]), rank'[i] <= MaxLanes, lane'[i].route \in fired'
      PROVE  /\ Visited(i)' => Own(lane'[i]) \in fired'
             /\ ~Visited(i)' => lane'[i].trig = TRUE
  <2>1. CASE i # Here
    <3>1. lane'[i].route = lane[i].route /\ lane[i].used
      BY <1>1, <1>4 DEF Kept, SamePlay, Hears
    <3>2. lane[i].route \notin fired => lane[i].route = s /\ fired' # fired
      BY <1>4, <3>1
    <3>3. QED
      BY <1>1, <1>4, <2>1, <3>1, <3>2, StillHears
  <2>2. CASE i = Here
    <3>1. Visited(i)'
      BY <1>1, <2>2, VisitedNext
    <3>2. QED
      BY <1>4, <2>2, <3>1
  <2>3. QED
    BY <2>1, <2>2
<1>5. HeardSoFar'
    BY <1>4 DEF HeardSoFar
<1>6. QED
    BY <1>2, <1>3, <1>5, QuietVisitDone

LEMMA CountWaitsHeard ==
    ASSUME QuietVisit, CountWaits PROVE TickInv'
<1>1. /\ clk.pc = "look" /\ InTurn(lane[Here]) /\ lane[Here].pat.count # 0
      /\ fired' = fired
    BY DEF CountWaits, CountsNow, seenVars
<1>2. clk' = [clk EXCEPT !.pos = clk.pos + 1] /\ clk \in ClockAt
    BY DEF CountWaits, OnwardWith, QuietVisit, WholeInv, Shape, ClockAt
<1>3. clk'.pc = "look" /\ clk'.pos = clk.pos + 1
    BY <1>1, <1>2 DEF ClockAt
<1>4. ~Hears(lane'[Here])
    BY <1>1, HereNext DEF Hears, Sidechain
<1>5. Own(lane[Here]).of = lane[Here].name
    BY DEF Own
<1>6. QED
    BY <1>1, <1>3, <1>4, <1>5, TurnOverHeard DEF InTurn

LEMMA CountEndsHeard ==
    ASSUME QuietVisit, CountEnds PROVE TickInv'
<1> DEFINE e == [of |-> Counting(lane[Here]).name, end |-> TRUE]
<1>1. /\ clk.pc = "look" /\ InTurn(lane[Here]) /\ lane[Here].pat.count # 0
      /\ fired' = fired \cup {e} /\ lane' = Told(Ended, e)
    BY DEF CountEnds, CountsNow, Ended
<1>2. clk' = [clk EXCEPT !.pos = clk.pos + 1] /\ clk \in ClockAt
    BY DEF CountEnds, QuietVisit, WholeInv, Shape, ClockAt
<1>3. clk'.pc = "look" /\ clk'.pos = clk.pos + 1
    BY <1>1, <1>2 DEF ClockAt
<1>4. e.of = lane[Here].name
    BY CountingPlay, HereNext DEF SamePlay, QuietVisit
<1>5. ~Hears(lane'[Here])
    BY <1>1, HereNext DEF Hears, Sidechain
<1> HIDE DEF e
<1>6. ASSUME NEW i \in Slots, i # Here, lane[i].route = e, lane[i].used
      PROVE  lane'[i].trig = TRUE
  <2>1. Ended \in [Slots -> Lane] /\ Ended[i] = lane[i]
    BY <1>6, EndedPlay DEF QuietVisit
  <2>2. QED
    BY <1>1, <1>6, <2>1, ToldPlay
<1>7. QED
    BY <1>1, <1>3, <1>4, <1>5, <1>6, TurnOverHeard DEF InTurn

LEMMA PlayHeard ==
    ASSUME QuietVisit, PlayEvent PROVE TickInv'
<1>1. clk' = [clk EXCEPT !.pc = "look", !.pos = clk.pos + 1, !.pat = Blank, !.side = FALSE]
      /\ clk \in ClockAt /\ clk.pc = "play"
    BY DEF PlayEvent, QuietVisit, WholeInv, Shape, ClockAt
<1>2. clk'.pc = "look" /\ clk'.pos = clk.pos + 1
    BY <1>1 DEF ClockAt
<1>3. /\ lane[Here].used /\ rank[Here] = Pass /\ lane[Here].pat.slots # 0
      /\ clk.side = TRUE <=> Sidechain(lane[Here])
    BY <1>1, QuietVisitLeaves DEF HereInTurn
<1> DEFINE s == [of |-> lane[Here].name, end |-> FALSE]
<1>4. s.of = lane[Here].name /\ Own(lane'[Here]) = s
    BY HereNext DEF Own, SamePlay
<1>5. CASE lane[Here].ev = Blank /\ ~clk.side
  <2>1. fired' = fired
    BY <1>5 DEF PlayEvent
  <2>2. ~Hears(lane'[Here])
    <3>1. clk.side # TRUE
      BY <1>5
    <3>2. QED
      BY <1>3, <3>1, HereNext DEF Hears
  <2> HIDE DEF s
  <2>3. QED
    BY <1>2, <1>3, <1>4, <2>1, <2>2, TurnOverHeard
<1>6. CASE ~(lane[Here].ev = Blank /\ ~clk.side)
  <2>1. lane' = Told(lane, s) /\ fired' = fired \cup {s}
    BY <1>6 DEF PlayEvent
  <2> HIDE DEF s
  <2>2. ASSUME NEW i \in Slots, lane[i].route = s, lane[i].used
        PROVE  lane'[i].trig = TRUE
    BY <2>1, <2>2, ToldPlay, EditedTyped DEF QuietVisit
  <2>3. Own(lane'[Here]) \in fired'
    BY <1>4, <2>1
  <2>4. QED
    BY <1>2, <1>3, <1>4, <2>1, <2>2, <2>3, TurnOverHeard
<1>7. QED
    BY <1>5, <1>6

LEMMA InitHeard == Init => TickInv
    BY DEF Init, TickInv, Quietly

\* A command ends the quiet; a tick that begins has fired nothing.
LEMMA LoudHeard ==
    ASSUME WholeInv, TickInv, ~Visit, Next PROVE TickInv'
<1>1. CASE Editor
  <2>1. quiet' = FALSE
    BY <1>1 DEF Editor, WriteLane, Route, Mute, Forget, RouteToItself, Command,
           FillEvents, FillRest, LaneWritten, Unmute, Continue, Release, Forgotten,
           NewDocument, ClearLane, Untrig, RouteDone, Play, FromTheTop, Stop
  <2>2. QED
    BY <2>1 DEF TickInv, Quietly
<1>2. CASE EndTick
  <2>1. quiet' = FALSE
    BY <1>2 DEF EndTick
  <2>2. QED
    BY <2>1 DEF TickInv, Quietly
<1>3. CASE NothingStaged \/ TakeEvents \/ TakeRest \/ RestTick
  <2>1. quiet' = quiet /\ ed' = ed
    BY <1>3 DEF NothingStaged, TakeEvents, TakeRest, RestTick, editVars
  <2>2. clk'.pc \in {"begin", "taking", "off"}
    BY <1>3 DEF NothingStaged, TakeEvents, TakeRest, RestTick, WholeInv, Shape
  <2>3. QED
    BY <2>1, <2>2 DEF TickInv, Quietly
<1>4. CASE BeginTick
  <2>1. /\ quiet' = (ed.pc = "idle") /\ ed' = ed /\ fired' = {}
        /\ passes' = maxrank + 1 /\ maxrank' = maxrank
    BY <1>4 DEF BeginTick, editVars, rankVars
  <2>2. clk'.pc = "look"
    BY <1>4 DEF BeginTick, WholeInv, Shape
  <2>3. RankByRank' /\ HereInTurn' /\ FiredVisited' /\ HeardSoFar'
    BY <2>1, <2>2 DEF RankByRank, HereInTurn, FiredVisited, HeardSoFar
  <2>4. QED
    BY <2>1, <2>3 DEF TickInv, Quietly
<1>5. QED
    BY <1>1, <1>2, <1>3, <1>4 DEF Next, Clock, Visit

LEMMA StepHeard ==
    ASSUME WholeInv, RanksInv, TickInv, Next PROVE TickInv'
<1>1. CASE Visit
  <2>1. CASE quiet = TRUE
    BY <1>1, <2>1, PassOverHeard, FireHeard, CountWaitsHeard, CountEndsHeard, PlayHeard
       DEF Visit, QuietVisit
  <2>2. CASE quiet # TRUE
    <3>1. quiet' = quiet
      BY <1>1, VisitLeaves DEF visitUnchanged
    <3>2. QED
      BY <2>2, <3>1 DEF TickInv, Quietly
  <2>3. QED
    BY <2>1, <2>2
<1>2. CASE ~Visit
    BY <1>2, LoudHeard
<1>3. QED
    BY <1>1, <1>2

HeardInv == WholeInv /\ RanksInv /\ TickInv

LEMMA InitHeardInv == Init => HeardInv
    BY InitWhole, InitRanks, InitHeard DEF HeardInv

LEMMA StepHeardInv == HeardInv /\ [Next]_vars => HeardInv'
<1>1. ASSUME HeardInv, Next PROVE HeardInv'
  <2>1. WholeInv'
    BY <1>1, StepWhole DEF HeardInv
  <2>2. RanksInv'
    BY <1>1, <2>1, EditorRanks, ClockRanks DEF Next, HeardInv
  <2>3. TickInv'
    BY <1>1, StepHeard DEF HeardInv
  <2>4. QED
    BY <2>1, <2>2, <2>3 DEF HeardInv
<1>2. ASSUME HeardInv, UNCHANGED vars PROVE HeardInv'
  <2>1. WholeInv'
    BY <1>2, StepWhole DEF HeardInv
  <2>2. /\ UNCHANGED <<lane, rankVars, ed, quiet, clk, fired, passes>>
        /\ rank' = rank /\ maxrank' = maxrank
    BY <1>2 DEF vars, editVars, clockVars, seenVars, rankVars
  <2>3. RanksInv'
    BY <1>2, <2>2, EditedTyped, NothingMoved, PlacesKept DEF HeardInv, Settled, Freshly
  <2>4. TickInv'
    BY <1>2, <2>2 DEF HeardInv, TickInv, Quietly, RankByRank, HereInTurn, FiredVisited,
       HeardSoFar, Here, Pass, Visited, Used
  <2>5. QED
    BY <2>1, <2>3, <2>4 DEF HeardInv
<1>3. QED
    BY <1>1, <1>2

LEMMA WholeTicks ==
    ASSUME NEW q \in Nat, NEW m \in Nat \ {0} PROVE (q * m) \div m = q
    OBVIOUS

\* When the last visit of a tick is over every rank has had its turn.
LEMMA AllVisited ==
    ASSUME HeardInv, AtEnd, quiet PROVE HeardOnTheTick
<1>1. /\ Quietly /\ RankByRank /\ HeardSoFar /\ ed.pc = "idle" /\ clk.pc = "look"
    BY DEF HeardInv, TickInv, Quietly, AtEnd
<1>2. Pass = passes
  <2>1. passes \in Nat /\ MaxLanes \in Nat \ {0} /\ clk.pos = passes * MaxLanes
    BY <1>1, LanesAssumption DEF AtEnd, RankByRank, HeardInv, RanksInv, RanksTyped
  <2>2. QED
    BY <2>1, WholeTicks DEF Pass
<1>3. ASSUME NEW i \in Slots, lane[i].used, ~lane[i].muted, lane[i].pat.slots # 0,
             Sidechain(lane[i]), lane[i].route \in fired, RankOf(i) <= MaxLanes
      PROVE  [of |-> lane[i].name, end |-> FALSE] \in fired
  <2>1. /\ rank[i] <= maxrank /\ rank[i] <= RankOf(i)
        /\ rank[i] \in Nat /\ maxrank \in Nat
    BY <1>1, <1>3
       DEF HeardInv, RanksInv, RanksTyped, RanksBounded, RanksNotPast, Settled, Used
  <2>2. RankOf(i) \in Nat /\ MaxLanes \in Nat
    BY RankTyped, RanksAreHops, LanesAssumption
  <2>3. rank[i] <= MaxLanes
    BY <1>3, <2>1, <2>2
  <2>4. Visited(i)
    BY <1>1, <1>2, <2>1 DEF Visited, RankByRank
  <2>5. QED
    BY <1>1, <1>3, <2>3, <2>4 DEF HeardSoFar, Hears, Own
<1>4. QED
    BY <1>3 DEF HeardOnTheTick

\* "A routed lane hears its source on the same tick", for any number of lanes, any
\* chains of routes and any history of edits: in a tick that no command runs into
\* a lane has played if what it follows has (rerank(), fire_lanes()).
THEOREM ChainsAreHeard == Spec => []HeardOnTheTick
<1>1. Spec => []HeardInv
    BY InitHeardInv, StepHeardInv, PTL DEF Spec
<1>2. HeardInv => HeardOnTheTick
  <2>1. ASSUME ~(AtEnd /\ quiet) PROVE HeardOnTheTick
    BY <2>1 DEF HeardOnTheTick
  <2>2. QED
    BY <2>1, AllVisited
<1>3. QED
    BY <1>1, <1>2, PTL
-----------------------------------------------------------------------------
(* A count: what a lane played since it last began is the slots there were. *)

Ticking == clk.pc \in {"look", "play"}
SlotsBefore(t, p) == (t + (p.rate - 1)) \div p.rate

\* The tick whose slots the lane has not played yet.
ComeTo(i) == IF ~Ticking THEN tick ELSE IF Visited(i) THEN clk.at + 1 ELSE clk.at

AllOf(p) == p.count * p.slots

\* A lane whose pass nobody touched, at rest or under way.
Counts(i) == /\ lane[i].used = TRUE /\ lane[i].pat.count # 0 /\ lane[i].pat.slots # 0
             /\ Ticking => rank[i] < passes /\ clk.at = tick
AtRest(i) == run[i] = AllOf(lane[i].pat)
UnderWay(i) == /\ lane[i].muted = FALSE
               /\ ~Routed(lane[i]) => lane[i].done = FALSE
               /\ run[i] + lane[i].origin = SlotsBefore(ComeTo(i), lane[i].pat)
               /\ run[i] <= AllOf(lane[i].pat)
Counted(i) == /\ Counts(i)
              /\ lane[i].idle = TRUE => AtRest(i)
              /\ lane[i].idle = FALSE => UnderWay(i)

\* The lane that plays now has a slot to go.
PlaysCounted ==
    clk.pc = "play" /\ whole[Here] = TRUE =>
        /\ lane[Here].idle = FALSE /\ rank[Here] = Pass
        /\ clk.pat = lane[Here].pat /\ Starts(lane[Here].pat)
        /\ run[Here] < AllOf(lane[Here].pat)

PassesTyped == /\ run \in [Slots -> Nat] /\ whole \in [Slots -> BOOLEAN] /\ passes \in Nat
               /\ clk.pc = "look" => clk.pos <= passes * MaxLanes
               /\ clk.pc = "play" => clk.pos < passes * MaxLanes
BlankReleased == ed.pc = "release" => lane[ed.i].pat = Blank

CountInv == /\ PassesTyped /\ BlankReleased /\ PlaysCounted
            /\ \A i \in Slots : whole[i] = TRUE => Counted(i)
----------------------------------------------------------------------------
LEMMA Quotients ==
    ASSUME NEW m \in Nat \ {0}, NEW q \in Nat, NEW r \in 0..(m - 1)
    PROVE  (m * q + r) \div m = q
    OBVIOUS

LEMMA PatTyped ==
    ASSUME NEW p \in AllPats
    PROVE  p.rate \in Nat \ {0} /\ p.slots \in Nat /\ p.count \in Nat
    BY LanesAssumption DEF AllPats, Pattern, Blank, OneHit

\* Each slot that starts is one more.
LEMMA OneMoreSlot ==
    ASSUME NEW t \in Nat, NEW r \in Nat \ {0}
    PROVE  /\ (t + (r - 1)) \div r \in Nat
           /\ t % r = 0 => /\ (t + (r - 1)) \div r = t \div r
                           /\ ((t + 1) + (r - 1)) \div r = (t \div r) + 1
           /\ t % r # 0 => ((t + 1) + (r - 1)) \div r = (t + (r - 1)) \div r
<1> DEFINE q == t \div r
           s == t % r
<1>1. q \in Nat /\ s \in 0..(r - 1) /\ t = r * q + s
    OBVIOUS
<1>2. ((t + 1) + (r - 1)) \div r = q + 1
  <2>1. (t + 1) + (r - 1) = r * (q + 1) + s
    BY <1>1
  <2> HIDE DEF q, s
  <2>2. QED
    BY <1>1, <2>1, Quotients
<1>3. CASE s = 0
  <2>1. t + (r - 1) = r * q + (r - 1)
    BY <1>1, <1>3
  <2>2. (t + (r - 1)) \div r = q
    <3> HIDE DEF q, s
    <3>1. r - 1 \in 0..(r - 1)
      OBVIOUS
    <3>2. QED
      BY <1>1, <2>1, <3>1, Quotients
  <2>3. QED
    BY <1>1, <1>2, <1>3, <2>2
<1>4. CASE s # 0
  <2>1. t + (r - 1) = r * (q + 1) + (s - 1) /\ s - 1 \in 0..(r - 1)
    BY <1>1, <1>4
  <2>2. (t + (r - 1)) \div r = q + 1
    <3> HIDE DEF q, s
    <3>1. QED
      BY <1>1, <2>1, Quotients
  <2>3. QED
    BY <1>1, <1>2, <1>4, <2>2
<1>5. QED
    BY <1>3, <1>4

\* So many passes are so many times the slots.
LEMMA PassesOfSlots ==
    ASSUME NEW n \in Nat, NEW s \in Nat \ {0}, NEW c \in Nat
    PROVE  /\ n \div s < c => n < c * s
           /\ ~(n \div s < c) => c * s <= n
<1> DEFINE q == n \div s
<1>1. q \in Nat /\ n >= s * q /\ n < s * (q + 1)
    OBVIOUS
<1>2. ASSUME NEW a \in Nat, NEW b \in Nat, a <= b PROVE s * a <= s * b
    BY <1>2
<1>3. ASSUME q < c PROVE n < c * s
  <2>1. q + 1 <= c
    BY <1>1, <1>3
  <2> HIDE DEF q
  <2>2. s * (q + 1) <= s * c
    BY <1>1, <1>2, <2>1
  <2>3. s * c = c * s /\ s * (q + 1) \in Nat /\ s * c \in Nat
    BY <1>1
  <2>4. QED
    BY <1>1, <2>2, <2>3
<1>4. ASSUME ~(q < c) PROVE c * s <= n
  <2>1. c <= q
    BY <1>1, <1>4
  <2> HIDE DEF q
  <2>2. s * c <= s * q
    BY <1>1, <1>2, <2>1
  <2>3. s * c = c * s /\ s * q \in Nat /\ s * c \in Nat
    BY <1>1
  <2>4. QED
    BY <1>1, <2>2, <2>3
<1>5. QED
    BY <1>3, <1>4
----------------------------------------------------------------------------
(* Steps that play nothing.                                                *)

LEMMA Touched ==
    ASSUME NEW S, Touch(S), PassesTyped
    PROVE  /\ run' \in [Slots -> Nat] /\ whole' \in [Slots -> BOOLEAN]
           /\ \A i \in Slots : whole'[i] = TRUE =>
                 i \notin S /\ whole[i] = TRUE /\ run'[i] = run[i]
    BY DEF Touch, PassesTyped

\* Where a pass is still judged, what it is judged by has not changed.
LeftAlone ==
    \A i \in Slots : whole'[i] = TRUE =>
        /\ whole[i] = TRUE /\ run'[i] = run[i]
        /\ SamePlay(lane'[i], lane[i]) /\ SameCount(lane'[i], lane[i])
        /\ rank'[i] = rank[i] /\ tick' = tick
PassesKept == /\ run' \in [Slots -> Nat] /\ whole' \in [Slots -> BOOLEAN]
              /\ passes' = passes /\ clk' = clk

LEMMA AloneCounted ==
    ASSUME WholeInv, CountInv, LeftAlone, PassesKept, BlankReleased' PROVE CountInv'
<1>1. /\ clk' = clk /\ passes' = passes /\ Here' = Here /\ Pass' = Pass
      /\ Ticking' = Ticking
    BY DEF PassesKept, Here, Pass, Ticking
<1>2. PassesTyped'
    BY DEF CountInv, PassesTyped, PassesKept
<1>3. ASSUME NEW i \in Slots, whole'[i] = TRUE
      PROVE  /\ Counted(i)'
             /\ lane'[i].idle = lane[i].idle /\ lane'[i].pat = lane[i].pat
             /\ rank'[i] = rank[i] /\ run'[i] = run[i] /\ whole[i] = TRUE
  <2>1. /\ whole[i] = TRUE /\ run'[i] = run[i]
        /\ SamePlay(lane'[i], lane[i]) /\ SameCount(lane'[i], lane[i])
        /\ rank'[i] = rank[i] /\ tick' = tick
    BY <1>3 DEF LeftAlone
  <2>2. Counted(i)
    BY <2>1 DEF CountInv
  <2>3. ComeTo(i)' = ComeTo(i)
    BY <1>1, <2>1 DEF ComeTo, Visited
  <2>4. Counts(i)'
    BY <1>1, <2>1, <2>2 DEF Counted, Counts, SamePlay
  <2>5. lane'[i].idle = TRUE => AtRest(i)'
    BY <2>1, <2>2 DEF Counted, AtRest, SamePlay, SameCount
  <2>6. lane'[i].idle = FALSE => UnderWay(i)'
    BY <2>1, <2>2, <2>3 DEF Counted, UnderWay, SamePlay, SameCount, Routed
  <2>7. QED
    BY <2>1, <2>4, <2>5, <2>6 DEF Counted, SamePlay, SameCount
<1>4. PlaysCounted'
  <2>1. SUFFICES ASSUME clk.pc = "play", whole'[Here] = TRUE
                 PROVE  /\ lane'[Here].idle = FALSE /\ rank'[Here] = Pass
                        /\ clk.pat = lane'[Here].pat /\ Starts(lane[Here].pat)
                        /\ run'[Here] < AllOf(lane'[Here].pat)
                        /\ lane'[Here].pat = lane[Here].pat
    BY <1>1 DEF PlaysCounted, Starts
  <2>2. Here \in Slots
    BY PassTyped
  <2>3. QED
    BY <1>3, <2>1, <2>2 DEF CountInv, PlaysCounted
<1>5. QED
    BY <1>2, <1>3, <1>4 DEF CountInv
-----------------------------------------------------------------------------
LEMMA SameLane ==
    ASSUME NEW l, NEW k, l = k PROVE SamePlay(l, k) /\ SameCount(l, k)
    BY DEF SamePlay, SameCount

\* One lane is written, and its pass is not judged again.
LEMMA OneTouched ==
    ASSUME WholeInv, PassesTyped, NEW S, Touch(S), NEW i \in S,
           \A j \in Slots : j # i => lane'[j] = lane[j] /\ rank'[j] = rank[j],
           tick' = tick, clk' = clk, passes' = passes
    PROVE  LeftAlone /\ PassesKept
<1>1. /\ run' \in [Slots -> Nat] /\ whole' \in [Slots -> BOOLEAN]
      /\ \A j \in Slots : whole'[j] = TRUE =>
            j \notin S /\ whole[j] = TRUE /\ run'[j] = run[j]
    BY Touched
<1>2. \A j \in Slots : whole'[j] = TRUE => lane'[j] = lane[j] /\ rank'[j] = rank[j]
    BY <1>1
<1>3. QED
    BY <1>1, <1>2, SameLane DEF LeftAlone, PassesKept

\* The lanes are left, and the passes with them.
LEMMA NoneTouched ==
    ASSUME PassesTyped, UNCHANGED passVars, tick' = tick, clk' = clk, passes' = passes,
           \A j \in Slots : whole[j] = TRUE => lane'[j] = lane[j] /\ rank'[j] = rank[j]
    PROVE  LeftAlone /\ PassesKept
<1>1. whole' = whole /\ run' = run
    BY DEF passVars
<1>2. QED
    BY <1>1, SameLane DEF LeftAlone, PassesKept, PassesTyped

LEMMA RankZeroedAt ==
    ASSUME RanksTyped, NEW i \in Slots, NEW n, RankZeroed(i, n)
    PROVE  \A j \in Slots : j # i => rank'[j] = rank[j]
    BY DEF RankZeroed, RanksTyped

LEMMA EditKept ==
    ASSUME UNCHANGED editUnchanged PROVE tick' = tick /\ clk' = clk /\ passes' = passes
    BY DEF editUnchanged

LEMMA LaneElsewhere ==
    ASSUME WholeInv, NEW i \in Slots, NEW l, lane' = [lane EXCEPT ![i] = l]
    PROVE  \A j \in Slots : j # i => lane'[j] = lane[j]
    BY EditedTyped

LEMMA WriteLaneCounts ==
    ASSUME HeardInv, CountInv, NEW n \in Names, NEW p \in Pats, WriteLane(n, p)
    PROVE  LeftAlone /\ PassesKept /\ BlankReleased'
<1>1. PICK i \in Target(n) : /\ lane' = [lane EXCEPT ![i] = Opened(i, n)]
                             /\ RankZeroed(i, n) /\ Goto("write", i, p)
                             /\ Touch({i} \ Find(n))
    BY DEF WriteLane
<1>2. tick' = tick /\ clk' = clk /\ passes' = passes
    BY EditKept DEF WriteLane
<1>3. WholeInv /\ RanksTyped /\ PassesTyped /\ i \in Slots
    BY OpenedTyped DEF HeardInv, RanksInv, CountInv
<1>4. BlankReleased'
    BY <1>1 DEF BlankReleased, Goto
<1>5. PICK S : S = {i} \ Find(n)
    OBVIOUS
<1>6. Touch(S)
    BY <1>1, <1>5
<1>7. /\ run' \in [Slots -> Nat] /\ whole' \in [Slots -> BOOLEAN]
      /\ \A j \in Slots : whole'[j] = TRUE =>
            j \notin S /\ whole[j] = TRUE /\ run'[j] = run[j]
    BY <1>3, <1>6, Touched
<1>8. ASSUME NEW j \in Slots, whole'[j] = TRUE
      PROVE  lane'[j] = lane[j] /\ rank'[j] = rank[j]
  <2>1. CASE j # i
    BY <1>1, <1>3, <2>1, RankZeroedAt, EditedTyped
  <2>2. CASE j = i
    <3>1. i \in Find(n)
      BY <1>5, <1>7, <1>8, <2>2
    <3>2. Opened(i, n) = lane[i] /\ rank' = rank
      BY <1>1, <3>1 DEF Opened, RankZeroed
    <3>3. QED
      BY <1>1, <1>3, <2>2, <3>2, EditedTyped
  <2>3. QED
    BY <2>1, <2>2
<1>9. LeftAlone /\ PassesKept
    BY <1>2, <1>7, <1>8, SameLane DEF LeftAlone, PassesKept
<1>10. QED
    BY <1>4, <1>9

LEMMA RouteCounts ==
    ASSUME HeardInv, CountInv, NEW n \in Names,
           RouteToItself(n) \/ \E s \in Sources \cup {NoRoute} : Route(n, s)
    PROVE  LeftAlone /\ PassesKept /\ BlankReleased'
<1>1. PICK i, l : /\ i \in Target(n) /\ lane' = [lane EXCEPT ![i] = l]
                  /\ RankZeroed(i, n) /\ Touch({i})
                  /\ ed' = ed \/ Goto("untrig", i, Blank)
    BY DEF Route, RouteToItself
<1>2. tick' = tick /\ clk' = clk /\ passes' = passes /\ ed.pc = "idle"
    BY EditKept DEF Route, RouteToItself, Command, Idle
<1>3. WholeInv /\ RanksTyped /\ PassesTyped /\ i \in Slots
    BY <1>1, OpenedTyped DEF HeardInv, RanksInv, CountInv
<1>4. BlankReleased'
    BY <1>1, <1>2 DEF BlankReleased, Goto
<1>5. \A j \in Slots : j # i => lane'[j] = lane[j] /\ rank'[j] = rank[j]
    BY <1>1, <1>3, LaneElsewhere, RankZeroedAt
<1>6. LeftAlone /\ PassesKept
    BY <1>1, <1>2, <1>3, <1>5, OneTouched
<1>7. QED
    BY <1>4, <1>6

\* The commands and the steps that write one lane.
LEMMA OneLaneCounts ==
    ASSUME HeardInv, CountInv,
           \/ \E n \in Names : Forget(n) \/ \E b \in BOOLEAN : Mute(n, b)
           \/ Unmute \/ ClearLane \/ Untrig
    PROVE  LeftAlone /\ PassesKept /\ BlankReleased'
<1>1. WholeInv /\ PassesTyped /\ ed.i \in Slots
    BY EditedTyped DEF HeardInv, CountInv
<1>2. tick' = tick /\ clk' = clk /\ passes' = passes /\ rank' = rank
    BY EditKept DEF Forget, Mute, Unmute, ClearLane, Untrig, rankVars
<1>3. PICK i \in Slots : /\ Touch({i}) /\ \A j \in Slots : j # i => lane'[j] = lane[j]
                         /\ ed'.pc = "release" => ed'.i = i /\ lane'[i].pat = Blank
  <2>1. CASE \E n \in Names : Forget(n)
    <3>1. PICK n \in Names, i \in Slots :
             /\ lane' = [lane EXCEPT ![i].pat = Blank] /\ Goto("release", i, Blank)
             /\ Touch({i})
      BY <2>1 DEF Forget, Find
    <3>2. lane'[i].pat = Blank /\ \A j \in Slots : j # i => lane'[j] = lane[j]
      BY <1>1, <3>1, EditedTyped DEF Lane
    <3>3. QED
      BY <3>1, <3>2 DEF Goto
  <2>2. CASE \E n \in Names : \E b \in BOOLEAN : Mute(n, b)
    <3>1. PICK i \in Slots, b \in BOOLEAN :
             lane' = [lane EXCEPT ![i].muted = b] /\ Touch({i})
      BY <2>2 DEF Mute, Find
    <3>2. ed' = ed /\ ed.pc = "idle"
      BY <2>2 DEF Mute, Command, Idle
    <3>3. QED
      BY <1>1, <3>1, <3>2, EditedTyped
  <2>3. CASE Unmute \/ Untrig
    <3>1. Touch({ed.i}) /\ ed'.pc # "release"
      BY <2>3 DEF Unmute, Untrig, Goto
    <3>2. \A j \in Slots : j # ed.i => lane'[j] = lane[j]
      BY <1>1, <2>3, EditedTyped DEF Unmute, Untrig
    <3>3. PICK i \in Slots : i = ed.i
      BY <1>1
    <3>4. Touch({i})
      BY <3>1, <3>3
    <3>5. QED
      BY <3>1, <3>2, <3>3, <3>4
  <2>4. CASE ClearLane
    <3>1. Touch({ed.i}) /\ ed'.pc # "release"
      BY <2>4 DEF ClearLane, Goto
    <3>2. \A j \in Slots : j # ed.i => lane'[j] = lane[j]
      BY <1>1, <2>4, EditedTyped DEF ClearLane
    <3>3. PICK i \in Slots : i = ed.i
      BY <1>1
    <3>4. Touch({i})
      BY <3>1, <3>3
    <3>5. QED
      BY <3>1, <3>2, <3>3, <3>4
  <2>5. QED
    BY <2>1, <2>2, <2>3, <2>4
<1>4. LeftAlone /\ PassesKept
    BY <1>1, <1>2, <1>3, OneTouched
<1>5. QED
    BY <1>3, <1>4 DEF BlankReleased

LEMMA RerankCounts ==
    ASSUME HeardInv, CountInv, LaneWritten \/ Forgotten \/ RouteDone
    PROVE  LeftAlone /\ PassesKept /\ BlankReleased'
<1>1. /\ lane' = lane /\ rank' = Ranked /\ ed'.pc # "release" /\ Touch(Moved)
      /\ tick' = tick /\ clk' = clk /\ passes' = passes
    BY EditKept DEF LaneWritten, Forgotten, RouteDone, Rerank, Goto
<1>2. PICK S : S = Moved
    OBVIOUS
<1>3. Touch(S)
    BY <1>1, <1>2
<1>4. /\ run' \in [Slots -> Nat] /\ whole' \in [Slots -> BOOLEAN]
      /\ \A j \in Slots : whole'[j] = TRUE =>
            j \notin S /\ whole[j] = TRUE /\ run'[j] = run[j]
    BY <1>3, Touched DEF CountInv
<1>5. \A j \in Slots : j \notin S => rank'[j] = rank[j]
    BY <1>1, <1>2 DEF Moved
<1>6. QED
    BY <1>1, <1>4, <1>5, SameLane DEF LeftAlone, PassesKept, BlankReleased

\* The steps that leave the lanes' passes alone, and those that stop judging all.
LEMMA OtherCounts ==
    ASSUME HeardInv, CountInv,
           FillEvents \/ FillRest \/ Release \/ NewDocument \/ Play \/ FromTheTop \/ Stop
    PROVE  LeftAlone /\ PassesKept /\ BlankReleased'
<1>1. WholeInv /\ PassesTyped /\ ed.i \in Slots
    BY EditedTyped DEF HeardInv, CountInv
<1>2. CASE FillEvents \/ FillRest \/ NewDocument \/ Stop
  <2>1. /\ lane' = lane /\ rank' = rank /\ UNCHANGED passVars
        /\ tick' = tick /\ clk' = clk /\ passes' = passes
    BY <1>2, EditKept DEF FillEvents, FillRest, NewDocument, Stop, rankVars, clockVars
  <2>2. ed'.pc # "release"
    BY <1>2 DEF FillEvents, FillRest, NewDocument, Stop, Goto, editVars, Idle
  <2>3. QED
    BY <1>1, <2>1, <2>2, NoneTouched DEF BlankReleased
<1>3. CASE Release
  <2>1. /\ rank' = rank /\ UNCHANGED passVars /\ tick' = tick /\ clk' = clk
        /\ passes' = passes /\ ed.pc = "release" /\ ed'.pc # "release"
    BY <1>3, EditKept DEF Release, rankVars, Continue, Goto
  <2>2. whole[ed.i] # TRUE
    <3>1. lane[ed.i].pat = Blank /\ Blank.slots = 0
      BY <2>1 DEF CountInv, BlankReleased, Blank
    <3>2. whole[ed.i] = TRUE => lane[ed.i].pat.slots # 0
      BY <1>1 DEF CountInv, Counted, Counts
    <3>3. QED
      BY <3>1, <3>2
  <2>3. \A j \in Slots : j # ed.i => lane'[j] = lane[j]
    BY <1>1, <1>3, EditedTyped DEF Release
  <2>4. QED
    BY <1>1, <2>1, <2>2, <2>3, NoneTouched DEF BlankReleased
<1>4. CASE Play \/ FromTheTop
  <2>1. Touch(Slots) /\ ed'.pc # "release" /\ clk' = clk /\ passes' = passes
    BY <1>4, EditKept DEF Play, FromTheTop, Goto
  <2>2. /\ run' \in [Slots -> Nat] /\ whole' \in [Slots -> BOOLEAN]
        /\ \A j \in Slots : whole'[j] # TRUE
    BY <1>1, <2>1, Touched
  <2>3. QED
    BY <2>1, <2>2 DEF LeftAlone, PassesKept, BlankReleased
<1>5. QED
    BY <1>2, <1>3, <1>4

LEMMA EditorCounts ==
    ASSUME HeardInv, CountInv, Editor PROVE CountInv'
<1>1. LeftAlone /\ PassesKept /\ BlankReleased'
    BY WriteLaneCounts, RouteCounts, OneLaneCounts, RerankCounts, OtherCounts DEF Editor
<1>2. QED
    BY <1>1, AloneCounted DEF HeardInv
-----------------------------------------------------------------------------
(* The clock's steps, and the passes.                                      *)

\* What a step of the clock leaves of a lane that the clock is not at.
LEMMA AsideCounted ==
    ASSUME NEW i \in Slots, Counted(i), Counts(i)', ComeTo(i)' = ComeTo(i),
           run'[i] = run[i], SamePlay(lane'[i], lane[i]), SameCount(lane'[i], lane[i])
    PROVE  Counted(i)'
<1>1. lane'[i].idle = TRUE => AtRest(i)'
    BY DEF Counted, AtRest, SamePlay, SameCount
<1>2. lane'[i].idle = FALSE => UnderWay(i)'
    BY DEF Counted, UnderWay, SamePlay, SameCount, Routed
<1>3. QED
    BY <1>1, <1>2 DEF Counted

LEMMA BetweenCounts ==
    ASSUME HeardInv, CountInv, NothingStaged \/ RestTick \/ TakeEvents \/ TakeRest
    PROVE  CountInv'
<1>1. /\ WholeInv /\ PassesTyped /\ passes' = passes /\ tick' = tick /\ ed' = ed
      /\ rank' = rank /\ BlankReleased
    BY DEF NothingStaged, RestTick, TakeEvents, TakeRest, HeardInv, CountInv,
           editVars, rankVars
<1>2. clk'.pc \notin {"look", "play"} /\ clk.pc \notin {"look", "play"}
    BY <1>1 DEF NothingStaged, RestTick, TakeEvents, TakeRest, WholeInv, Shape
<1>3. ~Ticking /\ ~Ticking'
    BY <1>2 DEF Ticking
<1>4. /\ run' \in [Slots -> Nat] /\ whole' \in [Slots -> BOOLEAN]
      /\ ed.pc = "release" => lane'[ed.i].pat = lane[ed.i].pat
      /\ \A i \in Slots : whole'[i] = TRUE =>
            /\ whole[i] = TRUE /\ run'[i] = run[i]
            /\ SamePlay(lane'[i], lane[i]) /\ SameCount(lane'[i], lane[i])
  <2>1. CASE NothingStaged \/ RestTick
    BY <1>1, <2>1, SameLane DEF NothingStaged, RestTick, passVars, PassesTyped
  <2>2. CASE TakeEvents
    <3>1. /\ UNCHANGED passVars /\ stageFor \in Slots
          /\ lane' = [lane EXCEPT ![stageFor].ev = stage.ev]
      BY <1>1, <2>2 DEF TakeEvents, WholeInv, Shape
    <3>2. ASSUME NEW i \in Slots
          PROVE  SamePlay(lane'[i], lane[i]) /\ SameCount(lane'[i], lane[i])
      BY <1>1, <3>1, EditedTyped DEF SamePlay, SameCount, Lane
    <3>3. QED
      BY <1>1, <3>1, <3>2, EditedTyped DEF passVars, PassesTyped, SamePlay
  <2>3. CASE TakeRest
    <3>1. /\ Touch({clk.i}) /\ clk.i \in Slots /\ ed.pc # "release"
          /\ \A i \in Slots : i # clk.i => lane'[i] = lane[i]
      BY <1>1, <2>3, EditedTyped
         DEF TakeRest, WholeInv, Shape, TakingBegun, StageWhole, Slots, None
    <3>2. PICK j \in Slots : j = clk.i
      BY <3>1
    <3>3. Touch({j})
      BY <3>1, <3>2
    <3>4. /\ run' \in [Slots -> Nat] /\ whole' \in [Slots -> BOOLEAN]
          /\ \A i \in Slots : whole'[i] = TRUE =>
                i \notin {j} /\ whole[i] = TRUE /\ run'[i] = run[i]
      BY <1>1, <3>3, Touched
    <3>5. QED
      BY <3>1, <3>2, <3>4, SameLane
  <2>4. QED
    BY <2>1, <2>2, <2>3
<1>5. PassesTyped'
    BY <1>1, <1>2, <1>4 DEF PassesTyped
<1>6. BlankReleased' /\ PlaysCounted'
    BY <1>1, <1>2, <1>4 DEF BlankReleased, PlaysCounted
<1>7. ASSUME NEW i \in Slots, whole'[i] = TRUE PROVE Counted(i)'
  <2>1. Counted(i) /\ ComeTo(i)' = ComeTo(i)
    BY <1>1, <1>3, <1>4, <1>7 DEF CountInv, ComeTo
  <2>2. Counts(i)'
    BY <1>3, <1>4, <1>7, <2>1 DEF Counted, Counts, SamePlay
  <2>3. QED
    BY <1>4, <1>7, <2>1, <2>2, AsideCounted
<1>8. QED
    BY <1>5, <1>6, <1>7 DEF CountInv

\* A tick begins: no lane has had its visit, and every lane has a rank to have it
\* in.  Renumbered, a lane that was under way waits again and is not judged.
LEMMA BeginCounts ==
    ASSUME HeardInv, CountInv, BeginTick PROVE CountInv'
<1>1. /\ WholeInv /\ PassesTyped /\ passes' = maxrank + 1 /\ ed' = ed /\ rank' = rank
      /\ BlankReleased /\ RanksTyped /\ RanksBounded
    BY DEF BeginTick, HeardInv, CountInv, RanksInv, editVars, rankVars
<1>2. PICK d \in {0, 1}, again \in SUBSET Slots :
         /\ again = {i \in Slots : d # 0 /\ WaitsAgain(lane[i])}
         /\ tick' = tick + d
         /\ lane' = [i \in Slots |-> [lane[i] EXCEPT !.idle = @ \/ i \in again]]
         /\ clk' = [clk EXCEPT !.pc = "look", !.pos = 0, !.at = tick + d]
         /\ Touch(again \cup {i \in Slots : d # 0 /\ Routed(lane[i])})
    BY DEF BeginTick
<1>3. clk.pc = "begin" /\ clk'.pc = "look" /\ clk'.pos = 0 /\ clk'.at = tick' /\ tick \in Nat
    BY <1>1, <1>2 DEF BeginTick, WholeInv, Shape
<1>4. PICK S : S = again \cup {i \in Slots : d # 0 /\ Routed(lane[i])}
    OBVIOUS
<1>5. Touch(S)
    BY <1>2, <1>4
<1>6. /\ run' \in [Slots -> Nat] /\ whole' \in [Slots -> BOOLEAN]
      /\ \A i \in Slots : whole'[i] = TRUE =>
            i \notin S /\ whole[i] = TRUE /\ run'[i] = run[i]
    BY <1>1, <1>5, Touched
<1>7. ASSUME NEW i \in Slots
      PROVE  /\ SamePlay(lane'[i], lane[i]) /\ lane'[i].pat = lane[i].pat
             /\ i \notin again => SameCount(lane'[i], lane[i])
  <2>1. lane[i] \in Lane /\ lane'[i] = [lane[i] EXCEPT !.idle = lane[i].idle \/ i \in again]
    BY <1>1, <1>2, EditedTyped
  <2>2. i \notin again => (lane[i].idle \/ i \in again) = lane[i].idle
    BY <2>1 DEF Lane
  <2>3. QED
    BY <2>1, <2>2 DEF SamePlay, SameCount, Lane
<1>8. PassesTyped'
  <2>1. passes' \in Nat /\ 0 <= passes' * MaxLanes
    BY <1>1, LanesAssumption DEF RanksTyped
  <2>2. QED
    BY <1>3, <1>6, <2>1 DEF PassesTyped
<1>9. BlankReleased' /\ PlaysCounted'
    BY <1>1, <1>3, <1>7, EditedTyped DEF BlankReleased, PlaysCounted
<1>10. ASSUME NEW i \in Slots, whole'[i] = TRUE PROVE Counted(i)'
  <2>1. i \notin S /\ whole[i] = TRUE /\ run'[i] = run[i] /\ Counted(i)
    BY <1>6, <1>10 DEF CountInv
  <2>2. SamePlay(lane'[i], lane[i]) /\ SameCount(lane'[i], lane[i])
    BY <1>4, <1>7, <2>1
  <2>3. rank[i] \in Nat /\ rank[i] < passes'
    BY <1>1, <2>1 DEF Counted, Counts, RanksTyped, RanksBounded, Used
  <2>4. Counts(i)'
    BY <1>1, <1>3, <2>1, <2>2, <2>3 DEF Counted, Counts, SamePlay
  <2>5. ComeTo(i)' = tick' /\ ComeTo(i) = tick
    <3>1. ~Ticking /\ Ticking'
      BY <1>3 DEF Ticking
    <3>2. Pass' = 0 /\ Here' = 1
      BY <1>3, LanesAssumption DEF Pass, Here
    <3>3. ~Visited(i)'
      BY <1>1, <2>3, <3>2 DEF Visited, Slots
    <3>4. QED
      BY <1>3, <3>1, <3>3 DEF ComeTo
  <2>6. CASE d = 0
    <3>1. ComeTo(i)' = ComeTo(i)
      BY <1>2, <1>3, <2>5, <2>6
    <3>2. QED
      BY <2>1, <2>2, <2>4, <3>1, AsideCounted
  <2>7. CASE d # 0
    <3>1. lane[i].idle = TRUE
      <4>1. SUFFICES ASSUME lane[i].idle # TRUE PROVE FALSE
        OBVIOUS
      <4>2. lane[i] \in Lane /\ lane[i].idle = FALSE
        BY <1>1, <4>1, EditedTyped DEF Lane
      <4>3. ~Routed(lane[i])
        BY <1>4, <2>1, <2>7
      <4>4. lane[i].used = TRUE /\ lane[i].pat.count # 0 /\ lane[i].done = FALSE
        BY <2>1, <4>2, <4>3 DEF Counted, Counts, UnderWay
      <4>5. WaitsAgain(lane[i])
        BY <4>3, <4>4 DEF WaitsAgain
      <4>6. QED
        BY <1>2, <1>4, <2>1, <2>7, <4>5
    <3>2. AtRest(i)'
      BY <2>1, <2>2, <3>1 DEF Counted, AtRest, SamePlay
    <3>3. lane'[i].idle = TRUE
      BY <2>2, <3>1 DEF SameCount
    <3>4. QED
      BY <2>4, <3>2, <3>3 DEF Counted
  <2>8. QED
    BY <2>6, <2>7
<1>11. QED
    BY <1>8, <1>9, <1>10 DEF CountInv

\* A tick ends when every lane has had its visit.
LEMMA EndCounts ==
    ASSUME HeardInv, CountInv, EndTick PROVE CountInv'
<1>1. /\ WholeInv /\ PassesTyped /\ RanksTyped /\ BlankReleased /\ UNCHANGED passVars
      /\ lane' = lane /\ ed' = ed /\ rank' = rank /\ passes' = 1 /\ tick' = tick + 1
      /\ clk.pc = "look" /\ clk.pos = passes * MaxLanes
    BY DEF EndTick, AtEnd, HeardInv, CountInv, RanksInv, editVars, rankVars
<1>2. clk'.pc = "off"
    BY <1>1 DEF EndTick, WholeInv, Shape
<1>3. PassesTyped' /\ BlankReleased' /\ PlaysCounted'
    BY <1>1, <1>2 DEF PassesTyped, BlankReleased, PlaysCounted, passVars
<1>4. Pass = passes
  <2>1. passes \in Nat /\ MaxLanes \in Nat \ {0}
    BY <1>1, LanesAssumption DEF PassesTyped
  <2>2. QED
    BY <1>1, <2>1, WholeTicks DEF Pass
<1>5. ASSUME NEW i \in Slots, whole'[i] = TRUE PROVE Counted(i)'
  <2>1. whole[i] = TRUE /\ run'[i] = run[i] /\ Counted(i)
    BY <1>1, <1>5 DEF CountInv, passVars
  <2>2. rank[i] < passes /\ clk.at = tick /\ rank[i] \in Nat
    BY <1>1, <2>1 DEF Counted, Counts, Ticking, RanksTyped
  <2>3. ComeTo(i) = tick + 1
    BY <1>1, <1>4, <2>2 DEF ComeTo, Ticking, Visited
  <2>4. ComeTo(i)' = ComeTo(i)
    BY <1>1, <1>2, <2>3 DEF ComeTo, Ticking
  <2>5. Counts(i)'
    BY <1>1, <1>2, <2>1 DEF Counted, Counts, Ticking
  <2>6. QED
    BY <1>1, <2>1, <2>4, <2>5, SameLane, AsideCounted
<1>6. QED
    BY <1>3, <1>5 DEF CountInv
-----------------------------------------------------------------------------
LEMMA VisitedHere ==
    ASSUME HeardInv, Visit, clk'.pos \in {clk.pos, clk.pos + 1}, NEW i \in Slots,
           i # Here \/ rank[i] # Pass \/ clk'.pos = clk.pos
    PROVE  Visited(i)' <=> Visited(i)
<1>1. WholeInv /\ RanksInv /\ rank' = rank
    BY VisitLeaves DEF HeardInv, visitUnchanged, rankVars
<1>2. QED
    BY <1>1, VisitedNext, VisitedStays

\* A visit leaves the lanes that the clock is not at.
LEMMA VisitDone ==
    ASSUME HeardInv, CountInv, Visit, PassesTyped', PlaysCounted',
           clk'.pc \in {"look", "play"}, clk'.at = clk.at,
           clk'.pos \in {clk.pos, clk.pos + 1},
           \A i \in Slots : i # Here /\ whole'[i] = TRUE
                              => whole[i] = TRUE /\ run'[i] = run[i],
           \A i \in Slots : i = Here /\ whole'[i] = TRUE => Counted(i)'
    PROVE  CountInv'
<1>1. /\ WholeInv /\ rank' = rank /\ passes' = passes /\ tick' = tick /\ ed' = ed /\ Kept
      /\ Ticking /\ Ticking' /\ BlankReleased
    BY VisitLeaves, VisitLanes
       DEF HeardInv, CountInv, visitUnchanged, rankVars, editVars, Ticking
<1>2. BlankReleased'
  <2>1. lane'[ed.i].pat = lane[ed.i].pat
    BY <1>1, EditedTyped DEF Kept, SamePlay
  <2>2. QED
    BY <1>1, <2>1 DEF BlankReleased
<1>3. ASSUME NEW i \in Slots, whole'[i] = TRUE, i # Here PROVE Counted(i)'
  <2>1. whole[i] = TRUE /\ run'[i] = run[i] /\ Counted(i)
    BY <1>3 DEF CountInv
  <2>2. SamePlay(lane'[i], lane[i]) /\ SameCount(lane'[i], lane[i])
    BY <1>1, <1>3 DEF Kept
  <2>3. ComeTo(i)' = ComeTo(i)
    BY <1>1, <1>3, VisitedHere DEF ComeTo
  <2>4. Counts(i)'
    BY <1>1, <2>1, <2>2 DEF Counted, Counts, SamePlay
  <2>5. QED
    BY <2>1, <2>2, <2>3, <2>4, AsideCounted
<1>4. QED
    BY <1>2, <1>3 DEF CountInv

\* Where the clock stands, and how far it may still go.
LEMMA Standing ==
    ASSUME HeardInv, CountInv, Visit
    PROVE  /\ Here \in Slots /\ lane[Here] \in Lane /\ lane[Here].pat \in AllPats
           /\ lane[Here].pat.rate \in Nat \ {0} /\ lane[Here].pat.slots \in Nat
           /\ lane[Here].pat.count \in Nat /\ lane[Here].origin \in Nat
           /\ clk.at \in Nat /\ run[Here] \in Nat /\ rank[Here] \in Nat
           /\ SamePlay(lane'[Here], lane[Here]) /\ Ticking
           /\ rank' = rank /\ passes' = passes /\ tick' = tick
           /\ clk \in ClockAt
           /\ rank[Here] = Pass => ~Visited(Here)
<1>1. WholeInv /\ RanksTyped /\ PassesTyped /\ Kept /\ clk \in ClockAt
    BY VisitLanes DEF HeardInv, CountInv, RanksInv, WholeInv, Shape, ClockAt
<1>2. Here \in Slots /\ lane[Here] \in Lane
    BY <1>1, AtHere
<1>3. lane[Here].pat \in AllPats /\ lane[Here].origin \in Nat
    BY <1>2 DEF Lane
<1>4. rank' = rank /\ passes' = passes /\ tick' = tick /\ Ticking
    BY VisitLeaves DEF visitUnchanged, rankVars, Ticking
<1>5. clk.at \in Nat
    BY <1>1 DEF ClockAt
<1>6. rank[Here] = Pass => ~Visited(Here)
    BY <1>1, PassTyped DEF Visited, Slots
<1>7. /\ lane[Here].pat.rate \in Nat \ {0} /\ lane[Here].pat.slots \in Nat
      /\ lane[Here].pat.count \in Nat
    BY <1>3, PatTyped
<1>8. SamePlay(lane'[Here], lane[Here]) /\ run[Here] \in Nat /\ rank[Here] \in Nat
    BY <1>1, <1>2 DEF Kept, PassesTyped, RanksTyped
<1>9. QED
    BY <1>1, <1>2, <1>3, <1>4, <1>5, <1>6, <1>7, <1>8

LEMMA BelowTop ==
    ASSUME NEW p \in Nat, NEW q \in Nat, NEW m \in Nat \ {0}, p < q * m
    PROVE  p \div m < q
<1>1. ~(p \div m < q) => q * m <= p
    BY PassesOfSlots
<1>2. q * m \in Nat
    OBVIOUS
<1>3. QED
    BY <1>1, <1>2

\* Before the end of a tick there is a rank for this visit.
LEMMA InTheTable ==
    ASSUME HeardInv, CountInv, Visit
    PROVE  /\ clk.pos \in Nat /\ passes * MaxLanes \in Nat
           /\ clk.pos < passes * MaxLanes /\ Pass < passes
<1>1. WholeInv /\ PassesTyped /\ MaxLanes \in Nat \ {0}
    BY LanesAssumption DEF HeardInv, CountInv
<1>2. clk.pos \in Nat /\ passes \in Nat
    BY <1>1, PassTyped DEF PassesTyped
<1>3. passes * MaxLanes \in Nat
    BY <1>1, <1>2
<1>4. clk.pos < passes * MaxLanes
  <2>1. CASE clk.pc = "play"
    BY <1>1, <2>1 DEF PassesTyped
  <2>2. CASE clk.pc = "look"
    <3>1. clk.pos <= passes * MaxLanes
      BY <1>1, <2>2 DEF PassesTyped
    <3>2. clk.pos # passes * MaxLanes
      BY <2>2 DEF Visit, PassOver, FireRouted, FireOwn, CountWaits, CountPlays, CountEnds,
                  PlayEvent, CountsNow, AtEnd
    <3>3. QED
      BY <1>2, <1>3, <3>1, <3>2
  <2>3. QED
    BY <2>1, <2>2, VisitLeaves
<1>5. QED
    BY <1>1, <1>2, <1>3, <1>4, BelowTop DEF Pass

LEMMA PosKept ==
    ASSUME HeardInv, CountInv, Visit,
           \/ clk'.pc = "look" /\ clk'.pos = clk.pos + 1
           \/ clk'.pc = "play" /\ clk'.pos = clk.pos,
           run' \in [Slots -> Nat], whole' \in [Slots -> BOOLEAN]
    PROVE  PassesTyped'
<1>1. passes' = passes /\ passes \in Nat
    BY Standing DEF CountInv, PassesTyped
<1>2. QED
    BY <1>1, InTheTable DEF PassesTyped

\* A lane passed over, under way, has no slot that starts here.
LEMMA PassOverCounts ==
    ASSUME HeardInv, CountInv, PassOver PROVE CountInv'
<1>1. Visit /\ UNCHANGED passVars /\ clk.pc = "look"
    BY DEF PassOver, Visit
<1>2. clk' = [clk EXCEPT !.pos = clk.pos + 1] /\ lane' = [lane EXCEPT ![Here] = lane[Here]]
    BY DEF PassOver, OnwardWith
<1>3. clk'.pc = "look" /\ clk'.at = clk.at /\ clk'.pos = clk.pos + 1 /\ lane' = lane
    BY <1>1, <1>2, Standing, EditedTyped DEF ClockAt, HeardInv
<1>4. run' = run /\ whole' = whole
    BY <1>1 DEF passVars
<1>5. PassesTyped' /\ PlaysCounted'
    BY <1>1, <1>3, <1>4, PosKept DEF PlaysCounted, CountInv, PassesTyped
<1>6. ASSUME NEW i \in Slots, i = Here, whole'[i] = TRUE PROVE Counted(i)'
  <2>1. Counted(i) /\ Counts(i)' /\ run'[i] = run[i] /\ lane'[i] = lane[i]
    <3>1. Counted(i) /\ run'[i] = run[i]
      BY <1>4, <1>6 DEF CountInv
    <3>2. Ticking' /\ Ticking /\ rank' = rank /\ passes' = passes /\ tick' = tick
      BY <1>1, <1>3, Standing DEF Ticking
    <3>3. QED
      BY <1>3, <3>1, <3>2 DEF Counted, Counts
  <2>2. lane'[i].idle = TRUE => AtRest(i)'
    BY <2>1 DEF Counted, AtRest
  <2>3. ASSUME lane'[i].idle = FALSE PROVE UnderWay(i)'
    <3>1. UnderWay(i)
      BY <2>1, <2>3 DEF Counted
    <3>2. Ticking /\ Ticking'
      BY <1>1, <1>3, Standing DEF Ticking
    <3>3. SlotsBefore(ComeTo(i)', lane[i].pat) = SlotsBefore(ComeTo(i), lane[i].pat)
      <4>1. CASE rank[i] # Pass
        <5>1. Visited(i)' <=> Visited(i)
          BY <1>1, <1>3, <4>1, VisitedHere
        <5>2. QED
          BY <1>3, <3>2, <5>1 DEF ComeTo
      <4>2. CASE rank[i] = Pass
        <5>1. WholeInv /\ RanksInv /\ rank' = rank
          BY <1>1, Standing DEF HeardInv
        <5>2. Visited(i)' /\ ~Visited(i)
          BY <1>1, <1>3, <1>6, <4>2, <5>1, Standing, VisitedNext
        <5>3. ComeTo(i)' = clk.at + 1 /\ ComeTo(i) = clk.at
          BY <1>3, <3>2, <5>2 DEF ComeTo
        <5>4. InTurn(lane[Here]) /\ ~Sidechain(lane[Here])
          BY <1>6, <2>1, <3>1, <4>2 DEF InTurn, Sidechain, Counted, Counts, UnderWay
        <5>5. clk.at % lane[Here].pat.rate # 0
          BY <5>4 DEF PassOver, Starts
        <5>6. lane[i].pat.rate \in Nat \ {0} /\ clk.at \in Nat /\ clk.at % lane[i].pat.rate # 0
          BY <1>1, <1>6, <5>5, Standing
        <5>7. SlotsBefore(clk.at + 1, lane[i].pat) = SlotsBefore(clk.at, lane[i].pat)
          BY <5>6, OneMoreSlot DEF SlotsBefore
        <5>8. QED
          BY <5>3, <5>7
      <4>3. QED
        BY <4>1, <4>2
    <3>4. QED
      BY <2>1, <3>1, <3>3 DEF UnderWay
  <2>4. QED
    BY <2>1, <2>2, <2>3 DEF Counted
<1>7. \A i \in Slots : i # Here /\ whole'[i] = TRUE => whole[i] = TRUE /\ run'[i] = run[i]
    BY <1>4
<1>8. QED
    BY <1>1, <1>3, <1>5, <1>6, <1>7, VisitDone

\* A lane that does not count has no pass to judge.
LEMMA FireCounts ==
    ASSUME HeardInv, CountInv, FireRouted \/ FireOwn PROVE CountInv'
<1>1. Visit /\ UNCHANGED passVars /\ lane[Here].pat.count = 0
    BY DEF FireRouted, FireOwn, Visit, Sidechain
<1>2. /\ clk'.pc = "play" /\ clk'.at = clk.at /\ clk'.pos = clk.pos
      /\ Here' = Here
    BY <1>1, Standing DEF FireRouted, FireOwn, FireWith, ClockAt, Here
<1>3. run' = run /\ whole' = whole
    BY <1>1 DEF passVars
<1>4. whole[Here] # TRUE
  <2>1. PICK i \in Slots : i = Here
    BY <1>1, Standing
  <2>2. whole[i] # TRUE
    BY <1>1, <2>1 DEF CountInv, Counted, Counts
  <2>3. QED
    BY <2>1, <2>2
<1>5. PassesTyped' /\ PlaysCounted'
    BY <1>1, <1>2, <1>3, <1>4, PosKept DEF PlaysCounted, CountInv, PassesTyped
<1>6. \A i \in Slots : i # Here /\ whole'[i] = TRUE => whole[i] = TRUE /\ run'[i] = run[i]
    BY <1>3
<1>7. \A i \in Slots : i = Here /\ whole'[i] = TRUE => Counted(i)'
    BY <1>3, <1>4
<1>8. QED
    BY <1>1, <1>2, <1>5, <1>6, <1>7, VisitDone
-----------------------------------------------------------------------------
\* Where the visit goes on to the next lane, and what is then left to show.
LEMMA GoesOnCounts ==
    ASSUME HeardInv, CountInv, Visit, clk'.pc = "look", clk'.at = clk.at,
           clk'.pos = clk.pos + 1, whole' = whole, run' \in [Slots -> Nat],
           \A i \in Slots : i # Here => run'[i] = run[i],
           \A i \in Slots : i = Here /\ whole[i] = TRUE => Counted(i)'
    PROVE  CountInv'
<1>1. PassesTyped' /\ PlaysCounted'
    BY PosKept DEF PlaysCounted, CountInv, PassesTyped
<1>2. QED
    BY <1>1, VisitDone

\* A lane that waits, or that its count is up for, has its events at rest.
LEMMA RestCounted ==
    ASSUME HeardInv, CountInv, Visit, clk'.pc \in {"look", "play"}, clk'.at = clk.at,
           NEW i \in Slots, i = Here, Counted(i), run'[i] = AllOf(lane[i].pat),
           lane'[i].idle = TRUE
    PROVE  Counted(i)'
<1>1. /\ SamePlay(lane'[i], lane[i]) /\ Ticking
      /\ rank' = rank /\ passes' = passes /\ tick' = tick
    BY Standing
<1>2. Counts(i)'
    BY <1>1 DEF Counted, Counts, SamePlay
<1>3. AtRest(i)'
    BY <1>1 DEF AtRest, SamePlay
<1>4. QED
    BY <1>2, <1>3 DEF Counted

LEMMA CountWaitsCounts ==
    ASSUME HeardInv, CountInv, CountWaits PROVE CountInv'
<1>1. Visit /\ UNCHANGED passVars /\ clk.pc = "look" /\ WholeInv
    BY DEF CountWaits, CountsNow, Visit, HeardInv
<1>2. clk' = [clk EXCEPT !.pos = clk.pos + 1] /\ clk \in ClockAt
    BY <1>1, Standing DEF CountWaits, OnwardWith
<1>3. clk'.pc = "look" /\ clk'.at = clk.at /\ clk'.pos = clk.pos + 1
    BY <1>1, <1>2 DEF ClockAt
<1>4. run' = run /\ whole' = whole /\ run' \in [Slots -> Nat]
    BY <1>1 DEF passVars, CountInv, PassesTyped
<1>5. lane[Here] \in Lane /\ Here \in Slots
    BY <1>1, Standing
<1>6. Counting(lane[Here]).idle /\ lane' = [lane EXCEPT ![Here] = Counting(lane[Here])]
    BY DEF CountWaits, OnwardWith
<1>7. ~Begins(lane[Here])
    BY <1>5, <1>6 DEF Counting, Lane
<1>8. Counting(lane[Here]) = lane[Here] /\ lane[Here].idle = TRUE
    BY <1>5, <1>6, <1>7 DEF Counting, Lane
<1>9. ASSUME NEW i \in Slots, i = Here, whole[i] = TRUE PROVE Counted(i)'
  <2>1. lane'[i] = lane[i] /\ lane[i].idle = TRUE
    BY <1>1, <1>6, <1>8, <1>9, EditedTyped
  <2>2. Counted(i) /\ run'[i] = AllOf(lane[i].pat)
    BY <1>4, <1>9, <2>1 DEF CountInv, Counted, AtRest
  <2>3. QED
    BY <1>1, <1>3, <1>9, <2>1, <2>2, RestCounted
<1>10. QED
    BY <1>1, <1>3, <1>4, <1>9, GoesOnCounts

\* The slots a lane has left, by what passes() says of it.
LEMMA SlotsLeft ==
    ASSUME HeardInv, CountInv, Visit, NEW i \in Slots, i = Here, Counted(i),
           rank[i] = Pass, lane[i].idle = FALSE, Starts(lane[i].pat)
    PROVE  /\ run[i] + lane[i].origin = Slot(lane[i].pat)
           /\ Passes(lane[i]) < lane[i].pat.count => run[i] < AllOf(lane[i].pat)
           /\ ~(Passes(lane[i]) < lane[i].pat.count) => run[i] = AllOf(lane[i].pat)
<1> DEFINE p == lane[i].pat
           o == lane[i].origin
<1>1. /\ p.rate \in Nat \ {0} /\ p.slots \in Nat \ {0} /\ p.count \in Nat \ {0}
      /\ o \in Nat /\ run[i] \in Nat /\ clk.at \in Nat
      /\ clk.at % p.rate = 0
    BY Standing DEF Counted, Counts, Starts
<1>2. ComeTo(i) = clk.at
    BY Standing DEF ComeTo
<1>3. run[i] + o = SlotsBefore(clk.at, p) /\ run[i] <= AllOf(p)
    BY <1>2 DEF Counted, UnderWay
<1>4. SlotsBefore(clk.at, p) = clk.at \div p.rate
  <2> DEFINE r == p.rate
  <2>1. r \in Nat \ {0} /\ clk.at \in Nat /\ clk.at % r = 0
    BY <1>1
  <2> HIDE DEF r
  <2>2. (clk.at + (r - 1)) \div r = clk.at \div r
    BY <2>1, OneMoreSlot
  <2>3. QED
    BY <2>2 DEF r, SlotsBefore
<1>5. run[i] + o = Slot(p)
    BY <1>3, <1>4 DEF Slot
<1> HIDE DEF p, o
<1>6. Passes(lane[i]) = run[i] \div p.slots
  <2>1. ~(Slot(p) < o) /\ Slot(p) - o = run[i]
    BY <1>1, <1>5
  <2>2. QED
    BY <2>1 DEF Passes, p, o
<1>7. /\ run[i] \div p.slots < p.count => run[i] < p.count * p.slots
      /\ ~(run[i] \div p.slots < p.count) => p.count * p.slots <= run[i]
    BY <1>1, PassesOfSlots
<1>8. p.count * p.slots \in Nat
    BY <1>1
<1>9. QED
    BY <1>1, <1>3, <1>5, <1>6, <1>7, <1>8 DEF AllOf, p, o

\* A count that is up has played all of its slots.
LEMMA CountEndsCounts ==
    ASSUME HeardInv, CountInv, CountEnds PROVE CountInv'
<1>1. /\ Visit /\ UNCHANGED passVars /\ clk.pc = "look" /\ WholeInv
      /\ InTurn(lane[Here]) /\ Starts(lane[Here].pat) /\ lane[Here].pat.count # 0
    BY DEF CountEnds, CountsNow, Visit, HeardInv
<1>2. clk' = [clk EXCEPT !.pos = clk.pos + 1] /\ clk \in ClockAt
    BY <1>1, Standing DEF CountEnds
<1>3. clk'.pc = "look" /\ clk'.at = clk.at /\ clk'.pos = clk.pos + 1
    BY <1>1, <1>2 DEF ClockAt
<1>4. run' = run /\ whole' = whole /\ run' \in [Slots -> Nat]
    BY <1>1 DEF passVars, CountInv, PassesTyped
<1>5. /\ lane[Here] \in Lane /\ Here \in Slots
      /\ lane[Here].pat.slots \in Nat \ {0} /\ lane[Here].pat.count \in Nat \ {0}
      /\ lane[Here].pat.rate \in Nat \ {0} /\ clk.at \in Nat
    BY <1>1, Standing DEF InTurn
<1>6. /\ ~Counting(lane[Here]).idle
      /\ ~(Passes(Counting(lane[Here])) < lane[Here].pat.count)
  <2>1. /\ ~Counting(lane[Here]).idle
        /\ Passes(Counting(lane[Here])) >= Counting(lane[Here]).pat.count
    BY DEF CountEnds
  <2>2. Counting(lane[Here]).pat = lane[Here].pat
    BY <1>5, CountingTyped, <1>1
  <2>3. Passes(Counting(lane[Here])) >= lane[Here].pat.count
    BY <2>1, <2>2
  <2>4. Passes(Counting(lane[Here])) \in Nat
    <3>1. Slot(lane[Here].pat) \in Nat /\ Counting(lane[Here]).origin \in Nat
      BY <1>1, <1>5, CountingTyped DEF Slot, Lane
    <3>2. QED
      BY <1>5, <2>2, <3>1 DEF Passes
  <2>5. QED
    BY <1>5, <2>1, <2>3, <2>4
<1>7. ~Begins(lane[Here])
  <2>1. SUFFICES ASSUME Begins(lane[Here]) PROVE FALSE
    OBVIOUS
  <2>2. /\ Counting(lane[Here]).origin = Slot(lane[Here].pat)
        /\ Counting(lane[Here]).pat = lane[Here].pat
    BY <1>5, <2>1 DEF Counting, Lane
  <2>3. Slot(lane[Here].pat) \in Nat
    BY <1>5 DEF Slot
  <2>4. Passes(Counting(lane[Here])) = 0
    <3>1. 0 \div lane[Here].pat.slots = 0
      BY <1>5
    <3>2. QED
      BY <2>2, <2>3, <3>1 DEF Passes
  <2>5. QED
    BY <1>5, <1>6, <2>4
<1>8. Counting(lane[Here]) = lane[Here]
    BY <1>7 DEF Counting
<1>9. ASSUME NEW i \in Slots, i = Here, whole[i] = TRUE PROVE Counted(i)'
  <2>1. Counted(i) /\ lane[i].idle = FALSE /\ rank[i] = Pass
    BY <1>1, <1>5, <1>6, <1>8, <1>9 DEF CountInv, InTurn, Lane
  <2>2. run[i] = AllOf(lane[i].pat)
    BY <1>1, <1>6, <1>8, <1>9, <2>1, SlotsLeft
  <2>3. lane'[i].idle = TRUE
    <3>1. PICK e : lane' = Told(Ended, e)
      BY DEF CountEnds, Ended
    <3>2. Ended \in [Slots -> Lane] /\ Ended[i].idle = TRUE
      <4>1. Ended[i] = [lane[Here] EXCEPT !.idle = TRUE,
                              !.done = lane[Here].done \/ ~Routed(lane[Here]),
                              !.muted = lane[Here].muted \/ ~Routed(lane[Here])]
        BY <1>1, <1>8, <1>9, EditedTyped DEF Ended
      <4>2. QED
        BY <1>1, <1>5, <4>1, EndedPlay DEF Lane
    <3>3. QED
      BY <3>1, <3>2, ToldPlay DEF SameCount
  <2>4. QED
    BY <1>1, <1>3, <1>4, <1>9, <2>1, <2>2, <2>3, RestCounted
<1>10. QED
    BY <1>1, <1>3, <1>4, <1>9, GoesOnCounts
-----------------------------------------------------------------------------
\* The lane that the clock is at has not had its visit while it plays.
LEMMA ComesToHere ==
    ASSUME HeardInv, CountInv, Visit, NEW i \in Slots, i = Here, rank[i] = Pass,
           clk'.pc = "play", clk'.at = clk.at, clk'.pos = clk.pos
    PROVE  ComeTo(i) = clk.at /\ ComeTo(i)' = clk.at
<1>1. ~Visited(i) /\ Ticking /\ rank' = rank
    BY Standing
<1>2. Ticking' /\ ~Visited(i)'
    BY <1>1, VisitedStays DEF Ticking
<1>3. QED
    BY <1>1, <1>2 DEF ComeTo

LEMMA CountPlaysCounts ==
    ASSUME HeardInv, CountInv, CountPlays PROVE CountInv'
<1> DEFINE c == Counting(lane[Here])
<1>1. /\ Visit /\ clk.pc = "look" /\ WholeInv
      /\ InTurn(lane[Here]) /\ Starts(lane[Here].pat) /\ lane[Here].pat.count # 0
    BY DEF CountPlays, CountsNow, Visit, HeardInv
<1>2. /\ ~c.idle /\ Passes(c) < c.pat.count
      /\ lane' = [lane EXCEPT ![Here] = c]
      /\ clk' = [clk EXCEPT !.pc = "play", !.pat = c.pat, !.side = FALSE]
    BY DEF CountPlays, FireWith
<1>3. /\ lane[Here] \in Lane /\ Here \in Slots
      /\ lane[Here].pat.slots \in Nat \ {0} /\ lane[Here].pat.count \in Nat \ {0}
      /\ lane[Here].pat.rate \in Nat \ {0} /\ clk.at \in Nat
      /\ rank[Here] = Pass /\ lane[Here].used = TRUE /\ lane[Here].muted = FALSE
      /\ clk \in ClockAt
    BY <1>1, Standing DEF InTurn, Lane
<1>4. /\ c \in Lane /\ SamePlay(c, lane[Here]) /\ c.muted = FALSE /\ c.idle = FALSE
      /\ c.pat = lane[Here].pat
    BY <1>1, <1>2, <1>3, CountingTyped, CountingPlay DEF Lane
<1>5. /\ clk'.pc = "play" /\ clk'.at = clk.at /\ clk'.pos = clk.pos
      /\ clk'.pat = lane[Here].pat
  <2> HIDE DEF c
  <2>1. QED
    BY <1>2, <1>3, <1>4 DEF ClockAt
<1>6. Here' = Here /\ Pass' = Pass /\ rank' = rank /\ lane'[Here] = c
      /\ passes' = passes /\ tick' = tick /\ Ticking'
  <2> HIDE DEF c
  <2>1. QED
    BY <1>1, <1>2, <1>3, <1>5, Standing, EditedTyped DEF Here, Pass, Ticking
<1>7. /\ run' \in [Slots -> Nat] /\ whole' \in [Slots -> BOOLEAN]
      /\ \A i \in Slots : i # Here => run'[i] = run[i] /\ whole'[i] = whole[i]
      /\ Begins(lane[Here]) => /\ run'[Here] = 0
                               /\ whole'[Here] = TRUE => clk.at = tick /\ c.done = FALSE
      /\ ~Begins(lane[Here]) => run' = run /\ whole' = whole
  <2>1. PassesTyped
    BY DEF CountInv
  <2>2. CASE Begins(lane[Here])
    <3>1. /\ run' = [run EXCEPT ![Here] = 0]
          /\ whole' = [whole EXCEPT ![Here] = clk.at = tick /\ ~c.done]
      BY <2>2 DEF CountPlays
    <3>2. (clk.at = tick /\ ~c.done) \in BOOLEAN
      OBVIOUS
    <3>3. c.done \in BOOLEAN
      BY <1>4 DEF Lane
    <3> HIDE DEF c
    <3>4. /\ run' \in [Slots -> Nat] /\ run'[Here] = 0
          /\ \A i \in Slots : i # Here => run'[i] = run[i]
      BY <1>3, <2>1, <3>1 DEF PassesTyped
    <3>5. /\ whole' \in [Slots -> BOOLEAN] /\ whole'[Here] = (clk.at = tick /\ ~c.done)
          /\ \A i \in Slots : i # Here => whole'[i] = whole[i]
      BY <1>3, <2>1, <3>1, <3>2 DEF PassesTyped
    <3>6. QED
      BY <2>2, <3>3, <3>4, <3>5
  <2>3. CASE ~Begins(lane[Here])
    <3>1. run' = run /\ whole' = whole
      BY <2>3 DEF CountPlays, passVars
    <3>2. QED
      BY <2>1, <2>3, <3>1 DEF PassesTyped
  <2>4. QED
    BY <2>2, <2>3
<1>8. ASSUME NEW i \in Slots, i = Here, whole'[i] = TRUE
      PROVE  Counted(i)' /\ run'[i] < AllOf(lane[i].pat)
  <2>1. lane'[i] = c /\ SamePlay(c, lane[i]) /\ Pass < passes
    BY <1>1, <1>4, <1>6, <1>8, InTheTable
  <2>2. ComeTo(i) = clk.at /\ ComeTo(i)' = clk.at
    BY <1>1, <1>3, <1>5, <1>8, ComesToHere
  <2>3. CASE Begins(lane[i])
    <3>1. run'[i] = 0 /\ clk.at = tick /\ c.done = FALSE
      BY <1>7, <1>8, <2>3
    <3>2. c.origin = Slot(lane[i].pat)
      BY <1>3, <1>8, <2>3 DEF Counting, Lane
    <3>3. SlotsBefore(clk.at, lane[i].pat) = Slot(lane[i].pat)
      <4>1. clk.at % lane[i].pat.rate = 0
        BY <1>1, <1>8 DEF Starts
      <4>2. QED
        BY <1>3, <1>8, <4>1, OneMoreSlot DEF SlotsBefore, Slot
    <3>4. 0 < AllOf(lane[i].pat)
      <4>1. \A a, b \in Nat \ {0} : 0 < a * b
        OBVIOUS
      <4>2. QED
        BY <1>3, <1>8, <4>1 DEF AllOf
    <3>5. Slot(lane[i].pat) \in Nat
      BY <1>3, <1>8 DEF Slot
    <3> HIDE DEF c
    <3>6. Counts(i)'
      BY <1>3, <1>5, <1>6, <1>8, <2>1, <3>1 DEF Counts, SamePlay
    <3>7. UnderWay(i)'
      <4>1. run'[i] + lane'[i].origin = SlotsBefore(ComeTo(i)', lane'[i].pat)
        BY <2>1, <2>2, <3>1, <3>2, <3>3, <3>5 DEF SamePlay
      <4>2. run'[i] <= AllOf(lane'[i].pat)
        <5>1. lane'[i].pat = lane[i].pat
          BY <2>1 DEF SamePlay
        <5>2. AllOf(lane[i].pat) \in Nat
          BY <1>3, <1>8 DEF AllOf
        <5>3. QED
          BY <3>1, <3>4, <5>1, <5>2
      <4>3. QED
        BY <1>4, <2>1, <3>1, <4>1, <4>2 DEF UnderWay
    <3>8. QED
      BY <1>4, <2>1, <3>1, <3>4, <3>6, <3>7 DEF Counted
  <2>4. CASE ~Begins(lane[i])
    <3>1. c = lane[i] /\ run'[i] = run[i] /\ whole[i] = TRUE
      BY <1>7, <1>8, <2>4 DEF Counting
    <3>2. Counted(i) /\ lane[i].idle = FALSE
      BY <1>4, <3>1 DEF CountInv
    <3>3. run[i] < AllOf(lane[i].pat)
      BY <1>1, <1>2, <1>3, <1>8, <3>1, <3>2, SlotsLeft
    <3> HIDE DEF c
    <3>4. Counts(i)' /\ UnderWay(i)'
      <4>1. Ticking
        BY <1>1, Standing
      <4>2. lane'[i] = lane[i]
        BY <2>1, <3>1
      <4>3. Counts(i)'
        BY <1>5, <1>6, <3>2, <4>1, <4>2 DEF Counted, Counts
      <4>4. UnderWay(i)'
        BY <2>2, <3>1, <3>2, <4>2 DEF Counted, UnderWay
      <4>5. QED
        BY <4>3, <4>4
    <3>5. lane'[i].idle = FALSE
      BY <1>4, <2>1
    <3>6. QED
      BY <3>1, <3>3, <3>4, <3>5 DEF Counted
  <2>5. QED
    BY <2>3, <2>4
<1> HIDE DEF c
<1>9. PlaysCounted'
  <2>1. SUFFICES ASSUME whole'[Here] = TRUE
                 PROVE  /\ lane'[Here].idle = FALSE /\ rank'[Here] = Pass
                        /\ clk'.pat = lane'[Here].pat
                        /\ clk'.at % lane'[Here].pat.rate = 0
                        /\ run'[Here] < AllOf(lane'[Here].pat)
    BY <1>6 DEF PlaysCounted, Starts
  <2>2. run'[Here] < AllOf(lane[Here].pat)
    BY <1>3, <1>8, <2>1
  <2>3. clk'.at % lane'[Here].pat.rate = 0
    <3>1. clk.at % lane[Here].pat.rate = 0
      BY <1>1 DEF Starts
    <3>2. lane'[Here].pat = lane[Here].pat
      BY <1>4, <1>6
    <3>3. QED
      BY <1>5, <3>1, <3>2
  <2>4. QED
    BY <1>3, <1>4, <1>5, <1>6, <2>2, <2>3
<1>10. PassesTyped'
    BY <1>1, <1>5, <1>7, PosKept
<1>11. QED
    BY <1>1, <1>5, <1>7, <1>8, <1>9, <1>10, VisitDone

\* What plays is counted: its events are there to be played.
LEMMA PlayCounts ==
    ASSUME HeardInv, CountInv, PlayEvent PROVE CountInv'
<1>1. Visit /\ clk.pc = "play" /\ whole' = whole /\ WholeInv /\ PassesTyped
    BY DEF PlayEvent, Visit, HeardInv, CountInv
<1>2. clk' = [clk EXCEPT !.pc = "look", !.pos = clk.pos + 1, !.pat = Blank, !.side = FALSE]
      /\ clk \in ClockAt
    BY <1>1, Standing DEF PlayEvent
<1>3. clk'.pc = "look" /\ clk'.at = clk.at /\ clk'.pos = clk.pos + 1
    BY <1>2 DEF ClockAt
<1>4. Here \in Slots
    BY <1>1, Standing
<1>5. run' = run \/ run' = [run EXCEPT ![Here] = run[Here] + 1]
    BY DEF PlayEvent
<1>6. run' \in [Slots -> Nat] /\ \A i \in Slots : i # Here => run'[i] = run[i]
    BY <1>1, <1>4, <1>5 DEF PassesTyped
<1>7. ASSUME NEW i \in Slots, i = Here, whole[i] = TRUE PROVE Counted(i)'
  <2>1. /\ lane[i].idle = FALSE /\ rank[i] = Pass /\ clk.pat = lane[i].pat
        /\ Starts(lane[i].pat) /\ run[i] < AllOf(lane[i].pat) /\ Counted(i)
    BY <1>1, <1>7 DEF CountInv, PlaysCounted
  <2>2. lane[i].pat.count # 0 /\ lane[i].ev # Blank
    <3>1. lane[i].pat.count # 0 /\ Blank.count = 0
      BY <2>1 DEF Counted, Counts, Blank
    <3>2. lane[i].ev = lane[i].pat \/ lane[i].pat = Blank
      BY <1>1 DEF WholeInv, LanesWhole
    <3>3. QED
      BY <3>1, <3>2
  <2>3. /\ lane' = Told(lane, [of |-> lane[Here].name, end |-> FALSE])
        /\ run' = [run EXCEPT ![Here] = run[Here] + 1]
    BY <1>7, <2>1, <2>2 DEF PlayEvent
  <2>4. run'[i] = run[i] + 1 /\ run[i] \in Nat
    BY <1>1, <1>4, <1>7, <2>3 DEF PassesTyped
  <2>5. SamePlay(lane'[i], lane[i]) /\ SameCount(lane'[i], lane[i])
    <3>1. PICK s : lane' = Told(lane, s)
      BY <2>3
    <3>2. QED
      BY <1>1, <3>1, EditedTyped, ToldPlay
  <2>6. ComeTo(i) = clk.at /\ ComeTo(i)' = clk.at + 1
    <3>1. Ticking /\ Ticking' /\ ~Visited(i) /\ rank' = rank /\ RanksInv
      BY <1>1, <1>3, <1>7, <2>1, Standing DEF Ticking, HeardInv
    <3>2. Visited(i)'
      BY <1>1, <1>3, <1>7, <2>1, <3>1, VisitedNext
    <3>3. QED
      BY <1>3, <3>1, <3>2 DEF ComeTo
  <2>7. Counts(i)'
    BY <1>1, <1>3, <2>1, <2>5, Standing DEF Counted, Counts, SamePlay, Ticking
  <2>8. UnderWay(i)'
    <3>1. /\ UnderWay(i) /\ lane[i].pat.rate \in Nat \ {0} /\ clk.at \in Nat
          /\ clk.at % lane[i].pat.rate = 0 /\ lane[i].origin \in Nat
      BY <1>1, <1>7, <2>1, Standing DEF Counted, Starts
    <3>2. SlotsBefore(clk.at + 1, lane[i].pat) = SlotsBefore(clk.at, lane[i].pat) + 1
      <4> DEFINE r == lane[i].pat.rate
      <4>1. r \in Nat \ {0} /\ clk.at \in Nat /\ clk.at % r = 0
        BY <3>1
      <4> HIDE DEF r
      <4>2. ((clk.at + 1) + (r - 1)) \div r = ((clk.at + (r - 1)) \div r) + 1
        <5>1. (clk.at + (r - 1)) \div r = clk.at \div r
          BY <4>1, OneMoreSlot
        <5>2. ((clk.at + 1) + (r - 1)) \div r = (clk.at \div r) + 1
          BY <4>1, OneMoreSlot
        <5>3. QED
          BY <5>1, <5>2
      <4>3. QED
        BY <4>2 DEF r, SlotsBefore
    <3>3. run'[i] + lane[i].origin = SlotsBefore(clk.at + 1, lane[i].pat)
      BY <2>4, <2>6, <3>1, <3>2 DEF UnderWay
    <3>4. run'[i] <= AllOf(lane[i].pat)
      <4>1. AllOf(lane[i].pat) \in Nat
        BY <1>1, <1>7, Standing DEF AllOf
      <4>2. QED
        BY <2>1, <2>4, <4>1
    <3>5. QED
      BY <2>5, <2>6, <3>1, <3>3, <3>4 DEF UnderWay, SamePlay, SameCount, Routed
  <2>9. lane'[i].idle = FALSE
    BY <2>1, <2>5 DEF SameCount
  <2>10. QED
    BY <2>7, <2>8, <2>9 DEF Counted
<1>8. QED
    BY <1>1, <1>3, <1>6, <1>7, GoesOnCounts

LEMMA InitCounts == Init => CountInv
<1> SUFFICES ASSUME Init PROVE CountInv
    OBVIOUS
<1>1. PassesTyped
    BY DEF Init, PassesTyped
<1>2. BlankReleased /\ PlaysCounted
    BY DEF Init, BlankReleased, PlaysCounted
<1>3. \A i \in Slots : whole[i] # TRUE
    BY DEF Init
<1>4. QED
    BY <1>1, <1>2, <1>3 DEF CountInv

LEMMA StepCounts == HeardInv /\ CountInv /\ [Next]_vars => CountInv'
<1>1. ASSUME HeardInv, CountInv, Next PROVE CountInv'
    BY <1>1, EditorCounts, BetweenCounts, BeginCounts, EndCounts, PassOverCounts,
       FireCounts, CountWaitsCounts, CountPlaysCounts, CountEndsCounts, PlayCounts
       DEF Next, Clock
<1>2. ASSUME HeardInv, CountInv, UNCHANGED vars PROVE CountInv'
  <2>1. /\ UNCHANGED passVars /\ tick' = tick /\ clk' = clk /\ passes' = passes
        /\ lane' = lane /\ rank' = rank /\ ed' = ed
    BY <1>2 DEF vars, rankVars, clockVars, editVars
  <2>2. LeftAlone /\ PassesKept
    BY <1>2, <2>1, NoneTouched DEF CountInv
  <2>3. BlankReleased'
    BY <1>2, <2>1 DEF CountInv, BlankReleased
  <2>4. QED
    BY <1>2, <2>2, <2>3, AloneCounted DEF HeardInv
<1>3. QED
    BY <1>1, <1>2

\* "So that 'four times' is four", for any number of lanes, any patterns and any
\* history of edits: a count that ended has played every slot of every pass, if
\* the lane itself was left alone (fire_lanes(), tick()'s renumbering).
THEOREM CountsAreWhole == Spec => []CountWhole
<1>1. Spec => []HeardInv
    BY InitHeardInv, StepHeardInv, PTL DEF Spec
<1>2. Spec => [](HeardInv /\ CountInv)
    BY <1>1, InitHeardInv, InitCounts, StepHeardInv, StepCounts, PTL DEF Spec
<1>3. HeardInv /\ CountInv => CountWhole
  <2>1. SUFFICES ASSUME HeardInv, CountInv, NEW i \in Slots,
                        lane[i].used, lane[i].idle, whole[i]
                 PROVE  run[i] = lane[i].pat.count * lane[i].pat.slots
    BY DEF CountWhole
  <2>2. lane[i] \in Lane /\ whole[i] \in BOOLEAN
    BY <2>1, EditedTyped DEF HeardInv, CountInv, PassesTyped
  <2>3. lane[i].idle = TRUE /\ whole[i] = TRUE
    BY <2>1, <2>2 DEF Lane
  <2>4. QED
    BY <2>1, <2>3 DEF CountInv, Counted, AtRest, AllOf
<1>4. QED
    BY <1>2, <1>3, PTL
=============================================================================
