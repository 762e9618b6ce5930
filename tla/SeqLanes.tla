------------------------------ MODULE SeqLanes ------------------------------
(***************************************************************************)
(* The sequencer's lanes (seq.c): written on one core, played on another. *)
(*                                                                         *)
(*   the editor  the main task: cmd_lane(), c_route(), c_mute(), '>play',  *)
(*               '>stop', '>new'.  A command is several steps, because the *)
(*               clock may look between any two of its stores;             *)
(*   the clock   the esp_timer task: tick() takes a staged pattern, then   *)
(*               fires the lanes one by one in the order of their ranks.   *)
(*                                                                         *)
(* A compiled pattern is two words of memory: its events (ev) and the rest *)
(* (pat: slots, rate, count), copied one after the other.  Every slot has  *)
(* one hit, so what a tick does to a lane is to play it or not; values,    *)
(* bindings, odds, swing, inputs and the parts of a sound are left out.    *)
(***************************************************************************)
EXTENDS Naturals, FiniteSets, FiniteSetsExt

CONSTANTS Names,      \* names lanes are given
          MaxLanes,   \* SEQ_MAX_LANES
          Pats,       \* the patterns that are typed
          MaxTick,    \* bound: the transport is not followed past this tick
          MaxEdits,   \* bound: commands that are typed
          MaxAdopts,  \* bound: times the ensemble renumbers the ticks
          NoName      \* the empty string

Pattern == [id : STRING, slots : Nat, rate : Nat \ {0}, count : Nat]

ASSUME LanesAssumption ==
    /\ NoName \notin Names /\ MaxLanes \in Nat \ {0}
    /\ Pats \subseteq Pattern /\ \A p \in Pats : p.slots > 0
    /\ {MaxTick, MaxEdits, MaxAdopts} \subseteq Nat

VARIABLES lane,      \* s_lanes
          rank,      \* s_lanes[].rank
          maxrank,   \* s_maxrank
          passes,    \* fire_lanes()' passes, of one rank each
          stage,     \* s_stage
          stageFor,  \* s_stage_for
          running,   \* s_running
          tick,      \* s_tick
          clk,       \* where tick() stands
          ed,        \* where the editor's command stands, and what it is writing
          edits,     \* commands typed so far
          adopts,    \* renumberings so far
          fired,     \* observed: lanes that played in this tick
          quiet,     \* observed: no command has run since this tick began
          run,       \* observed: per slot, what it played since it last began
          whole,     \* observed: per slot, nobody touched that pass since
          played     \* observed: the memory the last event was read from

editVars  == <<ed, edits>>
stageVars == <<stage, stageFor>>
clockVars == <<clk, tick, adopts>>
seenVars  == <<fired, played>>
passVars  == <<run, whole>>
rankVars  == <<rank, maxrank>>
vars == <<lane, rankVars, passes, stageVars, running, clockVars, editVars, seenVars,
          quiet, passVars>>

Slots == 1..MaxLanes
None  == 0                       \* -1 in the code: no lane is waiting

Blank  == [id |-> "blank", slots |-> 0, rate |-> 1, count |-> 0]
Nothing == [ev |-> Blank, pat |-> Blank]
OneHit == [id |-> "x", slots |-> 1, rate |-> 1, count |-> 0]
AllPats == Pats \cup {Blank, OneHit}

\* What a lane follows: another lane's hits, or the end of its count.
Sources == [of : Names, end : BOOLEAN]
NoRoute == [of |-> NoName, end |-> FALSE]
Routed(l) == l.route # NoRoute

\* memset(l, 0) and the name; what find() hands out.
Fresh(n) == [used |-> TRUE, name |-> n, ev |-> Blank, pat |-> Blank,
             muted |-> FALSE, done |-> FALSE, route |-> NoRoute,
             trig |-> FALSE, idle |-> FALSE, origin |-> 0]
Unused == [Fresh(NoName) EXCEPT !.used = FALSE]

Free    == {i \in Slots : ~lane[i].used}
Find(n) == {i \in Slots : lane[i].used /\ lane[i].name = n}

\* find(name, true): the lane of that name, or the first free slot.
Target(n) ==
    IF Find(n) # {} THEN Find(n)
    ELSE {i \in Free : \A j \in Free : i <= j}

Opened(i, n) == IF i \in Find(n) THEN lane[i] ELSE Fresh(n)
RankZeroed(i, n) ==
    rank' = IF i \in Find(n) THEN rank ELSE [rank EXCEPT ![i] = 0]
----------------------------------------------------------------------------
(* rerank(): how many hops each lane is from one that follows nothing.     *)

Followed(l) == {i \in Slots : lane[i].used /\ lane[i].name = l.route.of}

\* The hops counted from each lane when the loop is cut off after d of them.
HopsWithin[d \in 0..(MaxLanes + 2)] ==
    [i \in Slots |->
        IF d = 0 \/ ~Routed(lane[i]) \/ Followed(lane[i]) = {} THEN 0
        ELSE 1 + HopsWithin[d - 1][CHOOSE j \in Followed(lane[i]) : TRUE]]

\* Mutants: a chain followed one hop too far; only the first hop counted.
RankOneTooFar(i) == HopsWithin[MaxLanes + 2][i]
RankOneHop(i) == HopsWithin[1][i]

\* A chain that loops back on itself is left after MaxLanes + 1 hops.
RankOf(i) == HopsWithin[MaxLanes + 1][i]

Ranked == [i \in Slots |-> IF lane[i].used THEN RankOf(i) ELSE rank[i]]
TopRank == Max({0} \cup {RankOf(i) : i \in {j \in Slots : lane[j].used}})
----------------------------------------------------------------------------
(* The clock.  clk.pos counts the visits of a tick: rank by rank, and in   *)
(* table order within a rank.                                              *)

Init ==
    /\ lane = [i \in Slots |-> Unused]
    /\ rank = [i \in Slots |-> 0] /\ maxrank = 0 /\ passes = 1
    /\ stage = Nothing
    /\ stageFor = None
    /\ running = FALSE
    /\ tick = 0
    /\ clk = [pc |-> "off", i |-> 1, pos |-> 0, at |-> 0,
              pat |-> Blank, side |-> FALSE]
    /\ ed = [pc |-> "idle", i |-> 1, p |-> Blank]
    /\ edits = 0 /\ adopts = 0
    /\ fired = {} /\ quiet = TRUE
    /\ run = [i \in Slots |-> 0] /\ whole = [i \in Slots |-> FALSE]
    /\ played = Nothing

\* Slots whose current pass was disturbed from outside are not judged.
Touch(S) == /\ whole' = [i \in Slots |-> whole[i] /\ i \notin S]
            /\ run' = [i \in Slots |-> IF i \in S THEN 0 ELSE run[i]]

NothingStaged ==
    /\ clk.pc = "off" /\ stageFor = None
    /\ clk' = [clk EXCEPT !.pc = "begin"]
    /\ UNCHANGED <<lane, rankVars, passes, stageVars, running, tick, adopts, editVars,
                   seenVars, quiet, passVars>>

TakeEvents ==
    /\ clk.pc = "off" /\ stageFor # None
    /\ lane' = [lane EXCEPT ![stageFor].ev = stage.ev]
    /\ clk' = [clk EXCEPT !.pc = "taking", !.i = stageFor]
    /\ UNCHANGED <<rankVars, passes, stageVars, running, tick, adopts, editVars,
                   seenVars, quiet, passVars>>

TakeRest ==
    /\ clk.pc = "taking"
    /\ lane' = [lane EXCEPT ![clk.i].pat = stage.pat, ![clk.i].idle = TRUE,
                            ![clk.i].done = FALSE]
    /\ stageFor' = None
    /\ clk' = [clk EXCEPT !.pc = "begin", !.i = 1]
    /\ Touch({clk.i})
    /\ UNCHANGED <<rankVars, passes, stage, running, tick, adopts, editVars, seenVars,
                   quiet>>

\* Stopped, the clock only arms itself again.
RestTick ==
    /\ clk.pc = "begin" /\ (~running \/ tick >= MaxTick)
    /\ clk' = [clk EXCEPT !.pc = "off"]
    /\ UNCHANGED <<lane, rankVars, passes, stageVars, running, tick, adopts, editVars,
                   seenVars, quiet, passVars>>

\* Lanes that count on their own wait for a downbeat of the new numbering.
\* Mutant: nobody waits.
NobodyWaits(l) == FALSE
WaitsAgain(l) == l.used /\ l.pat.count # 0 /\ ~l.done /\ ~Routed(l)

BeginTick ==
    /\ clk.pc = "begin" /\ running /\ tick < MaxTick
    /\ \E d \in {0} \cup (IF adopts < MaxAdopts THEN {1} ELSE {}) :
          LET again == {i \in Slots : d # 0 /\ WaitsAgain(lane[i])}
          IN  /\ tick' = tick + d
              /\ adopts' = adopts + d
              /\ lane' = [i \in Slots |-> [lane[i] EXCEPT
                             !.idle = @ \/ i \in again]]
              /\ clk' = [clk EXCEPT !.pc = "look", !.pos = 0, !.at = tick + d]
              /\ Touch(again \cup {i \in Slots : d # 0 /\ Routed(lane[i])})
    /\ passes' = maxrank + 1
    /\ fired' = {}
    /\ quiet' = (ed.pc = "idle")
    /\ UNCHANGED <<rankVars, stageVars, running, editVars, played>>

Here   == (clk.pos % MaxLanes) + 1
Pass   == clk.pos \div MaxLanes
AtEnd  == clk.pc = "look" /\ clk.pos = passes * MaxLanes
InTurn(l) == l.used /\ ~l.muted /\ l.pat.slots # 0 /\ rank[Here] = Pass

\* A routed lane with no count follows its source; one with a count is a cue.
Sidechain(l) == Routed(l) /\ l.pat.count = 0
Starts(p)    == clk.at % p.rate = 0
Slot(p)      == clk.at \div p.rate       \* g: slots since tick 0

OnwardWith(l) ==
    /\ lane' = [lane EXCEPT ![Here] = l]
    /\ clk' = [clk EXCEPT !.pos = @ + 1]

FireWith(l, side) ==
    /\ lane' = [lane EXCEPT ![Here] = l]
    /\ clk' = [clk EXCEPT !.pc = "play", !.pat = l.pat, !.side = side]

visitUnchanged == <<rankVars, passes, stageVars, running, tick, adopts, editVars, quiet>>

PassOver ==
    /\ clk.pc = "look" /\ ~AtEnd
    /\ LET l == lane[Here]
       IN  /\ \/ ~InTurn(l)
              \/ Sidechain(l) /\ ~l.trig
              \/ ~Sidechain(l) /\ ~Starts(l.pat)
           /\ OnwardWith(l)
    /\ UNCHANGED <<visitUnchanged, seenVars, passVars>>

FireRouted ==
    /\ clk.pc = "look" /\ ~AtEnd
    /\ LET l == lane[Here]
       IN  /\ InTurn(l) /\ Sidechain(l) /\ l.trig
           /\ FireWith([l EXCEPT !.trig = FALSE], TRUE)
    /\ UNCHANGED <<visitUnchanged, seenVars, passVars>>

FireOwn ==
    /\ clk.pc = "look" /\ ~AtEnd
    /\ LET l == lane[Here]
       IN  /\ InTurn(l) /\ ~Routed(l) /\ l.pat.count = 0 /\ Starts(l.pat)
           /\ FireWith(l, FALSE)
    /\ UNCHANGED <<visitUnchanged, seenVars, passVars>>
----------------------------------------------------------------------------
(* A count: a cue begins when its source says, a lane on its own at its    *)
(* downbeat; both play so many passes and then are the source 'name:end'.  *)

Begins(l) == IF Routed(l) THEN l.trig
             ELSE l.idle /\ Slot(l.pat) % l.pat.slots = 0

Counting(l) ==
    IF ~Begins(l) THEN l
    ELSE [l EXCEPT !.idle = FALSE, !.origin = Slot(l.pat),
                   !.trig = IF Routed(l) THEN FALSE ELSE @]

\* g - origin is a uint32_t: a lane whose origin lies ahead is long past.
Passes(l) == IF Slot(l.pat) < l.origin THEN l.pat.count
             ELSE (Slot(l.pat) - l.origin) \div l.pat.slots

CountsNow(l) == /\ clk.pc = "look" /\ ~AtEnd
                /\ InTurn(l) /\ l.pat.count # 0 /\ Starts(l.pat)

CountWaits ==
    LET l == Counting(lane[Here])
    IN  /\ CountsNow(lane[Here]) /\ l.idle
        /\ OnwardWith(l)
        /\ UNCHANGED <<visitUnchanged, seenVars, passVars>>

CountPlays ==
    LET l == Counting(lane[Here])
    IN  /\ CountsNow(lane[Here]) /\ ~l.idle /\ Passes(l) < l.pat.count
        /\ FireWith(l, FALSE)
        /\ IF Begins(lane[Here])
           THEN /\ run' = [run EXCEPT ![Here] = 0]
                /\ whole' = [whole EXCEPT ![Here] = clk.at = tick /\ ~l.done]
           ELSE UNCHANGED passVars
        /\ UNCHANGED <<visitUnchanged, seenVars>>

\* published() and publish_end(): tell everything that follows.
Told(ls, s) == [i \in Slots |-> IF ls[i].route = s /\ (s.end => ls[i].used)
                                THEN [ls[i] EXCEPT !.trig = TRUE] ELSE ls[i]]

CountEnds ==
    LET l == Counting(lane[Here])
        e == [of |-> l.name, end |-> TRUE]
        own == ~Routed(l)
    IN  /\ CountsNow(lane[Here]) /\ ~l.idle /\ Passes(l) >= l.pat.count
        /\ lane' = Told([lane EXCEPT ![Here] =
                           [l EXCEPT !.idle = TRUE, !.done = @ \/ own,
                                     !.muted = @ \/ own]], e)
        /\ clk' = [clk EXCEPT !.pos = @ + 1]
        /\ fired' = fired \cup {e}
        /\ UNCHANGED <<visitUnchanged, played, passVars>>

\* The events are read after the lane was found in turn: a slot wiped in
\* between has none, but a sidechain's one event is played without looking.
PlayEvent ==
    /\ clk.pc = "play"
    /\ LET l == lane[Here]
           s == [of |-> l.name, end |-> FALSE]
       IN  IF l.ev = Blank /\ ~clk.side
           THEN UNCHANGED <<lane, fired, played, run>>
           ELSE /\ lane' = Told(lane, s)
                /\ fired' = fired \cup {s}
                /\ played' = IF clk.side THEN played
                             ELSE [ev |-> l.ev, pat |-> clk.pat]
                /\ run' = IF clk.pat.count = 0 \/ ~whole[Here] THEN run
                          ELSE [run EXCEPT ![Here] = @ + 1]
    /\ clk' = [clk EXCEPT !.pc = "look", !.pos = @ + 1, !.pat = Blank, !.side = FALSE]
    /\ UNCHANGED <<visitUnchanged, whole>>

EndTick ==
    /\ AtEnd
    /\ tick' = tick + 1
    /\ clk' = [clk EXCEPT !.pc = "off", !.pos = 0, !.at = 0]
    /\ passes' = 1 /\ quiet' = FALSE
    /\ fired' = {} /\ played' = Nothing
    /\ UNCHANGED <<lane, rankVars, stageVars, running, adopts, editVars, passVars>>

Clock == \/ NothingStaged \/ TakeEvents \/ TakeRest \/ RestTick \/ BeginTick
         \/ PassOver \/ FireRouted \/ FireOwn
         \/ CountWaits \/ CountPlays \/ CountEnds
         \/ PlayEvent \/ EndTick
----------------------------------------------------------------------------
(* The editor.  Every command of a document's line comes in here.          *)

Idle == ed.pc = "idle"

Command ==
    /\ Idle /\ edits < MaxEdits
    /\ edits' = edits + 1 /\ quiet' = FALSE

Continue(pc) ==
    /\ ed.pc = pc
    /\ edits' = edits /\ quiet' = FALSE

\* An idle editor's locals are gone, and so are the clock's between its uses.
Goto(pc, i, p) == ed' = [pc |-> pc, i |-> IF pc = "idle" THEN 1 ELSE i, p |-> p]

editUnchanged == <<running, passes, clk, tick, adopts, seenVars>>

\* cmd_lane() with a pattern that compiles: the lane is found or made, and
\* the pattern waits for the stage.
WriteLane(n, p) ==
    /\ Command
    /\ \E i \in Target(n) :
          /\ lane' = [lane EXCEPT ![i] = Opened(i, n)]
          /\ RankZeroed(i, n)
          /\ Goto("write", i, p)
          /\ Touch({i} \ Find(n))
    /\ UNCHANGED <<maxrank, stageVars, editUnchanged>>

\* stage_wait(): a tick comes at the latest every 32 ms and the wait is 40 ms.
\* Mutant: nobody waits.
StageOpen == TRUE
StageFree == stageFor = None

FillEvents ==
    /\ ed.pc \in {"write", "sourced"} /\ StageFree
    /\ stage' = [stage EXCEPT !.ev = ed.p]
    /\ Goto(IF ed.pc = "write" THEN "fill" ELSE "fillOne", ed.i, ed.p)
    /\ edits' = edits /\ quiet' = FALSE
    /\ UNCHANGED <<lane, rankVars, stageFor, editUnchanged, passVars>>

FillRest ==
    /\ ed.pc \in {"fill", "fillOne"}
    /\ stage' = [stage EXCEPT !.pat = ed.p]
    /\ stageFor' = ed.i
    /\ Goto(IF ed.pc = "fill" THEN "handed" ELSE "handedOne", ed.i, ed.p)
    /\ edits' = edits /\ quiet' = FALSE
    /\ UNCHANGED <<lane, rankVars, editUnchanged, passVars>>

\* rerank(), at the end of every edit.  A lane whose rank changes under a tick
\* can miss its turn or have it twice.
Moved == {i \in Slots : Ranked[i] # rank[i]}

Rerank(next) ==
    /\ rank' = Ranked /\ maxrank' = TopRank
    /\ Goto(next, ed.i, ed.p)
    /\ Touch(Moved)
    /\ UNCHANGED <<lane, stageVars, editUnchanged>>

LaneWritten == Continue("handed") /\ StageFree /\ Rerank("unmute")

\* seq_mute(name, false) after seq_lane(); and what seq_route() does for a lane
\* it gave a pattern.
Unmute ==
    /\ \/ Continue("unmute")
       \/ Continue("handedOne") /\ StageFree
    /\ lane' = [lane EXCEPT ![ed.i].muted = FALSE, ![ed.i].used = TRUE]
    /\ Goto("idle", ed.i, Blank)
    /\ Touch({ed.i})
    /\ UNCHANGED <<rankVars, stageVars, editUnchanged>>

\* seq_forget(): silence it before releasing it.  The name is left alone.
Forget(n) ==
    /\ Command
    /\ \E i \in Find(n) :
          /\ lane' = [lane EXCEPT ![i].pat = Blank]
          /\ Goto("release", i, Blank)
          /\ Touch({i})
    /\ UNCHANGED <<rankVars, stageVars, editUnchanged>>

Released(l) == [l EXCEPT !.pat = Blank, !.route = NoRoute, !.trig = FALSE,
                         !.used = FALSE]

Release ==
    /\ Continue("release")
    /\ lane' = [lane EXCEPT ![ed.i] = Released(@)]
    /\ Goto("rank", ed.i, Blank)
    /\ UNCHANGED <<rankVars, stageVars, editUnchanged, passVars>>

Forgotten == Continue("rank") /\ Rerank("idle")

\* '>new': seq_forget_all(), a lane at a time.
NewDocument ==
    /\ Command
    /\ Goto("clear", 1, Blank)
    /\ UNCHANGED <<lane, rankVars, stageVars, editUnchanged, passVars>>

ClearLane ==
    /\ Continue("clear")
    /\ lane' = [lane EXCEPT ![ed.i] = Released(@)]
    /\ IF ed.i = MaxLanes THEN Goto("rank", ed.i, Blank)
                          ELSE Goto("clear", ed.i + 1, Blank)
    /\ Touch({ed.i})
    /\ UNCHANGED <<rankVars, stageVars, editUnchanged>>
----------------------------------------------------------------------------
\* c_route(): the lane is made if it is not there, and then seq_route().
Route(n, s) ==
    /\ Command
    /\ s # [of |-> n, end |-> FALSE]
    /\ \E i \in Target(n) :
          /\ lane' = [lane EXCEPT ![i] = [Opened(i, n) EXCEPT !.route = s]]
          /\ RankZeroed(i, n)
          /\ Goto("untrig", i, Blank)
          /\ Touch({i})
    /\ UNCHANGED <<maxrank, stageVars, editUnchanged>>

\* A lane cannot drive itself; but the lane was made before that was asked.
RouteToItself(n) ==
    /\ Command
    /\ Find(n) = {}
    /\ \E i \in Target(n) :
          /\ lane' = [lane EXCEPT ![i] = Fresh(n)]
          /\ RankZeroed(i, n)
          /\ Touch({i})
    /\ UNCHANGED <<maxrank, stageVars, ed, editUnchanged>>

Untrig ==
    /\ Continue("untrig")
    /\ lane' = [lane EXCEPT ![ed.i].trig = FALSE, ![ed.i].idle = TRUE]
    /\ Goto("reroute", ed.i, Blank)
    /\ Touch({ed.i})
    /\ UNCHANGED <<rankVars, stageVars, editUnchanged>>

\* A route is a pattern: a lane that had none is given one step.
RouteDone ==
    /\ Continue("reroute")
    /\ rank' = Ranked /\ maxrank' = TopRank
    /\ IF Routed(lane[ed.i]) /\ lane[ed.i].pat.slots = 0
       THEN Goto("sourced", ed.i, OneHit) ELSE Goto("idle", ed.i, Blank)
    /\ Touch(Moved)
    /\ UNCHANGED <<lane, stageVars, editUnchanged>>

\* c_mute(), and a line run again unchanged.
Mute(n, want) ==
    /\ Command
    /\ \E i \in Find(n) :
          /\ lane[i].muted # want
          /\ lane' = [lane EXCEPT ![i].muted = want]
          /\ Touch({i})
    /\ UNCHANGED <<rankVars, stageVars, ed, editUnchanged>>

\* seq_play(): every count waits again, and one that finished is back.
Rearmed(l) ==
    IF ~l.used \/ l.pat.count = 0 THEN l
    ELSE [l EXCEPT !.idle = TRUE, !.trig = FALSE, !.done = FALSE,
                   !.muted = @ /\ ~l.done]

Play ==
    /\ Command
    /\ lane' = [i \in Slots |-> Rearmed(lane[i])]
    /\ Goto("play", ed.i, Blank)
    /\ Touch(Slots)
    /\ UNCHANGED <<rankVars, stageVars, editUnchanged>>

FromTheTop ==
    /\ Continue("play")
    /\ tick' = 0 /\ running' = TRUE
    /\ Goto("idle", ed.i, Blank)
    /\ Touch(Slots)
    /\ UNCHANGED <<lane, rankVars, passes, stageVars, clk, adopts, seenVars>>

Stop ==
    /\ Idle /\ running
    /\ running' = FALSE /\ quiet' = FALSE
    /\ UNCHANGED <<lane, rankVars, passes, stageVars, editVars, clockVars, seenVars,
                   passVars>>

Editor ==
    \/ \E n \in Names :
          \/ \E p \in Pats : WriteLane(n, p)
          \/ \E s \in Sources \cup {NoRoute} : Route(n, s)
          \/ \E b \in BOOLEAN : Mute(n, b)
          \/ Forget(n) \/ RouteToItself(n)
    \/ FillEvents \/ FillRest \/ LaneWritten \/ Unmute
    \/ Release \/ Forgotten \/ NewDocument \/ ClearLane
    \/ Untrig \/ RouteDone
    \/ Play \/ FromTheTop \/ Stop

Next == Clock \/ Editor

Spec == Init /\ [][Next]_vars
----------------------------------------------------------------------------
Lane == [used : BOOLEAN, name : Names \cup {NoName}, ev : AllPats, pat : AllPats,
         muted : BOOLEAN, done : BOOLEAN, route : Sources \cup {NoRoute},
         trig : BOOLEAN, idle : BOOLEAN, origin : Nat]

\* The types: no rank goes past the number of lanes by more than the one that
\* says a chain is circular, and the clock never leaves the table.
TypeOK ==
    /\ lane \in [Slots -> Lane]
    /\ rank \in [Slots -> 0..(MaxLanes + 1)] /\ maxrank \in 0..(MaxLanes + 1)
    /\ stage \in [ev : AllPats, pat : AllPats]
    /\ stageFor \in Slots \cup {None}
    /\ clk.pc \in {"off", "taking", "begin", "look", "play"}
    /\ clk.i \in Slots /\ clk.pos \in 0..((MaxLanes + 2) * MaxLanes)
    /\ ed.i \in Slots /\ ed.p \in AllPats
    /\ tick \in Nat /\ {running, quiet} \subseteq BOOLEAN
    /\ fired \subseteq Sources

\* "A compiled lane is handed to the clock, not written under it": whatever is
\* typed and forgotten meanwhile, the slots a tick plays by and the events it
\* plays are of one pattern.
PatternWhole == played.ev = played.pat

\* "A routed lane hears its source on the same tick": in a tick no command ran
\* into, a lane that follows another's hits or another's end has played if what
\* it follows did, whatever order the lines were typed in and however the
\* routes were changed before.  Circular routes are excepted.
HeardOnTheTick ==
    AtEnd /\ quiet =>
        \A i \in Slots :
            LET l == lane[i]
            IN  /\ l.used /\ ~l.muted /\ l.pat.slots # 0 /\ Sidechain(l)
                /\ l.route \in fired /\ RankOf(i) <= MaxLanes
                => [of |-> l.name, end |-> FALSE] \in fired

\* "So that 'four times' is four": a count that ended had played every slot of
\* every pass, from its own downbeat or its cue, if the lane itself was left
\* alone.  Not judged: one that began in a tick '>play' overtook, and one that
\* had ended and was unmuted by hand, which is still marked done and does not
\* wait again when the ticks are renumbered.
CountWhole ==
    \A i \in Slots :
        lane[i].used /\ lane[i].idle /\ whole[i]
            => run[i] = lane[i].pat.count * lane[i].pat.slots

\* "A routed lane fires when its source fires", and at no other time.
FiresWithItsSource ==
    AtEnd /\ quiet =>
        \A i \in Slots :
            LET l == lane[i]
            IN  /\ l.used /\ Sidechain(l)
                /\ [of |-> l.name, end |-> FALSE] \in fired
                => l.route \in fired
=============================================================================
