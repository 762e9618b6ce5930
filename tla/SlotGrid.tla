------------------------------ MODULE SlotGrid ------------------------------
(* Which ticks start a lane's slots (seq/include/seq_pattern.h,             *)
(* seq_pattern_slot_at), which slot the playhead is on, and the passes of a  *)
(* lane with a count ("x.x. !4", seq/seq.c): a lane is written while the     *)
(* transport runs, and '>swing' moves its odd slots under it.                *)
EXTENDS Integers, FiniteSetsExt

CONSTANTS StepTicks,   \* ticks of a sixteenth
          Divs, Rates, \* slots in a step, and <<rnum, rden>>
          Slots, Counts, Swings, WrittenAt,
          LastTick     \* bound
ASSUME GridAssumption == /\ StepTicks \in Nat \ {0} /\ Counts \cup Swings \cup WrittenAt \subseteq Nat
                         /\ Divs \cup Slots \subseteq Nat \ {0}
                         /\ Rates \subseteq (Nat \ {0}) \X (Nat \ {0})

VARIABLES grid,     \* the lane: its pattern's measures and its count
          swing,    \* per cent
          tick,     \* the next tick
          lane,     \* [idle, done, origin]
          fired     \* the last slot started, of the transport's and of its own
                    \* passes, the tick it started on, and whether the swing has
                    \* changed since
gridVars == <<grid, swing, tick, lane, fired>>

Q(g) == StepTicks * g.rden
D(g) == g.div * g.rnum
SwingTicks(s) == Max({0, Min({(s * 2 * StepTicks) \div 100 - StepTicks, StepTicks - 2})})
TooFine(g) == D(g) > Q(g)    \* refused by the compiler

\* slot g starts on the tick nearest g * Q / D
\* mutant: the slot is looked for without rounding
SlotBelow(g, t) == (D(g) * t) \div Q(g)
LastStarted(g, t) == (D(g) * (2 * t + 1) - 1) \div (2 * Q(g))
\* mutant: the start is rounded down
StartBelow(g, n) == (n * Q(g)) \div D(g)
Start(g, n) == (2 * n * Q(g) + D(g)) \div (2 * D(g))
Delay(g, n, s) == IF n % 2 = 1 THEN (SwingTicks(s) * Q(g)) \div (StepTicks * D(g)) ELSE 0
SlotAt(g, t, s) == LET n == LastStarted(g, t) IN t = Start(g, n) + Delay(g, n, s)

(* The passes of a lane with a count: numbered from the slot it began on.    *)
\* mutant: the passes are numbered from the pass before
DownbeatBefore(l, g, n) ==
    IF l.idle /\ n % g.slots = 0 THEN [l EXCEPT !.idle = FALSE, !.origin = n - g.slots] ELSE l
Downbeat(l, g, n) ==
    IF l.idle /\ n % g.slots = 0 THEN [l EXCEPT !.idle = FALSE, !.origin = n] ELSE l
\* mutant: one pass too many
OverLate(l, g, n) == (n - l.origin) \div g.slots > g.count
Over(l, g, n) == (n - l.origin) \div g.slots >= g.count
Finished(l) == [l EXCEPT !.idle = TRUE, !.done = TRUE]

Limited(s) == Max({50, Min({s, 75})})   \* seq_swing()
NotYet == [g |-> -1, own |-> -1, at |-> 0, bent |-> FALSE]
GridInit ==
    /\ grid \in {g \in [div : Divs, rnum : {r[1] : r \in Rates}, rden : {r[2] : r \in Rates},
                        slots : Slots, count : Counts] :
                   <<g.rnum, g.rden>> \in Rates /\ ~TooFine(g) /\ g.slots % g.div = 0}
    /\ swing \in {Limited(s) : s \in Swings}
    /\ tick \in WrittenAt
    /\ lane = [idle |-> grid.count # 0, done |-> FALSE, origin |-> 0]
    /\ fired = NotYet

Quiet == tick' = tick + 1 /\ UNCHANGED <<grid, swing, lane, fired>>
Fires(n, l, own) ==
    /\ lane' = l
    /\ fired' = [g |-> n, own |-> own, at |-> tick, bent |-> FALSE]
    /\ tick' = tick + 1
    /\ UNCHANGED <<grid, swing>>

(* tick_cb(): a done lane is muted.                                          *)
Tick ==
    /\ tick < LastTick
    /\ LET n == LastStarted(grid, tick)
           l == Downbeat(lane, grid, n)
       IN IF lane.done \/ ~SlotAt(grid, tick, swing) THEN Quiet
          ELSE IF grid.count = 0 THEN Fires(n, lane, n)
          ELSE IF l.idle THEN Quiet
          ELSE IF Over(l, grid, n) THEN tick' = tick + 1 /\ lane' = Finished(l)
                                        /\ UNCHANGED <<grid, swing, fired>>
          ELSE Fires(n, l, n - l.origin)

(* seq_swing().                                                              *)
Swing ==
    \E s \in Swings :
        /\ swing' = Limited(s) /\ swing' # swing
        /\ fired' = [fired EXCEPT !.bent = TRUE]
        /\ UNCHANGED <<grid, tick, lane>>

GridNext == Tick \/ (tick < LastTick /\ Swing)
GridSpec == GridInit /\ [][GridNext]_gridVars

(* seq_lane_now(): the slot the playhead marks, s_tick being the tick before *)
(* the next one; a lane that counts has one only in its passes.              *)
Marks(t) == /\ t >= 0
            /\ grid.count # 0 => ~lane.idle /\ ~lane.done /\ ~Over(lane, grid, LastStarted(grid, t))
\* mutant: the mark is on the transport's slot
TransportSlot(t) == LastStarted(grid, t)
MarkedSlot(t) == LastStarted(grid, t) - (IF grid.count = 0 THEN 0 ELSE lane.origin)

-----------------------------------------------------------------------------
GridTypeOK ==
    /\ swing \in 0..100 /\ tick \in 0..LastTick
    /\ lane \in [idle : BOOLEAN, done : BOOLEAN, origin : Nat]
    /\ fired.g \in -1..LastTick /\ fired.own <= fired.g

(* Every slot of a lane starts, once and in turn, at every division, rate    *)
(* and swing; where the swing was changed between two slots at most one, an  *)
(* odd one, is lost or comes twice (seq_pattern_slot_at, seq_swing).         *)
EachSlotInTurn ==
    [][(fired'.at # fired.at /\ fired.g >= 0) =>
        \/ fired'.g = fired.g + 1
        \/ fired.bent /\ fired'.g = fired.g /\ fired.g % 2 = 1
        \/ fired.bent /\ fired'.g = fired.g + 2 /\ fired.g % 2 = 0]_gridVars

(* 'Its bar is exactly a bar, and each note is within half a tick of where   *)
(* it belongs': a slot starts on the tick nearest its share of the bar, an   *)
(* odd one later by at most the swing's own share and half a tick            *)
(* (seq_pattern_slot_at).                                                    *)
WithinHalfATick ==
    (fired.g >= 0 /\ ~fired.bent) =>
        LET after == 2 * (fired.at * D(grid) - fired.g * Q(grid))
            swung == IF fired.g % 2 = 1 THEN 2 * Q(grid) * SwingTicks(swing) ELSE 0
        IN /\ -D(grid) * StepTicks <= after * StepTicks - Max({0, swung - 2 * D(grid) * StepTicks})
           /\ after * StepTicks <= D(grid) * StepTicks + swung

(* A count is of whole passes: a lane that counts starts on its own first    *)
(* slot and ends when it has played count times its slots; were the swing    *)
(* never changed under it, neither more nor less (tick_cb, the count).       *)
WholePasses ==
    (grid.count # 0 /\ fired.g >= 0) =>
        /\ fired.own \in 0..(grid.count * grid.slots - 1)
        /\ lane.done /\ ~fired.bent => fired.own = grid.count * grid.slots - 1

(* 'A playhead on a lane that is not sounding is the one lie the playhead    *)
(* exists not to tell': a lane that counts has a playhead only between its   *)
(* first slot and its last, and the mark is on the slot that sounds, or, by  *)
(* the swing, on the one about to (seq_lane_now).                            *)
MarksWhatSounds ==
    (Marks(tick - 1) /\ fired.g >= 0) =>
        /\ MarkedSlot(tick - 1) \in {fired.own, fired.own + 1}
        /\ grid.count # 0 => MarkedSlot(tick - 1) \in 0..(grid.count * grid.slots - 1)

(* A lane's slots by the tick: where they belong, for whole passes, and      *)
(* marked as they sound (seq_pattern_slot_at, fire_lanes, seq_lane_now).     *)
GridKept == WithinHalfATick /\ WholePasses /\ MarksWhatSounds
=============================================================================
