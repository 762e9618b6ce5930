------------------------------ MODULE LaneNames ------------------------------
(* Names and what they play (cmd/builtins.c, cmd/cmd.c, seq/seq.c): a name is *)
(* defined as a drum, a voice, a controller, a picture's second name or an   *)
(* input; a lane is an address - a name, which one of it, a part of it - and *)
(* is bound to what its name says; a part sets its lane's level or octave.   *)
EXTENDS Integers, FiniteSets, Functions

CONSTANTS Words, Pictures, Verbs,   \* what a first word may be
          Addresses, Sources,       \* [base, inst, part]; what a route names
          Definitions,              \* [kind, num]: what a name is made
          Patterns,                 \* texts that compile; the rest are typos
          MaxNames, MaxInputs, MaxLanes
Kinds == {"note", "voice", "cc", "picture", "knob", "pad", "nothing"}
ASSUME LaneNamesAssumption ==
    /\ {MaxNames, MaxInputs, MaxLanes} \subseteq Nat
    /\ Addresses \subseteq [base : STRING, inst : Nat, part : STRING]
    /\ Definitions \subseteq [kind : Kinds, num : Nat]

VARIABLES names,    \* s_alias: word -> [kind, num]
          inputs,   \* s_inputs: word -> kind
          lanes,    \* the used lanes: address -> record
          running,
          answer,   \* what the last command came to
          late      \* history: words whose definition was refused half-way
namesVars == <<names, inputs, lanes, running, answer, late>>

Nowhere == [base |-> "", inst |-> 0, part |-> ""]
Without(f, S) == Restrict(f, DOMAIN f \ S)
With(f, x, v) == [y \in DOMAIN f \cup {x} |-> IF y = x THEN v ELSE f[y]]
Of(w) == {a \in DOMAIN lanes : a.base = w}
Parent(a) == [a EXCEPT !.part = ""]
InputKinds == {"knob", "pad"}
Sounds == {"note", "voice"}

-----------------------------------------------------------------------------
(* binding_of(): a defined name before a picture of its own name; a part     *)
(* that does nothing is refused.                                             *)
PartsOf(kind) == CASE kind = "picture" -> {"", "x", "y"}
                   [] kind = "voice" -> {"", "vel", "oct"}
                   [] kind = "note" -> {"", "vel"}
                   [] kind = "cc" -> {""}
                   [] OTHER -> {}
Meaning(ns, w) == IF w \in DOMAIN ns THEN ns[w]
                  ELSE IF w \in Pictures THEN [kind |-> "picture", num |-> 0]
                  ELSE [kind |-> "unknown", num |-> 0]
Binds(ns, a) == a.part \in PartsOf(Meaning(ns, a.base).kind)
Bound(ns, a) == LET m == Meaning(ns, a.base) IN [kind |-> m.kind, num |-> m.num, part |-> a.part]

(* seq_lane_bind() and find(): a lane of its own or a free slot; binding     *)
(* again gives the octave back, and nothing else changes.                    *)
Fresh(b) == [bound |-> b, live |-> FALSE, text |-> "", muted |-> FALSE, route |-> Nowhere,
             loud |-> FALSE, high |-> FALSE]
\* mutant: one slot too many
OneMore(a) == a \in DOMAIN lanes \/ Cardinality(DOMAIN lanes) <= MaxLanes
Room(a) == a \in DOMAIN lanes \/ Cardinality(DOMAIN lanes) < MaxLanes
BoundTo(ls, a, b) ==
    With(ls, a, IF a \in DOMAIN ls THEN [ls[a] EXCEPT !.bound = b, !.high = FALSE] ELSE Fresh(b))

(* seq_forget(): a part takes its setting with it.                           *)
\* mutant: the part goes, its setting stays
DroppedOnly(ls, a) == Without(ls, {a})
Dropped(ls, a) ==
    LET p == Parent(a)
        left == Without(ls, {a})
    IN IF a.part = "" \/ ls[a].bound.kind \notin Sounds \/ p \notin DOMAIN left THEN left
       ELSE [left EXCEPT ![p].loud = IF a.part = "vel" THEN FALSE ELSE @,
                         ![p].high = IF a.part = "oct" THEN FALSE ELSE @]

(* What a command may say. Everything below is the main task's.              *)
Done == answer' = "done"
Refused == answer' = "refused"
Unchanged == UNCHANGED <<names, inputs, lanes, late>>
Same == UNCHANGED running

-----------------------------------------------------------------------------
(* cmd_define(). The inputs and the lanes are seen to before the definition  *)
(* itself is looked at.                                                      *)
\* mutant: a name that becomes something else stays an input
InputsKept(w, d) == inputs
InputsLeft(w, d) ==
    IF w \in DOMAIN names /\ names[w].kind \in InputKinds /\ d.kind # names[w].kind
    THEN Without(inputs, {w}) ELSE inputs
\* mutant: the lanes of a name that goes play on
LanesKept(w) == lanes
LanesLeft(w) == Without(lanes, Of(w))
\* rebind_lanes()
\* mutant: only the lane of the plain name
RebindPlain(ns, w) ==
    [a \in DOMAIN lanes |-> IF a.base = w /\ a.inst = 1 /\ a.part = ""
                            THEN BoundTo(lanes, a, Bound(ns, a))[a] ELSE lanes[a]]
Rebound(ns, w) ==
    [a \in DOMAIN lanes |-> IF a.base = w /\ Binds(ns, a)
                            THEN BoundTo(lanes, a, Bound(ns, a))[a] ELSE lanes[a]]

NoRoomFor(w) == w \notin DOMAIN names /\ Cardinality(DOMAIN names) >= MaxNames
Forget(w) ==
    IF w \notin DOMAIN names THEN Done /\ Unchanged
    ELSE /\ names' = Without(names, {w}) /\ inputs' = InputsLeft(w, [kind |-> "none"])
         /\ lanes' = LanesLeft(w) /\ Done /\ late' = late
DefineInput(w, d) ==
    IF w \notin DOMAIN InputsLeft(w, d) /\ Cardinality(DOMAIN InputsLeft(w, d)) >= MaxInputs
    THEN Refused /\ Unchanged
    ELSE /\ inputs' = With(InputsLeft(w, d), w, d.kind) /\ lanes' = LanesLeft(w)
         /\ IF NoRoomFor(w)
            THEN Refused /\ late' = late \cup {w} /\ UNCHANGED names
            ELSE Done /\ names' = With(names, w, d) /\ late' = late
DefineSound(w, d) ==
    /\ inputs' = InputsLeft(w, d)
    /\ IF d.kind = "nothing" \/ NoRoomFor(w)
       THEN /\ Refused /\ UNCHANGED <<names, lanes>>
            /\ late' = IF inputs' = inputs THEN late ELSE late \cup {w}
       ELSE /\ Done /\ names' = With(names, w, d) /\ lanes' = Rebound(names', w) /\ late' = late
Define ==
    /\ Same
    /\ \/ \E w \in Verbs \cup Pictures : Refused /\ Unchanged
       \/ \E w \in Words : Forget(w)
       \/ \E w \in Words, d \in Definitions :
            IF d.kind \in InputKinds THEN DefineInput(w, d) ELSE DefineSound(w, d)

-----------------------------------------------------------------------------
(* cmd_lane() and seq_lane().                                                *)
Bare(a) ==
    IF ~Binds(names, a) THEN Refused /\ Unchanged
    ELSE /\ Done /\ lanes' = IF a \in DOMAIN lanes THEN Dropped(lanes, a) ELSE lanes
         /\ UNCHANGED <<names, inputs, late>>
\* rerun_silences()
SameLine(a, p) == /\ running /\ a \in DOMAIN lanes
                  /\ lanes[a].text = p /\ ~lanes[a].muted
Hush(a) == Done /\ lanes' = [lanes EXCEPT ![a].muted = TRUE] /\ UNCHANGED <<names, inputs, late>>
\* mutant: a lane that plays goes with a typo
NeverPlayed(l) == l.route = Nowhere
NeverHeard(l) == ~l.live /\ l.route = Nowhere
Typo(a) ==
    LET bound == BoundTo(lanes, a, Bound(names, a))
    IN /\ Refused /\ UNCHANGED <<names, inputs, late>>
       /\ lanes' = IF NeverHeard(bound[a]) THEN Without(bound, {a}) ELSE bound
Write(a, p) ==
    /\ Done /\ UNCHANGED <<names, inputs, late>>
    /\ lanes' = [BoundTo(lanes, a, Bound(names, a)) EXCEPT
                    ![a].live = TRUE, ![a].text = p, ![a].muted = FALSE]
Lane ==
    \E a \in Addresses, hands \in BOOLEAN :
        /\ Same
        /\ \/ Bare(a)
           \/ \E p \in Patterns \cup {"typo"} :
                IF ~Binds(names, a) THEN Refused /\ Unchanged
                ELSE IF hands /\ SameLine(a, p) THEN Hush(a)
                ELSE IF ~Room(a) THEN Refused /\ Unchanged
                ELSE IF p = "typo" THEN Typo(a) ELSE Write(a, p)

(* c_route(): a lane that is not there yet is made; one with no pattern gets *)
(* one step.                                                                 *)
Route ==
    \E a \in Addresses, src \in Sources \cup {Nowhere} :
        LET made == IF a \in DOMAIN lanes \/ ~Room(a) THEN lanes ELSE BoundTo(lanes, a, Bound(names, a))
        IN /\ Same /\ UNCHANGED <<names, inputs, late>>
           /\ IF a \notin DOMAIN lanes /\ ~Binds(names, a) THEN Refused /\ UNCHANGED lanes
              ELSE IF a \notin DOMAIN made \/ src = a THEN Refused /\ lanes' = made
              ELSE /\ Done
                   /\ lanes' = [made EXCEPT ![a].route = src,
                                   ![a].live = @ \/ src # Nowhere,
                                   ![a].text = IF made[a].live \/ src = Nowhere THEN @ ELSE "",
                                   ![a].muted = IF made[a].live \/ src = Nowhere THEN @ ELSE FALSE]

(* c_mute(): '>mute' and '>solo', bare or of one lane.                       *)
Mute ==
    \E a \in Addresses, how \in {"mute", "solo", "all on"} :
        /\ lanes' = [b \in DOMAIN lanes |-> [lanes[b] EXCEPT
                        !.muted = CASE how = "mute" -> b = a
                                    [] how = "solo" -> b # a
                                    [] OTHER -> FALSE]]
        /\ Done /\ Same /\ UNCHANGED <<names, inputs, late>>
\* '>new'
Clear == /\ lanes' = Without(lanes, DOMAIN lanes) /\ Done /\ Same
         /\ UNCHANGED <<names, inputs, late>>
PlayStop == running' = ~running /\ Done /\ Unchanged

(* fire_event(): a part's step sets the level or the octave of its lane, or, *)
(* an 'x', gives it back.                                                    *)
PartFires ==
    \E a \in DOMAIN lanes, set \in BOOLEAN :
        LET p == Parent(a)
        IN /\ running /\ lanes[a].live /\ ~lanes[a].muted
           /\ lanes[a].bound.kind \in Sounds /\ a.part # "" /\ p \in DOMAIN lanes
           /\ lanes' = IF a.part = "vel" THEN [lanes EXCEPT ![p].loud = set]
                                         ELSE [lanes EXCEPT ![p].high = set]
           /\ answer' = "none" /\ Same /\ UNCHANGED <<names, inputs, late>>

NoNames == [x \in {} |-> x]
NamesInit == /\ names = NoNames /\ inputs = NoNames /\ lanes = NoNames
             /\ running = FALSE /\ answer = "none" /\ late = {}
NamesNext == Define \/ Lane \/ Route \/ Mute \/ Clear \/ PlayStop \/ PartFires
NamesSpec == NamesInit /\ [][NamesNext]_namesVars

-----------------------------------------------------------------------------
NamesTypeOK ==
    /\ DOMAIN names \subseteq Words /\ Cardinality(DOMAIN names) <= MaxNames
    /\ DOMAIN inputs \subseteq Words /\ Cardinality(DOMAIN inputs) <= MaxInputs
    /\ DOMAIN lanes \subseteq Addresses /\ Cardinality(DOMAIN lanes) <= MaxLanes

(* 'A name that goes takes its lanes with it': every lane's name is defined  *)
(* as something that plays, or is a picture's own (cmd_define).              *)
EveryLaneHasItsName ==
    \A a \in DOMAIN lanes : Meaning(names, a.base).kind \notin {"unknown"} \cup InputKinds

(* 'Leaving them playing would leave lanes nothing can name - not to change, *)
(* not to drop': and its address is one a line is taken for.                 *)
EveryLaneCanBeDropped == \A a \in DOMAIN lanes : Binds(names, a)

(* 'So redefining a name changes what is already playing': a lane plays what *)
(* its name says now, whatever it was bound to when it was written.          *)
BoundAsItsName ==
    \A a \in DOMAIN lanes : Binds(names, a) => lanes[a].bound = Bound(names, a)

(* 'A part that goes takes its setting with it': a level or an octave that   *)
(* is not the lane's own has the part that set it still among the lanes      *)
(* (seq_forget, fire_event).                                                 *)
PartTakesItsSetting ==
    \A a \in DOMAIN lanes :
        /\ lanes[a].loud => [a EXCEPT !.part = "vel"] \in DOMAIN lanes
        /\ lanes[a].high => [a EXCEPT !.part = "oct"] \in DOMAIN lanes

(* A name is a knob or a pad exactly while it is an input: but for one whose *)
(* definition was refused after its input was made or removed (cmd_define).  *)
InputsAreNamed ==
    \A w \in Words \ late :
        w \in DOMAIN inputs <=> (w \in DOMAIN names /\ names[w].kind \in InputKinds)
InputsAlwaysNamed == late = {}

(* 'Touch nothing until it is good': a line that is refused leaves every     *)
(* lane that plays as it was, its name too - but for the octave its part     *)
(* set, which binding gives back (cmd_lane, seq_lane).                       *)
PlaysOn(old, new) == new \in {old, [old EXCEPT !.high = FALSE]}
RefusedTouchesNothing ==
    [][answer' = "refused" =>
        /\ names' = names
        /\ \A a \in DOMAIN lanes : (lanes[a].live \/ lanes[a].route # Nowhere) =>
               a \in DOMAIN lanes' /\ PlaysOn(lanes[a], lanes'[a])]_namesVars

(* 'Do not leave it holding one of the sixteen slots': every lane plays or   *)
(* follows something.                                                        *)
EveryLaneIsHeard == \A a \in DOMAIN lanes : ~NeverHeard(lanes[a])

(* Whatever names become while lanes play, are refused or are dropped, every *)
(* lane has its name, plays what it says and is set only by parts that are   *)
(* there, and an input is one exactly while its name is (cmd_define).        *)
LanesKeepTheirNames ==
    EveryLaneHasItsName /\ BoundAsItsName /\ PartTakesItsSetting /\ InputsAreNamed
==============================================================================
