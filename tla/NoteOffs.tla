------------------------------ MODULE NoteOffs ------------------------------
(***************************************************************************)
(* How a note that was switched on is switched off again (seq.c).         *)
(*                                                                         *)
(* Three tasks take part, and no lock is shared between them:              *)
(*                                                                         *)
(*   "clock"   the esp_timer task: tick() serves the table of pending      *)
(*             note-offs, then fires the lanes, and every note it emits    *)
(*             books its own off in that table;                            *)
(*   "editor"  the main task: '>play', '>stop' and '>panic';               *)
(*   midi_task the one consumer of the event queue, which hands each event *)
(*             to the destinations.                                        *)
(*                                                                         *)
(* The table's entries are plain structs written by the clock and cleared  *)
(* by both.  The order in which another core sees the fields of an entry   *)
(* change is therefore open, and TakeSlot writes them in either order.     *)
(* Gates are abstracted to "due or not yet"; what is not a note, an off or *)
(* CC 123 is a "clock" byte (0xF8 and above, which emit() tries to keep)   *)
(* or the song position "spp" (0xF2, which it does not).                   *)
(***************************************************************************)
EXTENDS Naturals, Sequences, FiniteSets

CONSTANTS Lanes,      \* lanes, each with one pitch
          NChans,     \* channels are 1..NChans (16 in the code)
          NOffs,      \* entries of s_offs
          Cap,        \* depth of s_midiq
          Keep,       \* length of emit()'s keep[]
          Sync,       \* '>sync on'
          KeepsUp,    \* the transport drains the queue before it fills
          Switches,   \* '>send <name> on|off' is used while playing
          Rebinds,    \* lanes are bound to another channel while playing
          NoNote      \* what an entry never written holds: status 0

ASSUME OffsAssumption ==
    /\ IsFiniteSet(Lanes) /\ NoNote \notin Lanes \X Nat
    /\ NOffs \in Nat \ {0} /\ NChans \in Nat \ {0}
    /\ Cap \in Nat \ {0} /\ Keep \in Nat
    /\ {Sync, KeepsUp, Switches, Rebinds} \subseteq BOOLEAN

VARIABLES offs,       \* s_offs
          playing,    \* s_running
          queue,      \* s_midiq, oldest first
          held,       \* per producer, the emit() it is in when the queue was full
          chan,       \* s_lanes[].chan
          ticking,    \* where tick() stands
          ed,         \* where the editor's command stands
          destOn,     \* dest_t.on of the one destination modelled
          sounding,   \* the notes on at the destination
          intact      \* observed: nothing has happened that can strand a note

offsVars == <<offs, playing, chan, queue, held, ticking, ed, destOn, sounding, intact>>
emitVars == <<queue, held>>
taskVars == <<offs, playing, chan, ticking, ed>>
destVars == <<destOn, sounding>>

Slots == 1..NOffs
Chans == 1..NChans
Notes == Lanes \X Chans          \* what travels: a lane's pitch on a channel
Producers == {"clock", "editor"}

On(n)   == [kind |-> "on",  arg |-> n]
NoteOff(n)  == [kind |-> "off", arg |-> n]
AllOff(c) == [kind |-> "cc123", arg |-> c]
Clock   == [kind |-> "clock", arg |-> NoNote]
Spp     == [kind |-> "spp", arg |-> NoNote]

Events == {On(n) : n \in Notes} \cup {NoteOff(n) : n \in Notes \cup {NoNote}}
            \cup {AllOff(c) : c \in Chans} \cup {Clock, Spp}

IsClock(e) == e.kind = "clock"

NotHeld == [stage |-> "free", ev |-> Clock, keep |-> <<>>]
Free(p) == held[p].stage = "free"

-----------------------------------------------------------------------------
(* emit(): one xQueueSend when there is room.                              *)
HasRoom == Len(queue) < Cap

Emit(p, e) ==
    \/ /\ HasRoom
       /\ queue' = Append(queue, e)
       /\ UNCHANGED held
    \/ /\ ~HasRoom /\ ~KeepsUp
       /\ held' = [held EXCEPT ![p] = [stage |-> "drop", ev |-> e, keep |-> <<>>]]
       /\ UNCHANGED queue

(* (mutant) keep[] is overrun by one. *)
CanKeepOneMore(p) == Len(held[p].keep) <= Keep

CanKeep(p) == Len(held[p].keep) < Keep

(* The queue was full: take events off its head until one is expendable,   *)
(* or keep[] is full, or nothing is left.                                  *)
DropOldest(p) ==
    /\ held[p].stage = "drop"
    /\ IF queue = <<>>
       THEN /\ held' = [held EXCEPT ![p].stage = "back"]
            /\ UNCHANGED queue
       ELSE /\ queue' = Tail(queue)
            /\ held' = IF IsClock(Head(queue)) /\ CanKeep(p)
                       THEN [held EXCEPT ![p].keep = Append(@, Head(queue))]
                       ELSE [held EXCEPT ![p].stage = "back"]
    /\ UNCHANGED <<taskVars, destVars, intact>>

(* A send without waiting, its result ignored: a full queue loses the      *)
(* event.  The other producer and midi_task run between these calls.       *)
SendIfRoom(e) == queue' = IF HasRoom THEN Append(queue, e) ELSE queue

PutBack(p) ==
    /\ held[p].stage = "back" /\ held[p].keep # <<>>
    /\ SendIfRoom(Head(held[p].keep))
    /\ held' = [held EXCEPT ![p].keep = Tail(@)]
    /\ UNCHANGED <<taskVars, destVars, intact>>

SendAgain(p) ==
    /\ held[p].stage = "back" /\ held[p].keep = <<>>
    /\ SendIfRoom(held[p].ev)
    /\ held' = [held EXCEPT ![p] = NotHeld]
    /\ intact' = FALSE                       \* s_dropped++
    /\ UNCHANGED <<taskVars, destVars>>

EmitStep(p) == DropOldest(p) \/ PutBack(p) \/ SendAgain(p)

-----------------------------------------------------------------------------
(* The clock.                                                              *)
ClockAt(pc) == ticking.pc = pc /\ Free("clock")

Tick ==
    /\ ClockAt("idle")
    /\ ticking' = [ticking EXCEPT !.pc = "serve", !.i = 1]
    /\ UNCHANGED <<offs, playing, chan, ed, emitVars, destVars, intact>>

(* service_offs(), one entry of the table a step, then s_running is read.  *)
Cleared(i) == [offs EXCEPT ![i].armed = FALSE, ![i].due = FALSE]

Serve ==
    /\ ClockAt("serve")
    /\ IF ticking.i > NOffs
       THEN /\ ticking' = IF playing
                          THEN [ticking EXCEPT !.pc = "pulse", !.todo = Lanes]
                          ELSE [ticking EXCEPT !.pc = "idle"]
            /\ UNCHANGED offs
       ELSE IF offs[ticking.i].armed /\ offs[ticking.i].due
       THEN /\ offs' = Cleared(ticking.i)
            /\ ticking' = [ticking EXCEPT !.pc = "serveEmit"]
       ELSE /\ ticking' = [ticking EXCEPT !.i = @ + 1]
            /\ UNCHANGED offs
    /\ UNCHANGED <<playing, chan, ed, emitVars, destVars, intact>>

ServeEmit ==
    /\ ClockAt("serveEmit")
    /\ Emit("clock", NoteOff(offs[ticking.i].note))
    /\ ticking' = [ticking EXCEPT !.pc = "serve", !.i = @ + 1]
    /\ UNCHANGED <<offs, playing, chan, ed, destVars, intact>>

(* 0xF8, on the ticks that owe one.                                        *)
Pulse ==
    /\ ClockAt("pulse")
    /\ \/ Sync /\ Emit("clock", Clock)
       \/ UNCHANGED emitVars
    /\ ticking' = [ticking EXCEPT !.pc = "fire"]
    /\ UNCHANGED <<offs, playing, chan, ed, destVars, intact>>

(* fire_event(): note-on, then schedule_off() with the lane's channel read *)
(* again, which looks for a free entry from the first.  Once a tick is the *)
(* bound on how often a lane fires.                                        *)
FireLane(l) ==
    /\ ClockAt("fire") /\ l \in ticking.todo
    /\ Emit("clock", On(<<l, chan[l]>>))
    /\ ticking' = [ticking EXCEPT !.pc = "book", !.note = <<l, chan[l]>>, !.todo = @ \ {l}]
    /\ UNCHANGED <<offs, playing, chan, ed, destVars, intact>>

Book ==
    /\ ClockAt("book")
    /\ LET l == ticking.note[1]
       IN  /\ ticking' = [ticking EXCEPT !.pc = "find", !.i = 1, !.note = <<l, chan[l]>>]
           /\ intact' = (intact /\ chan[l] = ticking.note[2])
    /\ UNCHANGED <<offs, playing, chan, ed, emitVars, destVars>>

TableSearched == ticking.i > NOffs

FindSlot ==
    /\ ClockAt("find") /\ ~TableSearched
    /\ ticking' = IF offs[ticking.i].armed
                  THEN [ticking EXCEPT !.i = @ + 1]
                  ELSE [ticking EXCEPT !.pc = "take", !.unset = {"armed", "note"}]
    /\ UNCHANGED <<offs, playing, chan, ed, emitVars, destVars, intact>>

(* Table full: the off is sent at once.                                    *)
(* (mutant) A full table loses the off. *)
OffForgotten ==
    /\ ClockAt("find") /\ TableSearched
    /\ ticking' = [ticking EXCEPT !.pc = "fire"]
    /\ UNCHANGED <<offs, playing, chan, ed, emitVars, destVars, intact>>

OffAtOnce ==
    /\ ClockAt("find") /\ TableSearched
    /\ Emit("clock", NoteOff(ticking.note))
    /\ ticking' = [ticking EXCEPT !.pc = "fire"]
    /\ UNCHANGED <<offs, playing, chan, ed, destVars, intact>>

TakeSlot(f) ==
    /\ ClockAt("take") /\ f \in ticking.unset
    /\ offs' = IF f = "armed" THEN [offs EXCEPT ![ticking.i].armed = TRUE]
                              ELSE [offs EXCEPT ![ticking.i].note = ticking.note]
    /\ ticking' = [ticking EXCEPT !.unset = @ \ {f},
                                  !.pc = IF ticking.unset = {f} THEN "fire" ELSE "take"]
    /\ UNCHANGED <<playing, chan, ed, emitVars, destVars, intact>>

(* The end of the tick, with 0xF9 when it begins a sixteenth.              *)
EndTick ==
    /\ ClockAt("fire")
    /\ Emit("clock", Clock) \/ UNCHANGED emitVars
    /\ ticking' = [ticking EXCEPT !.pc = "idle", !.todo = {}]
    /\ UNCHANGED <<offs, playing, chan, ed, destVars, intact>>

ClockStep == \/ Tick \/ Serve \/ ServeEmit \/ Pulse
             \/ \E l \in Lanes : FireLane(l)
             \/ Book \/ FindSlot \/ OffAtOnce
             \/ \E f \in {"armed", "note"} : TakeSlot(f)
             \/ EndTick

(* esp_timer_get_time() passes an entry's due_us.                          *)
TimePasses(i) ==
    /\ offs[i].armed /\ ~offs[i].due
    /\ offs' = [offs EXCEPT ![i].due = TRUE]
    /\ UNCHANGED <<playing, chan, ticking, ed, emitVars, destVars, intact>>

-----------------------------------------------------------------------------
(* The editor.                                                             *)
EditorAt(pc) == ed.pc = pc /\ Free("editor")

StartPlaying ==
    /\ EditorAt("idle")
    /\ playing' = TRUE
    /\ ed' = [ed EXCEPT !.pc = IF Sync THEN "spp" ELSE "idle"]
    /\ UNCHANGED <<offs, chan, ticking, emitVars, destVars, intact>>

PlaySync ==
    /\ \/ /\ EditorAt("spp")
          /\ Emit("editor", Spp)
          /\ ed' = [ed EXCEPT !.pc = "start"]
       \/ /\ EditorAt("start")
          /\ Emit("editor", Clock)
          /\ ed' = [ed EXCEPT !.pc = "idle"]
    /\ UNCHANGED <<offs, playing, chan, ticking, destVars, intact>>

(* seq_stop(); panic is seq_stop() and then seq_all_notes_off() once more. *)
Stop(panic) ==
    /\ EditorAt("idle")
    /\ IF Sync /\ playing THEN Emit("editor", Clock) ELSE UNCHANGED emitVars
    /\ ed' = [ed EXCEPT !.pc = "halt", !.again = panic]
    /\ UNCHANGED <<offs, playing, chan, ticking, destVars, intact>>

Halt ==
    /\ EditorAt("halt")
    /\ playing' = FALSE
    /\ ed' = [ed EXCEPT !.pc = "sweep", !.i = 1]
    /\ UNCHANGED <<offs, chan, ticking, emitVars, destVars, intact>>

(* seq_all_notes_off(): the table, then CC 123 on every channel.           *)
Sweep ==
    /\ EditorAt("sweep")
    /\ IF ed.i > NOffs
       THEN ed' = [ed EXCEPT !.pc = "cc", !.i = 1] /\ UNCHANGED offs
       ELSE IF offs[ed.i].armed
       THEN ed' = [ed EXCEPT !.pc = "sweepEmit"] /\ offs' = Cleared(ed.i)
       ELSE ed' = [ed EXCEPT !.i = @ + 1] /\ UNCHANGED offs
    /\ UNCHANGED <<playing, chan, ticking, emitVars, destVars, intact>>

SweepEmit ==
    /\ EditorAt("sweepEmit")
    /\ Emit("editor", NoteOff(offs[ed.i].note))
    /\ ed' = [ed EXCEPT !.pc = "sweep", !.i = @ + 1]
    /\ UNCHANGED <<offs, playing, chan, ticking, destVars, intact>>

(* (mutant) No CC 123 after the sweep. *)
SweepOnly ==
    /\ EditorAt("cc")
    /\ ed' = [pc |-> "idle", i |-> 1, again |-> FALSE]
    /\ UNCHANGED <<offs, playing, chan, ticking, emitVars, destVars, intact>>

SendAllOff ==
    /\ EditorAt("cc")
    /\ Emit("editor", AllOff(ed.i))
    /\ ed' = IF ed.i < NChans THEN [ed EXCEPT !.i = @ + 1]
             ELSE [pc |-> IF ed.again THEN "sweep" ELSE "idle",
                   i |-> 1, again |-> FALSE]
    /\ UNCHANGED <<offs, playing, chan, ticking, destVars, intact>>

EditorStep == PlaySync \/ Halt \/ Sweep \/ SweepEmit \/ SendAllOff

(* '>send <name> on|off': the flag, and nothing else.                      *)
SwitchDest ==
    /\ Switches /\ EditorAt("idle")
    /\ destOn' = ~destOn
    /\ UNCHANGED <<taskVars, emitVars, sounding, intact>>

(* seq_lane_bind(): '>kick = note 36 ch 3' "moves the running kick"; a slot *)
(* forgotten and given to another name changes the same way.               *)
Rebind(l, c) ==
    /\ Rebinds /\ EditorAt("idle")
    /\ chan' = [chan EXCEPT ![l] = c]
    /\ UNCHANGED <<offs, playing, ticking, ed, emitVars, destVars, intact>>

Command == StartPlaying \/ (\E panic \in BOOLEAN : Stop(panic)) \/ SwitchDest
           \/ \E l \in Lanes, c \in Chans : Rebind(l, c)

-----------------------------------------------------------------------------
(* midi_task: what the instrument behind the destination does with it.     *)
Heard(S, e) ==
    CASE e.kind = "on"    -> S \cup {e.arg}
      [] e.kind = "off"   -> S \ {e.arg}
      [] e.kind = "cc123" -> {n \in S : n[2] # e.arg}
      [] OTHER            -> S

Deliver ==
    /\ queue # <<>>
    /\ queue' = Tail(queue)
    /\ sounding' = IF destOn THEN Heard(sounding, Head(queue)) ELSE sounding
    /\ intact' = (intact /\ destOn)
    /\ UNCHANGED <<held, taskVars, destOn>>

-----------------------------------------------------------------------------
OffsInit ==
    /\ offs = [i \in Slots |-> [armed |-> FALSE, due |-> FALSE, note |-> NoNote]]
    /\ playing = FALSE
    /\ queue = <<>>
    /\ held = [p \in Producers |-> NotHeld]
    /\ chan = [l \in Lanes |-> 1]
    /\ ticking = [pc |-> "idle", i |-> 1, note |-> NoNote, todo |-> {}, unset |-> {}]
    /\ ed = [pc |-> "idle", i |-> 1, again |-> FALSE]
    /\ destOn = TRUE /\ sounding = {} /\ intact = TRUE

OffsNext ==
    \/ ClockStep \/ EditorStep \/ Command \/ Deliver
    \/ \E p \in Producers : EmitStep(p)
    \/ \E i \in Slots : TimePasses(i)

OffsSpec == OffsInit /\ [][OffsNext]_offsVars

(* The timer is re-armed by every tick, stopped or not; a command runs to  *)
(* its end; midi_task blocks on the queue only; time passes.  Nobody has   *)
(* to type anything.  Strong fairness, because under KeepsUp an emit() here *)
(* waits for room that in the code is there: without it two tasks writing  *)
(* to a queue of two could keep the third out for ever.                    *)
OffsFair ==
    /\ OffsSpec
    /\ SF_offsVars(ClockStep) /\ SF_offsVars(EditorStep) /\ WF_offsVars(Deliver)
    /\ \A p \in Producers : WF_offsVars(EmitStep(p))
    /\ \A i \in Slots : WF_offsVars(TimePasses(i))

-----------------------------------------------------------------------------
OffsTypeOK ==
    /\ offs \in [Slots -> [armed : BOOLEAN, due : BOOLEAN, note : Notes \cup {NoNote}]]
    /\ playing \in BOOLEAN /\ destOn \in BOOLEAN /\ intact \in BOOLEAN
    /\ chan \in [Lanes -> Chans]
    /\ queue \in Seq(Events) /\ Len(queue) <= Cap
    /\ \A p \in Producers :
         /\ held[p].stage \in {"free", "drop", "back"}
         /\ held[p].ev \in Events
         /\ held[p].keep \in Seq({Clock}) /\ Len(held[p].keep) <= Keep
    /\ ticking \in [pc : {"idle", "serve", "serveEmit", "pulse", "fire", "book", "find", "take"},
                    i : 1..(NOffs + 1), note : Notes \cup {NoNote},
                    todo : SUBSET Lanes, unset : SUBSET {"armed", "note"}]
    /\ ed \in [pc : {"idle", "spp", "start", "halt", "sweep", "sweepEmit", "cc"},
               i : Nat, again : BOOLEAN]
    /\ sounding \subseteq Notes

(* What is left sounding once midi_task has drained the queue: what the     *)
(* last event that has to do with it switched on, or nothing switched off.  *)
Strikes(e, n) == n \in Heard({}, e)
Silences(e, n) == n \notin Heard({n}, e)
Undisturbed(q, j, n) == \A k \in DOMAIN q : k > j => ~Silences(q[k], n)
AfterDrain(S, q) ==
    {n \in Notes : \/ n \in S /\ Undisturbed(q, 0, n)
                  \/ \E j \in DOMAIN q : Strikes(q[j], n) /\ Undisturbed(q, j, n)}

(* Somebody still owes note n an off: an armed entry, the clock between    *)
(* clearing or claiming an entry and finishing with it, or the editor with *)
(* the channel's CC 123 ahead of it.                                       *)
OffIsOwed(n) ==
    \/ \E i \in Slots : offs[i].armed /\ offs[i].note = n
    \/ ticking.pc = "serveEmit" /\ offs[ticking.i].note = n
    \/ ticking.pc \in {"book", "find", "take"} /\ ticking.note = n
    \/ ed.pc \in {"sweep", "sweepEmit"}
    \/ ed.pc = "cc" /\ ed.i <= n[2]

(* A note can be left sounding for three reasons only: emit() dropped an   *)
(* event from a full queue, the destination was off when one went by, or   *)
(* the lane's channel was changed between its note-on and the booking of   *)
(* the off.  Otherwise every note that sounds, or will when the queue      *)
(* drains, has its off still to come - whatever the clock and the editor   *)
(* do to the table at the same time (seq.c:333, schedule_off,              *)
(* service_offs, seq_all_notes_off).                                       *)
StuckOnlyByLoss ==
    (intact /\ \A p \in Producers : Free(p)) =>
        \A n \in AfterDrain(sounding, queue) : OffIsOwed(n)

(* No note sounds for ever: "a lane can never leave a note hanging"        *)
(* (seq.c:333-334).                                                        *)
NoStuckNote == \A n \in Notes : (n \in sounding) ~> (n \notin sounding)
=============================================================================
