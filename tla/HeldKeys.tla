------------------------------ MODULE HeldKeys ------------------------------
(* The keys of a Bluetooth keyboard, as kbd/ble_kbd.c follows them: reports  *)
(* of what is down, from the NimBLE host task, and the task that repeats a   *)
(* held key from the other core. A report may be lost on the air.            *)
EXTENDS Naturals, SequencesExt

CONSTANTS Keys,         \* the keys of the keyboard
          NoKey,
          RepeatMax,    \* REPEAT_MAX
          MaxPresses    \* bound: physical presses in a behaviour
ASSUME KeysAssumption == NoKey \notin Keys /\ RepeatMax \in Nat /\ MaxPresses \in Nat

VARIABLES
    down,       \* the keyboard itself: the keys under fingers, in slot order
    presses,
    live,       \* s_connected && s_subscribed
    prev,       \* prev[] of handle_report(): survives a disconnect
    held,       \* s_held_usage
    due,        \* the clock has passed s_next_repeat_ms
    task,       \* repeat_task(): what it has decided, and the key it read
    repeats,    \* its count
    typed,      \* how often each press has been typed as a press
    again,      \* how often it has been repeated since it was reported
    late        \* how often since the key was last reported down

keyVars == <<down, presses, live, prev, held, due, task, repeats, typed, again, late>>
idle == [does |-> "look", key |-> NoKey]

KeysTypeOK ==
    /\ down \in Seq(Keys) /\ IsInjective(down)
    /\ presses \in 0..MaxPresses
    /\ live \in BOOLEAN /\ due \in BOOLEAN
    /\ prev \subseteq Keys /\ held \in Keys \cup {NoKey}
    /\ task \in [does : {"look", "type", "cap"}, key : Keys \cup {NoKey}]
    /\ repeats \in 0..(RepeatMax + 1)
    /\ {typed, again, late} \subseteq [Keys -> Nat]

KeysInit ==
    /\ down = <<>> /\ presses = 0 /\ live = TRUE /\ prev = {} /\ held = NoKey
    /\ due = FALSE /\ task = idle /\ repeats = 0
    /\ typed = [k \in Keys |-> 0] /\ again = typed /\ late = typed

(* handle_report(): the last key that was not down before is the held one;   *)
(* a held key that is no longer reported is let go.                          *)
(* Mutant: what was down before is not remembered.                           *)
PressedEver(report) == DOMAIN report
NewIn(report) == {i \in DOMAIN report : report[i] \notin prev}
(* Mutant: the held key is not looked for in the report.                     *)
HeldStill(report) ==
    LET new == NewIn(report)
    IN IF new = {} THEN held ELSE report[Max(new)]
HeldAfter(report) ==
    LET new == NewIn(report)
        last == IF new = {} THEN held ELSE report[Max(new)]
    IN IF last \in Range(report) THEN last ELSE NoKey
HandleReport(report) ==
    /\ held' = HeldAfter(report)
    /\ prev' = Range(report)
    /\ due' = (due /\ NewIn(report) = {})
    /\ LET since(n) == [k \in Keys |-> IF \E i \in NewIn(report) : report[i] = k
                                       THEN 0 ELSE n[k]]
       IN late' = since(late) /\ again' = since(again)

(* A finger goes down or comes up; the report of it arrives, or is lost.     *)
Fresh(k) == IF k \in Range(down) THEN {} ELSE {k}
Finger(k, now, arrives) ==
    /\ down' = now
    /\ LET was == [j \in Keys |-> IF j \in Fresh(k) THEN 0 ELSE typed[j]]
       IN typed' = [j \in Keys |->
                      IF arrives /\ \E i \in NewIn(now) : now[i] = j
                      THEN was[j] + 1 ELSE was[j]]
    /\ IF arrives THEN HandleReport(now) ELSE UNCHANGED <<held, prev, due, late, again>>
    /\ UNCHANGED <<live, task, repeats>>
Press(k, arrives) ==
    /\ presses < MaxPresses /\ k \notin Range(down)
    /\ presses' = presses + 1
    /\ Finger(k, Append(down, k), arrives)
Release(k, arrives) ==
    /\ \E i \in DOMAIN down : down[i] = k /\ Finger(k, RemoveAt(down, i), arrives)
    /\ UNCHANGED presses

(* The link: lost (gap_event), forgotten with the key still held             *)
(* (kbd_forget_all) and subscribed once more.                                *)
LinkLost ==
    /\ live' = FALSE /\ held' = NoKey
    /\ UNCHANGED <<down, presses, prev, due, task, repeats, typed, again, late>>
LinkForgotten ==
    /\ live /\ live' = FALSE
    /\ UNCHANGED <<down, presses, prev, held, due, task, repeats, typed, again, late>>
LinkBack ==
    /\ ~live /\ held = NoKey /\ live' = TRUE
    /\ UNCHANGED <<down, presses, prev, held, due, task, repeats, typed, again, late>>

Later ==
    /\ ~due /\ due' = TRUE
    /\ UNCHANGED <<down, presses, live, prev, held, task, repeats, typed, again, late>>

(* repeat_task(): the held key is read once, and what is done about it may   *)
(* come after the next report.                                               *)
(* Mutants: the cap is passed; reaching it does not let go of the key.       *)
LookOnward ==
    /\ task.does = "look" /\ held # NoKey /\ live /\ due
    /\ task' = [does |-> "type", key |-> held]
    /\ UNCHANGED <<down, presses, live, prev, held, due, repeats, typed, again, late>>
CapOnly ==
    /\ task.does = "cap"
    /\ repeats' = 0 /\ task' = idle
    /\ UNCHANGED <<down, presses, live, prev, held, due, typed, again, late>>
Look ==
    /\ task.does = "look"
    /\ IF held # NoKey /\ live
       THEN /\ UNCHANGED repeats
            /\ \/ due /\ repeats < RepeatMax /\ task' = [does |-> "type", key |-> held]
               \/ due /\ repeats = RepeatMax /\ task' = [does |-> "cap", key |-> held]
       ELSE repeats' = 0 /\ task' = task
    /\ UNCHANGED <<down, presses, live, prev, held, due, typed, again, late>>
TypeAgain ==
    /\ task.does = "type"
    /\ again' = [again EXCEPT ![task.key] = @ + 1]
    /\ late' = [late EXCEPT ![task.key] = IF task.key \in prev /\ live THEN @ ELSE @ + 1]
    /\ repeats' = repeats + 1 /\ due' = FALSE /\ task' = idle
    /\ UNCHANGED <<down, presses, live, prev, held, typed>>
Cap ==
    /\ task.does = "cap"
    /\ repeats' = repeats + 1 /\ held' = NoKey /\ task' = idle
    /\ UNCHANGED <<down, presses, live, prev, due, typed, again, late>>

KeysNext ==
    \/ \E k \in Keys, arrives \in BOOLEAN : Press(k, arrives) \/ Release(k, arrives)
    \/ LinkLost \/ LinkForgotten \/ LinkBack \/ Later
    \/ Look \/ TypeAgain \/ Cap
KeysSpec == KeysInit /\ [][KeysNext]_keyVars

(* A key that is held is not a key that is pressed again: whatever is lost,  *)
(* one press is typed once at most as a press (handle_report, was_down).     *)
TypedOncePerPress == \A k \in Keys : typed[k] <= 1

(* The key is read once by repeat_task() so that no character of a released  *)
(* key is typed: one that had been decided on may still come, never two, and *)
(* none is left to come of a link that is gone.                              *)
OneLateRepeat == \A k \in Keys : late[k] <= 1

(* A key-up lost on the air repeats the key REPEAT_MAX times and no more,    *)
(* whatever other keys do meanwhile.                                         *)
RepeatsEnd == \A k \in Keys : again[k] <= RepeatMax

(* A key types when it is pressed and repeats while it is held, whatever     *)
(* report is lost and whenever the task looks (handle_report, repeat_task).  *)
TypedAsPressed == TypedOncePerPress /\ OneLateRepeat /\ RepeatsEnd
=============================================================================
