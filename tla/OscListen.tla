------------------------------ MODULE OscListen ------------------------------
(* Listening for OSC: '>osc in <port> | off' (builtins.c) starts and stops    *)
(* the task that reads datagrams (osc.c), which sets inputs (seq.c) that the  *)
(* clock hands to the lanes routed from them. Four actors - the main task,    *)
(* the listener and an old one on its way out, the clock - share ports, flags *)
(* and inputs without a lock, each access a step. What a datagram says is     *)
(* OscWire's; sockets, tasks and the passing of time are external.            *)
EXTENDS Naturals, Sequences, SequencesExt, FiniteSets

CONSTANTS
    Ports,         \* ports '>osc in' is given
    Inputs,        \* names an input can have
    Values,        \* what a message may carry
    NoName,        \* SEQ_INPUT_NONE: the slot is free
    Slots,         \* SEQ_MAX_INPUTS
    MaxListens, MaxSets, MaxDefines     \* bounds: commands, messages
ASSUME ListenAssumption ==
    /\ Ports \subseteq Nat \ {0} /\ Slots \in Nat \ {0} /\ NoName \notin Inputs
    /\ Values \subseteq 0..127 /\ {MaxListens, MaxSets, MaxDefines} \subseteq Nat

VARIABLES
    port, stop,    \* s_in_port, s_in_stop
    tasks,         \* listeners: the port each is bound to and where it is
    cmdAt,         \* where net_osc_listen() is and the port it was given
    psave,         \* the radio may sleep
    inputs,        \* s_inputs: kind, name, value, pending (left: a value came since)
    setting,       \* seq_input_set() between finding the slot and leaving it
    firing,        \* fire_inputs(): the slot it has found due
    told,          \* what the lanes routed from a name were told last
    used           \* commands and messages so far

listenerVars == <<port, stop, tasks>>
inputVars == <<inputs, setting, firing, told>>
listenVars == <<listenerVars, inputVars, cmdAt, psave, used>>

Free == [kind |-> "none", name |-> NoName, value |-> 0, pending |-> FALSE, left |-> FALSE]
Nothing == [slot |-> 0, value |-> 0, at |-> "none"]

ListenTypeOK ==
    /\ port \in Ports \cup {0} /\ {stop, psave} \subseteq BOOLEAN
    /\ \A t \in Range(tasks) : t.port \in Ports /\ t.at \in {"reads", "closing", "closed"}
    /\ \A i \in 1..Slots : inputs[i].kind \in {"none", "knob", "pad"} /\ inputs[i].value \in 0..127

ListenInit ==
    /\ port = 0 /\ stop = FALSE /\ tasks = <<>> /\ psave = TRUE
    /\ cmdAt = [at |-> "idle", port |-> 0]
    /\ inputs = [i \in 1..Slots |-> Free] /\ setting = Nothing /\ firing = 0
    /\ told = [n \in Inputs |-> 0] /\ used = [listens |-> 0, sets |-> 0, defines |-> 0]

(***************************************************************************)
(* The main task: '>osc in'.                                               *)
(***************************************************************************)
Idle == cmdAt.at = "idle"
ListenGoes(at) == cmdAt' = [cmdAt EXCEPT !.at = at]
ListenEnds == cmdAt' = [at |-> "idle", port |-> 0]

OscIn == \E p \in Ports \cup {0} :
    /\ Idle /\ used.listens < MaxListens /\ used' = [used EXCEPT !.listens = @ + 1]
    /\ cmdAt' = [at |-> IF port # 0 THEN "tell" ELSE IF p = 0 THEN "done" ELSE "open", port |-> p]
    /\ UNCHANGED <<listenerVars, inputVars, psave>>

Tell ==
    /\ cmdAt.at = "tell" /\ stop' = TRUE /\ ListenGoes("wait")
    /\ UNCHANGED <<inputVars, port, tasks, psave, used>>

Waited ==
    /\ cmdAt.at = "wait" /\ port = 0 /\ ListenGoes(IF cmdAt.port = 0 THEN "done" ELSE "open")
    /\ UNCHANGED <<listenerVars, inputVars, psave, used>>

\* mutant: the command goes on without waiting any longer
GoesOn ==
    /\ cmdAt.at = "wait" /\ port # 0 /\ ListenGoes(IF cmdAt.port = 0 THEN "done" ELSE "open")
    /\ UNCHANGED <<listenerVars, inputVars, psave, used>>

(* Thirty looks, and the task still has not gone: "could not listen".      *)
TimesOut ==
    /\ cmdAt.at = "wait" /\ port # 0 /\ ListenEnds
    /\ UNCHANGED <<listenerVars, inputVars, psave, used>>

(* A socket, bound to a port no other socket of the deck has.              *)
Bound(p) == \E t \in Range(tasks) : t.port = p /\ t.at # "closed"
OpenSocket ==
    /\ cmdAt.at = "open"
    /\ IF Bound(cmdAt.port) THEN ListenEnds ELSE ListenGoes("flag") \/ ListenEnds
    /\ UNCHANGED <<listenerVars, inputVars, psave, used>>

Flags ==
    /\ cmdAt.at = "flag" /\ stop' = FALSE /\ port' = cmdAt.port /\ ListenGoes("task")
    /\ UNCHANGED <<inputVars, tasks, psave, used>>

StartTask ==
    /\ cmdAt.at = "task"
    /\ \/ tasks' = Append(tasks, [port |-> cmdAt.port, at |-> "reads"]) /\ ListenGoes("done") /\ UNCHANGED port
       \/ port' = 0 /\ ListenEnds /\ UNCHANGED tasks
    /\ UNCHANGED <<inputVars, stop, psave, used>>

(* With power save on a message waits at the router for the deck's next    *)
(* wake-up; a deck in an ensemble keeps it off.                            *)
PowerSave ==
    /\ cmdAt.at = "done" /\ ListenEnds
    /\ psave' \in IF cmdAt.port # 0 THEN {FALSE} ELSE {TRUE, psave}
    /\ UNCHANGED <<listenerVars, inputVars, used>>

(***************************************************************************)
(* The listener: it looks at the flag whenever recvfrom() returns.         *)
(***************************************************************************)
\* mutant: the port is given back before the socket is
GivesBackFirst == \E i \in DOMAIN tasks :
    /\ tasks[i].at = "reads" /\ stop /\ tasks' = [tasks EXCEPT ![i].at = "closing"]
    /\ setting.at = "none" /\ port' = 0
    /\ UNCHANGED <<inputVars, stop, cmdAt, psave, used>>

TaskStops == \E i \in DOMAIN tasks :
    /\ tasks[i].at = "reads" /\ stop /\ tasks' = [tasks EXCEPT ![i].at = "closing"]
    /\ setting.at = "none"
    /\ UNCHANGED <<inputVars, port, stop, cmdAt, psave, used>>

TaskCloses == \E i \in DOMAIN tasks :
    /\ tasks[i].at = "closing" /\ tasks' = [tasks EXCEPT ![i].at = "closed"]
    /\ UNCHANGED <<inputVars, port, stop, cmdAt, psave, used>>

TaskEnds == \E i \in DOMAIN tasks :
    /\ tasks[i].at = "closed" /\ port' = 0 /\ tasks' = RemoveAt(tasks, i)
    /\ UNCHANGED <<inputVars, stop, cmdAt, psave, used>>

(***************************************************************************)
(* seq_input_set(), on the listener: find the slot, leave the value, then  *)
(* raise the flag.                                                         *)
(***************************************************************************)
Slot(n) == {i \in 1..Slots : inputs[i].kind # "none" /\ inputs[i].name = n}

InputFind == \E n \in Inputs, v \in Values : \E i \in Slot(n) :
    /\ \E t \in Range(tasks) : t.at = "reads"
    /\ setting.at = "none" /\ used.sets < MaxSets /\ used' = [used EXCEPT !.sets = @ + 1]
    /\ setting' = [slot |-> i, value |-> v, at |-> "value"]
    /\ UNCHANGED <<listenerVars, cmdAt, psave, inputs, firing, told>>

\* mutant: the flag first and then the value
FlagFirst(i, v, nth) == IF nth = 2 THEN [inputs EXCEPT ![i].value = v, ![i].left = TRUE]
                        ELSE [inputs EXCEPT ![i].pending = TRUE]
Leave(i, v, nth) == IF nth = 1 THEN [inputs EXCEPT ![i].value = v, ![i].left = TRUE]
                    ELSE [inputs EXCEPT ![i].pending = TRUE]

(* A pad that is let go leaves nothing.                                    *)
InputValue ==
    /\ setting.at = "value"
    /\ IF inputs[setting.slot].kind = "pad" /\ setting.value = 0
       THEN setting' = Nothing /\ UNCHANGED inputs
       ELSE /\ setting' = [setting EXCEPT !.at = "pending"]
            /\ inputs' = Leave(setting.slot, setting.value, 1)
    /\ UNCHANGED <<listenerVars, cmdAt, psave, firing, told, used>>

InputPending ==
    /\ setting.at = "pending" /\ setting' = Nothing
    /\ inputs' = Leave(setting.slot, setting.value, 2)
    /\ UNCHANGED <<listenerVars, cmdAt, psave, firing, told, used>>

(***************************************************************************)
(* The main task again: '>knob1 = knob' and '>knob1 =' (builtins.c).       *)
(***************************************************************************)
DefineInput == \E n \in Inputs, kind \in {"knob", "pad"} :
    /\ Idle /\ used.defines < MaxDefines /\ used' = [used EXCEPT !.defines = @ + 1]
    /\ IF Slot(n) # {}
       THEN inputs' = [i \in 1..Slots |-> IF i \in Slot(n) THEN [inputs[i] EXCEPT !.kind = kind]
                                          ELSE inputs[i]]
       ELSE LET free == {i \in 1..Slots : inputs[i].kind = "none"}
            IN  /\ free # {}
                /\ inputs' = [inputs EXCEPT ![CHOOSE i \in free : \A j \in free : i <= j] =
                                [Free EXCEPT !.kind = kind, !.name = n]]
    /\ UNCHANGED <<listenerVars, cmdAt, psave, setting, firing, told>>

RemoveInput == \E n \in Inputs : \E i \in Slot(n) :
    /\ Idle /\ used.defines < MaxDefines /\ used' = [used EXCEPT !.defines = @ + 1]
    /\ inputs' = [inputs EXCEPT ![i].kind = "none", ![i].pending = FALSE]
    /\ UNCHANGED <<listenerVars, cmdAt, psave, setting, firing, told>>

(***************************************************************************)
(* fire_inputs(), on the clock: a pad waits for a step. The flag goes down *)
(* before the value is read.                                               *)
(***************************************************************************)
Due(i, step) == inputs[i].kind # "none" /\ inputs[i].pending /\ (inputs[i].kind = "pad" => step)

FireInput == \E i \in 1..Slots, step \in BOOLEAN :
    /\ firing = 0 /\ Due(i, step) /\ firing' = i
    /\ inputs' = [inputs EXCEPT ![i].pending = FALSE]
    /\ UNCHANGED <<listenerVars, cmdAt, psave, setting, told, used>>

Publish(i) == told' = [n \in Inputs |-> IF inputs[i].name = n THEN inputs[i].value ELSE told[n]]

PublishInput ==
    /\ firing # 0 /\ firing' = 0 /\ Publish(firing)
    /\ UNCHANGED <<listenerVars, cmdAt, psave, inputs, setting, used>>

ListenNext ==
    \/ OscIn \/ Tell \/ Waited \/ TimesOut \/ OpenSocket \/ Flags \/ StartTask \/ PowerSave
    \/ TaskStops \/ TaskCloses \/ TaskEnds
    \/ InputFind \/ InputValue \/ InputPending \/ DefineInput \/ RemoveInput
    \/ FireInput \/ PublishInput

(***************************************************************************)
(* Properties.                                                             *)
(***************************************************************************)
(* At most one task listens, however a command gave up waiting for the one *)
(* before it and whatever failed since; and a deck at rest that says it    *)
(* listens on a port has that task there, reading it with a radio that     *)
(* does not sleep.                                                         *)
OneListener ==
    /\ Len(tasks) <= 1
    /\ Idle /\ port # 0 /\ ~stop => \E t \in Range(tasks) : t.port = port /\ t.at = "reads"
    /\ Idle /\ port # 0 /\ ~stop => ~psave

(* A deck that says it does not listen has given the port back: the next   *)
(* command can have it.                                                    *)
ClosedIsClosed == port = 0 => \A t \in Range(tasks) : t.at = "closed"

(* However a message and a tick meet, the last value a sender left is what *)
(* the lanes are told in the end: none is dropped between the flag and the *)
(* value.                                                                  *)
LastValueArrives ==
    \A i \in 1..Slots :
        /\ inputs[i].kind # "none" /\ inputs[i].left /\ ~inputs[i].pending
        /\ setting.at = "none" /\ firing # i
        => told[inputs[i].name] = inputs[i].value

(* One listener at a time, a port given back when it is closed, and the last *)
(* value sent the last told (net_osc_listen, in_task, fire_inputs).          *)
ListenerKept == OneListener /\ ClosedIsClosed /\ LastValueArrives
=============================================================================
