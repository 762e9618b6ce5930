----------------------------- MODULE LinksProofs -----------------------------
(* What holds of the deck's links whatever their size: the DIN port's driver, *)
(* the OSC listener and its inputs, the BLE-MIDI peripheral and Wi-Fi, and    *)
(* what emit() puts on the wires. Each link keeps its own inductive           *)
(* invariant, in parts that are named for what they say; a step is proved     *)
(* action by action.                                                          *)
EXTENDS DinPort, OscListen, BlePeripheral, WifiLink, MidiWire, SequenceTheorems,
        FiniteSetTheorems, TLAPS

(* What comes at the end of a queue, and what is left of one.                 *)
LEMMA QueueGrows ==
    ASSUME NEW S, NEW s \in Seq(S), NEW e \in S
    PROVE  /\ Append(s, e) \in Seq(S) /\ Append(s, e) # <<>> /\ Len(s) \in Nat
           /\ Len(Append(s, e)) = Len(s) + 1 /\ Append(s, e)[Len(s) + 1] = e
           /\ \A i \in 1 .. Len(s) : Append(s, e)[i] = s[i]
    OBVIOUS

\* What taking the head of a queue leaves.
LEMMA QueueShrinks ==
    ASSUME NEW S, NEW s \in Seq(S), s # <<>>
    PROVE  /\ Tail(s) \in Seq(S) /\ Len(s) \in Nat \ {0}
           /\ Len(Tail(s)) = Len(s) - 1 /\ (Tail(s) = <<>> <=> Len(s) = 1)
           /\ Head(s) = s[1] /\ s[1] \in S
           /\ \A i \in 1 .. Len(s) - 1 : Tail(s)[i] = s[i + 1]
<1>1. /\ Tail(s) \in Seq(S) /\ Len(Tail(s)) = Len(s) - 1 /\ Len(s) \in Nat \ {0}
      /\ \A i \in 1 .. Len(Tail(s)) : Tail(s)[i] = s[i + 1]
    BY HeadTailProperties, EmptySeq
<1>2. Tail(s) = <<>> <=> Len(s) = 1
  <2>1. Tail(s) = <<>> <=> Len(Tail(s)) = 0
      BY <1>1, EmptySeq
  <2>2. QED
      BY <1>1, <2>1
<1>3. Head(s) = s[1] /\ s[1] \in S
    BY <1>1, ElementOfSeq
<1>4. QED
    BY <1>1, <1>2, <1>3

DinSpec == DinInit /\ [][DinNext]_dinVars

(* The UART: '>din' stops and starts the driver step by step.              *)

FreePins == Gpios \ Taken
DinShape ==
    /\ uart \in [there : BOOLEAN, pin : FreePins \cup {NoPin}]
    /\ pin \in FreePins \cup {NoPin} /\ up \in BOOLEAN
    /\ dinAt \in [at : {"idle", "delete", "stop", "install", "pin", "up", "enable", "disable"},
                  gpio : FreePins \cup {NoPin}, n : Nat]

\* The driver is what the flags say, between two commands and at their ends.
AsSaid == uart.there = up /\ uart.pin = pin /\ (up <=> pin # NoPin)
Bare == uart.there = FALSE /\ uart.pin = NoPin
Down == ~up /\ pin = NoPin

\* What a command that starts or stops the driver has done so far.
DinSoFar ==
    /\ dinAt.at \in {"idle", "delete", "enable", "disable"} => AsSaid
    /\ dinAt.at = "stop" => Bare
    /\ dinAt.at = "install" => Bare /\ Down /\ dinAt.gpio # NoPin
    /\ dinAt.at = "pin" => uart.there /\ uart.pin = NoPin /\ Down /\ dinAt.gpio # NoPin
    /\ dinAt.at = "up" => uart.there /\ uart.pin = dinAt.gpio /\ Down /\ dinAt.gpio # NoPin

DinInv == DinShape /\ DinSoFar

\* "No pin" is not one that may be driven.
LEMMA NoPinFree == NoPin \notin Taken /\ NoPin \notin FreePins
    BY DinAssumption DEF FreePins

\* At the start nothing is driven.
LEMMA DinStarts == DinInit => DinInv
<1> SUFFICES ASSUME DinInit PROVE DinInv
    OBVIOUS
<1>1. DinShape
    BY DEF DinInit, DinShape
<1>2. DinSoFar
    BY DEF DinInit, DinSoFar, AsSaid
<1>3. QED
    BY <1>1, <1>2 DEF DinInv

\* Every step of a command keeps what it has done so far.
LEMMA DinSteps == DinInv /\ [DinNext]_dinVars => DinInv'
<1> SUFFICES ASSUME DinInv, [DinNext]_dinVars PROVE DinInv'
    OBVIOUS
<1> USE DEF DinInv, DinShape, DinSoFar, AsSaid, Bare, Down
<1>1. CASE Din
    BY <1>1, NoPinFree DEF Din, Accepts, Given, FreePins
<1>2. CASE DinOff \/ SendDin
    BY <1>2 DEF DinOff, SendDin, Given
<1>3. CASE Delete
    BY <1>3 DEF Delete, DinGoes
<1>4. CASE Stop
    BY <1>4 DEF Stop, DinGoes
<1>5. CASE Install
  <2>1. CASE uart' = [uart EXCEPT !.there = TRUE] /\ DinGoes("pin")
    BY <1>5, <2>1 DEF Install, DinGoes
  <2>2. CASE UNCHANGED uart /\ DinEnds
    BY <1>5, <2>2 DEF Install, DinEnds
  <2>3. QED
    BY <1>5, <2>1, <2>2 DEF Install
<1>6. CASE SetPin
  <2>1. CASE PinRefused
    BY <1>6, <2>1 DEF SetPin, PinRefused, DinEnds
  <2>2. CASE uart' = [uart EXCEPT !.pin = dinAt.gpio] /\ DinGoes("up")
    BY <1>6, <2>2 DEF SetPin, DinGoes
  <2>3. QED
    BY <1>6, <2>1, <2>2 DEF SetPin
<1>7. CASE ComeUp
    BY <1>7 DEF ComeUp, DinGoes
<1>8. CASE Enable
    BY <1>8 DEF Enable, DinEnds
<1>9. CASE Asks \/ Writes \/ UNCHANGED dinVars
    BY <1>9 DEF Asks, Writes, dinVars
<1>10. QED
    BY <1>1, <1>2, <1>3, <1>4, <1>5, <1>6, <1>7, <1>8, <1>9 DEF DinNext

\* However '>din' and '>send din' were given, refused and failed, for any pins
\* and any number of commands: a deck at rest runs its driver exactly when it
\* says so, on the pin it says, and never on a pin of the board
\* (dinmidi_start(), dinmidi_stop()).
THEOREM WireIsAsSaid == DinSpec => []DriverIsAsSaid
<1>1. DinInv => DriverIsAsSaid
    BY NoPinFree DEF DinInv, DinShape, DinSoFar, AsSaid, DriverIsAsSaid, FreePins
<1>2. QED
    BY <1>1, DinStarts, DinSteps, PTL DEF DinSpec

-----------------------------------------------------------------------------
ListenSpec == ListenInit /\ [][ListenNext]_listenVars

(* The listener and the command that starts and stops it.                     *)
ListenSteps == {"idle", "tell", "wait", "open", "flag", "task", "done"}
ListenerShape ==
    /\ port \in Ports \cup {0} /\ stop \in BOOLEAN /\ psave \in BOOLEAN
    /\ cmdAt \in [at : ListenSteps, port : Ports \cup {0}]

\* There is one task at most, on the port the deck says.
OneTask ==
    \/ tasks = <<>>
    \/ \E at \in {"reads", "closing", "closed"} : tasks = <<[port |-> port, at |-> at]>>

\* Where the command is says whether the task is there and may read.
AsListening ==
    /\ port = 0 => tasks = <<>>
    /\ cmdAt.at \in {"open", "flag"} => port = 0 /\ cmdAt.port # 0
    /\ cmdAt.at = "task" => tasks = <<>> /\ port = cmdAt.port /\ port # 0 /\ ~stop
    /\ cmdAt.at = "wait" => stop
    /\ port # 0 /\ ~stop /\ cmdAt.at # "task" => tasks = <<[port |-> port, at |-> "reads"]>>
    /\ cmdAt.at = "done" /\ cmdAt.port = 0 => port = 0
    /\ cmdAt.at \in {"idle", "tell"} /\ port # 0 /\ ~stop => ~psave
ListenerInv == ListenerShape /\ OneTask /\ AsListening

\* At the start nobody listens.
LEMMA ListenerStarts == ListenInit => ListenerInv
<1>1. ListenInit => cmdAt.at = "idle" /\ cmdAt.port = 0
    BY DEF ListenInit
<1>2. QED
    BY <1>1 DEF ListenInit, ListenerInv, ListenerShape, OneTask, AsListening, ListenSteps

\* A list of one task: what it holds, and what is left when the task ends.
LEMMA TheOnlyTask ==
    ASSUME NEW t
    PROVE  /\ DOMAIN <<t>> = {1} /\ <<t>>[1] = t /\ RemoveAt(<<t>>, 1) = <<>>
           /\ \A u : [<<t>> EXCEPT ![1] = u] = <<u>>
           /\ Range(<<t>>) = {t}
<1>1. DOMAIN <<t>> = {1} /\ <<t>>[1] = t /\ Len(<<t>>) = 1
    OBVIOUS
<1>2. RemoveAt(<<t>>, 1) = <<>>
    BY <1>1 DEF RemoveAt
<1>3. \A u : [<<t>> EXCEPT ![1] = u] = <<u>>
    OBVIOUS
<1>4. Range(<<t>>) = {t}
    BY <1>1 DEF Range
<1>5. QED
    BY <1>1, <1>2, <1>3, <1>4

\* A list with no task, and the first task to enter it.
LEMMA NoTask == Append(<<>>, 0) = <<0>> /\ \A t : Append(<<>>, t) = <<t>> /\ DOMAIN <<>> = {}
    OBVIOUS

\* Every step of the command, of the task and of the inputs keeps the listener.
LEMMA ListenerSteps == ListenerInv /\ [ListenNext]_listenVars => ListenerInv'
<1> SUFFICES ASSUME ListenerInv, [ListenNext]_listenVars PROVE ListenerInv'
    OBVIOUS
<1>1. ListenerShape /\ OneTask /\ AsListening
    BY DEF ListenerInv
<1>2. CASE OscIn
  <2>1. ListenerShape'
      BY <1>1, <1>2 DEF ListenerShape, ListenSteps, OscIn, Idle, listenVars, listenerVars,
             inputVars
  <2>2. OneTask'
      BY <1>1, <1>2 DEF OneTask, AsListening, ListenerShape, OscIn, Idle, listenVars,
             listenerVars, inputVars
  <2>3. AsListening'
      BY <1>1, <1>2 DEF AsListening, ListenerShape, OscIn, Idle, listenVars, listenerVars,
             inputVars
  <2>4. QED
      BY <2>1, <2>2, <2>3 DEF ListenerInv
<1>3. CASE Tell
  <2>1. ListenerShape'
      BY <1>1, <1>3 DEF ListenerShape, ListenSteps, Tell, ListenGoes, listenVars, listenerVars,
             inputVars
  <2>2. OneTask'
      BY <1>1, <1>3 DEF OneTask, AsListening, ListenerShape, Tell, ListenGoes, listenVars,
             listenerVars, inputVars
  <2>3. AsListening'
      BY <1>1, <1>3 DEF AsListening, ListenerShape, Tell, ListenGoes, listenVars, listenerVars,
             inputVars
  <2>4. QED
      BY <2>1, <2>2, <2>3 DEF ListenerInv
<1>4. CASE Waited
  <2>1. ListenerShape'
      BY <1>1, <1>4 DEF ListenerShape, ListenSteps, Waited, ListenGoes, listenVars,
             listenerVars, inputVars
  <2>2. OneTask'
      BY <1>1, <1>4 DEF OneTask, AsListening, ListenerShape, Waited, ListenGoes, listenVars,
             listenerVars, inputVars
  <2>3. AsListening'
      BY <1>1, <1>4 DEF AsListening, ListenerShape, Waited, ListenGoes, listenVars,
             listenerVars, inputVars
  <2>4. QED
      BY <2>1, <2>2, <2>3 DEF ListenerInv
<1>5. CASE TimesOut
  <2>1. ListenerShape'
      BY <1>1, <1>5 DEF ListenerShape, ListenSteps, TimesOut, ListenEnds, listenVars,
             listenerVars, inputVars
  <2>2. OneTask'
      BY <1>1, <1>5 DEF OneTask, AsListening, ListenerShape, TimesOut, ListenEnds, listenVars,
             listenerVars, inputVars
  <2>3. AsListening'
      BY <1>1, <1>5 DEF AsListening, ListenerShape, TimesOut, ListenEnds, listenVars,
             listenerVars, inputVars
  <2>4. QED
      BY <2>1, <2>2, <2>3 DEF ListenerInv
<1>6. CASE OpenSocket
  <2>1. ListenerShape'
      BY <1>1, <1>6 DEF ListenerShape, ListenSteps, OpenSocket, ListenGoes, ListenEnds,
             listenVars, listenerVars, inputVars
  <2>2. OneTask'
      BY <1>1, <1>6 DEF OneTask, AsListening, ListenerShape, OpenSocket, ListenGoes, ListenEnds,
             listenVars, listenerVars, inputVars
  <2>3. AsListening'
      BY <1>1, <1>6 DEF AsListening, ListenerShape, OpenSocket, ListenGoes, ListenEnds,
             listenVars, listenerVars, inputVars
  <2>4. QED
      BY <2>1, <2>2, <2>3 DEF ListenerInv
<1>7. CASE Flags
  <2>1. ListenerShape'
      BY <1>1, <1>7 DEF ListenerShape, ListenSteps, Flags, ListenGoes, listenVars, listenerVars,
             inputVars
  <2>2. OneTask'
      BY <1>1, <1>7 DEF OneTask, AsListening, ListenerShape, Flags, ListenGoes, listenVars,
             listenerVars, inputVars
  <2>3. AsListening'
      BY <1>1, <1>7 DEF AsListening, ListenerShape, Flags, ListenGoes, listenVars, listenerVars,
             inputVars
  <2>4. QED
      BY <2>1, <2>2, <2>3 DEF ListenerInv
<1>8. CASE StartTask
  <2>1. ListenerShape'
      BY <1>1, <1>8 DEF ListenerShape, ListenSteps, StartTask, ListenGoes, ListenEnds,
             listenVars, listenerVars, inputVars
  <2>2. OneTask'
      BY <1>1, <1>8, NoTask DEF OneTask, AsListening, ListenerShape, StartTask, ListenGoes,
             ListenEnds, listenVars, listenerVars, inputVars
  <2>3. AsListening'
      BY <1>1, <1>8, NoTask DEF AsListening, ListenerShape, StartTask, ListenGoes, ListenEnds,
             listenVars, listenerVars, inputVars
  <2>4. QED
      BY <2>1, <2>2, <2>3 DEF ListenerInv
<1>9. CASE PowerSave
  <2>1. ListenerShape'
      BY <1>1, <1>9 DEF ListenerShape, ListenSteps, PowerSave, ListenEnds, listenVars,
             listenerVars, inputVars
  <2>2. OneTask'
      BY <1>1, <1>9 DEF OneTask, AsListening, ListenerShape, PowerSave, ListenEnds, listenVars,
             listenerVars, inputVars
  <2>3. AsListening'
      BY <1>1, <1>9 DEF AsListening, ListenerShape, PowerSave, ListenEnds, listenVars,
             listenerVars, inputVars
  <2>4. QED
      BY <2>1, <2>2, <2>3 DEF ListenerInv
<1>10. CASE TaskStops
  <2>1. PICK i \in DOMAIN tasks : tasks[i].at = "reads" /\ tasks' = [tasks EXCEPT ![i].at = "closing"]
      BY <1>10 DEF TaskStops
  <2>2. tasks = <<[port |-> port, at |-> "reads"]>> /\ i = 1
      BY <1>1, <2>1, TheOnlyTask, NoTask DEF OneTask
  <2>3. tasks' = <<[port |-> port, at |-> "closing"]>>
      BY <2>1, <2>2
  <2>4. port # 0 /\ stop /\ cmdAt.at # "task" /\ UNCHANGED <<port, stop, cmdAt, psave>>
    <3>1. UNCHANGED <<port, stop, cmdAt, psave>>
        BY <1>10 DEF TaskStops
    <3>2. port # 0 /\ cmdAt.at # "task"
        BY <1>1, <2>2 DEF AsListening
    <3>3. stop
        BY <1>1, <1>10, <2>2, <3>2 DEF AsListening, ListenerShape, TaskStops
    <3>4. QED
        BY <3>1, <3>2, <3>3
  <2>5. QED
      BY <1>1, <2>3, <2>4 DEF ListenerInv, ListenerShape, OneTask, AsListening
<1>11. CASE TaskCloses
  <2>1. PICK i \in DOMAIN tasks : tasks[i].at = "closing" /\ tasks' = [tasks EXCEPT ![i].at = "closed"]
      BY <1>11 DEF TaskCloses
  <2>2. tasks = <<[port |-> port, at |-> "closing"]>> /\ i = 1
      BY <1>1, <2>1, TheOnlyTask, NoTask DEF OneTask
  <2>3. tasks' = <<[port |-> port, at |-> "closed"]>>
      BY <2>1, <2>2
  <2>4. port # 0 /\ stop /\ cmdAt.at # "task" /\ UNCHANGED <<port, stop, cmdAt, psave>>
    <3>1. UNCHANGED <<port, stop, cmdAt, psave>>
        BY <1>11 DEF TaskCloses
    <3>2. port # 0 /\ cmdAt.at # "task"
        BY <1>1, <2>2 DEF AsListening
    <3>3. stop
        BY <1>1, <1>11, <2>2, <3>2 DEF AsListening, ListenerShape, TaskCloses
    <3>4. QED
        BY <3>1, <3>2, <3>3
  <2>5. QED
      BY <1>1, <2>3, <2>4 DEF ListenerInv, ListenerShape, OneTask, AsListening
<1>12. CASE TaskEnds
  <2>1. PICK i \in DOMAIN tasks : tasks[i].at = "closed" /\ port' = 0 /\ tasks' = RemoveAt(tasks, i)
      BY <1>12 DEF TaskEnds
  <2>2. tasks = <<[port |-> port, at |-> "closed"]>> /\ i = 1
      BY <1>1, <2>1, TheOnlyTask, NoTask DEF OneTask
  <2>3. tasks' = <<>> /\ port' = 0
      BY <2>1, <2>2, TheOnlyTask
  <2>4. port # 0 /\ cmdAt.at \notin {"open", "flag", "task"} /\ UNCHANGED <<stop, cmdAt, psave>>
      BY <1>1, <1>12, <2>2 DEF AsListening, TaskEnds
  <2>5. QED
      BY <1>1, <2>3, <2>4 DEF ListenerInv, ListenerShape, OneTask, AsListening
<1>13. ASSUME InputFind \/ InputValue \/ InputPending \/ DefineInput \/ RemoveInput
           \/ FireInput \/ PublishInput \/ UNCHANGED listenVars
      PROVE  ListenerInv'
  <2>1. UNCHANGED <<port, stop, tasks, cmdAt, psave>>
      BY <1>13 DEF InputFind, InputValue, InputPending, DefineInput, RemoveInput, FireInput,
             PublishInput, listenVars, listenerVars, inputVars
  <2>2. QED
      BY <1>1, <2>1 DEF ListenerInv, ListenerShape, OneTask, AsListening
<1>14. QED
    BY <1>2, <1>3, <1>4, <1>5, <1>6, <1>7, <1>8, <1>9, <1>10, <1>11, <1>12, <1>13 DEF ListenNext

(* The inputs, between the listener that sets them and the clock that reads.  *)
SlotSet == [kind : {"none", "knob", "pad"}, name : Inputs \cup {NoName}, value : 0 .. 127,
            pending : BOOLEAN, left : BOOLEAN]
InputShape ==
    /\ inputs \in [1 .. Slots -> SlotSet]
    /\ setting \in [slot : 0 .. Slots, value : 0 .. 127, at : {"none", "value", "pending"}]
    /\ setting.at # "none" => setting.slot # 0
    /\ firing \in 0 .. Slots
    /\ told \in [Inputs -> 0 .. 127]

InUse(i) == inputs[i].kind # "none"
Leaving(i) == setting.at = "pending" /\ setting.slot = i
NamesOnce ==
    /\ \A i \in 1 .. Slots : InUse(i) => inputs[i].name \in Inputs
    /\ \A i, j \in 1 .. Slots : InUse(i) /\ InUse(j) /\ inputs[i].name = inputs[j].name => i = j

\* A value that was left is told, or there is one who will tell it.
ToldOrComing ==
    \A i \in 1 .. Slots :
        InUse(i) /\ inputs[i].left /\ ~inputs[i].pending /\ ~Leaving(i) /\ firing # i
        => told[inputs[i].name] = inputs[i].value

\* What the clock is about to tell of a slot cannot hide a later value of the
\* slot that has its name now.
NotOvertaken ==
    \A i \in 1 .. Slots :
        /\ firing # 0 /\ firing # i /\ InUse(i) /\ inputs[i].left
        /\ inputs[i].name = inputs[firing].name
        => inputs[i].pending \/ Leaving(i)
InputInv == InputShape /\ NamesOnce /\ ToldOrComing /\ NotOvertaken

\* The lowest free slot is one of them.
LEMMA LeastOfSome ==
    ASSUME NEW S \in SUBSET (1 .. Slots), S # {}
    PROVE  \E i \in S : \A j \in S : i <= j
<1> DEFINE D == 1 .. Slots
           Upto(i) == {k \in D : k <= i}
           T == {Upto(i) : i \in S}
<1>1. T \subseteq FiniteSubsetsOf(D) /\ T # {}
  <2>1. \A i \in S : Upto(i) \in SUBSET D
      OBVIOUS
  <2>2. IsFiniteSet(D)
    <3>1. 1 \in Int /\ Slots \in Int
        BY ListenAssumption
    <3>2. QED
        BY <3>1, FS_Interval
  <2>3. SUBSET D = FiniteSubsetsOf(D)
      BY <2>2, FS_FiniteSubsetsOfFinite
  <2> HIDE DEF Upto
  <2>4. T # {}
      OBVIOUS
  <2>5. QED
      BY <2>1, <2>3, <2>4
<1>2. PICK x \in T : \A y \in T : ~ (<<y, x>> \in StrictSubsetOrdering(D))
    BY <1>1, FS_StrictSubsetOrderingWellFounded, WFMin
<1>3. PICK i \in S : x = Upto(i)
    BY <1>2
<1>4. ASSUME NEW j \in S PROVE i <= j
  <2>1. Upto(j) \in T /\ Upto(j) \in SUBSET D /\ Upto(i) \in SUBSET D
      OBVIOUS
  <2>2. ~(Upto(j) \subseteq Upto(i)) \/ Upto(j) = Upto(i)
      BY <1>2, <1>3, <2>1 DEF StrictSubsetOrdering
  <2>3. i \in Upto(i) /\ i \in Nat /\ j \in Nat
      BY ListenAssumption
  <2>4. j < i => Upto(j) \subseteq Upto(i) /\ i \notin Upto(j)
      BY <2>3, ListenAssumption
  <2>5. QED
      BY <2>2, <2>3, <2>4
<1>5. QED
    BY <1>4

\* A slot changed in one field is a slot.
LEMMA SlotChanges ==
    ASSUME NEW f \in [1 .. Slots -> SlotSet], NEW i \in 1 .. Slots, NEW b \in BOOLEAN,
           NEW v \in 0 .. 127, NEW kind \in {"none", "knob", "pad"}
    PROVE  /\ [f EXCEPT ![i].pending = b] \in [1 .. Slots -> SlotSet]
           /\ [f EXCEPT ![i].left = b] \in [1 .. Slots -> SlotSet]
           /\ [f EXCEPT ![i].value = v] \in [1 .. Slots -> SlotSet]
           /\ [f EXCEPT ![i].kind = kind] \in [1 .. Slots -> SlotSet]
           /\ [f[i] EXCEPT !.kind = kind] \in SlotSet
           /\ [f EXCEPT ![i].value = v, ![i].left = b] \in [1 .. Slots -> SlotSet]
           /\ [f EXCEPT ![i].kind = kind, ![i].pending = b] \in [1 .. Slots -> SlotSet]
<1>1. f[i] \in SlotSet
    OBVIOUS
<1>2. [f[i] EXCEPT !.pending = b] \in SlotSet
    BY <1>1 DEF SlotSet
<1>3. [f[i] EXCEPT !.left = b] \in SlotSet
    BY <1>1 DEF SlotSet
<1>4. [f[i] EXCEPT !.value = v] \in SlotSet
    BY <1>1 DEF SlotSet
<1>5. [f[i] EXCEPT !.kind = kind] \in SlotSet
    BY <1>1 DEF SlotSet
<1>6. [f EXCEPT ![i].value = v, ![i].left = b] \in [1 .. Slots -> SlotSet]
  <2>1. [f[i] EXCEPT !.value = v, !.left = b] \in SlotSet
      BY <1>1 DEF SlotSet
  <2>2. [f EXCEPT ![i] = [f[i] EXCEPT !.value = v, !.left = b]] \in [1 .. Slots -> SlotSet]
      BY <2>1
  <2>3. QED
      BY <2>2
<1>7. [f EXCEPT ![i].kind = kind, ![i].pending = b] \in [1 .. Slots -> SlotSet]
  <2>1. [f[i] EXCEPT !.kind = kind, !.pending = b] \in SlotSet
      BY <1>1 DEF SlotSet
  <2>2. [f EXCEPT ![i] = [f[i] EXCEPT !.kind = kind, !.pending = b]] \in [1 .. Slots -> SlotSet]
      BY <2>1
  <2>3. QED
      BY <2>2
<1>8. QED
    BY <1>2, <1>3, <1>4, <1>5, <1>6, <1>7

\* The same, of the steps that change no value.
LEMMA SlotPending ==
    ASSUME NEW f \in [1 .. Slots -> SlotSet], NEW i \in 1 .. Slots
    PROVE  /\ [f EXCEPT ![i].pending = TRUE] \in [1 .. Slots -> SlotSet]
           /\ [f EXCEPT ![i].kind = "none", ![i].pending = FALSE] \in [1 .. Slots -> SlotSet]
<1>1. TRUE \in BOOLEAN /\ FALSE \in BOOLEAN /\ 0 \in 0 .. 127 /\ "none" \in {"none", "knob", "pad"}
    OBVIOUS
<1>2. [f EXCEPT ![i].pending = TRUE] \in [1 .. Slots -> SlotSet]
    BY <1>1, SlotChanges
<1>3. [f EXCEPT ![i].kind = "none", ![i].pending = FALSE] \in [1 .. Slots -> SlotSet]
    BY <1>1, SlotChanges
<1>4. QED
    BY <1>2, <1>3

\* At the start no slot is in use.
LEMMA InputsStart == ListenInit => InputInv
    BY ListenAssumption DEF ListenInit, InputInv, InputShape, SlotSet, Free, Nothing, NamesOnce,
           ToldOrComing,
           NotOvertaken, InUse

\* Every step keeps the inputs: each is told, or someone is about to tell it.
LEMMA InputSteps == InputInv /\ [ListenNext]_listenVars => InputInv'
<1> SUFFICES ASSUME InputInv, [ListenNext]_listenVars PROVE InputInv'
    OBVIOUS
<1>1. InputShape /\ NamesOnce /\ ToldOrComing /\ NotOvertaken /\ Slots \in Nat
    BY ListenAssumption DEF InputInv
<1>2. CASE InputFind
  <2>1. PICK k \in Inputs, v \in Values : \E i \in Slot(k) : setting' = [slot |-> i, value |-> v, at |-> "value"]
      BY <1>2 DEF InputFind
  <2>2. PICK i \in 1 .. Slots : setting' = [slot |-> i, value |-> v, at |-> "value"]
      BY <2>1 DEF Slot
  <2>3. v \in 0 .. 127 /\ setting.at = "none" /\ UNCHANGED <<inputs, firing, told>> /\ setting'.at = "value" /\ i # 0
      BY <1>2, <2>1, <2>2, ListenAssumption DEF InputFind
  <2>4. InputShape'
    <3>1. inputs' \in [1 .. Slots -> SlotSet]
        BY <1>1, <2>2, <2>3, SlotChanges DEF InputShape, InUse
    <3>2. setting' \in [slot : 0 .. Slots, value : 0 .. 127, at : {"none", "value", "pending"}]
        BY <1>1, <2>2, <2>3 DEF InputShape, InUse
    <3>3. setting'.at # "none" => setting'.slot # 0
        BY <1>1, <2>2, <2>3 DEF InputShape, InUse
    <3>4. firing' \in 0 .. Slots
        BY <1>1, <2>2, <2>3 DEF InputShape, InUse
    <3>5. told' \in [Inputs -> 0 .. 127]
        BY <1>1, <2>2, <2>3 DEF InputShape, InUse
    <3>6. QED
        BY <3>1, <3>2, <3>3, <3>4, <3>5 DEF InputShape
  <2>5. NamesOnce'
      BY <1>1, <2>2, <2>3 DEF NamesOnce, InUse, Leaving, InputShape, SlotSet
  <2>6. ToldOrComing'
      BY <1>1, <2>2, <2>3 DEF ToldOrComing, InUse, Leaving, InputShape, SlotSet, NamesOnce
  <2>7. NotOvertaken'
      BY <1>1, <2>2, <2>3 DEF NotOvertaken, InUse, Leaving, InputShape, SlotSet, NamesOnce,
             ToldOrComing
  <2>8. QED
      BY <2>4, <2>5, <2>6, <2>7 DEF InputInv
<1>3. CASE InputValue /\ setting' = Nothing
  <2>1. UNCHANGED <<inputs, firing, told>> /\ setting.at = "value" /\ setting' = Nothing /\ setting'.at = "none"
      BY <1>3 DEF InputValue, Nothing
  <2>2. InputShape'
    <3>1. inputs' \in [1 .. Slots -> SlotSet]
        BY <1>1, <2>1, SlotChanges DEF InputShape, InUse
    <3>2. setting' \in [slot : 0 .. Slots, value : 0 .. 127, at : {"none", "value", "pending"}]
        BY <1>1, <2>1 DEF InputShape, InUse, Nothing
    <3>3. setting'.at # "none" => setting'.slot # 0
        BY <1>1, <2>1 DEF InputShape, InUse
    <3>4. firing' \in 0 .. Slots
        BY <1>1, <2>1 DEF InputShape, InUse
    <3>5. told' \in [Inputs -> 0 .. 127]
        BY <1>1, <2>1 DEF InputShape, InUse
    <3>6. QED
        BY <3>1, <3>2, <3>3, <3>4, <3>5 DEF InputShape
  <2>3. NamesOnce'
      BY <1>1, <2>1 DEF NamesOnce, InUse, Leaving, InputShape, SlotSet, Nothing
  <2>4. ToldOrComing'
      BY <1>1, <2>1 DEF ToldOrComing, InUse, Leaving, InputShape, SlotSet, NamesOnce, Nothing
  <2>5. NotOvertaken'
      BY <1>1, <2>1 DEF NotOvertaken, InUse, Leaving, InputShape, SlotSet, NamesOnce,
             ToldOrComing, Nothing
  <2>6. QED
      BY <2>2, <2>3, <2>4, <2>5 DEF InputInv
<1>4. CASE InputValue /\ setting' # Nothing
  <2>1. /\ setting.at = "value" /\ setting' = [setting EXCEPT !.at = "pending"]
        /\ inputs' = [inputs EXCEPT ![setting.slot].value = setting.value, ![setting.slot].left = TRUE]
        /\ UNCHANGED <<firing, told>>
      BY <1>4 DEF InputValue, Leave
  <2>2. InputShape'
    <3>1. inputs' \in [1 .. Slots -> SlotSet]
      <4>1. /\ inputs \in [1 .. Slots -> SlotSet] /\ setting.slot \in 1 .. Slots
            /\ setting.value \in 0 .. 127 /\ TRUE \in BOOLEAN
          BY <1>1, <2>1 DEF InputShape
      <4>2. QED
          BY <2>1, <4>1, SlotChanges
    <3>2. setting' \in [slot : 0 .. Slots, value : 0 .. 127, at : {"none", "value", "pending"}]
        BY <1>1, <2>1 DEF InputShape, InUse
    <3>3. setting'.at # "none" => setting'.slot # 0
        BY <1>1, <2>1 DEF InputShape, InUse
    <3>4. firing' \in 0 .. Slots
        BY <1>1, <2>1 DEF InputShape, InUse
    <3>5. told' \in [Inputs -> 0 .. 127]
        BY <1>1, <2>1 DEF InputShape, InUse
    <3>6. QED
        BY <3>1, <3>2, <3>3, <3>4, <3>5 DEF InputShape
  <2>3. NamesOnce'
      BY <1>1, <2>1 DEF NamesOnce, InUse, Leaving, InputShape, SlotSet
  <2>4. ToldOrComing'
      BY <1>1, <2>1 DEF ToldOrComing, InUse, Leaving, InputShape, SlotSet, NamesOnce
  <2>5. NotOvertaken'
      BY <1>1, <2>1 DEF NotOvertaken, InUse, Leaving, InputShape, SlotSet, NamesOnce,
             ToldOrComing
  <2>6. QED
      BY <2>2, <2>3, <2>4, <2>5 DEF InputInv
<1>5. CASE InputPending
  <2>1. /\ setting.at = "pending" /\ setting' = Nothing /\ setting'.at = "none"
        /\ inputs' = [inputs EXCEPT ![setting.slot].pending = TRUE]
        /\ UNCHANGED <<firing, told>>
      BY <1>5 DEF InputPending, Leave, Nothing
  <2>2. InputShape'
    <3>1. inputs' \in [1 .. Slots -> SlotSet]
      <4>1. /\ inputs \in [1 .. Slots -> SlotSet] /\ setting.slot \in 1 .. Slots
            /\ TRUE \in BOOLEAN
          BY <1>1, <2>1 DEF InputShape
      <4>2. [inputs EXCEPT ![setting.slot].pending = TRUE] \in [1 .. Slots -> SlotSet]
          BY <4>1, SlotPending
      <4>3. QED
          BY <2>1, <4>2
    <3>2. setting' \in [slot : 0 .. Slots, value : 0 .. 127, at : {"none", "value", "pending"}]
        BY <1>1, <2>1 DEF InputShape, InUse, Nothing
    <3>3. setting'.at # "none" => setting'.slot # 0
        BY <1>1, <2>1 DEF InputShape, InUse
    <3>4. firing' \in 0 .. Slots
        BY <1>1, <2>1 DEF InputShape, InUse
    <3>5. told' \in [Inputs -> 0 .. 127]
        BY <1>1, <2>1 DEF InputShape, InUse
    <3>6. QED
        BY <3>1, <3>2, <3>3, <3>4, <3>5 DEF InputShape
  <2>3. NamesOnce'
      BY <1>1, <2>1 DEF NamesOnce, InUse, Leaving, InputShape, SlotSet, Nothing
  <2>4. ToldOrComing'
      BY <1>1, <2>1 DEF ToldOrComing, InUse, Leaving, InputShape, SlotSet, NamesOnce, Nothing
  <2>5. NotOvertaken'
      BY <1>1, <2>1 DEF NotOvertaken, InUse, Leaving, InputShape, SlotSet, NamesOnce,
             ToldOrComing, Nothing
  <2>6. QED
      BY <2>2, <2>3, <2>4, <2>5 DEF InputInv
<1>6. CASE RemoveInput
  <2>1. PICK i \in 1 .. Slots : inputs' = [inputs EXCEPT ![i].kind = "none", ![i].pending = FALSE]
      BY <1>6 DEF RemoveInput, Slot
  <2>2. UNCHANGED <<setting, firing, told>>
      BY <1>6 DEF RemoveInput
  <2>3. InputShape'
    <3>1. inputs' \in [1 .. Slots -> SlotSet]
      <4>1. inputs \in [1 .. Slots -> SlotSet] /\ FALSE \in BOOLEAN
          BY <1>1 DEF InputShape
      <4>2. QED
          BY <2>1, <4>1, SlotPending
    <3>2. setting' \in [slot : 0 .. Slots, value : 0 .. 127, at : {"none", "value", "pending"}]
        BY <1>1, <2>1, <2>2 DEF InputShape, InUse
    <3>3. setting'.at # "none" => setting'.slot # 0
        BY <1>1, <2>1, <2>2 DEF InputShape, InUse
    <3>4. firing' \in 0 .. Slots
        BY <1>1, <2>1, <2>2 DEF InputShape, InUse
    <3>5. told' \in [Inputs -> 0 .. 127]
        BY <1>1, <2>1, <2>2 DEF InputShape, InUse
    <3>6. QED
        BY <3>1, <3>2, <3>3, <3>4, <3>5 DEF InputShape
  <2>4. NamesOnce'
      BY <1>1, <2>1, <2>2 DEF NamesOnce, InUse, Leaving, InputShape, SlotSet
  <2>5. ToldOrComing'
      BY <1>1, <2>1, <2>2 DEF ToldOrComing, InUse, Leaving, InputShape, SlotSet, NamesOnce
  <2>6. NotOvertaken'
      BY <1>1, <2>1, <2>2 DEF NotOvertaken, InUse, Leaving, InputShape, SlotSet, NamesOnce,
             ToldOrComing
  <2>7. QED
      BY <2>3, <2>4, <2>5, <2>6 DEF InputInv
<1>7. CASE FireInput
  <2>1. PICK i \in 1 .. Slots : /\ firing = 0 /\ firing' = i /\ InUse(i) /\ inputs[i].pending
                                 /\ inputs' = [inputs EXCEPT ![i].pending = FALSE]
      BY <1>7 DEF FireInput, Due, InUse
  <2>2. UNCHANGED <<setting, told>>
      BY <1>7 DEF FireInput
  <2>3. InputShape'
    <3>1. inputs' \in [1 .. Slots -> SlotSet]
        BY <1>1, <2>1, <2>2, SlotChanges DEF InputShape, InUse
    <3>2. setting' \in [slot : 0 .. Slots, value : 0 .. 127, at : {"none", "value", "pending"}]
        BY <1>1, <2>1, <2>2 DEF InputShape, InUse
    <3>3. setting'.at # "none" => setting'.slot # 0
        BY <1>1, <2>1, <2>2 DEF InputShape, InUse
    <3>4. firing' \in 0 .. Slots
        BY <1>1, <2>1, <2>2 DEF InputShape, InUse
    <3>5. told' \in [Inputs -> 0 .. 127]
        BY <1>1, <2>1, <2>2 DEF InputShape, InUse
    <3>6. QED
        BY <3>1, <3>2, <3>3, <3>4, <3>5 DEF InputShape
  <2>4. NamesOnce'
      BY <1>1, <2>1, <2>2 DEF NamesOnce, InUse, Leaving, InputShape, SlotSet
  <2>5. ToldOrComing'
      BY <1>1, <2>1, <2>2 DEF ToldOrComing, InUse, Leaving, InputShape, SlotSet, NamesOnce
  <2>6. NotOvertaken'
      BY <1>1, <2>1, <2>2 DEF NotOvertaken, InUse, Leaving, InputShape, SlotSet, NamesOnce,
             ToldOrComing
  <2>7. QED
      BY <2>3, <2>4, <2>5, <2>6 DEF InputInv
<1>8. CASE PublishInput
  <2>1. /\ firing # 0 /\ firing' = 0 /\ UNCHANGED <<inputs, setting>>
        /\ told' = [k \in Inputs |-> IF inputs[firing].name = k THEN inputs[firing].value ELSE told[k]]
      BY <1>8 DEF PublishInput, Publish
  <2>2. InputShape'
    <3>1. inputs' \in [1 .. Slots -> SlotSet]
        BY <1>1, <2>1, SlotChanges DEF InputShape, InUse
    <3>2. setting' \in [slot : 0 .. Slots, value : 0 .. 127, at : {"none", "value", "pending"}]
        BY <1>1, <2>1 DEF InputShape, InUse, NotOvertaken
    <3>3. setting'.at # "none" => setting'.slot # 0
        BY <1>1, <2>1 DEF InputShape, InUse
    <3>4. firing' \in 0 .. Slots
        BY <1>1, <2>1 DEF InputShape, InUse
    <3>5. told' \in [Inputs -> 0 .. 127]
      <4>1. inputs[firing].value \in 0 .. 127
          BY <1>1, <2>1 DEF InputShape, SlotSet
      <4>2. QED
          BY <1>1, <2>1, <4>1 DEF InputShape
    <3>6. QED
        BY <3>1, <3>2, <3>3, <3>4, <3>5 DEF InputShape
  <2>3. NamesOnce'
      BY <1>1, <2>1 DEF NamesOnce, InUse, Leaving, InputShape, SlotSet, NotOvertaken
  <2>4. ToldOrComing'
      BY <1>1, <2>1 DEF ToldOrComing, InUse, Leaving, InputShape, SlotSet, NamesOnce,
             NotOvertaken
  <2>5. NotOvertaken'
      BY <1>1, <2>1 DEF NotOvertaken, InUse, Leaving, InputShape, SlotSet, NamesOnce,
             ToldOrComing, NotOvertaken
  <2>6. QED
      BY <2>2, <2>3, <2>4, <2>5 DEF InputInv
<1>9. CASE DefineInput
  <2>1. UNCHANGED <<setting, firing, told>>
      BY <1>9 DEF DefineInput
  <2>2. PICK k \in Inputs, kind \in {"knob", "pad"} :
          IF Slot(k) # {}
          THEN inputs' = [i \in 1 .. Slots |-> IF i \in Slot(k) THEN [inputs[i] EXCEPT !.kind = kind]
                                               ELSE inputs[i]]
          ELSE \E i \in 1 .. Slots : ~InUse(i) /\ inputs' = [inputs EXCEPT ![i] = [Free EXCEPT !.kind = kind, !.name = k]]
    <3>1. PICK k \in Inputs, kind \in {"knob", "pad"} :
            IF Slot(k) # {}
            THEN inputs' = [i \in 1 .. Slots |-> IF i \in Slot(k) THEN [inputs[i] EXCEPT !.kind = kind]
                                                 ELSE inputs[i]]
            ELSE LET free == {i \in 1 .. Slots : inputs[i].kind = "none"}
                 IN  /\ free # {}
                     /\ inputs' = [inputs EXCEPT ![CHOOSE i \in free : \A j \in free : i <= j] =
                                     [Free EXCEPT !.kind = kind, !.name = k]]
        BY <1>9 DEF DefineInput
    <3>2. CASE Slot(k) # {}
        BY <3>1, <3>2
    <3>3. CASE Slot(k) = {}
      <4> DEFINE free == {i \in 1 .. Slots : inputs[i].kind = "none"}
                 least == CHOOSE i \in free : \A j \in free : i <= j
      <4>1. free # {} /\ inputs' = [inputs EXCEPT ![least] = [Free EXCEPT !.kind = kind, !.name = k]]
          BY <3>1, <3>3
      <4>2. \E i \in free : \A j \in free : i <= j
          BY <1>1, <4>1, LeastOfSome
      <4>3. least \in free
          BY <4>2
      <4>4. QED
          BY <3>3, <4>1, <4>3 DEF InUse
    <3>4. QED
        BY <3>2, <3>3
  <2>3. CASE Slot(k) # {}
    <3>1. inputs' = [i \in 1 .. Slots |-> IF i \in Slot(k) THEN [inputs[i] EXCEPT !.kind = kind] ELSE inputs[i]]
        BY <2>2, <2>3
    <3>2. \A i \in 1 .. Slots : i \in Slot(k) <=> InUse(i) /\ inputs[i].name = k
        BY DEF Slot, InUse
    <3>3. \A i \in 1 .. Slots :
             /\ InUse(i)' <=> InUse(i)
             /\ inputs'[i].name = inputs[i].name /\ inputs'[i].value = inputs[i].value
             /\ inputs'[i].pending = inputs[i].pending /\ inputs'[i].left = inputs[i].left
        BY <1>1, <3>1, <3>2 DEF InUse, InputShape, SlotSet
    <3>4. InputShape'
      <4>1. \A i \in 1 .. Slots : [inputs[i] EXCEPT !.kind = kind] \in SlotSet /\ inputs[i] \in SlotSet
          BY <1>1, <2>2, SlotChanges DEF InputShape
      <4>2. inputs' \in [1 .. Slots -> SlotSet]
          BY <3>1, <4>1
      <4>3. QED
          BY <1>1, <2>1, <4>2 DEF InputShape
    <3>5. NamesOnce' /\ ToldOrComing'
        BY <1>1, <2>1, <3>3 DEF NamesOnce, ToldOrComing, Leaving
    <3>6. NotOvertaken'
        BY <1>1, <2>1, <3>3 DEF NotOvertaken, Leaving, InputShape
    <3>7. QED
        BY <3>4, <3>5, <3>6 DEF InputInv
  <2>4. CASE Slot(k) = {}
    <3>1. PICK i \in 1 .. Slots : /\ ~InUse(i)
                                   /\ inputs' = [inputs EXCEPT ![i] = [Free EXCEPT !.kind = kind, !.name = k]]
        BY <2>2, <2>4
    <3>2. /\ inputs'[i] = [kind |-> kind, name |-> k, value |-> 0, pending |-> FALSE, left |-> FALSE]
          /\ \A j \in 1 .. Slots : j # i => inputs'[j] = inputs[j]
        BY <1>1, <3>1 DEF Free, InputShape
    <3>3. \A j \in 1 .. Slots : InUse(j) => inputs[j].name # k
        BY <2>4 DEF Slot, InUse
    <3>4. InputShape'
      <4>1. inputs'[i] \in SlotSet
          BY <3>2 DEF SlotSet
      <4>2. inputs' \in [1 .. Slots -> SlotSet]
          BY <1>1, <3>1, <4>1 DEF InputShape
      <4>3. QED
          BY <1>1, <2>1, <4>2 DEF InputShape
    <3>5. NamesOnce'
        BY <1>1, <3>2, <3>3 DEF NamesOnce, InUse
    <3>6. ToldOrComing'
        BY <1>1, <2>1, <3>2 DEF ToldOrComing, InUse, Leaving
    <3>7. NotOvertaken'
        BY <1>1, <2>1, <3>2, <3>3 DEF NotOvertaken, InUse, Leaving, InputShape
    <3>8. QED
        BY <3>4, <3>5, <3>6, <3>7 DEF InputInv
  <2>5. QED
      BY <2>3, <2>4
<1>10. ASSUME \/ OscIn \/ Tell \/ Waited \/ TimesOut \/ OpenSocket \/ Flags \/ StartTask \/ PowerSave
              \/ TaskStops \/ TaskCloses \/ TaskEnds \/ UNCHANGED listenVars
       PROVE  InputInv'
  <2>1. UNCHANGED <<inputs, setting, firing, told>>
      BY <1>10 DEF OscIn, Tell, Waited, TimesOut, OpenSocket, Flags, StartTask, PowerSave,
             TaskStops, TaskCloses, TaskEnds, listenVars, listenerVars, inputVars
  <2>2. QED
      BY <1>1, <2>1 DEF InputInv, InputShape, NamesOnce, ToldOrComing, NotOvertaken, InUse,
             Leaving
<1>11. QED
    BY <1>2, <1>3, <1>4, <1>5, <1>6, <1>7, <1>8, <1>9, <1>10 DEF ListenNext

\* At most one task listens, a port given back is free, and the last value a
\* sender left is the last the lanes are told (osc.c, seq.c).
THEOREM ListensAsAsked == ListenSpec => []ListenerKept
<1>1. ListenerInv /\ InputInv => ListenerKept
  <2> SUFFICES ASSUME ListenerInv, InputInv PROVE ListenerKept
      OBVIOUS
  <2>0. OneTask /\ \A t : Len(<<t>>) = 1
      BY DEF ListenerInv
  <2>1. OneListener
    <3>1. Len(tasks) <= 1
      <4>1. CASE tasks = <<>>
          BY <4>1
      <4>2. CASE tasks # <<>>
        <5>1. PICK at \in {"reads", "closing", "closed"} : tasks = <<[port |-> port, at |-> at]>>
            BY <2>0, <4>2 DEF OneTask
        <5>2. QED
            BY <2>0, <5>1
      <4>3. QED
          BY <4>1, <4>2
    <3>2. ASSUME Idle, port # 0, ~stop
          PROVE  ~psave /\ \E t \in Range(tasks) : t.port = port /\ t.at = "reads"
      <4>1. ~psave /\ tasks = <<[port |-> port, at |-> "reads"]>>
          BY <3>2 DEF ListenerInv, AsListening, Idle
      <4>2. [port |-> port, at |-> "reads"] \in Range(tasks)
          BY <4>1, TheOnlyTask
      <4>3. QED
          BY <4>1, <4>2
    <3>3. QED
        BY <3>1, <3>2 DEF OneListener
  <2>2. ClosedIsClosed
      BY NoTask DEF ListenerInv, AsListening, ClosedIsClosed, Range
  <2>3. LastValueArrives
      BY DEF InputInv, ToldOrComing, LastValueArrives, InUse, Leaving
  <2>4. QED
      BY <2>1, <2>2, <2>3 DEF ListenerKept
<1>2. QED
    BY <1>1, ListenerStarts, ListenerSteps, InputsStart, InputSteps, PTL DEF ListenSpec

-----------------------------------------------------------------------------
PeripheralSpec == PeripheralInit /\ [][PeripheralNext]_perVars

(* The deck as a BLE-MIDI peripheral: a queue of events that leaves the flags *)
(* as the radio is, and one who advertises when nobody does.                  *)
Came == [type : {"connect"}, handle : Handles]
Failed == [type : {"connect"}, handle : {NoConn}]
Wanted == [type : {"subscribe"}, notify : {TRUE}]
Left == [type : {"disconnect"}, handle : Handles]
Asked == [type : {"subscribe"}, notify : BOOLEAN]
BleEvents == Came \cup Failed \cup Left \cup Asked
Wakes == Failed \cup Left

PeripheralShape ==
    /\ {wantBle, enabled, synced, subscribed, advFailed} \subseteq BOOLEAN
    /\ conn \in Handles \cup {NoConn}
    /\ bleAt \in {"loop", "flag", "on", "off", "terminate", "stop"}
    /\ hostAt \in {"wait", "start", "asks", "advertise"}
    /\ bleEvents \in Seq(BleEvents)
    /\ radio \in [up : BOOLEAN, adv : BOOLEAN, links : SUBSET Handles, asked : SUBSET Handles]

\* One host at a time, and the link down before the stack is.
OneHost ==
    /\ \A g, h \in radio.links : g = h
    /\ radio.asked \subseteq radio.links
    /\ ~radio.up => radio.links = {} /\ ~radio.adv

\* Some element of K is in s; the last of K in s is its i-th.
In(s, K) == \E i \in 1 .. Len(s) : s[i] \in K
LastIn(s, K, i) == s[i] \in K /\ \A j \in 1 .. Len(s) : j > i => s[j] \notin K

\* Of the events in s those in K decide: flag holds something now, and truth
\* in the end, if the last of them is in G - or nothing is left to decide it.
Tells(s, K, G, flag, truth) ==
    /\ ~In(s, K) => (flag = {} <=> truth = {})
    /\ \A i \in 1 .. Len(s) : LastIn(s, K, i) => (s[i] \in G <=> truth # {})

LinkTold == Tells(bleEvents, Came \cup Left, Came, {conn} \ {NoConn}, radio.links)
AskTold == Tells(bleEvents, Asked \cup Left, Wanted, {c \in {conn} : subscribed},
                 radio.asked)

\* Who advertises next, when the deck should be found and is not.
MainTask ==
    /\ bleAt \in {"on", "off", "terminate", "stop"} => (enabled <=> bleAt = "on")
    /\ radio.up /\ ~synced => hostAt = "start"
SomeoneWill ==
    radio.up /\ enabled /\ radio.links = {} /\ ~radio.adv /\ ~advFailed =>
        hostAt # "wait" \/ bleAt \in {"flag", "on"} \/ In(bleEvents, Wakes)
PeripheralInv ==
    PeripheralShape /\ OneHost /\ LinkTold /\ AskTold /\ MainTask /\ SomeoneWill

\* What is in a queue that grew.
LEMMA InGrows ==
    ASSUME NEW S, NEW s \in Seq(S), NEW e \in S, NEW K
    PROVE  In(Append(s, e), K) <=> In(s, K) \/ e \in K
    BY QueueGrows DEF In

\* What is in a queue that lost its head.
LEMMA InShrinks ==
    ASSUME NEW S, NEW s \in Seq(S), s # <<>>, NEW K
    PROVE  In(s, K) <=> In(Tail(s), K) \/ Head(s) \in K
<1>1. ASSUME In(s, K), Head(s) \notin K PROVE In(Tail(s), K)
  <2>1. PICK i \in 1 .. Len(s) : s[i] \in K
      BY <1>1 DEF In
  <2>2. i - 1 \in 1 .. Len(s) - 1 /\ Tail(s)[i - 1] = s[i]
      BY <1>1, <2>1, QueueShrinks
  <2>3. QED
      BY <2>1, <2>2, QueueShrinks DEF In
<1>2. ASSUME In(Tail(s), K) PROVE In(s, K)
  <2>1. PICK i \in 1 .. Len(s) - 1 : Tail(s)[i] \in K
      BY <1>2, QueueShrinks DEF In
  <2>2. i + 1 \in 1 .. Len(s) /\ Tail(s)[i] = s[i + 1]
      BY <2>1, QueueShrinks
  <2>3. QED
      BY <2>1, <2>2 DEF In
<1>3. Head(s) \in K => In(s, K)
    BY QueueShrinks DEF In
<1>4. QED
    BY <1>1, <1>2, <1>3

\* A new event of the kind decides.
LEMMA TellsGrows ==
    ASSUME NEW S, NEW s \in Seq(S), NEW e \in S, NEW K, NEW G, NEW flag, NEW truth,
           e \in K, e \in G <=> truth # {}
    PROVE  Tells(Append(s, e), K, G, flag, truth)
<1>1. In(Append(s, e), K)
    BY InGrows
<1>2. ASSUME NEW i \in 1 .. Len(Append(s, e)), LastIn(Append(s, e), K, i)
      PROVE  Append(s, e)[i] = e
    BY <1>2, QueueGrows DEF LastIn
<1>3. QED
    BY <1>1, <1>2 DEF Tells

\* A new event of another kind decides nothing.
LEMMA TellsStays ==
    ASSUME NEW S, NEW s \in Seq(S), NEW e \in S, NEW K, NEW G, NEW flag, NEW truth,
           e \notin K, Tells(s, K, G, flag, truth)
    PROVE  Tells(Append(s, e), K, G, flag, truth)
<1>1. In(Append(s, e), K) <=> In(s, K)
    BY InGrows
<1>2. ASSUME NEW i \in 1 .. Len(Append(s, e)), LastIn(Append(s, e), K, i)
      PROVE  i \in 1 .. Len(s) /\ LastIn(s, K, i) /\ Append(s, e)[i] = s[i]
    BY <1>2, QueueGrows DEF LastIn
<1>3. QED
    BY <1>1, <1>2 DEF Tells

\* An event that is handled leaves the flag as it says.
LEMMA TellsShrinks ==
    ASSUME NEW S, NEW s \in Seq(S), s # <<>>, NEW K, NEW G, NEW flag, NEW truth, NEW after,
           Tells(s, K, G, flag, truth),
           Head(s) \notin K => after = flag,
           Head(s) \in K => (Head(s) \in G <=> after # {})
    PROVE  Tells(Tail(s), K, G, after, truth)
<1>1. ASSUME ~In(Tail(s), K) PROVE after = {} <=> truth = {}
  <2>1. CASE Head(s) \in K
    <3>1. LastIn(s, K, 1)
      <4>1. ASSUME NEW j \in 1 .. Len(s), j > 1 PROVE s[j] \notin K
        <5>1. j - 1 \in 1 .. Len(s) - 1 /\ Tail(s)[j - 1] = s[j]
            BY <4>1, QueueShrinks
        <5>2. QED
            BY <1>1, <5>1, QueueShrinks DEF In
      <4>2. QED
          BY <2>1, <4>1, QueueShrinks DEF LastIn
    <3>2. QED
        BY <2>1, <3>1, QueueShrinks DEF Tells
  <2>2. CASE Head(s) \notin K
      BY <1>1, <2>2, InShrinks DEF Tells
  <2>3. QED
      BY <2>1, <2>2
<1>2. ASSUME NEW i \in 1 .. Len(Tail(s)), LastIn(Tail(s), K, i)
      PROVE  Tail(s)[i] \in G <=> truth # {}
  <2>1. i + 1 \in 1 .. Len(s) /\ Tail(s)[i] = s[i + 1]
      BY QueueShrinks
  <2>2. LastIn(s, K, i + 1)
    <3>1. ASSUME NEW j \in 1 .. Len(s), j > i + 1 PROVE s[j] \notin K
      <4>1. j - 1 \in 1 .. Len(Tail(s)) /\ j - 1 > i /\ Tail(s)[j - 1] = s[j]
          BY <3>1, QueueShrinks
      <4>2. QED
          BY <1>2, <4>1 DEF LastIn
    <3>2. QED
        BY <1>2, <2>1, <3>1 DEF LastIn
  <2>3. QED
      BY <2>1, <2>2 DEF Tells
<1>3. QED
    BY <1>1, <1>2 DEF Tells

\* The kinds of event, by their fields.
LEMMA EventKinds ==
    /\ \A h \in Handles : /\ [type |-> "connect", handle |-> h] \in Came
                          /\ [type |-> "disconnect", handle |-> h] \in Left
    /\ [type |-> "connect", handle |-> NoConn] \in Failed
    /\ \A b \in BOOLEAN : /\ [type |-> "subscribe", notify |-> b] \in Asked
                          /\ ([type |-> "subscribe", notify |-> b] \in Wanted <=> b)
    /\ \A e \in Came : e.type = "connect" /\ e.handle \in Handles
    /\ \A e \in Failed : e.type = "connect" /\ e.handle = NoConn
    /\ \A e \in Left : e.type = "disconnect"
    /\ \A e \in Asked : e.type = "subscribe" /\ e.notify \in BOOLEAN /\ (e \in Wanted <=> e.notify)
    BY DEF Came, Failed, Left, Asked, Wanted

\* The kinds do not meet.
LEMMA KindsApart ==
    ASSUME NEW e \in BleEvents
    PROVE  /\ e \in Came => e \notin Failed \cup Left \cup Asked \cup Wanted
           /\ e \in Failed => e \notin Came \cup Left \cup Asked \cup Wanted
           /\ e \in Left => e \notin Came \cup Failed \cup Asked \cup Wanted
           /\ e \in Asked => e \notin Came \cup Failed \cup Left
<1>1. e.type \in {"connect", "disconnect", "subscribe"}
    BY EventKinds DEF BleEvents
<1>2. \A w \in Wanted : w.type = "subscribe"
    BY DEF Wanted
<1>3. QED
    BY <1>2, EventKinds, PeripheralAssumption DEF BleEvents

\* At the start the radio is off and nothing is flagged.
LEMMA PeripheralStarts == PeripheralInit => PeripheralInv
<1> SUFFICES ASSUME PeripheralInit PROVE PeripheralInv
    OBVIOUS
<1>1. PeripheralShape
  <2>1. bleEvents \in Seq(BleEvents)
      BY DEF PeripheralInit
  <2>2. QED
      BY <2>1 DEF PeripheralInit, PeripheralShape
<1>2. OneHost /\ MainTask /\ SomeoneWill
    BY DEF PeripheralInit, OneHost, MainTask, SomeoneWill
<1>3. LinkTold /\ AskTold
  <2>1. \A K : ~In(bleEvents, K) /\ 1 .. Len(bleEvents) = {}
      BY DEF PeripheralInit, In
  <2>2. {conn} \ {NoConn} = {} /\ radio.links = {} /\ radio.asked = {} /\ {c \in {conn} : subscribed} = {}
      BY DEF PeripheralInit
  <2>3. QED
      BY <2>1, <2>2 DEF LinkTold, AskTold, Tells
<1>4. QED
    BY <1>1, <1>2, <1>3 DEF PeripheralInv

\* A host that goes, and the event that says so.
LEMMA LeavingIsTold ==
    ASSUME bleEvents \in Seq(BleEvents), NEW h \in Handles,
           bleEvents' = Append(bleEvents, [type |-> "disconnect", handle |-> h]),
           radio'.links = {}, radio'.asked = {}
    PROVE  bleEvents' \in Seq(BleEvents) /\ LinkTold' /\ AskTold' /\ In(bleEvents', Wakes)
<1> DEFINE e == [type |-> "disconnect", handle |-> h]
<1>1. e \in Left /\ e \in BleEvents /\ e \notin Came /\ e \notin Wanted /\ e \in Wakes
    BY EventKinds, KindsApart DEF BleEvents, Wakes
<1>2. bleEvents' = Append(bleEvents, e)
    OBVIOUS
<1> HIDE DEF e
<1>3. LinkTold'
    BY <1>1, <1>2, TellsGrows DEF LinkTold
<1>4. AskTold'
    BY <1>1, <1>2, TellsGrows DEF AskTold
<1>5. QED
    BY <1>1, <1>2, <1>3, <1>4, QueueGrows, InGrows

\* Every step of the two tasks, the stack and the hosts keeps the peripheral.
LEMMA PeripheralSteps == PeripheralInv /\ [PeripheralNext]_perVars => PeripheralInv'
<1> SUFFICES ASSUME PeripheralInv, [PeripheralNext]_perVars PROVE PeripheralInv'
    OBVIOUS
<1>1. PeripheralShape /\ OneHost /\ LinkTold /\ AskTold /\ MainTask /\ SomeoneWill
    BY DEF PeripheralInv
<1>2. CASE SendBle
  <2>1. PeripheralShape'
      BY <1>1, <1>2 DEF PeripheralShape, SendBle, Another
  <2>2. OneHost'
      BY <1>1, <1>2 DEF OneHost, PeripheralShape, SendBle, Another
  <2>3. MainTask'
      BY <1>1, <1>2 DEF MainTask, PeripheralShape, SendBle, Another
  <2>4. SomeoneWill'
      BY <1>1, <1>2 DEF SomeoneWill, MainTask, OneHost, PeripheralShape, SendBle, Another
  <2>5. UNCHANGED <<bleEvents, conn, subscribed>> /\ radio'.links = radio.links /\ radio'.asked = radio.asked
      BY <1>1, <1>2 DEF PeripheralShape, SendBle, Another
  <2>6. LinkTold' /\ AskTold'
      BY <1>1, <2>5 DEF LinkTold, AskTold
  <2>7. QED
      BY <2>1, <2>2, <2>3, <2>4, <2>6 DEF PeripheralInv
<1>3. CASE SetEnabled
  <2>1. PeripheralShape'
      BY <1>1, <1>3 DEF PeripheralShape, SetEnabled
  <2>2. OneHost'
      BY <1>1, <1>3 DEF OneHost, PeripheralShape, SetEnabled
  <2>3. MainTask'
      BY <1>1, <1>3 DEF MainTask, PeripheralShape, SetEnabled
  <2>4. SomeoneWill'
      BY <1>1, <1>3 DEF SomeoneWill, MainTask, OneHost, PeripheralShape, SetEnabled
  <2>5. UNCHANGED <<bleEvents, conn, subscribed>> /\ radio'.links = radio.links /\ radio'.asked = radio.asked
      BY <1>1, <1>3 DEF PeripheralShape, SetEnabled
  <2>6. LinkTold' /\ AskTold'
      BY <1>1, <2>5 DEF LinkTold, AskTold
  <2>7. QED
      BY <2>1, <2>2, <2>3, <2>4, <2>6 DEF PeripheralInv
<1>4. CASE ReadSynced
  <2>1. PeripheralShape'
      BY <1>1, <1>4 DEF PeripheralShape, ReadSynced
  <2>2. OneHost'
      BY <1>1, <1>4 DEF OneHost, PeripheralShape, ReadSynced
  <2>3. MainTask'
      BY <1>1, <1>4 DEF MainTask, PeripheralShape, ReadSynced
  <2>4. SomeoneWill'
      BY <1>1, <1>4 DEF SomeoneWill, MainTask, OneHost, PeripheralShape, ReadSynced
  <2>5. UNCHANGED <<bleEvents, conn, subscribed>> /\ radio'.links = radio.links /\ radio'.asked = radio.asked
      BY <1>1, <1>4 DEF PeripheralShape, ReadSynced
  <2>6. LinkTold' /\ AskTold'
      BY <1>1, <2>5 DEF LinkTold, AskTold
  <2>7. QED
      BY <2>1, <2>2, <2>3, <2>4, <2>6 DEF PeripheralInv
<1>5. CASE SwitchOn
  <2>1. PeripheralShape'
      BY <1>1, <1>5 DEF PeripheralShape, SwitchOn, Advertise
  <2>2. OneHost'
      BY <1>1, <1>5 DEF OneHost, PeripheralShape, SwitchOn, Advertise
  <2>3. MainTask'
      BY <1>1, <1>5 DEF MainTask, PeripheralShape, SwitchOn, Advertise
  <2>4. SomeoneWill'
      BY <1>1, <1>5 DEF SomeoneWill, MainTask, OneHost, PeripheralShape, SwitchOn, Advertise
  <2>5. UNCHANGED <<bleEvents, conn, subscribed>> /\ radio'.links = radio.links /\ radio'.asked = radio.asked
      BY <1>1, <1>5 DEF PeripheralShape, SwitchOn, Advertise
  <2>6. LinkTold' /\ AskTold'
      BY <1>1, <2>5 DEF LinkTold, AskTold
  <2>7. QED
      BY <2>1, <2>2, <2>3, <2>4, <2>6 DEF PeripheralInv
<1>6. CASE ReadConn
  <2>1. PeripheralShape'
      BY <1>1, <1>6 DEF PeripheralShape, ReadConn
  <2>2. OneHost'
      BY <1>1, <1>6 DEF OneHost, PeripheralShape, ReadConn
  <2>3. MainTask'
      BY <1>1, <1>6 DEF MainTask, PeripheralShape, ReadConn
  <2>4. SomeoneWill'
      BY <1>1, <1>6 DEF SomeoneWill, MainTask, OneHost, PeripheralShape, ReadConn
  <2>5. UNCHANGED <<bleEvents, conn, subscribed>> /\ radio'.links = radio.links /\ radio'.asked = radio.asked
      BY <1>1, <1>6 DEF PeripheralShape, ReadConn
  <2>6. LinkTold' /\ AskTold'
      BY <1>1, <2>5 DEF LinkTold, AskTold
  <2>7. QED
      BY <2>1, <2>2, <2>3, <2>4, <2>6 DEF PeripheralInv
<1>7. CASE AdvStop
  <2>1. PeripheralShape'
      BY <1>1, <1>7 DEF PeripheralShape, AdvStop
  <2>2. OneHost'
      BY <1>1, <1>7 DEF OneHost, PeripheralShape, AdvStop
  <2>3. MainTask'
      BY <1>1, <1>7 DEF MainTask, PeripheralShape, AdvStop
  <2>4. SomeoneWill'
      BY <1>1, <1>7 DEF SomeoneWill, MainTask, OneHost, PeripheralShape, AdvStop
  <2>5. UNCHANGED <<bleEvents, conn, subscribed>> /\ radio'.links = radio.links /\ radio'.asked = radio.asked
      BY <1>1, <1>7 DEF PeripheralShape, AdvStop
  <2>6. LinkTold' /\ AskTold'
      BY <1>1, <2>5 DEF LinkTold, AskTold
  <2>7. QED
      BY <2>1, <2>2, <2>3, <2>4, <2>6 DEF PeripheralInv
<1>8. CASE StartSynced
  <2>1. PeripheralShape'
      BY <1>1, <1>8 DEF PeripheralShape, StartSynced
  <2>2. OneHost'
      BY <1>1, <1>8 DEF OneHost, PeripheralShape, StartSynced
  <2>3. MainTask'
      BY <1>1, <1>8 DEF MainTask, PeripheralShape, StartSynced
  <2>4. SomeoneWill'
      BY <1>1, <1>8 DEF SomeoneWill, MainTask, OneHost, PeripheralShape, StartSynced
  <2>5. UNCHANGED <<bleEvents, conn, subscribed>> /\ radio'.links = radio.links /\ radio'.asked = radio.asked
      BY <1>1, <1>8 DEF PeripheralShape, StartSynced
  <2>6. LinkTold' /\ AskTold'
      BY <1>1, <2>5 DEF LinkTold, AskTold
  <2>7. QED
      BY <2>1, <2>2, <2>3, <2>4, <2>6 DEF PeripheralInv
<1>9. CASE IfEnabled
  <2>1. PeripheralShape'
      BY <1>1, <1>9 DEF PeripheralShape, IfEnabled
  <2>2. OneHost'
      BY <1>1, <1>9 DEF OneHost, PeripheralShape, IfEnabled
  <2>3. MainTask'
      BY <1>1, <1>9 DEF MainTask, PeripheralShape, IfEnabled
  <2>4. SomeoneWill'
      BY <1>1, <1>9 DEF SomeoneWill, MainTask, OneHost, PeripheralShape, IfEnabled
  <2>5. UNCHANGED <<bleEvents, conn, subscribed>> /\ radio'.links = radio.links /\ radio'.asked = radio.asked
      BY <1>1, <1>9 DEF PeripheralShape, IfEnabled
  <2>6. LinkTold' /\ AskTold'
      BY <1>1, <2>5 DEF LinkTold, AskTold
  <2>7. QED
      BY <2>1, <2>2, <2>3, <2>4, <2>6 DEF PeripheralInv
<1>10. CASE HostAdvertises
  <2>1. PeripheralShape'
      BY <1>1, <1>10 DEF PeripheralShape, HostAdvertises, Advertise
  <2>2. OneHost'
      BY <1>1, <1>10 DEF OneHost, PeripheralShape, HostAdvertises, Advertise
  <2>3. MainTask'
      BY <1>1, <1>10 DEF MainTask, PeripheralShape, HostAdvertises, Advertise
  <2>4. SomeoneWill'
      BY <1>1, <1>10 DEF SomeoneWill, MainTask, OneHost, PeripheralShape, HostAdvertises,
             Advertise
  <2>5. UNCHANGED <<bleEvents, conn, subscribed>> /\ radio'.links = radio.links /\ radio'.asked = radio.asked
      BY <1>1, <1>10 DEF PeripheralShape, HostAdvertises, Advertise
  <2>6. LinkTold' /\ AskTold'
      BY <1>1, <2>5 DEF LinkTold, AskTold
  <2>7. QED
      BY <2>1, <2>2, <2>3, <2>4, <2>6 DEF PeripheralInv
<1>11. CASE Sync
  <2>1. PeripheralShape'
      BY <1>1, <1>11 DEF PeripheralShape, Sync
  <2>2. OneHost'
      BY <1>1, <1>11 DEF OneHost, PeripheralShape, Sync
  <2>3. MainTask'
      BY <1>1, <1>11 DEF MainTask, PeripheralShape, Sync
  <2>4. SomeoneWill'
      BY <1>1, <1>11 DEF SomeoneWill, MainTask, OneHost, PeripheralShape, Sync
  <2>5. UNCHANGED <<bleEvents, conn, subscribed>> /\ radio'.links = radio.links /\ radio'.asked = radio.asked
      BY <1>1, <1>11 DEF PeripheralShape, Sync
  <2>6. LinkTold' /\ AskTold'
      BY <1>1, <2>5 DEF LinkTold, AskTold
  <2>7. QED
      BY <2>1, <2>2, <2>3, <2>4, <2>6 DEF PeripheralInv
<1>12. CASE UNCHANGED perVars
  <2>1. PeripheralShape'
      BY <1>1, <1>12 DEF PeripheralShape, perVars
  <2>2. OneHost'
      BY <1>1, <1>12 DEF OneHost, PeripheralShape, perVars
  <2>3. MainTask'
      BY <1>1, <1>12 DEF MainTask, PeripheralShape, perVars
  <2>4. SomeoneWill'
      BY <1>1, <1>12 DEF SomeoneWill, MainTask, OneHost, PeripheralShape, perVars
  <2>5. UNCHANGED <<bleEvents, conn, subscribed>> /\ radio'.links = radio.links /\ radio'.asked = radio.asked
      BY <1>1, <1>12 DEF PeripheralShape, perVars
  <2>6. LinkTold' /\ AskTold'
      BY <1>1, <2>5 DEF LinkTold, AskTold
  <2>7. QED
      BY <2>1, <2>2, <2>3, <2>4, <2>6 DEF PeripheralInv
<1>13. CASE Terminate /\ conn \notin radio.links
  <2>1. PeripheralShape'
      BY <1>1, <1>13 DEF PeripheralShape, Terminate
  <2>2. OneHost'
      BY <1>1, <1>13 DEF OneHost, PeripheralShape, Terminate
  <2>3. MainTask'
      BY <1>1, <1>13 DEF MainTask, PeripheralShape, Terminate
  <2>4. SomeoneWill'
      BY <1>1, <1>13 DEF SomeoneWill, MainTask, OneHost, PeripheralShape, Terminate
  <2>5. UNCHANGED <<bleEvents, conn, subscribed>> /\ radio'.links = radio.links /\ radio'.asked = radio.asked
      BY <1>1, <1>13 DEF PeripheralShape, Terminate
  <2>6. LinkTold' /\ AskTold'
      BY <1>1, <2>5 DEF LinkTold, AskTold
  <2>7. QED
      BY <2>1, <2>2, <2>3, <2>4, <2>6 DEF PeripheralInv
<1>14. CASE Terminate /\ conn \in radio.links
  <2>1. /\ conn \in Handles /\ bleEvents' = Append(bleEvents, [type |-> "disconnect", handle |-> conn])
        /\ radio' = [radio EXCEPT !.links = {}, !.asked = {}]
        /\ radio'.links = {} /\ radio'.asked = {}
        /\ bleAt = "terminate" /\ bleAt' = "stop" /\ UNCHANGED <<wantBle, enabled, synced, conn, subscribed, hostAt, advFailed>>
    <3>1. radio' = [radio EXCEPT !.links = @ \ {conn}, !.asked = @ \ {conn}] /\ conn \in Handles
          /\ bleEvents' = Append(bleEvents, [type |-> "disconnect", handle |-> conn])
          /\ bleAt = "terminate" /\ bleAt' = "stop" /\ UNCHANGED <<wantBle, enabled, synced, conn, subscribed, hostAt, advFailed>>
        BY <1>1, <1>14 DEF Terminate, Drop, PeripheralShape
    <3>2. radio.links \ {conn} = {} /\ radio.asked \ {conn} = {}
        BY <1>1, <1>14 DEF OneHost
    <3>3. QED
        BY <1>1, <3>1, <3>2 DEF PeripheralShape
  <2>2. bleEvents' \in Seq(BleEvents) /\ LinkTold' /\ AskTold' /\ In(bleEvents', Wakes)
      BY <1>1, <2>1, LeavingIsTold DEF PeripheralShape
  <2>3. PeripheralShape'
      BY <1>1, <2>1, <2>2 DEF PeripheralShape
  <2>4. OneHost'
      BY <1>1, <2>1, <2>2 DEF OneHost, PeripheralShape
  <2>5. MainTask'
      BY <1>1, <2>1, <2>2 DEF MainTask, PeripheralShape
  <2>6. SomeoneWill'
      BY <1>1, <2>1, <2>2 DEF SomeoneWill, MainTask, OneHost, PeripheralShape
  <2>7. QED
      BY <2>2, <2>3, <2>4, <2>5, <2>6 DEF PeripheralInv
<1>15. CASE Leaves
  <2>1. /\ \E h \in Handles : bleEvents' = Append(bleEvents, [type |-> "disconnect", handle |-> h])
        /\ radio' = [radio EXCEPT !.links = {}, !.asked = {}]
        /\ radio'.links = {} /\ radio'.asked = {}
        /\ UNCHANGED bleAt /\ UNCHANGED <<wantBle, enabled, synced, conn, subscribed, hostAt, advFailed>>
    <3>1. PICK h \in radio.links : radio' = [radio EXCEPT !.links = @ \ {h}, !.asked = @ \ {h}] /\ h \in Handles
          /\ bleEvents' = Append(bleEvents, [type |-> "disconnect", handle |-> h])
          /\ UNCHANGED bleAt /\ UNCHANGED <<wantBle, enabled, synced, conn, subscribed, hostAt, advFailed>>
        BY <1>1, <1>15 DEF Leaves, Drop, PeripheralShape
    <3>2. radio.links \ {h} = {} /\ radio.asked \ {h} = {}
        BY <1>1, <3>1 DEF OneHost
    <3>3. QED
        BY <1>1, <3>1, <3>2 DEF PeripheralShape
  <2>2. bleEvents' \in Seq(BleEvents) /\ LinkTold' /\ AskTold' /\ In(bleEvents', Wakes)
      BY <1>1, <2>1, LeavingIsTold DEF PeripheralShape
  <2>3. PeripheralShape'
      BY <1>1, <2>1, <2>2 DEF PeripheralShape
  <2>4. OneHost'
      BY <1>1, <2>1, <2>2 DEF OneHost, PeripheralShape
  <2>5. MainTask'
      BY <1>1, <2>1, <2>2 DEF MainTask, PeripheralShape
  <2>6. SomeoneWill'
      BY <1>1, <2>1, <2>2 DEF SomeoneWill, MainTask, OneHost, PeripheralShape
  <2>7. QED
      BY <2>2, <2>3, <2>4, <2>5, <2>6 DEF PeripheralInv
<1>16. CASE Reset /\ radio.links = {}
  <2>1. /\ UNCHANGED <<bleEvents, bleAt>> /\ UNCHANGED <<wantBle, enabled, synced, conn, subscribed, hostAt, advFailed>>
        /\ radio' = [up |-> FALSE, adv |-> FALSE, links |-> {}, asked |-> {}]
    <3>1. PICK gone \in [1 .. 0 -> radio.links] :
            bleEvents' = bleEvents \o [i \in DOMAIN gone |-> [type |-> "disconnect", handle |-> gone[i]]]
        BY <1>16 DEF Reset
    <3>2. [i \in DOMAIN gone |-> [type |-> "disconnect", handle |-> gone[i]]] = <<>>
        OBVIOUS
    <3>3. bleEvents' = bleEvents
        BY <1>1, <3>1, <3>2 DEF PeripheralShape
    <3>4. QED
        BY <1>16, <3>3 DEF Reset
  <2>2. radio.asked = {}
      BY <1>1, <1>16 DEF OneHost
  <2>3. PeripheralShape'
      BY <1>1, <2>1 DEF PeripheralShape
  <2>4. OneHost'
      BY <1>1, <2>1 DEF OneHost, PeripheralShape
  <2>5. MainTask'
      BY <1>1, <2>1 DEF MainTask, PeripheralShape
  <2>6. SomeoneWill'
      BY <1>1, <2>1 DEF SomeoneWill, MainTask, OneHost, PeripheralShape
  <2>7. LinkTold' /\ AskTold'
      BY <1>1, <1>16, <2>1, <2>2 DEF LinkTold, AskTold
  <2>8. QED
      BY <2>3, <2>4, <2>5, <2>6, <2>7 DEF PeripheralInv
<1>17. CASE Reset /\ radio.links # {}
  <2>1. /\ \E h \in Handles : bleEvents' = Append(bleEvents, [type |-> "disconnect", handle |-> h])
        /\ radio' = [up |-> FALSE, adv |-> FALSE, links |-> {}, asked |-> {}]
        /\ radio'.links = {} /\ radio'.asked = {}
        /\ UNCHANGED bleAt /\ UNCHANGED <<wantBle, enabled, synced, conn, subscribed, hostAt, advFailed>>
    <3>1. PICK gone \in [1 .. 1 -> radio.links] :
            bleEvents' = bleEvents \o [i \in DOMAIN gone |-> [type |-> "disconnect", handle |-> gone[i]]]
        BY <1>17 DEF Reset
    <3>2. gone[1] \in Handles
        BY <1>1 DEF PeripheralShape
    <3>3. [i \in DOMAIN gone |-> [type |-> "disconnect", handle |-> gone[i]]]
              = <<[type |-> "disconnect", handle |-> gone[1]]>>
        OBVIOUS
    <3>4. bleEvents' = Append(bleEvents, [type |-> "disconnect", handle |-> gone[1]])
        BY <1>1, <3>1, <3>3 DEF PeripheralShape
    <3>5. QED
        BY <1>17, <3>2, <3>4 DEF Reset
  <2>2. bleEvents' \in Seq(BleEvents) /\ LinkTold' /\ AskTold' /\ In(bleEvents', Wakes)
      BY <1>1, <2>1, LeavingIsTold DEF PeripheralShape
  <2>3. PeripheralShape'
      BY <1>1, <2>1, <2>2 DEF PeripheralShape
  <2>4. OneHost'
      BY <1>1, <2>1, <2>2 DEF OneHost, PeripheralShape
  <2>5. MainTask'
      BY <1>1, <2>1, <2>2 DEF MainTask, PeripheralShape
  <2>6. SomeoneWill'
      BY <1>1, <2>1, <2>2 DEF SomeoneWill, MainTask, OneHost, PeripheralShape
  <2>7. QED
      BY <2>2, <2>3, <2>4, <2>5, <2>6 DEF PeripheralInv
<1>18. CASE Connects
  <2>1. PICK h \in Handles \cup {NoConn} :
          /\ bleEvents' = Append(bleEvents, [type |-> "connect", handle |-> h])
          /\ radio' = [radio EXCEPT !.adv = FALSE, !.links = {h} \ {NoConn}]
          /\ radio.links = {} /\ radio.adv /\ UNCHANGED bleAt /\ UNCHANGED <<wantBle, enabled, synced, conn, subscribed, hostAt, advFailed>>
      BY <1>18 DEF Connects
  <2> DEFINE e == [type |-> "connect", handle |-> h]
  <2>2. /\ e \in BleEvents /\ e \in Came \cup Failed /\ (e \in Came <=> h \in Handles)
        /\ (e \in Failed <=> h = NoConn) /\ e \notin Asked \cup Left
      BY EventKinds, KindsApart, PeripheralAssumption DEF BleEvents
  <2>3. bleEvents' = Append(bleEvents, e) /\ radio.asked = {}
      BY <1>1, <2>1 DEF OneHost
  <2> HIDE DEF e
  <2>4. radio'.links = {h} \ {NoConn} /\ radio'.asked = {} /\ bleEvents \in Seq(BleEvents)
        /\ radio'.up = radio.up /\ radio.up
      BY <1>1, <2>1, <2>3 DEF PeripheralShape, OneHost
  <2>5. bleEvents' \in Seq(BleEvents)
      BY <2>2, <2>3, <2>4, QueueGrows
  <2>6. LinkTold'
    <3>1. CASE h = NoConn
      <4>1. radio'.links = radio.links /\ UNCHANGED conn /\ e \notin Came \cup Left
          BY <2>1, <2>2, <2>4, <3>1, PeripheralAssumption
      <4>2. QED
          BY <1>1, <2>2, <2>3, <2>4, <4>1, TellsStays DEF LinkTold
    <3>2. CASE h # NoConn
        BY <1>1, <2>2, <2>3, <2>4, <3>2, TellsGrows DEF LinkTold
    <3>3. QED
        BY <3>1, <3>2
  <2>7. AskTold'
    <3>1. radio'.asked = radio.asked /\ UNCHANGED <<conn, subscribed>>
        BY <2>1, <2>3, <2>4
    <3>2. Tells(bleEvents', Asked \cup Left, Wanted, {c \in {conn} : subscribed}, radio.asked)
        BY <1>1, <2>2, <2>3, <2>4, TellsStays DEF AskTold
    <3>3. QED
        BY <3>1, <3>2 DEF AskTold
  <2>8. PeripheralShape'
      BY <1>1, <2>1, <2>5 DEF PeripheralShape
  <2>9. OneHost'
      BY <1>1, <2>1, <2>4 DEF OneHost, PeripheralShape
  <2>10. MainTask'
      BY <1>1, <2>1, <2>4 DEF MainTask
  <2>11. SomeoneWill'
    <3>1. CASE h = NoConn
        BY <2>2, <2>3, <2>4, <3>1, InGrows DEF SomeoneWill, Wakes
    <3>2. CASE h # NoConn
        BY <2>4, <3>2 DEF SomeoneWill
    <3>3. QED
        BY <3>1, <3>2
  <2>12. QED
      BY <2>6, <2>7, <2>8, <2>9, <2>10, <2>11 DEF PeripheralInv
<1>19. CASE Subscribes
  <2>1. PICK h \in radio.links :
          /\ bleEvents' = Append(bleEvents, [type |-> "subscribe", notify |-> h \notin radio.asked])
          /\ radio' = [radio EXCEPT !.asked = IF h \in @ THEN @ \ {h} ELSE @ \cup {h}]
          /\ UNCHANGED bleAt /\ UNCHANGED <<wantBle, enabled, synced, conn, subscribed, hostAt, advFailed>>
      BY <1>19 DEF Subscribes
  <2> DEFINE e == [type |-> "subscribe", notify |-> h \notin radio.asked]
  <2>2. /\ e \in BleEvents /\ e \in Asked /\ (e \in Wanted <=> h \notin radio.asked) /\ e \notin Came \cup Left
    <3>1. (h \notin radio.asked) \in BOOLEAN
        OBVIOUS
    <3>2. e \in Asked /\ (e \in Wanted <=> h \notin radio.asked)
        BY <3>1, EventKinds
    <3>3. QED
        BY <3>2, KindsApart DEF BleEvents
  <2>3. bleEvents' = Append(bleEvents, e)
      BY <2>1
  <2> HIDE DEF e
  <2>4. /\ radio'.links = radio.links /\ radio'.asked = (IF h \in radio.asked THEN {} ELSE {h})
        /\ radio' \in [up : BOOLEAN, adv : BOOLEAN, links : SUBSET Handles, asked : SUBSET Handles] /\ bleEvents \in Seq(BleEvents) /\ radio.links # {}
        /\ radio'.up = radio.up /\ radio'.adv = radio.adv
    <3>1. radio.asked \ {h} = {} /\ h \in Handles
        BY <1>1 DEF OneHost, PeripheralShape
    <3>2. QED
        BY <1>1, <2>1, <3>1 DEF PeripheralShape
  <2>5. bleEvents' \in Seq(BleEvents)
      BY <2>2, <2>3, <2>4, QueueGrows
  <2>6. LinkTold'
      BY <1>1, <2>1, <2>2, <2>3, <2>4, TellsStays DEF LinkTold
  <2>7. AskTold'
      BY <1>1, <2>2, <2>3, <2>4, TellsGrows DEF AskTold
  <2>8. PeripheralShape'
      BY <1>1, <2>1, <2>4, <2>5 DEF PeripheralShape
  <2>9. OneHost'
      BY <1>1, <2>4 DEF OneHost
  <2>10. MainTask' /\ SomeoneWill'
      BY <1>1, <2>1, <2>4 DEF MainTask, SomeoneWill
  <2>11. QED
      BY <2>6, <2>7, <2>8, <2>9, <2>10 DEF PeripheralInv
<1>20. CASE AdvEvent
  <2> DEFINE e == Head(bleEvents)
  <2>1. /\ hostAt = "wait" /\ bleEvents # <<>> /\ bleEvents' = Tail(bleEvents)
        /\ OnConnect(e) \/ OnDisconnect(e) \/ OnSubscribe(e)
        /\ UNCHANGED <<wantBle, enabled, synced, bleAt, radio, advFailed>>
      BY <1>20 DEF AdvEvent
  <2>2. e \in BleEvents /\ bleEvents \in Seq(BleEvents) /\ bleEvents' \in Seq(BleEvents)
      BY <1>1, <2>1, QueueShrinks DEF PeripheralShape
  <2> HIDE DEF e
  <2>3. /\ e \in Came => conn' \in Handles /\ UNCHANGED <<subscribed, hostAt>>
        /\ e \in Failed => hostAt' = "asks" /\ UNCHANGED <<conn, subscribed>>
        /\ e \in Left => conn' = NoConn /\ subscribed' = FALSE /\ hostAt' = "asks"
        /\ e \in Asked => UNCHANGED <<conn, hostAt>> /\ subscribed' \in BOOLEAN /\ (subscribed' <=> e \in Wanted)
    <3>1. ASSUME e \in Came PROVE conn' \in Handles /\ UNCHANGED <<subscribed, hostAt>>
      <4>1. e.type = "connect" /\ e.handle \in Handles /\ e.handle # NoConn
          BY <3>1, EventKinds, PeripheralAssumption
      <4>2. QED
          BY <2>1, <4>1 DEF OnConnect, OnDisconnect, OnSubscribe
    <3>2. ASSUME e \in Failed PROVE hostAt' = "asks" /\ UNCHANGED <<conn, subscribed>>
      <4>1. e.type = "connect" /\ e.handle = NoConn
          BY <3>2, EventKinds
      <4>2. QED
          BY <2>1, <4>1 DEF OnConnect, OnDisconnect, OnSubscribe
    <3>3. ASSUME e \in Left PROVE conn' = NoConn /\ subscribed' = FALSE /\ hostAt' = "asks"
      <4>1. e.type = "disconnect"
          BY <3>3, EventKinds
      <4>2. QED
          BY <2>1, <4>1 DEF OnConnect, OnDisconnect, OnSubscribe
    <3>4. ASSUME e \in Asked
          PROVE  UNCHANGED <<conn, hostAt>> /\ subscribed' \in BOOLEAN /\ (subscribed' <=> e \in Wanted)
      <4>1. e.type = "subscribe" /\ e.notify \in BOOLEAN /\ (e \in Wanted <=> e.notify)
          BY <3>4, EventKinds
      <4>2. UNCHANGED <<conn, hostAt>> /\ subscribed' = e.notify
          BY <2>1, <4>1 DEF OnConnect, OnDisconnect, OnSubscribe
      <4>3. QED
          BY <4>1, <4>2
    <3>5. QED
        BY <3>1, <3>2, <3>3, <3>4
  <2>4. e \in Came \/ e \in Failed \/ e \in Left \/ e \in Asked
      BY <2>2 DEF BleEvents
  <2>5. /\ e \in Came => e \notin Failed \cup Left \cup Asked \cup Wanted
        /\ e \in Failed => e \notin Came \cup Left \cup Asked \cup Wanted
        /\ e \in Left => e \notin Came \cup Failed \cup Asked \cup Wanted
        /\ e \in Asked => e \notin Came \cup Failed \cup Left
      BY <2>2, KindsApart
  <2>6. PeripheralShape'
      BY <1>1, <2>1, <2>2, <2>3, <2>4 DEF PeripheralShape
  <2>7. LinkTold'
    <3>1. e \notin Came \cup Left => {conn'} \ {NoConn} = {conn} \ {NoConn}
        BY <2>3, <2>4
    <3>2. e \in Came \cup Left => (e \in Came <=> {conn'} \ {NoConn} # {})
        BY <2>3, <2>5, PeripheralAssumption
    <3>3. QED
        BY <1>1, <2>1, <2>2, <3>1, <3>2, TellsShrinks DEF LinkTold, e
  <2>8. AskTold'
    <3> DEFINE was == {c \in {conn} : subscribed}
               is == {c \in {conn'} : subscribed'}
    <3>1. e \in Asked \cup Left => (e \in Wanted <=> is # {})
        BY <2>3, <2>5
    <3>2. CASE e \in Asked \cup Left
      <4>1. Head(bleEvents) \notin Asked \cup Left => is = was
          BY <3>2 DEF e
      <4>2. Head(bleEvents) \in Asked \cup Left => (Head(bleEvents) \in Wanted <=> is # {})
          BY <3>1 DEF e
      <4>3. Tells(bleEvents, Asked \cup Left, Wanted, was, radio.asked)
          BY <1>1 DEF AskTold
      <4> HIDE DEF was, is
      <4>4. Tells(Tail(bleEvents), Asked \cup Left, Wanted, is, radio.asked)
          BY <2>1, <2>2, <4>1, <4>2, <4>3, TellsShrinks
      <4>5. QED
          BY <2>1, <4>4 DEF AskTold, is
    <3>3. CASE e \notin Asked \cup Left
      <4>1. In(bleEvents', Asked \cup Left) <=> In(bleEvents, Asked \cup Left)
          BY <2>1, <2>2, <3>3, InShrinks DEF e
      <4>2. is = {} <=> was = {}
          BY <2>3, <2>4, <3>3
      <4>3. Tells(bleEvents, Asked \cup Left, Wanted, was, radio.asked)
          BY <1>1 DEF AskTold
      <4> HIDE DEF was, is
      <4>4. Tells(bleEvents, Asked \cup Left, Wanted, is, radio.asked)
          BY <4>2, <4>3 DEF Tells
      <4>5. Tells(Tail(bleEvents), Asked \cup Left, Wanted, is, radio.asked)
          BY <2>1, <2>2, <3>3, <4>4, TellsShrinks DEF e
      <4>6. QED
          BY <2>1, <4>5 DEF AskTold, is
    <3>4. QED
        BY <3>2, <3>3
  <2>9. OneHost'
      BY <1>1, <2>1 DEF OneHost
  <2>10. MainTask'
      BY <1>1, <2>1 DEF MainTask
  <2>11. SomeoneWill'
    <3>1. In(bleEvents, Wakes) <=> In(bleEvents', Wakes) \/ e \in Wakes
        BY <2>1, <2>2, InShrinks DEF e
    <3>2. e \in Wakes => hostAt' = "asks"
        BY <2>3 DEF Wakes
    <3>3. QED
        BY <1>1, <2>1, <3>1, <3>2 DEF SomeoneWill
  <2>12. QED
      BY <2>6, <2>7, <2>8, <2>9, <2>10, <2>11 DEF PeripheralInv
<1>21. CASE Terminate
    BY <1>13, <1>14, <1>21
<1>22. CASE Reset
    BY <1>16, <1>17, <1>22
<1>23. QED
    BY <1>2, <1>3, <1>4, <1>5, <1>6, <1>7, <1>8, <1>9, <1>10, <1>11, <1>12, <1>15, <1>18, <1>19,
       <1>20, <1>21, <1>22
       DEF PeripheralNext, MainSteps, HostSteps

\* A deck that sends over BLE can be found or has its host, and knows which
\* (blemidi.c), whatever the two tasks and the hosts do when.
THEOREM DeckIsFound == PeripheralSpec => []PeripheralKept
<1>1. PeripheralInv => PeripheralKept
  <2> SUFFICES ASSUME PeripheralInv PROVE PeripheralKept
      OBVIOUS
  <2>1. PeripheralShape /\ OneHost /\ LinkTold /\ AskTold /\ SomeoneWill
      BY DEF PeripheralInv
  <2>2. bleEvents = <<>> => \A K : ~In(bleEvents, K)
      BY DEF In
  <2>3. AlwaysHeard
      BY <2>1, <2>2 DEF AlwaysHeard, AtRest, SomeoneWill
  <2>4. DeckKnowsItsHost
    <3>1. ASSUME bleEvents = <<>> PROVE (conn # NoConn /\ subscribed) <=> radio.asked # {}
      <4>1. {conn} \ {NoConn} = {} <=> radio.links = {}
          BY <2>1, <2>2, <3>1 DEF LinkTold, Tells
      <4>2. {c \in {conn} : subscribed} = {} <=> radio.asked = {}
          BY <2>1, <2>2, <3>1 DEF AskTold, Tells
      <4>3. QED
          BY <2>1, <4>1, <4>2 DEF OneHost
    <3>2. QED
        BY <3>1 DEF DeckKnowsItsHost
  <2>5. QED
      BY <2>3, <2>4 DEF PeripheralKept
<1>2. QED
    BY <1>1, PeripheralStarts, PeripheralSteps, PTL DEF PeripheralSpec

-----------------------------------------------------------------------------
WifiSpec == WifiInit /\ [][WifiNext]_wifiVars

Credentials == [ssid : Names \cup {None}, pass : Secrets \cup {None}]
EventTypes == {"disconnected", "got ip"}
NetSteps == {"boot", "idle", "join", "host", "stop", "rejoin", "rehost", "cleared",
             "cleared sta", "cleared ap", "sta", "ap", "connect", "hosts"}
Questions == [active : BOOLEAN, label : Names \cup {None}, fn : {"none", "wifi", "host"},
              buf : Secrets \cup {None}, page : BOOLEAN]
Places == [at : NetSteps, net : Names \cup {None}, pass : Secrets \cup {None}]
Radios == [run : BOOLEAN, mode : {"sta", "ap"}, net : Names \cup {None},
           sta : {"idle", "tries", "joined", "leased"}]
WifiShape ==
    /\ {started, on, joined, hosting} \subseteq BOOLEAN
    /\ nvs \in Credentials /\ typed \in Credentials
    /\ netName \in Names \cup {None}
    /\ ask \in Questions /\ netAt \in Places /\ wifi \in Radios
    /\ wifiEvents \in Seq(EventTypes) /\ handlerAt \in {"wait", "connect"}

\* What was typed is remembered, or is the join about to be taken.
ToldOrTaken ==
    IF netAt.at = "join" THEN typed = [ssid |-> netAt.net, pass |-> netAt.pass]
    ELSE nvs = typed

\* The events still to be handled will leave s_joined at what is so.
LastEventTells ==
    /\ wifiEvents = <<>> => (joined <=> wifi.sta = "leased")
    /\ wifiEvents # <<>> => (wifiEvents[Len(wifiEvents)] = "got ip" <=> wifi.sta = "leased")

\* A station that looks for nothing is about to be told to.
WillLook ==
    wifi.run /\ wifi.mode = "sta" /\ wifi.sta = "idle" =>
        \/ netAt.at = "connect"
        \/ handlerAt = "connect"
        \/ \E i \in 1 .. Len(wifiEvents) : wifiEvents[i] = "disconnected"

\* The flags follow the radio, but for what the command in hand has yet to do.
OnlyAStation == wifi.sta # "idle" => wifi.run /\ wifi.mode = "sta"
FlagsFollow ==
    /\ on <=> wifi.run
    /\ hosting <=> (wifi.run /\ wifi.mode = "ap")
    /\ wifi.run => wifi.net = ssid
Dark == ~wifi.run /\ wifi.sta = "idle"
CommandSoFar ==
    /\ netAt.at \in {"idle", "boot", "join", "host"} => FlagsFollow
    /\ netAt.at \in {"cleared sta", "cleared ap", "cleared"} => Dark
    /\ netAt.at \in {"rejoin", "rehost", "cleared sta", "cleared ap"} => ssid = netAt.net
    /\ netAt.at \in {"sta", "ap"} => Dark /\ ~on /\ ~hosting /\ ssid = netAt.net
    /\ netAt.at \in {"connect", "hosts"} =>
           /\ wifi.run /\ wifi.net = netAt.net /\ ssid = netAt.net /\ ~on /\ ~hosting
           /\ wifi.mode = IF netAt.at = "hosts" THEN "ap" ELSE "sta"

WifiInv == WifiShape /\ ToldOrTaken /\ LastEventTells /\ WillLook /\ OnlyAStation /\ CommandSoFar

\* The last event of a queue that grew.
LEMMA LastGrows ==
    ASSUME NEW S, NEW s \in Seq(S), NEW e \in S
    PROVE  Append(s, e) # <<>> /\ Append(s, e)[Len(Append(s, e))] = e
    BY QueueGrows

\* The last event of a queue that lost its head.
LEMMA LastShrinks ==
    ASSUME NEW S, NEW s \in Seq(S), s # <<>>
    PROVE  /\ Tail(s) = <<>> => s[Len(s)] = Head(s)
           /\ Tail(s) # <<>> => Tail(s)[Len(Tail(s))] = s[Len(s)]
<1>1. CASE Tail(s) = <<>>
    BY <1>1, QueueShrinks
<1>2. CASE Tail(s) # <<>>
  <2>1. Len(s) \in Nat \ {0, 1} /\ Len(Tail(s)) = Len(s) - 1
    BY <1>2, QueueShrinks
  <2>2. Len(s) - 1 \in 1 .. Len(s) - 1 /\ (Len(s) - 1) + 1 = Len(s)
    BY <2>1
  <2>3. Tail(s)[Len(s) - 1] = s[(Len(s) - 1) + 1]
    BY <2>2, QueueShrinks
  <2>4. QED
    BY <1>2, <2>1, <2>2, <2>3
<1>3. QED
    BY <1>1, <1>2

\* At the start, and after a loss of power, the radio is off.
LEMMA WifiStarts == WifiInit => WifiInv
<1> SUFFICES ASSUME WifiInit PROVE WifiInv
    OBVIOUS
<1>1. WifiShape
  <2>1. wifiEvents \in Seq(EventTypes)
    BY DEF WifiInit
  <2>2. nvs \in Credentials /\ typed \in Credentials
    BY DEF WifiInit, Credentials, NotTold
  <2>3. ask \in Questions
    BY DEF WifiInit, NoAsk, Questions
  <2>4. netAt \in Places
    BY DEF WifiInit, Rest, Places, NetSteps
  <2>5. wifi \in Radios
    BY DEF WifiInit, Stopped, Radios
  <2>6. QED
    BY <2>1, <2>2, <2>3, <2>4, <2>5 DEF WifiInit, WifiShape
<1>2. ToldOrTaken /\ LastEventTells /\ WillLook /\ OnlyAStation
    BY DEF WifiInit, ToldOrTaken, LastEventTells, WillLook, OnlyAStation,
           NotTold, Rest, Stopped
<1>3. CommandSoFar
    BY DEF WifiInit, CommandSoFar, FlagsFollow, Rest, Stopped
<1>4. QED
    BY <1>1, <1>2, <1>3 DEF WifiInv

\* What a step may do to the events and to s_joined.
LEMMA EventsLeft ==
    ASSUME LastEventTells, UNCHANGED <<wifiEvents, joined>>,
           wifi'.sta = "leased" <=> wifi.sta = "leased"
    PROVE  LastEventTells'
    BY DEF LastEventTells

\* The flag is cleared while the station has no address.
LEMMA FlagCleared ==
    ASSUME LastEventTells, UNCHANGED wifiEvents, joined' = FALSE,
           wifi'.sta # "leased", wifi.sta # "leased"
    PROVE  LastEventTells'
    BY DEF LastEventTells

\* The driver says what has just become so.
LEMMA EventComes ==
    ASSUME wifiEvents \in Seq(EventTypes), NEW e \in EventTypes,
           wifiEvents' = Append(wifiEvents, e), e = "got ip" <=> wifi'.sta = "leased"
    PROVE  LastEventTells'
    BY LastGrows DEF LastEventTells

\* An event is handled: s_joined becomes what it says.
LEMMA EventHandled ==
    ASSUME wifiEvents \in Seq(EventTypes), LastEventTells,
           wifiEvents # <<>>, wifiEvents' = Tail(wifiEvents), UNCHANGED wifi,
           joined' <=> Head(wifiEvents) = "got ip"
    PROVE  LastEventTells'
    BY LastShrinks DEF LastEventTells

LossIn(s) == \E i \in 1 .. Len(s) : s[i] = "disconnected"
\* A loss in a queue that grew.
LEMMA LostGrows ==
    ASSUME NEW s \in Seq(EventTypes), NEW e \in EventTypes
    PROVE  LossIn(Append(s, e)) <=> LossIn(s) \/ e = "disconnected"
    BY QueueGrows DEF LossIn

\* A loss in a queue whose head is handled.
LEMMA LostShrinks ==
    ASSUME NEW s \in Seq(EventTypes), s # <<>>, LossIn(s)
    PROVE  LossIn(Tail(s)) \/ Head(s) = "disconnected"
<1>1. PICK i \in 1 .. Len(s) : s[i] = "disconnected"
    BY DEF LossIn
<1>2. CASE i = 1
    BY <1>1, <1>2, QueueShrinks
<1>3. CASE i # 1
  <2>1. i - 1 \in 1 .. Len(s) - 1 /\ Tail(s)[i - 1] = s[i]
    BY <1>3, QueueShrinks
  <2>2. QED
    BY <1>1, <2>1, QueueShrinks DEF LossIn
<1>4. QED
    BY <1>2, <1>3

\* The two events there are.
LEMMA WifiEventKinds == "got ip" \in EventTypes /\ "disconnected" \in EventTypes
    BY DEF EventTypes

\* Every step of the commands, the event task and the world keeps the link.
LEMMA WifiSteps == WifiInv /\ [WifiNext]_wifiVars => WifiInv'
<1> SUFFICES ASSUME WifiInv, [WifiNext]_wifiVars PROVE WifiInv'
    OBVIOUS
<1>1. WifiShape /\ ToldOrTaken /\ LastEventTells /\ WillLook /\ OnlyAStation /\ CommandSoFar
    BY DEF WifiInv
<1>2. CASE Rejoin /\ nvs.ssid = None
  <2>0. /\ netAt' = [at |-> "idle", net |-> None, pass |-> None] /\ netAt'.at = "idle"
        /\ netAt.at = "boot"
        /\ UNCHANGED <<started, on, joined, hosting, ssid, nvs, typed, wifi, wifiEvents, handlerAt>>
      BY <1>2 DEF Rejoin, NetEnds, wifiVars, saidVars, radioVars, askVars, ghosts, counts
  <2>1. WifiShape'
    <3>5. (netAt \in Places)'
        BY <1>1, <2>0 DEF WifiShape, Places, NetSteps, Credentials
    <3>8. QED
        BY <1>1, <1>2, <3>5 DEF WifiShape, Rejoin, NetEnds, wifiVars, saidVars, radioVars,
               askVars, ghosts, counts
  <2>2. ToldOrTaken'
      BY <1>1, <1>2 DEF ToldOrTaken, WifiShape, Places, Radios, Credentials, Rejoin, NetEnds,
             wifiVars, saidVars, radioVars, askVars, ghosts, counts
  <2>3. LastEventTells'
      BY <1>1, <1>2, EventsLeft DEF OnlyAStation, CommandSoFar, Dark, WifiShape, Places, Radios,
             Rejoin, NetEnds, wifiVars, saidVars, radioVars, askVars, ghosts, counts
  <2>4. WillLook'
      BY <1>1, <1>2 DEF WillLook, OnlyAStation, CommandSoFar, FlagsFollow, Dark, WifiShape,
             Places, Radios, Rejoin, NetEnds, wifiVars, saidVars, radioVars, askVars, ghosts,
             counts
  <2>5. OnlyAStation'
      BY <1>1, <1>2 DEF OnlyAStation, CommandSoFar, Dark, WifiShape, Places, Radios, Rejoin,
             NetEnds, wifiVars, saidVars, radioVars, askVars, ghosts, counts
  <2>6. CommandSoFar'
      BY <1>1, <2>0 DEF CommandSoFar, FlagsFollow
  <2>7. QED
      BY <2>1, <2>2, <2>3, <2>4, <2>5, <2>6 DEF WifiInv
<1>3. CASE Rejoin /\ nvs.ssid # None
  <2>0. /\ netAt' = [at |-> "join", net |-> nvs.ssid, pass |-> nvs.pass] /\ netAt'.at = "join"
        /\ netAt.at = "boot"
        /\ UNCHANGED <<started, on, joined, hosting, ssid, nvs, typed, wifi, wifiEvents, handlerAt>>
      BY <1>3 DEF Rejoin, NetEnds, wifiVars, saidVars, radioVars, askVars, ghosts, counts
  <2>1. WifiShape'
    <3>5. (netAt \in Places)'
        BY <1>1, <2>0 DEF WifiShape, Places, NetSteps, Credentials
    <3>8. QED
        BY <1>1, <1>3, <3>5 DEF WifiShape, Rejoin, NetEnds, wifiVars, saidVars, radioVars,
               askVars, ghosts, counts
  <2>2. ToldOrTaken'
      BY <1>1, <1>3 DEF ToldOrTaken, WifiShape, Places, Radios, Credentials, Rejoin, NetEnds,
             wifiVars, saidVars, radioVars, askVars, ghosts, counts
  <2>3. LastEventTells'
      BY <1>1, <1>3, EventsLeft DEF OnlyAStation, CommandSoFar, Dark, WifiShape, Places, Radios,
             Rejoin, NetEnds, wifiVars, saidVars, radioVars, askVars, ghosts, counts
  <2>4. WillLook'
      BY <1>1, <1>3 DEF WillLook, OnlyAStation, CommandSoFar, FlagsFollow, Dark, WifiShape,
             Places, Radios, Rejoin, NetEnds, wifiVars, saidVars, radioVars, askVars, ghosts,
             counts
  <2>5. OnlyAStation'
      BY <1>1, <1>3 DEF OnlyAStation, CommandSoFar, Dark, WifiShape, Places, Radios, Rejoin,
             NetEnds, wifiVars, saidVars, radioVars, askVars, ghosts, counts
  <2>6. CommandSoFar'
      BY <1>1, <2>0 DEF CommandSoFar, FlagsFollow
  <2>7. QED
      BY <2>1, <2>2, <2>3, <2>4, <2>5, <2>6 DEF WifiInv
<1>4. CASE NetName
  <2>1. WifiShape'
    <3>4. (ask \in Questions)'
        BY <1>1, <1>4 DEF WifiShape, NetName, Command, wifiVars, saidVars, radioVars, askVars,
               ghosts, counts, Questions
    <3>8. QED
        BY <1>1, <1>4, <3>4 DEF WifiShape, NetName, Command, wifiVars, saidVars, radioVars,
               askVars, ghosts, counts
  <2>2. ToldOrTaken'
      BY <1>1, <1>4 DEF ToldOrTaken, WifiShape, Places, Radios, Credentials, NetName, Command,
             wifiVars, saidVars, radioVars, askVars, ghosts, counts
  <2>3. LastEventTells'
      BY <1>1, <1>4, EventsLeft DEF OnlyAStation, CommandSoFar, Dark, WifiShape, Places, Radios,
             NetName, Command, wifiVars, saidVars, radioVars, askVars, ghosts, counts
  <2>4. WillLook'
      BY <1>1, <1>4 DEF WillLook, OnlyAStation, CommandSoFar, FlagsFollow, Dark, WifiShape,
             Places, Radios, NetName, Command, wifiVars, saidVars, radioVars, askVars, ghosts,
             counts
  <2>5. OnlyAStation'
      BY <1>1, <1>4 DEF OnlyAStation, CommandSoFar, Dark, WifiShape, Places, Radios, NetName,
             Command, wifiVars, saidVars, radioVars, askVars, ghosts, counts
  <2>6. CommandSoFar'
    <3>1. (netAt.at \in {"idle", "boot", "join", "host"} => FlagsFollow)'
        BY <1>1, <1>4 DEF CommandSoFar, FlagsFollow, OnlyAStation, Dark, WifiShape, Places,
               Radios, NetName, Command, wifiVars, saidVars, radioVars, askVars, ghosts, counts
    <3>2. (netAt.at \in {"cleared sta", "cleared ap", "cleared"} => Dark)'
        BY <1>1, <1>4 DEF CommandSoFar, FlagsFollow, OnlyAStation, Dark, WifiShape, Places,
               Radios, NetName, Command, wifiVars, saidVars, radioVars, askVars, ghosts, counts
    <3>3. (netAt.at \in {"rejoin", "rehost", "cleared sta", "cleared ap"} => ssid = netAt.net)'
        BY <1>1, <1>4 DEF CommandSoFar, FlagsFollow, OnlyAStation, Dark, WifiShape, Places,
               Radios, NetName, Command, wifiVars, saidVars, radioVars, askVars, ghosts, counts
    <3>4. (netAt.at \in {"sta", "ap"} => Dark /\ ~on /\ ~hosting /\ ssid = netAt.net)'
        BY <1>1, <1>4 DEF CommandSoFar, FlagsFollow, OnlyAStation, Dark, WifiShape, Places,
               Radios, NetName, Command, wifiVars, saidVars, radioVars, askVars, ghosts, counts
    <3>5. (netAt.at \in {"connect", "hosts"} =>
           /\ wifi.run /\ wifi.net = netAt.net /\ ssid = netAt.net /\ ~on /\ ~hosting
           /\ wifi.mode = IF netAt.at = "hosts" THEN "ap" ELSE "sta")'
        BY <1>1, <1>4 DEF CommandSoFar, FlagsFollow, OnlyAStation, Dark, WifiShape, Places,
               Radios, NetName, Command, wifiVars, saidVars, radioVars, askVars, ghosts, counts
    <3>6. QED
        BY <3>1, <3>2, <3>3, <3>4, <3>5 DEF CommandSoFar
  <2>7. QED
      BY <2>1, <2>2, <2>3, <2>4, <2>5, <2>6 DEF WifiInv
<1>5. CASE AskKey
  <2>1. WifiShape'
    <3>4. (ask \in Questions)'
        BY <1>1, <1>5 DEF WifiShape, AskKey, wifiVars, saidVars, radioVars, askVars, ghosts,
               counts, Questions
    <3>8. QED
        BY <1>1, <1>5, <3>4 DEF WifiShape, AskKey, wifiVars, saidVars, radioVars, askVars,
               ghosts, counts
  <2>2. ToldOrTaken'
      BY <1>1, <1>5 DEF ToldOrTaken, WifiShape, Places, Radios, Credentials, AskKey, wifiVars,
             saidVars, radioVars, askVars, ghosts, counts
  <2>3. LastEventTells'
      BY <1>1, <1>5, EventsLeft DEF OnlyAStation, CommandSoFar, Dark, WifiShape, Places, Radios,
             AskKey, wifiVars, saidVars, radioVars, askVars, ghosts, counts
  <2>4. WillLook'
      BY <1>1, <1>5 DEF WillLook, OnlyAStation, CommandSoFar, FlagsFollow, Dark, WifiShape,
             Places, Radios, AskKey, wifiVars, saidVars, radioVars, askVars, ghosts, counts
  <2>5. OnlyAStation'
      BY <1>1, <1>5 DEF OnlyAStation, CommandSoFar, Dark, WifiShape, Places, Radios, AskKey,
             wifiVars, saidVars, radioVars, askVars, ghosts, counts
  <2>6. CommandSoFar'
    <3>1. (netAt.at \in {"idle", "boot", "join", "host"} => FlagsFollow)'
        BY <1>1, <1>5 DEF CommandSoFar, FlagsFollow, OnlyAStation, Dark, WifiShape, Places,
               Radios, AskKey, wifiVars, saidVars, radioVars, askVars, ghosts, counts
    <3>2. (netAt.at \in {"cleared sta", "cleared ap", "cleared"} => Dark)'
        BY <1>1, <1>5 DEF CommandSoFar, FlagsFollow, OnlyAStation, Dark, WifiShape, Places,
               Radios, AskKey, wifiVars, saidVars, radioVars, askVars, ghosts, counts
    <3>3. (netAt.at \in {"rejoin", "rehost", "cleared sta", "cleared ap"} => ssid = netAt.net)'
        BY <1>1, <1>5 DEF CommandSoFar, FlagsFollow, OnlyAStation, Dark, WifiShape, Places,
               Radios, AskKey, wifiVars, saidVars, radioVars, askVars, ghosts, counts
    <3>4. (netAt.at \in {"sta", "ap"} => Dark /\ ~on /\ ~hosting /\ ssid = netAt.net)'
        BY <1>1, <1>5 DEF CommandSoFar, FlagsFollow, OnlyAStation, Dark, WifiShape, Places,
               Radios, AskKey, wifiVars, saidVars, radioVars, askVars, ghosts, counts
    <3>5. (netAt.at \in {"connect", "hosts"} =>
           /\ wifi.run /\ wifi.net = netAt.net /\ ssid = netAt.net /\ ~on /\ ~hosting
           /\ wifi.mode = IF netAt.at = "hosts" THEN "ap" ELSE "sta")'
        BY <1>1, <1>5 DEF CommandSoFar, FlagsFollow, OnlyAStation, Dark, WifiShape, Places,
               Radios, AskKey, wifiVars, saidVars, radioVars, askVars, ghosts, counts
    <3>6. QED
        BY <3>1, <3>2, <3>3, <3>4, <3>5 DEF CommandSoFar
  <2>7. QED
      BY <2>1, <2>2, <2>3, <2>4, <2>5, <2>6 DEF WifiInv
<1>6. CASE AskEnds /\ netAt' = netAt
  <2>1. WifiShape'
    <3>2. (nvs \in Credentials /\ typed \in Credentials)'
        BY <1>1, <1>6 DEF WifiShape, AskEnds, NoAsk, wifiVars, saidVars, radioVars, askVars,
               ghosts, counts, Credentials, Questions
    <3>4. (ask \in Questions)'
        BY <1>1, <1>6 DEF WifiShape, AskEnds, NoAsk, wifiVars, saidVars, radioVars, askVars,
               ghosts, counts, Questions
    <3>5. (netAt \in Places)'
        BY <1>1, <1>6 DEF WifiShape, AskEnds, NoAsk, wifiVars, saidVars, radioVars, askVars,
               ghosts, counts, Places, NetSteps, Questions
    <3>8. QED
        BY <1>1, <1>6, <3>2, <3>4, <3>5 DEF WifiShape, AskEnds, NoAsk, wifiVars, saidVars,
               radioVars, askVars, ghosts, counts
  <2>2. ToldOrTaken'
      BY <1>1, <1>6 DEF ToldOrTaken, WifiShape, Places, Radios, Credentials, AskEnds, NoAsk,
             wifiVars, saidVars, radioVars, askVars, ghosts, counts
  <2>3. LastEventTells'
      BY <1>1, <1>6, EventsLeft DEF OnlyAStation, CommandSoFar, Dark, WifiShape, Places, Radios,
             AskEnds, NoAsk, wifiVars, saidVars, radioVars, askVars, ghosts, counts
  <2>4. WillLook'
      BY <1>1, <1>6 DEF WillLook, OnlyAStation, CommandSoFar, FlagsFollow, Dark, WifiShape,
             Places, Radios, AskEnds, NoAsk, wifiVars, saidVars, radioVars, askVars, ghosts,
             counts
  <2>5. OnlyAStation'
      BY <1>1, <1>6 DEF OnlyAStation, CommandSoFar, Dark, WifiShape, Places, Radios, AskEnds,
             NoAsk, wifiVars, saidVars, radioVars, askVars, ghosts, counts
  <2>6. CommandSoFar'
    <3>1. (netAt.at \in {"idle", "boot", "join", "host"} => FlagsFollow)'
        BY <1>1, <1>6 DEF CommandSoFar, FlagsFollow, OnlyAStation, Dark, WifiShape, Places,
               Radios, AskEnds, NoAsk, wifiVars, saidVars, radioVars, askVars, ghosts, counts
    <3>2. (netAt.at \in {"cleared sta", "cleared ap", "cleared"} => Dark)'
        BY <1>1, <1>6 DEF CommandSoFar, FlagsFollow, OnlyAStation, Dark, WifiShape, Places,
               Radios, AskEnds, NoAsk, wifiVars, saidVars, radioVars, askVars, ghosts, counts
    <3>3. (netAt.at \in {"rejoin", "rehost", "cleared sta", "cleared ap"} => ssid = netAt.net)'
        BY <1>1, <1>6 DEF CommandSoFar, FlagsFollow, OnlyAStation, Dark, WifiShape, Places,
               Radios, AskEnds, NoAsk, wifiVars, saidVars, radioVars, askVars, ghosts, counts
    <3>4. (netAt.at \in {"sta", "ap"} => Dark /\ ~on /\ ~hosting /\ ssid = netAt.net)'
        BY <1>1, <1>6 DEF CommandSoFar, FlagsFollow, OnlyAStation, Dark, WifiShape, Places,
               Radios, AskEnds, NoAsk, wifiVars, saidVars, radioVars, askVars, ghosts, counts
    <3>5. (netAt.at \in {"connect", "hosts"} =>
           /\ wifi.run /\ wifi.net = netAt.net /\ ssid = netAt.net /\ ~on /\ ~hosting
           /\ wifi.mode = IF netAt.at = "hosts" THEN "ap" ELSE "sta")'
        BY <1>1, <1>6 DEF CommandSoFar, FlagsFollow, OnlyAStation, Dark, WifiShape, Places,
               Radios, AskEnds, NoAsk, wifiVars, saidVars, radioVars, askVars, ghosts, counts
    <3>6. QED
        BY <3>1, <3>2, <3>3, <3>4, <3>5 DEF CommandSoFar
  <2>7. QED
      BY <2>1, <2>2, <2>3, <2>4, <2>5, <2>6 DEF WifiInv
<1>7. CASE AskEnds /\ netAt' # netAt /\ ask.fn = "wifi"
  <2>0. /\ netAt' = [at |-> "join", net |-> netName, pass |-> ask.buf] /\ netAt'.at = "join"
        /\ netAt.at = "idle"
        /\ UNCHANGED <<started, on, joined, hosting, ssid, nvs, wifi, wifiEvents, handlerAt>>
      BY <1>7 DEF AskEnds, NoAsk, wifiVars, saidVars, radioVars, askVars, ghosts, counts
  <2>1. WifiShape'
    <3>2. (nvs \in Credentials /\ typed \in Credentials)'
        BY <1>1, <1>7 DEF WifiShape, AskEnds, NoAsk, wifiVars, saidVars, radioVars, askVars,
               ghosts, counts, Credentials, Questions
    <3>4. (ask \in Questions)'
        BY <1>1, <1>7 DEF WifiShape, AskEnds, NoAsk, wifiVars, saidVars, radioVars, askVars,
               ghosts, counts, Questions
    <3>5. (netAt \in Places)'
        BY <1>1, <2>0 DEF WifiShape, Places, NetSteps, Questions
    <3>8. QED
        BY <1>1, <1>7, <3>2, <3>4, <3>5 DEF WifiShape, AskEnds, NoAsk, wifiVars, saidVars,
               radioVars, askVars, ghosts, counts
  <2>2. ToldOrTaken'
      BY <1>1, <1>7 DEF ToldOrTaken, WifiShape, Places, Radios, Credentials, AskEnds, NoAsk,
             wifiVars, saidVars, radioVars, askVars, ghosts, counts
  <2>3. LastEventTells'
      BY <1>1, <1>7, EventsLeft DEF OnlyAStation, CommandSoFar, Dark, WifiShape, Places, Radios,
             AskEnds, NoAsk, wifiVars, saidVars, radioVars, askVars, ghosts, counts
  <2>4. WillLook'
      BY <1>1, <1>7 DEF WillLook, OnlyAStation, CommandSoFar, FlagsFollow, Dark, WifiShape,
             Places, Radios, AskEnds, NoAsk, wifiVars, saidVars, radioVars, askVars, ghosts,
             counts
  <2>5. OnlyAStation'
      BY <1>1, <1>7 DEF OnlyAStation, CommandSoFar, Dark, WifiShape, Places, Radios, AskEnds,
             NoAsk, wifiVars, saidVars, radioVars, askVars, ghosts, counts
  <2>6. CommandSoFar'
      BY <1>1, <2>0 DEF CommandSoFar, FlagsFollow
  <2>7. QED
      BY <2>1, <2>2, <2>3, <2>4, <2>5, <2>6 DEF WifiInv
<1>8. CASE AskEnds /\ netAt' # netAt /\ ask.fn # "wifi"
  <2>0. /\ netAt' = [at |-> "host", net |-> netName, pass |-> ask.buf] /\ netAt'.at = "host"
        /\ netAt.at = "idle"
        /\ UNCHANGED <<started, on, joined, hosting, ssid, nvs, typed, wifi, wifiEvents, handlerAt>>
      BY <1>8 DEF AskEnds, NoAsk, wifiVars, saidVars, radioVars, askVars, ghosts, counts
  <2>1. WifiShape'
    <3>2. (nvs \in Credentials /\ typed \in Credentials)'
        BY <1>1, <1>8 DEF WifiShape, AskEnds, NoAsk, wifiVars, saidVars, radioVars, askVars,
               ghosts, counts, Credentials, Questions
    <3>4. (ask \in Questions)'
        BY <1>1, <1>8 DEF WifiShape, AskEnds, NoAsk, wifiVars, saidVars, radioVars, askVars,
               ghosts, counts, Questions
    <3>5. (netAt \in Places)'
        BY <1>1, <2>0 DEF WifiShape, Places, NetSteps, Questions
    <3>8. QED
        BY <1>1, <1>8, <3>2, <3>4, <3>5 DEF WifiShape, AskEnds, NoAsk, wifiVars, saidVars,
               radioVars, askVars, ghosts, counts
  <2>2. ToldOrTaken'
      BY <1>1, <1>8 DEF ToldOrTaken, WifiShape, Places, Radios, Credentials, AskEnds, NoAsk,
             wifiVars, saidVars, radioVars, askVars, ghosts, counts
  <2>3. LastEventTells'
      BY <1>1, <1>8, EventsLeft DEF OnlyAStation, CommandSoFar, Dark, WifiShape, Places, Radios,
             AskEnds, NoAsk, wifiVars, saidVars, radioVars, askVars, ghosts, counts
  <2>4. WillLook'
      BY <1>1, <1>8 DEF WillLook, OnlyAStation, CommandSoFar, FlagsFollow, Dark, WifiShape,
             Places, Radios, AskEnds, NoAsk, wifiVars, saidVars, radioVars, askVars, ghosts,
             counts
  <2>5. OnlyAStation'
      BY <1>1, <1>8 DEF OnlyAStation, CommandSoFar, Dark, WifiShape, Places, Radios, AskEnds,
             NoAsk, wifiVars, saidVars, radioVars, askVars, ghosts, counts
  <2>6. CommandSoFar'
      BY <1>1, <2>0 DEF CommandSoFar, FlagsFollow
  <2>7. QED
      BY <2>1, <2>2, <2>3, <2>4, <2>5, <2>6 DEF WifiInv
<1>9. CASE WifiForget
  <2>1. WifiShape'
    <3>2. (nvs \in Credentials /\ typed \in Credentials)'
        BY <1>1, <1>9 DEF WifiShape, WifiForget, AtPrompt, Command, NotTold, wifiVars, saidVars,
               radioVars, askVars, ghosts, counts, Credentials
    <3>8. QED
        BY <1>1, <1>9, <3>2 DEF WifiShape, WifiForget, AtPrompt, Command, NotTold, wifiVars,
               saidVars, radioVars, askVars, ghosts, counts
  <2>2. ToldOrTaken'
      BY <1>1, <1>9 DEF ToldOrTaken, WifiShape, Places, Radios, Credentials, WifiForget,
             AtPrompt, Command, NotTold, wifiVars, saidVars, radioVars, askVars, ghosts, counts
  <2>3. LastEventTells'
      BY <1>1, <1>9, EventsLeft DEF OnlyAStation, CommandSoFar, Dark, WifiShape, Places, Radios,
             WifiForget, AtPrompt, Command, NotTold, wifiVars, saidVars, radioVars, askVars,
             ghosts, counts
  <2>4. WillLook'
      BY <1>1, <1>9 DEF WillLook, OnlyAStation, CommandSoFar, FlagsFollow, Dark, WifiShape,
             Places, Radios, WifiForget, AtPrompt, Command, NotTold, wifiVars, saidVars,
             radioVars, askVars, ghosts, counts
  <2>5. OnlyAStation'
      BY <1>1, <1>9 DEF OnlyAStation, CommandSoFar, Dark, WifiShape, Places, Radios, WifiForget,
             AtPrompt, Command, NotTold, wifiVars, saidVars, radioVars, askVars, ghosts, counts
  <2>6. CommandSoFar'
      BY <1>1, <1>9 DEF CommandSoFar, FlagsFollow, OnlyAStation, Dark, WifiShape, Places,
             Radios, WifiForget, AtPrompt, Command, NotTold, wifiVars, saidVars, radioVars,
             askVars, ghosts, counts
  <2>7. QED
      BY <2>1, <2>2, <2>3, <2>4, <2>5, <2>6 DEF WifiInv
<1>10. CASE WifiOff
  <2>1. WifiShape'
    <3>5. (netAt \in Places)'
        BY <1>1, <1>10 DEF WifiShape, WifiOff, AtPrompt, Command, NetGoes, wifiVars, saidVars,
               radioVars, askVars, ghosts, counts, Places, NetSteps
    <3>8. QED
        BY <1>1, <1>10, <3>5 DEF WifiShape, WifiOff, AtPrompt, Command, NetGoes, wifiVars,
               saidVars, radioVars, askVars, ghosts, counts
  <2>2. ToldOrTaken'
      BY <1>1, <1>10 DEF ToldOrTaken, WifiShape, Places, Radios, Credentials, WifiOff, AtPrompt,
             Command, NetGoes, wifiVars, saidVars, radioVars, askVars, ghosts, counts
  <2>3. LastEventTells'
      BY <1>1, <1>10, EventsLeft DEF OnlyAStation, CommandSoFar, Dark, WifiShape, Places,
             Radios, WifiOff, AtPrompt, Command, NetGoes, wifiVars, saidVars, radioVars,
             askVars, ghosts, counts
  <2>4. WillLook'
      BY <1>1, <1>10 DEF WillLook, OnlyAStation, CommandSoFar, FlagsFollow, Dark, WifiShape,
             Places, Radios, WifiOff, AtPrompt, Command, NetGoes, wifiVars, saidVars, radioVars,
             askVars, ghosts, counts
  <2>5. OnlyAStation'
      BY <1>1, <1>10 DEF OnlyAStation, CommandSoFar, Dark, WifiShape, Places, Radios, WifiOff,
             AtPrompt, Command, NetGoes, wifiVars, saidVars, radioVars, askVars, ghosts, counts
  <2>6. CommandSoFar'
      BY <1>1, <1>10 DEF CommandSoFar, FlagsFollow, OnlyAStation, Dark, WifiShape, Places,
             Radios, WifiOff, AtPrompt, Command, NetGoes, wifiVars, saidVars, radioVars,
             askVars, ghosts, counts
  <2>7. QED
      BY <2>1, <2>2, <2>3, <2>4, <2>5, <2>6 DEF WifiInv
<1>11. CASE WifiOnce /\ netAt' = netAt
  <2>1. WifiShape'
    <3>2. (nvs \in Credentials /\ typed \in Credentials)'
        BY <1>1, <1>11 DEF WifiShape, WifiOnce, NetEnds, wifiVars, saidVars, radioVars, askVars,
               ghosts, counts, Credentials
    <3>5. (netAt \in Places)'
        BY <1>1, <1>11 DEF WifiShape, WifiOnce, NetEnds, wifiVars, saidVars, radioVars, askVars,
               ghosts, counts, Places, NetSteps
    <3>8. QED
        BY <1>1, <1>11, <3>2, <3>5 DEF WifiShape, WifiOnce, NetEnds, wifiVars, saidVars,
               radioVars, askVars, ghosts, counts
  <2>2. ToldOrTaken'
      BY <1>1, <1>11 DEF ToldOrTaken, WifiShape, Places, Radios, Credentials, WifiOnce, NetEnds,
             wifiVars, saidVars, radioVars, askVars, ghosts, counts
  <2>3. LastEventTells'
      BY <1>1, <1>11, EventsLeft DEF OnlyAStation, CommandSoFar, Dark, WifiShape, Places,
             Radios, WifiOnce, NetEnds, wifiVars, saidVars, radioVars, askVars, ghosts, counts
  <2>4. WillLook'
      BY <1>1, <1>11 DEF WillLook, OnlyAStation, CommandSoFar, FlagsFollow, Dark, WifiShape,
             Places, Radios, WifiOnce, NetEnds, wifiVars, saidVars, radioVars, askVars, ghosts,
             counts
  <2>5. OnlyAStation'
      BY <1>1, <1>11 DEF OnlyAStation, CommandSoFar, Dark, WifiShape, Places, Radios, WifiOnce,
             NetEnds, wifiVars, saidVars, radioVars, askVars, ghosts, counts
  <2>6. CommandSoFar'
    <3>1. (netAt.at \in {"idle", "boot", "join", "host"} => FlagsFollow)'
        BY <1>1, <1>11 DEF CommandSoFar, FlagsFollow, OnlyAStation, Dark, WifiShape, Places,
               Radios, WifiOnce, NetEnds, wifiVars, saidVars, radioVars, askVars, ghosts, counts
    <3>2. (netAt.at \in {"cleared sta", "cleared ap", "cleared"} => Dark)'
        BY <1>1, <1>11 DEF CommandSoFar, FlagsFollow, OnlyAStation, Dark, WifiShape, Places,
               Radios, WifiOnce, NetEnds, wifiVars, saidVars, radioVars, askVars, ghosts, counts
    <3>3. (netAt.at \in {"rejoin", "rehost", "cleared sta", "cleared ap"} => ssid = netAt.net)'
        BY <1>1, <1>11 DEF CommandSoFar, FlagsFollow, OnlyAStation, Dark, WifiShape, Places,
               Radios, WifiOnce, NetEnds, wifiVars, saidVars, radioVars, askVars, ghosts, counts
    <3>4. (netAt.at \in {"sta", "ap"} => Dark /\ ~on /\ ~hosting /\ ssid = netAt.net)'
        BY <1>1, <1>11 DEF CommandSoFar, FlagsFollow, OnlyAStation, Dark, WifiShape, Places,
               Radios, WifiOnce, NetEnds, wifiVars, saidVars, radioVars, askVars, ghosts, counts
    <3>5. (netAt.at \in {"connect", "hosts"} =>
           /\ wifi.run /\ wifi.net = netAt.net /\ ssid = netAt.net /\ ~on /\ ~hosting
           /\ wifi.mode = IF netAt.at = "hosts" THEN "ap" ELSE "sta")'
        BY <1>1, <1>11 DEF CommandSoFar, FlagsFollow, OnlyAStation, Dark, WifiShape, Places,
               Radios, WifiOnce, NetEnds, wifiVars, saidVars, radioVars, askVars, ghosts, counts
    <3>6. QED
        BY <3>1, <3>2, <3>3, <3>4, <3>5 DEF CommandSoFar
  <2>7. QED
      BY <2>1, <2>2, <2>3, <2>4, <2>5, <2>6 DEF WifiInv
<1>12. CASE WifiOnce /\ netAt' # netAt
  <2>0. /\ netAt' = [at |-> "idle", net |-> None, pass |-> None] /\ netAt'.at = "idle"
        /\ netAt.at \in {"join", "host"}
        /\ UNCHANGED <<started, on, joined, hosting, ssid, nvs, wifi, wifiEvents, handlerAt>>
      BY <1>12 DEF WifiOnce, NetEnds, wifiVars, saidVars, radioVars, askVars, ghosts, counts
  <2>1. WifiShape'
    <3>2. (nvs \in Credentials /\ typed \in Credentials)'
        BY <1>1, <1>12 DEF WifiShape, WifiOnce, NetEnds, wifiVars, saidVars, radioVars, askVars,
               ghosts, counts, Credentials
    <3>5. (netAt \in Places)'
        BY <1>1, <2>0 DEF WifiShape, Places, NetSteps
    <3>8. QED
        BY <1>1, <1>12, <3>2, <3>5 DEF WifiShape, WifiOnce, NetEnds, wifiVars, saidVars,
               radioVars, askVars, ghosts, counts
  <2>2. ToldOrTaken'
      BY <1>1, <1>12 DEF ToldOrTaken, WifiShape, Places, Radios, Credentials, WifiOnce, NetEnds,
             wifiVars, saidVars, radioVars, askVars, ghosts, counts
  <2>3. LastEventTells'
      BY <1>1, <1>12, EventsLeft DEF OnlyAStation, CommandSoFar, Dark, WifiShape, Places,
             Radios, WifiOnce, NetEnds, wifiVars, saidVars, radioVars, askVars, ghosts, counts
  <2>4. WillLook'
      BY <1>1, <1>12 DEF WillLook, OnlyAStation, CommandSoFar, FlagsFollow, Dark, WifiShape,
             Places, Radios, WifiOnce, NetEnds, wifiVars, saidVars, radioVars, askVars, ghosts,
             counts
  <2>5. OnlyAStation'
      BY <1>1, <1>12 DEF OnlyAStation, CommandSoFar, Dark, WifiShape, Places, Radios, WifiOnce,
             NetEnds, wifiVars, saidVars, radioVars, askVars, ghosts, counts
  <2>6. CommandSoFar'
      BY <1>1, <2>0 DEF CommandSoFar, FlagsFollow
  <2>7. QED
      BY <2>1, <2>2, <2>3, <2>4, <2>5, <2>6 DEF WifiInv
<1>13. CASE JoinTaken
  <2>1. WifiShape'
    <3>2. (nvs \in Credentials /\ typed \in Credentials)'
        BY <1>1, <1>13 DEF WifiShape, JoinTaken, NetGoes, wifiVars, saidVars, radioVars,
               askVars, ghosts, counts, Credentials, Places
    <3>5. (netAt \in Places)'
        BY <1>1, <1>13 DEF WifiShape, JoinTaken, NetGoes, wifiVars, saidVars, radioVars,
               askVars, ghosts, counts, Places, NetSteps
    <3>8. QED
        BY <1>1, <1>13, <3>2, <3>5 DEF WifiShape, JoinTaken, NetGoes, wifiVars, saidVars,
               radioVars, askVars, ghosts, counts
  <2>2. ToldOrTaken'
      BY <1>1, <1>13 DEF ToldOrTaken, WifiShape, Places, Radios, Credentials, JoinTaken,
             NetGoes, wifiVars, saidVars, radioVars, askVars, ghosts, counts
  <2>3. LastEventTells'
      BY <1>1, <1>13, EventsLeft DEF OnlyAStation, CommandSoFar, Dark, WifiShape, Places,
             Radios, JoinTaken, NetGoes, wifiVars, saidVars, radioVars, askVars, ghosts, counts
  <2>4. WillLook'
      BY <1>1, <1>13 DEF WillLook, OnlyAStation, CommandSoFar, FlagsFollow, Dark, WifiShape,
             Places, Radios, JoinTaken, NetGoes, wifiVars, saidVars, radioVars, askVars, ghosts,
             counts
  <2>5. OnlyAStation'
      BY <1>1, <1>13 DEF OnlyAStation, CommandSoFar, Dark, WifiShape, Places, Radios, JoinTaken,
             NetGoes, wifiVars, saidVars, radioVars, askVars, ghosts, counts
  <2>6. CommandSoFar'
      BY <1>1, <1>13 DEF CommandSoFar, FlagsFollow, OnlyAStation, Dark, WifiShape, Places,
             Radios, JoinTaken, NetGoes, wifiVars, saidVars, radioVars, askVars, ghosts, counts
  <2>7. QED
      BY <2>1, <2>2, <2>3, <2>4, <2>5, <2>6 DEF WifiInv
<1>14. CASE HostTaken
  <2>1. WifiShape'
    <3>5. (netAt \in Places)'
        BY <1>1, <1>14 DEF WifiShape, HostTaken, NetGoes, wifiVars, saidVars, radioVars,
               askVars, ghosts, counts, Places, NetSteps
    <3>8. QED
        BY <1>1, <1>14, <3>5 DEF WifiShape, HostTaken, NetGoes, wifiVars, saidVars, radioVars,
               askVars, ghosts, counts
  <2>2. ToldOrTaken'
      BY <1>1, <1>14 DEF ToldOrTaken, WifiShape, Places, Radios, Credentials, HostTaken,
             NetGoes, wifiVars, saidVars, radioVars, askVars, ghosts, counts
  <2>3. LastEventTells'
      BY <1>1, <1>14, EventsLeft DEF OnlyAStation, CommandSoFar, Dark, WifiShape, Places,
             Radios, HostTaken, NetGoes, wifiVars, saidVars, radioVars, askVars, ghosts, counts
  <2>4. WillLook'
      BY <1>1, <1>14 DEF WillLook, OnlyAStation, CommandSoFar, FlagsFollow, Dark, WifiShape,
             Places, Radios, HostTaken, NetGoes, wifiVars, saidVars, radioVars, askVars, ghosts,
             counts
  <2>5. OnlyAStation'
      BY <1>1, <1>14 DEF OnlyAStation, CommandSoFar, Dark, WifiShape, Places, Radios, HostTaken,
             NetGoes, wifiVars, saidVars, radioVars, askVars, ghosts, counts
  <2>6. CommandSoFar'
      BY <1>1, <1>14 DEF CommandSoFar, FlagsFollow, OnlyAStation, Dark, WifiShape, Places,
             Radios, HostTaken, NetGoes, wifiVars, saidVars, radioVars, askVars, ghosts, counts
  <2>7. QED
      BY <2>1, <2>2, <2>3, <2>4, <2>5, <2>6 DEF WifiInv
<1>15. CASE StopFirst
  <2>1. WifiShape'
    <3>5. (netAt \in Places)'
        BY <1>1, <1>15 DEF WifiShape, StopFirst, NetGoes, RadioStops, Event, Stopped, wifiVars,
               saidVars, radioVars, askVars, ghosts, counts, Places, NetSteps
    <3>6. (wifi \in Radios)'
        BY <1>1, <1>15 DEF WifiShape, StopFirst, NetGoes, RadioStops, Event, Stopped, wifiVars,
               saidVars, radioVars, askVars, ghosts, counts, Radios
    <3>7. (wifiEvents \in Seq(EventTypes) /\ handlerAt \in {"wait", "connect"})'
        <4>1. CASE wifi.sta = "idle"
            BY <1>1, <1>15, <4>1 DEF WifiShape, StopFirst, NetGoes, RadioStops, Event, Stopped,
                   wifiVars, saidVars, radioVars, askVars, ghosts, counts
        <4>2. CASE wifi.sta # "idle"
            <5>1. wifiEvents' = Append(wifiEvents, "disconnected") /\ UNCHANGED handlerAt
                BY <1>15, <4>2 DEF StopFirst, NetGoes, RadioStops, Event, Stopped, wifiVars,
                       saidVars, radioVars, askVars, ghosts, counts
            <5>2. QED
                BY <1>1, <5>1, WifiEventKinds, QueueGrows DEF WifiShape
        <4>3. QED
            BY <4>1, <4>2
    <3>8. QED
        BY <1>1, <1>15, <3>5, <3>6, <3>7 DEF WifiShape, StopFirst, NetGoes, RadioStops, Event,
               Stopped, wifiVars, saidVars, radioVars, askVars, ghosts, counts
  <2>2. ToldOrTaken'
      BY <1>1, <1>15 DEF ToldOrTaken, WifiShape, Places, Radios, Credentials, StopFirst,
             NetGoes, RadioStops, Event, Stopped, wifiVars, saidVars, radioVars, askVars,
             ghosts, counts
  <2>3. LastEventTells'
    <3>1. CASE wifi.sta = "idle"
        BY <1>1, <1>15, <3>1, EventsLeft DEF WifiShape, Places, Radios, StopFirst, NetGoes,
               RadioStops, Event, Stopped, wifiVars, saidVars, radioVars, askVars, ghosts,
               counts
    <3>2. CASE wifi.sta # "idle"
        BY <1>1, <1>15, <3>2, EventComes DEF WifiShape, Places, Radios, EventTypes, StopFirst,
               NetGoes, RadioStops, Event, Stopped, wifiVars, saidVars, radioVars, askVars,
               ghosts, counts
    <3>3. QED
        BY <3>1, <3>2
  <2>4. WillLook'
      BY <1>1, <1>15 DEF WillLook, StopFirst, NetGoes, RadioStops, Event, Stopped, wifiVars,
             saidVars, radioVars, askVars, ghosts, counts
  <2>5. OnlyAStation'
      BY <1>1, <1>15 DEF OnlyAStation, CommandSoFar, Dark, WifiShape, Places, Radios, StopFirst,
             NetGoes, RadioStops, Event, Stopped, wifiVars, saidVars, radioVars, askVars,
             ghosts, counts
  <2>6. CommandSoFar'
      BY <1>1, <1>15 DEF CommandSoFar, FlagsFollow, OnlyAStation, Dark, WifiShape, Places,
             Radios, StopFirst, NetGoes, RadioStops, Event, Stopped, wifiVars, saidVars,
             radioVars, askVars, ghosts, counts
  <2>7. QED
      BY <2>1, <2>2, <2>3, <2>4, <2>5, <2>6 DEF WifiInv
<1>16. CASE Cleared /\ netAt.at = "cleared"
  <2>0. /\ netAt' = [at |-> "idle", net |-> None, pass |-> None] /\ netAt'.at = "idle"
        /\ netAt.at = "cleared"
        /\ UNCHANGED <<started, ssid, nvs, typed, netName, ask, wifi, wifiEvents, handlerAt>>
        /\ on' = FALSE /\ joined' = FALSE /\ hosting' = FALSE
      BY <1>1, <1>16 DEF Cleared, NetGoes, NetEnds, wifiVars, saidVars, radioVars, askVars,
             ghosts, counts, WifiShape, Places, Radios
  <2>1. WifiShape'
    <3>5. (netAt \in Places)'
        BY <1>1, <2>0 DEF WifiShape, Places, NetSteps
    <3>8. QED
        BY <1>1, <1>16, <3>5 DEF WifiShape, Cleared, NetGoes, NetEnds, wifiVars, saidVars,
               radioVars, askVars, ghosts, counts
  <2>2. ToldOrTaken'
      BY <1>1, <1>16 DEF ToldOrTaken, WifiShape, Places, Radios, Credentials, Cleared, NetGoes,
             NetEnds, wifiVars, saidVars, radioVars, askVars, ghosts, counts
  <2>3. LastEventTells'
      BY <1>1, <2>0, FlagCleared DEF OnlyAStation, CommandSoFar, Dark, WifiShape, Places, Radios
  <2>4. WillLook'
      BY <1>1, <2>0 DEF WillLook, OnlyAStation, CommandSoFar, FlagsFollow, Dark, WifiShape,
             Places, Radios
  <2>5. OnlyAStation'
      BY <1>1, <2>0 DEF OnlyAStation, CommandSoFar, Dark, WifiShape, Places, Radios
  <2>6. CommandSoFar'
      BY <1>1, <2>0 DEF CommandSoFar, FlagsFollow, OnlyAStation, Dark, WifiShape, Places, Radios
  <2>7. QED
      BY <2>1, <2>2, <2>3, <2>4, <2>5, <2>6 DEF WifiInv
<1>17. CASE Cleared /\ netAt.at = "cleared sta"
  <2>0. /\ netAt' = [at |-> "sta", net |-> netAt.net, pass |-> netAt.pass] /\ netAt'.at = "sta"
        /\ netAt.at = "cleared sta"
        /\ UNCHANGED <<started, ssid, nvs, typed, netName, ask, wifi, wifiEvents, handlerAt>>
        /\ on' = FALSE /\ joined' = FALSE /\ hosting' = FALSE
      BY <1>1, <1>17 DEF Cleared, NetGoes, NetEnds, wifiVars, saidVars, radioVars, askVars,
             ghosts, counts, WifiShape, Places, Radios
  <2>1. WifiShape'
    <3>5. (netAt \in Places)'
        BY <1>1, <2>0 DEF WifiShape, Places, NetSteps
    <3>8. QED
        BY <1>1, <1>17, <3>5 DEF WifiShape, Cleared, NetGoes, NetEnds, wifiVars, saidVars,
               radioVars, askVars, ghosts, counts
  <2>2. ToldOrTaken'
      BY <1>1, <1>17 DEF ToldOrTaken, WifiShape, Places, Radios, Credentials, Cleared, NetGoes,
             NetEnds, wifiVars, saidVars, radioVars, askVars, ghosts, counts
  <2>3. LastEventTells'
      BY <1>1, <2>0, FlagCleared DEF OnlyAStation, CommandSoFar, Dark, WifiShape, Places, Radios
  <2>4. WillLook'
      BY <1>1, <2>0 DEF WillLook, OnlyAStation, CommandSoFar, FlagsFollow, Dark, WifiShape,
             Places, Radios
  <2>5. OnlyAStation'
      BY <1>1, <2>0 DEF OnlyAStation, CommandSoFar, Dark, WifiShape, Places, Radios
  <2>6. CommandSoFar'
      BY <1>1, <2>0 DEF CommandSoFar, FlagsFollow, OnlyAStation, Dark, WifiShape, Places, Radios
  <2>7. QED
      BY <2>1, <2>2, <2>3, <2>4, <2>5, <2>6 DEF WifiInv
<1>18. CASE Cleared /\ netAt.at = "cleared ap"
  <2>0. /\ netAt' = [at |-> "ap", net |-> netAt.net, pass |-> netAt.pass] /\ netAt'.at = "ap"
        /\ netAt.at = "cleared ap"
        /\ UNCHANGED <<started, ssid, nvs, typed, netName, ask, wifi, wifiEvents, handlerAt>>
        /\ on' = FALSE /\ joined' = FALSE /\ hosting' = FALSE
      BY <1>1, <1>18 DEF Cleared, NetGoes, NetEnds, wifiVars, saidVars, radioVars, askVars,
             ghosts, counts, WifiShape, Places, Radios
  <2>1. WifiShape'
    <3>5. (netAt \in Places)'
        BY <1>1, <2>0 DEF WifiShape, Places, NetSteps
    <3>8. QED
        BY <1>1, <1>18, <3>5 DEF WifiShape, Cleared, NetGoes, NetEnds, wifiVars, saidVars,
               radioVars, askVars, ghosts, counts
  <2>2. ToldOrTaken'
      BY <1>1, <1>18 DEF ToldOrTaken, WifiShape, Places, Radios, Credentials, Cleared, NetGoes,
             NetEnds, wifiVars, saidVars, radioVars, askVars, ghosts, counts
  <2>3. LastEventTells'
      BY <1>1, <2>0, FlagCleared DEF OnlyAStation, CommandSoFar, Dark, WifiShape, Places, Radios
  <2>4. WillLook'
      BY <1>1, <2>0 DEF WillLook, OnlyAStation, CommandSoFar, FlagsFollow, Dark, WifiShape,
             Places, Radios
  <2>5. OnlyAStation'
      BY <1>1, <2>0 DEF OnlyAStation, CommandSoFar, Dark, WifiShape, Places, Radios
  <2>6. CommandSoFar'
      BY <1>1, <2>0 DEF CommandSoFar, FlagsFollow, OnlyAStation, Dark, WifiShape, Places, Radios
  <2>7. QED
      BY <2>1, <2>2, <2>3, <2>4, <2>5, <2>6 DEF WifiInv
<1>19. CASE RadioStarts /\ netAt.at = "sta" /\ netAt'.at = "idle"
  <2>0. /\ netAt' = [at |-> "idle", net |-> None, pass |-> None] /\ netAt'.at = "idle"
        /\ netAt.at = "sta"
        /\ UNCHANGED <<started, on, joined, hosting, ssid, nvs, typed, netName, ask, wifi, wifiEvents, handlerAt>>
      BY <1>1, <1>19 DEF RadioStarts, NetGoes, NetEnds, wifiVars, saidVars, radioVars, askVars,
             ghosts, counts, WifiShape, Places, Radios
  <2>1. WifiShape'
    <3>5. (netAt \in Places)'
        BY <1>1, <2>0 DEF WifiShape, Places, NetSteps
    <3>6. (wifi \in Radios)'
        BY <1>1, <2>0 DEF WifiShape, Radios, Places
    <3>8. QED
        BY <1>1, <1>19, <3>5, <3>6 DEF WifiShape, RadioStarts, NetGoes, NetEnds, wifiVars,
               saidVars, radioVars, askVars, ghosts, counts
  <2>2. ToldOrTaken'
      BY <1>1, <1>19 DEF ToldOrTaken, WifiShape, Places, Radios, Credentials, RadioStarts,
             NetGoes, NetEnds, wifiVars, saidVars, radioVars, askVars, ghosts, counts
  <2>3. LastEventTells'
      BY <1>1, <2>0, EventsLeft DEF OnlyAStation, CommandSoFar, Dark, WifiShape, Places, Radios
  <2>4. WillLook'
      BY <1>1, <2>0 DEF WillLook, CommandSoFar, Dark, WifiShape, Places, Radios
  <2>5. OnlyAStation'
      BY <1>1, <2>0 DEF OnlyAStation, CommandSoFar, Dark, WifiShape, Places, Radios
  <2>6. CommandSoFar'
      BY <1>1, <2>0 DEF CommandSoFar, FlagsFollow, OnlyAStation, Dark, WifiShape, Places, Radios
  <2>7. QED
      BY <2>1, <2>2, <2>3, <2>4, <2>5, <2>6 DEF WifiInv
<1>20. CASE RadioStarts /\ netAt.at = "sta" /\ netAt'.at # "idle"
  <2>0. /\ netAt' = [at |-> "connect", net |-> netAt.net, pass |-> netAt.pass] /\ netAt'.at = "connect"
        /\ netAt.at = "sta"
        /\ UNCHANGED <<started, on, joined, hosting, ssid, nvs, typed, netName, ask, wifiEvents, handlerAt>>
        /\ wifi' = [run |-> TRUE, mode |-> "sta", net |-> netAt.net, sta |-> "idle"]
      BY <1>1, <1>20 DEF RadioStarts, NetGoes, NetEnds, wifiVars, saidVars, radioVars, askVars,
             ghosts, counts, WifiShape, Places, Radios
  <2>1. WifiShape'
    <3>5. (netAt \in Places)'
        BY <1>1, <2>0 DEF WifiShape, Places, NetSteps
    <3>6. (wifi \in Radios)'
        BY <1>1, <2>0 DEF WifiShape, Radios, Places
    <3>8. QED
        BY <1>1, <1>20, <3>5, <3>6 DEF WifiShape, RadioStarts, NetGoes, NetEnds, wifiVars,
               saidVars, radioVars, askVars, ghosts, counts
  <2>2. ToldOrTaken'
      BY <1>1, <1>20 DEF ToldOrTaken, WifiShape, Places, Radios, Credentials, RadioStarts,
             NetGoes, NetEnds, wifiVars, saidVars, radioVars, askVars, ghosts, counts
  <2>3. LastEventTells'
      BY <1>1, <2>0, EventsLeft DEF OnlyAStation, CommandSoFar, Dark, WifiShape, Places, Radios
  <2>4. WillLook'
      BY <1>1, <2>0 DEF WillLook, CommandSoFar, Dark, WifiShape, Places, Radios
  <2>5. OnlyAStation'
      BY <1>1, <2>0 DEF OnlyAStation, CommandSoFar, Dark, WifiShape, Places, Radios
  <2>6. CommandSoFar'
      BY <1>1, <2>0 DEF CommandSoFar, FlagsFollow, OnlyAStation, Dark, WifiShape, Places, Radios
  <2>7. QED
      BY <2>1, <2>2, <2>3, <2>4, <2>5, <2>6 DEF WifiInv
<1>21. CASE RadioStarts /\ netAt.at = "ap" /\ netAt'.at = "idle"
  <2>0. /\ netAt' = [at |-> "idle", net |-> None, pass |-> None] /\ netAt'.at = "idle"
        /\ netAt.at = "ap"
        /\ UNCHANGED <<started, on, joined, hosting, ssid, nvs, typed, netName, ask, wifi, wifiEvents, handlerAt>>
      BY <1>1, <1>21 DEF RadioStarts, NetGoes, NetEnds, wifiVars, saidVars, radioVars, askVars,
             ghosts, counts, WifiShape, Places, Radios
  <2>1. WifiShape'
    <3>5. (netAt \in Places)'
        BY <1>1, <2>0 DEF WifiShape, Places, NetSteps
    <3>6. (wifi \in Radios)'
        BY <1>1, <2>0 DEF WifiShape, Radios, Places
    <3>8. QED
        BY <1>1, <1>21, <3>5, <3>6 DEF WifiShape, RadioStarts, NetGoes, NetEnds, wifiVars,
               saidVars, radioVars, askVars, ghosts, counts
  <2>2. ToldOrTaken'
      BY <1>1, <1>21 DEF ToldOrTaken, WifiShape, Places, Radios, Credentials, RadioStarts,
             NetGoes, NetEnds, wifiVars, saidVars, radioVars, askVars, ghosts, counts
  <2>3. LastEventTells'
      BY <1>1, <2>0, EventsLeft DEF OnlyAStation, CommandSoFar, Dark, WifiShape, Places, Radios
  <2>4. WillLook'
      BY <1>1, <2>0 DEF WillLook, CommandSoFar, Dark, WifiShape, Places, Radios
  <2>5. OnlyAStation'
      BY <1>1, <2>0 DEF OnlyAStation, CommandSoFar, Dark, WifiShape, Places, Radios
  <2>6. CommandSoFar'
      BY <1>1, <2>0 DEF CommandSoFar, FlagsFollow, OnlyAStation, Dark, WifiShape, Places, Radios
  <2>7. QED
      BY <2>1, <2>2, <2>3, <2>4, <2>5, <2>6 DEF WifiInv
<1>22. CASE RadioStarts /\ netAt.at = "ap" /\ netAt'.at # "idle"
  <2>0. /\ netAt' = [at |-> "hosts", net |-> netAt.net, pass |-> netAt.pass] /\ netAt'.at = "hosts"
        /\ netAt.at = "ap"
        /\ UNCHANGED <<started, on, joined, hosting, ssid, nvs, typed, netName, ask, wifiEvents, handlerAt>>
        /\ wifi' = [run |-> TRUE, mode |-> "ap", net |-> netAt.net, sta |-> "idle"]
      BY <1>1, <1>22 DEF RadioStarts, NetGoes, NetEnds, wifiVars, saidVars, radioVars, askVars,
             ghosts, counts, WifiShape, Places, Radios
  <2>1. WifiShape'
    <3>5. (netAt \in Places)'
        BY <1>1, <2>0 DEF WifiShape, Places, NetSteps
    <3>6. (wifi \in Radios)'
        BY <1>1, <2>0 DEF WifiShape, Radios, Places
    <3>8. QED
        BY <1>1, <1>22, <3>5, <3>6 DEF WifiShape, RadioStarts, NetGoes, NetEnds, wifiVars,
               saidVars, radioVars, askVars, ghosts, counts
  <2>2. ToldOrTaken'
      BY <1>1, <1>22 DEF ToldOrTaken, WifiShape, Places, Radios, Credentials, RadioStarts,
             NetGoes, NetEnds, wifiVars, saidVars, radioVars, askVars, ghosts, counts
  <2>3. LastEventTells'
      BY <1>1, <2>0, EventsLeft DEF OnlyAStation, CommandSoFar, Dark, WifiShape, Places, Radios
  <2>4. WillLook'
      BY <1>1, <2>0 DEF WillLook, CommandSoFar, Dark, WifiShape, Places, Radios
  <2>5. OnlyAStation'
      BY <1>1, <2>0 DEF OnlyAStation, CommandSoFar, Dark, WifiShape, Places, Radios
  <2>6. CommandSoFar'
      BY <1>1, <2>0 DEF CommandSoFar, FlagsFollow, OnlyAStation, Dark, WifiShape, Places, Radios
  <2>7. QED
      BY <2>1, <2>2, <2>3, <2>4, <2>5, <2>6 DEF WifiInv
<1>23. CASE JoinConnects
  <2>1. WifiShape'
    <3>5. (netAt \in Places)'
        BY <1>1, <1>23 DEF WifiShape, JoinConnects, NetEnds, Tries, wifiVars, saidVars,
               radioVars, askVars, ghosts, counts, Places, NetSteps
    <3>6. (wifi \in Radios)'
        BY <1>1, <1>23 DEF WifiShape, JoinConnects, NetEnds, Tries, wifiVars, saidVars,
               radioVars, askVars, ghosts, counts, Radios
    <3>8. QED
        BY <1>1, <1>23, <3>5, <3>6 DEF WifiShape, JoinConnects, NetEnds, Tries, wifiVars,
               saidVars, radioVars, askVars, ghosts, counts
  <2>2. ToldOrTaken'
      BY <1>1, <1>23 DEF ToldOrTaken, WifiShape, Places, Radios, Credentials, JoinConnects,
             NetEnds, Tries, wifiVars, saidVars, radioVars, askVars, ghosts, counts
  <2>3. LastEventTells'
      BY <1>1, <1>23, EventsLeft DEF OnlyAStation, CommandSoFar, Dark, WifiShape, Places,
             Radios, JoinConnects, NetEnds, Tries, wifiVars, saidVars, radioVars, askVars,
             ghosts, counts
  <2>4. WillLook'
      BY <1>1, <1>23 DEF WillLook, OnlyAStation, CommandSoFar, FlagsFollow, Dark, WifiShape,
             Places, Radios, JoinConnects, NetEnds, Tries, wifiVars, saidVars, radioVars,
             askVars, ghosts, counts
  <2>5. OnlyAStation'
      BY <1>1, <1>23 DEF OnlyAStation, CommandSoFar, Dark, WifiShape, Places, Radios,
             JoinConnects, NetEnds, Tries, wifiVars, saidVars, radioVars, askVars, ghosts,
             counts
  <2>6. CommandSoFar'
      BY <1>1, <1>23 DEF CommandSoFar, FlagsFollow, OnlyAStation, Dark, WifiShape, Places,
             Radios, JoinConnects, NetEnds, Tries, wifiVars, saidVars, radioVars, askVars,
             ghosts, counts
  <2>7. QED
      BY <2>1, <2>2, <2>3, <2>4, <2>5, <2>6 DEF WifiInv
<1>24. CASE HostIsUp
  <2>1. WifiShape'
    <3>5. (netAt \in Places)'
        BY <1>1, <1>24 DEF WifiShape, HostIsUp, NetEnds, Host, wifiVars, saidVars, radioVars,
               askVars, ghosts, counts, Places, NetSteps
    <3>8. QED
        BY <1>1, <1>24, <3>5 DEF WifiShape, HostIsUp, NetEnds, Host, wifiVars, saidVars,
               radioVars, askVars, ghosts, counts
  <2>2. ToldOrTaken'
      BY <1>1, <1>24 DEF ToldOrTaken, WifiShape, Places, Radios, Credentials, HostIsUp, NetEnds,
             Host, wifiVars, saidVars, radioVars, askVars, ghosts, counts
  <2>3. LastEventTells'
      BY <1>1, <1>24, FlagCleared DEF OnlyAStation, CommandSoFar, Dark, WifiShape, Places,
             Radios, HostIsUp, NetEnds, Host, wifiVars, saidVars, radioVars, askVars, ghosts,
             counts
  <2>4. WillLook'
      BY <1>1, <1>24 DEF WillLook, OnlyAStation, CommandSoFar, FlagsFollow, Dark, WifiShape,
             Places, Radios, HostIsUp, NetEnds, Host, wifiVars, saidVars, radioVars, askVars,
             ghosts, counts
  <2>5. OnlyAStation'
      BY <1>1, <1>24 DEF OnlyAStation, CommandSoFar, Dark, WifiShape, Places, Radios, HostIsUp,
             NetEnds, Host, wifiVars, saidVars, radioVars, askVars, ghosts, counts
  <2>6. CommandSoFar'
      BY <1>1, <1>24 DEF CommandSoFar, FlagsFollow, OnlyAStation, Dark, WifiShape, Places,
             Radios, HostIsUp, NetEnds, Host, wifiVars, saidVars, radioVars, askVars, ghosts,
             counts
  <2>7. QED
      BY <2>1, <2>2, <2>3, <2>4, <2>5, <2>6 DEF WifiInv
<1>25. CASE OnWifi
  <2>1. WifiShape'
    <3>7. (wifiEvents \in Seq(EventTypes) /\ handlerAt \in {"wait", "connect"})'
        BY <1>1, <1>25, QueueShrinks, WifiEventKinds, QueueGrows, EmptySeq DEF WifiShape,
               OnWifi, Lost, Leased, wifiVars, saidVars, radioVars, askVars, ghosts, counts
    <3>8. QED
        BY <1>1, <1>25, <3>7 DEF WifiShape, OnWifi, Lost, Leased, wifiVars, saidVars, radioVars,
               askVars, ghosts, counts
  <2>2. ToldOrTaken'
      BY <1>1, <1>25 DEF ToldOrTaken, WifiShape, Places, Radios, Credentials, OnWifi, Lost,
             Leased, wifiVars, saidVars, radioVars, askVars, ghosts, counts
  <2>3. LastEventTells'
    <3>1. wifiEvents # <<>> /\ wifiEvents' = Tail(wifiEvents) /\ UNCHANGED wifi
          /\ wifiEvents \in Seq(EventTypes) /\ Head(wifiEvents) \in EventTypes
        BY <1>1, <1>25, QueueShrinks DEF WifiShape, Places, Radios, OnWifi, Lost, Leased,
               wifiVars, saidVars, radioVars, askVars, ghosts, counts
    <3>2. joined' <=> Head(wifiEvents) = "got ip"
        BY <1>25, <3>1 DEF EventTypes, OnWifi, Lost
    <3>3. QED
        BY <1>1, <3>1, <3>2, EventHandled
  <2>4. WillLook'
    <3>1. wifiEvents # <<>> /\ wifiEvents \in Seq(EventTypes) /\ wifiEvents' = Tail(wifiEvents)
          /\ UNCHANGED <<wifi, netAt>> /\ handlerAt = "wait"
          /\ (Head(wifiEvents) = "disconnected" => handlerAt' = "connect")
        BY <1>1, <1>25 DEF WifiShape, Places, Radios, OnWifi, Lost, Leased, wifiVars, saidVars,
               radioVars, askVars, ghosts, counts
    <3>2. LossIn(wifiEvents) => LossIn(wifiEvents') \/ handlerAt' = "connect"
        BY <3>1, LostShrinks
    <3>3. QED
        BY <1>1, <3>1, <3>2 DEF WillLook, LossIn
  <2>5. OnlyAStation'
      BY <1>1, <1>25 DEF OnlyAStation, CommandSoFar, Dark, WifiShape, Places, Radios, OnWifi,
             Lost, Leased, wifiVars, saidVars, radioVars, askVars, ghosts, counts
  <2>6. CommandSoFar'
      BY <1>1, <1>25 DEF CommandSoFar, FlagsFollow, OnlyAStation, Dark, WifiShape, Places,
             Radios, OnWifi, Lost, Leased, wifiVars, saidVars, radioVars, askVars, ghosts,
             counts
  <2>7. QED
      BY <2>1, <2>2, <2>3, <2>4, <2>5, <2>6 DEF WifiInv
<1>26. CASE OnWifiConnects
  <2>1. WifiShape'
    <3>6. (wifi \in Radios)'
        BY <1>1, <1>26 DEF WifiShape, OnWifiConnects, Retry, Tries, wifiVars, saidVars,
               radioVars, askVars, ghosts, counts, Radios
    <3>8. QED
        BY <1>1, <1>26, <3>6 DEF WifiShape, OnWifiConnects, Retry, Tries, wifiVars, saidVars,
               radioVars, askVars, ghosts, counts
  <2>2. ToldOrTaken'
      BY <1>1, <1>26 DEF ToldOrTaken, WifiShape, Places, Radios, Credentials, OnWifiConnects,
             Retry, Tries, wifiVars, saidVars, radioVars, askVars, ghosts, counts
  <2>3. LastEventTells'
      BY <1>1, <1>26, EventsLeft DEF OnlyAStation, CommandSoFar, Dark, WifiShape, Places,
             Radios, OnWifiConnects, Retry, Tries, wifiVars, saidVars, radioVars, askVars,
             ghosts, counts
  <2>4. WillLook'
      BY <1>1, <1>26 DEF WillLook, OnlyAStation, CommandSoFar, FlagsFollow, Dark, WifiShape,
             Places, Radios, OnWifiConnects, Retry, Tries, wifiVars, saidVars, radioVars,
             askVars, ghosts, counts
  <2>5. OnlyAStation'
      BY <1>1, <1>26 DEF OnlyAStation, CommandSoFar, Dark, WifiShape, Places, Radios,
             OnWifiConnects, Retry, Tries, wifiVars, saidVars, radioVars, askVars, ghosts,
             counts
  <2>6. CommandSoFar'
      BY <1>1, <1>26 DEF CommandSoFar, FlagsFollow, OnlyAStation, Dark, WifiShape, Places,
             Radios, OnWifiConnects, Retry, Tries, wifiVars, saidVars, radioVars, askVars,
             ghosts, counts
  <2>7. QED
      BY <2>1, <2>2, <2>3, <2>4, <2>5, <2>6 DEF WifiInv
<1>27. CASE Associates
  <2>1. WifiShape'
    <3>6. (wifi \in Radios)'
        BY <1>1, <1>27 DEF WifiShape, Associates, wifiVars, saidVars, radioVars, askVars,
               ghosts, counts, Radios
    <3>8. QED
        BY <1>1, <1>27, <3>6 DEF WifiShape, Associates, wifiVars, saidVars, radioVars, askVars,
               ghosts, counts
  <2>2. ToldOrTaken'
      BY <1>1, <1>27 DEF ToldOrTaken, WifiShape, Places, Radios, Credentials, Associates,
             wifiVars, saidVars, radioVars, askVars, ghosts, counts
  <2>3. LastEventTells'
      BY <1>1, <1>27, EventsLeft DEF OnlyAStation, CommandSoFar, Dark, WifiShape, Places,
             Radios, Associates, wifiVars, saidVars, radioVars, askVars, ghosts, counts
  <2>4. WillLook'
      BY <1>1, <1>27 DEF WillLook, OnlyAStation, CommandSoFar, FlagsFollow, Dark, WifiShape,
             Places, Radios, Associates, wifiVars, saidVars, radioVars, askVars, ghosts, counts
  <2>5. OnlyAStation'
      BY <1>1, <1>27 DEF OnlyAStation, CommandSoFar, Dark, WifiShape, Places, Radios,
             Associates, wifiVars, saidVars, radioVars, askVars, ghosts, counts
  <2>6. CommandSoFar'
      BY <1>1, <1>27 DEF CommandSoFar, FlagsFollow, OnlyAStation, Dark, WifiShape, Places,
             Radios, Associates, wifiVars, saidVars, radioVars, askVars, ghosts, counts
  <2>7. QED
      BY <2>1, <2>2, <2>3, <2>4, <2>5, <2>6 DEF WifiInv
<1>28. CASE GetsAddress
  <2>1. WifiShape'
    <3>6. (wifi \in Radios)'
        BY <1>1, <1>28 DEF WifiShape, GetsAddress, Event, wifiVars, saidVars, radioVars,
               askVars, ghosts, counts, Radios
    <3>7. (wifiEvents \in Seq(EventTypes) /\ handlerAt \in {"wait", "connect"})'
        BY <1>1, <1>28, WifiEventKinds, QueueGrows, EmptySeq DEF WifiShape, GetsAddress, Event,
               wifiVars, saidVars, radioVars, askVars, ghosts, counts
    <3>8. QED
        BY <1>1, <1>28, <3>6, <3>7 DEF WifiShape, GetsAddress, Event, wifiVars, saidVars,
               radioVars, askVars, ghosts, counts
  <2>2. ToldOrTaken'
      BY <1>1, <1>28 DEF ToldOrTaken, WifiShape, Places, Radios, Credentials, GetsAddress,
             Event, wifiVars, saidVars, radioVars, askVars, ghosts, counts
  <2>3. LastEventTells'
      BY <1>1, <1>28, EventComes DEF WifiShape, Places, Radios, EventTypes, GetsAddress, Event,
             wifiVars, saidVars, radioVars, askVars, ghosts, counts
  <2>4. WillLook'
      BY <1>1, <1>28 DEF WillLook, WifiShape, Places, Radios, GetsAddress, Event, wifiVars,
             saidVars, radioVars, askVars, ghosts, counts
  <2>5. OnlyAStation'
      BY <1>1, <1>28 DEF OnlyAStation, CommandSoFar, Dark, WifiShape, Places, Radios,
             GetsAddress, Event, wifiVars, saidVars, radioVars, askVars, ghosts, counts
  <2>6. CommandSoFar'
      BY <1>1, <1>28 DEF CommandSoFar, FlagsFollow, OnlyAStation, Dark, WifiShape, Places,
             Radios, GetsAddress, Event, wifiVars, saidVars, radioVars, askVars, ghosts, counts
  <2>7. QED
      BY <2>1, <2>2, <2>3, <2>4, <2>5, <2>6 DEF WifiInv
<1>29. CASE LinkLost
  <2>1. WifiShape'
    <3>6. (wifi \in Radios)'
        BY <1>1, <1>29 DEF WifiShape, LinkLost, Event, wifiVars, saidVars, radioVars, askVars,
               ghosts, counts, Radios
    <3>7. (wifiEvents \in Seq(EventTypes) /\ handlerAt \in {"wait", "connect"})'
        BY <1>1, <1>29, WifiEventKinds, QueueGrows, EmptySeq DEF WifiShape, LinkLost, Event,
               wifiVars, saidVars, radioVars, askVars, ghosts, counts
    <3>8. QED
        BY <1>1, <1>29, <3>6, <3>7 DEF WifiShape, LinkLost, Event, wifiVars, saidVars,
               radioVars, askVars, ghosts, counts
  <2>2. ToldOrTaken'
      BY <1>1, <1>29 DEF ToldOrTaken, WifiShape, Places, Radios, Credentials, LinkLost, Event,
             wifiVars, saidVars, radioVars, askVars, ghosts, counts
  <2>3. LastEventTells'
      BY <1>1, <1>29, EventComes DEF WifiShape, Places, Radios, EventTypes, LinkLost, Event,
             wifiVars, saidVars, radioVars, askVars, ghosts, counts
  <2>4. WillLook'
    <3>1. wifiEvents' = Append(wifiEvents, "disconnected") /\ wifiEvents \in Seq(EventTypes)
        BY <1>1, <1>29 DEF WifiShape, Places, Radios, LinkLost, Event, wifiVars, saidVars,
               radioVars, askVars, ghosts, counts
    <3>2. LossIn(wifiEvents')
        BY <3>1, LostGrows DEF EventTypes
    <3>3. QED
        BY <3>2 DEF WillLook, LossIn
  <2>5. OnlyAStation'
      BY <1>1, <1>29 DEF OnlyAStation, CommandSoFar, Dark, WifiShape, Places, Radios, LinkLost,
             Event, wifiVars, saidVars, radioVars, askVars, ghosts, counts
  <2>6. CommandSoFar'
      BY <1>1, <1>29 DEF CommandSoFar, FlagsFollow, OnlyAStation, Dark, WifiShape, Places,
             Radios, LinkLost, Event, wifiVars, saidVars, radioVars, askVars, ghosts, counts
  <2>7. QED
      BY <2>1, <2>2, <2>3, <2>4, <2>5, <2>6 DEF WifiInv
<1>30. CASE PowerLost
  <2>1. WifiShape'
    <3>2. (nvs \in Credentials /\ typed \in Credentials)'
        BY <1>1, <1>30 DEF WifiShape, PowerLost, Volatile, Stopped, NoAsk, Rest, wifiVars,
               saidVars, radioVars, askVars, ghosts, counts, Credentials
    <3>4. (ask \in Questions)'
        BY <1>1, <1>30 DEF WifiShape, PowerLost, Volatile, Stopped, NoAsk, Rest, wifiVars,
               saidVars, radioVars, askVars, ghosts, counts, Questions
    <3>5. (netAt \in Places)'
        BY <1>1, <1>30 DEF WifiShape, PowerLost, Volatile, Stopped, NoAsk, Rest, wifiVars,
               saidVars, radioVars, askVars, ghosts, counts, Places, NetSteps
    <3>6. (wifi \in Radios)'
        BY <1>1, <1>30 DEF WifiShape, PowerLost, Volatile, Stopped, NoAsk, Rest, wifiVars,
               saidVars, radioVars, askVars, ghosts, counts, Radios
    <3>7. (wifiEvents \in Seq(EventTypes) /\ handlerAt \in {"wait", "connect"})'
        BY <1>1, <1>30, WifiEventKinds, QueueGrows, EmptySeq DEF WifiShape, PowerLost, Volatile,
               Stopped, NoAsk, Rest, wifiVars, saidVars, radioVars, askVars, ghosts, counts
    <3>8. QED
        BY <1>1, <1>30, <3>2, <3>4, <3>5, <3>6, <3>7 DEF WifiShape, PowerLost, Volatile,
               Stopped, NoAsk, Rest, wifiVars, saidVars, radioVars, askVars, ghosts, counts
  <2>2. ToldOrTaken'
      BY <1>1, <1>30 DEF ToldOrTaken, WifiShape, Places, Radios, Credentials, PowerLost,
             Volatile, Stopped, NoAsk, Rest, wifiVars, saidVars, radioVars, askVars, ghosts,
             counts
  <2>3. LastEventTells'
      BY <1>30 DEF LastEventTells, PowerLost, Volatile, Stopped, NoAsk, Rest, wifiVars,
             saidVars, radioVars, askVars, ghosts, counts
  <2>4. WillLook'
      BY <1>1, <1>30 DEF WillLook, OnlyAStation, CommandSoFar, FlagsFollow, Dark, WifiShape,
             Places, Radios, PowerLost, Volatile, Stopped, NoAsk, Rest, wifiVars, saidVars,
             radioVars, askVars, ghosts, counts
  <2>5. OnlyAStation'
      BY <1>1, <1>30 DEF OnlyAStation, CommandSoFar, Dark, WifiShape, Places, Radios, PowerLost,
             Volatile, Stopped, NoAsk, Rest, wifiVars, saidVars, radioVars, askVars, ghosts,
             counts
  <2>6. CommandSoFar'
      BY <1>1, <1>30 DEF CommandSoFar, FlagsFollow, OnlyAStation, Dark, WifiShape, Places,
             Radios, PowerLost, Volatile, Stopped, NoAsk, Rest, wifiVars, saidVars, radioVars,
             askVars, ghosts, counts
  <2>7. QED
      BY <2>1, <2>2, <2>3, <2>4, <2>5, <2>6 DEF WifiInv
<1>31. CASE UNCHANGED wifiVars
  <2>1. WifiShape'
      BY <1>1, <1>31 DEF WifiShape, wifiVars, saidVars, radioVars, askVars, ghosts, counts
  <2>2. ToldOrTaken'
      BY <1>1, <1>31 DEF ToldOrTaken, WifiShape, Places, Radios, Credentials, wifiVars,
             saidVars, radioVars, askVars, ghosts, counts
  <2>3. LastEventTells'
      BY <1>1, <1>31, EventsLeft DEF OnlyAStation, CommandSoFar, Dark, WifiShape, Places,
             Radios, wifiVars, saidVars, radioVars, askVars, ghosts, counts
  <2>4. WillLook'
      BY <1>1, <1>31 DEF WillLook, OnlyAStation, CommandSoFar, FlagsFollow, Dark, WifiShape,
             Places, Radios, wifiVars, saidVars, radioVars, askVars, ghosts, counts
  <2>5. OnlyAStation'
      BY <1>1, <1>31 DEF OnlyAStation, CommandSoFar, Dark, WifiShape, Places, Radios, wifiVars,
             saidVars, radioVars, askVars, ghosts, counts
  <2>6. CommandSoFar'
      BY <1>1, <1>31 DEF CommandSoFar, FlagsFollow, OnlyAStation, Dark, WifiShape, Places,
             Radios, wifiVars, saidVars, radioVars, askVars, ghosts, counts
  <2>7. QED
      BY <2>1, <2>2, <2>3, <2>4, <2>5, <2>6 DEF WifiInv
<1>32. CASE Rejoin
    BY <1>1, <1>32, <1>2, <1>3 DEF Rejoin
<1>33. CASE AskEnds
    BY <1>1, <1>33, <1>6, <1>7, <1>8 DEF AskEnds, NetEnds, NetGoes
<1>34. CASE WifiOnce
    BY <1>1, <1>34, <1>11, <1>12 DEF WifiOnce
<1>35. CASE Cleared
    BY <1>1, <1>35, <1>16, <1>17, <1>18 DEF Cleared
<1>36. CASE RadioStarts
    BY <1>1, <1>36, <1>19, <1>20, <1>21, <1>22 DEF RadioStarts
<1>37. QED
    BY <1>32, <1>4, <1>5, <1>33, <1>9, <1>10, <1>34, <1>13, <1>14, <1>15, <1>35, <1>36, <1>23, <1>24, <1>25, <1>26, <1>27, <1>28, <1>29, <1>30, <1>31 DEF
           WifiNext

\* Once a command and its events are through, what the deck says of its network
\* is so, a station goes on trying, and what was typed is remembered (net.c).
THEOREM WifiIsAsSaid == WifiSpec => []WifiKept
<1>1. WifiInv => WifiKept
  <2> SUFFICES ASSUME WifiInv PROVE WifiKept
      OBVIOUS
  <2>1. WifiShape /\ ToldOrTaken /\ LastEventTells /\ WillLook /\ OnlyAStation /\ CommandSoFar
      BY DEF WifiInv
  <2>2. LinkIsAsSaid
      BY <2>1 DEF LinkIsAsSaid, Settled, LastEventTells, CommandSoFar, FlagsFollow
  <2>3. NeverGivesUp
      BY <2>1 DEF NeverGivesUp, Settled, WillLook, CommandSoFar, FlagsFollow, WifiShape, Places,
             Radios
  <2>4. RememberedWhenTyped
      BY <2>1 DEF RememberedWhenTyped, ToldOrTaken
  <2>5. QED
      BY <2>2, <2>3, <2>4 DEF WifiKept
<1>2. QED
    BY <1>1, WifiStarts, WifiSteps, PTL DEF WifiSpec

-----------------------------------------------------------------------------
(***************************************************************************)
(* The MIDI wires. A packet reads back as the times it was given, one      *)
(* after the other under its header; its last time is s_last_ts; while the *)
(* host it was begun for is there it fits that host's link.                *)
(***************************************************************************)
Messages == [lo : Nat, data : 0 .. 2, ts : Nat]
Packets == [hdr : Nat, msgs : Seq(Messages), n : Nat, same : BOOLEAN]
WireTyped ==
    /\ now \in Nat /\ lastTs \in Nat /\ queue \in Seq(Statuses \X Nat)
    /\ pkt \in Packets /\ link \in [up : BOOLEAN, mtu : Nat] /\ link.mtu >= DefaultMtu

Reads(p) == \A i \in 1 .. Len(p.msgs) :
    /\ i > 1 => Decoded(p, i) >= Decoded(p, i - 1)
    /\ Decoded(p, i) # p.msgs[i].ts =>
          p.msgs[i].ts < Decoded(p, i) /\ (i > 1 => Decoded(p, i) = Decoded(p, i - 1))
EndsNow == pkt.msgs # <<>> => lastTs = Decoded(pkt, Len(pkt.msgs))
FitsLink == pkt.msgs # <<>> /\ pkt.same /\ link.up => pkt.n <= link.mtu - 3
AirGood == air.pkt \in Packets /\ Reads(air.pkt) /\ air.fits
PacketInv == WireTyped /\ Reads(pkt) /\ EndsNow /\ FitsLink
WireInv == PacketInv /\ AirGood /\ WiresAgree

\* A stamp is split between header and message and is put together again.
LEMMA SplitStamp ==
    ASSUME NEW ts \in Nat
    PROVE  ts \div Lo \in Nat /\ ts % Lo \in Nat /\ (ts \div Lo) * Lo + (ts % Lo) = ts
    BY WireAssumption

\* The stamp of a moment is a number, and so is the moment.
LEMMA StampIsNat ==
    /\ Turn \in Nat \ {0}
    /\ \A when \in Nat : StampOf(when) \in Nat
<1>1. Us \in Nat \ {0} /\ Hi \in Nat \ {0} /\ Lo \in Nat \ {0}
    BY WireAssumption
<1>2. Hi * Lo \in Nat \ {0}
    BY <1>1
<1>3. Us * Hi \in Nat \ {0}
    BY <1>1
<1>4. Us * Hi * Lo \in Nat \ {0}
    BY <1>1, <1>3
<1>5. ASSUME NEW when \in Nat PROVE StampOf(when) \in Nat
  <2>1. Us \div 2 \in Nat
      BY <1>1
  <2>2. (when + Us \div 2) \div Us \in Nat
      BY <1>1, <2>1
  <2>3. QED
      BY <1>2, <2>2 DEF StampOf
<1>6. QED
    BY <1>4, <1>5 DEF Turn

\* What the empty packet is.
LEMMA EmptyPacket == Empty \in Packets /\ Reads(Empty) /\ Empty.msgs = <<>>
<1>1. /\ <<>> \in Seq(Messages) /\ Len(<<>>) = 0
    OBVIOUS
<1>2. PICK z : z = 0
    OBVIOUS
<1>3. PICK s : s = <<>>
    OBVIOUS
<1>4. PICK b : b = TRUE
    OBVIOUS
<1>5. Empty = [hdr |-> z, msgs |-> s, n |-> z, same |-> b]
    BY <1>2, <1>3, <1>4 DEF Empty
<1>6. z \in Nat /\ s \in Seq(Messages) /\ b \in BOOLEAN /\ Len(s) = 0
    BY <1>1, <1>2, <1>3, <1>4
<1>7. Empty \in Packets /\ Empty.msgs = s
    BY <1>5, <1>6 DEF Packets
<1>8. QED
    BY <1>3, <1>6, <1>7 DEF Reads

\* Where a message stamped ts, or ts for s, may go on from a packet; and that it did.
CanFollow(p, ts, s) ==
    p.msgs # <<>> => /\ p.hdr = ts \div Lo
                     /\ Decoded(p, Len(p.msgs)) <= ts
                     /\ ts # s => Decoded(p, Len(p.msgs)) = ts
ReadsOn(p, q, d, ts) ==
    /\ q \in Packets /\ q.msgs # <<>> /\ Reads(q)
    /\ Decoded(q, Len(q.msgs)) = ts
    /\ q.same => p.msgs = <<>> \/ p.same
    /\ q.n = IF p.msgs = <<>> THEN 3 + d ELSE p.n + 2 + d

\* A message put in a packet: the packet reads on from where it ended.
LEMMA PackedReads ==
    ASSUME NEW p \in Packets, Reads(p), NEW ts \in Nat, NEW s \in Nat, NEW d \in 0 .. 2,
           s <= ts, CanFollow(p, ts, s)
    PROVE  ReadsOn(p, Packed(p, ts, [lo |-> ts % Lo, data |-> d, ts |-> s]), d, ts)
<1> DEFINE m == [lo |-> ts % Lo, data |-> d, ts |-> s]
           q == Packed(p, ts, m)
<1> SUFFICES /\ q \in Packets /\ q.msgs # <<>> /\ Reads(q)
             /\ Decoded(q, Len(q.msgs)) = ts
             /\ (q.same => p.msgs = <<>> \/ p.same)
             /\ q.n = IF p.msgs = <<>> THEN 3 + d ELSE p.n + 2 + d
    BY DEF ReadsOn
<1>1. /\ ts \div Lo \in Nat /\ ts % Lo \in Nat /\ (ts \div Lo) * Lo + (ts % Lo) = ts
      /\ Lo \in Nat
    BY SplitStamp, WireAssumption
<1>2. m \in Messages /\ m.lo = ts % Lo /\ m.ts = s /\ m.data = d
    BY <1>1 DEF Messages
<1>3. p.msgs \in Seq(Messages) /\ p.n \in Nat /\ p.hdr \in Nat /\ p.same \in BOOLEAN
    BY DEF Packets
<1> HIDE DEF m
<1>4. CASE p.msgs = <<>>
  <2>1. /\ <<m>> \in Seq(Messages) /\ <<m>> # <<>> /\ Len(<<m>>) = 1 /\ <<m>>[1] = m
      BY <1>2
  <2>2. PICK b : b = TRUE
      OBVIOUS
  <2>3. b \in BOOLEAN
      BY <2>2
  <2>4. PICK c : c = <<m>>
      OBVIOUS
  <2>5. PICK k \in Nat : k = 3 + d
      OBVIOUS
  <2>6. q = [hdr |-> ts \div Lo, msgs |-> c, n |-> k, same |-> b]
      BY <1>2, <1>4, <2>2, <2>4, <2>5 DEF Packed
  <2>7. c \in Seq(Messages) /\ c # <<>> /\ Len(c) = 1 /\ c[1] = m
      BY <2>1, <2>4
  <2>8. /\ q \in Packets /\ q.msgs = c /\ q.hdr = ts \div Lo /\ q.same = b /\ q.n = k
      BY <1>1, <2>3, <2>6, <2>7 DEF Packets
  <2> HIDE DEF q
  <2>9. Decoded(q, 1) = ts /\ q.msgs[1].ts = s /\ Len(q.msgs) = 1
      BY <1>1, <1>2, <2>7, <2>8 DEF Decoded
  <2>10. Reads(q)
      BY <2>9 DEF Reads
  <2>11. (q.same => p.msgs = <<>> \/ p.same)
      BY <1>4, <2>2, <2>8
  <2>12. QED
      BY <1>4, <2>5, <2>7, <2>8, <2>9, <2>10, <2>11
<1>5. CASE p.msgs # <<>>
  <2> DEFINE n == Len(p.msgs)
             c == Append(p.msgs, m)
  <2>0. p.hdr = ts \div Lo /\ Decoded(p, n) <= ts /\ (ts # s => Decoded(p, n) = ts)
      BY <1>5 DEF CanFollow
  <2>1. /\ c \in Seq(Messages) /\ c # <<>> /\ Len(c) = n + 1 /\ c[n + 1] = m /\ n \in Nat
        /\ \A i \in 1 .. n : c[i] = p.msgs[i]
      BY <1>2, <1>3, QueueGrows
  <2>2. PICK k \in Nat : k = p.n + 2 + d
      BY <1>3
  <2>3. PICK t : t = c
      OBVIOUS
  <2>4. q = [p EXCEPT !.msgs = t, !.n = k]
      BY <1>2, <1>5, <2>2, <2>3 DEF Packed
  <2>5. t \in Seq(Messages)
      BY <2>1, <2>3
  <2>6. /\ q \in Packets /\ q.msgs = t /\ q.hdr = p.hdr /\ q.same = p.same /\ q.n = k
      BY <2>4, <2>5 DEF Packets
  <2>7. n > 0
      BY <1>3, <1>5, EmptySeq
  <2> HIDE DEF q, c
  <2>8. \A i \in 1 .. n : Decoded(q, i) = Decoded(p, i) /\ q.msgs[i] = p.msgs[i]
      BY <2>1, <2>3, <2>6 DEF Decoded
  <2>9. Decoded(q, n + 1) = ts /\ q.msgs[n + 1].ts = s /\ Len(q.msgs) = n + 1
      BY <1>1, <1>2, <2>0, <2>1, <2>3, <2>6 DEF Decoded
  <2>10. ASSUME NEW i \in 1 .. n + 1
         PROVE  /\ i > 1 => Decoded(q, i) >= Decoded(q, i - 1)
                /\ Decoded(q, i) # q.msgs[i].ts =>
                     /\ q.msgs[i].ts < Decoded(q, i)
                     /\ i > 1 => Decoded(q, i) = Decoded(q, i - 1)
    <3>1. CASE i <= n
      <4>1. i \in 1 .. n /\ (i > 1 => i - 1 \in 1 .. n)
          BY <2>1, <3>1
      <4>2. QED
          BY <4>1, <2>8 DEF Reads
    <3>2. CASE i = n + 1
      <4>1. n \in 1 .. n /\ i - 1 = n
          BY <2>1, <2>7, <3>2
      <4>2. Decoded(q, i - 1) = Decoded(p, n)
          BY <2>8, <4>1
      <4>3. QED
          BY <2>0, <2>9, <3>2, <4>2
    <3>3. QED
        BY <2>1, <3>1, <3>2
  <2>11. Reads(q)
      BY <2>9, <2>10 DEF Reads
  <2>12. q.msgs # <<>> /\ Decoded(q, Len(q.msgs)) = ts
      BY <2>1, <2>3, <2>6, <2>9
  <2>13. QED
      BY <1>5, <2>2, <2>6, <2>11, <2>12
<1>6. QED
    BY <1>4, <1>5

\* A packet that holds no more than it may and fits the link it is begun on.
LEMMA LimitFits ==
    ASSUME WireTyped, link.up
    PROVE  /\ PktMin <= link.mtu - 3 /\ PktLimit <= link.mtu - 3 /\ link.mtu \in Nat
           /\ PktMin >= 5 /\ PktMin \in Nat /\ PktLimit \in Int
<1>1. link.mtu \in Nat /\ link.mtu >= DefaultMtu
    BY DEF WireTyped
<1>2. PktMin \in Nat /\ PktMax \in Nat /\ DefaultMtu \in Nat
    BY WireAssumption
<1>3. PktMin >= 5 /\ DefaultMtu >= PktMin + 3
    BY PacketAssumption
<1>4. PICK mtu : mtu = link.mtu
    OBVIOUS
<1>5. PktLimit = IF mtu - 3 < PktMin THEN PktMin ELSE IF mtu - 3 > PktMax THEN PktMax ELSE mtu - 3
    BY <1>4 DEF PktLimit
<1>6. QED
    BY <1>1, <1>2, <1>3, <1>4, <1>5

\* blemidi_send() keeps the packet good, and what it sends of it was.
LEMMA BleSendKeeps ==
    ASSUME PacketInv, NEW st \in Statuses, NEW when \in Nat, BleSend(st, when),
           UNCHANGED <<link, now>>, queue' \in Seq(Statuses \X Nat)
    PROVE  PacketInv' /\ AirGood'
<1>0. WireTyped /\ pkt \in Packets /\ lastTs \in Nat /\ link \in [up : BOOLEAN, mtu : Nat]
    BY DEF PacketInv, WireTyped
<1>1. CASE ~link.up \/ Internal(st)
  <2>1. air' = Silence /\ UNCHANGED <<pkt, lastTs>>
      BY <1>1 DEF BleSend
  <2>2. PICK e : e = Empty
      OBVIOUS
  <2>3. air'.pkt = Empty /\ air'.fits
      BY <2>1 DEF Silence
  <2>4. AirGood'
      BY <2>3, EmptyPacket DEF AirGood, Reads, Decoded
  <2>5. QED
      BY <2>1, <2>4 DEF PacketInv, WireTyped, Reads, Decoded, EndsNow, FitsLink
<1>2. CASE link.up /\ ~Internal(st)
  <2> DEFINE s == StampOf(when)
             ts == Clamped(s)
             d == BleData(st)
             closes == Closes(ts, 2 + d)
             p == IF closes THEN Empty ELSE pkt
             m == [lo |-> ts % Lo, data |-> d, ts |-> s]
  <2>1. s \in Nat /\ ts \in Nat /\ s <= ts /\ d \in 0 .. 2
        /\ (pkt.msgs # <<>> => lastTs <= ts /\ (ts # s => lastTs = ts))
    <3>1. s \in Nat
        BY StampIsNat
    <3>2. d \in 0 .. 2
        BY DEF BleData, Channel
    <3>3. QED
        BY <1>0, <3>1, <3>2 DEF Clamped
  <2>2. /\ lastTs' = ts /\ pkt' = Packed(p, ts, m)
        /\ IF closes THEN Notify(pkt) ELSE air' = Silence
      BY <1>2 DEF BleSend
  <2> HIDE DEF s, ts, d
  <2>3. /\ p \in Packets /\ Reads(p)
        /\ p.msgs # <<>> => p = pkt /\ ~closes /\ pkt.msgs # <<>>
      BY <1>0, EmptyPacket DEF PacketInv
  <2>4. CanFollow(p, ts, s)
    <3>1. SUFFICES ASSUME p.msgs # <<>>
                   PROVE  /\ p.hdr = ts \div Lo
                          /\ Decoded(p, Len(p.msgs)) <= ts
                          /\ ts # s => Decoded(p, Len(p.msgs)) = ts
        BY DEF CanFollow
    <3>2. pkt.hdr = ts \div Lo
        BY <2>3, <3>1 DEF Closes
    <3>3. lastTs = Decoded(pkt, Len(pkt.msgs))
        BY <2>3, <3>1 DEF PacketInv, EndsNow
    <3>4. QED
        BY <2>1, <2>3, <3>1, <3>2, <3>3
  <2>5. /\ pkt' \in Packets /\ pkt'.msgs # <<>> /\ Reads(pkt')
        /\ Decoded(pkt', Len(pkt'.msgs)) = ts
        /\ (pkt'.same => p.msgs = <<>> \/ p.same)
        /\ pkt'.n = IF p.msgs = <<>> THEN 3 + d ELSE p.n + 2 + d
    <3> HIDE DEF p
    <3>1. ReadsOn(p, Packed(p, ts, m), d, ts)
        BY <2>1, <2>3, <2>4, PackedReads
    <3>2. QED
        BY <2>2, <3>1 DEF ReadsOn
  <2>6. /\ PktMin <= link.mtu - 3 /\ PktLimit <= link.mtu - 3 /\ link.mtu \in Nat /\ PktMin >= 5
        /\ PktMin \in Nat /\ PktLimit \in Int
      BY <1>0, <1>2, LimitFits, WireAssumption
  <2>7. pkt'.same => pkt'.n <= link.mtu - 3
    <3>1. CASE p.msgs = <<>>
        BY <2>1, <2>5, <2>6, <3>1
    <3>2. CASE p.msgs # <<>>
      <4>1. ~(pkt.n + (2 + d) > PktLimit) /\ p = pkt
          BY <2>3, <3>2 DEF Closes
      <4>2. pkt.n \in Nat
          BY <1>0 DEF Packets
      <4>3. pkt'.n = pkt.n + 2 + d
          BY <2>5, <3>2, <4>1
      <4>4. PICK k, lim, top : k = pkt.n /\ lim = PktLimit /\ top = link.mtu - 3
          OBVIOUS
      <4>5. k \in Nat /\ lim \in Int /\ d \in 0 .. 2 /\ ~(k + (2 + d) > lim)
          BY <2>1, <2>6, <4>1, <4>2, <4>4
      <4>6. k + 2 + d <= lim
          BY <4>5
      <4>7. lim <= top /\ top \in Int
          BY <2>6, <4>4
      <4>8. k + 2 + d <= top
          BY <4>5, <4>6, <4>7
      <4>9. QED
          BY <4>3, <4>4, <4>8
    <3>3. QED
        BY <3>1, <3>2
  <2>8. PacketInv'
    <3>1. WireTyped'
        BY <1>0, <2>1, <2>2, <2>5 DEF WireTyped
    <3>2. Reads(pkt)'
        BY <2>5 DEF Reads, Decoded
    <3>3. EndsNow'
        BY <2>2, <2>5 DEF EndsNow, Decoded
    <3>4. FitsLink'
        BY <2>7 DEF FitsLink
    <3>5. QED
        BY <3>1, <3>2, <3>3, <3>4 DEF PacketInv
  <2>9. AirGood'
    <3>1. CASE closes
      <4>1. Notify(pkt) /\ pkt.msgs # <<>>
          BY <2>2, <3>1 DEF Closes
      <4>2. air'.pkt = pkt /\ air'.fits = (pkt.n <= link.mtu - 3 \/ ~pkt.same)
          BY <4>1 DEF Notify
      <4>3. air'.fits
          BY <1>2, <4>1, <4>2 DEF PacketInv, FitsLink
      <4>4. QED
          BY <1>0, <4>2, <4>3 DEF PacketInv, AirGood, Reads, Decoded
    <3>2. CASE ~closes
      <4>1. air' = Silence
          BY <2>2, <3>2
      <4>2. air'.pkt = Empty /\ air'.fits
          BY <4>1 DEF Silence
      <4>3. QED
          BY <4>2, EmptyPacket DEF AirGood, Reads, Decoded
    <3>3. QED
        BY <3>1, <3>2
  <2>10. QED
      BY <2>8, <2>9
<1>3. QED
    BY <1>0, <1>1, <1>2

\* blemidi_flush() the same.
LEMMA BleFlushKeeps ==
    ASSUME PacketInv, BleFlush, UNCHANGED <<link, now, queue>>
    PROVE  PacketInv' /\ AirGood'
<1>0. WireTyped /\ pkt \in Packets /\ lastTs \in Nat
    BY DEF PacketInv, WireTyped
<1>1. pkt' = Empty /\ lastTs' = lastTs
    BY DEF BleFlush
<1>2. PacketInv'
  <2>1. WireTyped'
      BY <1>0, <1>1, EmptyPacket DEF WireTyped
  <2>2. Reads(pkt)'
      BY <1>1, EmptyPacket DEF Reads, Decoded
  <2>3. EndsNow' /\ FitsLink'
      BY <1>1, EmptyPacket DEF EndsNow, FitsLink
  <2>4. QED
      BY <2>1, <2>2, <2>3 DEF PacketInv
<1>3. CASE pkt.msgs = <<>> \/ ~link.up
  <2>1. air'.pkt = Empty /\ air'.fits
      BY <1>3 DEF BleFlush, Silence
  <2>2. QED
      BY <1>2, <2>1, EmptyPacket DEF AirGood, Reads, Decoded
<1>4. CASE ~(pkt.msgs = <<>> \/ ~link.up)
  <2>1. air'.pkt = pkt /\ air'.fits = (pkt.n <= link.mtu - 3 \/ ~pkt.same)
      BY <1>4 DEF BleFlush, Notify
  <2>2. air'.fits
      BY <1>4, <2>1 DEF PacketInv, FitsLink
  <2>3. QED
      BY <1>0, <1>2, <2>1, <2>2 DEF PacketInv, AirGood, Reads, Decoded
<1>5. QED
    BY <1>2, <1>3, <1>4

\* Whoever writes an event writes as many bytes of it.
LEMMA LengthsAgree ==
    ASSUME NEW st \in Statuses, ~Internal(st)
    PROVE  st # 249 /\ \A d, e \in Dests : Data(d, st) = Data(e, st)
<1>1. st \in (128 .. 191) \cup {242} \cup (248 .. 255) /\ st # 249
    BY StatusAssumption DEF Internal
<1>2. BleData(st) = UsbData(st) /\ DinData(st) = UsbData(st)
  <2>1. CASE st \in 128 .. 191
    <3>1. st \div 16 \notin {12, 13}
        BY <2>1
    <3>2. QED
        BY <2>1, <3>1 DEF BleData, UsbData, DinData, Channel
  <2>2. CASE st = 242
      BY <2>2 DEF BleData, UsbData, DinData
  <2>3. CASE st \in 248 .. 255
      BY <2>3 DEF BleData, UsbData, DinData
  <2>4. QED
      BY <1>1, <2>1, <2>2, <2>3
<1>3. \A d \in Dests : Data(d, st) = UsbData(st)
    BY <1>2 DEF Dests, Data
<1>4. QED
    BY <1>1, <1>3

LEMMA WireStarts == WireInit => WireInv
<1>1. SUFFICES ASSUME WireInit PROVE WireInv
    OBVIOUS
<1>2. WireTyped
  <2>1. link \in [up : BOOLEAN, mtu : Nat] /\ link.mtu >= DefaultMtu
    <3>1. PICK b : b = FALSE
        OBVIOUS
    <3>2. link = [up |-> b, mtu |-> DefaultMtu] /\ b \in BOOLEAN
        BY <1>1, <3>1 DEF WireInit
    <3>3. QED
        BY <3>2, WireAssumption
  <2>2. QED
      BY <1>1, <2>1, EmptyPacket DEF WireInit, WireTyped
<1>3. air.pkt = Empty /\ air.fits
    BY <1>1 DEF WireInit, Silence
<1>4. QED
    BY <1>1, <1>2, <1>3, EmptyPacket
    DEF WireInit, WireInv, PacketInv, EndsNow, FitsLink, AirGood, WiresAgree

\* A step that leaves the packet, the link and the notification alone.
LEMMA PacketAlone ==
    ASSUME WireInv, UNCHANGED <<pkt, link, lastTs, air, wire>>, now' \in Nat,
           queue' \in Seq(Statuses \X Nat)
    PROVE  WireInv'
<1>1. WireTyped'
    BY DEF WireInv, PacketInv, WireTyped
<1>2. QED
    BY <1>1 DEF WireInv, PacketInv, EndsNow, FitsLink, AirGood, WiresAgree, Reads, Decoded

LEMMA WireStep == WireInv /\ [WireNext]_wireVars => WireInv'
<1>1. SUFFICES ASSUME WireInv, [WireNext]_wireVars PROVE WireInv'
    OBVIOUS
<1>2. /\ WireTyped /\ PacketInv /\ AirGood /\ WiresAgree /\ now \in Nat /\ pkt \in Packets
      /\ queue \in Seq(Statuses \X Nat) /\ link \in [up : BOOLEAN, mtu : Nat]
    BY <1>1 DEF WireInv, PacketInv, WireTyped
<1>3. CASE Enqueue
  <2>1. PICK st \in Statuses, passed \in 0 .. MaxStep, late \in 0 .. MaxLate :
            /\ now' = (now + passed) % Turn
            /\ queue' = Append(queue, <<st, (now + passed + Turn - late) % Turn>>)
      BY <1>3 DEF Enqueue
  <2>2. now' \in Nat /\ (now + passed + Turn - late) % Turn \in Nat
      BY <1>2, <2>1, StampIsNat
  <2>3. queue' \in Seq(Statuses \X Nat)
    <3>1. PICK e : e = <<st, (now + passed + Turn - late) % Turn>>
        OBVIOUS
    <3>2. e \in Statuses \X Nat
        BY <2>2, <3>1
    <3>3. QED
        BY <1>2, <2>1, <3>1, <3>2, QueueGrows
  <2>4. QED
      BY <1>1, <1>3, <2>2, <2>3, PacketAlone DEF Enqueue
<1>4. CASE Drain
  <2> DEFINE st == Head(queue)[1]
             when == Head(queue)[2]
  <2>1. /\ queue # <<>> /\ queue' = Tail(queue) /\ UNCHANGED <<now, link>>
        /\ IF "ble" \in destOn THEN BleSend(st, when) ELSE air' = Silence /\ UNCHANGED <<pkt, lastTs>>
        /\ \E ds \in SUBSET {d \in Dests : Ready(d) /\ ~Internal(st)} :
              wire' = {<<st, Data(d, st)>> : d \in ds}
      BY <1>4 DEF Drain
  <2>2. queue' \in Seq(Statuses \X Nat) /\ Head(queue) \in Statuses \X Nat
      BY <1>2, <2>1, QueueShrinks
  <2>3. st \in Statuses /\ when \in Nat
      BY <2>2
  <2>4. PacketInv' /\ AirGood'
    <3>1. CASE "ble" \in destOn
        BY <1>2, <2>1, <2>2, <2>3, <3>1, BleSendKeeps
    <3>2. CASE "ble" \notin destOn
      <4>1. air' = Silence /\ UNCHANGED <<pkt, lastTs>>
          BY <2>1, <3>2
      <4>2. air'.pkt = Empty /\ air'.fits
          BY <4>1 DEF Silence
      <4>3. AirGood'
          BY <4>2, EmptyPacket DEF AirGood, Reads, Decoded
      <4>4. WireTyped'
          BY <1>2, <2>1, <2>2, <4>1 DEF WireTyped
      <4>5. QED
          BY <1>2, <2>1, <4>1, <4>3, <4>4 DEF PacketInv, EndsNow, FitsLink, Reads, Decoded
    <3>3. QED
        BY <3>1, <3>2
  <2>5. WiresAgree'
    <3>1. PICK ds \in SUBSET {d \in Dests : Ready(d) /\ ~Internal(st)} :
              wire' = {<<st, Data(d, st)>> : d \in ds}
        BY <2>1
    <3>2. CASE Internal(st)
      <4>1. wire' = {}
          BY <3>1, <3>2
      <4>2. QED
          BY <4>1 DEF WiresAgree
    <3>3. CASE ~Internal(st)
      <4>1. st # 249 /\ \A d, e \in Dests : Data(d, st) = Data(e, st)
          BY <2>3, <3>3, LengthsAgree
      <4>2. ds \subseteq Dests
          BY <3>1
      <4>3. \A w \in wire' : \E d \in Dests : w = <<st, Data(d, st)>>
          BY <3>1, <4>2
      <4>4. \A w \in wire' : w[1] # 249
          BY <4>1, <4>3
      <4>5. \A a, b \in wire' : a = b
          BY <4>1, <4>3
      <4>6. QED
          BY <4>4, <4>5 DEF WiresAgree
    <3>4. QED
        BY <3>2, <3>3
  <2>6. QED
      BY <2>4, <2>5 DEF WireInv
<1>5. CASE Flush
  <2>1. /\ UNCHANGED <<now, queue, link>> /\ wire' = {}
        /\ IF "ble" \in destOn THEN BleFlush ELSE air' = Silence /\ UNCHANGED <<pkt, lastTs>>
      BY <1>5 DEF Flush
  <2>2. PacketInv' /\ AirGood'
    <3>1. CASE "ble" \in destOn
        BY <1>2, <2>1, <3>1, BleFlushKeeps
    <3>2. CASE "ble" \notin destOn
      <4>1. air' = Silence /\ UNCHANGED <<pkt, lastTs>>
          BY <2>1, <3>2
      <4>2. air'.pkt = Empty /\ air'.fits
          BY <4>1 DEF Silence
      <4>3. AirGood'
          BY <4>2, EmptyPacket DEF AirGood, Reads, Decoded
      <4>4. QED
          BY <1>2, <2>1, <4>1, <4>3 DEF PacketInv, WireTyped, EndsNow, FitsLink, Reads, Decoded
    <3>3. QED
        BY <3>1, <3>2
  <2>3. QED
      BY <2>1, <2>2 DEF WireInv, WiresAgree
<1>6. CASE Send
    BY <1>1, <1>2, <1>6, PacketAlone DEF Send
<1>7. CASE HostComes
  <2>1. /\ link' = [up |-> TRUE, mtu |-> DefaultMtu]
        /\ pkt' = IF pkt = Empty THEN pkt ELSE [pkt EXCEPT !.same = FALSE]
        /\ UNCHANGED <<now, queue, lastTs, air, wire>>
      BY <1>7 DEF HostComes
  <2>2. link' \in [up : BOOLEAN, mtu : Nat] /\ link'.mtu >= DefaultMtu
    <3>1. PICK b : b = TRUE
        OBVIOUS
    <3>2. link' = [up |-> b, mtu |-> DefaultMtu] /\ b \in BOOLEAN
        BY <2>1, <3>1
    <3>3. QED
        BY <3>2, WireAssumption
  <2>3. /\ pkt' \in Packets /\ pkt'.msgs = pkt.msgs /\ pkt'.hdr = pkt.hdr
        /\ pkt.msgs # <<>> => ~pkt'.same
    <3>1. CASE pkt = Empty
        BY <1>2, <2>1, <3>1, EmptyPacket
    <3>2. CASE pkt # Empty
      <4>1. PICK b : b = FALSE
          OBVIOUS
      <4>2. pkt' = [pkt EXCEPT !.same = b] /\ b \in BOOLEAN
          BY <2>1, <3>2, <4>1
      <4>3. pkt' \in Packets /\ pkt'.msgs = pkt.msgs /\ pkt'.hdr = pkt.hdr /\ pkt'.same = b
          BY <1>2, <4>2 DEF Packets
      <4>4. QED
          BY <4>1, <4>3
    <3>3. QED
        BY <3>1, <3>2
  <2>4. WireTyped'
      BY <1>2, <2>1, <2>2, <2>3 DEF WireTyped
  <2>5. QED
      BY <1>2, <2>1, <2>3, <2>4
      DEF WireInv, PacketInv, EndsNow, FitsLink, AirGood, WiresAgree, Reads, Decoded
<1>8. CASE HostAgrees
  <2>1. PICK mtu \in Mtus : link.up /\ mtu > link.mtu /\ link' = [link EXCEPT !.mtu = mtu]
      BY <1>8 DEF HostAgrees
  <2>2. UNCHANGED <<now, queue, pkt, lastTs, air, wire>>
      BY <1>8 DEF HostAgrees
  <2>3. /\ link' \in [up : BOOLEAN, mtu : Nat] /\ link'.mtu > link.mtu /\ link'.up = link.up
        /\ link.mtu >= DefaultMtu /\ DefaultMtu \in Nat /\ link.mtu \in Nat /\ link'.mtu \in Nat
      BY <1>2, <2>1, WireAssumption DEF WireTyped
  <2>4. WireTyped'
      BY <1>2, <2>2, <2>3 DEF WireTyped
  <2>5. FitsLink'
    <3>1. pkt.n \in Nat
        BY <1>2 DEF Packets
    <3>2. QED
        BY <1>2, <2>2, <2>3, <3>1 DEF PacketInv, FitsLink
  <2>6. QED
      BY <1>2, <2>2, <2>4, <2>5
      DEF WireInv, PacketInv, EndsNow, AirGood, WiresAgree, Reads, Decoded
<1>9. CASE HostGoes
  <2>1. /\ link' = [link EXCEPT !.up = FALSE, !.mtu = DefaultMtu]
        /\ UNCHANGED <<now, queue, pkt, lastTs, air, wire>>
      BY <1>9 DEF HostGoes
  <2>2. link' \in [up : BOOLEAN, mtu : Nat] /\ link'.mtu >= DefaultMtu /\ ~link'.up
    <3>1. PICK b : b = FALSE
        OBVIOUS
    <3>2. link' = [link EXCEPT !.up = b, !.mtu = DefaultMtu] /\ b \in BOOLEAN
        BY <2>1, <3>1
    <3>3. link' \in [up : BOOLEAN, mtu : Nat] /\ link'.up = b /\ link'.mtu = DefaultMtu
        BY <1>2, <3>2, WireAssumption
    <3>4. QED
        BY <3>1, <3>3, WireAssumption
  <2>3. WireTyped' /\ FitsLink'
      BY <1>2, <2>1, <2>2 DEF WireTyped, FitsLink
  <2>4. QED
      BY <1>2, <2>1, <2>3
      DEF WireInv, PacketInv, EndsNow, AirGood, WiresAgree, Reads, Decoded
<1>10. CASE UNCHANGED wireVars
    BY <1>1, <1>2, <1>10, PacketAlone DEF wireVars
<1>11. QED
    BY <1>1, <1>3, <1>4, <1>5, <1>6, <1>7, <1>8, <1>9, <1>10 DEF WireNext

LEMMA PacketReadsBack == WireInv => PacketIsRead
<1>1. SUFFICES ASSUME WireInv PROVE PacketIsRead
    OBVIOUS
<1>2. pkt.msgs \in Seq(Messages) /\ air.pkt.msgs \in Seq(Messages)
    BY <1>1 DEF WireInv, PacketInv, WireTyped, AirGood, Packets
<1>3. DOMAIN pkt.msgs = 1 .. Len(pkt.msgs) /\ DOMAIN air.pkt.msgs = 1 .. Len(air.pkt.msgs)
    BY <1>2
<1>4. Reads(pkt) /\ Reads(air.pkt) /\ air.fits /\ WiresAgree
    BY <1>1 DEF WireInv, PacketInv, AirGood
<1>5. PacketTellsTheTime
    BY <1>3, <1>4 DEF PacketTellsTheTime, Reads
<1>6. QED
    BY <1>4, <1>5 DEF PacketIsRead, NotificationFits

WireSpec == WireInit /\ [][WireNext]_wireVars

(* Whatever is queued, however late, and whichever hosts come and go: a      *)
(* notification carries the times its messages were given, fits the link it  *)
(* goes out on, and every wire writes the same (blemidi_send, midi_datalen). *)
THEOREM WhatIsSentIsRead == WireSpec => []PacketIsRead
<1>1. WireInit => WireInv
    BY WireStarts
<1>2. WireInv /\ [WireNext]_wireVars => WireInv'
    BY WireStep
<1>3. WireInv => PacketIsRead
    BY PacketReadsBack
<1>4. QED
    BY <1>1, <1>2, <1>3, PTL DEF WireSpec
=============================================================================
