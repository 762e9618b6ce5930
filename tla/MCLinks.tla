------------------------------- MODULE MCLinks -------------------------------
(* The deck's links to other machines - BLE MIDI, the MIDI wires, the UART,   *)
(* OSC both ways, Wi-Fi - on small instances. None of them reads another's    *)
(* state, so one run checks them side by side: a behaviour is one of theirs   *)
(* while the others wait in their first state.                                *)
EXTENDS BlePeripheral, MidiWire, DinPort, OscWire, OscListen, WifiLink

(***************************************************************************)
(* Datagrams of other senders: a message of every type, alone, in a bundle *)
(* and two together; and the same with one fault in each.                  *)
(***************************************************************************)
Says(name, ts, args, v) ==
    [words |-> Address(name) \o Tags(ts) \o args, says |-> [name |-> name, value |-> v]]
Messages == {
    Says("k", <<"f">>, <<Half(1)>>, 64),
    Says("k", <<"i", "i">>, <<Num(300), Num(-3)>>, 0),
    Says("k", <<"s", "f">>, <<Text("x", "x", FALSE), Text("y", "y", TRUE), Half(3)>>, 2),
    Says("k", <<"b", "T">>, <<Num(5), Num(1), Num(2)>>, 1),
    Says("k", <<"h", "N">>, <<Num(0), Num(9)>>, 9),
    [words |-> Address("k"), says |-> [name |-> "k", value |-> 127]] }
Wrap(ws) == <<Bundle, Num(0), Num(0), Num(1), Num(4 * Len(ws))>> \o ws
InBundles[n \in 0..(Depth + 1), ws \in {m.words : m \in Messages}] ==
    IF n = 0 THEN ws ELSE Wrap(InBundles[n - 1, ws])

Good(ws, ms) == Datagram(ws, 0, ms, TRUE)
Bad(ws, odd) == Datagram(ws, odd, <<>>, FALSE)
Few == {m \in Messages : Len(m.words) < 5}
GoodOnes ==
    UNION {{Good(InBundles[n, m.words], <<m.says>>) : n \in 0..Depth} : m \in Messages}
    \cup {Good(a.words \o b.words, <<a.says, b.says>>) : a, b \in Few}
Faults(ws) == {
    Bad(Front(ws), 0), Bad(ws, 2), Bad(InBundles[Depth + 1, ws], 0), Bad(Front(Wrap(ws)), 0),
    Bad([Wrap(ws) EXCEPT ![5] = Num(0)], 0), Bad([Wrap(ws) EXCEPT ![5] = Num(2)], 0),
    Bad(ws \o Address("k") \o Tags(<<"?">>), 0), Bad(ws \o <<Num(1)>>, 0) }
BadOnes == UNION {Faults(m.words) : m \in Messages}
MCOthers == {d \in GoodOnes \cup BadOnes : Len(d.words) <= ReadWords}
MCEvents == {
    [lane |-> "k", status |-> 144, d1 |-> 36, d2 |-> 100],
    [lane |-> "k", status |-> 128, d1 |-> 36, d2 |-> 0],
    [lane |-> "c", status |-> 176, d1 |-> 74, d2 |-> 0],
    [lane |-> "", status |-> 249, d1 |-> 3, d2 |-> 0] }

LinksTypeOK == PeripheralTypeOK /\ WireTypeOK /\ DinTypeOK /\ OscTypeOK /\ ListenTypeOK /\ WifiTypeOK

Init == PeripheralInit /\ WireInit /\ DinInit /\ OscInit /\ ListenInit /\ WifiInit

PeripheralWaits == PeripheralInit /\ UNCHANGED perVars
WireWaits == WireInit /\ destOn = {} /\ UNCHANGED wireVars
DinWaits == DinInit /\ UNCHANGED dinVars
OscWaits == OscInit /\ UNCHANGED oscVars
ListenWaits == ListenInit /\ UNCHANGED listenVars
WifiWaits == WifiInit /\ UNCHANGED wifiVars

Next ==
    \/ /\ WireWaits /\ DinWaits /\ OscWaits /\ ListenWaits /\ WifiWaits
       /\ PeripheralNext
    \/ /\ PeripheralWaits /\ DinWaits /\ OscWaits /\ ListenWaits /\ WifiWaits
       /\ WireNext
    \/ /\ PeripheralWaits /\ WireWaits /\ OscWaits /\ ListenWaits /\ WifiWaits
       /\ DinNext
    \/ /\ PeripheralWaits /\ WireWaits /\ DinWaits /\ ListenWaits /\ WifiWaits
       /\ OscNext
    \/ /\ PeripheralWaits /\ WireWaits /\ DinWaits /\ OscWaits /\ WifiWaits
       /\ ListenNext
    \/ /\ PeripheralWaits /\ WireWaits /\ DinWaits /\ OscWaits /\ ListenWaits
       /\ WifiNext

Spec == Init /\ [][Next]_<<perVars, wireVars, dinVars, oscVars, listenVars, wifiVars>>
=============================================================================
