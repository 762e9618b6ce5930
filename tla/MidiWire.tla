------------------------------ MODULE MidiWire ------------------------------
(* What the deck puts on its wires: the MIDI task drains the queue the clock  *)
(* filled (seq.c midi_task) and hands every event to the destinations that    *)
(* are on. BLE packs them under one header and a timestamp each (blemidi.c),  *)
(* USB sends each on its own (usbdev.c), DIN writes bytes to a UART           *)
(* (dinmidi.c). The host, its MTU and the buffers of the stacks are external; *)
(* the numbers of the format are constants, so that a small instance wraps.   *)
EXTENDS Integers, Sequences, SequencesExt

CONSTANTS
    Statuses,     \* status bytes the deck queues
    Us,           \* microseconds in a millisecond
    Hi, Lo,       \* what the two parts of a BLE-MIDI timestamp count to: 64, 128
    DefaultMtu, Mtus, PktMin, PktMax,     \* 23, what a host may agree to, 5, MIDI_PKT_MAX
    BurstMax,     \* SEQ_BURST_MAX
    MaxQueue, MaxStep, MaxLate, MaxSends        \* bounds

ASSUME WireAssumption ==
    /\ {Us, Hi, Lo, BurstMax} \subseteq Nat \ {0}
    /\ {PktMin, PktMax, MaxQueue, MaxStep, MaxLate, MaxSends} \subseteq Nat /\ PktMin <= PktMax
    /\ DefaultMtu \in Nat /\ Mtus \subseteq Nat

(* A message alone fits a packet, and a packet that holds one alone fits any  *)
(* link (pkt_limit: 5 and 23); what emit() is called with.                    *)
ASSUME PacketAssumption == PktMin >= 5 /\ DefaultMtu >= PktMin + 3
ASSUME StatusAssumption == Statuses \subseteq (128 .. 191) \cup {242} \cup (248 .. 255)

Dests == {"ble", "din", "usb"}
Now == 0..(Us * Hi * Lo - 1)

VARIABLES
    now,       \* the clock, a turn of the timestamp at a time
    queue,     \* s_midiq: a status and when its tick fired
    destOn,        \* the destinations that are on
    burst,     \* the MIDI task: events of the burst it is draining
    link,      \* a BLE host that asked for notes, and its MTU
    pkt,       \* s_pkt: the header and, for each message, low bits, data bytes, true
               \* stamp; s_pkt_n; and whether the host is still the one it was begun for
    lastTs,    \* s_last_ts
    air,       \* the notification the MIDI task's last step sent
    wire,      \* what the wires made of the last event
    sends

wireVars == <<now, queue, destOn, burst, link, pkt, lastTs, air, wire, sends>>

Empty == [hdr |-> 0, msgs |-> <<>>, n |-> 0, same |-> TRUE]
(* A message after the others, or the first behind a header of its own.     *)
Packed(p, ts, msg) ==
    IF p.msgs = <<>> THEN [hdr |-> ts \div Lo, msgs |-> <<msg>>, n |-> 3 + msg.data, same |-> TRUE]
    ELSE [p EXCEPT !.msgs = Append(@, msg), !.n = @ + 2 + msg.data]
Silence == [pkt |-> Empty, fate |-> "none", fits |-> TRUE]

WireInit ==
    /\ now = 0 /\ queue = <<>> /\ destOn \in {{}, Dests} /\ burst = 0
    /\ link = [up |-> FALSE, mtu |-> DefaultMtu]
    /\ pkt = Empty /\ lastTs = 0 /\ air = Silence
    /\ wire = {} /\ sends = 0

(***************************************************************************)
(* How many data bytes follow a status. DIN asks midi_len.h; BLE has its   *)
(* own switch; USB sends three bytes or one.                               *)
(***************************************************************************)
Channel(st) == IF st \div 16 \in {12, 13} THEN 1 ELSE 2
\* mutant: a system message never has data
SystemIsBare(st) == IF st >= 240 THEN 0 ELSE Channel(st)

DinData(st) ==
    IF st >= 248 \/ st \in 244..247 THEN 0
    ELSE IF st \in {241, 243} THEN 1
    ELSE IF st = 242 THEN 2 ELSE Channel(st)
BleData(st) ==
    IF st < 240 THEN Channel(st)
    ELSE IF st \in {241, 243} THEN 1
    ELSE IF st = 242 THEN 2 ELSE 0
UsbData(st) == IF st >= 248 THEN 0 ELSE 2
Internal(st) == st = 249

(***************************************************************************)
(* The BLE packet.                                                         *)
(***************************************************************************)
StampOf(when) == ((when + Us \div 2) \div Us) % (Hi * Lo)
\* mutant: the link's limit and not the buffer's
LinkLimit == LET lim == (IF link.up THEN link.mtu ELSE DefaultMtu) - 3
             IN  IF lim < PktMin THEN PktMin ELSE lim
\* mutant: the buffer's limit and not the link's
BufferLimit == PktMax
PktLimit == LET lim == (IF link.up THEN link.mtu ELSE DefaultMtu) - 3
            IN  IF lim < PktMin THEN PktMin ELSE IF lim > PktMax THEN PktMax ELSE lim

Clamped(ts) == IF pkt.msgs # <<>> /\ ts < lastTs THEN lastTs ELSE ts
\* mutant: a packet is closed when it is full only
ClosesWhenFull(ts, need) == pkt.msgs # <<>> /\ pkt.n + need > PktLimit
Closes(ts, need) ==
    pkt.msgs # <<>> /\ (pkt.hdr # ts \div Lo \/ pkt.n + need > PktLimit)

(* A notification, or nothing when the stack is out of buffers.            *)
Notify(p) ==
    air' \in [pkt : {p}, fate : {"sent", "no buffer"},
             fits : {p.n <= link.mtu - 3 \/ ~p.same}]

\* mutant: the packet that is full makes room
StartsAfresh(st, when) ==
    IF ~link.up \/ Internal(st) THEN air' = Silence /\ UNCHANGED <<pkt, lastTs>>
    ELSE LET ts == Clamped(StampOf(when))
             msg == [lo |-> ts % Lo, data |-> BleData(st), ts |-> StampOf(when)]
         IN  /\ lastTs' = ts /\ air' = Silence
             /\ pkt' = Packed(IF Closes(ts, 2 + BleData(st)) THEN Empty ELSE pkt, ts, msg)

BleSend(st, when) ==
    IF ~link.up \/ Internal(st) THEN air' = Silence /\ UNCHANGED <<pkt, lastTs>>
    ELSE LET ts == Clamped(StampOf(when))
             msg == [lo |-> ts % Lo, data |-> BleData(st), ts |-> StampOf(when)]
             closes == Closes(ts, 2 + BleData(st))
         IN  /\ lastTs' = ts
             /\ IF closes THEN Notify(pkt) ELSE air' = Silence
             /\ pkt' = Packed(IF closes THEN Empty ELSE pkt, ts, msg)

BleFlush ==
    /\ IF pkt.msgs = <<>> \/ ~link.up THEN air' = Silence ELSE Notify(pkt)
    /\ pkt' = Empty /\ UNCHANGED lastTs

(***************************************************************************)
(* The MIDI task: every event to every destination that is on, then a      *)
(* flush of those that are on by then.                                     *)
(***************************************************************************)
Turn == Us * Hi * Lo
Enqueue ==
    /\ Len(queue) < MaxQueue
    /\ \E st \in Statuses, passed \in 0..MaxStep, late \in 0..MaxLate :
         /\ now' = (now + passed) % Turn
         /\ queue' = Append(queue, <<st, (now + passed + Turn - late) % Turn>>)
    /\ UNCHANGED <<destOn, burst, link, pkt, lastTs, air, wire, sends>>

(* A wire that is on, has somebody at its end and room writes the message. *)
Ready(d) == d \in destOn /\ (d = "ble" => link.up)
Data(d, st) == CASE d = "ble" -> BleData(st) [] d = "usb" -> UsbData(st) [] d = "din" -> DinData(st)

(* One event, to every destination that is on. USB takes a message whole   *)
(* or counts it dropped; DIN has its UART or not.                          *)
Drain ==
    /\ queue # <<>> /\ burst < BurstMax
    /\ burst' = burst + 1 /\ queue' = Tail(queue)
    /\ LET st == Head(queue)[1]
       IN  /\ IF "ble" \in destOn THEN BleSend(st, Head(queue)[2])
              ELSE air' = Silence /\ UNCHANGED <<pkt, lastTs>>
           /\ \E ds \in SUBSET {d \in Dests : Ready(d) /\ ~Internal(st)} :
                 /\ Ready("ble") /\ ~Internal(st) => "ble" \in ds
                 /\ wire' = {<<st, Data(d, st)>> : d \in ds}
    /\ UNCHANGED <<now, destOn, link, sends>>

Flush ==
    /\ burst > 0 /\ (queue = <<>> \/ burst = BurstMax)
    /\ burst' = 0 /\ wire' = {}
    /\ IF "ble" \in destOn THEN BleFlush ELSE air' = Silence /\ UNCHANGED <<pkt, lastTs>>
    /\ UNCHANGED <<now, queue, destOn, link, sends>>

(***************************************************************************)
(* '>send <name> on | off', from the main task.                            *)
(***************************************************************************)
Send == \E d \in Dests :
    /\ sends < MaxSends /\ sends' = sends + 1
    /\ destOn' = IF d \in destOn THEN destOn \ {d} ELSE destOn \cup {d}
    /\ UNCHANGED <<now, queue, burst, link, pkt, lastTs, air, wire>>

(***************************************************************************)
(* The host.                                                               *)
(***************************************************************************)
HostComes ==
    /\ ~link.up /\ link' = [up |-> TRUE, mtu |-> DefaultMtu]
    /\ pkt' = IF pkt = Empty THEN pkt ELSE [pkt EXCEPT !.same = FALSE]
    /\ UNCHANGED <<now, queue, destOn, burst, lastTs, air, wire, sends>>

HostAgrees == \E m \in Mtus :
    /\ link.up /\ m > link.mtu /\ link' = [link EXCEPT !.mtu = m]
    /\ UNCHANGED <<now, queue, destOn, burst, pkt, lastTs, air, wire, sends>>

HostGoes ==
    /\ link.up /\ link' = [link EXCEPT !.up = FALSE, !.mtu = DefaultMtu]
    /\ UNCHANGED <<now, queue, destOn, burst, pkt, lastTs, air, wire, sends>>

WireNext ==
    \/ Enqueue \/ Drain \/ Flush
    \/ Send \/ HostComes \/ HostAgrees \/ HostGoes

(***************************************************************************)
(* Properties.                                                             *)
(***************************************************************************)
WireTypeOK ==
    /\ now \in Now /\ lastTs \in 0..(Hi * Lo - 1) /\ destOn \subseteq Dests
    /\ Len(queue) <= MaxQueue /\ burst \in 0..BurstMax
    /\ pkt.hdr \in 0..(Hi - 1) /\ pkt.n <= PktMax
    /\ \A i \in DOMAIN pkt.msgs : pkt.msgs[i].lo \in 0..(Lo - 1)

Decoded(p, i) == p.hdr * Lo + p.msgs[i].lo

(* A receiver reads the times of a packet back: under the packet's one     *)
(* header they never go back, and each is the time its tick fired unless   *)
(* the message before it was later, whose time it then shares.             *)
PacketTellsTheTime ==
    \A p \in {pkt, air.pkt} : \A i \in DOMAIN p.msgs :
        /\ i > 1 => Decoded(p, i) >= Decoded(p, i - 1)
        /\ Decoded(p, i) # p.msgs[i].ts =>
              p.msgs[i].ts < Decoded(p, i) /\ (i > 1 => Decoded(p, i) = Decoded(p, i - 1))

(* A notification fits the link it goes out on, whatever MTU that link had *)
(* reached when each of its messages was packed (unless the host changed   *)
(* under the packet).                                                      *)
NotificationFits == air.fits

(* Every wire that takes an event writes the same message, and none of     *)
(* them the deck's own step marker.                                        *)
WiresAgree == /\ \A a, b \in wire : a = b
              /\ \A w \in wire : w[1] # 249

(* "A note late by one connection interval is bad, a note gone is worse"   *)
(* (blemidi.c): messages leave the packet only as a notification, or when  *)
(* there is nobody to send it to or no buffer to send it in.               *)
NoNoteIsGone ==
    [][\/ IsPrefix(pkt.msgs, pkt'.msgs) \/ ~link.up
       \/ air'.pkt = pkt /\ air'.fate \in {"sent", "no buffer"}]_wireVars

(* "Send whatever has been accumulated since the last flush" (blemidi.h):  *)
(* the MIDI task leaves nothing behind for a later burst to send.          *)
NothingLeftBehind == burst = 0 => pkt.msgs = <<>>

(* A packet fits its link and is read at the other end with the times and    *)
(* the bytes every other wire has (blemidi_send, midi_datalen).              *)
PacketIsRead == PacketTellsTheTime /\ NotificationFits /\ WiresAgree
=============================================================================
