---------------------------- MODULE BlePeripheral ----------------------------
(* The deck as a BLE-MIDI peripheral (blemidi.c): the main task keeps it in   *)
(* step with the 'ble' destination (main.c) while the host task of the BLE    *)
(* stack starts it and handles the events of its links. The flags the two     *)
(* share have no lock, and a read of one and the call it decides are two      *)
(* steps. The radio, what a host does with it and a reset of the stack are    *)
(* external.                                                                  *)
EXTENDS Naturals, Sequences

CONSTANTS
    Handles,      \* connection handles a MIDI host can get
    NoConn,       \* BLE_HS_CONN_HANDLE_NONE
    MaxBleEvents,    \* bound: events waiting for the host task
    MaxBleChanges    \* bound: commands, links and resets in a behaviour
ASSUME PeripheralAssumption == /\ NoConn \notin Handles
                               /\ MaxBleEvents \in Nat /\ MaxBleChanges \in Nat

VARIABLES
    wantBle,      \* seq_dest_is_on("ble")
    enabled,      \* s_enabled
    synced,       \* s_synced
    conn,         \* s_conn
    subscribed,   \* s_subscribed
    bleAt,       \* where the main task is in blemidi_set_enabled()
    hostAt,       \* where the host task is
    bleEvents,       \* events the stack has not delivered yet
    radio,        \* the stack is up, it advertises, the links and who of them asked for notes
    advFailed,    \* an attempt to advertise failed while the stack was up
    bleChanges

perVars == <<wantBle, enabled, synced, conn, subscribed, bleAt, hostAt,
             bleEvents, radio, advFailed, bleChanges>>

PeripheralTypeOK ==
    /\ {wantBle, enabled, synced, subscribed, advFailed} \subseteq BOOLEAN
    /\ conn \in Handles \cup {NoConn}
    /\ bleAt \in {"loop", "flag", "on", "off", "terminate", "stop"}
    /\ hostAt \in {"wait", "start", "asks", "advertise"}
    /\ Len(bleEvents) <= MaxBleEvents
    /\ radio.links \subseteq Handles /\ radio.asked \subseteq radio.links
    /\ {radio.up, radio.adv} \subseteq BOOLEAN

PeripheralInit ==
    /\ wantBle = FALSE /\ enabled = FALSE /\ synced = FALSE
    /\ conn = NoConn /\ subscribed = FALSE
    /\ bleAt = "loop" /\ hostAt = "wait" /\ bleEvents = <<>>
    /\ radio = [up |-> FALSE, adv |-> FALSE, links |-> {}, asked |-> {}]
    /\ advFailed = FALSE /\ bleChanges = 0

(***************************************************************************)
(* advertise(): nothing when the stack is down, "already" when it          *)
(* advertises, and an error it only logs.                                  *)
(***************************************************************************)
Advertise ==
    IF ~radio.up THEN UNCHANGED <<radio, advFailed>>
    ELSE \/ radio' = [radio EXCEPT !.adv = TRUE] /\ advFailed' = FALSE
         \/ ~radio.adv /\ advFailed' = TRUE /\ UNCHANGED radio

Another == bleChanges < MaxBleChanges /\ bleChanges' = bleChanges + 1

(***************************************************************************)
(* The main task: '>send ble on | off' and the call of every loop.         *)
(***************************************************************************)
SendBle ==
    /\ bleAt = "loop" /\ Another /\ wantBle' = ~wantBle
    /\ UNCHANGED <<enabled, synced, conn, subscribed, bleAt, hostAt, bleEvents, radio, advFailed>>

SetEnabled ==
    /\ bleAt = "loop" /\ wantBle # enabled
    /\ enabled' = wantBle /\ bleAt' = "flag"
    /\ UNCHANGED <<wantBle, synced, conn, subscribed, hostAt, bleEvents, radio, advFailed, bleChanges>>

ReadSynced ==
    /\ bleAt = "flag"
    /\ bleAt' = IF ~synced THEN "loop" ELSE IF enabled THEN "on" ELSE "off"
    /\ UNCHANGED <<wantBle, enabled, synced, conn, subscribed, hostAt, bleEvents, radio, advFailed, bleChanges>>

SwitchOn ==
    /\ bleAt = "on" /\ Advertise /\ bleAt' = "loop"
    /\ UNCHANGED <<wantBle, enabled, synced, conn, subscribed, hostAt, bleEvents, bleChanges>>

ReadConn ==
    /\ bleAt = "off" /\ bleAt' = IF conn = NoConn THEN "stop" ELSE "terminate"
    /\ UNCHANGED <<wantBle, enabled, synced, conn, subscribed, hostAt, bleEvents, radio, advFailed, bleChanges>>

Drop(h) ==
    /\ Len(bleEvents) < MaxBleEvents
    /\ bleEvents' = Append(bleEvents, [type |-> "disconnect", handle |-> h])
    /\ radio' = [radio EXCEPT !.links = @ \ {h}, !.asked = @ \ {h}]

(* The handle is read again for the call: it may have changed.             *)
Terminate ==
    /\ bleAt = "terminate" /\ bleAt' = "stop"
    /\ IF conn \in radio.links THEN Drop(conn) ELSE UNCHANGED <<bleEvents, radio>>
    /\ UNCHANGED <<wantBle, enabled, synced, conn, subscribed, hostAt, advFailed, bleChanges>>

AdvStop ==
    /\ bleAt = "stop" /\ radio' = [radio EXCEPT !.adv = FALSE] /\ bleAt' = "loop"
    /\ UNCHANGED <<wantBle, enabled, synced, conn, subscribed, hostAt, bleEvents, advFailed, bleChanges>>

(***************************************************************************)
(* The host task. blemidi_start() runs from the stack's sync callback, at  *)
(* the start and after every reset; it sets the flag and then reads the    *)
(* other one, set_enabled() does it the other way round.                   *)
(***************************************************************************)
StartSynced ==
    /\ hostAt = "start" /\ synced' = TRUE /\ hostAt' = "asks"
    /\ UNCHANGED <<wantBle, enabled, conn, subscribed, bleAt, bleEvents, radio, advFailed, bleChanges>>

IfEnabled ==
    /\ hostAt = "asks" /\ hostAt' = IF enabled THEN "advertise" ELSE "wait"
    /\ UNCHANGED <<wantBle, enabled, synced, conn, subscribed, bleAt, bleEvents, radio, advFailed, bleChanges>>

HostAdvertises ==
    /\ hostAt = "advertise" /\ Advertise /\ hostAt' = "wait"
    /\ UNCHANGED <<wantBle, enabled, synced, conn, subscribed, bleAt, bleEvents, bleChanges>>

\* mutant: a connection that fails is not followed by advertising again
FailsQuietly(e) ==
    /\ e.type = "connect"
    /\ conn' = IF e.handle # NoConn THEN e.handle ELSE conn
    /\ UNCHANGED <<subscribed, hostAt>>

OnConnect(e) ==
    /\ e.type = "connect"
    /\ IF e.handle # NoConn
       THEN conn' = e.handle /\ UNCHANGED hostAt
       ELSE hostAt' = "asks" /\ UNCHANGED conn
    /\ UNCHANGED subscribed

\* mutant: a host that leaves takes its handle and not its subscription
KeepsAsking(e) ==
    /\ e.type = "disconnect"
    /\ conn' = NoConn /\ hostAt' = "asks" /\ UNCHANGED subscribed

OnDisconnect(e) ==
    /\ e.type = "disconnect"
    /\ conn' = NoConn /\ subscribed' = FALSE /\ hostAt' = "asks"

OnSubscribe(e) ==
    /\ e.type = "subscribe" /\ subscribed' = e.notify
    /\ UNCHANGED <<conn, hostAt>>

AdvEvent ==
    /\ hostAt = "wait" /\ bleEvents # <<>>
    /\ OnConnect(Head(bleEvents)) \/ OnDisconnect(Head(bleEvents)) \/ OnSubscribe(Head(bleEvents))
    /\ bleEvents' = Tail(bleEvents)
    /\ UNCHANGED <<wantBle, enabled, synced, bleAt, radio, advFailed, bleChanges>>

(***************************************************************************)
(* The stack and the hosts.                                                *)
(***************************************************************************)
(* The stack comes up and synchronises; events of a reset come first.      *)
Sync ==
    /\ ~radio.up /\ hostAt = "wait" /\ bleEvents = <<>>
    /\ radio' = [radio EXCEPT !.up = TRUE] /\ hostAt' = "start"
    /\ UNCHANGED <<wantBle, enabled, synced, conn, subscribed, bleAt, bleEvents, advFailed, bleChanges>>

(* A reset of the stack breaks its links: each is told.                    *)
Reset ==
    /\ radio.up /\ hostAt = "wait" /\ Another
    /\ \E told \in [1..(IF radio.links = {} THEN 0 ELSE 1) -> radio.links] :
         /\ Len(bleEvents) + Len(told) <= MaxBleEvents
         /\ bleEvents' = bleEvents \o [i \in DOMAIN told |-> [type |-> "disconnect", handle |-> told[i]]]
    /\ radio' = [up |-> FALSE, adv |-> FALSE, links |-> {}, asked |-> {}]
    /\ UNCHANGED <<wantBle, enabled, synced, conn, subscribed, bleAt, hostAt, advFailed>>

(* A host connects, which ends advertising, or fails to; the deck serves   *)
(* one MIDI host at a time (the keyboard has the other of the two links).  *)
Connects ==
    /\ radio.adv /\ radio.links = {} /\ Len(bleEvents) < MaxBleEvents /\ Another
    /\ \E h \in Handles \cup {NoConn} :
         /\ bleEvents' = Append(bleEvents, [type |-> "connect", handle |-> h])
         /\ radio' = [radio EXCEPT !.adv = FALSE, !.links = {h} \ {NoConn}]
    /\ UNCHANGED <<wantBle, enabled, synced, conn, subscribed, bleAt, hostAt, advFailed>>

Leaves == \E h \in radio.links :
    /\ Another /\ Drop(h)
    /\ UNCHANGED <<wantBle, enabled, synced, conn, subscribed, bleAt, hostAt, advFailed>>

Subscribes == \E h \in radio.links :
    /\ Len(bleEvents) < MaxBleEvents /\ Another
    /\ bleEvents' = Append(bleEvents, [type |-> "subscribe", notify |-> h \notin radio.asked])
    /\ radio' = [radio EXCEPT !.asked = IF h \in @ THEN @ \ {h} ELSE @ \cup {h}]
    /\ UNCHANGED <<wantBle, enabled, synced, conn, subscribed, bleAt, hostAt, advFailed>>

MainSteps == SetEnabled \/ ReadSynced \/ SwitchOn \/ ReadConn \/ Terminate \/ AdvStop
HostSteps == StartSynced \/ IfEnabled \/ HostAdvertises \/ AdvEvent \/ Sync
PeripheralNext == SendBle \/ MainSteps \/ HostSteps \/ Reset \/ Connects \/ Leaves \/ Subscribes

(***************************************************************************)
(* Properties.                                                             *)
(***************************************************************************)
AtRest == /\ bleAt = "loop" /\ hostAt = "wait" /\ bleEvents = <<>>
          /\ enabled = wantBle /\ synced /\ radio.up

(* A deck told to send over BLE can be found: once both tasks have nothing *)
(* left to do it advertises or has its host, however turning it on, the    *)
(* start and resets of the stack and the coming and going of hosts met.    *)
(* (Only an attempt the stack refused is never made again.)                *)
AlwaysHeard == AtRest /\ enabled /\ radio.links = {} /\ ~advFailed => radio.adv

(* blemidi_connected() is about the host that is there: once the events    *)
(* are in, the deck sends notes exactly when that host has asked for them, *)
(* and never because an earlier one had.                                   *)
DeckKnowsItsHost ==
    bleEvents = <<>> => ((conn # NoConn /\ subscribed) <=> radio.asked # {})

(* "Off means the peripheral does not ADVERTISE" (blemidi.h): a deck at    *)
(* rest with '>send ble off' neither advertises nor keeps a host.          *)
QuietWhenOff == AtRest /\ ~enabled => ~radio.adv /\ radio.links = {}

(* A deck that sends over BLE can be found or has a host, and knows which    *)
(* (blemidi_set_enabled, adv_event).                                         *)
PeripheralKept == AlwaysHeard /\ DeckKnowsItsHost
=============================================================================
