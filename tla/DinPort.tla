------------------------------- MODULE DinPort -------------------------------
(* The wire that needs no computer: '>din <gpio> | off' (builtins.c) starts   *)
(* and stops the UART driver (dinmidi.c) from the main task, step by step,    *)
(* while the MIDI task asks s_up and writes. The driver and the pins it can   *)
(* take are external.                                                         *)
EXTENDS Naturals

CONSTANTS
    Gpios,        \* numbers '>din' may be given
    Taken,        \* the pins the board has spoken for
    GpioMax,      \* the last GPIO of the chip
    NoPin,        \* s_pin is -1
    MaxDin        \* bound: commands
ASSUME DinAssumption == Taken \subseteq Gpios /\ Gpios \subseteq Nat /\ NoPin \notin Gpios

VARIABLES
    uart,       \* the UART driver is there, and the pin it has
    up, pin,      \* s_up, s_pin
    dest,         \* the 'din' destination is on
    dinAt,        \* where c_din() is, the pin it was given, commands so far
    writer        \* the MIDI task has asked s_up and is about to write

dinVars == <<uart, up, pin, dest, dinAt, writer>>

DinTypeOK ==
    /\ uart \in [there : BOOLEAN, pin : Gpios \cup {NoPin}]
    /\ pin \in Gpios \cup {NoPin} /\ {up, dest, writer} \subseteq BOOLEAN
    /\ dinAt.at \in {"idle", "delete", "stop", "install", "pin", "up", "enable", "disable"}

DinInit ==
    /\ uart = [there |-> FALSE, pin |-> NoPin] /\ up = FALSE /\ pin = NoPin
    /\ dest = FALSE /\ writer = FALSE /\ dinAt = [at |-> "idle", gpio |-> NoPin, n |-> 0]

DinGoes(at) == dinAt' = [dinAt EXCEPT !.at = at]
DinEnds == dinAt' = [dinAt EXCEPT !.at = "idle", !.gpio = NoPin]
Given(gpio, at) ==
    /\ dinAt.at = "idle" /\ dinAt.n < MaxDin
    /\ dinAt' = [at |-> at, gpio |-> gpio, n |-> dinAt.n + 1]

(* A pin of the board is refused; the pin it is on already needs nothing.  *)
Accepts(gpio) == gpio > 0 /\ gpio <= GpioMax /\ gpio \notin Taken
Din == \E gpio \in Gpios :
    /\ Accepts(gpio)
    /\ Given(gpio, IF up /\ gpio = pin THEN "enable" ELSE IF up THEN "delete" ELSE "install")
    /\ UNCHANGED <<uart, up, pin, dest, writer>>

DinOff ==
    /\ Given(NoPin, IF up THEN "delete" ELSE "disable")
    /\ UNCHANGED <<uart, up, pin, dest, writer>>

(* '>send din on | off' asks nobody whether there is a wire.               *)
SendDin ==
    /\ Given(NoPin, "idle") /\ dest' = ~dest
    /\ UNCHANGED <<uart, up, pin, writer>>

(* dinmidi_stop(): the driver first, the flag after it.                    *)
Delete ==
    /\ dinAt.at = "delete" /\ uart' = [there |-> FALSE, pin |-> NoPin] /\ DinGoes("stop")
    /\ UNCHANGED <<up, pin, dest, writer>>

Stop ==
    /\ dinAt.at = "stop" /\ up' = FALSE /\ pin' = NoPin
    /\ DinGoes(IF dinAt.gpio = NoPin THEN "disable" ELSE "install")
    /\ UNCHANGED <<uart, dest, writer>>

(* dinmidi_start(): the driver, which cannot be installed twice, then its  *)
(* pin; a pin that is refused takes the driver with it.                    *)
Install ==
    /\ dinAt.at = "install"
    /\ \/ ~uart.there /\ uart' = [uart EXCEPT !.there = TRUE] /\ DinGoes("pin")
       \/ UNCHANGED uart /\ DinEnds
    /\ UNCHANGED <<up, pin, dest, writer>>

\* mutant: a pin that is refused leaves its driver behind
LeavesDriver == DinEnds /\ UNCHANGED uart
PinRefused == uart' = [there |-> FALSE, pin |-> NoPin] /\ DinEnds
SetPin ==
    /\ dinAt.at = "pin"
    /\ (uart' = [uart EXCEPT !.pin = dinAt.gpio] /\ DinGoes("up")) \/ PinRefused
    /\ UNCHANGED <<up, pin, dest, writer>>

ComeUp ==
    /\ dinAt.at = "up" /\ pin' = dinAt.gpio /\ up' = TRUE /\ DinGoes("enable")
    /\ UNCHANGED <<uart, dest, writer>>

Enable ==
    /\ dinAt.at \in {"enable", "disable"} /\ dest' = (dinAt.at = "enable") /\ DinEnds
    /\ UNCHANGED <<uart, up, pin, writer>>

(* dinmidi_send(), on the MIDI task.                                       *)
Asks ==
    /\ ~writer /\ dest /\ up /\ writer' = TRUE
    /\ UNCHANGED <<uart, up, pin, dest, dinAt>>

Writes ==
    /\ writer /\ writer' = FALSE
    /\ UNCHANGED <<uart, up, pin, dest, dinAt>>

DinNext == Din \/ DinOff \/ SendDin \/ Delete \/ Stop \/ Install \/ SetPin \/ ComeUp \/ Enable \/ Asks \/ Writes

(* However a start failed or another pin was taken before, a deck at rest  *)
(* runs its driver exactly when it says so, on the pin it says, and so can *)
(* be given a wire again: no driver is left behind for the next start to   *)
(* trip over. It never is on a pin of the board's own.                     *)
DriverIsAsSaid ==
    /\ uart.pin \notin Taken
    /\ dinAt.at = "idle" =>
          /\ uart.there = up /\ uart.pin = pin
          /\ up <=> pin # NoPin
=============================================================================
