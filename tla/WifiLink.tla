------------------------------ MODULE WifiLink ------------------------------
(* The deck on a network (net.c): '>wifi' and '>host' name one and ask for    *)
(* its password (builtins.c, ask.h, editor.c), the answer is remembered and   *)
(* starts the radio, a deck that starts joins what it remembers (main.c).     *)
(* The driver's events come to a task of their own, late, while the main      *)
(* task is anywhere in a command. The driver, the network, the NVS store and  *)
(* the loss of power are external.                                            *)
EXTENDS Naturals, Sequences

CONSTANTS
    Names, Secrets,     \* networks and passwords
    None,               \* nothing; no address ("-")
    MaxWifiEvents,          \* bound: events not handled yet
    MaxNetCommands, MaxLosses     \* bounds: commands; links lost and powers cut
ASSUME WifiAssumption == /\ None \notin Names \cup Secrets
                         /\ {MaxWifiEvents, MaxNetCommands, MaxLosses} \subseteq Nat

VARIABLES
    started, on, joined, hosting,    \* s_started, s_on, s_joined, s_hosting
    ssid, ip,                        \* s_ssid, s_ip
    nvs,                             \* "ssid" and "pass" in NVS
    netName,                         \* s_net_ssid
    ask,                             \* the question on the status line, who asks, keys so far
    netAt,                           \* where the main task is, and what it was given
    wifi,                            \* the driver: runs, as what, for which network, how far
    wifiEvents, handlerAt,           \* the event loop
    last,                            \* ghost: the network a question named and the answer's
    typed,                           \* ghost: what the deck was last told to join
    netCommands, losses

saidVars == <<started, on, joined, hosting, ssid, ip>>
radioVars == <<wifi, wifiEvents, handlerAt>>
askVars == <<netName, ask>>
ghosts == <<last, typed>>
counts == <<netCommands, losses>>
wifiVars == <<saidVars, radioVars, askVars, ghosts, counts, nvs, netAt>>

Host == "192.168.4.1"
Leased == "leased"
Stopped == [run |-> FALSE, mode |-> "sta", net |-> None, sta |-> "idle"]
NoAsk == [active |-> FALSE, label |-> None, fn |-> "none", buf |-> None, page |-> FALSE]
NotTold == [ssid |-> None, pass |-> None]
Rest == [at |-> "boot", net |-> None, pass |-> None]

WifiTypeOK ==
    /\ {started, on, joined, hosting} \subseteq BOOLEAN
    /\ ssid \in Names \cup {None} /\ netName \in Names \cup {None}
    /\ ip \in {None, Host, Leased}
    /\ {nvs, typed} \subseteq [ssid : Names \cup {None}, pass : Secrets \cup {None}]
    /\ ask.active \in BOOLEAN /\ (~ask.active => ask = NoAsk)
    /\ wifi.sta \in {"idle", "tries", "joined", "leased"}
    /\ wifi.sta # "idle" => wifi.run /\ wifi.mode = "sta"
    /\ Len(wifiEvents) <= MaxWifiEvents

Volatile ==
    /\ started' = FALSE /\ on' = FALSE /\ joined' = FALSE /\ hosting' = FALSE
    /\ ssid' = None /\ ip' = None /\ netName' = None /\ ask' = NoAsk /\ netAt' = Rest
    /\ wifi' = Stopped /\ wifiEvents' = <<>> /\ handlerAt' = "wait"

WifiInit ==
    /\ started = FALSE /\ on = FALSE /\ joined = FALSE /\ hosting = FALSE
    /\ ssid = None /\ ip = None /\ nvs = NotTold
    /\ netName = None /\ ask = NoAsk /\ netAt = Rest
    /\ wifi = Stopped /\ wifiEvents = <<>> /\ handlerAt = "wait"
    /\ last = [label |-> None, used |-> None] /\ typed = NotTold
    /\ netCommands = 0 /\ losses = 0

NetGoes(at) == netAt' = [netAt EXCEPT !.at = at]
NetEnds == netAt' = [at |-> "idle", net |-> None, pass |-> None]

(***************************************************************************)
(* The main task at its start: net_rejoin().                               *)
(***************************************************************************)
Rejoin ==
    /\ netAt.at = "boot"
    /\ IF nvs.ssid = None THEN NetEnds
       ELSE netAt' = [at |-> "join", net |-> nvs.ssid, pass |-> nvs.pass]
    /\ UNCHANGED <<saidVars, radioVars, askVars, ghosts, counts, nvs>>

(***************************************************************************)
(* '>wifi <ssid>' and '>host <ssid>': the name is taken down first, and a  *)
(* second word refused after it. While a question waits the owner's keys   *)
(* go to it; a page that is run types all its lines before the first key.  *)
(***************************************************************************)
AtPrompt == netAt.at = "idle" /\ ~ask.active
Command == netCommands < MaxNetCommands /\ netCommands' = netCommands + 1

NetName == \E n \in Names, fn \in {"wifi", "host"}, secondWord, page \in BOOLEAN :
    /\ netAt.at = "idle" /\ Command
    /\ ask.active => page /\ ask.page
    /\ netName' = n
    /\ ask' = IF secondWord THEN ask
              ELSE [active |-> TRUE, label |-> n, fn |-> fn, buf |-> None, page |-> page]
    /\ UNCHANGED <<saidVars, radioVars, ghosts, losses, nvs, netAt>>

AskKey == \E s \in Secrets :
    /\ ask.active /\ netAt.at = "idle" /\ ask.buf = None
    /\ ask' = [ask EXCEPT !.buf = s, !.page = FALSE]
    /\ UNCHANGED <<saidVars, radioVars, ghosts, counts, nvs, netName, netAt>>

(* Enter hands the answer to whoever asked; Esc does not.                  *)
AskEnds == \E submit \in BOOLEAN :
    /\ ask.active /\ netAt.at = "idle" /\ ask' = NoAsk
    /\ IF submit
       THEN /\ netAt' = [at |-> IF ask.fn = "wifi" THEN "join" ELSE "host",
                         net |-> netName, pass |-> ask.buf]
            /\ last' = [label |-> ask.label, used |-> netName]
            /\ typed' = IF ask.fn = "wifi" THEN [ssid |-> netName, pass |-> ask.buf] ELSE typed
       ELSE UNCHANGED <<netAt, ghosts>>
    /\ UNCHANGED <<saidVars, radioVars, counts, nvs, netName>>

WifiForget ==
    /\ AtPrompt /\ Command /\ nvs' = NotTold /\ typed' = NotTold
    /\ UNCHANGED <<saidVars, radioVars, askVars, losses, netAt, last>>

WifiOff ==
    /\ AtPrompt /\ Command
    /\ IF started THEN NetGoes("stop") ELSE UNCHANGED netAt
    /\ UNCHANGED <<saidVars, radioVars, askVars, ghosts, losses, nvs>>

(***************************************************************************)
(* net_join(), net_host() and net_stop(), a step for each call.            *)
(***************************************************************************)
(* Stopping a station that has a link or looks for one says so.            *)
Event(type) == Len(wifiEvents) < MaxWifiEvents /\ wifiEvents' = Append(wifiEvents, type)
RadioStops ==
    /\ IF wifi.sta = "idle" THEN UNCHANGED wifiEvents ELSE Event("disconnected")
    /\ wifi' = Stopped

(* wifi_once(): the driver, which may refuse its first start. What it was  *)
(* to join is then forgotten.                                              *)
WifiOnce ==
    /\ netAt.at \in {"join", "host"} /\ ~started
    /\ \/ started' = TRUE /\ UNCHANGED <<netAt, typed>>
       \/ NetEnds /\ typed' = nvs /\ UNCHANGED started
    /\ UNCHANGED <<radioVars, askVars, counts, on, joined, hosting, ssid, ip, nvs, last>>

\* mutant: a join that takes over from another is not remembered
RemembersLater ==
    /\ netAt.at = "join" /\ started /\ ssid' = netAt.net /\ hosting' = FALSE
    /\ nvs' = IF on THEN nvs ELSE [ssid |-> netAt.net, pass |-> netAt.pass]
    /\ NetGoes(IF on THEN "rejoin" ELSE "sta")
    /\ UNCHANGED <<radioVars, askVars, ghosts, counts, started, on, joined, ip>>

(* Remembered before anything of this join can fail.                       *)
JoinTaken ==
    /\ netAt.at = "join" /\ started /\ ssid' = netAt.net /\ hosting' = FALSE
    /\ nvs' = [ssid |-> netAt.net, pass |-> netAt.pass]
    /\ NetGoes(IF on THEN "rejoin" ELSE "sta")
    /\ UNCHANGED <<radioVars, askVars, ghosts, counts, started, on, joined, ip>>

HostTaken ==
    /\ netAt.at = "host" /\ started /\ ssid' = netAt.net
    /\ NetGoes(IF on THEN "rehost" ELSE "ap")
    /\ UNCHANGED <<radioVars, askVars, ghosts, counts, started, on, joined, hosting, ip, nvs>>

StopFirst ==
    /\ netAt.at \in {"rejoin", "rehost", "stop"} /\ RadioStops
    /\ NetGoes(CASE netAt.at = "rejoin" -> "cleared sta" [] netAt.at = "rehost" -> "cleared ap"
                 [] OTHER -> "cleared")
    /\ UNCHANGED <<saidVars, askVars, ghosts, counts, nvs, handlerAt>>

Cleared ==
    /\ netAt.at \in {"cleared sta", "cleared ap", "cleared"}
    /\ on' = FALSE /\ joined' = FALSE /\ hosting' = FALSE
    /\ IF netAt.at = "cleared" THEN ip' = None /\ NetEnds
       ELSE UNCHANGED ip /\ NetGoes(IF netAt.at = "cleared sta" THEN "sta" ELSE "ap")
    /\ UNCHANGED <<radioVars, askVars, ghosts, counts, started, ssid, nvs>>

(* Mode, configuration and start; each may be refused.                     *)
RadioStarts ==
    /\ netAt.at \in {"sta", "ap"}
    /\ \/ /\ wifi' = [run |-> TRUE, mode |-> netAt.at, net |-> netAt.net, sta |-> "idle"]
          /\ NetGoes(IF netAt.at = "sta" THEN "connect" ELSE "hosts")
       \/ UNCHANGED wifi /\ NetEnds
    /\ UNCHANGED <<saidVars, askVars, ghosts, counts, nvs, wifiEvents, handlerAt>>

Tries(d) == IF d.run /\ d.mode = "sta" /\ d.sta = "idle" THEN [d EXCEPT !.sta = "tries"] ELSE d
JoinConnects ==
    /\ netAt.at = "connect" /\ on' = TRUE /\ wifi' = Tries(wifi) /\ NetEnds
    /\ UNCHANGED <<askVars, ghosts, counts, started, joined, hosting, ssid, ip, nvs, wifiEvents, handlerAt>>

HostIsUp ==
    /\ netAt.at = "hosts" /\ NetEnds
    /\ on' = TRUE /\ hosting' = TRUE /\ joined' = FALSE /\ ip' = Host
    /\ UNCHANGED <<radioVars, askVars, ghosts, counts, started, ssid, nvs>>

(***************************************************************************)
(* on_wifi(), on the event task.                                           *)
(***************************************************************************)
\* mutant: a link that is lost is not told
LosesQuietly == handlerAt' = "connect" /\ UNCHANGED <<joined, ip>>
Lost == joined' = FALSE /\ ip' = None /\ handlerAt' = "connect"
OnWifi ==
    /\ handlerAt = "wait" /\ wifiEvents # <<>> /\ wifiEvents' = Tail(wifiEvents)
    /\ IF Head(wifiEvents) = "disconnected" THEN Lost
       ELSE joined' = TRUE /\ ip' = Leased /\ UNCHANGED handlerAt
    /\ UNCHANGED <<askVars, ghosts, counts, started, on, hosting, ssid, nvs, netAt, wifi>>

\* mutant: a link that is lost is not looked for again
GivesUp == UNCHANGED wifi
Retry == wifi' = Tries(wifi)
OnWifiConnects ==
    /\ handlerAt = "connect" /\ handlerAt' = "wait" /\ Retry
    /\ UNCHANGED <<saidVars, askVars, ghosts, counts, nvs, netAt, wifiEvents>>

(***************************************************************************)
(* The driver and the world.                                               *)
(***************************************************************************)
Associates ==
    /\ wifi.sta = "tries" /\ wifi' = [wifi EXCEPT !.sta = "joined"]
    /\ UNCHANGED <<saidVars, askVars, ghosts, counts, nvs, netAt, wifiEvents, handlerAt>>

GetsAddress ==
    /\ wifi.sta = "joined" /\ wifi' = [wifi EXCEPT !.sta = "leased"] /\ Event("got ip")
    /\ UNCHANGED <<saidVars, askVars, ghosts, counts, nvs, netAt, handlerAt>>

(* A try that fails, or a link that is lost.                               *)
LinkLost ==
    /\ wifi.sta # "idle" /\ losses < MaxLosses /\ losses' = losses + 1
    /\ wifi' = [wifi EXCEPT !.sta = "idle"] /\ Event("disconnected")
    /\ UNCHANGED <<saidVars, askVars, ghosts, nvs, netAt, handlerAt, netCommands>>

PowerLost ==
    /\ losses < MaxLosses /\ losses' = losses + 1 /\ Volatile
    /\ typed' = IF netAt.at = "join" THEN nvs ELSE typed
    /\ UNCHANGED <<nvs, last, netCommands>>

WifiNext ==
    \/ Rejoin \/ NetName \/ AskKey \/ AskEnds \/ WifiForget \/ WifiOff
    \/ WifiOnce \/ JoinTaken \/ HostTaken
    \/ StopFirst \/ Cleared \/ RadioStarts \/ JoinConnects \/ HostIsUp
    \/ OnWifi \/ OnWifiConnects \/ Associates \/ GetsAddress \/ LinkLost \/ PowerLost

(***************************************************************************)
(* Properties.                                                             *)
(***************************************************************************)
Settled == netAt.at = "idle" /\ wifiEvents = <<>> /\ handlerAt = "wait"

(* What the deck says of its link is so: once a command and the events it  *)
(* caused are through, it is joined exactly when the station has its       *)
(* address, hosts exactly when the radio is an access point, and is on     *)
(* exactly when the radio runs - whatever the link lost in between meant.  *)
LinkIsAsSaid ==
    Settled => /\ joined <=> wifi.sta = "leased"
               /\ hosting <=> wifi.run /\ wifi.mode = "ap"
               /\ on <=> wifi.run
               /\ wifi.run => wifi.net = ssid

(* A deck told to join goes on trying: no loss of the link, however it     *)
(* meets a command, leaves a radio on that looks for nothing.              *)
NeverGivesUp == Settled /\ on /\ ~hosting => wifi.sta # "idle"

(* "The credentials are remembered the moment they are TYPED, not once a   *)
(* join succeeds" (net.c): whatever fails after, and if the power does,    *)
(* the deck that starts again knows the network it was last told to join   *)
(* and its password.                                                       *)
RememberedWhenTyped == netAt.at # "join" => nvs = typed

(* "The question that follows names the network" (builtins.c): the         *)
(* password typed to a question is used for the network it names.          *)
AnsweredForTheNameAsked == last.used = last.label

(* Whatever the driver's events meet, the deck says of its network what is   *)
(* so, goes on trying, and remembers what it was told (net.c).               *)
WifiKept == LinkIsAsSaid /\ NeverGivesUp /\ RememberedWhenTyped
=============================================================================
