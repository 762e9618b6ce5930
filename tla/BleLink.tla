------------------------------- MODULE BleLink ------------------------------
(* Finding, pairing with and subscribing to a Bluetooth keyboard, as         *)
(* kbd/ble_kbd.c does it: the callbacks of the NimBLE host task, the calls   *)
(* the main task makes into the same state, and the watchdog of the repeat   *)
(* task. The stack is external: one scan or one connection attempt at a      *)
(* time, discovery procedures that may not start, may fail or may be cut     *)
(* short by the loss of the link, which fails those still running before it  *)
(* is reported.                                                              *)
EXTENDS Naturals, Sequences, FiniteSets

CONSTANTS Boards,       \* what keyboards offer: for each report, has it a CCCD
          MaxReports,   \* MAX_REPORT_CHRS: as many reports are remembered
          Links,        \* connection handles
          NoLink,
          MaxEnc,       \* bound: encryption changes of one connection
          MaxFaults,    \* bound: procedures that do not start or fail
          MaxCalls,     \* bound: calls of the main task
          MaxResets     \* bound: resets of the Bluetooth host
ASSUME LinkAssumption ==
    /\ NoLink \notin Links
    /\ MaxReports \in Nat
    /\ \A b \in Boards : b \in Seq(BOOLEAN) /\ Len(b) <= MaxReports
    /\ {MaxEnc, MaxFaults, MaxCalls, MaxResets} \subseteq Nat

VARIABLES
    sync,       \* the host is up
    gap,        \* the stack: idle, scanning, or one connection attempt
    link,       \* the stack: each link
    board,      \* the keyboard at its other end
    enc,        \* its encryption changes so far
    procs,      \* the GATT procedures in flight
    conn,       \* s_conn
    known,      \* s_trying_known
    havePeer,   \* s_have_peer
    connected,  \* s_connected
    subscribed, \* s_subscribed
    chrs,       \* s_chrs[], s_chr_count
    idx,        \* s_sub_index
    done,       \* s_sub_done
    started,    \* s_cccd_started
    asked,      \* how often each report of this walk was subscribed to
    upset,      \* something this walk relies on went wrong
    stranded,   \* a fault nothing follows up has come upon the link
    host,       \* the host task: between ble_gap_disc_cancel and _connect
    main,       \* the main task: within kbd_forget_all or kbd_share_radio
    faults, calls, resets

stack == <<sync, gap, link, board, enc>>
walk == <<chrs, idx, done, started, asked, upset, stranded>>
flags == <<connected, subscribed, havePeer>>
bounds == <<faults, calls, resets>>
linkVars == <<stack, procs, conn, known, flags, walk, host, main, bounds>>

Proc(h, kind, at) == [on |-> h, kind |-> kind, at |-> at, n |-> enc[h]]

LinkTypeOK ==
    /\ {sync, known, connected, subscribed, havePeer, started, upset, stranded} \subseteq BOOLEAN
    /\ gap \in {"idle", "scan", "dial"}
    /\ link \in [Links -> {"free", "up", "closing", "dying"}]
    /\ board \in [Links -> Boards] /\ enc \in [Links -> 0..MaxEnc]
    /\ procs \subseteq [on : Links, kind : {"svc", "chr", "dsc", "end", "cccd"},
                        at : 0..MaxReports, n : 0..MaxEnc]
    /\ conn \in Links \cup {NoLink}
    /\ chrs \in Boards \cup {<<>>}
    /\ idx \in 1..(MaxReports + 2) /\ done \in 0..MaxReports
    /\ asked \in [1..MaxReports -> 0..2]
    /\ host \in {"free", "known", "found"}
    /\ main \in {"free", "forget", "cancel", "rescan"}

NoneAsked == [i \in 1..MaxReports |-> 0]
SomeBoard == CHOOSE b \in Boards : TRUE

(* Before on_sync().                                                         *)
LinkInit ==
    /\ sync = FALSE /\ gap = "idle" /\ link = [h \in Links |-> "free"]
    /\ board = [h \in Links |-> SomeBoard] /\ enc = [h \in Links |-> 0]
    /\ procs = {} /\ conn = NoLink /\ known = FALSE
    /\ havePeer \in BOOLEAN /\ connected = FALSE /\ subscribed = FALSE
    /\ chrs = <<>> /\ idx = 1 /\ done = 0 /\ started = FALSE
    /\ asked = NoneAsked /\ upset = FALSE /\ stranded = FALSE
    /\ host = "free" /\ main = "free" /\ faults = 0 /\ calls = 0 /\ resets = 0

-----------------------------------------------------------------------------
(* The stack's answers to ble_gap_disc, _disc_cancel and _terminate.         *)
Scanning(g) == IF sync /\ g = "idle" THEN "scan" ELSE g
Cancelled(g) == IF g = "scan" THEN "idle" ELSE g
(* Mutant: the link with nothing subscribed stays.                           *)
Kept(h) == link
Closed(h) == IF h \in Links /\ link[h] = "up" THEN [link EXCEPT ![h] = "closing"] ELSE link
Linked(h) == link[h] \in {"up", "closing"}
Fault == faults < MaxFaults /\ faults' = faults + 1

(* connect_known_peer() up to its ble_gap_connect().                         *)
(* Mutant: a deck that knows no keyboard does not scan.                      *)
ConnectKnownOnly ==
    IF havePeer
    THEN /\ gap' = Cancelled(gap) /\ known' = TRUE /\ host' = "known"
    ELSE UNCHANGED <<gap, known, host>>
ConnectKnown ==
    IF havePeer
    THEN /\ gap' = Cancelled(gap) /\ known' = TRUE /\ host' = "known"
    ELSE /\ gap' = Scanning(gap) /\ UNCHANGED <<known, host>>

(* ble_gap_connect(), of the known keyboard or of one that advertised.       *)
Dial ==
    /\ host # "free" /\ host' = "free"
    /\ \/ /\ sync /\ gap = "idle" /\ \E h \in Links : link[h] = "free"
          /\ gap' = "dial" /\ known' = known
          /\ UNCHANGED faults
       \/ /\ IF sync /\ gap = "idle" /\ \E h \in Links : link[h] = "free"
             THEN Fault ELSE UNCHANGED faults
          /\ gap' = Scanning(gap)
          /\ known' = (known /\ host = "found")
    /\ UNCHANGED <<sync, link, board, enc, procs, conn, flags, walk, main, calls, resets>>

Sync ==
    /\ ~sync /\ host = "free" /\ procs = {} /\ \A h \in Links : link[h] = "free"
    /\ sync' = TRUE
    /\ IF havePeer
       THEN known' = TRUE /\ host' = "known" /\ gap' = gap
       ELSE gap' = "scan" /\ UNCHANGED <<known, host>>
    /\ UNCHANGED <<link, board, enc, procs, conn, flags, walk, main, bounds>>

Reset ==
    /\ sync /\ host = "free" /\ resets < MaxResets /\ resets' = resets + 1
    /\ sync' = FALSE /\ gap' = "idle" /\ connected' = FALSE
    /\ known' = (known /\ gap # "dial")
    /\ link' = [h \in Links |-> IF Linked(h) THEN "dying" ELSE link[h]]
    /\ UNCHANGED <<board, enc, procs, conn, subscribed, havePeer, walk, host, main,
                   faults, calls>>

(* BLE_GAP_EVENT_DISC of a keyboard, and _DISC_COMPLETE.                     *)
Found ==
    /\ gap = "scan" /\ host = "free"
    /\ gap' = "idle" /\ host' = "found"
    /\ UNCHANGED <<sync, link, board, enc, procs, conn, known, flags, walk, main, bounds>>
ScanOver ==
    /\ gap = "scan" /\ host = "free"
    /\ IF ~connected /\ conn = NoLink /\ havePeer
       THEN gap' = "idle" /\ known' = TRUE /\ host' = "known"
       ELSE IF ~connected /\ conn = NoLink THEN UNCHANGED <<gap, known, host>>
       ELSE gap' = "idle" /\ UNCHANGED <<known, host>>
    /\ UNCHANGED <<sync, link, board, enc, procs, conn, flags, walk, main, bounds>>

(* discover_hid(): its failure to start is only logged.                      *)
DiscoverHid(h) ==
    \/ /\ procs' = procs \cup {[Proc(h, "svc", 0) EXCEPT !.n = enc'[h]]}
       /\ UNCHANGED <<stranded, faults>>
    \/ Fault /\ procs' = procs /\ stranded' = TRUE

(* BLE_GAP_EVENT_CONNECT, and _ENC_CHANGE.                                   *)
Connected(h, b) ==
    /\ gap = "dial" /\ host = "free" /\ link[h] = "free"
    /\ gap' = "idle" /\ conn' = h
    /\ link' = [link EXCEPT ![h] = "up"] /\ board' = [board EXCEPT ![h] = b]
    /\ enc' = [enc EXCEPT ![h] = 0]
    /\ \/ UNCHANGED <<procs, faults>>
       \/ Fault /\ procs' = procs \cup {[Proc(h, "svc", 0) EXCEPT !.n = 0]}
    /\ UNCHANGED <<sync, known, flags, walk, host, main, calls, resets>>
ConnectFailed ==
    /\ gap = "dial" /\ host = "free"
    /\ IF known \/ ~havePeer
       THEN known' = FALSE /\ gap' = "scan" /\ host' = host
       ELSE known' = TRUE /\ gap' = "idle" /\ host' = "known"
    /\ UNCHANGED <<sync, link, board, enc, procs, conn, flags, walk, main, bounds>>
EncChange(h) ==
    /\ Linked(h) /\ host = "free" /\ enc[h] < MaxEnc
    /\ enc' = [enc EXCEPT ![h] = @ + 1]
    /\ upset' = (upset \/ procs # {})
    /\ DiscoverHid(h)
    /\ UNCHANGED <<sync, gap, link, board, conn, known, flags, chrs, idx, done, started,
                   asked, host, main, calls, resets>>

-----------------------------------------------------------------------------
(* Discovery: the service, its characteristics, and for each report its      *)
(* descriptors and the write of its CCCD.                                    *)
Upon(p, kind) == p \in procs /\ p.kind = kind /\ link[p.on] # "dying" /\ host = "free"

OnSvc(p) ==
    /\ Upon(p, "svc")
    /\ \/ /\ chrs' = <<>>
          /\ \/ procs' = (procs \ {p}) \cup {[p EXCEPT !.kind = "chr"]} /\ UNCHANGED <<link, faults>>
             \/ Fault /\ procs' = procs \ {p} /\ link' = Closed(p.on)
       \/ Fault /\ procs' = procs \ {p} /\ link' = Closed(p.on) /\ chrs' = chrs
    /\ UNCHANGED <<sync, gap, board, enc, conn, known, flags, idx, done, started, asked,
                   upset, stranded, host, main, calls, resets>>

Subscribed(h) ==
    /\ subscribed' = TRUE
    /\ havePeer' = (havePeer \/ (~subscribed /\ link[h] # "dying"))
    /\ UNCHANGED link

(* subscribe_next() from report i on: those whose descriptors cannot be      *)
(* looked up are passed over, and at the end the link is kept if anything    *)
(* was subscribed to and dropped if nothing was.                             *)
SubscribeNext(h, i, ps) ==
    \E to \in {i} \cup i..(Len(chrs') + 1) :
        /\ idx' = to
        /\ IF to > i /\ link[h] # "dying" THEN Fault ELSE UNCHANGED faults
        /\ IF i <= Len(chrs') THEN started' = FALSE ELSE UNCHANGED started
        /\ IF to <= Len(chrs')
           THEN /\ link[h] # "dying"
                /\ procs' = ps \cup {Proc(h, "dsc", to)}
                /\ UNCHANGED <<link, subscribed, havePeer>>
           ELSE /\ procs' = ps
                /\ IF done' > 0 THEN Subscribed(h)
                   ELSE link' = Closed(h) /\ UNCHANGED <<subscribed, havePeer>>
Passed(i) == idx' > i

OnChr(p) ==
    /\ Upon(p, "chr")
    /\ UNCHANGED <<sync, gap, board, enc, conn, known, connected, host, main, calls, resets>>
    /\ \/ /\ chrs' = board[p.on] /\ done' = 0 /\ asked' = NoneAsked
          /\ SubscribeNext(p.on, 1, procs \ {p})
          /\ upset' = (procs # {p} \/ Passed(1)) /\ stranded' = FALSE
       \/ /\ Fault /\ procs' = procs \ {p} /\ stranded' = TRUE
          /\ UNCHANGED <<link, subscribed, havePeer, chrs, idx, done, started, asked, upset>>

(* on_dsc(): the CCCD of the report is found, and the write of it starts or  *)
(* does not.                                                                 *)
HasCccd(p) == p.at \in DOMAIN board[p.on] /\ board[p.on][p.at]
CccdFound(p) ==
    /\ Upon(p, "dsc") /\ HasCccd(p)
    /\ UNCHANGED <<sync, gap, board, enc, conn, known, connected, stranded, chrs, done, host, main,
                   calls, resets>>
    /\ LET rest == (procs \ {p}) \cup {[p EXCEPT !.kind = "end"]}
       IN \/ /\ procs' = rest \cup {[p EXCEPT !.kind = "cccd"]}
             /\ started' = TRUE
             /\ asked' = [asked EXCEPT ![p.at] = IF @ < 2 THEN @ + 1 ELSE @]
             /\ UNCHANGED <<link, subscribed, havePeer, idx, upset, faults>>
          \/ /\ faults < MaxFaults
             /\ idx' = idx + 1 /\ started' = (started /\ idx >= Len(chrs))
             /\ upset' = TRUE /\ asked' = asked /\ faults' = faults + 1
             /\ IF idx < Len(chrs)
                THEN /\ procs' = rest \cup {Proc(p.on, "dsc", idx + 1)}
                     /\ UNCHANGED <<link, subscribed, havePeer>>
                ELSE /\ procs' = rest
                     /\ IF done > 0 THEN Subscribed(p.on)
                        ELSE link' = Closed(p.on) /\ UNCHANGED <<subscribed, havePeer>>

(* Its descriptors end: the report had none, or the write goes on from here. *)
(* Mutant: both callbacks of a report go on to the next.                     *)
BothAdvance == TRUE
NoCccd == ~started
Ends(p) == p.kind = "end" \/ (p.kind = "dsc" /\ ~HasCccd(p))
DscDone(p) ==
    /\ p \in procs /\ Ends(p) /\ Upon(p, p.kind)
    /\ UNCHANGED <<sync, gap, board, enc, conn, known, connected, stranded, chrs, done, asked, host,
                   main, calls, resets>>
    /\ IF NoCccd
       THEN SubscribeNext(p.on, idx + 1, procs \ {p}) /\ upset' = (upset \/ Passed(idx + 1))
       ELSE /\ procs' = procs \ {p}
            /\ UNCHANGED <<link, subscribed, havePeer, idx, started, upset, faults>>

(* on_cccd_write(): a late one, of a walk that is over, is left alone. An    *)
(* end of descriptors that is due comes first.                               *)
(* Mutant: a late callback is not told from one of this walk.                *)
NeverOver == FALSE
FinishedWalk == idx > Len(chrs)
Advance(p, ok) ==
    IF FinishedWalk
    THEN /\ procs' = procs \ {p}
         /\ UNCHANGED <<link, subscribed, havePeer, idx, done, started, upset, faults>>
    ELSE /\ done' = IF ok THEN done + 1 ELSE done
         /\ SubscribeNext(p.on, idx + 1, procs \ {p})
         /\ upset' = (upset \/ Passed(idx + 1))
CccdWritten(p, ok) ==
    /\ Upon(p, "cccd") /\ [p EXCEPT !.kind = "end"] \notin procs
    /\ ok \/ faults < MaxFaults
    /\ UNCHANGED <<sync, gap, board, enc, conn, known, connected, stranded, chrs, asked, host, main,
                   calls, resets>>
    /\ Advance(p, ok)

-----------------------------------------------------------------------------
(* The end of a link: what is in flight on it fails, then the disconnection  *)
(* is reported.                                                              *)
Drop(h) ==
    /\ Linked(h) /\ link' = [link EXCEPT ![h] = "dying"]
    /\ UNCHANGED <<sync, gap, board, enc, procs, conn, known, flags, walk, host, main, bounds>>
Abort(p) ==
    /\ p \in procs /\ link[p.on] = "dying" /\ host = "free"
    /\ UNCHANGED <<sync, gap, board, enc, conn, known, connected, stranded, chrs, asked, host, main,
                   calls, resets>>
    /\ IF p.kind = "cccd" THEN Advance(p, FALSE)
       ELSE /\ procs' = procs \ {p}
            /\ UNCHANGED <<link, subscribed, havePeer, idx, done, started, upset, faults>>
(* Where the walk had got to is read by nobody once no procedure is left,    *)
(* and is put back here to keep the states few.                              *)
Disconnected(h) ==
    /\ link[h] = "dying" /\ host = "free" /\ \A p \in procs : p.on # h
    /\ link' = [link EXCEPT ![h] = "free"]
    /\ connected' = FALSE /\ subscribed' = FALSE /\ conn' = NoLink
    /\ ConnectKnown
    /\ board' = [board EXCEPT ![h] = SomeBoard] /\ enc' = [enc EXCEPT ![h] = 0]
    /\ asked' = NoneAsked /\ upset' = TRUE /\ stranded' = FALSE
    /\ IF procs = {} THEN idx' = 1 /\ done' = 0 /\ started' = FALSE
       ELSE UNCHANGED <<idx, done, started>>
    /\ UNCHANGED <<sync, procs, havePeer, chrs, main, bounds>>

(* BLE_GAP_EVENT_NOTIFY_RX, of a report that was subscribed to.              *)
Notified(h) ==
    /\ Linked(h) /\ host = "free" /\ chrs # <<>> /\ ~connected
    /\ connected' = TRUE
    /\ UNCHANGED <<stack, procs, conn, known, subscribed, havePeer, walk, host, main, bounds>>

(* repeat_task(): LINK_DEAD_MS without a report.                             *)
LinkDead ==
    /\ subscribed /\ conn # NoLink /\ link[conn] = "up"
    /\ link' = Closed(conn)
    /\ UNCHANGED <<sync, gap, board, enc, procs, conn, known, flags, walk, host, main, bounds>>

-----------------------------------------------------------------------------
(* The main task: kbd_forget_all(), and kbd_share_radio() while scanning.    *)
Call == main = "free" /\ calls < MaxCalls /\ calls' = calls + 1
Forget ==
    /\ Call /\ main' = "forget" /\ link' = Closed(conn)
    /\ UNCHANGED <<sync, gap, board, enc, procs, conn, known, flags, walk, host, faults, resets>>
ForgetBonds ==
    /\ main = "forget" /\ main' = "rescan"
    /\ havePeer' = FALSE /\ connected' = FALSE /\ subscribed' = FALSE
    /\ UNCHANGED <<stack, procs, conn, known, walk, host, bounds>>
Share ==
    /\ Call /\ gap = "scan" /\ main' = "cancel"
    /\ UNCHANGED <<stack, procs, conn, known, flags, walk, host, faults, resets>>
ShareCancel ==
    /\ main = "cancel" /\ main' = "rescan" /\ gap' = Cancelled(gap)
    /\ UNCHANGED <<sync, link, board, enc, procs, conn, known, flags, walk, host, bounds>>
Rescan ==
    /\ main = "rescan" /\ main' = "free" /\ gap' = Scanning(gap)
    /\ UNCHANGED <<sync, link, board, enc, procs, conn, known, flags, walk, host, bounds>>

Answered ==
    \E p \in procs : OnSvc(p) \/ OnChr(p) \/ CccdFound(p) \/ DscDone(p)
                     \/ Abort(p) \/ \E ok \in BOOLEAN : CccdWritten(p, ok)
Encrypted(h) == enc[h] = 0 /\ EncChange(h)
LinkNext ==
    \/ Sync \/ Reset \/ Found \/ ScanOver \/ ConnectFailed \/ Dial \/ Answered
    \/ \E h \in Links : \/ \E b \in Boards : Connected(h, b)
                        \/ EncChange(h) \/ Drop(h) \/ Disconnected(h) \/ Notified(h)
    \/ LinkDead \/ Forget \/ ForgetBonds \/ Share \/ ShareCancel \/ Rescan
(* The stack answers or times out every procedure, an encryption it started, *)
(* a connection attempt it was given 10 or 20 s for and a link it was told   *)
(* to close; its one task takes events in the order they come, so none that  *)
(* keeps waiting is put off for ever.                                        *)
LinkFair ==
    /\ SF_linkVars(Answered) /\ WF_linkVars(Dial) /\ WF_linkVars(Sync)
    /\ WF_linkVars(ConnectFailed \/ \E h \in Links, b \in Boards : Connected(h, b))
    /\ \A h \in Links : /\ SF_linkVars(Encrypted(h)) /\ SF_linkVars(Disconnected(h))
                        /\ WF_linkVars(link[h] = "closing" /\ Drop(h))
    /\ WF_linkVars(ForgetBonds) /\ WF_linkVars(ShareCancel) /\ WF_linkVars(Rescan)
LinkSpec == LinkInit /\ [][LinkNext]_linkVars /\ LinkFair

(* With the host up and no keyboard linked, and no task in the middle of a   *)
(* call, the radio is looking for one: no failure, disconnection, forgetting *)
(* or change of duty leaves the deck deaf until a reboot.                    *)
AlwaysLooking ==
    (sync /\ host = "free" /\ main = "free" /\ \A h \in Links : link[h] = "free")
        => gap # "idle"

(* 'Exactly one path advances': a walk in which nothing failed to start and  *)
(* no other ran has subscribed once to every report it has passed that has a *)
(* CCCD, and to no report it has not come to (on_dsc, on_cccd_write).        *)
EachReportOnce ==
    upset \/ \A i \in DOMAIN chrs :
        /\ asked[i] <= 1
        /\ i < idx => (asked[i] = 1 <=> chrs[i])
        /\ i > idx => asked[i] = 0

(* 'Connected with nothing subscribed is a dead link': a link either comes   *)
(* to have reports subscribed or is dropped, but for two faults that nothing *)
(* follows up: discovery of the service that does not start, and of its      *)
(* characteristics that ends in an error.                                    *)
Settled(h) == link[h] # "up" \/ (FinishedWalk /\ done > 0) \/ stranded
LinkSettles == \A h \in Links : link[h] = "up" ~> Settled(h)

(* 'Alternate between the two ways of meeting a keyboard': one that is known *)
(* and not linked is dialled again, however long nothing else is heard.      *)
KnownTriedAgain ==
    (sync /\ havePeer /\ \A h \in Links : link[h] = "free")
        ~> (gap = "dial" \/ ~havePeer \/ ~sync \/ \E h \in Links : link[h] # "free")

(* A keyboard is looked for while there is none, and asked for every report  *)
(* once when there is one (gap_event, subscribe_next).                       *)
LinkKept == AlwaysLooking /\ EachReportOnce
=============================================================================
