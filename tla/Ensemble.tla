------------------------------ MODULE Ensemble ------------------------------
(***************************************************************************)
(* Decks that play together (ensemble.c, ens_count.h), over ESP-NOW.  The  *)
(* leader says where it is in a beacon; a follower probes it and measures  *)
(* from each answer how many pulses the leader's count is ahead of its     *)
(* own, and moves its own when enough answers agree.                       *)
(*                                                                         *)
(*   the main loop       ensemble_service(), '>sync', '>play', '>bpm'      *)
(*   the Wi-Fi task      on_recv() and on_sent(), above the main loop      *)
(*   the clock's tick    takes up a new count, on the other core           *)
(*                                                                         *)
(* A count is told by its origin, which a tick leaves alone: two decks     *)
(* agree when their origins are equal.  Times are told by whose they are:  *)
(* a departure by the send it belongs to, a round trip by "quick" (under   *)
(* 2 ms, half a fifth of a pulse out), "slow" or "bad".  Below a pulse     *)
(* nothing is modelled.                                                    *)
(***************************************************************************)
EXTENDS Integers, Sequences, FiniteSets, SequencesExt

CONSTANTS Decks,
          First,     \* the roles they have been given; a leader plays already
          Origins,   \* where a '>play' falls on the pulses the decks share
          Tempos,
          Ring,      \* AIRRING: exchanges under way
          Tags,      \* bound: tags are 1..Tags, and no packet lives that long
          Agree,     \* answers in a row that must agree
          Window,    \* WINDOW: exchanges to a correction of the phase
          MaxNet,    \* bound: packets in the air
          MaxOwed,   \* bound: send callbacks owed to a follower
          MaxSaid,   \* bound: and to a leader
          MaxOrders,  \* bound: what the players do, and sends refused
          None

ASSUME EnsembleAssumption ==
    /\ First \in [Decks -> {"off", "lead", "follow"}]
    /\ Origins \subseteq Int /\ Origins # {} /\ Tempos \subseteq Nat /\ Tempos # {}
    /\ {Ring, Tags, Agree, Window, MaxNet, MaxOwed, MaxSaid} \subseteq Nat \ {0}
    /\ Tags % Ring = 0 /\ Tags > Ring /\ MaxOrders \in Nat
    /\ None \notin Int \cup Decks \cup [origin : Int, bpm : Nat] \cup [mac : Decks, tag : Nat]

VARIABLES role,    \* s_role
          clock,   \* what seq.c keeps of it
          link,    \* what ensemble.c keeps: callbacks, exchanges, readings
           \* a reply the main loop is half way through sending
          net,     \* packets in the air
          orders,
          steady   \* observed: one deck leads, and has kept its count and tempo

ensembleVars == <<role, clock, link, net, orders, steady>>

AirSlots == 0 .. Ring - 1
Read == [origin |-> 0, bpm |-> 0]     \* an answer that is not looked at again
IdleSlot == [tag |-> 0, air |-> None, rx |-> None, lost |-> FALSE, uses |-> 0]

\* What ensemble_set() clears.  matched is observed: every callback still owed
\* is for the send that s_pend says it is for.
ClearedLink(l) ==
    [l EXCEPT !.exch = [k \in AirSlots |-> IdleSlot], !.pend = <<>>, !.same = 0,
              !.samples = 0, !.seen = None, !.matched = (l.owed = <<>>)]

EnsembleInit ==
    /\ role = First
    /\ clock = [d \in Decks |->
           [play |-> IF First[d] = "lead" THEN "playing" ELSE "stopped",
            origin |-> CHOOSE o \in Origins : TRUE,
            bpm |-> CHOOSE t \in Tempos : TRUE, adopt |-> None, taken |-> None,
            await |-> FALSE, follows |-> FALSE, played |-> First[d] = "lead"]]
    /\ link = [d \in Decks |->
           [leader |-> None, tag |-> 0, exch |-> [k \in AirSlots |-> IdleSlot],
            pend |-> <<>>, owed |-> <<>>, probed |-> None, last |-> 0, same |-> 0,
            samples |-> 0, seen |-> None, matched |-> TRUE]]
    /\ net = {} /\ orders = 0 /\ steady = TRUE
----------------------------------------------------------------------------
(* What the radio asks of the clock.                                       *)

Running(c) == c.play # "stopped"
Anchored(c) == c.play = "playing"

\* seq_follow()
FollowLeader(c, on) ==
    IF on THEN [c EXCEPT !.follows = TRUE]
          ELSE [c EXCEPT !.follows = FALSE, !.await = FALSE, !.adopt = None]

\* seq_adopt()
AdoptClock(c, ahead) ==
    IF Running(c) /\ c.adopt = None THEN [c EXCEPT !.adopt = ahead] ELSE c

\* seq_nudge_by(), for the tempo
NudgeTempo(c, bpm) == IF Anchored(c) THEN [c EXCEPT !.bpm = bpm] ELSE c

\* The first tick after '>play' anchors the grid; each takes up a new count.
DeckTick(d) ==
    LET c == clock[d]
    IN  /\ c.play = "armed" \/ (Running(c) /\ c.adopt # None)
        /\ c.taken = None
        /\ clock' = [clock EXCEPT ![d] =
               [c EXCEPT !.play = "playing", !.taken = c.adopt, !.adopt = None,
                         !.await = (c.await /\ c.adopt = None)]]
        /\ UNCHANGED <<role, link, net, orders, steady>>

\* s_tick += d, after the request was taken off the list
RenumberBars(d) ==
    LET c == clock[d]
    IN  /\ c.taken # None
        /\ clock' = [clock EXCEPT ![d] =
               [c EXCEPT !.origin = c.origin + c.taken, !.taken = None]]
        /\ UNCHANGED <<role, link, net, orders, steady>>

\* A second of silence is the most a follower waits.
WaitedLong(d) ==
    /\ clock[d].await /\ Anchored(clock[d])
    /\ clock' = [clock EXCEPT ![d].await = FALSE]
    /\ UNCHANGED <<role, link, net, orders, steady>>

----------------------------------------------------------------------------
(* An exchange, s = [c |-> clock, l |-> link] of one deck.                 *)

\* bound: a mistimed reading still names a place to start from.
Misread(c) == {o - c.origin : o \in Origins}

\* ens_count_ahead(): right for an exchange timed from its own departure, and
\* answered quickly.  Mutant: a slow answer is counted too.
SlowToo(c, e, how) == IF how = "bad" \/ ~Running(c) THEN {} ELSE Misread(c)
Readings(c, e, how) ==
    IF how # "quick" \/ ~Running(c) THEN {}
    ELSE IF e.air = e.tag THEN {e.rx.origin - c.origin} ELSE Misread(c)

\* So many fresh answers before the count can move again.
\* Mutant: the agreement goes on.
StillAgreed == Agree
Forgiven == -Agree

\* The length of an agreement is kept to what the code tells apart.
Reading(s, ahead) ==
    LET n == IF ahead # s.l.last THEN 1
             ELSE IF s.l.same < Agree THEN s.l.same + 1 ELSE Agree
        move == n >= Agree /\ (ahead # 0 \/ s.c.await)
    IN  [c |-> IF move THEN AdoptClock(s.c, ahead) ELSE s.c,
         l |-> [s.l EXCEPT !.last = ahead, !.same = IF move THEN Forgiven ELSE n]]

\* A full window corrects the phase, or is skipped; with it comes the tempo the
\* answer carried.
Sampled(s, e) ==
    IF s.l.samples + 1 < Window THEN {[s EXCEPT !.l.samples = @ + 1]}
    ELSE LET t == [s EXCEPT !.l.samples = 0]
         IN  {t, [t EXCEPT !.c = NudgeTempo(s.c, e.rx.bpm)]}

UsedUp(e) == [e EXCEPT !.uses = IF e.uses = 0 THEN 1 ELSE 2, !.rx = Read]

\* settle(): the results it may have.
Settle(s, k, how) ==
    LET e == s.l.exch[k]
        used == [s EXCEPT !.l.exch[k] = UsedUp(@)]
        counted == LET rs == Readings(s.c, e, how)
                   IN  IF rs = {} THEN {used} ELSE {Reading(used, r) : r \in rs}
    IN  IF e.lost \/ e.air = None \/ e.rx = None THEN {s}
        ELSE IF how = "bad" \/ ~Anchored(s.c) THEN {used}
        ELSE UNION {Sampled(x, e) : x \in counted}

Become(d, s) ==
    /\ clock' = [clock EXCEPT ![d] = s.c]
    /\ link' = [link EXCEPT ![d] = s.l]
----------------------------------------------------------------------------
(* The Wi-Fi task.                                                         *)

Quickness == {"quick", "slow", "bad"}
State(d) == [c |-> clock[d], l |-> link[d]]

\* A tempo that changed makes the window start again.
Seen(s, p) ==
    IF ~p.running THEN s
    ELSE [s EXCEPT !.l = [@ EXCEPT !.seen = p.bpm, !.samples =
                              IF s.l.seen \notin {None, p.bpm} THEN 0 ELSE s.l.samples]]

HeardFrom(d, p) ==
    LET s == State(d)
    IN  IF role[d] = "follow" /\ p.kind # "probe"
        THEN Seen([s EXCEPT !.c = FollowLeader(s.c, p.running)], p)
        ELSE s

RecvBeacon(d, p) ==
    /\ p.kind = "beacon" /\ p.to = d /\ p \in net /\ net' = net \ {p}
    /\ LET s == HeardFrom(d, p)
           t == [c |-> IF p.running THEN NudgeTempo(s.c, p.bpm) ELSE s.c,
                 l |-> [s.l EXCEPT !.leader = p.from]]
       IN  Become(d, IF role[d] = "follow" THEN t ELSE s)
    /\ UNCHANGED <<role, orders, steady>>

\* The newest probe is the one that is answered.
RecvProbe(d, p) ==
    /\ p.kind = "probe" /\ p.to = d /\ p \in net /\ net' = net \ {p}
    /\ link' = IF role[d] # "lead" THEN link
               ELSE [link EXCEPT ![d].probed = [mac |-> p.from, tag |-> p.tag]]
    /\ UNCHANGED <<role, clock, orders, steady>>

\* Mutant: one slot out.
SlotBefore(tag) == (tag - 1) % Ring
SlotOf(tag) == tag % Ring

\* The slot of a tag that is not forgotten; an answer may arrive twice.
\* Mutant: the second one counts too.
OwedOrNot(l, tag) == l.exch[SlotOf(tag)].tag = tag
Owed(l, tag) == l.exch[SlotOf(tag)].tag = tag /\ l.exch[SlotOf(tag)].rx = None

RecvReply(d, p, how) ==
    /\ p.kind = "reply" /\ p.to = d /\ p \in net /\ net' \in {net, net \ {p}}
    /\ LET s == HeardFrom(d, p)
           k == SlotOf(p.tag)
           t == [s EXCEPT !.l.exch[k].rx = [origin |-> p.origin, bpm |-> p.bpm]]
       IN  IF role[d] = "follow" /\ p.running /\ p.whom = d /\ Owed(s.l, p.tag)
           THEN \E u \in Settle(t, k, how) : Become(d, u)
           ELSE Become(d, s)
    /\ UNCHANGED <<role, orders, steady>>

\* Which probe a send callback is about.  Mutant: the latest one sent.
Latest(l) == l.tag
Departed(l) == Head(l.pend)

\* on_sent(): callbacks come one per send and in order.
Sent(d, how) ==
    LET l == link[d]
        cb == Head(l.owed)
        tag == Departed(l)
        k == SlotOf(tag)
        e == l.exch[k]
        heard == [l EXCEPT !.owed = Tail(@)]
        popped == [heard EXCEPT !.pend = Tail(@)]
        left == [popped EXCEPT !.exch[k].air = cb.tag]
    IN  /\ l.owed # <<>>
        /\ IF role[d] # "follow" \/ l.pend = <<>>
           THEN link' = [link EXCEPT ![d] = heard] /\ clock' = clock
           ELSE IF e.tag # tag \/ e.air # None
           THEN link' = [link EXCEPT ![d] = popped] /\ clock' = clock
           ELSE IF ~cb.acked
           THEN link' = [link EXCEPT ![d] = [popped EXCEPT !.exch[k].lost = TRUE]]
                /\ clock' = clock
           ELSE \E u \in Settle([c |-> clock[d], l |-> left], k, how) : Become(d, u)
        /\ UNCHANGED <<role, net, orders, steady>>
----------------------------------------------------------------------------
(* The main loop.                                                          *)

\* stamp()
\* (of a probe nothing but the tag is looked at)
Stamp(d, kind, to, tag, whom) ==
    [kind |-> kind, from |-> d, to |-> to, tag |-> tag, whom |-> whom,
     origin |-> clock[d].origin, bpm |-> clock[d].bpm, running |-> Anchored(clock[d])]

\* esp_now_send(): it may be refused, go unheard, or go unacknowledged.
Fates == {"refused", "unheard", "unacked", "fine"}
CallbackOf(fate, tag) ==
    IF fate = "refused" THEN <<>>
    ELSE <<[tag |-> tag, acked |-> fate = "fine"]>>
Budget(fate) ==
    IF fate = "refused" THEN orders < MaxOrders /\ orders' = orders + 1 ELSE orders' = orders
Launch(ps, fate) ==
    /\ Budget(fate)
    /\ fate \in {"unacked", "fine"} => Cardinality(net \cup ps) <= MaxNet
    /\ net' = IF fate \in {"unacked", "fine"} THEN net \cup ps ELSE net

Beacon(d, fate) ==
    /\ role[d] = "lead"
    /\ Launch({Stamp(d, "beacon", e, 0, None) : e \in Decks \ {d}}, fate)
    /\ UNCHANGED <<role, clock, link, steady>>

\* The reply that is owed, whatever else the loop does.
Answer(d, fate) ==
    /\ role[d] = "lead" /\ link[d].probed # None
    /\ LET q == link[d].probed
       IN  Launch({Stamp(d, "reply", q.mac, q.tag, q.mac)}, fate)
    /\ link' = [link EXCEPT ![d].probed = None]
    /\ UNCHANGED <<role, clock, steady>>

\* s_pend is a ring: an entry too many takes the place of the oldest.
Pushed(pend, tag) ==
    IF Len(pend) < Ring THEN Append(pend, tag)
    ELSE Append([pend EXCEPT ![Len(pend) - Ring + 1] = tag], tag)

\* 50 ms go by between two probes, and at 20 bpm 31 between two ticks.
Ticked(c) == c.taken = None /\ (Running(c) => c.adopt = None)

\* The slot is claimed and the tag queued before the send, whatever becomes of it.
Probe(d, fate) ==
    LET l == link[d]
        tag == (l.tag % Tags) + 1
        fresh == {p \in net : ~(p.tag = tag /\ d \in {p.from, p.to})}
        sent == {[kind |-> "probe", from |-> d, to |-> l.leader, tag |-> tag]}
        inAir == fate \in {"unacked", "fine"}
    IN  /\ role[d] = "follow" /\ l.leader # None
        /\ Ticked(clock[d])
        /\ Len(l.owed) < MaxOwed /\ Len(l.pend) < MaxOwed
        /\ Budget(fate)
        /\ inAir => Cardinality(fresh \cup sent) <= MaxNet
        /\ net' = IF inAir THEN fresh \cup sent ELSE fresh
        /\ link' = [link EXCEPT ![d] =
               [l EXCEPT !.tag = tag, !.exch[SlotOf(tag)] = [IdleSlot EXCEPT !.tag = tag],
                         !.pend = Pushed(l.pend, tag), !.owed = l.owed \o CallbackOf(fate, tag),
                         !.matched = (l.matched /\ fate # "refused" /\ Len(l.pend) < Ring)]]
        /\ UNCHANGED <<role, clock, steady>>

Order == orders < MaxOrders /\ orders' = orders + 1

\* The callbacks of beacons and replies do nothing to a leader; how many it is
\* still owed is made up when it becomes a follower.
Said == [n \in 1 .. MaxSaid |-> [tag |-> 0, acked |-> TRUE]]
OwedTo(d) ==
    IF role[d] = "lead" THEN {SubSeq(Said, 1, n) : n \in 0 .. MaxSaid}
    ELSE {link[d].owed}

\* ensemble_set(): switched off, the radio owes nothing more.
SetRole(d, r) ==
    /\ Order /\ r # role[d]
    /\ role' = [role EXCEPT ![d] = r]
    /\ clock' = [clock EXCEPT ![d] = FollowLeader(@, FALSE)]
    /\ \E owed \in OwedTo(d) : link' = [link EXCEPT ![d] =
           IF r = "off" THEN [@ EXCEPT !.owed = <<>>]
           ELSE ClearedLink([@ EXCEPT !.owed = IF r = "lead" THEN <<>> ELSE owed])]
    /\ steady' = (steady /\ "lead" \notin {role[d], r})
    /\ UNCHANGED <<net>>

\* seq_play(), whole: SeqClock takes it a store at a time.
PlayDeck(d) ==
    /\ Order /\ clock[d].taken = None
    /\ \E o \in Origins :
          clock' = [clock EXCEPT ![d] =
              [@ EXCEPT !.play = "armed", !.origin = o, !.adopt = None,
                        !.await = clock[d].follows,
                        !.played = clock[d].played \/ role[d] # "follow"]]
    /\ steady' = (steady /\ (role[d] = "follow" \/ ~clock[d].played))
    /\ UNCHANGED <<role, link, net>>

StopDeck(d) ==
    /\ Order /\ Running(clock[d]) /\ clock[d].taken = None
    /\ clock' = [clock EXCEPT ![d].play = "stopped"]
    /\ UNCHANGED <<role, link, net, steady>>

\* While the tempos differ the counts part; how far is made up here.
BpmOf(d) ==
    /\ Order
    /\ \E t \in Tempos :
          LET same == t = clock[d].bpm
          IN  /\ \E o \in IF same THEN {clock[d].origin} ELSE Origins :
                    clock' = [clock EXCEPT ![d] = [@ EXCEPT !.bpm = t, !.origin = o]]
              /\ steady' = (steady /\ same)
    /\ UNCHANGED <<role, link, net>>

Player(d) == \/ \E r \in {"off", "lead", "follow"} : SetRole(d, r)
             \/ PlayDeck(d) \/ StopDeck(d) \/ BpmOf(d)
Radio(d) == \/ \E p \in net : RecvBeacon(d, p) \/ RecvProbe(d, p)
            \/ \E p \in net, how \in Quickness : RecvReply(d, p, how)
            \/ \E how \in Quickness : Sent(d, how)
Loop(d) == \E f \in Fates : Beacon(d, f) \/ Answer(d, f) \/ Probe(d, f)
DeckTimer(d) == DeckTick(d) \/ RenumberBars(d) \/ WaitedLong(d)

EnsembleNext == \E d \in Decks : Player(d) \/ Radio(d) \/ Loop(d) \/ DeckTimer(d)

EnsembleSpec == EnsembleInit /\ [][EnsembleNext]_ensembleVars
----------------------------------------------------------------------------
Tag == 0 .. Tags

EnsembleTypeOK ==
    \A d \in Decks :
       /\ role[d] \in {"off", "lead", "follow"}
       /\ clock[d].play \in {"stopped", "armed", "playing"} /\ clock[d].origin \in Int
       /\ {clock[d].adopt, clock[d].taken} \subseteq Int \cup {None}
       /\ clock[d].bpm \in Tempos
       /\ link[d].leader \in (Decks \ {d}) \cup {None} /\ link[d].tag \in Tag
       /\ link[d].same \in -Agree .. Agree /\ link[d].samples \in 0 .. Window - 1
       /\ Range(link[d].pend) \subseteq Tag \ {0}
       /\ \A k \in AirSlots : link[d].exch[k].tag \in Tag
                              /\ link[d].exch[k].tag % Ring \in {0, k}

\* "A queue matches them exactly": a departure is that of the exchange it is
\* stamped on, as long as no send was refused and no role was set over callbacks
\* that were still owed.
AirIsItsOwn ==
    \A d \in Decks : role[d] = "follow" /\ link[d].matched =>
        \A k \in AirSlots : link[d].exch[k].air \in {None, link[d].exch[k].tag}

\* "Neither callback owns the calculation": whichever half comes last, and
\* however often an answer arrives, an exchange is read once.
ReadOnce == \A d \in Decks, k \in AirSlots : link[d].exch[k].uses <= 1

\* A move the clock has been asked for, and one it is making, land the follower
\* on the leader's count and are not made twice.
LandsOnLeader ==
    \A d \in Decks :
        LET c == clock[d]
            moving == IF c.taken = None THEN 0 ELSE c.taken
        IN  steady /\ role[d] = "follow" /\ link[d].matched /\ c.adopt # None =>
                c.origin + moving + c.adopt = clock[link[d].leader].origin

\* "Tempo is followed at once", and half a window "measured against the old
\* grid" is thrown away: a follower that has taken up the tempo it heard last
\* keeps it until it hears another or a player sets one.
TempoKept ==
    [][\A d \in Decks :
          /\ role[d] = "follow" /\ clock[d].bpm = link[d].seen
          /\ orders' = orders /\ link'[d].seen = link[d].seen
          => clock'[d].bpm = clock[d].bpm]_ensembleVars

\* However callbacks and answers are ordered, lost or repeated, an exchange is
\* timed by its own departure and read once (on_recv, on_sent).
ExchangeIsItsOwn == AirIsItsOwn /\ ReadOnce
=============================================================================
