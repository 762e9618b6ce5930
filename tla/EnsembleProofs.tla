-------------------------- MODULE EnsembleProofs --------------------------
(***************************************************************************)
(* Decks that play together, for any number of decks, any bounds on the    *)
(* air, and however many players.                                          *)
(*                                                                         *)
(*   EnsTyped  what each part holds                                        *)
(*   ExchInv   the callbacks owed are those of the sends that are queued,  *)
(*             so a departure is stamped on its own exchange; an exchange  *)
(*             that was read has both its halves, and is not read again    *)
(*   LandInv   while one deck leads: every answer in the air or put by     *)
(*             says where it is, a move asked of the clock ends there, and *)
(*             until the clock has made it the answers still to come are   *)
(*             too few to agree on another                                 *)
(*                                                                         *)
(* The last is what ensemble.c:445-447 says of the answers "measured       *)
(* before the move landed".  That they cannot agree again is a matter of   *)
(* numbers: AIRRING has four exchanges, and three of them must agree.      *)
(*                                                                         *)
(* And the slots that a deck plays by that count, for any division, rate,  *)
(* count and swing:                                                        *)
(*                                                                         *)
(*   SlotsInv  the last slot started on the tick that is its own, in a     *)
(*             pass of the lane's, and the next one is still to come: with *)
(*             the swing moved since, at least the next even one is        *)
(***************************************************************************)
EXTENDS Ensemble, SlotGrid, TLAPS, FiniteSetTheorems, SequenceTheorems

Answers == [origin : Int, bpm : Nat]
Slot == [tag : Nat, air : Nat \cup {None}, rx : Answers \cup {None}, lost : BOOLEAN,
         uses : Nat]
Clocks == [play : {"stopped", "armed", "playing"}, origin : Int, bpm : Nat,
           adopt : Int \cup {None}, taken : Int \cup {None}, await : BOOLEAN,
           follows : BOOLEAN, played : BOOLEAN]
Callback == [tag : Nat, acked : BOOLEAN]
LinkRecs == [leader : Decks \cup {None}, tag : Nat, exch : [AirSlots -> Slot],
          pend : Seq(Nat \ {0}), owed : Seq(Callback),
          probed : [mac : Decks, tag : Nat] \cup {None}, last : Int, same : Int,
          samples : Nat, seen : Nat \cup {None}, matched : BOOLEAN]
Packet(p) ==
    /\ p.to \in Decks /\ p.from \in Decks /\ p.kind \in {"beacon", "probe", "reply"}
    /\ p.tag \in Nat
    /\ p.kind # "probe" => p.origin \in Int /\ p.bpm \in Nat /\ p.running \in BOOLEAN
EnsTyped ==
    /\ role \in [Decks -> {"off", "lead", "follow"}]
    /\ clock \in [Decks -> Clocks] /\ link \in [Decks -> LinkRecs]
    /\ \A p \in net : Packet(p)
    /\ steady \in BOOLEAN

\* An answer is read when both halves are there, and not again.
ReadsOnce(e) == e.uses <= 1 /\ (e.uses # 0 => e.air # None /\ e.rx # None)
OwnAir(e) == e.air # None => e.air = e.tag /\ e.tag # 0
\* The callbacks owed are the sends'.
Matches(l) == Len(l.owed) = Len(l.pend) /\ \A i \in 1..Len(l.pend) : l.owed[i].tag = l.pend[i]
ExchInv ==
    \A d \in Decks :
        /\ \A k \in AirSlots : ReadsOnce(link[d].exch[k])
        /\ role[d] = "lead" => link[d].owed = <<>>
        /\ role[d] = "follow" /\ link[d].matched =>
               Matches(link[d]) /\ \A k \in AirSlots : OwnAir(link[d].exch[k])

\* The deck that leads, all along.
Leads(L) ==
    /\ role[L] = "lead" /\ clock[L].played = TRUE
    /\ clock[L].adopt = None /\ clock[L].taken = None
    /\ \A d \in Decks \ {L} : role[d] # "lead"
    /\ \A p \in net : p.kind # "probe" => p.from = L /\ p.origin = clock[L].origin
    /\ \A d \in Decks : link[d].leader \in {None, L}

Unread(l) == {k \in AirSlots : l.exch[k].tag # 0 /\ l.exch[k].uses = 0}
Moving(c) == (Running(c) /\ c.adopt # None) \/ c.taken # None
\* What a follower has heard of the leader's origin, o, and what it does of it.
Hears(l, L, o) ==
    /\ \A k \in AirSlots : l.exch[k].tag # 0 => l.leader = L
    /\ \A k \in AirSlots : l.exch[k].rx # None /\ l.exch[k].uses = 0 => l.exch[k].rx.origin = o
Lands(c, l, L, o) ==
    /\ c.adopt # None => c.taken = None /\ c.origin + c.adopt = o /\ l.leader = L
    /\ Moving(c) /\ Unread(l) # {} =>
           l.same + Cardinality(Unread(l)) < Agree /\ l.last = o - c.origin
LandDeck(r, c, l, L, o) == Hears(l, L, o) /\ (r = "follow" /\ l.matched => Lands(c, l, L, o))
LandInv(L) ==
    steady = TRUE =>
        Leads(L) /\ \A d \in Decks : LandDeck(role[d], clock[d], link[d], L, clock[L].origin)

States == [c : Clocks, l : LinkRecs]

\* What reading an answer may change of a deck, and what it leaves.
Kept(m, l) ==
    /\ m.leader = l.leader /\ m.tag = l.tag /\ m.pend = l.pend /\ m.owed = l.owed
    /\ m.probed = l.probed /\ m.matched = l.matched
KeptClock(b, c) ==
    /\ b.play = c.play /\ b.origin = c.origin /\ b.taken = c.taken
    /\ b.played = c.played

LEMMA NoneIs == None \notin Int /\ None \notin Nat /\ None \notin Decks /\ None \notin Answers
                /\ None \notin [mac : Decks, tag : Nat] /\ Read # None /\ Read \in Answers
<1>1. Read \in [origin : Int, bpm : Nat]
    BY DEF Read
<1>2. QED
    BY <1>1, EnsembleAssumption DEF Answers

LEMMA SlotFields ==
    ASSUME NEW l \in LinkRecs, NEW k \in AirSlots
    PROVE  l.exch \in [AirSlots -> Slot] /\ l.exch[k] \in Slot
    BY DEF LinkRecs

LEMMA UsedUpIs ==
    ASSUME NEW e \in Slot
    PROVE  /\ UsedUp(e) \in Slot /\ UsedUp(e).tag = e.tag /\ UsedUp(e).air = e.air
           /\ UsedUp(e).lost = e.lost /\ UsedUp(e).rx = Read
           /\ UsedUp(e).uses = IF e.uses = 0 THEN 1 ELSE 2
<1>1. Read \in Answers
    BY NoneIs
<1>2. QED
    BY <1>1 DEF UsedUp, Slot

LEMMA UsedIs ==
    ASSUME NEW s \in States, NEW k \in AirSlots
    PROVE  \E u :
            /\ u = [s EXCEPT !.l = [s.l EXCEPT !.exch = [s.l.exch EXCEPT ![k] = UsedUp(s.l.exch[k])]]]
            /\ u \in States /\ u.c = s.c /\ Kept(u.l, s.l)
            /\ u.l.exch = [s.l.exch EXCEPT ![k] = UsedUp(s.l.exch[k])]
            /\ u.l.last = s.l.last /\ u.l.same = s.l.same
<1>1. s.l \in LinkRecs /\ s.c \in Clocks /\ s.l.exch \in [AirSlots -> Slot] /\ s.l.exch[k] \in Slot
    BY DEF States, LinkRecs
<1>2. PICK x : x = [s.l.exch EXCEPT ![k] = UsedUp(s.l.exch[k])]
    OBVIOUS
<1>3. x \in [AirSlots -> Slot]
    BY <1>1, <1>2, UsedUpIs
<1>4. PICK m : m = [s.l EXCEPT !.exch = x]
    OBVIOUS
<1>5. m \in LinkRecs /\ m.exch = x /\ Kept(m, s.l) /\ m.last = s.l.last /\ m.same = s.l.same
    BY <1>1, <1>3, <1>4 DEF LinkRecs, Kept
<1>6. PICK u : u = [s EXCEPT !.l = m]
    OBVIOUS
<1>7. u \in States /\ u.c = s.c /\ u.l = m
    BY <1>5, <1>6 DEF States
<1>8. u = [s EXCEPT !.l = [s.l EXCEPT !.exch = [s.l.exch EXCEPT ![k] = UsedUp(s.l.exch[k])]]]
    BY <1>2, <1>4, <1>6
<1>9. QED
    BY <1>2, <1>5, <1>7, <1>8

\* How often the answers have agreed, with one more that says r.
Agreed(l, r) == IF r # l.last THEN 1 ELSE IF l.same < Agree THEN l.same + 1 ELSE Agree
\* What a reading of r comes to: agreement, and perhaps a move.
Heard(u, s, r) ==
    /\ u.l.last = r
    /\ \/ u.l.same = Agreed(s.l, r) /\ u.c.adopt = s.c.adopt
       \/ /\ Agreed(s.l, r) >= Agree /\ u.l.same = -Agree
          /\ u.c.adopt = s.c.adopt \/ (s.c.adopt = None /\ u.c.adopt = r)

LEMMA Ints == Ring \in Nat \ {0} /\ Tags \in Nat \ {0} /\ Agree \in Nat \ {0} /\ Window \in Nat \ {0}
              /\ Origins \subseteq Int
    BY EnsembleAssumption

LEMMA ReadingIs ==
    ASSUME NEW s \in States, NEW r \in Int, NEW u, u = Reading(s, r)
    PROVE  /\ u \in States /\ Kept(u.l, s.l) /\ KeptClock(u.c, s.c)
           /\ u.l.exch = s.l.exch /\ Heard(u, s, r)
<1> DEFINE n == IF r # s.l.last THEN 1
                ELSE IF s.l.same < Agree THEN s.l.same + 1 ELSE Agree
           move == n >= Agree /\ (r # 0 \/ s.c.await)
<1>1. /\ s.l \in LinkRecs /\ s.c \in Clocks /\ Agree \in Nat \ {0} /\ s.l.same \in Int
      /\ s = [c |-> s.c, l |-> s.l]
    BY Ints DEF States, LinkRecs
<1>2. n \in Int /\ n = Agreed(s.l, r)
    BY <1>1 DEF Agreed
<1>3. u = [c |-> IF move THEN AdoptClock(s.c, r) ELSE s.c,
           l |-> [s.l EXCEPT !.last = r, !.same = IF move THEN -Agree ELSE n]]
    BY DEF Reading, Forgiven
<1> HIDE DEF n, move
<1>4. PICK m : m = IF move THEN -Agree ELSE n
    OBVIOUS
<1>5. m \in Int
    BY <1>1, <1>2, <1>4
<1>6. PICK l : l = [s.l EXCEPT !.last = r, !.same = m]
    OBVIOUS
<1>7. l \in LinkRecs /\ Kept(l, s.l) /\ l.exch = s.l.exch /\ l.last = r /\ l.same = m
    BY <1>1, <1>5, <1>6 DEF LinkRecs, Kept
<1>8. PICK a : a = AdoptClock(s.c, r)
    OBVIOUS
<1>9. /\ a \in Clocks /\ KeptClock(a, s.c)
      /\ a.adopt = s.c.adopt \/ (s.c.adopt = None /\ a.adopt = r)
    BY <1>1, <1>8 DEF AdoptClock, Clocks, KeptClock
<1>10. CASE move
  <2>1. u = [c |-> a, l |-> l]
    BY <1>3, <1>4, <1>6, <1>8, <1>10
  <2>2. n >= Agree
    BY <1>10 DEF move
  <2>3. QED
    BY <1>2, <1>4, <1>7, <1>9, <1>10, <2>1, <2>2 DEF States, Heard
<1>11. CASE ~move
  <2>1. u = [c |-> s.c, l |-> l]
    BY <1>3, <1>4, <1>6, <1>11
  <2>2. QED
    BY <1>1, <1>2, <1>4, <1>7, <1>11, <2>1 DEF States, Heard, KeptClock
<1>12. QED
    BY <1>10, <1>11

LEMMA SampledIs ==
    ASSUME NEW s \in States, NEW e \in Slot, e.rx # None, NEW u \in Sampled(s, e)
    PROVE  /\ u \in States /\ Kept(u.l, s.l) /\ KeptClock(u.c, s.c)
           /\ u.l.exch = s.l.exch /\ u.l.last = s.l.last /\ u.l.same = s.l.same
           /\ u.c.adopt = s.c.adopt
<1>1. /\ s.l \in LinkRecs /\ s.c \in Clocks /\ s.l.samples \in Nat
      /\ s = [c |-> s.c, l |-> s.l] /\ e.rx.bpm \in Nat
    BY DEF States, LinkRecs, Slot, Answers
<1>2. PICK n, b : /\ n \in Nat
                  /\ u = [c |-> b, l |-> [s.l EXCEPT !.samples = n]]
                  /\ b = s.c \/ b = NudgeTempo(s.c, e.rx.bpm)
  <2>1. CASE s.l.samples + 1 < Window
    <3>1. u = [s EXCEPT !.l.samples = s.l.samples + 1]
      BY <2>1 DEF Sampled
    <3>2. u = [c |-> s.c, l |-> [s.l EXCEPT !.samples = s.l.samples + 1]]
      BY <1>1, <3>1
    <3>3. QED
      <4>1. s.l.samples + 1 \in Nat
        BY <1>1
      <4>2. QED
        BY <3>2, <4>1
  <2>2. CASE ~(s.l.samples + 1 < Window)
    <3>1. PICK t : t = [s EXCEPT !.l.samples = 0]
      OBVIOUS
    <3>2. t = [c |-> s.c, l |-> [s.l EXCEPT !.samples = 0]]
      BY <1>1, <3>1
    <3>3. u = t \/ u = [t EXCEPT !.c = NudgeTempo(s.c, e.rx.bpm)]
      BY <2>2, <3>1 DEF Sampled
    <3>4. \/ u = [c |-> s.c, l |-> [s.l EXCEPT !.samples = 0]]
          \/ u = [c |-> NudgeTempo(s.c, e.rx.bpm), l |-> [s.l EXCEPT !.samples = 0]]
      BY <3>2, <3>3
    <3>5. QED
      BY <3>4
  <2>3. QED
    BY <2>1, <2>2
<1>3. n \in Nat
    BY <1>2
<1>4. PICK l : l = [s.l EXCEPT !.samples = n]
    OBVIOUS
<1>5. /\ l \in LinkRecs /\ Kept(l, s.l) /\ l.exch = s.l.exch
      /\ l.last = s.l.last /\ l.same = s.l.same
    BY <1>3, <1>1, <1>4 DEF LinkRecs, Kept
<1>6. b \in Clocks /\ KeptClock(b, s.c) /\ b.adopt = s.c.adopt
    BY <1>1, <1>2 DEF NudgeTempo, Clocks, KeptClock
<1>7. QED
    BY <1>2, <1>4, <1>5, <1>6 DEF States

\* The results of settle(): nothing yet, or the answer read.
LEMMA SettleIs ==
    ASSUME NEW s \in States, NEW k \in AirSlots, NEW how, NEW u \in Settle(s, k, how)
    PROVE  /\ u \in States /\ Kept(u.l, s.l) /\ KeptClock(u.c, s.c)
           /\ \/ u = s
              \/ /\ s.l.exch[k].air # None /\ s.l.exch[k].rx # None
                 /\ u.l.exch = [s.l.exch EXCEPT ![k] = UsedUp(s.l.exch[k])]
                 /\ \/ /\ u.l.last = s.l.last /\ u.l.same = s.l.same
                       /\ u.c.adopt = s.c.adopt
                    \/ \E r \in Int :
                          /\ Running(s.c) /\ Heard(u, s, r)
                          /\ s.l.exch[k].air = s.l.exch[k].tag =>
                                 r = s.l.exch[k].rx.origin - s.c.origin
<1> DEFINE e == s.l.exch[k]
<1>1. /\ s.l \in LinkRecs /\ s.c \in Clocks /\ e \in Slot /\ s.c.origin \in Int
      /\ e.rx # None => e.rx.origin \in Int
    BY SlotFields DEF States, Clocks, Slot, Answers
<1>2. CASE e.lost \/ e.air = None \/ e.rx = None
  <2>1. u = s
    BY <1>2 DEF Settle
  <2>2. QED
    BY <2>1 DEF Kept, KeptClock
<1>3. CASE ~(e.lost \/ e.air = None \/ e.rx = None)
  <2>1. PICK v :
            /\ v = [s EXCEPT !.l = [s.l EXCEPT !.exch = [s.l.exch EXCEPT ![k] = UsedUp(s.l.exch[k])]]]
            /\ v \in States /\ v.c = s.c /\ Kept(v.l, s.l)
            /\ v.l.exch = [s.l.exch EXCEPT ![k] = UsedUp(s.l.exch[k])]
            /\ v.l.last = s.l.last /\ v.l.same = s.l.same
    BY UsedIs
  <2>2. /\ v \in States /\ v.c = s.c /\ Kept(v.l, s.l)
        /\ v.l.exch = [s.l.exch EXCEPT ![k] = UsedUp(s.l.exch[k])]
        /\ v.l.last = s.l.last /\ v.l.same = s.l.same
    BY <2>1, Zenon
  <2>3. CASE how = "bad" \/ ~Anchored(s.c)
    <3>1. u = v
      BY <1>3, <2>1, <2>3 DEF Settle
    <3>2. QED
      BY <1>3, <2>2, <3>1 DEF KeptClock
  <2>4. CASE ~(how = "bad" \/ ~Anchored(s.c))
    <3>1. Running(s.c)
      BY <2>4 DEF Anchored, Running
    <3>2. PICK x : u \in Sampled(x, e) /\ (x = v \/ \E r \in Readings(s.c, e, how) : x = Reading(v, r))
      BY <1>3, <2>1, <2>4 DEF Settle
    <3>3. CASE x = v
      BY <1>1, <1>3, <2>2, <3>2, <3>3, SampledIs DEF Kept, KeptClock
    <3>4. ASSUME NEW r \in Readings(s.c, e, how), x = Reading(v, r)
          PROVE  /\ u \in States /\ Kept(u.l, s.l) /\ KeptClock(u.c, s.c)
                 /\ u.l.exch = [s.l.exch EXCEPT ![k] = UsedUp(s.l.exch[k])]
                 /\ r \in Int /\ Heard(u, s, r) /\ (e.air = e.tag => r = e.rx.origin - s.c.origin)
      <4>1. r \in Int /\ (e.air = e.tag => r = e.rx.origin - s.c.origin)
        BY <1>1, <1>3, Ints DEF Readings, Misread
      <4>2. /\ x \in States /\ Kept(x.l, v.l) /\ KeptClock(x.c, v.c)
            /\ x.l.exch = v.l.exch /\ Heard(x, v, r)
        BY <2>2, <3>4, <4>1, ReadingIs
      <4>3. /\ u \in States /\ Kept(u.l, x.l) /\ KeptClock(u.c, x.c)
            /\ u.l.exch = x.l.exch /\ u.l.last = x.l.last /\ u.l.same = x.l.same
            /\ u.c.adopt = x.c.adopt
        BY <1>1, <1>3, <3>2, <4>2, SampledIs
      <4>4. Kept(u.l, s.l) /\ KeptClock(u.c, s.c)
        BY <2>2, <4>2, <4>3 DEF Kept, KeptClock
      <4>5. Heard(u, s, r)
        BY <2>2, <4>2, <4>3 DEF Heard, Agreed
      <4>6. QED
        BY <2>2, <4>1, <4>2, <4>3, <4>4, <4>5
    <3>5. QED
      BY <1>3, <3>1, <3>2, <3>3, <3>4
  <2>5. QED
    BY <2>3, <2>4
<1>4. QED
    BY <1>2, <1>3

\* What a step of deck d leaves it with.
Moves(d, c, l) ==
    /\ clock' = [clock EXCEPT ![d] = c] /\ link' = [link EXCEPT ![d] = l]
    /\ c \in Clocks /\ l \in LinkRecs
\* A link on which nothing was read.
Unheard(m, l) ==
    /\ m.exch = l.exch /\ m.pend = l.pend /\ m.owed = l.owed /\ m.matched = l.matched
    /\ m.last = l.last /\ m.same = l.same

LEMMA MovesAre ==
    ASSUME EnsTyped, NEW d \in Decks, NEW c, NEW l, Moves(d, c, l)
    PROVE  /\ clock' \in [Decks -> Clocks] /\ link' \in [Decks -> LinkRecs]
           /\ clock'[d] = c /\ link'[d] = l
           /\ \A x \in Decks \ {d} : clock'[x] = clock[x] /\ link'[x] = link[x]
    BY DEF EnsTyped, Moves

LEMMA DecksTyped ==
    ASSUME EnsTyped, NEW d \in Decks
    PROVE  clock[d] \in Clocks /\ link[d] \in LinkRecs /\ link = [link EXCEPT ![d] = link[d]]
           /\ clock = [clock EXCEPT ![d] = clock[d]] /\ State(d) \in States
           /\ State(d).c = clock[d] /\ State(d).l = link[d]
           /\ role \in [Decks -> {"off", "lead", "follow"}]
    BY DEF EnsTyped, State, States

LEMMA DeckTickIs ==
    ASSUME EnsTyped, NEW d \in Decks, DeckTick(d)
    PROVE  /\ UNCHANGED <<role, net, steady>> /\ clock[d].taken = None
           /\ \E c : /\ Moves(d, c, link[d]) /\ c.play = "playing"
                     /\ c.origin = clock[d].origin /\ c.adopt = None
                     /\ c.taken = clock[d].adopt /\ c.played = clock[d].played
                     /\ clock[d].play = "armed" \/ clock[d].adopt # None
                     /\ clock[d].adopt # None => Running(clock[d])
<1>1. PICK c : c = [clock[d] EXCEPT !.play = "playing", !.taken = clock[d].adopt, !.adopt = None,
                        !.await = (clock[d].await /\ clock[d].adopt = None)]
    OBVIOUS
<1>2. clock' = [clock EXCEPT ![d] = c] /\ UNCHANGED <<role, link, net, steady>>
      /\ (clock[d].play = "armed" \/ (Running(clock[d]) /\ clock[d].adopt # None))
      /\ clock[d].taken = None
    BY <1>1 DEF DeckTick
<1>3. c \in Clocks /\ c.play = "playing" /\ c.origin = clock[d].origin /\ c.adopt = None
      /\ c.taken = clock[d].adopt /\ c.played = clock[d].played
  <2>1. PICK p, w : p = "playing" /\ w = (clock[d].await /\ clock[d].adopt = None)
    OBVIOUS
  <2>2. w \in BOOLEAN /\ clock[d] \in Clocks
    BY <2>1, DecksTyped
  <2>3. c = [clock[d] EXCEPT !.play = p, !.taken = clock[d].adopt, !.adopt = None, !.await = w]
    BY <1>1, <2>1, Zenon
  <2>4. QED
    BY <2>1, <2>2, <2>3 DEF Clocks
<1>4. Moves(d, c, link[d])
    BY <1>2, <1>3, DecksTyped DEF Moves
<1>5. QED
    BY <1>2, <1>3, <1>4 DEF Running

LEMMA RenumberBarsIs ==
    ASSUME EnsTyped, NEW d \in Decks, RenumberBars(d)
    PROVE  /\ UNCHANGED <<role, net, steady>> /\ clock[d].taken # None
           /\ \E c : /\ Moves(d, c, link[d]) /\ c.play = clock[d].play
                     /\ c.adopt = clock[d].adopt /\ c.taken = None
                     /\ c.played = clock[d].played
<1>1. PICK c : c = [clock[d] EXCEPT !.origin = clock[d].origin + clock[d].taken, !.taken = None]
    OBVIOUS
<1>2. clock' = [clock EXCEPT ![d] = c] /\ UNCHANGED <<role, link, net, steady>>
      /\ clock[d].taken # None
    BY <1>1 DEF RenumberBars
<1>3. clock[d].origin + clock[d].taken \in Int
    BY <1>2, DecksTyped DEF Clocks
<1>4. c \in Clocks /\ c.play = clock[d].play /\ c.adopt = clock[d].adopt /\ c.taken = None
      /\ c.played = clock[d].played
  <2>1. PICK o, k : o = clock[d].origin + clock[d].taken /\ k = clock[d]
    OBVIOUS
  <2>2. o \in Int /\ k \in Clocks /\ c = [k EXCEPT !.origin = o, !.taken = None]
    BY <1>1, <1>3, <2>1, DecksTyped
  <2>3. c \in Clocks /\ c.play = k.play /\ c.adopt = k.adopt /\ c.taken = None /\ c.played = k.played
    BY <2>2 DEF Clocks
  <2>4. QED
    BY <2>1, <2>3
<1>5. QED
    BY <1>2, <1>4, DecksTyped DEF Moves

LEMMA WaitedLongIs ==
    ASSUME EnsTyped, NEW d \in Decks, WaitedLong(d)
    PROVE  /\ UNCHANGED <<role, net, steady>>
           /\ \E c : /\ Moves(d, c, link[d]) /\ KeptClock(c, clock[d])
                     /\ c.adopt = clock[d].adopt
<1>1. PICK c : c = [clock[d] EXCEPT !.await = FALSE]
    OBVIOUS
<1>2. clock' = [clock EXCEPT ![d] = c] /\ UNCHANGED <<role, link, net, steady>>
    BY <1>1 DEF WaitedLong
<1>3. c \in Clocks /\ KeptClock(c, clock[d]) /\ c.adopt = clock[d].adopt
    BY <1>1, DecksTyped DEF Clocks, KeptClock
<1>4. QED
    BY <1>2, <1>3, DecksTyped DEF Moves

\* What a packet says of the leader, whatever else is done with it.
LEMMA HeardFromIs ==
    ASSUME EnsTyped, NEW d \in Decks, NEW p \in net, p.kind # "probe", NEW s, s = HeardFrom(d, p)
    PROVE  /\ s \in States /\ KeptClock(s.c, clock[d]) /\ s.c.adopt \in {clock[d].adopt, None}
           /\ Unheard(s.l, link[d]) /\ s.l.leader = link[d].leader
<1>1. /\ clock[d] \in Clocks /\ link[d] \in LinkRecs /\ p.bpm \in Nat
      /\ State(d) = [c |-> clock[d], l |-> link[d]]
    BY DecksTyped DEF State, EnsTyped, Packet
<1>2. CASE role[d] = "follow"
  <2>1. PICK c : c = FollowLeader(clock[d], p.running)
    OBVIOUS
  <2>2. c \in Clocks /\ KeptClock(c, clock[d]) /\ c.adopt \in {clock[d].adopt, None}
    BY <1>1, <2>1 DEF FollowLeader, Clocks, KeptClock
  <2>3. PICK n \in {0, link[d].samples} : n = IF link[d].seen \notin {None, p.bpm} THEN 0 ELSE link[d].samples
    OBVIOUS
  <2>4. PICK l : l = [link[d] EXCEPT !.seen = p.bpm, !.samples = n]
    OBVIOUS
  <2>5. l \in LinkRecs /\ Unheard(l, link[d]) /\ l.leader = link[d].leader
    BY <1>1, <2>3, <2>4 DEF LinkRecs, Unheard
  <2>6. [State(d) EXCEPT !.c = FollowLeader(State(d).c, p.running)] = [c |-> c, l |-> link[d]]
    BY <1>1, <2>1
  <2>7. s = Seen([c |-> c, l |-> link[d]], p)
    BY <1>2, <2>6 DEF HeardFrom
  <2>8. s = [c |-> c, l |-> link[d]] \/ s = [c |-> c, l |-> l]
    BY <2>3, <2>4, <2>7 DEF Seen
  <2>9. QED
    BY <1>1, <2>2, <2>5, <2>8 DEF States, Unheard
<1>3. CASE role[d] # "follow"
  <2>1. s = State(d)
    BY <1>3 DEF HeardFrom
  <2>2. QED
    BY <1>1, <2>1 DEF States, Unheard, KeptClock
<1>4. QED
    BY <1>2, <1>3

LEMMA RecvBeaconIs ==
    ASSUME EnsTyped, NEW d \in Decks, NEW p \in net, RecvBeacon(d, p)
    PROVE  /\ UNCHANGED <<role, steady>> /\ net' \subseteq net /\ p.kind = "beacon"
           /\ \E c, l : /\ Moves(d, c, l) /\ KeptClock(c, clock[d])
                        /\ c.adopt \in {clock[d].adopt, None}
                        /\ Unheard(l, link[d])
                        /\ l.leader \in {link[d].leader, p.from}
<1>1. p.kind = "beacon" /\ UNCHANGED <<role, steady>> /\ net' \subseteq net /\ p.from \in Decks
      /\ p.bpm \in Nat
    BY DEF RecvBeacon, EnsTyped, Packet
<1>2. PICK s : s = HeardFrom(d, p)
    OBVIOUS
<1>3. /\ s \in States /\ KeptClock(s.c, clock[d]) /\ s.c.adopt \in {clock[d].adopt, None}
      /\ Unheard(s.l, link[d]) /\ s.l.leader = link[d].leader
      /\ s.c \in Clocks /\ s.l \in LinkRecs
    BY <1>1, <1>2, HeardFromIs DEF States
<1>4. CASE role[d] = "follow"
  <2>1. PICK c : c = IF p.running THEN NudgeTempo(s.c, p.bpm) ELSE s.c
    OBVIOUS
  <2>2. PICK l : l = [s.l EXCEPT !.leader = p.from]
    OBVIOUS
  <2>3. clock' = [clock EXCEPT ![d] = c] /\ link' = [link EXCEPT ![d] = l]
    <3>2. Become(d, [c |-> c, l |-> l])
      BY <1>2, <1>4, <2>1, <2>2 DEF RecvBeacon
    <3>3. QED
      BY <3>2 DEF Become
  <2>4. c \in Clocks /\ KeptClock(c, s.c) /\ c.adopt = s.c.adopt
    BY <1>1, <1>3, <2>1 DEF NudgeTempo, Clocks, KeptClock
  <2>5. l \in LinkRecs /\ l.leader = p.from /\ Unheard(l, link[d])
    BY <1>1, <1>3, <2>2 DEF LinkRecs, Unheard
  <2>6. QED
    BY <1>1, <1>3, <2>3, <2>4, <2>5 DEF Moves, KeptClock
<1>5. CASE role[d] # "follow"
  <2>1. clock' = [clock EXCEPT ![d] = s.c] /\ link' = [link EXCEPT ![d] = s.l]
    BY <1>2, <1>5 DEF RecvBeacon, Become
  <2>2. QED
    BY <1>1, <1>3, <2>1 DEF Moves
<1>6. QED
    BY <1>4, <1>5

LEMMA SlotsOf == ASSUME NEW t \in Nat PROVE SlotOf(t) \in AirSlots
<1>1. Ring \in Nat \ {0}
    BY Ints
<1>2. t % Ring \in 0 .. Ring - 1
    BY <1>1
<1>3. QED
    BY <1>2 DEF SlotOf, AirSlots

\* One slot of a link written over.
LEMMA SlotSet ==
    ASSUME NEW s \in States, NEW k \in AirSlots, NEW e \in Slot
    PROVE  \E u : /\ u = [s EXCEPT !.l = [s.l EXCEPT !.exch = [s.l.exch EXCEPT ![k] = e]]]
                  /\ u \in States /\ u.c = s.c /\ Kept(u.l, s.l)
                  /\ u.l.exch = [s.l.exch EXCEPT ![k] = e]
                  /\ u.l.last = s.l.last /\ u.l.same = s.l.same
<1>1. s.l \in LinkRecs /\ s.c \in Clocks /\ s.l.exch \in [AirSlots -> Slot]
    BY DEF States, LinkRecs
<1>2. PICK x : x = [s.l.exch EXCEPT ![k] = e]
    OBVIOUS
<1>3. x \in [AirSlots -> Slot]
    BY <1>1, <1>2
<1>4. PICK m : m = [s.l EXCEPT !.exch = x]
    OBVIOUS
<1>5. m \in LinkRecs /\ m.exch = x /\ Kept(m, s.l) /\ m.last = s.l.last /\ m.same = s.l.same
    BY <1>1, <1>3, <1>4 DEF LinkRecs, Kept
<1>6. PICK u : u = [s EXCEPT !.l = m]
    OBVIOUS
<1>7. u \in States /\ u.c = s.c /\ u.l = m
    BY <1>5, <1>6 DEF States
<1>8. u = [s EXCEPT !.l = [s.l EXCEPT !.exch = [s.l.exch EXCEPT ![k] = e]]]
    BY <1>2, <1>4, <1>6
<1>9. QED
    BY <1>2, <1>5, <1>7, <1>8

LEMMA RecvProbeIs ==
    ASSUME EnsTyped, NEW d \in Decks, NEW p \in net, RecvProbe(d, p)
    PROVE  /\ UNCHANGED <<role, steady>> /\ net' \subseteq net
           /\ \E l : /\ Moves(d, clock[d], l) /\ Unheard(l, link[d])
                     /\ l.leader = link[d].leader
<1>1. /\ UNCHANGED <<role, clock, steady>> /\ net' \subseteq net /\ p.from \in Decks /\ p.tag \in Nat
      /\ link' = link \/ link' = [link EXCEPT ![d].probed = [mac |-> p.from, tag |-> p.tag]]
    BY DEF RecvProbe, EnsTyped, Packet
<1>2. clock[d] \in Clocks /\ link[d] \in LinkRecs /\ link = [link EXCEPT ![d] = link[d]]
      /\ clock = [clock EXCEPT ![d] = clock[d]]
    BY DecksTyped
<1>3. PICK l : l = [link[d] EXCEPT !.probed = [mac |-> p.from, tag |-> p.tag]]
    OBVIOUS
<1>4. l \in LinkRecs /\ Unheard(l, link[d]) /\ l.leader = link[d].leader
    BY <1>1, <1>2, <1>3 DEF LinkRecs, Unheard
<1>5. link' = link \/ link' = [link EXCEPT ![d] = l]
    BY <1>1, <1>3
<1>6. Unheard(link[d], link[d])
    BY DEF Unheard
<1>7. QED
    BY <1>1, <1>2, <1>4, <1>5, <1>6 DEF Moves

\* An answer that is not put by; and one that is, in s, and read in t if its
\* departure is known.
NotPut(d) ==
    \E c, l : /\ Moves(d, c, l) /\ KeptClock(c, clock[d])
              /\ c.adopt \in {clock[d].adopt, None}
              /\ Unheard(l, link[d]) /\ l.leader = link[d].leader
PutIn(d, p, k, s, t) ==
    /\ KeptClock(s.c, clock[d]) /\ s.c.adopt \in {clock[d].adopt, None}
    /\ Unheard(s.l, link[d]) /\ s.l.leader = link[d].leader
    /\ s.l.exch[k].rx = None
    /\ t.c = s.c /\ Kept(t.l, s.l)
    /\ t.l.exch = [s.l.exch EXCEPT ![k] =
                       [s.l.exch[k] EXCEPT !.rx = [origin |-> p.origin, bpm |-> p.bpm]]]
    /\ t.l.last = s.l.last /\ t.l.same = s.l.same
PutBy(d, p, how) ==
    /\ role[d] = "follow"
    /\ \E s, t \in States, k \in AirSlots :
          PutIn(d, p, k, s, t) /\ \E u \in Settle(t, k, how) : Moves(d, u.c, u.l)

LEMMA RecvReplyIs ==
    ASSUME EnsTyped, NEW d \in Decks, NEW p \in net, NEW how, RecvReply(d, p, how)
    PROVE  /\ UNCHANGED <<role, steady>> /\ net' \subseteq net
           /\ p.kind = "reply" /\ p.origin \in Int /\ p.bpm \in Nat
           /\ NotPut(d) \/ PutBy(d, p, how)
<1>1. p.kind = "reply" /\ UNCHANGED <<role, steady>> /\ net' \subseteq net /\ p.tag \in Nat
      /\ p.origin \in Int /\ p.bpm \in Nat
    BY DEF RecvReply, EnsTyped, Packet
<1>2. PICK s : s = HeardFrom(d, p)
    OBVIOUS
<1>3. /\ s \in States /\ KeptClock(s.c, clock[d]) /\ s.c.adopt \in {clock[d].adopt, None}
      /\ Unheard(s.l, link[d]) /\ s.l.leader = link[d].leader
      /\ s.c \in Clocks /\ s.l \in LinkRecs
    BY <1>1, <1>2, HeardFromIs DEF States
<1>4. CASE role[d] = "follow" /\ p.running /\ p.whom = d /\ Owed(s.l, p.tag)
  <2>1. PICK k \in AirSlots : k = SlotOf(p.tag)
    BY <1>1, SlotsOf
  <2>2. PICK e : e = [s.l.exch[k] EXCEPT !.rx = [origin |-> p.origin, bpm |-> p.bpm]]
    OBVIOUS
  <2>3. e \in Slot
    BY <1>1, <1>3, <2>2, SlotFields DEF Slot, Answers
  <2>4. PICK t : /\ t = [s EXCEPT !.l = [s.l EXCEPT !.exch = [s.l.exch EXCEPT ![k] = e]]]
                 /\ t \in States /\ t.c = s.c /\ Kept(t.l, s.l)
                 /\ t.l.exch = [s.l.exch EXCEPT ![k] = e]
                 /\ t.l.last = s.l.last /\ t.l.same = s.l.same
    BY <1>3, <2>3, SlotSet
  <2>5. s.l.exch[k].rx = None
    BY <1>4, <2>1 DEF Owed
  <2>6. t = [s EXCEPT !.l.exch[k].rx = [origin |-> p.origin, bpm |-> p.bpm]]
    BY <2>2, <2>4
  <2>7. PICK u \in Settle(t, k, how) : Become(d, u)
    BY <1>2, <1>4, <2>1, <2>6 DEF RecvReply
  <2>8. u \in States
    BY <2>4, <2>7, SettleIs
  <2>9. Moves(d, u.c, u.l)
    BY <2>7, <2>8 DEF Moves, Become, States
  <2>10. t.l.exch = [s.l.exch EXCEPT ![k] =
                        [s.l.exch[k] EXCEPT !.rx = [origin |-> p.origin, bpm |-> p.bpm]]]
    BY <2>2, <2>4
  <2>11. \E v \in Settle(t, k, how) : Moves(d, v.c, v.l)
    BY <2>7, <2>9, Zenon
  <2>12. PutIn(d, p, k, s, t)
    BY <1>3, <2>4, <2>5, <2>10 DEF PutIn
  <2>13. PutIn(d, p, k, s, t) /\ \E v \in Settle(t, k, how) : Moves(d, v.c, v.l)
    BY <2>11, <2>12
  <2>14. \E x, y \in States, j \in AirSlots :
            PutIn(d, p, j, x, y) /\ \E v \in Settle(y, j, how) : Moves(d, v.c, v.l)
    BY <1>3, <2>1, <2>4, <2>13, Zenon
  <2>15. PutBy(d, p, how)
    BY <1>4, <2>14 DEF PutBy
  <2>16. QED
    BY <1>1, <2>15
<1>5. CASE ~(role[d] = "follow" /\ p.running /\ p.whom = d /\ Owed(s.l, p.tag))
  <2>1. Become(d, s)
    BY <1>2, <1>5 DEF RecvReply
  <2>2. Moves(d, s.c, s.l)
    BY <1>3, <2>1 DEF Moves, Become
  <2>3. NotPut(d)
    BY <1>3, <2>2 DEF NotPut
  <2>4. QED
    BY <1>1, <2>3
<1>6. QED
    BY <1>4, <1>5

\* A link after a callback: a send's, or nobody's.
Called(m, l) ==
    /\ m.owed = Tail(l.owed) /\ m.matched = l.matched /\ m.last = l.last
    /\ m.same = l.same /\ m.leader = l.leader

\* What a reply that is read says.
LEMMA ReplySays ==
    ASSUME EnsTyped, NEW d \in Decks, NEW p \in net, NEW how, RecvReply(d, p, how)
    PROVE  p.kind = "reply" /\ p.origin \in Int /\ p.bpm \in Nat
    BY RecvReplyIs

LEMMA SentIs ==
    ASSUME EnsTyped, NEW d \in Decks, NEW how, Sent(d, how)
    PROVE  /\ UNCHANGED <<role, net, steady>> /\ link[d].owed # <<>>
           /\ \/ /\ role[d] # "follow" \/ link[d].pend = <<>>
                 /\ \E l : /\ Moves(d, clock[d], l) /\ Called(l, link[d])
                           /\ l.exch = link[d].exch /\ l.pend = link[d].pend
              \/ /\ role[d] = "follow" /\ link[d].pend # <<>>
                 /\ \E l : /\ Moves(d, clock[d], l) /\ Called(l, link[d])
                           /\ \/ l.exch = link[d].exch
                              \/ \E k \in AirSlots : l.exch =
                                     [link[d].exch EXCEPT ![k] = [link[d].exch[k] EXCEPT !.lost = TRUE]]
                           /\ l.pend = Tail(link[d].pend)
              \/ /\ role[d] = "follow" /\ link[d].pend # <<>>
                 /\ \E t \in States, k \in AirSlots :
                       /\ t.c = clock[d] /\ Called(t.l, link[d])
                       /\ t.l.pend = Tail(link[d].pend)
                       /\ t.l.exch = [link[d].exch EXCEPT ![k] =
                                          [link[d].exch[k] EXCEPT !.air = Head(link[d].owed).tag]]
                       /\ link[d].exch[k].tag = Head(link[d].pend)
                       /\ link[d].exch[k].air = None
                       /\ \E u \in Settle(t, k, how) : Moves(d, u.c, u.l)
<1>1. /\ clock[d] \in Clocks /\ link[d] \in LinkRecs /\ clock = [clock EXCEPT ![d] = clock[d]]
      /\ link[d].owed # <<>> /\ UNCHANGED <<role, net, steady>>
      /\ link[d].owed \in Seq(Callback) /\ link[d].pend \in Seq(Nat \ {0})
    BY DecksTyped DEF Sent, LinkRecs
<1>2. Tail(link[d].owed) \in Seq(Callback) /\ Head(link[d].owed) \in Callback
      /\ Head(link[d].owed).tag \in Nat
  <2>1. Tail(link[d].owed) \in Seq(Callback) /\ Head(link[d].owed) \in Callback
    BY <1>1
  <2>2. QED
    BY <2>1 DEF Callback
<1>3. PICK heard : heard = [link[d] EXCEPT !.owed = Tail(link[d].owed)]
    OBVIOUS
<1>4. /\ heard \in LinkRecs /\ Called(heard, link[d]) /\ heard.exch = link[d].exch
      /\ heard.pend = link[d].pend
    BY <1>1, <1>2, <1>3 DEF LinkRecs, Called
<1>5. CASE role[d] # "follow" \/ link[d].pend = <<>>
  <2>1. link' = [link EXCEPT ![d] = heard] /\ clock' = clock
    BY <1>3, <1>5 DEF Sent
  <2>2. Moves(d, clock[d], heard)
    BY <1>1, <1>4, <2>1 DEF Moves
  <2>3. QED
    BY <1>1, <1>4, <1>5, <2>2
<1>6. CASE ~(role[d] # "follow" \/ link[d].pend = <<>>)
  <2>1. Tail(link[d].pend) \in Seq(Nat \ {0}) /\ Head(link[d].pend) \in Nat
    BY <1>1, <1>6
  <2>2. PICK popped : popped = [heard EXCEPT !.pend = Tail(heard.pend)]
    OBVIOUS
  <2>3. /\ popped \in LinkRecs /\ Called(popped, link[d]) /\ popped.exch = link[d].exch
        /\ popped.pend = Tail(link[d].pend)
    BY <1>4, <2>1, <2>2 DEF LinkRecs, Called
  <2>4. PICK k \in AirSlots : k = SlotOf(Departed(link[d]))
    BY <2>1, SlotsOf DEF Departed
  <2>5. PICK a : a = Head(link[d].owed).tag
    OBVIOUS
  <2>6. link[d].exch \in [AirSlots -> Slot] /\ link[d].exch[k] \in Slot
    BY <1>1, SlotFields
  <2>7. CASE link' = [link EXCEPT ![d] = popped] /\ clock' = clock
    <3>1. Moves(d, clock[d], popped)
      BY <1>1, <2>3, <2>7 DEF Moves
    <3>2. QED
      BY <1>1, <1>6, <2>3, <3>1
  <2>8. CASE link' = [link EXCEPT ![d] = [popped EXCEPT !.exch[k].lost = TRUE]] /\ clock' = clock
    <3>1. PICK x : x = [link[d].exch EXCEPT ![k] = [link[d].exch[k] EXCEPT !.lost = TRUE]]
      OBVIOUS
    <3>2. [link[d].exch[k] EXCEPT !.lost = TRUE] \in Slot
      BY <2>6 DEF Slot
    <3>3. x \in [AirSlots -> Slot]
      BY <2>6, <3>1, <3>2
    <3>4. PICK l : l = [popped EXCEPT !.exch = x]
      OBVIOUS
    <3>5. l \in LinkRecs /\ Called(l, link[d]) /\ l.pend = Tail(link[d].pend) /\ l.exch = x
      BY <2>3, <3>3, <3>4 DEF LinkRecs, Called
    <3>6. l = [popped EXCEPT !.exch[k].lost = TRUE]
      BY <2>3, <3>1, <3>4
    <3>7. Moves(d, clock[d], l)
      BY <1>1, <2>8, <3>5, <3>6 DEF Moves
    <3>8. QED
      BY <1>1, <1>6, <3>1, <3>5, <3>7
  <2>9. CASE /\ link[d].exch[k].tag = Departed(link[d]) /\ link[d].exch[k].air = None
             /\ \E u \in Settle([c |-> clock[d], l |-> [popped EXCEPT !.exch[k].air = a]], k, how) :
                    Become(d, u)
    <3>1. PICK x : x = [link[d].exch EXCEPT ![k] = [link[d].exch[k] EXCEPT !.air = a]]
      OBVIOUS
    <3>2. [link[d].exch[k] EXCEPT !.air = a] \in Slot
      BY <1>2, <2>5, <2>6 DEF Slot
    <3>3. x \in [AirSlots -> Slot]
      BY <2>6, <3>1, <3>2
    <3>4. PICK l : l = [popped EXCEPT !.exch = x]
      OBVIOUS
    <3>5. l \in LinkRecs /\ Called(l, link[d]) /\ l.pend = Tail(link[d].pend) /\ l.exch = x
      BY <2>3, <3>3, <3>4 DEF LinkRecs, Called
    <3>6. l = [popped EXCEPT !.exch[k].air = a]
      BY <2>3, <3>1, <3>4
    <3>7. PICK t : t = [c |-> clock[d], l |-> l]
      OBVIOUS
    <3>8. t \in States /\ t.c = clock[d] /\ t.l = l
      BY <1>1, <3>5, <3>7 DEF States
    <3>9. PICK u \in Settle(t, k, how) : Become(d, u)
      BY <2>9, <3>6, <3>7
    <3>10. u \in States
      BY <3>8, <3>9, SettleIs
    <3>11. Moves(d, u.c, u.l)
      BY <3>9, <3>10 DEF Moves, Become, States
    <3>12. t.l.exch = [link[d].exch EXCEPT ![k] =
                           [link[d].exch[k] EXCEPT !.air = Head(link[d].owed).tag]]
      BY <2>5, <3>1, <3>5, <3>8
    <3>13. Called(t.l, link[d]) /\ t.l.pend = Tail(link[d].pend)
      BY <3>5, <3>8
    <3>14. \E v \in Settle(t, k, how) : Moves(d, v.c, v.l)
      BY <3>9, <3>11, Zenon
    <3>15. link[d].exch[k].tag = Head(link[d].pend) /\ link[d].exch[k].air = None
      BY <2>9 DEF Departed
    <3>16. QED
      BY <1>1, <1>6, <3>8, <3>12, <3>13, <3>14, <3>15, Zenon
  <2>10. QED
    <3>1. \/ link' = [link EXCEPT ![d] = popped] /\ clock' = clock
          \/ link' = [link EXCEPT ![d] = [popped EXCEPT !.exch[k].lost = TRUE]] /\ clock' = clock
          \/ /\ link[d].exch[k].tag = Departed(link[d]) /\ link[d].exch[k].air = None
             /\ \E u \in Settle([c |-> clock[d], l |-> [popped EXCEPT !.exch[k].air = a]], k, how) :
                    Become(d, u)
      BY <1>3, <1>6, <2>2, <2>4, <2>5 DEF Sent
    <3>2. QED
      BY <2>7, <2>8, <2>9, <3>1
<1>7. QED
    BY <1>5, <1>6

\* What is put in the air is the sender's own.
Sends(d, ps) ==
    \A p \in ps : p \in net \/ (Packet(p) /\ p.from = d
                                /\ (p.kind # "probe" => role[d] = "lead" /\ p.origin = clock[d].origin))

LEMMA StampIs ==
    ASSUME EnsTyped, NEW d \in Decks, NEW kind \in {"beacon", "reply"}, NEW to \in Decks,
           NEW tag \in Nat, NEW whom, NEW p, p = Stamp(d, kind, to, tag, whom), role[d] = "lead"
    PROVE  Packet(p) /\ p.from = d /\ p.kind # "probe" /\ p.origin = clock[d].origin
<1>1. clock[d].origin \in Int /\ clock[d].bpm \in Nat
    BY DecksTyped DEF Clocks
<1>2. p = [kind |-> kind, from |-> d, to |-> to, tag |-> tag, whom |-> whom,
           origin |-> clock[d].origin, bpm |-> clock[d].bpm, running |-> Anchored(clock[d])]
    BY DEF Stamp
<1>3. Anchored(clock[d]) \in BOOLEAN
    BY DEF Anchored
<1>4. QED
    BY <1>1, <1>2, <1>3 DEF Packet

LEMMA BeaconIs ==
    ASSUME EnsTyped, NEW d \in Decks, NEW f, Beacon(d, f)
    PROVE  UNCHANGED <<role, clock, link, steady>> /\ Sends(d, net')
<1>1. /\ role[d] = "lead" /\ UNCHANGED <<role, clock, link, steady>>
      /\ Launch({Stamp(d, "beacon", e, 0, None) : e \in Decks \ {d}}, f)
    BY DEF Beacon
<1>2. \A p \in net' : p \in net \/ \E e \in Decks : p = Stamp(d, "beacon", e, 0, None)
    BY <1>1 DEF Launch
<1>3. QED
    BY <1>1, <1>2, StampIs DEF Sends

LEMMA AnswerIs ==
    ASSUME EnsTyped, NEW d \in Decks, NEW f, Answer(d, f)
    PROVE  /\ UNCHANGED <<role, steady>> /\ Sends(d, net')
           /\ \E l : Moves(d, clock[d], l) /\ Unheard(l, link[d]) /\ l.leader = link[d].leader
<1>1. /\ role[d] = "lead" /\ link[d].probed # None /\ UNCHANGED <<role, clock, steady>>
      /\ Launch({Stamp(d, "reply", link[d].probed.mac, link[d].probed.tag, link[d].probed.mac)}, f)
      /\ clock[d] \in Clocks /\ link[d] \in LinkRecs /\ clock = [clock EXCEPT ![d] = clock[d]]
    BY DecksTyped DEF Answer
<1>2. link[d].probed.mac \in Decks /\ link[d].probed.tag \in Nat
    BY <1>1 DEF LinkRecs
<1>3. \A p \in net' : p \in net
          \/ p = Stamp(d, "reply", link[d].probed.mac, link[d].probed.tag, link[d].probed.mac)
    BY <1>1 DEF Launch
<1>4. Sends(d, net')
  <2>1. PICK to \in Decks, tag \in Nat : to = link[d].probed.mac /\ tag = link[d].probed.tag
    BY <1>2
  <2>2. \A p \in net' : p \in net \/ p = Stamp(d, "reply", to, tag, to)
    BY <1>3, <2>1
  <2>3. QED
    BY <1>1, <2>2, StampIs DEF Sends
<1>5. PICK l : l = [link[d] EXCEPT !.probed = None]
    OBVIOUS
<1>6. l \in LinkRecs /\ Unheard(l, link[d]) /\ l.leader = link[d].leader
    BY <1>1, <1>5 DEF LinkRecs, Unheard
<1>7. link' = [link EXCEPT ![d] = l]
    BY <1>5 DEF Answer
<1>8. QED
    BY <1>1, <1>4, <1>6, <1>7 DEF Moves

LEMMA IdleIs ==
    ASSUME NEW t \in Nat, NEW e, e = [IdleSlot EXCEPT !.tag = t]
    PROVE  /\ e \in Slot /\ e.tag = t /\ e.air = None /\ e.rx = None /\ e.uses = 0
    BY DEF IdleSlot, Slot

\* A probe claims a slot and queues its tag.
LEMMA ProbeIs ==
    ASSUME EnsTyped, NEW d \in Decks, NEW f, Probe(d, f)
    PROVE  /\ UNCHANGED <<role, clock, steady>> /\ Sends(d, net') /\ role[d] = "follow"
           /\ link[d].leader # None /\ Ticked(clock[d])
           /\ \E l : \E k \in AirSlots, t \in Nat \ {0} :
                 /\ Moves(d, clock[d], l)
                 /\ l.exch = [link[d].exch EXCEPT ![k] = [IdleSlot EXCEPT !.tag = t]]
                 /\ l.last = link[d].last /\ l.same = link[d].same /\ l.leader = link[d].leader
                 /\ l.matched => /\ link[d].matched /\ l.pend = Append(link[d].pend, t)
                                 /\ \E a : l.owed = Append(link[d].owed, a) /\ a.tag = t
<1> DEFINE tag == (link[d].tag % Tags) + 1
           m == link[d].matched /\ f # "refused" /\ Len(link[d].pend) < Ring
<1>1. /\ clock[d] \in Clocks /\ link[d] \in LinkRecs /\ clock = [clock EXCEPT ![d] = clock[d]]
      /\ link[d].tag \in Nat /\ link[d].pend \in Seq(Nat \ {0}) /\ link[d].owed \in Seq(Callback)
      /\ link[d].exch \in [AirSlots -> Slot] /\ link[d].leader \in Decks \cup {None}
    BY DecksTyped DEF LinkRecs
<1>2. /\ role[d] = "follow" /\ link[d].leader # None /\ Ticked(clock[d])
      /\ UNCHANGED <<role, clock, steady>>
    BY DEF Probe
<1>3. tag \in Nat \ {0}
  <2>1. Tags \in Nat \ {0}
    BY Ints
  <2>2. link[d].tag % Tags \in Nat
    BY <1>1, <2>1
  <2>3. QED
    BY <2>2
<1>4. Sends(d, net')
  <2>1. PICK p : p = [kind |-> "probe", from |-> d, to |-> link[d].leader, tag |-> tag]
    OBVIOUS
  <2>2. \A q \in net' : q \in net \/ q = p
    BY <2>1 DEF Probe
  <2>3. Packet(p) /\ p.from = d /\ p.kind = "probe"
    BY <1>1, <1>2, <1>3, <2>1 DEF Packet
  <2>4. QED
    BY <2>2, <2>3 DEF Sends
<1>5. PICK k \in AirSlots : k = SlotOf(tag)
    BY <1>3, SlotsOf
<1>6. PICK e : e = [IdleSlot EXCEPT !.tag = tag]
    OBVIOUS
<1>7. e \in Slot
    BY <1>3, <1>6, IdleIs
<1>8. PICK x : x = [link[d].exch EXCEPT ![k] = e]
    OBVIOUS
<1>9. x \in [AirSlots -> Slot]
    BY <1>1, <1>7, <1>8
<1>10. Pushed(link[d].pend, tag) \in Seq(Nat \ {0})
  <2>1. Ring \in Nat \ {0}
    BY Ints
  <2>2. CASE Len(link[d].pend) < Ring
    BY <1>1, <1>3, <2>2 DEF Pushed
  <2>3. CASE ~(Len(link[d].pend) < Ring)
    <3>1. [link[d].pend EXCEPT ![Len(link[d].pend) - Ring + 1] = tag] \in Seq(Nat \ {0})
      <4>1. Len(link[d].pend) \in Nat /\ Len(link[d].pend) - Ring + 1 \in 1..Len(link[d].pend)
        <5>1. Len(link[d].pend) \in Nat
          BY <1>1
        <5>2. PICK n \in Nat : n = Len(link[d].pend)
          BY <5>1
        <5>3. ~(n < Ring)
          BY <2>3, <5>2
        <5>4. n - Ring + 1 \in 1..n
          BY <2>1, <5>3
        <5>5. QED
          BY <5>1, <5>2, <5>4
      <4>2. PICK i \in 1..Len(link[d].pend) : i = Len(link[d].pend) - Ring + 1
        BY <4>1
      <4>3. [link[d].pend EXCEPT ![i] = tag] \in Seq(Nat \ {0})
        BY <1>1, <1>3, ExceptSeq
      <4>4. QED
        BY <4>2, <4>3
    <3>2. QED
      BY <1>3, <2>3, <3>1 DEF Pushed
  <2>4. QED
    BY <2>2, <2>3
<1>11. PICK cb : cb = [tag |-> tag, acked |-> f = "fine"]
    OBVIOUS
<1>12. cb \in Callback /\ cb.tag = tag
    BY <1>3, <1>11 DEF Callback
<1>13. link[d].owed \o CallbackOf(f, tag) \in Seq(Callback)
    BY <1>1, <1>11, <1>12 DEF CallbackOf
<1>14. m \in BOOLEAN
    BY Zenon
<1>15. link' = [link EXCEPT ![d] = [link[d] EXCEPT
           !.tag = tag, !.exch[SlotOf(tag)] = [IdleSlot EXCEPT !.tag = tag],
           !.pend = Pushed(link[d].pend, tag), !.owed = link[d].owed \o CallbackOf(f, tag),
           !.matched = m]]
    BY DEF Probe
<1> HIDE DEF tag, m
<1>16. PICK ps, os : ps = Pushed(link[d].pend, tag) /\ os = link[d].owed \o CallbackOf(f, tag)
    OBVIOUS
<1>17. PICK l : l = [link[d] EXCEPT !.tag = tag, !.exch = x, !.pend = ps, !.owed = os, !.matched = m]
    OBVIOUS
<1>18. link' = [link EXCEPT ![d] = l]
    BY <1>5, <1>6, <1>8, <1>15, <1>16, <1>17
<1>19. /\ l \in LinkRecs /\ l.exch = x /\ l.pend = ps /\ l.owed = os /\ l.matched = m
       /\ l.last = link[d].last /\ l.same = link[d].same /\ l.leader = link[d].leader
    BY <1>1, <1>3, <1>9, <1>10, <1>13, <1>14, <1>16, <1>17 DEF LinkRecs
<1>20. m => /\ link[d].matched /\ ps = Append(link[d].pend, tag) /\ os = Append(link[d].owed, cb)
  <2>1. ASSUME m PROVE link[d].matched /\ f # "refused" /\ Len(link[d].pend) < Ring
    BY <2>1, Zenon DEF m
  <2>2. ASSUME f # "refused" PROVE os = Append(link[d].owed, cb)
    BY <1>1, <1>11, <1>12, <1>16, <2>2 DEF CallbackOf
  <2>3. ASSUME Len(link[d].pend) < Ring PROVE ps = Append(link[d].pend, tag)
    BY <1>16, <2>3 DEF Pushed
  <2>4. QED
    BY <2>1, <2>2, <2>3
<1>21. Moves(d, clock[d], l)
    BY <1>1, <1>2, <1>18, <1>19 DEF Moves
<1>22. x = [link[d].exch EXCEPT ![k] = [IdleSlot EXCEPT !.tag = tag]]
    BY <1>6, <1>8
<1>23. l.matched => /\ link[d].matched /\ l.pend = Append(link[d].pend, tag)
                    /\ \E a : l.owed = Append(link[d].owed, a) /\ a.tag = tag
    BY <1>12, <1>19, <1>20
<1>24. PICK t \in Nat \ {0} : t = tag
    BY <1>3
<1>25. /\ Moves(d, clock[d], l)
       /\ l.exch = [link[d].exch EXCEPT ![k] = [IdleSlot EXCEPT !.tag = t]]
       /\ l.last = link[d].last /\ l.same = link[d].same /\ l.leader = link[d].leader
       /\ l.matched => /\ link[d].matched /\ l.pend = Append(link[d].pend, t)
                       /\ \E a : l.owed = Append(link[d].owed, a) /\ a.tag = t
    BY <1>19, <1>21, <1>22, <1>23, <1>24
<1>26. \E l1 : \E k1 \in AirSlots, t1 \in Nat \ {0} :
          /\ Moves(d, clock[d], l1)
          /\ l1.exch = [link[d].exch EXCEPT ![k1] = [IdleSlot EXCEPT !.tag = t1]]
          /\ l1.last = link[d].last /\ l1.same = link[d].same /\ l1.leader = link[d].leader
          /\ l1.matched => /\ link[d].matched /\ l1.pend = Append(link[d].pend, t1)
                           /\ \E a : l1.owed = Append(link[d].owed, a) /\ a.tag = t1
  <2> WITNESS l
  <2> WITNESS k \in AirSlots, t \in Nat \ {0}
  <2> QED
    BY <1>25
<1>27. QED
    BY <1>2, <1>4, <1>26, Zenon

\* Nothing under way, as ensemble_set() leaves it.
Fresh(l) ==
    /\ l.exch = [k \in AirSlots |-> IdleSlot] /\ l.pend = <<>> /\ l.same = 0
    /\ l.matched = (l.owed = <<>>)

LEMMA SaidIs == ASSUME NEW n \in 0 .. MaxSaid PROVE SubSeq(Said, 1, n) \in Seq(Callback)
<1>1. MaxSaid \in Nat \ {0}
    BY EnsembleAssumption
<1>2. [tag |-> 0, acked |-> TRUE] \in Callback
    BY DEF Callback
<1>3. Said \in [1 .. MaxSaid -> Callback]
    BY <1>2 DEF Said
<1>4. Said \in Seq(Callback)
    BY <1>1, <1>3, SeqDef
<1>5. Len(Said) = MaxSaid
    BY <1>1, <1>3, <1>4, LenProperties
<1>6. QED
    <2>1. \A i \in 1 .. n : i \in 1 .. Len(Said)
        BY <1>1, <1>5
    <2>2. n \in Int /\ 1 \in Int
        BY <1>1
    <2>3. QED
        BY <1>4, <2>1, <2>2, SubSeqProperties

LEMMA SetRoleIs ==
    ASSUME EnsTyped, NEW d \in Decks, NEW r \in {"off", "lead", "follow"}, SetRole(d, r)
    PROVE  /\ role' = [role EXCEPT ![d] = r] /\ net' = net /\ steady' \in BOOLEAN
           /\ steady' = TRUE => steady = TRUE /\ role[d] # "lead" /\ r # "lead"
           /\ \E c, l :
                 /\ Moves(d, c, l) /\ KeptClock(c, clock[d]) /\ c.adopt = None
                 /\ l.leader = link[d].leader
                 /\ r \in {"lead", "off"} => l.owed = <<>>
                 /\ r = "off" => l.exch = link[d].exch
                 /\ r # "off" => Fresh(l)
<1>1. /\ role' = [role EXCEPT ![d] = r] /\ net' = net
      /\ steady' = (steady /\ "lead" \notin {role[d], r})
      /\ clock' = [clock EXCEPT ![d] = FollowLeader(clock[d], FALSE)]
      /\ clock[d] \in Clocks /\ link[d] \in LinkRecs
    BY DecksTyped DEF SetRole
<1>2. steady' \in BOOLEAN
    BY <1>1, Zenon
<1>3. steady' = TRUE => steady = TRUE /\ role[d] # "lead" /\ r # "lead"
  <2>1. ASSUME steady' = TRUE PROVE steady /\ "lead" \notin {role[d], r}
    BY <1>1, <2>1, Zenon
  <2>2. steady \in BOOLEAN
    BY DEF EnsTyped
  <2>3. ASSUME steady PROVE steady = TRUE
    BY <2>2, <2>3
  <2>4. QED
    BY <2>1, <2>3
<1>4. PICK c : c = FollowLeader(clock[d], FALSE)
    OBVIOUS
<1>5. c \in Clocks /\ KeptClock(c, clock[d]) /\ c.adopt = None
    BY <1>1, <1>4 DEF FollowLeader, Clocks, KeptClock
<1>6. PICK owed \in OwedTo(d) :
          link' = [link EXCEPT ![d] =
              IF r = "off" THEN [link[d] EXCEPT !.owed = <<>>]
              ELSE ClearedLink([link[d] EXCEPT !.owed = IF r = "lead" THEN <<>> ELSE owed])]
    BY DecksTyped DEF SetRole
<1>7. owed \in Seq(Callback)
  <2>1. CASE role[d] = "lead"
    <3>1. PICK n \in 0 .. MaxSaid : owed = SubSeq(Said, 1, n)
      BY <1>6, <2>1 DEF OwedTo
    <3>2. QED
      BY <3>1, SaidIs
  <2>2. CASE role[d] # "lead"
    <3>1. owed = link[d].owed
      BY <1>6, <2>2 DEF OwedTo
    <3>2. QED
      BY <1>1, <3>1 DEF LinkRecs
  <2>3. QED
    BY <2>1, <2>2
<1>12. <<>> \in Seq(Callback) /\ <<>> \in Seq(Nat \ {0})
    OBVIOUS
<1>8. CASE r = "off"
  <2>1. PICK l : l = [link[d] EXCEPT !.owed = <<>>]
    OBVIOUS
  <2>2. /\ l \in LinkRecs /\ l.leader = link[d].leader /\ l.owed = <<>>
        /\ l.exch = link[d].exch
    BY <1>1, <1>12, <2>1 DEF LinkRecs
  <2>3. Moves(d, c, l)
    BY <1>1, <1>4, <1>5, <1>6, <1>8, <2>1, <2>2 DEF Moves
  <2>4. QED
    BY <1>1, <1>2, <1>3, <1>5, <1>8, <2>2, <2>3
<1>9. CASE r # "off"
  <2>1. PICK os \in Seq(Callback) : os = IF r = "lead" THEN <<>> ELSE owed
    BY <1>7, <1>12
  <2>2. PICK q : q = [link[d] EXCEPT !.owed = os]
    OBVIOUS
  <2>3. q \in LinkRecs /\ q.owed = os /\ q.leader = link[d].leader
    BY <1>1, <2>1, <2>2 DEF LinkRecs
  <2>4. PICK x : x = [k \in AirSlots |-> IdleSlot]
    OBVIOUS
  <2>5. IdleSlot \in Slot
    BY DEF IdleSlot, Slot
  <2>6. x \in [AirSlots -> Slot]
    BY <2>4, <2>5
  <2>7. PICK m \in BOOLEAN : m = (q.owed = <<>>)
    BY Zenon
  <2>8. PICK l : l = [q EXCEPT !.exch = x, !.pend = <<>>, !.same = 0, !.samples = 0,
                               !.seen = None, !.matched = m]
    OBVIOUS
  <2>9. /\ l \in LinkRecs /\ l.exch = x /\ l.pend = <<>> /\ l.same = 0 /\ l.matched = m
        /\ l.owed = os /\ l.leader = link[d].leader
    <3>1. PICK n, z : n = <<>> /\ z = 0
      OBVIOUS
    <3>2. n \in Seq(Nat \ {0}) /\ z \in Nat /\ z \in Int
      BY <1>12, <3>1
    <3>3. PICK v \in Nat \cup {None} : v = None
      OBVIOUS
    <3>4. l = [q EXCEPT !.exch = x, !.pend = n, !.same = z, !.samples = z,
                        !.seen = v, !.matched = m]
      BY <2>8, <3>1, <3>3
    <3>5. /\ l \in LinkRecs /\ l.exch = x /\ l.pend = n /\ l.same = z /\ l.matched = m
          /\ l.owed = os /\ l.leader = link[d].leader
      BY <2>3, <2>6, <2>7, <3>2, <3>4 DEF LinkRecs
    <3>6. QED
      BY <3>1, <3>5
  <2>10. l = ClearedLink(q)
    BY <2>4, <2>7, <2>8 DEF ClearedLink
  <2>11. Fresh(l)
    BY <2>3, <2>4, <2>7, <2>9 DEF Fresh
  <2>12. link' = [link EXCEPT ![d] = l]
    BY <1>6, <1>9, <2>1, <2>2, <2>10
  <2>13. Moves(d, c, l)
    BY <1>1, <1>4, <1>5, <2>9, <2>12 DEF Moves
  <2>14. r = "lead" => l.owed = <<>>
    BY <2>1, <2>9
  <2>15. QED
    BY <1>1, <1>2, <1>3, <1>5, <1>9, <2>9, <2>11, <2>13, <2>14
<1>10. QED
    BY <1>8, <1>9

LEMMA PlayDeckIs ==
    ASSUME EnsTyped, NEW d \in Decks, PlayDeck(d)
    PROVE  /\ UNCHANGED <<role, net>> /\ steady' \in BOOLEAN /\ clock[d].taken = None
           /\ steady' = TRUE => steady = TRUE /\ (role[d] = "follow" \/ clock[d].played # TRUE)
           /\ \E c : /\ Moves(d, c, link[d]) /\ c.adopt = None /\ c.taken = None
                     /\ c.played = TRUE \/ c.played = clock[d].played
<1>1. /\ UNCHANGED <<role, link, net>> /\ clock[d].taken = None
      /\ steady' = (steady /\ (role[d] = "follow" \/ ~clock[d].played))
      /\ clock[d] \in Clocks /\ link[d] \in LinkRecs /\ link = [link EXCEPT ![d] = link[d]]
      /\ clock[d].played \in BOOLEAN
    BY DecksTyped DEF PlayDeck, Clocks
<1>2. steady' \in BOOLEAN
    BY <1>1, Zenon
<1>3. steady' = TRUE => steady = TRUE /\ (role[d] = "follow" \/ clock[d].played # TRUE)
  <2>1. ASSUME steady' = TRUE PROVE steady /\ (role[d] = "follow" \/ ~clock[d].played)
    BY <1>1, <2>1, Zenon
  <2>2. steady \in BOOLEAN
    BY DEF EnsTyped
  <2>3. ASSUME steady PROVE steady = TRUE
    BY <2>2, <2>3
  <2>4. QED
    BY <2>1, <2>3
<1>4. PICK w \in BOOLEAN : w = (clock[d].played \/ role[d] # "follow")
    BY Zenon
<1>5. w = TRUE \/ w = clock[d].played
  <2>1. ASSUME role[d] # "follow" PROVE w
    BY <1>4, <2>1, Zenon
  <2>2. ASSUME role[d] = "follow", clock[d].played PROVE w
    BY <1>4, <2>2, Zenon
  <2>3. ASSUME role[d] = "follow", ~clock[d].played PROVE ~w
    BY <1>4, <2>3, Zenon
  <2>4. QED
    BY <1>1, <1>4, <2>1, <2>2, <2>3
<1>6. PICK o \in Origins : clock' = [clock EXCEPT ![d] =
              [clock[d] EXCEPT !.play = "armed", !.origin = o, !.adopt = None,
                               !.await = clock[d].follows,
                               !.played = clock[d].played \/ role[d] # "follow"]]
    BY DecksTyped DEF PlayDeck
<1>7. PICK c : c = [clock[d] EXCEPT !.play = "armed", !.origin = o, !.adopt = None,
                               !.await = clock[d].follows, !.played = w]
    OBVIOUS
<1>8. c \in Clocks /\ c.adopt = None /\ c.taken = None /\ c.played = w
    BY <1>1, <1>4, <1>7, Ints DEF Clocks
<1>9. clock' = [clock EXCEPT ![d] = c]
    BY <1>4, <1>6, <1>7
<1>10. Moves(d, c, link[d])
    BY <1>1, <1>8, <1>9 DEF Moves
<1>11. QED
    BY <1>1, <1>2, <1>3, <1>5, <1>8, <1>10

LEMMA StopDeckIs ==
    ASSUME EnsTyped, NEW d \in Decks, StopDeck(d)
    PROVE  /\ UNCHANGED <<role, net, steady>>
           /\ \E c : /\ Moves(d, c, link[d]) /\ c.adopt = clock[d].adopt /\ ~Running(c)
                     /\ c.origin = clock[d].origin /\ c.taken = None /\ clock[d].taken = None
                     /\ c.played = clock[d].played
<1>1. PICK c : c = [clock[d] EXCEPT !.play = "stopped"]
    OBVIOUS
<1>2. /\ clock' = [clock EXCEPT ![d] = c] /\ UNCHANGED <<role, link, net, steady>>
      /\ clock[d].taken = None
    BY <1>1 DEF StopDeck
<1>3. c \in Clocks /\ c.origin = clock[d].origin /\ c.adopt = clock[d].adopt
      /\ c.taken = clock[d].taken /\ c.played = clock[d].played /\ ~Running(c)
    BY <1>1, DecksTyped DEF Clocks, Running
<1>4. QED
    BY <1>2, <1>3, DecksTyped DEF Moves

LEMMA BpmOfIs ==
    ASSUME EnsTyped, NEW d \in Decks, BpmOf(d)
    PROVE  /\ UNCHANGED <<role, net>> /\ steady' \in BOOLEAN
           /\ steady' = TRUE => steady = TRUE
           /\ \E c : /\ Moves(d, c, link[d]) /\ c.adopt = clock[d].adopt
                     /\ c.play = clock[d].play /\ c.taken = clock[d].taken
                     /\ c.played = clock[d].played
                     /\ steady' = TRUE => c.origin = clock[d].origin
<1>1. PICK t \in Tempos :
          /\ \E o \in IF t = clock[d].bpm THEN {clock[d].origin} ELSE Origins :
                clock' = [clock EXCEPT ![d] = [clock[d] EXCEPT !.bpm = t, !.origin = o]]
          /\ steady' = (steady /\ t = clock[d].bpm)
    BY DecksTyped DEF BpmOf
<1>2. PICK o \in IF t = clock[d].bpm THEN {clock[d].origin} ELSE Origins :
          clock' = [clock EXCEPT ![d] = [clock[d] EXCEPT !.bpm = t, !.origin = o]]
    BY <1>1
<1>3. /\ UNCHANGED <<role, link, net>> /\ clock[d] \in Clocks /\ link[d] \in LinkRecs
      /\ link = [link EXCEPT ![d] = link[d]] /\ clock[d].origin \in Int /\ t \in Nat
    BY DecksTyped, EnsembleAssumption DEF BpmOf, Clocks
<1>4. steady' \in BOOLEAN
    BY <1>1, Zenon
<1>5. steady' = TRUE => steady = TRUE /\ t = clock[d].bpm
  <2>1. ASSUME steady' = TRUE PROVE steady /\ t = clock[d].bpm
    BY <1>1, <2>1, Zenon
  <2>2. steady \in BOOLEAN
    BY DEF EnsTyped
  <2>3. ASSUME steady PROVE steady = TRUE
    BY <2>2, <2>3
  <2>4. QED
    BY <2>1, <2>3
<1>6. PICK c : c = [clock[d] EXCEPT !.bpm = t, !.origin = o]
    OBVIOUS
<1>7. o \in Int /\ (t = clock[d].bpm => o = clock[d].origin)
    BY <1>2, <1>3, Ints
<1>8. /\ c \in Clocks /\ c.origin = o /\ c.adopt = clock[d].adopt /\ c.play = clock[d].play
      /\ c.taken = clock[d].taken /\ c.played = clock[d].played
    BY <1>3, <1>6, <1>7 DEF Clocks
<1>9. Moves(d, c, link[d])
    BY <1>2, <1>3, <1>6, <1>8 DEF Moves
<1>10. QED
    BY <1>3, <1>4, <1>5, <1>7, <1>8, <1>9

LEMMA EnsTypedInit == ASSUME EnsembleInit PROVE EnsTyped
<1>1. PICK o \in Int : o = CHOOSE x \in Origins : TRUE
  <2>1. (CHOOSE x \in Origins : TRUE) \in Origins
    BY EnsembleAssumption
  <2>2. QED
    BY <2>1, Ints
<1>2. PICK b \in Nat : b = CHOOSE t \in Tempos : TRUE
  <2>1. (CHOOSE t \in Tempos : TRUE) \in Tempos
    BY EnsembleAssumption
  <2>2. QED
    BY <2>1, EnsembleAssumption
<1>3. First \in [Decks -> {"off", "lead", "follow"}]
    BY EnsembleAssumption
<1>4. clock \in [Decks -> Clocks]
  <2>1. \A d \in Decks : (First[d] = "lead") \in BOOLEAN
    BY Zenon
  <2>2. PICK v \in Int \cup {None} : v = None
    OBVIOUS
  <2>3. \A d \in Decks : clock[d] = [play |-> IF First[d] = "lead" THEN "playing" ELSE "stopped",
            origin |-> o, bpm |-> b, adopt |-> v, taken |-> v,
            await |-> FALSE, follows |-> FALSE, played |-> First[d] = "lead"]
    BY <1>1, <1>2, <2>2 DEF EnsembleInit
  <2>4. ASSUME NEW d \in Decks PROVE clock[d] \in Clocks
    <3>1. PICK w \in BOOLEAN : w = (First[d] = "lead")
      BY Zenon
    <3>2. PICK y \in {"stopped", "armed", "playing"} : y = IF First[d] = "lead" THEN "playing" ELSE "stopped"
      OBVIOUS
    <3>3. clock[d] = [play |-> y, origin |-> o, bpm |-> b, adopt |-> v, taken |-> v,
                      await |-> FALSE, follows |-> FALSE, played |-> w]
      BY <2>3, <3>1, <3>2, Zenon
    <3>4. QED
      BY <3>3 DEF Clocks
  <2>5. QED
    BY <2>4 DEF EnsembleInit
<1>5. link \in [Decks -> LinkRecs]
  <2>1. IdleSlot \in Slot
    BY DEF IdleSlot, Slot
  <2>2. PICK x : x = [k \in AirSlots |-> IdleSlot]
    OBVIOUS
  <2>3. x \in [AirSlots -> Slot]
    BY <2>1, <2>2
  <2>4. PICK n, z : n = <<>> /\ z = 0
    OBVIOUS
  <2>5. n \in Seq(Nat \ {0}) /\ n \in Seq(Callback) /\ z \in Nat /\ z \in Int
    BY <2>4
  <2>6. PICK q : q = [leader |-> None, tag |-> z, exch |-> x, pend |-> n, owed |-> n,
                      probed |-> None, last |-> z, same |-> z, samples |-> z, seen |-> None,
                      matched |-> TRUE]
    OBVIOUS
  <2>7. q \in LinkRecs
    BY <2>3, <2>5, <2>6 DEF LinkRecs
  <2>8. link = [d \in Decks |-> q]
    BY <2>2, <2>4, <2>6 DEF EnsembleInit
  <2>9. QED
    BY <2>7, <2>8
<1>6. QED
    BY <1>3, <1>4, <1>5 DEF EnsembleInit, EnsTyped

LEMMA SendsTyped == ASSUME EnsTyped, NEW d \in Decks, Sends(d, net') PROVE \A p \in net' : Packet(p)
    BY DEF EnsTyped, Sends

LEMMA EnsTypedNext == ASSUME EnsTyped, EnsembleNext PROVE EnsTyped'
<1> PICK d \in Decks : Player(d) \/ Radio(d) \/ Loop(d) \/ DeckTimer(d)
    BY DEF EnsembleNext
<1>1. ASSUME NEW c, NEW l, Moves(d, c, l) PROVE clock' \in [Decks -> Clocks] /\ link' \in [Decks -> LinkRecs]
    BY <1>1, MovesAre
<1>2. /\ clock \in [Decks -> Clocks] /\ link \in [Decks -> LinkRecs]
      /\ role \in [Decks -> {"off", "lead", "follow"}] /\ steady \in BOOLEAN
      /\ \A p \in net : Packet(p)
    BY DEF EnsTyped
<1>3. CASE Player(d)
  <2>1. ASSUME NEW r \in {"off", "lead", "follow"}, SetRole(d, r) PROVE EnsTyped'
    <3>1. /\ role' = [role EXCEPT ![d] = r] /\ net' = net /\ steady' \in BOOLEAN
          /\ \E c, l : Moves(d, c, l)
      BY <2>1, SetRoleIs
    <3>2. role' \in [Decks -> {"off", "lead", "follow"}]
      BY <1>2, <3>1
    <3>3. QED
      BY <1>1, <1>2, <3>1, <3>2 DEF EnsTyped
  <2>2. CASE PlayDeck(d)
    <3>1. UNCHANGED <<role, net>> /\ steady' \in BOOLEAN /\ \E c : Moves(d, c, link[d])
      BY <2>2, PlayDeckIs
    <3>2. QED
      BY <1>1, <1>2, <3>1 DEF EnsTyped
  <2>3. CASE StopDeck(d)
    <3>1. UNCHANGED <<role, net, steady>> /\ \E c : Moves(d, c, link[d])
      BY <2>3, StopDeckIs
    <3>2. QED
      BY <1>1, <1>2, <3>1 DEF EnsTyped
  <2>4. CASE BpmOf(d)
    <3>1. UNCHANGED <<role, net>> /\ steady' \in BOOLEAN /\ \E c : Moves(d, c, link[d])
      BY <2>4, BpmOfIs
    <3>2. QED
      BY <1>1, <1>2, <3>1 DEF EnsTyped
  <2>5. QED
    BY <1>3, <2>1, <2>2, <2>3, <2>4 DEF Player
<1>4. CASE Radio(d)
  <2>1. ASSUME NEW p \in net, RecvBeacon(d, p) PROVE EnsTyped'
    <3>1. UNCHANGED <<role, steady>> /\ net' \subseteq net /\ \E c, l : Moves(d, c, l)
      BY <2>1, RecvBeaconIs
    <3>2. QED
      BY <1>1, <1>2, <3>1 DEF EnsTyped
  <2>2. ASSUME NEW p \in net, RecvProbe(d, p) PROVE EnsTyped'
    <3>1. UNCHANGED <<role, steady>> /\ net' \subseteq net /\ \E l : Moves(d, clock[d], l)
      BY <2>2, RecvProbeIs
    <3>2. QED
      BY <1>1, <1>2, <3>1 DEF EnsTyped
  <2>3. ASSUME NEW p \in net, NEW how, RecvReply(d, p, how) PROVE EnsTyped'
    <3>1. UNCHANGED <<role, steady>> /\ net' \subseteq net /\ \E c, l : Moves(d, c, l)
      BY <2>3, RecvReplyIs DEF NotPut, PutBy
    <3>2. QED
      BY <1>1, <1>2, <3>1 DEF EnsTyped
  <2>4. ASSUME NEW how, Sent(d, how) PROVE EnsTyped'
    <3>1. UNCHANGED <<role, net, steady>> /\ \E c, l : Moves(d, c, l)
      BY <2>4, SentIs
    <3>2. QED
      BY <1>1, <1>2, <3>1 DEF EnsTyped
  <2>5. QED
    BY <1>4, <2>1, <2>2, <2>3, <2>4 DEF Radio
<1>5. CASE Loop(d)
  <2>1. ASSUME NEW f, Beacon(d, f) PROVE EnsTyped'
    <3>1. UNCHANGED <<role, clock, link, steady>> /\ Sends(d, net')
      BY <2>1, BeaconIs
    <3>2. QED
      BY <1>2, <3>1, SendsTyped DEF EnsTyped
  <2>2. ASSUME NEW f, Answer(d, f) PROVE EnsTyped'
    <3>1. UNCHANGED <<role, steady>> /\ Sends(d, net') /\ \E l : Moves(d, clock[d], l)
      BY <2>2, AnswerIs
    <3>2. QED
      BY <1>1, <1>2, <3>1, SendsTyped DEF EnsTyped
  <2>3. ASSUME NEW f, Probe(d, f) PROVE EnsTyped'
    <3>1. UNCHANGED <<role, steady>> /\ Sends(d, net') /\ \E l : Moves(d, clock[d], l)
      BY <2>3, ProbeIs
    <3>2. QED
      BY <1>1, <1>2, <3>1, SendsTyped DEF EnsTyped
  <2>4. QED
    BY <1>5, <2>1, <2>2, <2>3 DEF Loop
<1>6. CASE DeckTimer(d)
  <2>1. CASE DeckTick(d)
    <3>1. UNCHANGED <<role, net, steady>> /\ \E c : Moves(d, c, link[d])
      BY <2>1, DeckTickIs
    <3>2. QED
      BY <1>1, <1>2, <3>1 DEF EnsTyped
  <2>2. CASE RenumberBars(d)
    <3>1. UNCHANGED <<role, net, steady>> /\ \E c : Moves(d, c, link[d])
      BY <2>2, RenumberBarsIs
    <3>2. QED
      BY <1>1, <1>2, <3>1 DEF EnsTyped
  <2>3. CASE WaitedLong(d)
    <3>1. UNCHANGED <<role, net, steady>> /\ \E c : Moves(d, c, link[d])
      BY <2>3, WaitedLongIs
    <3>2. QED
      BY <1>1, <1>2, <3>1 DEF EnsTyped
  <2>4. QED
    BY <1>6, <2>1, <2>2, <2>3 DEF DeckTimer
<1>7. QED
    BY <1>3, <1>4, <1>5, <1>6

\* What ExchInv says of one deck.
DeckExch(r, l) ==
    /\ \A k \in AirSlots : ReadsOnce(l.exch[k])
    /\ r = "lead" => l.owed = <<>>
    /\ r = "follow" /\ l.matched => Matches(l) /\ \A k \in AirSlots : OwnAir(l.exch[k])

LEMMA ExchIs == ExchInv <=> \A d \in Decks : DeckExch(role[d], link[d])
    BY DEF ExchInv, DeckExch

LEMMA ExchMoves ==
    ASSUME EnsTyped, ExchInv, NEW d \in Decks, NEW c, NEW l, Moves(d, c, l),
           DeckExch(role'[d], l), \A x \in Decks \ {d} : role'[x] = role[x]
    PROVE  ExchInv'
<1>1. \A x \in Decks : DeckExch(role'[x], link'[x])
    BY MovesAre, ExchIs
<1>2. QED
    BY <1>1 DEF ExchInv, DeckExch

LEMMA UnheardKeeps ==
    ASSUME NEW r, NEW l, NEW m, Unheard(m, l), DeckExch(r, l)
    PROVE  DeckExch(r, m)
    BY DEF Unheard, DeckExch, Matches

\* An answer is read once if it had not been read.
LEMMA SettleKeeps ==
    ASSUME NEW t \in States, NEW k \in AirSlots, NEW how, NEW u \in Settle(t, k, how),
           NEW r, DeckExch(r, t.l), t.l.exch[k].uses = 0
    PROVE  DeckExch(r, u.l)
<1>1. Kept(u.l, t.l)
    BY SettleIs
<1>2. \A j \in AirSlots : ReadsOnce(u.l.exch[j]) /\ (OwnAir(t.l.exch[j]) => OwnAir(u.l.exch[j]))
  <2>1. CASE u = t
    BY <2>1 DEF DeckExch
  <2>2. CASE /\ t.l.exch[k].air # None
             /\ u.l.exch = [t.l.exch EXCEPT ![k] = UsedUp(t.l.exch[k])]
    <3>1. t.l \in LinkRecs
      BY DEF States
    <3>2. t.l.exch \in [AirSlots -> Slot] /\ t.l.exch[k] \in Slot
      BY <3>1, SlotFields
    <3>3. PICK e : e = UsedUp(t.l.exch[k])
      OBVIOUS
    <3>4. /\ e.tag = t.l.exch[k].tag /\ e.air = t.l.exch[k].air /\ e.rx = Read /\ e.uses = 1
      BY <3>2, <3>3, UsedUpIs
    <3>5. ReadsOnce(e) /\ (OwnAir(t.l.exch[k]) => OwnAir(e))
      BY <2>2, <3>4, NoneIs DEF ReadsOnce, OwnAir
    <3>6. \A j \in AirSlots : u.l.exch[j] = IF j = k THEN e ELSE t.l.exch[j]
      BY <2>2, <3>2, <3>3
    <3>7. QED
      BY <3>5, <3>6 DEF DeckExch
  <2>3. QED
    BY <2>1, <2>2, SettleIs
<1>3. QED
    BY <1>1, <1>2 DEF DeckExch, Kept, Matches

LEMMA MatchHead ==
    ASSUME NEW l \in LinkRecs, Matches(l), l.pend # <<>>
    PROVE  /\ Head(l.owed).tag = Head(l.pend) /\ Head(l.pend) # 0
           /\ Len(Tail(l.owed)) = Len(Tail(l.pend))
           /\ \A i \in 1 .. Len(Tail(l.pend)) : Tail(l.owed)[i].tag = Tail(l.pend)[i]
<1>1. l.pend \in Seq(Nat \ {0}) /\ l.owed \in Seq(Callback) /\ Len(l.owed) = Len(l.pend)
    BY DEF LinkRecs, Matches
<1>2. Len(l.pend) \in Nat \ {0} /\ l.owed # <<>>
    BY <1>1
<1>3. Head(l.pend) = l.pend[1] /\ Head(l.owed) = l.owed[1] /\ Head(l.pend) \in Nat \ {0}
    BY <1>1, <1>2
<1>4. Len(Tail(l.owed)) = Len(l.owed) - 1 /\ Len(Tail(l.pend)) = Len(l.pend) - 1
    BY <1>1, <1>2
<1>5. 1 \in 1 .. Len(l.pend)
    BY <1>2
<1>6. ASSUME NEW i \in 1 .. Len(Tail(l.pend)) PROVE Tail(l.owed)[i].tag = Tail(l.pend)[i]
  <2>1. i + 1 \in 1 .. Len(l.pend)
    BY <1>2, <1>4
  <2>2. Tail(l.owed)[i] = l.owed[i + 1] /\ Tail(l.pend)[i] = l.pend[i + 1]
    BY <1>1, <1>2, <1>4, HeadTailProperties
  <2>3. QED
    BY <2>1, <2>2 DEF Matches
<1>7. QED
    BY <1>1, <1>3, <1>4, <1>5, <1>6 DEF Matches

LEMMA MatchAppend ==
    ASSUME NEW l \in LinkRecs, Matches(l), NEW m \in LinkRecs, NEW t, NEW a, a.tag = t,
           m.pend = Append(l.pend, t), m.owed = Append(l.owed, a)
    PROVE  Matches(m)
<1>1. l.pend \in Seq(Nat \ {0}) /\ l.owed \in Seq(Callback) /\ Len(l.owed) = Len(l.pend)
      /\ Len(l.pend) \in Nat
    BY DEF LinkRecs, Matches
<1>2. Len(m.pend) = Len(l.pend) + 1 /\ Len(m.owed) = Len(l.pend) + 1
    BY <1>1, AppendProperties
<1>3. ASSUME NEW i \in 1 .. Len(m.pend) PROVE m.owed[i].tag = m.pend[i]
  <2>1. CASE i = Len(l.pend) + 1
    BY <1>1, <2>1, AppendProperties
  <2>2. CASE i # Len(l.pend) + 1
    <3>1. i \in 1 .. Len(l.pend)
      BY <1>1, <1>2, <2>2
    <3>2. m.pend[i] = l.pend[i] /\ m.owed[i] = l.owed[i]
      BY <1>1, <3>1, AppendProperties
    <3>3. QED
      BY <3>1, <3>2 DEF Matches
  <2>3. QED
    BY <2>1, <2>2
<1>4. QED
    BY <1>2, <1>3 DEF Matches

\* An answer put by leaves the exchange to be read, once.
LEMMA PutSlots ==
    ASSUME NEW d, NEW p, NEW k \in AirSlots, NEW s \in States, NEW t \in States, PutIn(d, p, k, s, t),
           p.origin \in Int, p.bpm \in Nat
    PROVE  /\ \A j \in AirSlots \ {k} : t.l.exch[j] = s.l.exch[j]
           /\ t.l.exch[k].tag = s.l.exch[k].tag /\ t.l.exch[k].air = s.l.exch[k].air
           /\ t.l.exch[k].uses = s.l.exch[k].uses /\ t.l.exch[k].rx # None
           /\ t.l.exch[k].rx.origin = p.origin
<1>1. s.l \in LinkRecs
    BY DEF States
<1>2. s.l.exch \in [AirSlots -> Slot] /\ s.l.exch[k] \in Slot
    BY <1>1, SlotFields
<1>3. PICK a \in Answers : a = [origin |-> p.origin, bpm |-> p.bpm]
    BY DEF Answers
<1>4. a # None /\ a.origin = p.origin
    BY <1>3, NoneIs
<1>5. PICK e : e = [s.l.exch[k] EXCEPT !.rx = a]
    OBVIOUS
<1>6. /\ e.tag = s.l.exch[k].tag /\ e.air = s.l.exch[k].air /\ e.uses = s.l.exch[k].uses
      /\ e.rx = a
    BY <1>2, <1>5 DEF Slot
<1>7. t.l.exch = [s.l.exch EXCEPT ![k] = e]
    BY <1>3, <1>5 DEF PutIn
<1>8. QED
    BY <1>2, <1>4, <1>6, <1>7

\* An exchange that has not been read.
Unused(l, k) == l.exch[k].uses = 0

LEMMA PutKeeps ==
    ASSUME NEW d, NEW p, NEW k \in AirSlots, NEW s \in States, NEW t \in States, PutIn(d, p, k, s, t),
           p.origin \in Int, p.bpm \in Nat, NEW r, DeckExch(r, link[d])
    PROVE  DeckExch(r, s.l) /\ DeckExch(r, t.l) /\ Unused(t.l, k)
<1>1. DeckExch(r, s.l) /\ s.l.exch[k].uses = 0
  <2>1. Unheard(s.l, link[d]) /\ s.l.exch[k].rx = None
    BY DEF PutIn
  <2>2. DeckExch(r, s.l)
    BY <2>1, UnheardKeeps
  <2>3. QED
    BY <2>1, <2>2 DEF DeckExch, ReadsOnce
<1>2. Kept(t.l, s.l)
    BY DEF PutIn
<1>3. \A j \in AirSlots : ReadsOnce(t.l.exch[j]) /\ (OwnAir(s.l.exch[j]) => OwnAir(t.l.exch[j]))
  <2>1. ASSUME NEW j \in AirSlots \ {k}
        PROVE  ReadsOnce(t.l.exch[j]) /\ (OwnAir(s.l.exch[j]) => OwnAir(t.l.exch[j]))
    <3>1. t.l.exch[j] = s.l.exch[j]
      BY PutSlots
    <3>2. QED
      BY <1>1, <3>1 DEF DeckExch
  <2>2. ReadsOnce(t.l.exch[k]) /\ (OwnAir(s.l.exch[k]) => OwnAir(t.l.exch[k]))
    <3>1. /\ t.l.exch[k].tag = s.l.exch[k].tag /\ t.l.exch[k].air = s.l.exch[k].air
          /\ t.l.exch[k].uses = s.l.exch[k].uses
      BY PutSlots
    <3>2. QED
      BY <1>1, <3>1 DEF ReadsOnce, OwnAir
  <2>3. QED
    BY <2>1, <2>2
<1>4. t.l.exch[k].uses = 0
  <2>1. t.l.exch[k].uses = s.l.exch[k].uses
    BY PutSlots
  <2>2. QED
    BY <1>1, <2>1
<1>5. QED
    BY <1>1, <1>2, <1>3, <1>4 DEF DeckExch, Kept, Matches, Unused

LEMMA ExchRecvReply ==
    ASSUME EnsTyped, ExchInv, NEW d \in Decks, NEW p \in net, NEW how, RecvReply(d, p, how)
    PROVE  ExchInv'
<1>1. /\ role' = role /\ link[d] \in LinkRecs /\ DeckExch(role[d], link[d])
    BY RecvReplyIs, DecksTyped, ExchIs
<1>2. CASE NotPut(d)
    BY <1>1, <1>2, UnheardKeeps, ExchMoves DEF NotPut
<1>3. p.origin \in Int /\ p.bpm \in Nat
    BY RecvReplyIs
<1>4. CASE PutBy(d, p, how)
  <2>1. PICK s \in States, t \in States, k \in AirSlots :
            PutIn(d, p, k, s, t) /\ \E u \in Settle(t, k, how) : Moves(d, u.c, u.l)
    BY <1>4 DEF PutBy
  <2>2. PICK u \in Settle(t, k, how) : Moves(d, u.c, u.l)
    BY <2>1
  <2>3. DeckExch(role[d], t.l) /\ t.l.exch[k].uses = 0
    <3>1. PutIn(d, p, k, s, t)
      BY <2>1, Zenon
    <3>2. DeckExch(role[d], link[d])
      BY <1>1, Zenon
    <3>3. DeckExch(role[d], t.l) /\ Unused(t.l, k)
      BY <1>3, <3>1, <3>2, PutKeeps
    <3>4. QED
      BY <3>3 DEF Unused
  <2>4. DeckExch(role[d], u.l)
    BY <2>1, <2>2, <2>3, SettleKeeps
  <2>5. QED
    BY <1>1, <2>2, <2>4, ExchMoves
<1>5. QED
    BY <1>2, <1>4, RecvReplyIs

LEMMA ExchSent ==
    ASSUME EnsTyped, ExchInv, NEW d \in Decks, NEW how, Sent(d, how)
    PROVE  ExchInv'
<1>1. /\ role' = role /\ link[d] \in LinkRecs /\ DeckExch(role[d], link[d]) /\ link[d].owed # <<>>
      /\ link[d].exch \in [AirSlots -> Slot]
    BY SentIs, DecksTyped, ExchIs, SlotFields DEF LinkRecs
<1>2. role[d] = "follow" /\ link[d].matched => link[d].pend # <<>>
  <2>1. ASSUME Matches(link[d]), link[d].pend = <<>> PROVE FALSE
    <3>1. Len(link[d].owed) = 0
      BY <2>1 DEF Matches
    <3>2. QED
      BY <1>1, <3>1, EmptySeq DEF LinkRecs
  <2>2. QED
    BY <1>1, <2>1 DEF DeckExch
<1>3. role[d] # "lead"
    BY <1>1 DEF DeckExch
<1>4. ASSUME role[d] # "follow" \/ link[d].pend = <<>>,
             NEW l, Moves(d, clock[d], l), Called(l, link[d]), l.exch = link[d].exch
      PROVE  ExchInv'
  <2>1. DeckExch(role[d], l)
    BY <1>1, <1>2, <1>3, <1>4 DEF DeckExch, Called
  <2>2. QED
    BY <1>1, <1>4, <2>1, ExchMoves
<1>5. ASSUME link[d].pend # <<>>, NEW l, Called(l, link[d]), l.pend = Tail(link[d].pend),
             role[d] = "follow", link[d].matched
      PROVE  Matches(l)
  <2>1. Matches(link[d])
    BY <1>1, <1>5 DEF DeckExch
  <2>2. PICK o, h : o = Tail(link[d].owed) /\ h = Tail(link[d].pend)
    OBVIOUS
  <2>3. Len(o) = Len(h) /\ \A i \in 1 .. Len(h) : o[i].tag = h[i]
    BY <1>1, <1>5, <2>1, <2>2, MatchHead
  <2>4. l.owed = o /\ l.pend = h
    BY <1>5, <2>2 DEF Called
  <2>5. QED
    BY <2>3, <2>4 DEF Matches
<1>6. ASSUME link[d].pend # <<>>, NEW l, Moves(d, clock[d], l), Called(l, link[d]),
             l.pend = Tail(link[d].pend),
             \/ l.exch = link[d].exch
             \/ \E k \in AirSlots :
                   l.exch = [link[d].exch EXCEPT ![k] = [link[d].exch[k] EXCEPT !.lost = TRUE]]
      PROVE  ExchInv'
  <2>1. \A j \in AirSlots : /\ l.exch[j].tag = link[d].exch[j].tag /\ l.exch[j].air = link[d].exch[j].air
                            /\ l.exch[j].rx = link[d].exch[j].rx /\ l.exch[j].uses = link[d].exch[j].uses
    <3>1. CASE l.exch = link[d].exch
      BY <3>1
    <3>2. ASSUME NEW k \in AirSlots,
                 l.exch = [link[d].exch EXCEPT ![k] = [link[d].exch[k] EXCEPT !.lost = TRUE]]
          PROVE  \A j \in AirSlots :
                    /\ l.exch[j].tag = link[d].exch[j].tag /\ l.exch[j].air = link[d].exch[j].air
                    /\ l.exch[j].rx = link[d].exch[j].rx /\ l.exch[j].uses = link[d].exch[j].uses
      <4>1. PICK e : e = [link[d].exch[k] EXCEPT !.lost = TRUE]
        OBVIOUS
      <4>2. link[d].exch[k] \in Slot
        BY <1>1
      <4>3. /\ e.tag = link[d].exch[k].tag /\ e.air = link[d].exch[k].air
            /\ e.rx = link[d].exch[k].rx /\ e.uses = link[d].exch[k].uses
        BY <4>1, <4>2 DEF Slot
      <4>4. \A j \in AirSlots : l.exch[j] = IF j = k THEN e ELSE link[d].exch[j]
        BY <1>1, <3>2, <4>1
      <4>5. QED
        BY <4>3, <4>4
    <3>3. QED
      BY <1>6, <3>1, <3>2
  <2>2. \A j \in AirSlots : ReadsOnce(l.exch[j]) /\ (OwnAir(link[d].exch[j]) => OwnAir(l.exch[j]))
    BY <1>1, <2>1 DEF DeckExch, ReadsOnce, OwnAir
  <2>3. DeckExch(role[d], l)
    BY <1>1, <1>3, <1>5, <1>6, <2>2 DEF DeckExch, Called
  <2>4. QED
    BY <1>1, <1>6, <2>3, ExchMoves
<1>7. ASSUME link[d].pend # <<>>, NEW t \in States, NEW k \in AirSlots, Called(t.l, link[d]),
             t.l.pend = Tail(link[d].pend),
             t.l.exch = [link[d].exch EXCEPT ![k] =
                             [link[d].exch[k] EXCEPT !.air = Head(link[d].owed).tag]],
             link[d].exch[k].tag = Head(link[d].pend), link[d].exch[k].air = None,
             NEW u \in Settle(t, k, how), Moves(d, u.c, u.l)
      PROVE  ExchInv'
  <2>1. link[d].exch[k] \in Slot /\ link[d].exch[k].uses = 0 /\ link[d].exch[k].uses <= 1
    BY <1>1, <1>7 DEF DeckExch, ReadsOnce
  <2>2. PICK e : e = [link[d].exch[k] EXCEPT !.air = Head(link[d].owed).tag]
    OBVIOUS
  <2>3. e.tag = link[d].exch[k].tag /\ e.air = Head(link[d].owed).tag /\ e.uses = 0
    BY <2>1, <2>2 DEF Slot
  <2>4. \A j \in AirSlots : t.l.exch[j] = IF j = k THEN e ELSE link[d].exch[j]
    BY <1>1, <1>7, <2>2
  <2>5. ReadsOnce(e)
    BY <2>3 DEF ReadsOnce
  <2>6. role[d] = "follow" /\ link[d].matched => OwnAir(e)
    <3>1. ASSUME role[d] = "follow" /\ link[d].matched PROVE OwnAir(e)
      <4>1. Head(link[d].owed).tag = Head(link[d].pend) /\ Head(link[d].pend) # 0
        BY <1>1, <1>7, <3>1, MatchHead DEF DeckExch
      <4>2. QED
        BY <1>7, <2>3, <4>1 DEF OwnAir
    <3>2. QED
      BY <3>1
  <2>7. DeckExch(role[d], t.l)
    BY <1>1, <1>3, <1>5, <1>7, <2>4, <2>5, <2>6 DEF DeckExch, Called
  <2>8. DeckExch(role[d], u.l)
    BY <2>3, <2>4, <2>7, SettleKeeps
  <2>9. QED
    BY <1>1, <1>7, <2>8, ExchMoves
<1>8. QED
    BY <1>4, <1>6, <1>7, SentIs

LEMMA FreshKeeps ==
    ASSUME NEW l \in LinkRecs, NEW r, Fresh(l), r = "lead" => l.owed = <<>>
    PROVE  DeckExch(r, l)
<1>1. \A k \in AirSlots : l.exch[k].uses = 0 /\ l.exch[k].air = None
    BY DEF Fresh, IdleSlot
<1>2. \A k \in AirSlots : ReadsOnce(l.exch[k]) /\ OwnAir(l.exch[k])
    BY <1>1 DEF ReadsOnce, OwnAir
<1>3. ASSUME l.matched PROVE Matches(l)
  <2>1. l.owed = <<>> /\ l.pend = <<>>
    BY <1>3, Zenon DEF Fresh
  <2>2. Len(l.pend) = 0 /\ Len(l.owed) = 0
    BY <2>1
  <2>3. QED
    BY <2>2 DEF Matches
<1>4. QED
    BY <1>2, <1>3 DEF DeckExch

LEMMA ExchInit == ASSUME EnsembleInit PROVE ExchInv
<1>1. EnsTyped
    BY EnsTypedInit
<1>2. ASSUME NEW d \in Decks PROVE DeckExch(role[d], link[d])
  <2>1. link[d] \in LinkRecs
    BY <1>1, DecksTyped
  <2>2. /\ link[d].exch = [k \in AirSlots |-> IdleSlot] /\ link[d].pend = <<>>
        /\ link[d].owed = <<>> /\ link[d].matched = TRUE /\ link[d].same = 0
    BY DEF EnsembleInit
  <2>3. Fresh(link[d])
    BY <2>2 DEF Fresh
  <2>4. QED
    BY <2>1, <2>2, <2>3, FreshKeeps
<1>3. QED
    BY <1>2, ExchIs

LEMMA ExchNext == ASSUME EnsTyped, ExchInv, EnsembleNext PROVE ExchInv'
<1> PICK d \in Decks : Player(d) \/ Radio(d) \/ Loop(d) \/ DeckTimer(d)
    BY DEF EnsembleNext
<1>1. /\ role \in [Decks -> {"off", "lead", "follow"}] /\ link[d] \in LinkRecs
      /\ DeckExch(role[d], link[d])
    BY DecksTyped, ExchIs
<1>2. ASSUME role' = role, NEW c, Moves(d, c, link[d]) PROVE ExchInv'
    BY <1>1, <1>2, ExchMoves
<1>3. ASSUME role' = role, NEW c, NEW l, Moves(d, c, l), Unheard(l, link[d]) PROVE ExchInv'
    BY <1>1, <1>3, UnheardKeeps, ExchMoves
<1>4. CASE Player(d)
  <2>1. ASSUME NEW r \in {"off", "lead", "follow"}, SetRole(d, r) PROVE ExchInv'
    <3>1. role' = [role EXCEPT ![d] = r]
      BY <2>1, SetRoleIs
    <3>2. PICK c, l : /\ Moves(d, c, l) /\ (r \in {"lead", "off"} => l.owed = <<>>)
                      /\ (r = "off" => l.exch = link[d].exch)
                      /\ (r # "off" => Fresh(l))
      BY <2>1, SetRoleIs
    <3>3. DeckExch(r, l)
      <4>1. CASE r = "off"
        BY <1>1, <3>2, <4>1 DEF DeckExch
      <4>2. CASE r # "off"
        <5>1. l \in LinkRecs
          BY <3>2 DEF Moves
        <5>2. QED
          BY <3>2, <4>2, <5>1, FreshKeeps
      <4>3. QED
        BY <4>1, <4>2
    <3>4. role'[d] = r /\ \A x \in Decks \ {d} : role'[x] = role[x]
      BY <1>1, <3>1
    <3>5. QED
      BY <3>2, <3>3, <3>4, ExchMoves
  <2>2. CASE PlayDeck(d)
    BY <1>2, <2>2, PlayDeckIs
  <2>3. CASE StopDeck(d)
    BY <1>2, <2>3, StopDeckIs
  <2>4. CASE BpmOf(d)
    BY <1>2, <2>4, BpmOfIs
  <2>5. QED
    BY <1>4, <2>1, <2>2, <2>3, <2>4 DEF Player
<1>5. CASE Radio(d)
  <2>1. ASSUME NEW p \in net, RecvBeacon(d, p) PROVE ExchInv'
    BY <1>3, <2>1, RecvBeaconIs
  <2>2. ASSUME NEW p \in net, RecvProbe(d, p) PROVE ExchInv'
    BY <1>3, <2>2, RecvProbeIs
  <2>3. ASSUME NEW p \in net, NEW how, RecvReply(d, p, how) PROVE ExchInv'
    BY <2>3, ExchRecvReply
  <2>4. ASSUME NEW how, Sent(d, how) PROVE ExchInv'
    BY <2>4, ExchSent
  <2>5. QED
    BY <1>5, <2>1, <2>2, <2>3, <2>4 DEF Radio
<1>6. CASE Loop(d)
  <2>1. ASSUME NEW f, Beacon(d, f) PROVE ExchInv'
    BY <2>1, BeaconIs DEF ExchInv
  <2>2. ASSUME NEW f, Answer(d, f) PROVE ExchInv'
    BY <1>3, <2>2, AnswerIs
  <2>3. ASSUME NEW f, Probe(d, f) PROVE ExchInv'
    <3>1. role' = role /\ role[d] = "follow"
      BY <2>3, ProbeIs
    <3>2. PICK l : \E k \in AirSlots, t \in Nat \ {0} :
            /\ Moves(d, clock[d], l)
            /\ l.exch = [link[d].exch EXCEPT ![k] = [IdleSlot EXCEPT !.tag = t]]
            /\ l.last = link[d].last /\ l.same = link[d].same /\ l.leader = link[d].leader
            /\ (l.matched => /\ link[d].matched /\ l.pend = Append(link[d].pend, t)
                             /\ \E a : l.owed = Append(link[d].owed, a) /\ a.tag = t)
      BY <2>3, ProbeIs, Zenon
    <3>3. PICK k \in AirSlots, t \in Nat \ {0} :
            /\ Moves(d, clock[d], l)
            /\ l.exch = [link[d].exch EXCEPT ![k] = [IdleSlot EXCEPT !.tag = t]]
            /\ (l.matched => /\ link[d].matched /\ l.pend = Append(link[d].pend, t)
                             /\ \E a : l.owed = Append(link[d].owed, a) /\ a.tag = t)
      BY <3>2
    <3>4. PICK e : e = [IdleSlot EXCEPT !.tag = t]
      OBVIOUS
    <3>5. ReadsOnce(e) /\ OwnAir(e)
      <4>1. t \in Nat
        BY <3>3
      <4>2. e.air = None /\ e.uses = 0
        BY <3>4, <4>1, IdleIs
      <4>3. QED
        BY <4>2 DEF ReadsOnce, OwnAir
    <3>6. link[d].exch \in [AirSlots -> Slot] /\ l \in LinkRecs
      BY <1>1, <3>3, SlotFields DEF Moves, LinkRecs
    <3>7. \A j \in AirSlots : l.exch[j] = IF j = k THEN e ELSE link[d].exch[j]
      BY <3>3, <3>4, <3>6
    <3>8. l.matched => Matches(l)
      BY <1>1, <3>1, <3>3, <3>6, MatchAppend DEF DeckExch
    <3>9. DeckExch(role[d], l)
      BY <1>1, <3>1, <3>3, <3>5, <3>7, <3>8 DEF DeckExch
    <3>10. QED
      BY <1>1, <3>1, <3>3, <3>9, ExchMoves
  <2>4. QED
    BY <1>6, <2>1, <2>2, <2>3 DEF Loop
<1>7. CASE DeckTimer(d)
  <2>1. CASE DeckTick(d)
    BY <1>2, <2>1, DeckTickIs
  <2>2. CASE RenumberBars(d)
    BY <1>2, <2>2, RenumberBarsIs
  <2>3. CASE WaitedLong(d)
    BY <1>2, <2>3, WaitedLongIs
  <2>4. QED
    BY <1>7, <2>1, <2>2, <2>3 DEF DeckTimer
<1>8. QED
    BY <1>4, <1>5, <1>6, <1>7

LEMMA EnsStays == ASSUME EnsTyped, ExchInv, UNCHANGED ensembleVars PROVE EnsTyped' /\ ExchInv'
    BY DEF EnsTyped, ExchInv, ensembleVars

LEMMA EnsInvariant == EnsembleSpec => [](EnsTyped /\ ExchInv)
<1>1. EnsembleInit => EnsTyped /\ ExchInv
    BY EnsTypedInit, ExchInit
<1>2. EnsTyped /\ ExchInv /\ [EnsembleNext]_ensembleVars => EnsTyped' /\ ExchInv'
    BY EnsTypedNext, ExchNext, EnsStays
<1>3. QED
    BY <1>1, <1>2, PTL DEF EnsembleSpec

(***************************************************************************)
(* However the send callbacks, answers, repeats and refusals are ordered,  *)
(* and whatever roles the players set meanwhile: an exchange is timed by   *)
(* the departure of its own probe and is read once, whichever of on_recv() *)
(* and on_sent() has the second half (settle()).                           *)
(***************************************************************************)
THEOREM ExchangesAreTheirOwn == EnsembleSpec => []ExchangeIsItsOwn
<1>1. ASSUME EnsTyped, ExchInv PROVE ExchangeIsItsOwn
  <2>1. ASSUME NEW d \in Decks PROVE DeckExch(role[d], link[d])
    BY <1>1, <2>1, ExchIs
  <2>2. AirIsItsOwn
    BY <2>1 DEF AirIsItsOwn, DeckExch, OwnAir
  <2>3. ReadOnce
    BY <2>1 DEF ReadOnce, DeckExch, ReadsOnce
  <2>4. QED
    BY <2>2, <2>3 DEF ExchangeIsItsOwn
<1>2. QED
    BY <1>1, EnsInvariant, PTL

LEMMA UnreadIs ==
    ASSUME NEW l
    PROVE  /\ Unread(l) \subseteq AirSlots /\ IsFiniteSet(Unread(l))
           /\ Cardinality(Unread(l)) \in Nat /\ Cardinality(Unread(l)) <= Ring
           /\ Unread(l) # {} => Cardinality(Unread(l)) >= 1
<1>1. Ring \in Nat \ {0}
    BY Ints
<1>2. IsFiniteSet(AirSlots) /\ Cardinality(AirSlots) = Ring
  <2>1. 0 \in Int /\ Ring - 1 \in Int
    BY <1>1
  <2>2. IsFiniteSet(0 .. Ring - 1) /\ Cardinality(0 .. Ring - 1) = IF 0 > Ring - 1 THEN 0 ELSE Ring - 1 - 0 + 1
    BY <2>1, FS_Interval
  <2>3. QED
    BY <1>1, <2>2 DEF AirSlots
<1>3. Unread(l) \subseteq AirSlots
    BY DEF Unread
<1>4. IsFiniteSet(Unread(l)) /\ Cardinality(Unread(l)) <= Cardinality(AirSlots)
    BY <1>2, <1>3, FS_Subset
<1>5. Cardinality(Unread(l)) \in Nat
    BY <1>4, FS_CardinalityType
<1>6. Unread(l) # {} => Cardinality(Unread(l)) # 0
    BY <1>4, FS_EmptySet
<1>7. QED
    BY <1>2, <1>3, <1>4, <1>5, <1>6

\* The slots hold the same probes, as much read as before.
SameSlots(m, l) ==
    /\ \A k \in AirSlots : m.exch[k].tag = l.exch[k].tag /\ m.exch[k].uses = l.exch[k].uses
    /\ m.last = l.last /\ m.same = l.same

LEMMA LandsKept ==
    ASSUME NEW b, NEW c, NEW m, NEW l, NEW L, NEW o, SameSlots(m, l), m.leader \in {l.leader, L},
           KeptClock(b, c), b.adopt \in {c.adopt, None}, Lands(c, l, L, o)
    PROVE  Lands(b, m, L, o)
<1>1. Unread(m) = Unread(l)
    BY DEF Unread, SameSlots
<1>2. Moving(b) => Moving(c)
    BY DEF Moving, Running, KeptClock
<1>3. b.adopt # None => b.taken = None /\ b.origin + b.adopt = o /\ m.leader = L
    BY DEF Lands, KeptClock
<1>4. QED
    BY <1>1, <1>2, <1>3 DEF Lands, SameSlots, KeptClock

LEMMA UnheardLands ==
    ASSUME NEW r, NEW b, NEW c, NEW m, NEW l, NEW L, NEW o, Unheard(m, l), m.leader \in {l.leader, L},
           KeptClock(b, c), b.adopt \in {c.adopt, None}, LandDeck(r, c, l, L, o)
    PROVE  LandDeck(r, b, m, L, o)
<1>1. SameSlots(m, l) /\ m.matched = l.matched
    BY DEF Unheard, SameSlots
<1>2. Hears(m, L, o)
    BY DEF Hears, LandDeck, Unheard
<1>3. ASSUME Lands(c, l, L, o) PROVE Lands(b, m, L, o)
    BY <1>1, <1>3, LandsKept
<1>4. QED
    BY <1>1, <1>2, <1>3 DEF LandDeck

\* A deck that is not moving and owes the clock nothing wrong.
LEMMA StillLands ==
    ASSUME NEW r, NEW b, NEW c, NEW l, NEW L, NEW o, ~Moving(b), LandDeck(r, c, l, L, o),
           b.adopt # None => b.adopt = c.adopt /\ b.origin = c.origin /\ b.taken = None
    PROVE  LandDeck(r, b, l, L, o)
    BY DEF LandDeck, Lands

\* The answer read: it says where the leader is, and so moves the count at most once.
LEMMA SettleLands ==
    ASSUME NEW r, NEW t \in States, NEW k \in AirSlots, NEW how, NEW u \in Settle(t, k, how),
           NEW L, NEW o \in Int, DeckExch(r, t.l), t.l.exch[k].uses = 0, r = "follow",
           LandDeck(r, t.c, t.l, L, o), Ring <= 2 * Agree
    PROVE  LandDeck(r, u.c, u.l, L, o)
<1>1. /\ u \in States /\ Kept(u.l, t.l) /\ KeptClock(u.c, t.c)
      /\ t.l.exch \in [AirSlots -> Slot] /\ t.l.exch[k] \in Slot
      /\ t.c \in Clocks /\ t.l \in LinkRecs /\ t.l.same \in Int /\ t.c.origin \in Int
    BY SettleIs, SlotFields DEF States, LinkRecs, Clocks
<1>11. \/ u = t
       \/ /\ t.l.exch[k].air # None /\ t.l.exch[k].rx # None
          /\ u.l.exch = [t.l.exch EXCEPT ![k] = UsedUp(t.l.exch[k])]
          /\ \/ /\ u.l.last = t.l.last /\ u.l.same = t.l.same
                /\ u.c.adopt = t.c.adopt
             \/ \E q \in Int :
                   /\ Running(t.c) /\ Heard(u, t, q)
                   /\ t.l.exch[k].air = t.l.exch[k].tag =>
                          q = t.l.exch[k].rx.origin - t.c.origin
    BY SettleIs
<1>2. CASE u = t
    BY <1>2
<1>3. CASE /\ t.l.exch[k].air # None /\ t.l.exch[k].rx # None
           /\ u.l.exch = [t.l.exch EXCEPT ![k] = UsedUp(t.l.exch[k])]
  <2>1. PICK e : e = UsedUp(t.l.exch[k])
    OBVIOUS
  <2>2. e.tag = t.l.exch[k].tag /\ e.uses = 1
    BY <1>1, <2>1, UsedUpIs
  <2>3. \A j \in AirSlots : u.l.exch[j] = IF j = k THEN e ELSE t.l.exch[j]
    BY <1>1, <1>3, <2>1
  <2>4. Hears(u.l, L, o)
    BY <1>1, <2>2, <2>3 DEF Hears, LandDeck, Kept
  <2>5. ASSUME t.l.matched PROVE Lands(u.c, u.l, L, o)
    <3>1. OwnAir(t.l.exch[k]) /\ Lands(t.c, t.l, L, o) /\ Hears(t.l, L, o)
      BY <2>5 DEF DeckExch, LandDeck
    <3>2. /\ t.l.exch[k].air = t.l.exch[k].tag /\ t.l.exch[k].tag # 0 /\ t.l.leader = L
          /\ t.l.exch[k].rx.origin = o /\ u.l.leader = L
      BY <1>1, <1>3, <3>1 DEF OwnAir, Hears, Kept
    <3>3. k \in Unread(t.l)
      BY <3>2 DEF Unread
    <3>4. Unread(u.l) = Unread(t.l) \ {k}
      BY <2>2, <2>3 DEF Unread
    <3>5. PICK n \in Nat : n = Cardinality(Unread(t.l)) /\ n >= 1 /\ n <= Ring
      BY <3>3, UnreadIs
    <3>6. Cardinality(Unread(u.l)) = n - 1
      <4>1. IsFiniteSet(Unread(t.l))
        BY UnreadIs
      <4>2. Cardinality(Unread(t.l) \ {k}) = Cardinality(Unread(t.l)) - 1
        BY <3>3, <4>1, FS_RemoveElement
      <4>3. QED
        BY <3>4, <3>5, <4>2
    <3>7. Moving(t.c) => t.l.same + n < Agree /\ t.l.last = o - t.c.origin
      BY <3>1, <3>3, <3>5 DEF Lands
    <3>8. u.c.origin = t.c.origin /\ u.c.taken = t.c.taken /\ u.c.play = t.c.play
      BY <1>1 DEF KeptClock
    <3>9. CASE u.l.last = t.l.last /\ u.l.same = t.l.same /\ u.c.adopt = t.c.adopt
      <4>1. Moving(u.c) => Moving(t.c)
        BY <3>8, <3>9 DEF Moving, Running
      <4>2. Moving(u.c) => u.l.same + (n - 1) < Agree /\ u.l.last = o - u.c.origin
        BY <1>1, <3>5, <3>7, <3>8, <3>9, <4>1, Ints
      <4>3. QED
        BY <3>1, <3>2, <3>6, <3>8, <3>9, <4>2 DEF Lands
    <3>10. ASSUME NEW q \in Int, Running(t.c), Heard(u, t, q), q = t.l.exch[k].rx.origin - t.c.origin
           PROVE  Lands(u.c, u.l, L, o)
      <4>1. q = o - t.c.origin /\ u.l.last = o - u.c.origin
        BY <3>2, <3>8, <3>10 DEF Heard
      <4>2. Moving(t.c) => Agreed(t.l, q) = t.l.same + 1 /\ Agreed(t.l, q) < Agree
        BY <1>1, <3>5, <3>7, <4>1, Ints DEF Agreed
      <4>3. CASE u.l.same = Agreed(t.l, q) /\ u.c.adopt = t.c.adopt
        <5>1. Moving(u.c) => Moving(t.c)
          BY <3>8, <4>3 DEF Moving, Running
        <5>2. Moving(u.c) => u.l.same + (n - 1) < Agree
          BY <1>1, <3>5, <3>7, <4>2, <4>3, <5>1, Ints
        <5>3. QED
          BY <3>1, <3>2, <3>6, <3>8, <4>1, <4>3, <5>2 DEF Lands
      <4>4. CASE /\ Agreed(t.l, q) >= Agree /\ u.l.same = -Agree
                 /\ u.c.adopt = t.c.adopt \/ (t.c.adopt = None /\ u.c.adopt = q)
        <5>1. ~Moving(t.c)
          <6>1. Agreed(t.l, q) \in Int /\ Agree \in Int
            BY <1>1, Ints DEF Agreed
          <6>2. QED
            BY <4>2, <4>4, <6>1
        <5>2. t.c.taken = None /\ t.c.adopt = None
          BY <3>10, <5>1 DEF Moving
        <5>3. u.c.adopt # None => u.c.taken = None /\ u.c.origin + u.c.adopt = o
          BY <1>1, <3>8, <4>1, <4>4, <5>2
        <5>4. u.l.same + (n - 1) < Agree
          BY <3>5, <4>4, Ints
        <5>5. QED
          BY <3>2, <3>6, <4>1, <5>3, <5>4 DEF Lands
      <4>5. QED
        BY <3>10, <4>3, <4>4 DEF Heard
    <3>11. QED
      <4>1. \/ u = t
            \/ u.l.last = t.l.last /\ u.l.same = t.l.same /\ u.c.adopt = t.c.adopt
            \/ \E q \in Int : /\ Running(t.c) /\ Heard(u, t, q)
                              /\ t.l.exch[k].air = t.l.exch[k].tag =>
                                     q = t.l.exch[k].rx.origin - t.c.origin
        BY <1>11, Zenon
      <4>2. CASE u = t
        BY <3>1, <4>2
      <4>3. QED
        BY <3>2, <3>9, <3>10, <4>1, <4>2
  <2>6. QED
    BY <1>1, <2>4, <2>5 DEF LandDeck, Kept
<1>4. QED
    BY <1>2, <1>3, <1>11

\* What the theorem asks of a band: one deck leads it.
OneLeads(L) ==
    /\ L \in Decks /\ First[L] = "lead" /\ \A d \in Decks \ {L} : First[d] # "lead"
    /\ Ring <= 2 * Agree

\* A step of deck d while one deck leads.
LandStep(L, d, c, l) ==
    /\ Moves(d, c, l)
    /\ d = L <=> role'[d] = "lead"
    /\ d = L => c.origin = clock[L].origin /\ c.adopt = None /\ c.taken = None /\ c.played = TRUE
    /\ l.leader \in {None, L}
    /\ \A p \in net' : p.kind # "probe" => p.from = L /\ p.origin = clock[L].origin
    /\ \A x \in Decks \ {d} : role'[x] = role[x]
    /\ LandDeck(role'[d], c, l, L, clock[L].origin)

LEMMA LandMoves ==
    ASSUME EnsTyped, NEW L \in Decks, steady = TRUE, LandInv(L),
           NEW d \in Decks, NEW c, NEW l, LandStep(L, d, c, l)
    PROVE  LandInv(L)'
<1>1. /\ clock'[d] = c /\ link'[d] = l
      /\ \A x \in Decks \ {d} : clock'[x] = clock[x] /\ link'[x] = link[x] /\ role'[x] = role[x]
    BY MovesAre DEF LandStep
<1>2. Leads(L) /\ \A x \in Decks : LandDeck(role[x], clock[x], link[x], L, clock[L].origin)
    BY DEF LandInv
<1>3. clock'[L].origin = clock[L].origin
    BY <1>1 DEF LandStep
<1>4. role'[L] = "lead" /\ clock'[L].played = TRUE /\ clock'[L].adopt = None /\ clock'[L].taken = None
    BY <1>1, <1>2 DEF LandStep, Leads
<1>5. \A x \in Decks \ {L} : role'[x] # "lead"
    BY <1>1, <1>2 DEF LandStep, Leads
<1>6. \A x \in Decks : link'[x].leader \in {None, L}
    BY <1>1, <1>2 DEF LandStep, Leads
<1>7. \A x \in Decks : LandDeck(role'[x], clock'[x], link'[x], L, clock'[L].origin)
    BY <1>1, <1>2, <1>3 DEF LandStep
<1>8. \A p \in net' : p.kind # "probe" => p.from = L /\ p.origin = clock'[L].origin
    BY <1>3 DEF LandStep
<1>9. Leads(L)'
    BY <1>4, <1>5, <1>6, <1>8 DEF Leads
<1>10. QED
    BY <1>7, <1>9 DEF LandInv

\* A step that leaves the net no fuller, and of the exchanges what they were.
LEMMA LandQuiet ==
    ASSUME EnsTyped, NEW L \in Decks, steady = TRUE, LandInv(L), role' = role, net' \subseteq net,
           NEW d \in Decks, NEW c, NEW l, Moves(d, c, l), l.leader \in {link[d].leader, L},
           d = L => c.origin = clock[L].origin /\ c.adopt = None /\ c.taken = None /\ c.played = TRUE,
           LandDeck(role[d], c, l, L, clock[L].origin)
    PROVE  LandInv(L)'
<1>1. Leads(L)
    BY DEF LandInv
<1>2. LandStep(L, d, c, l)
    BY <1>1 DEF LandStep, Leads
<1>3. QED
    BY <1>2, LandMoves

LEMMA LandUnheard ==
    ASSUME EnsTyped, NEW L \in Decks, steady = TRUE, LandInv(L), role' = role, net' \subseteq net,
           NEW d \in Decks, NEW c, NEW l, Moves(d, c, l), l.leader \in {link[d].leader, L},
           Unheard(l, link[d]), KeptClock(c, clock[d]), c.adopt \in {clock[d].adopt, None}
    PROVE  LandInv(L)'
<1>1. Leads(L) /\ LandDeck(role[d], clock[d], link[d], L, clock[L].origin)
    BY DEF LandInv
<1>2. LandDeck(role[d], c, l, L, clock[L].origin)
    BY <1>1, UnheardLands
<1>3. d = L => c.origin = clock[L].origin /\ c.adopt = None /\ c.taken = None /\ c.played = TRUE
    BY <1>1 DEF Leads, KeptClock
<1>4. QED
    BY <1>2, <1>3, LandQuiet

LEMMA LandPlayer ==
    ASSUME EnsTyped, NEW L \in Decks, LandInv(L), steady' = TRUE, NEW d \in Decks, Player(d)
    PROVE  LandInv(L)'
<1>1. ASSUME steady = TRUE
      PROVE  Leads(L) /\ LandDeck(role[d], clock[d], link[d], L, clock[L].origin)
             /\ role \in [Decks -> {"off", "lead", "follow"}] /\ Unheard(link[d], link[d])
    BY <1>1 DEF LandInv, EnsTyped, Unheard
<1>2. ASSUME NEW r \in {"off", "lead", "follow"}, SetRole(d, r) PROVE LandInv(L)'
  <2>1. /\ role' = [role EXCEPT ![d] = r] /\ net' = net
        /\ steady = TRUE /\ role[d] # "lead" /\ r # "lead"
    BY <1>2, SetRoleIs
  <2>2. PICK c, l : /\ Moves(d, c, l) /\ KeptClock(c, clock[d]) /\ c.adopt = None
                    /\ l.leader = link[d].leader
                    /\ (r = "off" => l.exch = link[d].exch)
                    /\ (r # "off" => Fresh(l))
    BY <1>2, SetRoleIs
  <2>3. LandDeck(r, c, l, L, clock[L].origin)
    <3>1. CASE r = "off"
      BY <1>1, <2>1, <2>2, <3>1 DEF LandDeck, Hears
    <3>2. CASE r # "off"
      <4>1. \A k \in AirSlots : l.exch[k].tag = 0 /\ l.exch[k].rx = None
        BY <2>2, <3>2 DEF Fresh, IdleSlot
      <4>2. Hears(l, L, clock[L].origin) /\ Unread(l) = {}
        BY <4>1 DEF Hears, Unread
      <4>3. QED
        BY <2>2, <4>2 DEF LandDeck, Lands
    <3>3. QED
      BY <3>1, <3>2
  <2>4. LandStep(L, d, c, l)
    BY <1>1, <2>1, <2>2, <2>3 DEF LandStep, Leads
  <2>5. QED
    BY <2>1, <2>4, LandMoves
<1>3. CASE PlayDeck(d)
  <2>1. UNCHANGED <<role, net>> /\ steady = TRUE /\ (role[d] = "follow" \/ clock[d].played # TRUE)
    BY <1>3, PlayDeckIs
  <2>2. PICK c : Moves(d, c, link[d]) /\ c.adopt = None /\ c.taken = None
    BY <1>3, PlayDeckIs
  <2>3. d # L
    BY <1>1, <2>1 DEF Leads
  <2>4. LandDeck(role[d], c, link[d], L, clock[L].origin)
    BY <1>1, <2>1, <2>2, StillLands DEF Moving
  <2>5. QED
    BY <2>1, <2>2, <2>3, <2>4, LandQuiet
<1>4. CASE StopDeck(d)
  <2>1. UNCHANGED <<role, net, steady>> /\ steady = TRUE
    BY <1>4, StopDeckIs
  <2>2. PICK c : /\ Moves(d, c, link[d]) /\ c.adopt = clock[d].adopt /\ ~Running(c)
                 /\ c.origin = clock[d].origin /\ c.taken = None /\ clock[d].taken = None
                 /\ c.played = clock[d].played
    BY <1>4, StopDeckIs
  <2>3. LandDeck(role[d], c, link[d], L, clock[L].origin)
    BY <1>1, <2>1, <2>2, StillLands DEF Moving
  <2>4. QED
    <3>1. d = L => c.origin = clock[L].origin /\ c.adopt = None /\ c.taken = None /\ c.played = TRUE
      BY <1>1, <2>1, <2>2 DEF Leads
    <3>2. QED
      BY <2>1, <2>2, <2>3, <3>1, LandQuiet
<1>5. CASE BpmOf(d)
  <2>1. UNCHANGED <<role, net>> /\ steady = TRUE
    BY <1>5, BpmOfIs
  <2>2. PICK c : Moves(d, c, link[d]) /\ KeptClock(c, clock[d]) /\ c.adopt = clock[d].adopt
    BY <1>5, BpmOfIs DEF KeptClock
  <2>3. QED
    BY <1>1, <2>1, <2>2, LandUnheard
<1>6. QED
    BY <1>2, <1>3, <1>4, <1>5 DEF Player

LEMMA LandRecvReply ==
    ASSUME EnsTyped, ExchInv, NEW L \in Decks, Ring <= 2 * Agree, LandInv(L), steady = TRUE,
           NEW d \in Decks, NEW p \in net, NEW how, RecvReply(d, p, how)
    PROVE  LandInv(L)'
<1>1. /\ role' = role /\ net' \subseteq net /\ link[d] \in LinkRecs /\ DeckExch(role[d], link[d])
      /\ Leads(L) /\ LandDeck(role[d], clock[d], link[d], L, clock[L].origin)
      /\ clock[L].origin \in Int
    BY RecvReplyIs, DecksTyped, ExchIs DEF LandInv, Clocks
<1>2. CASE NotPut(d)
    BY <1>1, <1>2, LandUnheard DEF NotPut
<1>3. p.kind = "reply" /\ p.origin \in Int /\ p.bpm \in Nat
    BY ReplySays
<1>4. p.origin = clock[L].origin
    BY <1>1, <1>3 DEF Leads
<1>5. CASE PutBy(d, p, how)
  <2>1. PICK s \in States, t \in States, k \in AirSlots :
            PutIn(d, p, k, s, t) /\ \E u \in Settle(t, k, how) : Moves(d, u.c, u.l)
    BY <1>5 DEF PutBy
  <2>2. PICK u \in Settle(t, k, how) : Moves(d, u.c, u.l)
    BY <2>1
  <2>3. DeckExch(role[d], t.l) /\ t.l.exch[k].uses = 0
    <3>1. PutIn(d, p, k, s, t)
      BY <2>1, Zenon
    <3>2. DeckExch(role[d], link[d])
      BY <1>1, Zenon
    <3>3. DeckExch(role[d], t.l) /\ Unused(t.l, k)
      BY <1>3, <3>1, <3>2, PutKeeps
    <3>4. QED
      BY <3>3 DEF Unused
  <2>4. LandDeck(role[d], s.c, s.l, L, clock[L].origin)
    BY <1>1, <2>1, UnheardLands DEF PutIn
  <2>5. /\ \A j \in AirSlots \ {k} : t.l.exch[j] = s.l.exch[j]
        /\ t.l.exch[k].tag = s.l.exch[k].tag /\ t.l.exch[k].uses = s.l.exch[k].uses
        /\ t.l.exch[k].rx.origin = clock[L].origin
    BY <1>3, <1>4, <2>1, PutSlots
  <2>6. SameSlots(t.l, s.l) /\ t.l.leader = s.l.leader /\ t.l.matched = s.l.matched /\ t.c = s.c
    BY <2>1, <2>5 DEF SameSlots, Kept, PutIn
  <2>7. Hears(t.l, L, clock[L].origin)
    BY <2>4, <2>5, <2>6 DEF Hears, LandDeck
  <2>8. Lands(s.c, s.l, L, clock[L].origin) => Lands(t.c, t.l, L, clock[L].origin)
    BY <2>6, LandsKept DEF KeptClock
  <2>9. LandDeck(role[d], t.c, t.l, L, clock[L].origin)
    BY <2>4, <2>6, <2>7, <2>8 DEF LandDeck
  <2>10. role[d] = "follow"
    BY <1>5 DEF PutBy
  <2>11. LandDeck(role[d], u.c, u.l, L, clock[L].origin)
    BY <1>1, <2>2, <2>3, <2>9, <2>10, SettleLands
  <2>12. u.l.leader = link[d].leader
    <3>1. Kept(u.l, t.l)
      BY SettleIs
    <3>2. QED
      BY <2>1, <2>6, <3>1 DEF Kept, PutIn
  <2>13. d # L
    BY <1>1, <2>10 DEF Leads
  <2>14. QED
    BY <1>1, <2>2, <2>11, <2>12, <2>13, LandQuiet
<1>6. QED
    BY <1>2, <1>5, RecvReplyIs

LEMMA LandSent ==
    ASSUME EnsTyped, ExchInv, NEW L \in Decks, Ring <= 2 * Agree, LandInv(L), steady = TRUE,
           NEW d \in Decks, NEW how, Sent(d, how)
    PROVE  LandInv(L)'
<1>1. /\ role' = role /\ net' = net /\ link[d] \in LinkRecs /\ clock[d] \in Clocks
      /\ DeckExch(role[d], link[d]) /\ link[d].owed # <<>>
      /\ Leads(L) /\ LandDeck(role[d], clock[d], link[d], L, clock[L].origin)
      /\ clock[L].origin \in Int /\ link[d].exch \in [AirSlots -> Slot]
      /\ link[d].leader \in {None, L}
    BY SentIs, DecksTyped, ExchIs DEF LandInv, Clocks, LinkRecs, Leads
<1>2. d # L
    BY <1>1 DEF Leads, DeckExch
<1>3. ASSUME NEW l, Moves(d, clock[d], l), Called(l, link[d]),
             \A k \in AirSlots : /\ l.exch[k].tag = link[d].exch[k].tag
                                 /\ l.exch[k].uses = link[d].exch[k].uses
                                 /\ l.exch[k].rx = link[d].exch[k].rx
      PROVE  LandInv(L)'
  <2>1. SameSlots(l, link[d]) /\ l.leader = link[d].leader /\ l.matched = link[d].matched
    BY <1>3 DEF SameSlots, Called
  <2>2. Hears(l, L, clock[L].origin)
    BY <1>1, <1>3, <2>1 DEF Hears, LandDeck
  <2>3. Lands(clock[d], link[d], L, clock[L].origin) => Lands(clock[d], l, L, clock[L].origin)
    BY <2>1, LandsKept DEF KeptClock
  <2>4. LandDeck(role[d], clock[d], l, L, clock[L].origin)
    BY <1>1, <2>1, <2>2, <2>3 DEF LandDeck
  <2>5. QED
    BY <1>1, <1>2, <1>3, <2>1, <2>4, LandQuiet
<1>4. ASSUME NEW l, Moves(d, clock[d], l), Called(l, link[d]), NEW k \in AirSlots,
             l.exch = [link[d].exch EXCEPT ![k] = [link[d].exch[k] EXCEPT !.lost = TRUE]]
      PROVE  LandInv(L)'
  <2>1. PICK e : e = [link[d].exch[k] EXCEPT !.lost = TRUE]
    OBVIOUS
  <2>2. link[d].exch[k] \in Slot
    BY <1>1
  <2>3. e.tag = link[d].exch[k].tag /\ e.rx = link[d].exch[k].rx /\ e.uses = link[d].exch[k].uses
    BY <2>1, <2>2 DEF Slot
  <2>4. \A j \in AirSlots : l.exch[j] = IF j = k THEN e ELSE link[d].exch[j]
    BY <1>1, <1>4, <2>1
  <2>5. \A j \in AirSlots : /\ l.exch[j].tag = link[d].exch[j].tag
                            /\ l.exch[j].uses = link[d].exch[j].uses
                            /\ l.exch[j].rx = link[d].exch[j].rx
    BY <2>3, <2>4
  <2>6. QED
    BY <1>3, <1>4, <2>5
<1>5. ASSUME role[d] = "follow", link[d].pend # <<>>, NEW t \in States, NEW k \in AirSlots,
             t.c = clock[d], Called(t.l, link[d]), t.l.pend = Tail(link[d].pend),
             t.l.exch = [link[d].exch EXCEPT ![k] =
                             [link[d].exch[k] EXCEPT !.air = Head(link[d].owed).tag]],
             link[d].exch[k].tag = Head(link[d].pend), link[d].exch[k].air = None,
             NEW u \in Settle(t, k, how), Moves(d, u.c, u.l)
      PROVE  LandInv(L)'
  <2>1. link[d].exch[k] \in Slot /\ link[d].exch[k].uses = 0 /\ link[d].exch[k].uses <= 1
    BY <1>1, <1>5 DEF DeckExch, ReadsOnce
  <2>2. PICK e : e = [link[d].exch[k] EXCEPT !.air = Head(link[d].owed).tag]
    OBVIOUS
  <2>3. /\ e.tag = link[d].exch[k].tag /\ e.air = Head(link[d].owed).tag /\ e.uses = 0
        /\ e.rx = link[d].exch[k].rx
    BY <2>1, <2>2 DEF Slot
  <2>4. \A j \in AirSlots : t.l.exch[j] = IF j = k THEN e ELSE link[d].exch[j]
    BY <1>1, <1>5, <2>2
  <2>5. DeckExch(role[d], t.l)
    <3>1. ReadsOnce(e)
      BY <2>3 DEF ReadsOnce
    <3>2. ASSUME link[d].matched PROVE OwnAir(e) /\ Matches(t.l)
      <4>1. Matches(link[d])
        BY <1>1, <1>5, <3>2 DEF DeckExch
      <4>2. Head(link[d].owed).tag = Head(link[d].pend) /\ Head(link[d].pend) # 0
            /\ Len(Tail(link[d].owed)) = Len(Tail(link[d].pend))
            /\ \A i \in 1 .. Len(Tail(link[d].pend)) : Tail(link[d].owed)[i].tag = Tail(link[d].pend)[i]
        BY <1>1, <1>5, <4>1, MatchHead
      <4>3. Matches(t.l)
        BY <1>5, <4>2 DEF Matches, Called
      <4>4. QED
        BY <1>5, <2>3, <4>2, <4>3 DEF OwnAir
    <3>3. QED
      BY <1>1, <1>5, <2>4, <3>1, <3>2 DEF DeckExch, Called
  <2>6. SameSlots(t.l, link[d]) /\ t.l.leader = link[d].leader /\ t.l.matched = link[d].matched
    BY <1>5, <2>1, <2>3, <2>4 DEF SameSlots, Called
  <2>7. Hears(t.l, L, clock[L].origin)
    BY <1>1, <2>1, <2>3, <2>4, <2>6 DEF Hears, LandDeck
  <2>8. Lands(clock[d], link[d], L, clock[L].origin) => Lands(t.c, t.l, L, clock[L].origin)
    BY <1>5, <2>6, LandsKept DEF KeptClock
  <2>9. LandDeck(role[d], t.c, t.l, L, clock[L].origin)
    BY <1>1, <1>5, <2>6, <2>7, <2>8 DEF LandDeck
  <2>10. t.l.exch[k].uses = 0
    BY <2>3, <2>4
  <2>11. LandDeck(role[d], u.c, u.l, L, clock[L].origin)
    BY <1>1, <1>5, <2>5, <2>9, <2>10, SettleLands
  <2>12. u.l.leader = link[d].leader
    <3>1. Kept(u.l, t.l)
      BY SettleIs
    <3>2. QED
      BY <2>6, <3>1 DEF Kept
  <2>13. QED
    BY <1>1, <1>2, <1>5, <2>11, <2>12, LandQuiet
<1>6. \/ /\ role[d] # "follow" \/ link[d].pend = <<>>
         /\ \E l : /\ Moves(d, clock[d], l) /\ Called(l, link[d])
                   /\ l.exch = link[d].exch /\ l.pend = link[d].pend
      \/ /\ role[d] = "follow" /\ link[d].pend # <<>>
         /\ \E l : /\ Moves(d, clock[d], l) /\ Called(l, link[d])
                   /\ \/ l.exch = link[d].exch
                      \/ \E k \in AirSlots : l.exch =
                             [link[d].exch EXCEPT ![k] = [link[d].exch[k] EXCEPT !.lost = TRUE]]
                   /\ l.pend = Tail(link[d].pend)
      \/ /\ role[d] = "follow" /\ link[d].pend # <<>>
         /\ \E t \in States, k \in AirSlots :
               /\ t.c = clock[d] /\ Called(t.l, link[d])
               /\ t.l.pend = Tail(link[d].pend)
               /\ t.l.exch = [link[d].exch EXCEPT ![k] =
                                  [link[d].exch[k] EXCEPT !.air = Head(link[d].owed).tag]]
               /\ link[d].exch[k].tag = Head(link[d].pend)
               /\ link[d].exch[k].air = None
               /\ \E u \in Settle(t, k, how) : Moves(d, u.c, u.l)
    BY SentIs
<1>7. CASE \E l : Moves(d, clock[d], l) /\ Called(l, link[d]) /\ l.exch = link[d].exch
    BY <1>3, <1>7
<1>8. QED
    BY <1>4, <1>5, <1>6, <1>7

LEMMA LandInit == ASSUME NEW L, OneLeads(L), EnsembleInit PROVE LandInv(L)
<1>1. /\ L \in Decks /\ First[L] = "lead" /\ \A d \in Decks \ {L} : First[d] # "lead"
      /\ role = First /\ net = {}
    BY DEF OneLeads, EnsembleInit
<1>2. \A d \in Decks : /\ clock[d].adopt = None /\ clock[d].taken = None
                       /\ link[d].leader = None
                       /\ link[d].exch = [k \in AirSlots |-> IdleSlot]
    BY DEF EnsembleInit
<1>3. clock[L].played = TRUE
    BY <1>1 DEF EnsembleInit
<1>4. \A d \in Decks, k \in AirSlots : link[d].exch[k].tag = 0 /\ link[d].exch[k].rx = None
    BY <1>2 DEF IdleSlot
<1>5. Leads(L)
    BY <1>1, <1>2, <1>3 DEF Leads
<1>6. \A d \in Decks : Hears(link[d], L, clock[L].origin) /\ Unread(link[d]) = {}
    BY <1>4 DEF Hears, Unread
<1>7. \A d \in Decks : LandDeck(role[d], clock[d], link[d], L, clock[L].origin)
    BY <1>2, <1>6 DEF LandDeck, Lands
<1>8. QED
    BY <1>5, <1>7 DEF LandInv

LEMMA SendsLed ==
    ASSUME NEW L \in Decks, Leads(L), NEW d \in Decks, Sends(d, net')
    PROVE  \A p \in net' : p.kind # "probe" => p.from = L /\ p.origin = clock[L].origin
    BY DEF Leads, Sends

LEMMA LandNext ==
    ASSUME EnsTyped, ExchInv, NEW L, OneLeads(L), LandInv(L), EnsembleNext
    PROVE  LandInv(L)'
<1> SUFFICES ASSUME steady' = TRUE PROVE LandInv(L)'
    BY DEF LandInv
<1> PICK d \in Decks : Player(d) \/ Radio(d) \/ Loop(d) \/ DeckTimer(d)
    BY DEF EnsembleNext
<1>0. L \in Decks /\ Ring <= 2 * Agree
    BY DEF OneLeads
<1>1. CASE Player(d)
    BY <1>0, <1>1, LandPlayer
<1>2. ASSUME steady = TRUE
      PROVE  Leads(L) /\ LandDeck(role[d], clock[d], link[d], L, clock[L].origin)
             /\ \A x \in Decks : LandDeck(role[x], clock[x], link[x], L, clock[L].origin)
    BY <1>2 DEF LandInv
<1>3. CASE Radio(d)
  <2>1. ASSUME NEW p \in net, RecvBeacon(d, p) PROVE LandInv(L)'
    <3>1. UNCHANGED <<role, steady>> /\ net' \subseteq net /\ steady = TRUE /\ p.kind = "beacon"
      BY <2>1, RecvBeaconIs
    <3>2. p.from = L
      BY <1>2, <3>1 DEF Leads
    <3>3. PICK c, l : /\ Moves(d, c, l) /\ KeptClock(c, clock[d])
                      /\ c.adopt \in {clock[d].adopt, None}
                      /\ Unheard(l, link[d]) /\ l.leader \in {link[d].leader, L}
      BY <2>1, <3>2, RecvBeaconIs
    <3>4. QED
      BY <1>0, <3>1, <3>3, LandUnheard
  <2>2. ASSUME NEW p \in net, RecvProbe(d, p) PROVE LandInv(L)'
    <3>1. UNCHANGED <<role, steady>> /\ net' \subseteq net /\ steady = TRUE
      BY <2>2, RecvProbeIs
    <3>2. PICK l : Moves(d, clock[d], l) /\ Unheard(l, link[d]) /\ l.leader = link[d].leader
      BY <2>2, RecvProbeIs
    <3>3. QED
      BY <1>0, <3>1, <3>2, LandUnheard DEF KeptClock
  <2>3. ASSUME NEW p \in net, NEW how, RecvReply(d, p, how) PROVE LandInv(L)'
    <3>1. steady = TRUE
      BY <2>3, RecvReplyIs
    <3>2. QED
      BY <1>0, <2>3, <3>1, LandRecvReply
  <2>4. ASSUME NEW how, Sent(d, how) PROVE LandInv(L)'
    <3>1. steady = TRUE
      BY <2>4, SentIs
    <3>2. QED
      BY <1>0, <2>4, <3>1, LandSent
  <2>5. QED
    BY <1>3, <2>1, <2>2, <2>3, <2>4 DEF Radio
<1>4. CASE Loop(d)
  <2>1. ASSUME NEW f, Beacon(d, f) PROVE LandInv(L)'
    <3>1. UNCHANGED <<role, clock, link, steady>> /\ Sends(d, net') /\ steady = TRUE
      BY <2>1, BeaconIs
    <3>2. \A p \in net' : p.kind # "probe" => p.from = L /\ p.origin = clock[L].origin
      BY <1>0, <1>2, <3>1, SendsLed
    <3>3. Leads(L)'
      BY <1>2, <3>1, <3>2 DEF Leads
    <3>4. QED
      BY <1>2, <3>1, <3>3 DEF LandInv
  <2>2. ASSUME NEW f, Answer(d, f) PROVE LandInv(L)'
    <3>1. UNCHANGED <<role, steady>> /\ Sends(d, net') /\ steady = TRUE
      BY <2>2, AnswerIs
    <3>2. PICK l : Moves(d, clock[d], l) /\ Unheard(l, link[d]) /\ l.leader = link[d].leader
      BY <2>2, AnswerIs
    <3>3. LandDeck(role[d], clock[d], l, L, clock[L].origin)
      BY <1>2, <3>1, <3>2, UnheardLands DEF KeptClock
    <3>4. \A p \in net' : p.kind # "probe" => p.from = L /\ p.origin = clock[L].origin
      BY <1>0, <1>2, <3>1, SendsLed
    <3>5. LandStep(L, d, clock[d], l)
      BY <1>2, <3>1, <3>2, <3>3, <3>4 DEF LandStep, Leads
    <3>6. QED
      BY <1>0, <3>1, <3>5, LandMoves
  <2>3. ASSUME NEW f, Probe(d, f) PROVE LandInv(L)'
    <3>1. /\ UNCHANGED <<role, clock, steady>> /\ Sends(d, net') /\ role[d] = "follow"
          /\ link[d].leader # None /\ Ticked(clock[d]) /\ steady = TRUE
      BY <2>3, ProbeIs
    <3>2. PICK l : \E k \in AirSlots, t \in Nat \ {0} :
            /\ Moves(d, clock[d], l)
            /\ l.exch = [link[d].exch EXCEPT ![k] = [IdleSlot EXCEPT !.tag = t]]
            /\ l.last = link[d].last /\ l.same = link[d].same /\ l.leader = link[d].leader
            /\ (l.matched => /\ link[d].matched /\ l.pend = Append(link[d].pend, t)
                             /\ \E a : l.owed = Append(link[d].owed, a) /\ a.tag = t)
      BY <2>3, ProbeIs, Zenon
    <3>3. PICK k \in AirSlots, t \in Nat \ {0} :
            /\ Moves(d, clock[d], l)
            /\ l.exch = [link[d].exch EXCEPT ![k] = [IdleSlot EXCEPT !.tag = t]]
            /\ l.leader = link[d].leader /\ (l.matched => link[d].matched)
      BY <3>2
    <3>4. PICK e : e = [IdleSlot EXCEPT !.tag = t]
      OBVIOUS
    <3>5. e.rx = None
      <4>1. t \in Nat
        BY <3>3
      <4>2. QED
        BY <3>4, <4>1, IdleIs
    <3>6. link[d].exch \in [AirSlots -> Slot]
      BY DecksTyped, SlotFields DEF LinkRecs
    <3>7. \A j \in AirSlots : l.exch[j] = IF j = k THEN e ELSE link[d].exch[j]
      BY <3>3, <3>4, <3>6
    <3>8. l.leader = L
      BY <1>2, <3>1, <3>3 DEF Leads
    <3>9. Hears(l, L, clock[L].origin)
      BY <1>2, <3>1, <3>5, <3>7, <3>8 DEF Hears, LandDeck
    <3>10. ~Moving(clock[d])
      BY <3>1 DEF Ticked, Moving
    <3>11. LandDeck(role[d], clock[d], l, L, clock[L].origin)
      BY <1>2, <3>1, <3>3, <3>8, <3>9, <3>10 DEF LandDeck, Lands
    <3>12. \A p \in net' : p.kind # "probe" => p.from = L /\ p.origin = clock[L].origin
      BY <1>0, <1>2, <3>1, SendsLed
    <3>13. LandStep(L, d, clock[d], l)
      BY <1>2, <3>1, <3>3, <3>8, <3>11, <3>12 DEF LandStep, Leads
    <3>14. QED
      BY <1>0, <3>1, <3>13, LandMoves
  <2>4. QED
    BY <1>4, <2>1, <2>2, <2>3 DEF Loop
<1>5. CASE DeckTimer(d)
  <2>1. CASE DeckTick(d)
    <3>1. UNCHANGED <<role, net, steady>> /\ steady = TRUE /\ clock[d].taken = None
      BY <2>1, DeckTickIs
    <3>2. PICK c : /\ Moves(d, c, link[d]) /\ c.play = "playing"
                   /\ c.origin = clock[d].origin /\ c.adopt = None
                   /\ c.taken = clock[d].adopt /\ c.played = clock[d].played
                   /\ clock[d].adopt # None => Running(clock[d])
      BY <2>1, DeckTickIs
    <3>3. Moving(c) => Moving(clock[d])
      BY <3>2 DEF Moving
    <3>4. LandDeck(role[d], c, link[d], L, clock[L].origin)
      BY <1>2, <3>1, <3>2, <3>3 DEF LandDeck, Lands
    <3>5. d = L => c.origin = clock[L].origin /\ c.adopt = None /\ c.taken = None /\ c.played = TRUE
      BY <1>2, <3>1, <3>2 DEF Leads
    <3>6. QED
      BY <1>0, <3>1, <3>2, <3>4, <3>5, LandQuiet
  <2>2. CASE RenumberBars(d)
    <3>1. UNCHANGED <<role, net, steady>> /\ steady = TRUE /\ clock[d].taken # None
      BY <2>2, RenumberBarsIs
    <3>2. PICK c : Moves(d, c, link[d]) /\ c.adopt = clock[d].adopt /\ c.taken = None
                   /\ c.play = clock[d].play
      BY <2>2, RenumberBarsIs
    <3>3. d # L
      BY <1>2, <3>1 DEF Leads
    <3>4. LandDeck(role[d], c, link[d], L, clock[L].origin)
      BY <1>2, <3>1, <3>2 DEF LandDeck, Lands, Moving
    <3>5. QED
      BY <1>0, <3>1, <3>2, <3>3, <3>4, LandQuiet
  <2>3. CASE WaitedLong(d)
    <3>1. UNCHANGED <<role, net, steady>> /\ steady = TRUE
      BY <2>3, WaitedLongIs
    <3>2. PICK c : Moves(d, c, link[d]) /\ KeptClock(c, clock[d]) /\ c.adopt = clock[d].adopt
      BY <2>3, WaitedLongIs
    <3>3. Unheard(link[d], link[d])
      BY DEF Unheard
    <3>4. QED
      BY <1>0, <3>1, <3>2, <3>3, LandUnheard
  <2>4. QED
    BY <1>5, <2>1, <2>2, <2>3 DEF DeckTimer
<1>6. QED
    BY <1>1, <1>3, <1>4, <1>5

LEMMA LandStays == ASSUME NEW L, LandInv(L), UNCHANGED ensembleVars PROVE LandInv(L)'
    BY DEF LandInv, Leads, ensembleVars

(***************************************************************************)
(* While one deck leads and keeps its count, a move that a follower asks   *)
(* of its clock (seq_adopt()) ends on the leader's count, and is not asked *)
(* for again while the tick still owes it: the ring has too few exchanges  *)
(* to bring the answers that would agree on a second one.                  *)
(***************************************************************************)
THEOREM FollowersLandOnTheLeader ==
    ASSUME NEW CONSTANT L, OneLeads(L)
    PROVE  EnsembleSpec => []LandsOnLeader
<1>1. EnsembleInit => LandInv(L)
    BY LandInit
<1>2. LandInv(L) /\ EnsTyped /\ ExchInv /\ [EnsembleNext]_ensembleVars => LandInv(L)'
    BY LandNext, LandStays
<1>3. EnsembleSpec => []LandInv(L)
    BY <1>1, <1>2, EnsInvariant, PTL DEF EnsembleSpec
<1>4. ASSUME LandInv(L), EnsTyped PROVE LandsOnLeader
  <2>1. SUFFICES ASSUME NEW d \in Decks, steady, role[d] = "follow", link[d].matched,
                        clock[d].adopt # None
                 PROVE  clock[d].origin + (IF clock[d].taken = None THEN 0 ELSE clock[d].taken)
                        + clock[d].adopt = clock[link[d].leader].origin
    BY DEF LandsOnLeader
  <2>2. steady = TRUE
    BY <1>4, <2>1 DEF EnsTyped
  <2>3. Lands(clock[d], link[d], L, clock[L].origin)
    BY <1>4, <2>1, <2>2 DEF LandInv, LandDeck
  <2>4. /\ clock[d].taken = None /\ clock[d].origin + clock[d].adopt = clock[L].origin
        /\ link[d].leader = L /\ clock[d].origin \in Int
    BY <1>4, <2>1, <2>3, DecksTyped DEF Lands, Clocks
  <2>5. QED
    BY <2>4
<1>5. QED
    BY <1>3, <1>4, EnsInvariant, PTL

(***************************************************************************)
(* The ticks that start a lane's slots.  All turns on two roundings: slot  *)
(* n starts on the nearest tick to its share of the bar, n * Q / D, and    *)
(* the slot looked for on a tick is the last whose start is by then        *)
(* (StartedBy); a swung slot is never as late as the next slot's start     *)
(* (BeforeTheNext), as the swing is at most half a sixteenth.              *)
(***************************************************************************)
(* Roundings of shares of the bar.                                           *)
LEMMA DivIs ==
    ASSUME NEW a \in Int, NEW n \in Nat \ {0}
    PROVE  a \div n \in Int /\ n * (a \div n) <= a /\ a < n * (a \div n) + n
    OBVIOUS
LEMMA MoreTimes ==
    ASSUME NEW a \in Int, NEW b \in Int, a < b, NEW n \in Nat \ {0}
    PROVE  n * a + n <= n * b
    OBVIOUS

LEMMA TwoLeast ==
    ASSUME NEW a \in Int, NEW b \in Int, a <= b
    PROVE  Min({a, b}) = a /\ Min({b, a}) = a /\ Max({a, b}) = b /\ Max({b, a}) = b
<1>1. {b, a} = {a, b}
    OBVIOUS
<1>2. \A x \in {a, b} : a <= x /\ x <= b
    OBVIOUS
<1>3. Min({a, b}) = a
  <2>1. \A z \in {a, b} : (\A y \in {a, b} : z <= y) => z = a
      OBVIOUS
  <2>2. a \in {a, b} /\ \A y \in {a, b} : a <= y
      BY <1>2
  <2>3. QED
      BY <2>1, <2>2 DEF Min
<1>4. Max({a, b}) = b
  <2>1. \A z \in {a, b} : (\A y \in {a, b} : z >= y) => z = b
      OBVIOUS
  <2>2. b \in {a, b} /\ \A y \in {a, b} : b >= y
      BY <1>2
  <2>3. QED
      BY <2>1, <2>2 DEF Max
<1>5. QED
    BY <1>1, <1>3, <1>4

LEMMA UpTimes ==
    ASSUME NEW a \in Int, NEW b \in Int, NEW n \in Nat \ {0}
    PROVE  (n * a <= n * b <=> a <= b) /\ (n * a < n * b <=> a < b)
<1>1. n * a \in Int /\ n * b \in Int
    OBVIOUS
<1>2. a < b => n * a + n <= n * b
    BY MoreTimes
<1>3. b < a => n * b + n <= n * a
    BY MoreTimes
<1>4. QED
    BY <1>1, <1>2, <1>3

\* A grid the compiler takes: no more slots in a bar than ticks.
Fit(g) == /\ D(g) \in Nat \ {0} /\ Q(g) \in Nat \ {0} /\ D(g) <= Q(g)
          /\ g.slots \in Nat \ {0} /\ g.count \in Nat

LEMMA StartIs ==
    ASSUME NEW g, Fit(g), NEW n \in Int
    PROVE  /\ Start(g, n) \in Int /\ D(g) * Start(g, n) \in Int /\ n * Q(g) \in Int
           /\ 2 * (D(g) * Start(g, n)) <= 2 * (n * Q(g)) + D(g)
           /\ 2 * (n * Q(g)) + D(g) < 2 * (D(g) * Start(g, n)) + 2 * D(g)
<1>1. PICK q, d, x, s : q = Q(g) /\ d = D(g) /\ x = n * q /\ s = (2 * n * q + d) \div (2 * d)
    OBVIOUS
<1>2. q \in Nat \ {0} /\ d \in Nat \ {0} /\ x \in Int
    BY <1>1 DEF Fit
<1>3. 2 * n * q + d = 2 * x + d /\ 2 * x + d \in Int /\ 2 * d \in Nat \ {0}
    BY <1>1, <1>2
<1>4. s = (2 * x + d) \div (2 * d)
    BY <1>1, <1>3
<1>5. s \in Int /\ (2 * d) * s <= 2 * x + d /\ 2 * x + d < (2 * d) * s + 2 * d
    BY <1>3, <1>4, DivIs
<1>6. (2 * d) * s = 2 * (d * s) /\ d * s \in Int
    BY <1>2, <1>5
<1>7. Start(g, n) = s
    BY <1>1 DEF Start
<1>8. QED
    BY <1>1, <1>2, <1>5, <1>6, <1>7

LEMMA LastIs ==
    ASSUME NEW g, Fit(g), NEW t \in Int
    PROVE  /\ LastStarted(g, t) \in Int /\ Q(g) * LastStarted(g, t) \in Int /\ D(g) * t \in Int
           /\ 2 * (Q(g) * LastStarted(g, t)) < 2 * (D(g) * t) + D(g)
           /\ 2 * (D(g) * t) + D(g) <= 2 * (Q(g) * LastStarted(g, t)) + 2 * Q(g)
<1>1. PICK q, d, y, n : q = Q(g) /\ d = D(g) /\ y = d * t /\ n = (d * (2 * t + 1) - 1) \div (2 * q)
    OBVIOUS
<1>2. q \in Nat \ {0} /\ d \in Nat \ {0} /\ y \in Int
    BY <1>1 DEF Fit
<1>3. d * (2 * t + 1) - 1 = 2 * y + d - 1 /\ 2 * y + d - 1 \in Int /\ 2 * q \in Nat \ {0}
    BY <1>1, <1>2
<1>4. n = (2 * y + d - 1) \div (2 * q)
    BY <1>1, <1>3
<1>5. n \in Int /\ (2 * q) * n <= 2 * y + d - 1 /\ 2 * y + d - 1 < (2 * q) * n + 2 * q
    BY <1>3, <1>4, DivIs
<1>6. (2 * q) * n = 2 * (q * n) /\ q * n \in Int
    BY <1>2, <1>5
<1>7. LastStarted(g, t) = n
    BY <1>1 DEF LastStarted
<1>8. 2 * (q * n) < 2 * y + d /\ 2 * y + d <= 2 * (q * n) + 2 * q
    BY <1>2, <1>5, <1>6
<1>9. QED
    BY <1>1, <1>2, <1>5, <1>6, <1>7, <1>8

\* A slot has started by a tick exactly when it is no later than the last that has.
LEMMA StartedBy ==
    ASSUME NEW g, Fit(g), NEW n \in Int, NEW t \in Int
    PROVE  Start(g, n) <= t <=> n <= LastStarted(g, t)
<1>1. PICK q, d, s, m : q = Q(g) /\ d = D(g) /\ s = Start(g, n) /\ m = LastStarted(g, t)
    OBVIOUS
<1>2. q \in Nat \ {0} /\ d \in Nat \ {0} /\ s \in Int /\ m \in Int
    BY <1>1, StartIs, LastIs DEF Fit
<1>3. PICK x, y, z, u : x = n * q /\ y = d * s /\ z = q * m /\ u = d * t
    OBVIOUS
<1>4. /\ x \in Int /\ y \in Int /\ z \in Int /\ u \in Int
      /\ 2 * y <= 2 * x + d /\ 2 * x + d < 2 * y + 2 * d
      /\ 2 * z < 2 * u + d /\ 2 * u + d <= 2 * z + 2 * q
    BY <1>1, <1>3, StartIs, LastIs
<1>5. ASSUME s <= t PROVE n <= m
  <2>1. y <= u
      BY <1>2, <1>3, <1>5, UpTimes
  <2>2. x < z + q
      BY <1>2, <1>4, <2>1
  <2>3. q * n < q * (m + 1)
      BY <1>2, <1>3, <2>2
  <2>4. n < m + 1
    <3>1. m + 1 \in Int
        BY <1>2
    <3>2. QED
        BY <1>2, <2>3, <3>1, UpTimes
  <2>5. QED
      BY <1>2, <2>4
<1>6. ASSUME ~(s <= t) PROVE ~(n <= m)
  <2>1. t + 1 <= s /\ t + 1 \in Int
      BY <1>2, <1>6
  <2>2. d * (t + 1) <= y
      BY <1>2, <1>3, <2>1, UpTimes
  <2>3. u + d <= y
      BY <1>2, <1>3, <2>2
  <2>4. z < x
      BY <1>2, <1>4, <2>3
  <2>5. q * m < q * n
      BY <1>2, <1>3, <2>4
  <2>6. m < n
      BY <1>2, <2>5, UpTimes
  <2>7. QED
      BY <1>2, <2>6
<1>7. QED
    BY <1>1, <1>5, <1>6

LEMMA StartsUp ==
    ASSUME NEW g, Fit(g), NEW n \in Int, NEW m \in Int, n <= m
    PROVE  Start(g, n) <= Start(g, m)
<1>1. Start(g, m) \in Int /\ Start(g, n) \in Int
    BY StartIs
<1>2. m <= LastStarted(g, Start(g, m)) /\ LastStarted(g, Start(g, m)) \in Int
    BY <1>1, StartedBy, LastIs
<1>3. n <= LastStarted(g, Start(g, m))
    BY <1>2
<1>4. QED
    BY <1>1, <1>3, StartedBy

LEMMA LastUp ==
    ASSUME NEW g, Fit(g), NEW t \in Int, NEW u \in Int, t <= u
    PROVE  LastStarted(g, t) <= LastStarted(g, u)
<1>1. PICK m : m = LastStarted(g, t)
    OBVIOUS
<1>2. m \in Int /\ m <= m
    BY <1>1, LastIs
<1>3. Start(g, m) <= t /\ Start(g, m) \in Int
    BY <1>1, <1>2, StartedBy, StartIs
<1>4. Start(g, m) <= u
    BY <1>3
<1>5. QED
    BY <1>1, <1>2, <1>4, StartedBy

LEMMA SwingIs ==
    ASSUME NEW s \in 50 .. 75
    PROVE  SwingTicks(s) \in Nat /\ 2 * SwingTicks(s) <= StepTicks
<1>1. PICK k, d, a : k = StepTicks /\ d = (s * 2 * StepTicks) \div 100 /\ a = Min({d - k, k - 2})
    OBVIOUS
<1>2. k \in Nat \ {0}
    BY <1>1, GridAssumption
<1>3. k * s <= k * 75 /\ k * s \in Int
    BY <1>2, UpTimes
<1>4. d = (2 * (k * s)) \div 100
  <2>1. s * 2 * k = 2 * (k * s)
      BY <1>2
  <2>2. QED
      BY <1>1, <2>1
<1>5. d \in Int /\ 100 * d <= 2 * (k * s)
  <2>1. 2 * (k * s) \in Int
      BY <1>3
  <2>2. QED
      BY <1>4, <2>1
<1>6. 2 * (d - k) <= k
  <2>1. 100 * d <= 150 * k
      BY <1>2, <1>3, <1>5
  <2>2. QED
      BY <1>2, <1>5, <2>1
<1>7. a \in Int /\ a <= d - k
  <2>1. d - k \in Int /\ k - 2 \in Int
      BY <1>2, <1>5
  <2>2. PICK x, y : x = d - k /\ y = k - 2
      OBVIOUS
  <2>3. x \in Int /\ y \in Int /\ a = Min({x, y})
      BY <1>1, <2>1, <2>2
  <2>4. CASE x <= y
      BY <2>2, <2>3, <2>4, TwoLeast
  <2>5. CASE y <= x
      BY <2>2, <2>3, <2>5, TwoLeast
  <2>6. QED
      BY <2>3, <2>4, <2>5
<1>8. SwingTicks(s) = Max({0, a})
    BY <1>1 DEF SwingTicks
<1>9. CASE 0 <= a
  <2>1. SwingTicks(s) = a
      BY <1>7, <1>8, <1>9, TwoLeast
  <2>2. QED
      BY <1>1, <1>2, <1>5, <1>6, <1>7, <1>9, <2>1
<1>10. CASE a <= 0
  <2>1. SwingTicks(s) = 0
      BY <1>7, <1>8, <1>10, TwoLeast
  <2>2. QED
      BY <1>1, <1>2, <2>1
<1>11. QED
    BY <1>7, <1>9, <1>10

LEMMA ShareIs ==
    ASSUME NEW k \in Nat \ {0}, NEW d \in Nat \ {0}, NEW q \in Nat \ {0}, NEW w \in Nat, 2 * w <= k
    PROVE  LET v == (w * q) \div (k * d)
           IN /\ v \in Nat /\ d * v \in Int /\ 2 * (d * v) <= q
              /\ k * (d * v) <= w * q /\ w * q < k * (d * v) + k * d
<1>1. PICK v, x, y : v = (w * q) \div (k * d) /\ x = w * q /\ y = k * d
    OBVIOUS
<1>2. x \in Nat /\ y \in Nat \ {0}
  <2>1. k * 1 <= k * d
      BY UpTimes
  <2>2. q * 0 <= q * w
      BY UpTimes
  <2>3. QED
      BY <1>1, <2>1, <2>2
<1>3. v \in Int /\ y * v <= x /\ x < y * v + y
  <2>1. v = x \div y /\ x \in Int
      BY <1>1, <1>2
  <2>2. QED
      BY <1>2, <2>1, DivIs
<1>4. d * v \in Int /\ y * v = k * (d * v)
  <2>1. d * v \in Int /\ (k * d) * v = k * (d * v)
      BY <1>3
  <2>2. QED
      BY <1>1, <2>1
<1>5. 0 <= v
  <2>1. SUFFICES ASSUME v < 0 PROVE FALSE
      BY <1>3
  <2>2. y * v + y <= y * 0
      BY <1>2, <1>3, <2>1, MoreTimes
  <2>3. y * v \in Int
      BY <1>2, <1>3
  <2>4. QED
      BY <1>2, <1>3, <2>2, <2>3
<1>6. 2 * (d * v) <= q
  <2>1. PICK z : z = d * v
      OBVIOUS
  <2>2. z \in Int /\ k * z <= x /\ k * z \in Int
      BY <1>3, <1>4, <2>1
  <2>3. q * (2 * w) <= q * k
      BY UpTimes
  <2>4. 2 * x <= k * q
      BY <1>1, <2>3
  <2>5. k * (2 * z) <= k * q
    <3>1. k * (2 * z) = 2 * (k * z) /\ k * q \in Int
        BY <2>2
    <3>2. QED
        BY <1>2, <2>2, <2>4, <3>1
  <2>6. 2 * z <= q
    <3>1. 2 * z \in Int
        BY <2>2
    <3>2. QED
        BY <2>5, <3>1, UpTimes
  <2>7. QED
      BY <2>1, <2>6
<1>7. QED
    BY <1>1, <1>3, <1>4, <1>5, <1>6

\* The swing moves an odd slot, and never as far as the next one.
LEMMA DelayIs ==
    ASSUME NEW g, Fit(g), NEW n \in Nat, NEW s \in 50 .. 75
    PROVE  /\ Delay(g, n, s) \in Nat /\ (n % 2 = 0 => Delay(g, n, s) = 0)
           /\ D(g) * Delay(g, n, s) \in Int /\ 2 * (D(g) * Delay(g, n, s)) <= Q(g)
           /\ n % 2 = 1 => /\ StepTicks * (D(g) * Delay(g, n, s)) <= SwingTicks(s) * Q(g)
                           /\ SwingTicks(s) * Q(g) < StepTicks * (D(g) * Delay(g, n, s)) + StepTicks * D(g)
<1>1. PICK k, d, q, w : k = StepTicks /\ d = D(g) /\ q = Q(g) /\ w = SwingTicks(s)
    OBVIOUS
<1>2. k \in Nat \ {0} /\ d \in Nat \ {0} /\ q \in Nat \ {0} /\ w \in Nat /\ 2 * w <= k
    BY <1>1, SwingIs, GridAssumption DEF Fit
<1>3. CASE n % 2 = 1
  <2>1. PICK v : v = (w * q) \div (k * d)
      OBVIOUS
  <2>2. /\ v \in Nat /\ d * v \in Int /\ 2 * (d * v) <= q
        /\ k * (d * v) <= w * q /\ w * q < k * (d * v) + k * d
      BY <1>2, <2>1, ShareIs
  <2>3. Delay(g, n, s) = v
      BY <1>1, <1>3, <2>1 DEF Delay
  <2>4. QED
      BY <1>1, <1>3, <2>2, <2>3
<1>4. CASE n % 2 # 1
  <2>1. Delay(g, n, s) = 0
      BY <1>4 DEF Delay
  <2>2. d * 0 = 0 /\ 2 * 0 <= q
      BY <1>2
  <2>3. QED
      BY <1>1, <1>4, <2>1, <2>2
<1>5. QED
    BY <1>3, <1>4

LEMMA BeforeTheNext ==
    ASSUME NEW g, Fit(g), NEW n \in Nat, NEW s \in 50 .. 75
    PROVE  Start(g, n) + Delay(g, n, s) < Start(g, n + 1)
<1>1. PICK d, q, a, b, v : d = D(g) /\ q = Q(g) /\ a = Start(g, n) /\ b = Start(g, n + 1) /\ v = Delay(g, n, s)
    OBVIOUS
<1>2. d \in Nat \ {0} /\ q \in Nat \ {0} /\ d <= q /\ n + 1 \in Int
    BY <1>1 DEF Fit
<1>3. PICK x, y, z, u : x = n * q /\ y = d * a /\ z = d * b /\ u = d * v
    OBVIOUS
<1>4. (n + 1) * q = x + q
    BY <1>2, <1>3
<1>5. /\ a \in Int /\ y \in Int /\ x \in Int /\ 2 * y <= 2 * x + d
      /\ b \in Int /\ z \in Int /\ 2 * (x + q) + d < 2 * z + 2 * d
    BY <1>1, <1>2, <1>3, <1>4, StartIs
<1>6. v \in Nat /\ u \in Int /\ 2 * u <= q
    BY <1>1, <1>2, <1>3, DelayIs
<1>7. q - d < z - y
    BY <1>2, <1>5
<1>8. z - y = d * (b - a) /\ b - a \in Int
    BY <1>2, <1>3, <1>5
<1>9. PICK e : e = b - a
    OBVIOUS
<1>10. e \in Int /\ q < d * e + d /\ d * e \in Int
    BY <1>2, <1>5, <1>7, <1>8, <1>9
<1>11. 1 <= e
  <2>1. SUFFICES ASSUME e < 1 PROVE FALSE
      BY <1>10
  <2>2. d * e + d <= d * 1
      BY <1>2, <1>10, <2>1, MoreTimes
  <2>3. QED
      BY <1>2, <1>10, <2>2
<1>12. v < e
  <2>1. SUFFICES ASSUME e <= v PROVE FALSE
      BY <1>6, <1>10
  <2>2. e + 1 <= 2 * v /\ e + 1 \in Int /\ 2 * v \in Int
      BY <1>6, <1>10, <1>11, <2>1
  <2>3. d * (e + 1) <= d * (2 * v)
      BY <1>2, <2>2, UpTimes
  <2>4. d * (e + 1) = d * e + d /\ d * (2 * v) = 2 * u
      BY <1>2, <1>3, <1>6, <1>10
  <2>5. QED
      BY <1>2, <1>6, <1>10, <2>3, <2>4
<1>13. QED
    BY <1>1, <1>5, <1>6, <1>9, <1>12

LEMMA OverIs ==
    ASSUME NEW a \in Int, NEW n \in Nat \ {0}, NEW m \in Int
    PROVE  a \div n >= m <=> n * m <= a
<1>1. PICK q : q = a \div n
    OBVIOUS
<1>2. q \in Int /\ n * q <= a /\ a < n * q + n
    BY <1>1, DivIs
<1>3. n * q \in Int /\ n * m \in Int /\ n * (q + 1) = n * q + n /\ q + 1 \in Int
    BY <1>2
<1>4. m <= q <=> n * m <= n * q
    BY <1>2, UpTimes
<1>5. n * m < n * (q + 1) <=> m < q + 1
    BY <1>2, <1>3, UpTimes
<1>6. QED
    BY <1>1, <1>2, <1>3, <1>4, <1>5

LEMMA FromTheStart ==
    ASSUME NEW g, Fit(g), NEW t \in Nat
    PROVE  LastStarted(g, t) \in Nat
<1>1. PICK d, s : d = D(g) /\ s = Start(g, 0)
    OBVIOUS
<1>2. d \in Nat \ {0} /\ Q(g) \in Nat
    BY <1>1 DEF Fit
<1>3. s \in Int /\ d * s \in Int /\ 2 * (d * s) <= 2 * (0 * Q(g)) + d
    BY <1>1, StartIs
<1>4. 0 * Q(g) = 0
    BY <1>2
<1>5. s <= 0
  <2>1. SUFFICES ASSUME 0 < s PROVE FALSE
      BY <1>3
  <2>2. d * 0 + d <= d * s
      BY <1>2, <1>3, <2>1, MoreTimes
  <2>3. QED
      BY <1>2, <1>3, <1>4, <2>2
<1>6. Start(g, 0) <= t
    BY <1>1, <1>3, <1>5
<1>7. 0 <= LastStarted(g, t)
    BY <1>6, StartedBy
<1>8. QED
    BY <1>7, LastIs

LEMMA SlotTimes ==
    ASSUME NEW g, Fit(g), NEW n \in Nat, NEW s \in 50 .. 75
    PROVE  /\ Start(g, n) \in Int /\ Delay(g, n, s) \in Nat /\ (n % 2 = 0 => Delay(g, n, s) = 0)
           /\ Start(g, n + 1) \in Int /\ Start(g, n) + Delay(g, n, s) < Start(g, n + 1)
<1>1. n \in Int /\ n + 1 \in Int
    OBVIOUS
<1>2. Start(g, n) \in Int /\ Start(g, n + 1) \in Int
    BY <1>1, StartIs
<1>3. Delay(g, n, s) \in Nat /\ (n % 2 = 0 => Delay(g, n, s) = 0)
    BY DelayIs
<1>4. QED
    BY <1>2, <1>3, BeforeTheNext

\* A slot that starts on a tick is the last started by it, and the other way round.
LEMMA SlotAtIs ==
    ASSUME NEW g, Fit(g), NEW n \in Nat, NEW s \in 50 .. 75, NEW t \in Int,
           t = Start(g, n) + Delay(g, n, s)
    PROVE  LastStarted(g, t) = n /\ SlotAt(g, t, s)
<1>1. PICK a, b, v, m : a = Start(g, n) /\ b = Start(g, n + 1) /\ v = Delay(g, n, s) /\ m = LastStarted(g, t)
    OBVIOUS
<1>2. n \in Int /\ n + 1 \in Int
    OBVIOUS
<1>3. a \in Int /\ b \in Int /\ v \in Nat /\ a + v < b /\ m \in Int
    BY <1>1, <1>2, StartIs, DelayIs, BeforeTheNext, LastIs
<1>4. a <= t <=> n <= m
    BY <1>1, <1>2, StartedBy
<1>5. b <= t <=> n + 1 <= m
    BY <1>1, <1>2, StartedBy
<1>6. n <= m /\ ~(n + 1 <= m)
    BY <1>1, <1>3, <1>4, <1>5
<1>7. m = n
    BY <1>3, <1>6
<1>8. QED
    BY <1>1, <1>7 DEF SlotAt

-----------------------------------------------------------------------------
(* The slots by the tick: the inductive invariant.                           *)
GridTyped == /\ Fit(grid) /\ swing \in 50 .. 75 /\ tick \in Nat
             /\ lane \in [idle : BOOLEAN, done : BOOLEAN, origin : Int]
             /\ fired \in [g : Int, own : Int, at : Int, bent : BOOLEAN]
\* A lane that counts waits for its first slot, sounds, and is done.
LaneIs == /\ grid.count = 0 => ~lane.idle /\ ~lane.done
          /\ grid.count # 0 /\ fired.g < 0 => lane.idle /\ ~lane.done
          /\ grid.count # 0 /\ fired.g >= 0 /\ ~lane.done => ~lane.idle
Began == IF grid.count = 0 THEN 0 ELSE lane.origin
\* The last slot sounded where it belongs, in a pass of its own.
FiredIs == fired.g >= 0 =>
    /\ fired.at < tick /\ LastStarted(grid, fired.at) = fired.g
    /\ ~fired.bent => fired.at = Start(grid, fired.g) + Delay(grid, fired.g, swing)
    /\ fired.g % 2 = 0 => fired.at = Start(grid, fired.g)
    /\ fired.own = fired.g - Began
    /\ grid.count # 0 => fired.own \in 0 .. grid.count * grid.slots - 1
    /\ lane.done /\ ~fired.bent => fired.own = grid.count * grid.slots - 1
\* The next one is still to come; with the swing moved, the next even one.
DueBy(t) == /\ ~fired.bent => t <= Start(grid, fired.g + 1) + Delay(grid, fired.g + 1, swing)
            /\ fired.g % 2 = 1 => t <= Start(grid, fired.g + 1)
            /\ fired.g % 2 = 0 => t <= Start(grid, fired.g + 2)
DueIs == fired.g >= 0 /\ ~lane.done => DueBy(tick)
SlotsInv == GridTyped /\ LaneIs /\ FiredIs /\ DueIs

LEMMA Records ==
    ASSUME GridTyped
    PROVE  /\ fired.g \in Int /\ fired.own \in Int /\ fired.at \in Int /\ fired.bent \in BOOLEAN
           /\ lane.idle \in BOOLEAN /\ lane.done \in BOOLEAN /\ lane.origin \in Int
           /\ grid.slots \in Nat \ {0} /\ grid.count \in Nat
    BY DEF GridTyped, Fit

LEMMA Sides ==
    ASSUME NEW n \in Nat
    PROVE  /\ n % 2 = 0 \/ n % 2 = 1
           /\ n % 2 = 0 => (n + 1) % 2 = 1 /\ (n + 2) % 2 = 0
           /\ n % 2 = 1 => (n + 1) % 2 = 0
           /\ n + 1 \in Nat /\ n + 2 \in Nat /\ n + 1 + 1 = n + 2
    OBVIOUS

\* Which slot it is that starts next.
LEMMA NextIs ==
    ASSUME SlotsInv, fired.g >= 0, ~lane.done, SlotAt(grid, tick, swing)
    PROVE  LET n == LastStarted(grid, tick)
           IN \/ n = fired.g + 1
              \/ fired.bent /\ n = fired.g /\ fired.g % 2 = 1
              \/ fired.bent /\ n = fired.g + 2 /\ fired.g % 2 = 0
<1>1. GridTyped /\ FiredIs /\ DueBy(tick)
    BY DEF SlotsInv, DueIs
<1>2. PICK m, n, t : m = fired.g /\ n = LastStarted(grid, tick) /\ t = tick
    OBVIOUS
<1>3. Fit(grid) /\ swing \in 50 .. 75 /\ t \in Nat /\ m \in Nat /\ fired.at \in Int
    BY <1>1, <1>2, Records DEF GridTyped
<1>4. n \in Nat /\ t = Start(grid, n) + Delay(grid, n, swing)
    BY <1>2, <1>3, FromTheStart DEF SlotAt
<1>5. fired.at < t /\ LastStarted(grid, fired.at) = m
    BY <1>1, <1>2 DEF FiredIs
<1>6. m <= n
    BY <1>2, <1>3, <1>5, LastUp
<1>7. PICK a, b, v : a = Start(grid, m + 1) /\ b = Start(grid, m + 2) /\ v = Delay(grid, m + 1, swing)
    OBVIOUS
<1>8. a \in Int /\ b \in Int /\ v \in Nat /\ a + v < b
  <2>1. m + 1 \in Nat /\ m + 1 + 1 = m + 2
      BY <1>3
  <2>2. /\ Start(grid, m + 1) \in Int /\ Delay(grid, m + 1, swing) \in Nat /\ Start(grid, m + 1 + 1) \in Int
        /\ Start(grid, m + 1) + Delay(grid, m + 1, swing) < Start(grid, m + 1 + 1)
      BY <1>3, <2>1, SlotTimes
  <2>3. QED
      BY <1>7, <2>1, <2>2
<1>9. (a <= t <=> m + 1 <= n) /\ (b <= t <=> m + 2 <= n)
  <2>1. m + 1 \in Int /\ m + 2 \in Int /\ t \in Int
      BY <1>3
  <2>2. QED
      BY <1>2, <1>3, <1>7, <2>1, StartedBy
<1>10. n = m => fired.bent /\ m % 2 = 1
  <2>1. SUFFICES ASSUME n = m PROVE fired.bent /\ m % 2 = 1
      OBVIOUS
  <2>2. PICK s, d : s = Start(grid, m) /\ d = Delay(grid, m, swing)
      OBVIOUS
  <2>3. s \in Int /\ d \in Nat /\ (m % 2 = 0 => d = 0) /\ t = s + d
      BY <1>3, <1>4, <2>1, <2>2, SlotTimes
  <2>4. m % 2 # 0
      BY <1>1, <1>2, <1>3, <1>5, <2>2, <2>3 DEF FiredIs
  <2>5. fired.bent
      BY <1>1, <1>2, <1>3, <1>5, <2>2, <2>3 DEF FiredIs
  <2>6. QED
      BY <1>3, <2>4, <2>5, Sides
<1>11. ~fired.bent => n <= m + 1
    BY <1>1, <1>2, <1>3, <1>4, <1>7, <1>8, <1>9 DEF DueBy
<1>12. m % 2 = 1 => n <= m + 1
    BY <1>1, <1>2, <1>3, <1>4, <1>7, <1>8, <1>9 DEF DueBy
<1>13. m % 2 = 0 => n <= m + 2
  <2>1. SUFFICES ASSUME m % 2 = 0, m + 3 <= n PROVE FALSE
      BY <1>3, <1>4
  <2>2. t <= b
      BY <1>1, <1>2, <1>7, <2>1 DEF DueBy
  <2>3. PICK c, x : c = Start(grid, m + 3) /\ x = Delay(grid, m + 2, swing)
      OBVIOUS
  <2>4. m + 2 \in Nat /\ m + 3 \in Int /\ m + 2 + 1 = m + 3 /\ t \in Int
      BY <1>3
  <2>5. c \in Int /\ x \in Nat /\ b + x < c
      BY <1>3, <1>7, <2>3, <2>4, StartIs, DelayIs, BeforeTheNext
  <2>6. c <= t
      BY <1>2, <1>3, <2>1, <2>3, <2>4, StartedBy
  <2>7. QED
      BY <1>3, <1>8, <2>2, <2>5, <2>6
<1>14. m % 2 = 0 \/ m % 2 = 1
    BY <1>3, Sides
<1>15. n = m \/ n = m + 1 \/ n = m + 2
    BY <1>3, <1>4, <1>6, <1>11, <1>12, <1>13, <1>14
<1>16. n = m + 2 => fired.bent /\ m % 2 = 0
    BY <1>1, <1>3, <1>4, <1>11, <1>12, <1>14, Records
<1>17. QED
    BY <1>2, <1>10, <1>15, <1>16

\* A tick that starts no slot is before the next one.
LEMMA StillToCome ==
    ASSUME SlotsInv, fired.g >= 0, ~lane.done, ~SlotAt(grid, tick, swing)
    PROVE  DueBy(tick + 1)
<1>1. GridTyped /\ DueBy(tick)
    BY DEF SlotsInv, DueIs
<1>2. PICK m, t : m = fired.g /\ t = tick
    OBVIOUS
<1>3. Fit(grid) /\ swing \in 50 .. 75 /\ t \in Nat /\ m \in Nat
    BY <1>1, <1>2, Records DEF GridTyped
<1>4. ASSUME NEW n \in Nat PROVE t # Start(grid, n) + Delay(grid, n, swing)
  <2>1. t \in Int /\ ~SlotAt(grid, t, swing)
      BY <1>2, <1>3
  <2>2. QED
      BY <1>3, <2>1, SlotAtIs
<1>5. ASSUME NEW n \in Nat, n % 2 = 0 PROVE t # Start(grid, n) /\ Start(grid, n) \in Int
  <2>1. PICK s, d : s = Start(grid, n) /\ d = Delay(grid, n, swing)
      OBVIOUS
  <2>2. s \in Int /\ d = 0 /\ t # s + d
      BY <1>3, <1>4, <1>5, <2>1, SlotTimes
  <2>3. QED
      BY <2>1, <2>2
<1>6. ~fired.bent => t + 1 <= Start(grid, m + 1) + Delay(grid, m + 1, swing)
  <2> SUFFICES ASSUME ~fired.bent PROVE t + 1 <= Start(grid, m + 1) + Delay(grid, m + 1, swing)
      OBVIOUS
  <2>1. PICK s, d : s = Start(grid, m + 1) /\ d = Delay(grid, m + 1, swing)
      OBVIOUS
  <2>2. m + 1 \in Nat
      BY <1>3
  <2>3. s \in Int /\ d \in Nat /\ t # s + d
      BY <1>3, <1>4, <2>1, <2>2, SlotTimes
  <2>4. t <= s + d
      BY <1>1, <1>2, <2>1 DEF DueBy
  <2>5. t + 1 <= s + d
      BY <1>3, <2>3, <2>4
  <2>6. QED
      BY <2>1, <2>5
<1>7. m % 2 = 1 => t + 1 <= Start(grid, m + 1)
  <2>1. SUFFICES ASSUME m % 2 = 1 PROVE t + 1 <= Start(grid, m + 1)
      OBVIOUS
  <2>2. t # Start(grid, m + 1) /\ Start(grid, m + 1) \in Int
      BY <1>3, <1>5, <2>1, Sides
  <2>3. t <= Start(grid, m + 1)
      BY <1>1, <1>2, <2>1 DEF DueBy
  <2>4. QED
      BY <1>3, <2>2, <2>3
<1>8. m % 2 = 0 => t + 1 <= Start(grid, m + 2)
  <2>1. SUFFICES ASSUME m % 2 = 0 PROVE t + 1 <= Start(grid, m + 2)
      OBVIOUS
  <2>2. t # Start(grid, m + 2) /\ Start(grid, m + 2) \in Int
      BY <1>3, <1>5, <2>1, Sides
  <2>3. t <= Start(grid, m + 2)
      BY <1>1, <1>2, <2>1 DEF DueBy
  <2>4. QED
      BY <1>3, <2>2, <2>3
<1>9. QED
    BY <1>2, <1>6, <1>7, <1>8 DEF DueBy

\* Between two slots the last started is the one that sounds or the one about to.
LEMMA BetweenSlots ==
    ASSUME SlotsInv, fired.g >= 0, ~lane.done
    PROVE  LastStarted(grid, tick - 1) \in {fired.g, fired.g + 1}
<1>1. GridTyped /\ FiredIs /\ DueBy(tick)
    BY DEF SlotsInv, DueIs
<1>2. PICK m, n, t : m = fired.g /\ n = LastStarted(grid, tick - 1) /\ t = tick
    OBVIOUS
<1>3. /\ Fit(grid) /\ swing \in 50 .. 75 /\ t \in Nat /\ m \in Nat /\ fired.at \in Int
      /\ t - 1 \in Int /\ m + 1 \in Int /\ m + 2 \in Int
    BY <1>1, <1>2, Records DEF GridTyped
<1>4. n \in Int
    BY <1>2, <1>3, LastIs
<1>5. m <= n
  <2>1. fired.at <= t - 1 /\ LastStarted(grid, fired.at) = m
      BY <1>1, <1>2, <1>3 DEF FiredIs
  <2>2. QED
      BY <1>2, <1>3, <2>1, LastUp
<1>6. PICK a, b : a = Start(grid, m + 1) /\ b = Start(grid, m + 2)
    OBVIOUS
<1>7. a \in Int /\ b \in Int /\ a <= b
    BY <1>3, <1>6, StartIs, StartsUp
<1>8. t <= a \/ t <= b
    BY <1>1, <1>2, <1>3, <1>6, Sides DEF DueBy
<1>9. ~(b <= t - 1)
    BY <1>3, <1>7, <1>8
<1>10. ~(m + 2 <= n)
    BY <1>2, <1>3, <1>6, <1>9, StartedBy
<1>11. QED
    BY <1>2, <1>3, <1>4, <1>5, <1>10

LEMMA LimitedIs == ASSUME NEW s \in Nat PROVE Limited(s) \in 50 .. 75
<1>1. PICK m : m = Min({s, 75})
    OBVIOUS
<1>2. m \in Int /\ m <= 75
  <2>1. CASE s <= 75
      BY <1>1, <2>1, TwoLeast
  <2>2. CASE 75 <= s
      BY <1>1, <2>2, TwoLeast
  <2>3. QED
      BY <2>1, <2>2
<1>3. Limited(s) = Max({50, m})
    BY <1>1 DEF Limited
<1>4. CASE m <= 50
  <2>1. 50 \in Int /\ m \in Int
      BY <1>2
  <2>2. Max({50, m}) \in {50, m} /\ 50 <= Max({50, m})
      BY <2>1, TwoLeast
  <2>3. QED
      BY <1>2, <1>3, <1>4, <2>2
<1>5. CASE 50 <= m
  <2>1. 50 \in Int /\ m \in Int
      BY <1>2
  <2>2. Max({50, m}) \in {50, m} /\ 50 <= Max({50, m})
      BY <2>1, TwoLeast
  <2>3. QED
      BY <1>2, <1>3, <1>5, <2>2
<1>6. QED
    BY <1>2, <1>4, <1>5

-----------------------------------------------------------------------------
\* What a slot that sounds leaves true.
LEMMA FiresKeeps ==
    ASSUME SlotsInv, SlotAt(grid, tick, swing), ~lane.done,
           NEW n, n = LastStarted(grid, tick), NEW l, NEW own, Fires(n, l, own),
           l \in [idle : BOOLEAN, done : BOOLEAN, origin : Int], ~l.done, ~l.idle,
           own = n - (IF grid.count = 0 THEN 0 ELSE l.origin),
           grid.count # 0 => own \in 0 .. grid.count * grid.slots - 1
    PROVE  SlotsInv'
<1>1. /\ lane' = l /\ fired' = [g |-> n, own |-> own, at |-> tick, bent |-> FALSE]
      /\ tick' = tick + 1 /\ grid' = grid /\ swing' = swing
    BY DEF Fires
<1>2. GridTyped
    BY DEF SlotsInv
<1>3. PICK t : t = tick
    OBVIOUS
<1>4. Fit(grid) /\ swing \in 50 .. 75 /\ t \in Nat /\ grid.count \in Nat
    BY <1>2, <1>3, Records DEF GridTyped
<1>5. n \in Nat /\ t = Start(grid, n) + Delay(grid, n, swing)
    BY <1>3, <1>4, FromTheStart DEF SlotAt
<1>6. own \in Int
  <2>1. l.origin \in Int
      OBVIOUS
  <2>2. QED
      BY <1>5, <2>1
<1>7. fired'.g = n /\ fired'.own = own /\ fired'.at = t /\ fired'.bent = FALSE /\ tick' = t + 1
    BY <1>1, <1>3
<1>8. GridTyped'
  <2>1. fired' \in [g : Int, own : Int, at : Int, bent : BOOLEAN]
      BY <1>1, <1>3, <1>4, <1>5, <1>6
  <2>2. t + 1 \in Nat
      BY <1>4
  <2>3. QED
      BY <1>1, <1>4, <1>7, <2>1, <2>2 DEF GridTyped, Fit, D, Q
<1>9. LaneIs'
    BY <1>1, <1>5, <1>7 DEF LaneIs
<1>10. /\ n \in Int /\ Start(grid, n) \in Int /\ Delay(grid, n, swing) \in Nat
       /\ n % 2 = 0 => Delay(grid, n, swing) = 0
       /\ Start(grid, n + 1) \in Int /\ t < Start(grid, n + 1)
  <2>1. /\ Start(grid, n) \in Int /\ Delay(grid, n, swing) \in Nat /\ (n % 2 = 0 => Delay(grid, n, swing) = 0)
        /\ Start(grid, n + 1) \in Int /\ Start(grid, n) + Delay(grid, n, swing) < Start(grid, n + 1)
      BY <1>4, <1>5, SlotTimes
  <2>2. n \in Int
      BY <1>5
  <2>3. QED
      BY <1>5, <2>1, <2>2
<1>11. FiredIs'
  <2>1. LastStarted(grid, t) = n /\ t < t + 1
      BY <1>3, <1>4
  <2>2. n % 2 = 0 => t = Start(grid, n)
      BY <1>5, <1>10
  <2>3. own = n - (IF grid.count = 0 THEN 0 ELSE lane'.origin)
      BY <1>1
  <2>4. /\ LastStarted(grid, t)' = LastStarted(grid, t) /\ Start(grid, n)' = Start(grid, n)
        /\ Delay(grid, n, swing)' = Delay(grid, n, swing)
      BY <1>1 DEF LastStarted, Start, Delay, D, Q
  <2>5. Began' = IF grid.count = 0 THEN 0 ELSE lane'.origin
      BY <1>1 DEF Began
  <2>6. ~lane'.done
      BY <1>1
  <2>7. QED
      BY <1>1, <1>5, <1>7, <2>1, <2>2, <2>3, <2>5, <2>6 DEF FiredIs
<1>12. DueIs'
  <2>1. PICK a, b, v : a = Start(grid, n + 1) /\ b = Start(grid, n + 2) /\ v = Delay(grid, n + 1, swing)
      OBVIOUS
  <2>2. n + 1 \in Nat /\ n + 1 + 1 = n + 2 /\ n + 2 \in Int
      BY <1>5
  <2>3. a \in Int /\ b \in Int /\ v \in Nat /\ a + v < b
    <3>1. /\ Start(grid, n + 1) \in Int /\ Delay(grid, n + 1, swing) \in Nat /\ Start(grid, n + 1 + 1) \in Int
          /\ Start(grid, n + 1) + Delay(grid, n + 1, swing) < Start(grid, n + 1 + 1)
        BY <1>4, <2>2, SlotTimes
    <3>2. QED
        BY <2>1, <2>2, <3>1
  <2>4. t + 1 <= a /\ t + 1 <= a + v /\ t + 1 <= b
      BY <1>4, <1>10, <2>1, <2>3
  <2>5. QED
      BY <1>1, <1>7, <2>1, <2>4 DEF DueIs, DueBy
<1>13. QED
    BY <1>8, <1>9, <1>11, <1>12 DEF SlotsInv

LEMMA SlotsStart == GridInit => SlotsInv
<1>1. SUFFICES ASSUME GridInit PROVE SlotsInv
    OBVIOUS
<1>2. PICK i, s : /\ i = (grid.count # 0) /\ s \in Swings /\ swing = Limited(s)
    BY <1>1 DEF GridInit
<1>3. /\ grid \in [div : Divs, rnum : {r[1] : r \in Rates}, rden : {r[2] : r \in Rates}, slots : Slots, count : Counts]
      /\ ~TooFine(grid) /\ tick \in WrittenAt /\ fired = NotYet
      /\ lane = [idle |-> i, done |-> FALSE, origin |-> 0] /\ i \in BOOLEAN
    BY <1>1, <1>2 DEF GridInit
<1>4. Fit(grid)
  <2>1. PICK a, b, c, k : a = grid.div /\ b = grid.rnum /\ c = grid.rden /\ k = StepTicks
      OBVIOUS
  <2>2. a \in Nat \ {0} /\ b \in Nat \ {0} /\ c \in Nat \ {0} /\ k \in Nat \ {0}
      BY <1>3, <2>1, GridAssumption
  <2>3. a * b \in Nat \ {0} /\ k * c \in Nat \ {0}
    <3>1. a * 1 <= a * b /\ k * 1 <= k * c
        BY <2>2, UpTimes
    <3>2. QED
        BY <2>2, <3>1
  <2>4. D(grid) \in Nat \ {0} /\ Q(grid) \in Nat \ {0}
      BY <2>1, <2>3 DEF D, Q
  <2>5. grid.slots \in Nat \ {0} /\ grid.count \in Nat
      BY <1>3, GridAssumption
  <2>6. QED
      BY <1>3, <2>4, <2>5 DEF Fit, TooFine
<1>5. swing \in 50 .. 75
  <2>1. s \in Nat
      BY <1>2, GridAssumption
  <2>2. QED
      BY <1>2, <2>1, LimitedIs
<1>6. /\ fired.g = -1 /\ fired \in [g : Int, own : Int, at : Int, bent : BOOLEAN]
      /\ lane.idle = i /\ ~lane.done /\ lane \in [idle : BOOLEAN, done : BOOLEAN, origin : Int]
    BY <1>3 DEF NotYet
<1>7. GridTyped
    BY <1>3, <1>4, <1>5, <1>6, GridAssumption DEF GridTyped
<1>8. LaneIs /\ FiredIs /\ DueIs
  <2>1. ~(fired.g >= 0) /\ fired.g < 0
      BY <1>6
  <2>2. QED
      BY <1>2, <1>6, <2>1 DEF LaneIs, FiredIs, DueIs
<1>9. QED
    BY <1>7, <1>8 DEF SlotsInv

LEMMA SlotsTick == SlotsInv /\ Tick => SlotsInv'
<1>1. SUFFICES ASSUME SlotsInv, Tick PROVE SlotsInv'
    OBVIOUS
<1>2. GridTyped /\ LaneIs /\ FiredIs /\ DueIs
    BY <1>1 DEF SlotsInv
<1>3. PICK n, l : n = LastStarted(grid, tick) /\ l = Downbeat(lane, grid, n)
    OBVIOUS
<1>4. PICK t, c, k : t = tick /\ c = grid.count /\ k = grid.slots
    OBVIOUS
<1>5. /\ Fit(grid) /\ swing \in 50 .. 75 /\ t \in Nat /\ c \in Nat /\ k \in Nat \ {0}
      /\ lane \in [idle : BOOLEAN, done : BOOLEAN, origin : Int]
      /\ lane.idle \in BOOLEAN /\ lane.done \in BOOLEAN /\ lane.origin \in Int /\ fired.g \in Int
    BY <1>2, <1>4, Records DEF GridTyped
<1>6. n \in Nat
    BY <1>3, <1>4, <1>5, FromTheStart
<1>7. ASSUME Quiet, lane.done \/ ~SlotAt(grid, tick, swing) \/ fired.g < 0 PROVE SlotsInv'
  <2>1. tick' = t + 1 /\ UNCHANGED <<grid, swing, lane, fired>>
      BY <1>4, <1>7 DEF Quiet
  <2>2. GridTyped'
      BY <1>2, <1>5, <2>1 DEF GridTyped, Fit, D, Q
  <2>3. LaneIs'
      BY <1>2, <2>1 DEF LaneIs
  <2>4. FiredIs'
    <3>1. fired.g >= 0 => fired.at < t + 1
        BY <1>2, <1>4, <1>5, Records DEF FiredIs
    <3>2. QED
        BY <1>2, <2>1, <3>1 DEF FiredIs, Began
  <2>5. DueIs'
    <3>1. ASSUME fired.g >= 0, ~lane.done PROVE DueBy(tick + 1)
        BY <1>1, <1>5, <1>7, <3>1, StillToCome
    <3>2. QED
        BY <1>4, <2>1, <3>1 DEF DueIs, DueBy
  <2>6. QED
      BY <2>2, <2>3, <2>4, <2>5 DEF SlotsInv
<1>8. CASE lane.done \/ ~SlotAt(grid, tick, swing)
    BY <1>1, <1>7, <1>8 DEF Tick
<1>9. CASE ~lane.done /\ SlotAt(grid, tick, swing) /\ c = 0
  <2>1. Fires(n, lane, n)
      BY <1>1, <1>3, <1>4, <1>9 DEF Tick
  <2>2. ~lane.idle
      BY <1>2, <1>4, <1>9 DEF LaneIs
  <2>3. n = n - (IF grid.count = 0 THEN 0 ELSE lane.origin)
      BY <1>4, <1>6, <1>9
  <2>4. QED
      BY <1>1, <1>3, <1>4, <1>5, <1>9, <2>1, <2>2, <2>3, FiresKeeps
<1>10. CASE ~lane.done /\ SlotAt(grid, tick, swing) /\ c # 0
  <2>1. /\ l \in [idle : BOOLEAN, done : BOOLEAN, origin : Int] /\ ~l.done
        /\ ~lane.idle => l = lane
        /\ lane.idle /\ ~l.idle => l.origin = n
    <3>1. CASE lane.idle /\ n % grid.slots = 0
      <4>1. PICK no \in BOOLEAN : no = FALSE
          OBVIOUS
      <4>2. l = [lane EXCEPT !.idle = no, !.origin = n] /\ n \in Int
        <5>1. Downbeat(lane, grid, n) = [lane EXCEPT !.idle = FALSE, !.origin = n]
            BY <3>1 DEF Downbeat
        <5>2. l = [lane EXCEPT !.idle = no, !.origin = n]
            BY <1>3, <4>1, <5>1, Zenon
        <5>3. QED
            BY <1>6, <5>2
      <4>3. l.idle = no /\ l.done = lane.done /\ l.origin = n /\ l \in [idle : BOOLEAN, done : BOOLEAN, origin : Int]
          BY <1>5, <4>1, <4>2
      <4>4. QED
          BY <1>10, <3>1, <4>1, <4>3
    <3>2. CASE ~(lane.idle /\ n % grid.slots = 0)
        BY <1>3, <1>5, <1>10, <3>2 DEF Downbeat
    <3>3. QED
        BY <3>1, <3>2
  <2>2. CASE l.idle
    <3>1. Quiet
        BY <1>1, <1>3, <1>4, <1>10, <2>2 DEF Tick
    <3>2. lane.idle
        BY <2>1, <2>2
    <3>3. fired.g < 0
        BY <1>2, <1>4, <1>5, <1>10, <3>2 DEF LaneIs
    <3>4. QED
        BY <1>7, <3>1, <3>3
  <2>3. CASE ~l.idle /\ ~Over(l, grid, n)
    <3>1. Fires(n, l, n - l.origin)
        BY <1>1, <1>3, <1>4, <1>10, <2>3 DEF Tick
    <3>2. PICK o, q : o = l.origin /\ q = n - o
        OBVIOUS
    <3>3. o \in Int /\ q \in Int
        BY <1>6, <2>1, <3>2
    <3>4. q < k * c /\ k * c = c * k /\ c * k \in Int
      <4>1. ~(q \div k >= c)
          BY <1>4, <2>3, <3>2 DEF Over
      <4>2. ~(k * c <= q)
          BY <1>5, <3>3, <4>1, OverIs
      <4>3. QED
          BY <1>5, <3>3, <4>2
    <3>5. 0 <= q
      <4>1. CASE lane.idle
          BY <1>6, <2>1, <2>3, <3>2, <4>1
      <4>2. CASE ~lane.idle
        <5>1. fired.g >= 0
            BY <1>2, <1>4, <1>5, <1>10, <4>2 DEF LaneIs
        <5>2. fired.own = fired.g - o /\ fired.own >= 0 /\ fired.own \in Int
          <6>1. fired.own = fired.g - Began /\ fired.own \in 0 .. grid.count * grid.slots - 1
              BY <1>2, <1>4, <1>10, <5>1 DEF FiredIs
          <6>2. Began = o
              BY <1>4, <1>10, <2>1, <3>2, <4>2 DEF Began
          <6>3. QED
              BY <1>2, <6>1, <6>2, Records
        <5>3. fired.g <= n
            BY <1>1, <1>3, <1>5, <1>6, <1>10, <5>1, NextIs
        <5>4. QED
            BY <1>5, <1>6, <3>2, <3>3, <5>2, <5>3
      <4>3. QED
          BY <1>5, <4>1, <4>2
    <3>6. q \in 0 .. grid.count * grid.slots - 1
        BY <1>4, <3>3, <3>4, <3>5
    <3>7. q = n - (IF grid.count = 0 THEN 0 ELSE l.origin)
        BY <1>4, <1>10, <3>2
    <3>8. Fires(n, l, q)
        BY <3>1, <3>2
    <3>9. QED
        BY <1>1, <1>3, <1>10, <2>1, <2>3, <3>6, <3>7, <3>8, FiresKeeps
  <2>4. CASE ~l.idle /\ Over(l, grid, n)
    <3>1. tick' = t + 1 /\ lane' = Finished(l) /\ UNCHANGED <<grid, swing, fired>>
        BY <1>1, <1>3, <1>4, <1>10, <2>4 DEF Tick
    <3>2. PICK o, q : o = l.origin /\ q = n - o
        OBVIOUS
    <3>3. o \in Int /\ q \in Int
        BY <1>6, <2>1, <3>2
    <3>4. k * c <= q /\ k * c = c * k /\ c * k \in Int
      <4>1. q \div k >= c
          BY <1>4, <2>4, <3>2 DEF Over
      <4>2. QED
          BY <1>5, <3>3, <4>1, OverIs
    <3>5. ~lane.idle
      <4>1. SUFFICES ASSUME lane.idle PROVE FALSE
          OBVIOUS
      <4>2. q = 0
          BY <1>6, <2>1, <2>4, <3>2, <4>1
      <4>3. k * 0 + k <= k * c
          BY <1>5, <1>10, MoreTimes
      <4>4. QED
          BY <1>5, <3>4, <4>2, <4>3
    <3>6. l = lane /\ fired.g >= 0
        BY <1>2, <1>4, <1>5, <1>10, <2>1, <3>5 DEF LaneIs
    <3>7. lane' = [lane EXCEPT !.idle = TRUE, !.done = TRUE]
        BY <3>1, <3>6 DEF Finished
    <3>8. lane'.done = TRUE /\ lane'.idle = TRUE /\ lane'.origin = lane.origin
        BY <1>5, <3>7
    <3>9. lane' \in [idle : BOOLEAN, done : BOOLEAN, origin : Int]
        BY <1>5, <3>7
    <3>10. GridTyped'
        BY <1>2, <1>5, <3>1, <3>9 DEF GridTyped, Fit, D, Q
    <3>11. LaneIs' /\ DueIs'
      <4>1. grid'.count # 0 /\ lane'.done /\ fired'.g >= 0
          BY <1>4, <1>10, <3>1, <3>6, <3>8
      <4>2. LaneIs'
          BY <1>5, <3>1, <3>6, <4>1 DEF LaneIs
      <4>3. DueIs'
          BY <4>1 DEF DueIs
      <4>4. QED
          BY <4>2, <4>3
    <3>12. Began = o /\ Began' = Began
        BY <1>4, <1>10, <3>1, <3>2, <3>6, <3>8 DEF Began
    <3>13. ~fired.bent => fired.own = c * k - 1
      <4>1. SUFFICES ASSUME ~fired.bent PROVE fired.own = c * k - 1
          OBVIOUS
      <4>2. n = fired.g + 1
          BY <1>1, <1>3, <1>10, <3>6, <4>1, NextIs
      <4>3. fired.own = fired.g - o /\ fired.own \in 0 .. c * k - 1
          BY <1>2, <1>4, <1>10, <3>6, <3>12 DEF FiredIs
      <4>4. QED
          BY <1>5, <3>2, <3>3, <3>4, <4>2, <4>3
    <3>14. FiredIs'
      <4>1. fired.at < t + 1
          BY <1>2, <1>4, <1>5, <3>6, Records DEF FiredIs
      <4>2. QED
          BY <1>2, <1>4, <3>1, <3>6, <3>12, <3>13, <4>1 DEF FiredIs
    <3>15. QED
        BY <3>10, <3>11, <3>14 DEF SlotsInv
  <2>5. QED
      BY <2>2, <2>3, <2>4
<1>11. QED
    BY <1>8, <1>9, <1>10

LEMMA SlotsSwing == SlotsInv /\ Swing => SlotsInv'
<1>1. SUFFICES ASSUME SlotsInv, Swing PROVE SlotsInv'
    OBVIOUS
<1>2. GridTyped /\ LaneIs /\ FiredIs /\ DueIs
    BY <1>1 DEF SlotsInv
<1>3. PICK s \in Swings : swing' = Limited(s) /\ fired' = [fired EXCEPT !.bent = TRUE] /\ UNCHANGED <<grid, tick, lane>>
    BY <1>1 DEF Swing
<1>4. fired \in [g : Int, own : Int, at : Int, bent : BOOLEAN]
    BY <1>2 DEF GridTyped
<1>5. /\ fired'.g = fired.g /\ fired'.own = fired.own /\ fired'.at = fired.at /\ fired'.bent = TRUE
      /\ fired' \in [g : Int, own : Int, at : Int, bent : BOOLEAN]
    BY <1>3, <1>4
<1>6. swing' \in 50 .. 75
  <2>1. s \in Nat
      BY GridAssumption
  <2>2. QED
      BY <1>3, <2>1, LimitedIs
<1>7. GridTyped'
    BY <1>2, <1>3, <1>5, <1>6 DEF GridTyped, Fit, D, Q
<1>8. LaneIs' /\ DueIs'
    BY <1>2, <1>3, <1>5 DEF LaneIs, DueIs, DueBy
<1>9. FiredIs'
    BY <1>2, <1>3, <1>5 DEF FiredIs, Began
<1>10. QED
    BY <1>7, <1>8, <1>9 DEF SlotsInv

LEMMA SlotsStep == SlotsInv /\ [GridNext]_gridVars => SlotsInv'
<1>1. SUFFICES ASSUME SlotsInv, [GridNext]_gridVars PROVE SlotsInv'
    OBVIOUS
<1>2. CASE UNCHANGED gridVars
    BY <1>1, <1>2 DEF gridVars, SlotsInv, GridTyped, Fit, D, Q, LaneIs, FiredIs, Began, DueIs, DueBy
<1>3. QED
    BY <1>1, <1>2, SlotsTick, SlotsSwing DEF GridNext

\* An odd slot by the swing's share of the bar, rounded down.
LEMMA SwungBy ==
    ASSUME NEW k \in Nat \ {0}, NEW d \in Nat \ {0}, NEW x \in Int, NEW y \in Int,
           NEW u \in Nat, NEW h \in Nat,
           2 * y <= 2 * x + d, 2 * x + d < 2 * y + 2 * d,
           k * u <= h, h < k * u + k * d
    PROVE  LET late == 2 * (y + u - x)
           IN /\ -d * k <= late * k /\ 2 * h - 2 * d * k - d * k <= late * k
              /\ late * k <= d * k + 2 * h
<1>1. PICK e, f, g : e = k * (y - x) /\ f = k * u /\ g = k * d
    OBVIOUS
<1>2. e \in Int /\ f \in Nat /\ g \in Nat
  <2>1. k * 0 <= k * u
      BY UpTimes
  <2>2. k * 0 <= k * d
      BY UpTimes
  <2>3. QED
      BY <1>1, <2>1, <2>2
<1>3. 2 * e <= g
  <2>1. k * (2 * (y - x)) <= k * d
      BY UpTimes
  <2>2. k * (2 * (y - x)) = 2 * e
      BY <1>1
  <2>3. QED
      BY <1>1, <2>1, <2>2
<1>4. -g <= 2 * e
  <2>1. k * (-d) <= k * (2 * (y - x))
      BY UpTimes
  <2>2. k * (2 * (y - x)) = 2 * e /\ k * (-d) = -g
      BY <1>1
  <2>3. QED
      BY <2>1, <2>2
<1>5. (2 * (y + u - x)) * k = 2 * e + 2 * f /\ -d * k = -g /\ 2 * d * k = 2 * g /\ d * k = g
    BY <1>1
<1>6. f <= h /\ h < f + g
    BY <1>1
<1>7. /\ -g <= 2 * e + 2 * f /\ 2 * h - 2 * g - g <= 2 * e + 2 * f
      /\ 2 * e + 2 * f <= g + 2 * h
    BY <1>2, <1>3, <1>4, <1>6
<1>8. QED
    BY <1>5, <1>7

LEMMA MaxIs ==
    ASSUME NEW a \in Int, NEW b \in Int
    PROVE  Max({a, b}) = a \/ Max({a, b}) = b
<1>1. a <= b \/ b <= a
    OBVIOUS
<1>2. QED
    BY <1>1, TwoLeast

LEMMA WhereItBelongs == SlotsInv => WithinHalfATick
<1>1. SUFFICES ASSUME SlotsInv, fired.g >= 0, ~fired.bent
               PROVE  LET after == 2 * (fired.at * D(grid) - fired.g * Q(grid))
                          swung == IF fired.g % 2 = 1 THEN 2 * Q(grid) * SwingTicks(swing) ELSE 0
                      IN /\ -D(grid) * StepTicks <= after * StepTicks - Max({0, swung - 2 * D(grid) * StepTicks})
                         /\ after * StepTicks <= D(grid) * StepTicks + swung
    BY DEF WithinHalfATick
<1>2. PICK n, t, d, q, k, w : /\ n = fired.g /\ t = fired.at /\ d = D(grid) /\ q = Q(grid)
                              /\ k = StepTicks /\ w = SwingTicks(swing)
    OBVIOUS
<1>3. PICK s, v : s = Start(grid, n) /\ v = Delay(grid, n, swing)
    OBVIOUS
<1>4. GridTyped /\ FiredIs
    BY <1>1 DEF SlotsInv
<1>5. /\ Fit(grid) /\ swing \in 50 .. 75 /\ n \in Nat /\ t \in Int
    BY <1>1, <1>2, <1>4, Records DEF GridTyped
<1>6. k \in Nat \ {0} /\ d \in Nat \ {0} /\ q \in Nat \ {0} /\ w \in Nat /\ n \in Int
    BY <1>2, <1>5, GridAssumption, SwingIs DEF Fit
<1>7. t = s + v
    BY <1>1, <1>2, <1>3, <1>4 DEF FiredIs
<1>8. PICK x, y, u : x = n * q /\ y = d * s /\ u = d * v
    OBVIOUS
<1>9. s \in Int /\ y \in Int /\ x \in Int /\ 2 * y <= 2 * x + d /\ 2 * x + d < 2 * y + 2 * d
    BY <1>2, <1>3, <1>5, <1>6, <1>8, StartIs
<1>10. PICK h : h = IF n % 2 = 1 THEN w * q ELSE 0
    OBVIOUS
<1>11. v \in Nat /\ u \in Nat /\ h \in Nat /\ k * u <= h /\ h < k * u + k * d
  <2>1. /\ v \in Nat /\ (n % 2 = 0 => v = 0)
        /\ n % 2 = 1 => k * u <= w * q /\ w * q < k * u + k * d
      BY <1>2, <1>3, <1>5, <1>8, DelayIs
  <2>2. u \in Nat
    <3>1. d * 0 <= d * v
        BY <1>6, <2>1, UpTimes
    <3>2. QED
        BY <1>6, <1>8, <2>1, <3>1
  <2>3. CASE n % 2 = 1
    <3>1. h = w * q
        BY <1>10, <2>3
    <3>2. q * 0 <= q * w /\ q * w = w * q /\ q * w \in Int
        BY <1>6, UpTimes
    <3>3. QED
        BY <1>6, <2>1, <2>2, <2>3, <3>1, <3>2
  <2>4. CASE n % 2 = 0
    <3>1. v = 0 /\ h = 0
        BY <1>10, <2>1, <2>4
    <3>2. u = 0
        BY <1>6, <1>8, <3>1
    <3>3. k * 0 < k * d
        BY <1>6, UpTimes
    <3>4. QED
        BY <1>6, <2>1, <3>1, <3>2, <3>3
  <2>5. QED
      BY <1>5, <2>3, <2>4, Sides
<1>12. PICK late : late = 2 * (y + u - x)
    OBVIOUS
<1>13. /\ -d * k <= late * k /\ 2 * h - 2 * d * k - d * k <= late * k
       /\ late * k <= d * k + 2 * h
    BY <1>6, <1>9, <1>11, <1>12, SwungBy
<1>14. 2 * (t * d - n * q) = late
  <2>1. t * d = y + u
      BY <1>6, <1>7, <1>8, <1>9, <1>11
  <2>2. QED
      BY <1>8, <1>12, <2>1
<1>15. (IF n % 2 = 1 THEN 2 * q * w ELSE 0) = 2 * h
    BY <1>6, <1>10
<1>16. -d * k <= late * k - Max({0, 2 * h - 2 * d * k})
  <2>1. PICK m, a, b : m = 2 * h - 2 * d * k /\ a = d * k /\ b = late * k
      OBVIOUS
  <2>2. a \in Int /\ b \in Int /\ m \in Int /\ -d * k = -a /\ 2 * d * k = 2 * a /\ 0 \in Int
      BY <1>6, <1>9, <1>11, <1>12, <2>1
  <2>3. Max({0, m}) = 0 \/ Max({0, m}) = m
      BY <2>2, MaxIs
  <2>4. -a <= b /\ m - a <= b
      BY <1>13, <2>1, <2>2
  <2>5. -a <= b - Max({0, m})
      BY <2>2, <2>3, <2>4
  <2>6. QED
      BY <2>1, <2>2, <2>5
<1>17. QED
    BY <1>2, <1>13, <1>14, <1>15, <1>16

LEMMA PassesAreWhole == SlotsInv => WholePasses
    BY DEF SlotsInv, FiredIs, WholePasses

LEMMA TheMarkSounds == SlotsInv => MarksWhatSounds
<1>1. SUFFICES ASSUME SlotsInv, Marks(tick - 1), fired.g >= 0
               PROVE  /\ MarkedSlot(tick - 1) \in {fired.own, fired.own + 1}
                      /\ grid.count # 0 => MarkedSlot(tick - 1) \in 0 .. (grid.count * grid.slots - 1)
    BY DEF MarksWhatSounds
<1>2. GridTyped /\ LaneIs /\ FiredIs
    BY <1>1 DEF SlotsInv
<1>3. PICK m, n, o, c, k : /\ m = fired.g /\ n = LastStarted(grid, tick - 1) /\ o = Began
                           /\ c = grid.count /\ k = grid.slots
    OBVIOUS
<1>4. m \in Int /\ c \in Nat /\ k \in Nat \ {0} /\ lane.origin \in Int /\ fired.own \in Int
    BY <1>2, <1>3, Records
<1>5. o \in Int
    BY <1>3, <1>4 DEF Began
<1>6. ~lane.done
    BY <1>1, <1>2 DEF Marks, LaneIs
<1>7. n \in {m, m + 1}
    BY <1>1, <1>3, <1>6, BetweenSlots
<1>8. MarkedSlot(tick - 1) = n - o /\ fired.own = m - o
    BY <1>1, <1>2, <1>3 DEF MarkedSlot, FiredIs, Began
<1>9. MarkedSlot(tick - 1) \in {fired.own, fired.own + 1}
    BY <1>4, <1>5, <1>7, <1>8
<1>10. ASSUME c # 0 PROVE n - o \in 0 .. c * k - 1
  <2>1. o = lane.origin
      BY <1>3, <1>10 DEF Began
  <2>2. PICK p : p = n - o
      OBVIOUS
  <2>3. p \in Int
      BY <1>4, <1>5, <1>7, <2>2
  <2>4. ~(p \div k >= c)
      BY <1>1, <1>3, <1>10, <2>1, <2>2 DEF Marks, Over
  <2>5. ~(k * c <= p) /\ k * c = c * k /\ c * k \in Int
      BY <1>4, <2>3, <2>4, OverIs
  <2>6. fired.own \in 0 .. c * k - 1
      BY <1>1, <1>2, <1>3, <1>10 DEF FiredIs
  <2>7. 0 <= p
      BY <1>4, <1>5, <1>7, <1>8, <2>2, <2>6
  <2>8. QED
      BY <2>2, <2>3, <2>5, <2>7
<1>11. QED
    BY <1>3, <1>8, <1>9, <1>10

(* A lane's slots by the tick, for every division, rate, count and swing:    *)
(* each starts within half a tick of its share of the bar, an odd one later  *)
(* by the swing's; a lane with a count starts on its own first slot and is   *)
(* done after whole passes; the mark is on the slot that sounds or the next  *)
(* (seq_pattern_slot_at, tick_cb, seq_lane_now).                             *)
THEOREM SlotsAreWhereTheyBelong == GridSpec => []GridKept
<1>1. SlotsInv => GridKept
    BY WhereItBelongs, PassesAreWhole, TheMarkSounds DEF GridKept
<1>2. QED
    BY <1>1, SlotsStart, SlotsStep, PTL DEF GridSpec

(* Each slot starts once and in turn; only where the swing moved between     *)
(* two, an odd one may come twice or be lost (seq_pattern_slot_at,           *)
(* seq_swing).                                                               *)
THEOREM EachSlotStartsInTurn == GridSpec => EachSlotInTurn
<1> DEFINE A == (fired'.at # fired.at /\ fired.g >= 0) =>
                    \/ fired'.g = fired.g + 1
                    \/ fired.bent /\ fired'.g = fired.g /\ fired.g % 2 = 1
                    \/ fired.bent /\ fired'.g = fired.g + 2 /\ fired.g % 2 = 0
<1>1. SlotsInv /\ [GridNext]_gridVars => [A]_gridVars
  <2>1. SUFFICES ASSUME SlotsInv, GridNext, fired'.at # fired.at, fired.g >= 0 PROVE A
      OBVIOUS
  <2>2. Tick
    <3>1. SUFFICES ASSUME Swing PROVE FALSE
        BY <2>1 DEF GridNext
    <3>2. fired \in [g : Int, own : Int, at : Int, bent : BOOLEAN]
        BY <2>1 DEF SlotsInv, GridTyped
    <3>3. fired' = [fired EXCEPT !.bent = TRUE]
        BY <3>1 DEF Swing
    <3>4. fired'.at = fired.at
        BY <3>2, <3>3
    <3>5. QED
        BY <2>1, <3>4
  <2>3. PICK n, l : n = LastStarted(grid, tick) /\ l = Downbeat(lane, grid, n)
      OBVIOUS
  <2>4. ~lane.done /\ SlotAt(grid, tick, swing) /\ (Fires(n, lane, n) \/ Fires(n, l, n - l.origin))
    <3>1. fired' # fired
        BY <2>1
    <3>2. QED
        BY <2>2, <2>3, <3>1 DEF Tick, Quiet
  <2>5. fired'.g = n
      BY <2>4 DEF Fires
  <2>6. QED
      BY <2>1, <2>3, <2>4, <2>5, NextIs
<1>2. QED
    BY <1>1, SlotsStart, SlotsStep, PTL DEF GridSpec, EachSlotInTurn
=============================================================================
