------------------------------ MODULE SeqPattern ----------------------------
(* The pattern language of a lane (seq/include/seq_pattern.h): one line of   *)
(* text compiled into steps, each at a slot of the lane's cycle and in a     *)
(* class of its cycles. A pattern is a sequence of tokens: the characters,   *)
(* with a '%' and its number as one, "%50" or, without one, "%", and a rate  *)
(* or count at the end of the line, "/2", "*2" or "!4", as one.              *)
EXTENDS Integers, SequencesExt

CONSTANTS Tokens,       \* what is typed
          MaxLen,       \* bound: tokens of a pattern
          MaxSlots, MaxDepth, MaxLeaves, MaxPer, MaxTail,
          TicksPerStep
ASSUME PatternAssumption == {MaxLen, MaxSlots, MaxDepth, MaxLeaves, MaxPer, MaxTail,
                             TicksPerStep} \subseteq Nat \ {0}

VARIABLES pattern, comp
patternVars == <<pattern, comp>>

Heads == {"x", "1", ".", "_", "u", "d"}
Directions == {"u", "d"}
Opening == {"[", "<"}
Closing == {"]", ">"}
Closes(c) == IF c = "]" THEN "[" ELSE "<"
Trailers == {"/2", "*2", "!4", "/0"}
Always == 255

Refuse(why, at) == [err |-> why, at |-> at]
Ok(r) == r.err = "ok"
Then(r, Go(_)) == IF Ok(r) THEN Go(r) ELSE r    \* the first thing refused is the answer
Among(p, i, end) == i < end /\ i \in DOMAIN p
\* mutant: spacing is a character like any other
NoSkip(p, i, end) == i
Skip(p, i, end) ==      \* the first character from i on that is not spacing
    LET there == {j \in i..(end - 1) : p[j] # " "}
    IN IF there = {} THEN end ELSE Min(there)

Gcd(a, b) == Max({d \in 1..Max({a, b}) : a % d = 0 /\ b % d = 0})
Lcm(a, b) == (a \div Gcd(a, b)) * b

-----------------------------------------------------------------------------
(* seq_pattern_trailer(): rates and a count, from the end of the line.       *)
\* mutant: a second rate is taken too
RatedAgain(c, t) == [c EXCEPT !.rnum = IF t = "*2" THEN 2 ELSE @,
                              !.rden = IF t = "/2" THEN 2 ELSE @]
Rated(c, t) == [c EXCEPT !.rated = TRUE, !.rnum = IF t = "*2" THEN 2 ELSE @,
                         !.rden = IF t = "/2" THEN 2 ELSE @]
RECURSIVE Trailer(_, _, _)
Trailer(p, last, c) ==
    LET end == Max({0} \cup {j \in 1..last : p[j] # " "})
        start == Max({0} \cup {j \in 1..end : p[j] = " "}) + 1
    IN IF end = 0 \/ start = 1 \/ p[start] \notin Trailers
       THEN [c EXCEPT !.plen = end]
       ELSE IF start # end \/ p[start] = "/0" THEN Refuse("trailer", start)
       ELSE IF p[start] = "!4"
            THEN IF c.count # 0 THEN Refuse("twice", start)
                 ELSE Trailer(p, start - 1, [c EXCEPT !.count = 4])
            ELSE IF c.rated THEN Refuse("twice", start)
            ELSE Trailer(p, start - 1, Rated(c, p[start]))

-----------------------------------------------------------------------------
(* seq_pattern_item_end(): one item, its bracket's close and what follows it.*)
RECURSIVE Bracket(_, _, _, _, _)
Bracket(p, from, q, end, open) ==
    IF q >= end THEN Refuse("open", from)
    ELSE IF p[q] \in Opening
         THEN IF Len(open) >= MaxDepth THEN Refuse("deep", q)
              ELSE Bracket(p, from, q + 1, end, Append(open, p[q]))
    ELSE IF p[q] \in Closing
         THEN IF Last(open) # Closes(p[q]) THEN Refuse("mismatch", q)
              ELSE IF Len(open) = 1 THEN [err |-> "ok", close |-> q + 1]
              ELSE Bracket(p, from, q + 1, end, Front(open))
    ELSE Bracket(p, from, q + 1, end, open)

ItemClose(p, i, end) ==
    CASE p[i] \in Opening -> Bracket(p, i, i, end, <<>>)
      [] p[i] \in Closing -> Refuse("close", i)
      [] p[i] = "," -> Refuse("comma", i)
      [] p[i] \notin Heads \cup Opening \cup Closing \cup {","} -> Refuse("char", i)
      [] OTHER -> [err |-> "ok", close |-> i + 1]
OddsAt(p, q, end) ==
    IF Among(p, q, end) /\ p[q] = "%" THEN Refuse("percent", q)
    ELSE [err |-> "ok", close |-> q,
          next |-> IF Among(p, q, end) /\ p[q] = "%50" THEN q + 1 ELSE q]
ItemEnd(p, i, end) == Then(ItemClose(p, i, end), LAMBDA c : OddsAt(p, c.close, end))

(* seq_pattern_member(): the items up to the next ','.                       *)
RECURSIVE MemberEnd(_, _, _, _)
MemberEnd(p, i, end, items) ==
    LET j == Skip(p, i, end)
        stop == j >= end \/ p[j] = ","
    IN IF stop /\ items = 0 THEN Refuse("empty group", j)
       ELSE IF stop THEN [err |-> "ok", next |-> j]
       ELSE Then(ItemEnd(p, j, end), LAMBDA e : MemberEnd(p, e.next, end, items + 1))
Member(p, q, end) == MemberEnd(p, q, end, 0)

-----------------------------------------------------------------------------
(* MEASURE: the slots an item or a sequence needs and the cycles it takes.   *)
RECURSIVE MeasureItems(_, _, _, _, _), MeasureItem(_, _, _, _), MeasureMembers(_, _, _, _, _, _)
MeasureItems(p, i, end, depth, m) ==
    LET j == Skip(p, i, end)
        with(it) == [m EXCEPT !.items = @ + 1, !.need = Lcm(@, it.need), !.per = Lcm(@, it.per)]
    IN IF j >= end THEN m
       ELSE Then(ItemEnd(p, j, end),
                 LAMBDA e : Then(MeasureItem(p, j, e, depth),
                                 LAMBDA it : MeasureItems(p, e.next, end, depth, with(it))))
NoItems == [err |-> "ok", items |-> 0, need |-> 1, per |-> 1]
MeasureSeq(p, i, end, depth) ==
    IF depth < 0 THEN Refuse("deep", i) ELSE MeasureItems(p, i, end, depth, NoItems)
(* A stack needs what its widest member needs, an alternation what its       *)
(* widest alternative needs; k alternatives come round every k cycles.       *)
MeasureMembers(p, from, q, end, depth, m) ==
    LET stack == p[from] = "["
        with(w) == IF stack
                   THEN [m EXCEPT !.need = Lcm(@, w.items * w.need), !.per = Lcm(@, w.per)]
                   ELSE [m EXCEPT !.need = Lcm(@, w.need), !.per = Lcm(@, w.items * w.per)]
        measured(stop) == IF stack /\ depth = 0 THEN Refuse("deep", q)
                          ELSE MeasureItems(p, q, stop, depth - 1, NoItems)
    IN IF q > end THEN m
       ELSE Then(Member(p, q, end),
                 LAMBDA mem : Then(measured(mem.next),
                     LAMBDA w : MeasureMembers(p, from, mem.next + 1, end, depth, with(w))))
MeasureItem(p, i, e, depth) ==
    IF p[i] \notin Opening THEN [err |-> "ok", need |-> 1, per |-> 1]
    ELSE MeasureMembers(p, i, i + 1, e.close - 1, depth, [err |-> "ok", need |-> 1, per |-> 1])

-----------------------------------------------------------------------------
(* PLACE: the leaves, each with its slots and its class of cycles.           *)
Odds(parent, own) ==
    IF parent = Always /\ own = Always THEN Always
    ELSE LET percent(x) == IF x = Always THEN 100 ELSE x
         IN (percent(parent) * percent(own) + 50) \div 100
OwnOdds(p, e) == IF e.next > e.close THEN 50 ELSE Always
ClassIn(p1, k1, p2, k2) == p1 % p2 = 0 /\ k1 % p2 = k2
\* mutant: classes of another phase never meet
SamePhase(p1, k1, p2, k2) == k1 = k2
ClassMeet(p1, k1, p2, k2) == (k1 - k2) % Gcd(p1, p2) = 0
TailAdd(to, from) == SubSeq(to \o from, 1, Min({MaxTail, Len(to) + Len(from)}))

(* Where an item is placed: its slots, class, odds and depth.                *)
Leaf(p, i, e, at) ==
    [slot |-> at.start, width |-> at.width, len |-> at.width, prob |-> Odds(at.prob, OwnOdds(p, e)),
     per |-> at.per, ph |-> at.ph, from |-> i, to |-> e.next,
     kind |-> CASE p[i] = "." -> "rest" [] p[i] = "_" -> "tie" [] OTHER -> "hit",
     val |-> IF p[i] = "1" THEN 1 ELSE Always,
     dir |-> IF p[i] \in Directions THEN p[i] ELSE "none"]

(* A tie lengthens the notes of the tail that end here and share a cycle     *)
(* with it, and is refused where it is there for only some of theirs.        *)
\* mutant: wherever the note ends
ReachesAny(n, at) == ClassMeet(n.per, n.ph, at.per, at.ph)
Reaches(n, at) == n.slot + n.len = at.start /\ ClassMeet(n.per, n.ph, at.per, at.ph)
Held(c, tail, at) == SelectSeq(tail, LAMBDA j : Reaches(c.leaf[j], at))
PlaceTie(c, i, at, tail) ==
    LET held == Held(c, tail, at)
        always(j) == ClassIn(c.leaf[j].per, c.leaf[j].ph, at.per, at.ph)
    IN IF \E j \in Range(held) : ~always(j) THEN Refuse("tie alt", i)
       ELSE [c EXCEPT !.leaf = [j \in DOMAIN @ |-> IF j \in Range(held)
                                                   THEN [@[j] EXCEPT !.len = @ + at.width]
                                                   ELSE @[j]],
                      !.tail = held]
PlaceLeaf(p, i, e, at, c, tail) ==
    LET new == [c EXCEPT !.leaf = Append(@, Leaf(p, i, e, at))]
    IN IF p[i] = "_" /\ c.leaf = <<>> THEN Refuse("tie start", i)
       ELSE IF Len(c.leaf) >= MaxLeaves THEN Refuse("leaves", i)
       ELSE IF p[i] = "." THEN [new EXCEPT !.tail = <<>>]
       ELSE IF p[i] = "_" THEN PlaceTie(new, i, at, tail)
       ELSE [new EXCEPT !.tail = <<Len(new.leaf)>>]

RECURSIVE ItemsIn(_, _, _)
ItemsIn(p, i, end) ==
    LET j == Skip(p, i, end)
    IN IF j >= end THEN 0 ELSE 1 + ItemsIn(p, ItemEnd(p, j, end).next, end)

RECURSIVE PlaceSeq(_, _, _, _, _, _), PlaceItem(_, _, _, _, _, _),
          PlaceMembers(_, _, _, _, _, _, _, _), PlaceAlts(_, _, _, _, _, _, _, _)
PlaceSeq(p, i, end, at, c, share) ==
    LET j == Skip(p, i, end)
        placed(e) == PlaceItem(p, j, e, [at EXCEPT !.width = share], c, c.tail)
        rest(e, r) == PlaceSeq(p, e.next, end, [at EXCEPT !.start = @ + share], r, share)
    IN IF j >= end THEN c
       ELSE Then(ItemEnd(p, j, end), LAMBDA e : Then(placed(e), LAMBDA r : rest(e, r)))
(* Alternative j of k plays on the cycles per * k has left over ph + per * j.*)
PlaceAlts(p, i, end, at, k, c, before, out) ==
    LET j == Skip(p, i, end)
        placed(e) == PlaceItem(p, j, e, [at EXCEPT !.per = @ * k], c, before)
        rest(e, r) == PlaceAlts(p, e.next, end, [at EXCEPT !.ph = @ + at.per], k, r, before,
                                TailAdd(out, r.tail))
    IN IF j >= end THEN [c EXCEPT !.tail = out]
       ELSE Then(ItemEnd(p, j, end), LAMBDA e : Then(placed(e), LAMBDA r : rest(e, r)))
PlaceMembers(p, from, q, end, at, c, before, out) ==
    LET placed(stop, k) ==
            IF p[from] = "[" THEN PlaceSeq(p, q, stop, at, [c EXCEPT !.tail = before], at.width \div k)
            ELSE IF at.per * k > MaxPer THEN Refuse("per", from)
            ELSE PlaceAlts(p, q, stop, at, k, c, before, <<>>)
        rest(stop, r) == PlaceMembers(p, from, stop + 1, end, at, r, before, TailAdd(out, r.tail))
    IN IF q > end THEN [c EXCEPT !.tail = out]
       ELSE Then(Member(p, q, end),
                 LAMBDA mem : Then(placed(mem.next, ItemsIn(p, q, mem.next)),
                                   LAMBDA r : rest(mem.next, r)))
PlaceItem(p, i, e, at, c, tail) ==
    IF p[i] \in Opening
    THEN PlaceMembers(p, i, i + 1, e.close - 1,
                      [at EXCEPT !.prob = Odds(@, OwnOdds(p, e))], c, tail, <<>>)
    ELSE PlaceLeaf(p, i, e, at, c, tail)

-----------------------------------------------------------------------------
(* seq_pattern_compile().                                                    *)
Blank == [err |-> "ok", plen |-> 0, rnum |-> 1, rden |-> 1, rated |-> FALSE, count |-> 0]
Compile(p) ==
    LET t == Trailer(p, Len(p), Blank)
        end == t.plen + 1
        i == Skip(p, 1, end)
        dir == Among(p, i + 1, end) /\ p[i] \in Directions /\ p[i + 1] = " "
        from == IF dir THEN i + 2 ELSE i
        m == MeasureSeq(p, from, end, MaxDepth)
        slots == m.items * m.need
        done == PlaceSeq(p, from, end,
                         [start |-> 0, width |-> slots, per |-> 1, ph |-> 0, prob |-> Always],
                         [err |-> "ok", leaf |-> <<>>, tail |-> <<>>], m.need)
    IN IF ~Ok(t) THEN t
       ELSE IF ~Ok(m) THEN m
       ELSE IF m.items = 0 THEN Refuse("empty", 0)
       ELSE IF slots > MaxSlots THEN Refuse("slots", from)
       ELSE IF m.per > MaxPer THEN Refuse("per", from)
       ELSE IF m.need * t.rnum > TicksPerStep * t.rden THEN Refuse("fine", from)
       ELSE IF ~Ok(done) THEN done
       ELSE [err |-> "ok", slots |-> slots, div |-> m.need, steps |-> m.items, per |-> m.per,
             rnum |-> t.rnum, rden |-> t.rden, count |-> t.count,
             dir |-> IF dir THEN p[i] ELSE "none", leaf |-> done.leaf]

(* seq_pattern_mark(): the span to light for a slot of a cycle.              *)
\* mutant: one slot too far
CoveringNext(c, slot, cycle) ==
    {l \in Range(c.leaf) : l.slot <= slot /\ slot <= l.slot + l.width /\ cycle % l.per = l.ph}
Covering(c, slot, cycle) ==
    {l \in Range(c.leaf) : l.slot <= slot /\ slot < l.slot + l.width /\ cycle % l.per = l.ph}
Mark(c, slot, cycle) ==
    LET over == Covering(c, slot, cycle)
    IN IF over = {} THEN <<>>
       ELSE <<Min({l.from : l \in over}), Max({l.to : l \in over})>>

(* A pattern is typed; one that no more typing can mend is left.             *)
Mendable == {"ok", "empty", "open", "empty group", "fine"}
PatternInit == pattern = <<>> /\ comp = Refuse("empty", 0)
Type(t) ==
    /\ Len(pattern) < MaxLen /\ comp.err \in Mendable
    /\ pattern' = Append(pattern, t)
    /\ comp' = Compile(pattern')
PatternNext == \E t \in Tokens : Type(t)
PatternSpec == PatternInit /\ [][PatternNext]_patternVars

-----------------------------------------------------------------------------
(* What a pattern means, told without the compiler: brackets by their depth, *)
(* and for one cycle at a time the notes that sound in it, in a unit that    *)
(* every number of slots divides.                                            *)
Depth(p, k) == Cardinality({m \in 1..(k - 1) : p[m] \in Opening})
               - Cardinality({m \in 1..(k - 1) : p[m] \in Closing})
CloseOf(p, m) == Min({k \in (m + 1)..(Len(p) + 1) : Depth(p, k) = Depth(p, m)})
Ascending(S) == SetToSortSeq(S, <)
Tops(p, i, end) ==
    Ascending({m \in i..(end - 1) : Depth(p, m) = Depth(p, i)
                                    /\ p[m] \in Heads \cup Opening})
Parts(p, i, end) ==
    LET commas == {m \in i..(end - 1) : p[m] = "," /\ Depth(p, m) = Depth(p, i)}
        starts == {i} \cup {m + 1 : m \in commas}
    IN {<<s, Min({m \in commas \cup {end} : m >= s})>> : s \in starts}
Unit == CHOOSE u \in 1..30000 : /\ \A n \in 1..MaxSlots : u % n = 0
                                /\ \A v \in 1..(u - 1) : \E n \in 1..MaxSlots : v % n # 0

RECURSIVE PlayItem(_, _, _, _, _), PlaySeq(_, _, _, _, _, _)
PlayItem(p, m, cycle, at, s) ==
    LET close == CloseOf(p, m)
        own == IF close <= Len(p) /\ p[close] = "%50" THEN 50 ELSE Always
        prob == Odds(at.prob, own)
        inner == [at EXCEPT !.prob = prob]
        part(b) == LET tops == Tops(p, b[1], b[2])
                   IN IF p[m] = "[" THEN PlaySeq(p, tops, 1, cycle, [inner EXCEPT !.width = @ \div Len(tops)], s)
                      ELSE PlayItem(p, tops[(cycle % Len(tops)) + 1], cycle \div Len(tops), inner, s)
        ends(n) == n.from \in s.tail /\ n.start + n.len = at.start
    IN CASE p[m] = "." -> [s EXCEPT !.tail = {}]
         [] p[m] = "_" -> [notes |-> {IF ends(n) THEN [n EXCEPT !.len = @ + at.width] ELSE n : n \in s.notes},
                           tail |-> {n.from : n \in {x \in s.notes : ends(x)}}]
         [] p[m] \in Opening ->
              LET rs == {part(b) : b \in Parts(p, m + 1, close - 1)}
                  grown(n) == \E r \in rs : \E x \in r.notes : x.from = n.from /\ x.len > n.len
              IN [notes |-> {n \in UNION {r.notes : r \in rs} : ~grown(n)},
                  tail |-> UNION {r.tail : r \in rs}]
         [] OTHER -> [notes |-> s.notes \cup {[from |-> m, start |-> at.start, len |-> at.width, prob |-> prob]},
                      tail |-> {m}]
PlaySeq(p, tops, n, cycle, at, s) ==
    IF n > Len(tops) THEN s
    ELSE PlaySeq(p, tops, n + 1, cycle, [at EXCEPT !.start = @ + at.width],
                 PlayItem(p, tops[n], cycle, at, s))
BodyFrom(p) ==
    LET i == Skip(p, 1, Len(p) + 1)
        ahead == \E k \in DOMAIN p : k > i + 1 /\ p[k] # " "
    IN IF ahead /\ p[i] \in Directions /\ p[i + 1] = " " THEN i + 2 ELSE i
Meant(p, cycle) ==
    LET tops == Tops(p, BodyFrom(p), Len(p) + 1)
    IN PlaySeq(p, tops, 1, cycle, [start |-> 0, width |-> Unit \div Len(tops), prob |-> Always],
               [notes |-> {}, tail |-> {}]).notes
Compiled(c, cycle) ==
    LET slot == Unit \div c.slots
    IN {[from |-> l.from, start |-> l.slot * slot, len |-> l.len * slot, prob |-> l.prob] :
          l \in {x \in Range(c.leaf) : x.kind = "hit" /\ cycle % x.per = x.ph}}

Syntax == {"char", "open", "close", "mismatch", "empty group", "comma", "percent", "deep"}
WellFormed(p) ==
    /\ Range(p) \subseteq Heads \cup Opening \cup Closing \cup {",", "%50", " "}
    /\ Depth(p, Len(p) + 1) = 0
    /\ \A k \in DOMAIN p :
        /\ Depth(p, k + 1) \in 0..MaxDepth
        /\ p[k] = "," => Depth(p, k) > 0
        /\ p[k] = "%50" => k > 1 /\ p[k - 1] \in Heads \cup Closing
        /\ p[k] \in Opening =>
             LET close == CloseOf(p, k)
             IN /\ Closes(p[close - 1]) = p[k]
                /\ \A b \in Parts(p, k + 1, close - 1) : Tops(p, b[1], b[2]) # <<>>

PatternTypeOK ==
    /\ pattern \in Seq(Tokens) /\ Len(pattern) <= MaxLen
    /\ Ok(comp) =>
        /\ comp.slots \in 1..MaxSlots /\ comp.per \in 1..MaxPer
        /\ comp.slots = comp.steps * comp.div
        /\ Len(comp.leaf) \in 1..MaxLeaves
        /\ \A l \in Range(comp.leaf) :
            /\ l.width >= 1 /\ l.len >= l.width /\ l.slot + l.len <= comp.slots
            /\ comp.per % l.per = 0 /\ l.ph \in 0..(l.per - 1)
            /\ 1 <= l.from /\ l.from < l.to /\ l.to <= Len(pattern) + 1

Plain(p) == Range(p) \cap Trailers = {}
Sounds(p, c) == \A cycle \in 0..c.per : Compiled(c, cycle) = Meant(p, cycle)

(* A pattern that compiles plays what it says: in every cycle the notes of   *)
(* the list of events, by slot and class, are those of the pattern read one  *)
(* cycle at a time, at their exact share of it and for as long, a tie and    *)
(* alternation within alternation included (seq_pattern_compile).            *)
PlaysWhatIsWritten ==
    (Ok(comp) /\ Plain(pattern) /\ Cardinality({k \in DOMAIN pattern : pattern[k] = "_"}) <= 1) =>
        Sounds(pattern, comp)

(* 'A TIE: every note sounding up to here keeps sounding across this step',  *)
(* however many ties there are (seq_pattern_place_item).                     *)
TiesHold == (Ok(comp) /\ Plain(pattern)) => Sounds(pattern, comp)

(* 'Anything else is an error': a pattern is refused for what is written     *)
(* exactly when it is not well formed, however its brackets are nested.      *)
RefusedForItsForm ==
    Plain(pattern) =>
        (comp.err \in Syntax <=> ~WellFormed(pattern))

(* The playhead lights some characters in every slot of every cycle, all of  *)
(* them within the step that is sounding (seq_pattern_mark).                 *)
PlayheadOnItsStep ==
    (Ok(comp) /\ Plain(pattern)) =>
        LET tops == Tops(pattern, BodyFrom(pattern), Len(pattern) + 1)
        IN \A slot \in 0..(comp.slots - 1), cycle \in 0..(comp.per - 1) :
            LET mark == Mark(comp, slot, cycle)
                step == (slot \div comp.div) + 1
            IN /\ mark # <<>> /\ tops[step] <= mark[1]
               /\ step < Len(tops) => mark[2] <= tops[step + 1]

(* '/2', '*2' and '!4' come after the pattern in any order, one rate and one *)
(* count at most, and change nothing of what is laid down but how fast and   *)
(* how often (seq_pattern_trailer).                                          *)
RatesMoveNothing ==
    (Ok(comp) /\ ~Plain(pattern)) =>
        LET typed(T) == {k \in DOMAIN pattern : pattern[k] \in T}
            bare == Compile(SubSeq(pattern, 1, Min(typed(Trailers)) - 1))
        IN /\ Cardinality(typed({"/2", "*2"})) <= 1 /\ Cardinality(typed({"!4"})) <= 1
           /\ comp.rnum = IF typed({"*2"}) # {} THEN 2 ELSE 1
           /\ comp.rden = IF typed({"/2"}) # {} THEN 2 ELSE 1
           /\ comp.count = IF typed({"!4"}) # {} THEN 4 ELSE 0
           /\ bare.err \in {"ok", "fine"}
           /\ Ok(bare) => comp.leaf = bare.leaf /\ comp.slots = bare.slots /\ comp.per = bare.per

(* A pattern is refused for its form and no other reason, and what is laid   *)
(* down and lit is what is written (seq_pattern_compile, seq_pattern_mark).  *)
PatternIsMeant ==
    PlaysWhatIsWritten /\ RefusedForItsForm /\ PlayheadOnItsStep /\ RatesMoveNothing
=============================================================================
