------------------------------- MODULE OscWire -------------------------------
(* OSC from deck to deck: what the MIDI task sends is packed into one         *)
(* datagram a burst (osc.c, osc_pack.h), travels over a network that loses,   *)
(* repeats and delays, is cut at the size of the listener's buffer and read   *)
(* there with every length checked (osc_parse.h). A datagram is a sequence of *)
(* four-byte words and the bytes after the last whole one; a word of text     *)
(* says what it starts with and whether the string ends in it. The socket,    *)
(* the network and other senders are external.                                *)
EXTENDS Integers, Sequences, SequencesExt, FiniteSets

CONSTANTS
    Events,        \* what the MIDI task hands net_osc_send()
    Others,        \* datagrams of other senders
    PackWords,     \* s_raw holds 512 bytes
    ReadWords,     \* the listener's buf holds 512 bytes
    Depth,         \* OSC_BUNDLE_DEPTH
    MaxNet,        \* bound: datagrams on their way
    MaxOscChanges  \* bound: '>osc' commands and events
ASSUME OscAssumption == {PackWords, ReadWords, Depth, MaxNet} \subseteq Nat \ {0}

VARIABLES
    sock,      \* s_sock is open
    pk,        \* s_pk while s_open: its words, and the messages packed into it
    net,       \* datagrams on their way
    heard,     \* the datagram read last: what it was to say, what was handed on
    oscChanges

oscVars == <<sock, pk, net, heard, oscChanges>>

(***************************************************************************)
(* Words.                                                                  *)
(***************************************************************************)
Text(t, head, ends) == [k |-> "text", t |-> <<t>>, head |-> head, ends |-> ends]
Num(v) == [k |-> "int", v |-> v]          \* a small number: it has a zero byte
Half(v) == [k |-> "half", v |-> v]        \* the float v/2
Bundle == [k |-> "bundle"]
EndsString(w) == w.k # "text" \/ w.ends
Starts(w, c) == w.k = "text" /\ w.head = c
Tags(ts) == <<[k |-> "text", t |-> ts, head |-> ",", ends |-> TRUE]>>

(* "/deck/<name>": one word, or two for a longer name.                     *)
Address(name) == <<Text("deck", "/", FALSE), Text(name, "name", TRUE)>>

(***************************************************************************)
(* Packing. A message is a list of parts; all of them fit or none is kept. *)
(***************************************************************************)
Room(words, part) == Len(words) + Len(part) <= PackWords
Fill(words, parts) ==
    FoldLeft(LAMBDA acc, part : IF acc.ok /\ Room(acc.words, part)
                                THEN [ok |-> TRUE, words |-> acc.words \o part]
                                ELSE [acc EXCEPT !.ok = FALSE],
             [ok |-> TRUE, words |-> words], parts)

\* mutant: what did fit of a message that does not stays
KeepsHalf(words, parts) == Fill(words, parts)

Msg(words, parts) ==
    LET f == Fill(words, parts) IN IF f.ok THEN f ELSE [ok |-> FALSE, words |-> words]

(* What net_osc_send() makes of an event: the step marker, a note that     *)
(* starts, a controller; a note that ends and the rest are not sent.       *)
Step(e) == e.status = 249
Wanted(e) == (e.status \div 16 = 9 /\ e.d2 > 0) \/ e.status \div 16 = 11
PartsOf(e) ==
    IF Step(e) THEN <<Address("step"), Tags(<<"i">>), <<Num(e.d1)>>>>
    ELSE <<Address(e.lane), Tags(<<"i", "i">>), <<Num(e.d1)>>, <<Num(e.d2)>>>>
Means(e) == [name |-> IF Step(e) THEN "step" ELSE e.lane, value |-> IF Step(e) THEN e.d1 ELSE e.d2]

Closed == [open |-> FALSE, words |-> <<>>, msgs |-> <<>>]
PkOpen == IF pk.open THEN pk ELSE [open |-> TRUE, words |-> <<>>, msgs |-> <<>>]

NetOscSend(e) ==
    /\ oscChanges < MaxOscChanges /\ oscChanges' = oscChanges + 1
    /\ IF ~sock THEN UNCHANGED pk
       ELSE IF ~Step(e) /\ ~Wanted(e) THEN pk' = PkOpen
       ELSE LET f == Msg(PkOpen.words, PartsOf(e))
            IN  pk' = [open |-> TRUE, words |-> f.words,
                       msgs |-> IF f.ok THEN Append(PkOpen.msgs, Means(e)) ELSE PkOpen.msgs]
    /\ UNCHANGED <<sock, net, heard>>

Datagram(words, odd, msgs, good) == [words |-> words, odd |-> odd, msgs |-> msgs, good |-> good]

(* Fire and forget: a send that fails is a datagram the less.              *)
NetOscFlush ==
    /\ pk.open /\ pk' = Closed
    /\ IF sock /\ pk.words # <<>> /\ Len(net) < MaxNet
       THEN net' \in {net, Append(net, Datagram(pk.words, 0, pk.msgs, TRUE))}
       ELSE UNCHANGED net
    /\ UNCHANGED <<sock, heard, oscChanges>>

(* '>osc <ip> <port>': the old socket goes; an address that is none, or a  *)
(* stack without sockets, leaves the deck without.                         *)
NetOscTarget ==
    /\ oscChanges < MaxOscChanges /\ oscChanges' = oscChanges + 1
    /\ sock' \in BOOLEAN
    /\ UNCHANGED <<pk, net, heard>>

(***************************************************************************)
(* Reading, at a word and inside a packet that ends at another. A reader   *)
(* says where it stopped; 0 is -1, not something that can be read.         *)
(***************************************************************************)
RdStr(w, at, end) ==
    LET ends == {j \in at..end : EndsString(w[j])}
    IN  IF ends = {} THEN 0 ELSE (CHOOSE j \in ends : \A k \in ends : j <= k) + 1

Malformed == [at |-> 0, n |-> 0, last |-> 0, msgs |-> <<>>]
Skip(m, words, end) == IF m.at + words - 1 <= end THEN [m EXCEPT !.at = @ + words] ELSE Malformed
Number(m, v) == IF m = Malformed THEN m ELSE [m EXCEPT !.n = @ + 1, !.last = v]

(* The number a word holds: a fraction is its float, anything else is      *)
(* taken as it is; text read as a number is a large one.                   *)
Clamp(v) == IF v < 0 THEN 0 ELSE IF v > 127 THEN 127 ELSE v
WordValue(w, t) ==
    CASE w.k = "half" /\ t = "f" -> IF w.v \in 0..2 THEN (w.v * 127 + 1) \div 2
                                    ELSE Clamp((w.v + 1) \div 2)
      [] w.k = "int" /\ t = "i" -> Clamp(w.v)
      [] OTHER -> IF t = "i" THEN 127 ELSE 0

RdTag(w, m, t, end) ==
    CASE m = Malformed -> m
      [] t \in {"i", "f"} ->
            IF m.at > end THEN Malformed ELSE Number(Skip(m, 1, end), WordValue(w[m.at], t))
      [] t = "c" -> Skip(m, 1, end)
      [] t = "h" ->
            IF m.at + 1 > end THEN Malformed ELSE Number(Skip(m, 2, end), WordValue(w[m.at + 1], "i"))
      [] t = "s" -> LET next == RdStr(w, m.at, end)
                    IN  IF next = 0 THEN Malformed ELSE [m EXCEPT !.at = next]
      [] t = "b" -> IF m.at > end \/ w[m.at].k # "int" \/ w[m.at].v > 4 * (end - m.at) THEN Malformed
                    ELSE Skip(m, 1 + (w[m.at].v + 3) \div 4, end)
      [] t = "T" -> Number(m, 1)
      [] t = "N" -> m
      [] OTHER -> Malformed

(* The name in "/deck/<name>"; what has another address is for nobody here.*)
NameOf(addr) ==
    IF Len(addr) = 2 /\ addr[1].t = <<"deck">> /\ addr[2].k = "text" THEN addr[2].t[1] ELSE "nobody"

(* One message: an address, and if type tags follow, what they announce.   *)
RdMsg(w, at, end) ==
    LET next == IF Starts(w[at], "/") THEN RdStr(w, at, end) ELSE 0
        tags == IF next \in 1..end /\ Starts(w[next], ",") THEN RdStr(w, next, end) ELSE 0
        m == FoldLeft(LAMBDA acc, t : RdTag(w, acc, t, end),
                      [at |-> tags, n |-> 0, last |-> 0, msgs |-> <<>>],
                      IF tags = 0 THEN <<>> ELSE w[next].t)
        told(n, v) == <<[name |-> NameOf(SubSeq(w, at, next - 1)), value |-> IF n = 0 THEN 127 ELSE v]>>
    IN  IF next = 0 THEN Malformed
        ELSE IF next > end \/ Starts(w[next], "/")
             THEN [at |-> next, n |-> 0, last |-> 0, msgs |-> told(0, 0)]
        ELSE IF tags = 0 \/ m = Malformed THEN Malformed
        ELSE [m EXCEPT !.msgs = told(m.n, m.last)]

(* Messages back to back, or a bundle of packets each behind its size. The *)
(* messages come in the order they are read, those before a fault as well: *)
(* this is a walk that hands them on.                                      *)
RECURSIVE RdPacket(_, _, _, _), RdMsgs(_, _, _), RdElements(_, _, _, _)
Then(msgs, rest) == [ok |-> rest.ok, msgs |-> msgs \o rest.msgs]
RdMsgs(w, at, end) ==
    IF at > end THEN [ok |-> TRUE, msgs |-> <<>>]
    ELSE LET m == RdMsg(w, at, end)
         IN  IF m = Malformed THEN [ok |-> FALSE, msgs |-> <<>>]
             ELSE Then(m.msgs, RdMsgs(w, m.at, end))
RdElements(w, at, end, depth) ==
    IF at > end THEN [ok |-> TRUE, msgs |-> <<>>]
    ELSE LET n == IF w[at].k = "int" THEN w[at].v ELSE 0
             last == at + n \div 4
         IN  IF n <= 0 \/ n % 4 # 0 \/ last > end THEN [ok |-> FALSE, msgs |-> <<>>]
             ELSE LET e == RdPacket(w, at + 1, last, depth + 1)
                  IN  IF ~e.ok THEN e ELSE Then(e.msgs, RdElements(w, last + 1, end, depth))
RdPacket(w, at, end, depth) ==
    IF end - at + 1 >= 4 /\ w[at] = Bundle
    THEN IF depth >= Depth THEN [ok |-> FALSE, msgs |-> <<>>] ELSE RdElements(w, at + 4, end, depth)
    ELSE IF at > end THEN [ok |-> FALSE, msgs |-> <<>>] ELSE RdMsgs(w, at, end)

\* mutant: the walk that checks is the walk that hands on
OneWalk(w) == RdPacket(w, 1, Len(w), 0)

(* osc_parse() walks a datagram twice, the first time only to check it.    *)
Walks(w) == LET p == RdPacket(w, 1, Len(w), 0)
            IN  IF p.ok THEN p ELSE [ok |-> FALSE, msgs |-> <<>>]

(* in_task() and in_msg(): what does not fit the buffer is cut off.        *)
Read(d) ==
    LET cut == Len(d.words) > ReadWords
        w == IF cut THEN SubSeq(d.words, 1, ReadWords) ELSE d.words
        p == IF (d.odd # 0 /\ ~cut) \/ w = <<>> THEN [ok |-> FALSE, msgs |-> <<>>] ELSE Walks(w)
    IN  [good |-> d.good, msgs |-> d.msgs, refused |-> ~p.ok,
         took |-> SelectSeq(p.msgs, LAMBDA m : m.name # "nobody")]

(* A datagram may come twice, and after one that was sent later.           *)
Receive == \E i \in DOMAIN net :
    /\ heard' = Read(net[i]) /\ net' \in {RemoveAt(net, i), net}
    /\ UNCHANGED <<sock, pk, oscChanges>>

FromOthers == \E d \in Others :
    /\ heard' = Read(d) /\ UNCHANGED <<sock, pk, net, oscChanges>>

Loses == \E i \in DOMAIN net :
    /\ net' = RemoveAt(net, i) /\ UNCHANGED <<sock, pk, heard, oscChanges>>

OscInit ==
    /\ sock = FALSE /\ pk = Closed /\ net = <<>> /\ oscChanges = 0
    /\ heard = [good |-> TRUE, msgs |-> <<>>, refused |-> FALSE, took |-> <<>>]

OscNext ==
    \/ (\E e \in Events : NetOscSend(e)) \/ NetOscFlush \/ NetOscTarget
    \/ Receive \/ Loses \/ FromOthers

(***************************************************************************)
(* Properties.                                                             *)
(***************************************************************************)
OscTypeOK ==
    /\ sock \in BOOLEAN /\ pk.open \in BOOLEAN
    /\ Len(pk.words) <= PackWords /\ Len(net) <= MaxNet
    /\ \A m \in Range(heard.took) : m.value \in 0..127

(* What one deck packed another reads: every message, in order and with    *)
(* its value, of a datagram filled to any point, whatever did not fit it;  *)
(* and the same of anybody's datagram that is well formed, in bundles too. *)
HeardAsMeant == heard.good => ~heard.refused /\ heard.took = heard.msgs

(* A datagram with a fault anywhere - cut short, a size that lies, a type  *)
(* nobody can step over, bundles too deep - is refused, and refused whole: *)
(* none of the messages before the fault is acted on.                      *)
RefusedWhole == (~heard.good => heard.refused) /\ (heard.refused => heard.took = <<>>)

(* What one deck packs another reads as it was meant, and what is malformed  *)
(* changes nothing (osc_msg_ii, osc_parse).                                  *)
DatagramIsRead == HeardAsMeant /\ RefusedWhole
=============================================================================
