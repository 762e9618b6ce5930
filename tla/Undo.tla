-------------------------------- MODULE Undo --------------------------------
(***************************************************************************)
(* Undo as an operation log (firmware/components/docstore/undo.c): one log *)
(* for all the buffers, each entry tagged with the slot it was made in, a  *)
(* run of typing or of deleting coalesced into one entry.                  *)
(*                                                                         *)
(* What may befall an entry between being recorded and being applied is    *)
(* all here: edits in other buffers, lines appended to "+out" behind the   *)
(* log's back, the log running over, a redo tail discarded, a buffer       *)
(* closed and its slot taken by a new one.                                 *)
(***************************************************************************)
EXTENDS Integers, Sequences

CONSTANTS
    Pages,       \* buffer slots
    OutSlot,     \* the one "+out" is in
    Letters, Spaces,
    Steps,       \* UNDO_STEPS
    RunMax,      \* UNDO_RUN_MAX
    Capacity,    \* DOC_CAPACITY
    MaxEdits,    \* bound: keys pressed since the last reset
    Closes,      \* bound: whether buffers are closed and slots reused
    NoEdit

Chars == Letters \cup Spaces

ASSUME UndoAssumption ==
    /\ OutSlot \in Pages
    /\ Steps \in Nat \ {0} /\ RunMax \in Nat \ {0} /\ Capacity \in Nat
    /\ MaxEdits \in Nat /\ Closes \in BOOLEAN
    /\ NoEdit \notin Seq(Chars)

VARIABLES
    text,     \* [Pages -> text or NoText when the slot is free]
    gs,       \* [Pages -> where the gap is]
    onPage,      \* the current buffer
    ops,      \* s_ops[0 .. s_count - 1]
    cursor,   \* s_cursor: how many of them are in the text
    edits,    \* keys pressed
    clipped,  \* an entry put back into "+out" lost characters: it was full
    stray     \* a slot was taken over with entries of its last buffer in the log

undoVars == <<text, gs, onPage, ops, cursor, edits, clipped, stray>>

(***************************************************************************)
(* The gap buffer under an operation applied: doc_move_to() stops at the   *)
(* end, doc_insert() drops what does not fit, doc_backspace() stops at the *)
(* beginning.                                                              *)
(***************************************************************************)
Least(a, b)  == IF a < b THEN a ELSE b
Before(t, p) == SubSeq(t, 1, p)
After(t, p)  == SubSeq(t, p + 1, Len(t))

Inserted(t, p, s) ==
    LET q    == Least(p, Len(t))
        fits == SubSeq(s, 1, Least(Len(s), Capacity - Len(t)))
    IN  [text |-> Before(t, q) \o fits \o After(t, q), at |-> q + Len(fits)]

Deleted(t, p, n) ==
    LET q == Least(p, Len(t))
        m == Least(n, q)
    IN  [text |-> Before(t, q - m) \o After(t, q), at |-> q - m]

Backward(op, t) ==
    IF op.type = "insert" THEN Deleted(t, op.pos + Len(op.text), Len(op.text))
    ELSE Inserted(t, op.pos, op.text)

Forward(op, t) ==
    IF op.type = "insert" THEN Inserted(t, op.pos, op.text)
    ELSE Deleted(t, op.pos + Len(op.text), Len(op.text))

-----------------------------------------------------------------------------
UndoInit ==
    /\ text = [i \in Pages |-> <<>>]
    /\ gs = [i \in Pages |-> 0]
    /\ onPage \in Pages
    /\ ops = <<>> /\ cursor = 0 /\ edits = 0 /\ clipped = FALSE /\ stray = FALSE

\* drop_redo(): the entries before the cursor, and no other.
Done == SubSeq(ops, 1, cursor)

\* last_op(): the entry a run may go on in, if it was made in this buffer.
LastIsAnyones == cursor > 0                            \* mutant
LastIsOurs == cursor > 0 /\ ops[cursor].buf = onPage

Continues(type, p) ==
    /\ LastIsOurs
    /\ LET op == ops[cursor]
       IN  /\ op.type = type /\ ~op.closed /\ Len(op.text) < RunMax
           /\ type = "insert" => op.pos + Len(op.text) = p
           /\ type = "delete" => op.pos = p + 1

LogFullLate == cursor > Steps                          \* mutant
LogFull == cursor >= Steps

\* undo_record_insert() and undo_record_delete(): the character joins the run
\* or starts an entry, the oldest one falling off a full log.
NeverWord(type, c) == FALSE                          \* mutant
EndsWord(type, c) == type = "insert" /\ c \in Spaces

Record(type, p, c) ==
    LET goes == Continues(type, p)
        run  == IF ~goes THEN <<c>>
                ELSE IF type = "insert" THEN Append(ops[cursor].text, c)
                ELSE <<c>> \o ops[cursor].text
        op   == [type |-> type, buf |-> onPage, text |-> run,
                 pos |-> IF goes /\ type = "insert" THEN ops[cursor].pos ELSE p,
                 closed |-> EndsWord(type, c) \/ Len(run) >= RunMax]
        log  == IF goes THEN SubSeq(Done, 1, cursor - 1)
                ELSE IF LogFull THEN SubSeq(Done, 2, cursor) ELSE Done
    IN  ops' = Append(log, op) /\ cursor' = Len(log) + 1

\* A key typed: dropped when the buffer is full.
Type(c) ==
    /\ edits < MaxEdits /\ Len(text[onPage]) < Capacity
    /\ Record("insert", gs[onPage], c)
    /\ text' = [text EXCEPT ![onPage] = Inserted(@, gs[onPage], <<c>>).text]
    /\ gs' = [gs EXCEPT ![onPage] = @ + 1]
    /\ edits' = edits + 1
    /\ UNCHANGED <<onPage, clipped, stray>>

Backspace ==
    /\ edits < MaxEdits /\ gs[onPage] > 0
    /\ Record("delete", gs[onPage] - 1, text[onPage][gs[onPage]])
    /\ text' = [text EXCEPT ![onPage] = Deleted(@, gs[onPage], 1).text]
    /\ gs' = [gs EXCEPT ![onPage] = @ - 1]
    /\ edits' = edits + 1
    /\ UNCHANGED <<onPage, clipped, stray>>

Move(p) ==
    /\ p <= Len(text[onPage])
    /\ gs' = [gs EXCEPT ![onPage] = p]
    /\ UNCHANGED <<text, onPage, ops, cursor, edits, clipped, stray>>

SelectBuffer(i) ==
    /\ text[i] # NoEdit /\ onPage' = i
    /\ UNCHANGED <<text, gs, ops, cursor, edits, clipped, stray>>

Grows(op) == IF op.type = "insert" THEN Len(op.text) ELSE -Len(op.text)
Apply(new, grows) ==
    /\ clipped' = (clipped \/ (onPage = OutSlot /\ Len(new.text) # Len(text[onPage]) + grows))
    /\ text' = [text EXCEPT ![onPage] = new.text]
    /\ gs' = [gs EXCEPT ![onPage] = new.at]
    /\ UNCHANGED <<onPage, ops, edits, stray>>

\* doc_undo() and doc_redo(): refused when the entry is another buffer's.
UndoIt ==
    /\ cursor > 0 /\ ops[cursor].buf = onPage
    /\ cursor' = cursor - 1
    /\ Apply(Backward(ops[cursor], text[onPage]), -Grows(ops[cursor]))

RedoIt ==
    /\ cursor < Len(ops) /\ ops[cursor + 1].buf = onPage
    /\ cursor' = cursor + 1
    /\ Apply(Forward(ops[cursor + 1], text[onPage]), Grows(ops[cursor + 1]))

\* doc_buf_append() of an empty line to "+out", whichever buffer is current:
\* nothing is recorded, and the cursor stays unless it is this buffer's.
PrintsLine(c) ==
    /\ text[OutSlot] # NoEdit /\ Len(text[OutSlot]) < Capacity
    /\ text' = [text EXCEPT ![OutSlot] = Append(@, c)]
    /\ gs' = IF onPage = OutSlot THEN [gs EXCEPT ![onPage] = Len(text[onPage]) + 1] ELSE gs
    /\ UNCHANGED <<onPage, ops, cursor, edits, clipped, stray>>

\* doc_set_text(): another text altogether, and the log forgotten.
SetText(t) ==
    /\ text' = [text EXCEPT ![onPage] = t]
    /\ gs' = [gs EXCEPT ![onPage] = Len(t)]
    /\ ops' = <<>> /\ cursor' = 0
    /\ UNCHANGED <<onPage, edits, clipped, stray>>

\* doc_buf_close() of the current buffer, and doc_buf_new() in the slot it
\* leaves: neither touches the log.
CloseBuffer(i) ==
    /\ Closes /\ text[i] # NoEdit /\ i # onPage
    /\ text' = [text EXCEPT ![onPage] = NoEdit]
    /\ gs' = [gs EXCEPT ![onPage] = 0]
    /\ onPage' = i
    /\ UNCHANGED <<ops, cursor, edits, clipped, stray>>

NewBuffer(i) ==
    /\ text[i] = NoEdit
    /\ text' = [text EXCEPT ![i] = <<>>]
    /\ onPage' = i
    /\ stray' = (stray \/ \E k \in 1 .. Len(ops) : ops[k].buf = i)
    /\ UNCHANGED <<gs, ops, cursor, edits, clipped>>

UndoNext ==
    \/ \E c \in Chars : Type(c)
    \/ Backspace
    \/ \E p \in 0 .. Capacity : Move(p)
    \/ \E i \in Pages : SelectBuffer(i) \/ CloseBuffer(i) \/ NewBuffer(i)
    \/ UndoIt \/ RedoIt
    \/ \E c \in Spaces : PrintsLine(c)
    \/ SetText(<<>>)

UndoSpec == UndoInit /\ [][UndoNext]_undoVars

-----------------------------------------------------------------------------
Ops == [type : {"insert", "delete"}, buf : Pages, text : Seq(Chars),
        pos : Nat, closed : BOOLEAN]

\* The types, and the log within its bounds: no more entries than there is
\* room for, none empty or longer than a run may be.
UndoTypeOK ==
    /\ \A i \in Pages : text[i] # NoEdit =>
           text[i] \in Seq(Chars) /\ Len(text[i]) <= Capacity /\ gs[i] \in 0 .. Len(text[i])
    /\ onPage \in Pages /\ text[onPage] # NoEdit
    /\ ops \in Seq(Ops) /\ Len(ops) <= Steps /\ cursor \in 0 .. Len(ops)
    /\ \A k \in 1 .. Len(ops) : Len(ops[k].text) \in 1 .. RunMax

\* What a buffer holds after undoing down to k entries, or redoing up to k.
UndoneTo(k, i) ==
    LET f[j \in k .. cursor] ==
            IF j = cursor THEN text[i]
            ELSE IF ops[j + 1].buf = i THEN Backward(ops[j + 1], f[j + 1]).text ELSE f[j + 1]
    IN  f[k]
RedoneTo(k, i) ==
    LET f[j \in cursor .. k] ==
            IF j = cursor THEN text[i]
            ELSE IF ops[j].buf = i THEN Forward(ops[j], f[j - 1]).text ELSE f[j - 1]
    IN  f[k]

\* What an entry puts back fits. Only "+out", which grows without being recorded,
\* can run full, and what it drops then it drops on the way to every entry beyond.
Fits(op, t) == Len(t) + Len(op.text) <= Capacity
ClearBack(k, i) == i = OutSlot => ~clipped /\ \A j \in k .. cursor :
    ops[j].buf = i /\ ops[j].type = "delete" => Fits(ops[j], UndoneTo(j, i))
ClearOn(k, i) == i = OutSlot => ~clipped /\ \A j \in cursor + 1 .. k :
    ops[j].buf = i /\ ops[j].type = "insert" => Fits(ops[j], RedoneTo(j - 1, i))

\* "The log is global but an edit belongs to ONE buffer" (undo.c:74): however
\* far back or forward one goes in a buffer that is open, every entry finds its own
\* characters where it left them, so what undo took away redo puts back, and the
\* reverse.
EveryEntryFits == \A k \in 1 .. Len(ops) :
    LET op == ops[k]
        i  == op.buf
    IN  text[i] # NoEdit =>
        /\ k <= cursor /\ ClearBack(k, i) =>
               LET t == UndoneTo(k, i) IN Forward(op, Backward(op, t).text).text = t
        /\ k > cursor /\ ClearOn(k, i) =>
               LET t == RedoneTo(k - 1, i) IN Backward(op, Forward(op, t).text).text = t

\* The same of buffers that never shared a slot: through undo, redo, typing and
\* moving in several buffers, lines printed to "+out", a log that runs over and
\* slots closed and reused, no entry is applied to a text it does not fit
\* unless a slot was taken over with entries of its last buffer in the log.
RoundTrip == stray \/ EveryEntryFits

\* "Whitespace ends the run, so undo steps back a word at a time" (undo.c:133):
\* through every undo, redo and change of buffer, no entry typed spans two words.
WordAtATime ==
    \A k \in 1 .. Len(ops) : ops[k].type = "insert" =>
        \A j \in 1 .. Len(ops[k].text) - 1 : ops[k].text[j] \notin Spaces

\* The log through undo, redo, typing, closing and printing: every entry fits
\* the text it is of, and none typed spans two words (undo.c).
LogKept == RoundTrip /\ WordAtATime
=============================================================================
