----------------------------- MODULE EditorView -----------------------------
(* One document on the glass (main/editor.c): the text wrapped at the        *)
(* display's columns in a window around the cursor, the cursor's motions,    *)
(* the view that follows it, and the mark of the character a command was     *)
(* refused for. Offsets are the source's: 0 is the first character.          *)
EXTENDS Integers, SequencesExt

CONSTANTS TextCols, TextRows, PaneRows,  \* the grid, and a preview's rows
          WrapBack, MaxLines,            \* how far the table reaches
          Texts,                         \* documents it may be opened on
          MaxText, MaxKeys               \* bounds
ASSUME ViewAssumption == /\ {TextCols, TextRows, WrapBack, MaxLines} \subseteq Nat \ {0}
                         /\ PaneRows < TextRows

VARIABLES text, cur,
          top,      \* the offset the view is anchored to
          goal,     \* the goal column of vertical motion, or None
          errOff,   \* the refused character, or None
          glass,    \* what was drawn last, until the next key
          moved,    \* history: the table an up or down was made from, the
                    \* text a refusal was for, the column up and down began at
          keysLeft
viewVars == <<text, cur, top, goal, errOff, glass, moved, keysLeft>>

None == -1
NL == "nl"
Chars == {"a", " ", ">", NL}
Char(t, i) == t[i + 1]
MaxOr(S, d) == IF S = {} THEN d ELSE Max(S)
MinOr(S, d) == IF S = {} THEN d ELSE Min(S)

-----------------------------------------------------------------------------
(* wrap(): where each display line starts, and where the cursor is.          *)
Origin(t, c) ==
    IF c <= WrapBack THEN 0
    ELSE MinOr({i \in (c - WrapBack)..c : i = c \/ Char(t, i - 1) = NL}, c)

\* mutant: breaks after the space that follows the line too
BreakLate(t, b) ==
    LET spaces == {i \in (b + 1)..Min({b + TextCols, Len(t) - 1}) : Char(t, i) = " "}
    IN IF spaces = {} THEN b + TextCols ELSE Max(spaces) + 1
\* After the last space of a full line that is not its first character, or at
\* the column.
Break(t, b) ==
    LET spaces == {i \in (b + 1)..(b + TextCols - 1) : Char(t, i) = " "}
    IN IF spaces = {} THEN b + TextCols ELSE Max(spaces) + 1
RECURSIVE Starts(_, _)
Starts(t, s) ==
    LET b == Last(s)
        ends == {i \in b..(Min({b + TextCols, Len(t)}) - 1) : Char(t, i) = NL}
    IN IF Len(s) >= MaxLines THEN s
       ELSE IF ends # {} THEN Starts(t, Append(s, Min(ends) + 1))
       ELSE IF b + TextCols <= Len(t) THEN Starts(t, Append(s, Break(t, b)))
       ELSE s

(* The line that holds the cursor; the first when the table ends before it,  *)
(* unless it was passed on the way to the break that ended the table.        *)
CursorLine(t, c, s) ==
    LET k == Max({j \in DOMAIN s : s[j] <= c})
        before == s[Len(s) - 1]
        cut == Len(s) >= MaxLines /\ c > Last(s)
        passed == /\ Len(s) > 1 /\ c < before + TextCols
                  /\ ~\E i \in before..(c - 1) : Char(t, i) = NL
    IN IF ~cut THEN [line |-> k, col |-> c - s[k]]
       ELSE IF passed THEN [line |-> Len(s) - 1, col |-> c - before]
       ELSE [line |-> 1, col |-> 0]
Wrap(t, c) ==
    LET s == Starts(t, <<Origin(t, c)>>)
        at == CursorLine(t, c, s)
    IN [start |-> s, line |-> at.line, col |-> at.col]

LineEnd(t, w, k) == IF k < Len(w.start) THEN w.start[k + 1] ELSE Len(t)
\* A line's end without its newline.
Bound(t, w, k) ==
    MaxOr({i \in w.start[k]..LineEnd(t, w, k) : i > w.start[k] /\ Char(t, i - 1) # NL}, w.start[k])

-----------------------------------------------------------------------------
(* The motions. Each reads the table made when the key came.                 *)
Clamp(x, lo, hi) == Max({lo, Min({x, hi})})
Keep == keysLeft > 0 /\ keysLeft' = keysLeft - 1
Clean == [first |-> 0, rows |-> 0]
NoTable == [start |-> <<>>, line |-> 0, col |-> 0]
Note(key, table, of, from) ==
    moved' = [key |-> key, was |-> table, of |-> of, from |-> from] /\ glass' = Clean
\* mutant: the mark stays on through an edit
Marked == errOff' = errOff
Unmarked == errOff' = None
Motion(to) ==
    /\ Keep /\ cur' = to /\ goal' = None /\ Note("motion", NoTable, moved.of, None)
    /\ UNCHANGED <<text, top, errOff>>

Left == Motion(Max({0, cur - 1}))
Right == Motion(Min({Len(text), cur + 1}))
Home == LET w == Wrap(text, cur) IN Motion(w.start[w.line])
End == LET w == Wrap(text, cur) IN Motion(Bound(text, w, w.line))

\* mutant: the column reached becomes the goal
GoalHere(w) == w.col
\* goto_line_col() and move_vertical()
GoalFrom(w) == IF goal = None THEN w.col ELSE goal
Landing(w, k, want) == w.start[k] + Min({want, Bound(text, w, k) - w.start[k]})
Vertical(how, delta) ==
    LET w == Wrap(text, cur)
        want == GoalFrom(w)
        k == Clamp(w.line + delta, 1, Len(w.start))
    IN /\ Keep /\ goal' = want /\ cur' = Landing(w, k, want)
       /\ Note(how, w, moved.of, IF goal = None THEN w.col ELSE moved.from)
       /\ UNCHANGED <<text, top, errOff>>
Up == Vertical("up", -1)
Down == Vertical("down", 1)

(* The edits: each forgets the refused character.                            *)
Edit(t, c) ==
    /\ Keep /\ text' = t /\ cur' = c /\ goal' = None /\ Unmarked /\ Note("edit", NoTable, <<>>, None)
    /\ UNCHANGED top
Cut(from, to) == SubSeq(text, 1, from) \o SubSeq(text, to + 1, Len(text))
Insert == \E ch \in Chars : Len(text) < MaxText
            /\ Edit(SubSeq(text, 1, cur) \o <<ch>> \o SubSeq(text, cur + 1, Len(text)), cur + 1)
\* mutant: at the start of the document too
BackspaceAnywhere == Edit(Cut(cur - 1, cur), cur - 1)
Backspace == IF cur = 0 THEN Edit(text, cur) ELSE Edit(Cut(cur - 1, cur), cur - 1)
KillLine ==
    LET w == Wrap(text, cur)
        e == Bound(text, w, w.line)
    IN IF e > cur THEN Edit(Cut(cur, e), cur) ELSE Edit(text, e)
IsWord(ch) == ch = "a"
KillWord ==
    LET word == MaxOr({i \in 1..cur : IsWord(Char(text, i - 1))}, 0)
        from == MaxOr({i \in 1..word : ~IsWord(Char(text, i - 1))}, 0)
    IN Edit(Cut(from, cur), from)

(* current_line() and run_current_line(): a command is the run between       *)
(* newlines, wherever its rows break; what it finds wrong it marks.          *)
LineFrom(t, c) == MaxOr({i \in 1..c : Char(t, i - 1) = NL}, 0)
LineTo(t, c) == MinOr({i \in LineFrom(t, c)..(Len(t) - 1) : Char(t, i) = NL}, Len(t))
FirstBlank(t, c) == MinOr({i \in LineFrom(t, c)..(LineTo(t, c) - 1) : Char(t, i) # " "}, LineTo(t, c))
Run ==
    LET from == LineFrom(text, cur)
        first == FirstBlank(text, cur)
        command == first < LineTo(text, cur) /\ Char(text, first) = ">"
    IN /\ Keep /\ goal' = None
       /\ IF command
          THEN \/ errOff' = first + 1 /\ Note("run", NoTable, text, None)
               \/ Unmarked /\ Note("run", NoTable, <<>>, None)
          ELSE Unmarked /\ Note("run", NoTable, <<>>, None)
       /\ UNCHANGED <<text, cur, top>>

-----------------------------------------------------------------------------
(* editor_draw(): the view is found by its anchor, scrolled to the cursor    *)
(* and anchored again; a preview takes rows from the bottom.                 *)
\* mutant: the view never moves down
Scrolled(t, line, rows) == Min({t, line})
Follow(t, line, rows) == IF line < t THEN line
                         ELSE IF line >= t + rows THEN line - rows + 1 ELSE t
PlaceOf(t, w, k, c) ==
    LET i == w.start[k] + c
    IN IF k \notin DOMAIN w.start \/ i >= LineEnd(t, w, k) THEN None ELSE i
DrawView ==
    LET w == Wrap(text, cur)
        anchored == MaxOr({k \in DOMAIN w.start : w.start[k] <= top}, 1)
    IN \E rows \in {TextRows, TextRows - PaneRows} :
        LET first == Follow(anchored, w.line, rows)
        IN /\ top' = w.start[first]
           /\ glass' = [first |-> first, rows |-> rows]
           /\ UNCHANGED <<text, cur, goal, errOff, moved, keysLeft>>

ViewInit ==
    /\ text \in Texts /\ cur \in {0, Len(text)} /\ top = 0 /\ goal = None /\ errOff = None
    /\ glass = Clean /\ moved = [key |-> "none", was |-> NoTable, of |-> <<>>, from |-> None]
    /\ keysLeft = MaxKeys
ViewNext == \/ Left \/ Right \/ Home \/ End \/ Up \/ Down
            \/ Insert \/ Backspace \/ KillLine \/ KillWord \/ Run \/ DrawView
ViewSpec == ViewInit /\ [][ViewNext]_viewVars

-----------------------------------------------------------------------------
ViewTypeOK ==
    /\ text \in Seq(Chars) /\ Len(text) <= MaxText
    /\ cur \in 0..Len(text) /\ goal \in None..TextCols /\ top \in 0..MaxText
    /\ errOff \in None..MaxText

Reached(w) == Len(w.start) < MaxLines
Shown(k) == k >= glass.first /\ k < glass.first + glass.rows
Drawn == glass # Clean
Found(w) == w.start[w.line] + w.col = cur

(* The cursor is on the glass after every draw, on its own character: the    *)
(* line the view scrolls to is the one that holds the cursor, whatever the   *)
(* anchor was before and whatever was typed, cut or switched since           *)
(* (editor_draw, wrap).                                                      *)
CursorOnGlass ==
    Drawn => LET w == Wrap(text, cur)
             IN Reached(w) => Found(w) /\ w.col < TextCols /\ Shown(w.line)

(* 'Wrapping a bounded window around the cursor removes the cliff': however  *)
(* the lines before it are, the table reaches the cursor (wrap).             *)
CursorAlwaysFound == Drawn => Found(Wrap(text, cur))

(* Every character of the shown lines has a cell of its own: none of a       *)
(* wrapped line is past the last column, and a line begins where the one     *)
(* before it ended (wrap).                                                   *)
EveryCharacterShown ==
    LET w == Wrap(text, cur)
    IN (Drawn /\ Reached(w)) =>
        \A i \in w.start[1]..(Len(text) - 1) :
            \/ Cardinality({<<k, c>> \in (DOMAIN w.start) \X (0..(TextCols - 1)) :
                               PlaceOf(text, w, k, c) = i}) = 1
            \/ Char(text, i) = NL

(* 'So it never points at the wrong text': the refused character is marked   *)
(* only while the text is the one the command was run from (s_err_off).      *)
MarkOnItsText == errOff # None => text = moved.of

(* 'A single short line passed through loses the column for good': moving    *)
(* up or down among lines that end in a newline the cursor is as near to the *)
(* column it set out from as each line allows (move_vertical).               *)
AfterNewline(i) == i = 0 \/ Char(text, i - 1) = NL
HardLine(w, k) == AfterNewline(w.start[k]) /\ (k = Len(w.start) \/ AfterNewline(w.start[k + 1]))
ColumnKept ==
    LET now == Wrap(text, cur)
        was == moved.was
    IN (moved.key \in {"up", "down"} /\ HardLine(now, now.line) /\ Reached(now)
        /\ \A k \in {was.line - 1, was.line} \cap DOMAIN was.start : HardLine(was, k)) =>
        now.col = Min({moved.from, Bound(text, now, now.line) - now.start[now.line]})

(* 'Move the cursor to a display line and column': up is a line up.          *)
UpGoesUp ==
    (moved.key = "up" /\ moved.was.line > 1 /\ Reached(moved.was)) =>
        cur < moved.was.start[moved.was.line]

(* What is drawn after any key is the text around the cursor, the cursor and *)
(* the mark on it (wrap, editor_draw).                                       *)
ViewFollows == CursorOnGlass /\ EveryCharacterShown /\ MarkOnItsText /\ ColumnKept
=============================================================================
