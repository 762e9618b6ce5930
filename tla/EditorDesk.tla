----------------------------- MODULE EditorDesk -----------------------------
(* Which document is under the hands (main/editor.c): lines run and where    *)
(* their output is shown, the way back, the question a command asks, the     *)
(* mark of a refused character and what the status bar says; with the ssh    *)
(* session that shows its output when it ends (main/main.c).                 *)
EXTENDS Integers, FiniteSetsExt

CONSTANTS DocSlots,  \* 0 .. n - 1
          MaxEdits, MaxSecret   \* bounds

VARIABLES buf,       \* a slot's name, "" for a scratch, Free
          here,      \* the current slot
          prev,      \* s_prev_buf
          ver,       \* edits of a slot's text: the owner's, not what is appended
          mark,      \* s_err_off, with what it was set by and for, and 'left' when a
                     \* session's end took the view away meanwhile
          ask,       \* [on, len, fn]
          bar,       \* what the status bar has to say now, and after it: the way back,
                     \* or that unless another message outlasts it
          shown,     \* history: the slot the view was taken from to '+out'
          left       \* edits left, and whether an ssh session is on
deskVars == <<buf, here, prev, ver, mark, ask, bar, shown, left>>

Free == "free"
Out == "+out"
NoMark == [slot |-> -1, ver |-> 0, by |-> "none"]
NoQuestion == [on |-> FALSE, len |-> 0, fn |-> "none"]
Quiet == [now |-> "name", next |-> "name"]
NSlots == Cardinality(DocSlots)

Used(b) == {i \in DocSlots : b[i] # Free}
Named(b, n) == {i \in DocSlots : b[i] = n}
Find(b, n) == IF Named(b, n) = {} THEN -1 ELSE Min(Named(b, n))
\* doc_buf_ensure("+out"), by cmd_out()
Ensured(b) ==
    IF Named(b, Out) # {} \/ Named(b, Free) = {} THEN b
    ELSE [b EXCEPT ![Min(Named(b, Free))] = Out]
Machine(i) == buf[i] = Out

Said == bar' = [now |-> "message", next |-> IF bar.next = "back" THEN "late" ELSE bar.next]
\* mutant: the mark stays on
Remembered == mark' = mark
Forgotten == mark' = NoMark
Edited(i) == ver' = [ver EXCEPT ![i] = @ + 1]
Counted(f) == left[f] > 0 /\ left' = [left EXCEPT ![f] = @ - 1]
Unasked == UNCHANGED ask

-----------------------------------------------------------------------------
(* editor_handle(): a motion keeps the mark, every other key forgets it.     *)
Free0 == ~ask.on
EditKey ==
    /\ Free0 /\ Counted("edits") /\ Edited(here) /\ Forgotten
    /\ UNCHANGED <<buf, here, prev, ask, bar, shown>>

(* Ctrl-G, Ctrl-O, Ctrl-L and Ctrl-J.                                        *)
Guide ==
    /\ Free0 /\ Forgotten
    /\ LET g == Find(buf, "guide")
       IN IF g = -1 THEN Said /\ UNCHANGED here ELSE Said /\ here' = g
    /\ UNCHANGED <<buf, prev, ver, ask, shown, left>>

\* mutant: where the view came from is kept only once
CameFromOnce(i) == IF prev = -1 THEN i ELSE prev
CameFrom(i) == i
Toggle ==
    LET target == IF Machine(here) /\ prev >= 0 THEN prev ELSE Find(buf, Out)
        there == target >= 0 /\ target # here /\ buf[target] # Free
    IN /\ Free0 /\ Forgotten
       /\ IF there
          THEN /\ here' = target /\ prev' = CameFrom(here) /\ Said
               /\ shown' = IF Machine(target) THEN here ELSE -1
          ELSE UNCHANGED <<here, prev, bar, shown>>
       /\ UNCHANGED <<buf, ver, ask, left>>

\* The step that comes back to the document it began in is taken like any
\* other.
Walk(dir) ==
    LET at(step) == (here + dir * step + NSlots * NSlots) % NSlots
        open == {step \in 1..NSlots : buf[at(step)] \notin {Free, Out}}
    IN /\ Free0 /\ Forgotten
       /\ IF open = {} THEN Said /\ UNCHANGED <<here, shown>>
          ELSE /\ here' = at(Min(open)) /\ Said
               /\ shown' = -1
       /\ UNCHANGED <<buf, prev, ver, ask, left>>

-----------------------------------------------------------------------------
(* run_current_line(). A command answers with one line in the status bar or  *)
(* with several in '+out', which takes the view there.                       *)
\* mutant: the view moves and says nothing of the way back
ShowSilently(b) == bar' = [now |-> "message", next |-> "name"]
SaysTheWayBack(b) == bar' = [now |-> "message", next |-> "back"]
\* show_output()
Moves(b, at) == Find(b, Out) \notin {-1, at}
ShowOutput(b, at) ==
    /\ here' = Find(b, Out) /\ prev' = at /\ SaysTheWayBack(b)
Ran(b, at) == Said /\ here' = at /\ UNCHANGED prev

Answers == [one |-> 1, refused |-> 1, many |-> 2]   \* lines
Command(kind) ==
    LET b == Ensured(buf)
    IN /\ buf' = b
       /\ IF Answers[kind] > 1 /\ Moves(b, here)
          THEN ShowOutput(b, here) /\ shown' = here
          ELSE Ran(b, here) /\ UNCHANGED shown
       /\ mark' = IF kind = "refused" THEN [slot |-> here, ver |-> ver[here], by |-> "line"] ELSE NoMark
       /\ UNCHANGED <<ver, ask>>
Prose == Said /\ Forgotten /\ UNCHANGED <<buf, here, prev, ver, ask, shown>>

\* The document commands. One that cannot says so in '+out'.
NewIn(b) == IF Named(b, Free) = {} THEN b ELSE [b EXCEPT ![Min(Named(b, Free))] = ""]
CloseIn(b, i) == IF Cardinality(Used(b)) <= 1 THEN Ensured(b) ELSE [b EXCEPT ![i] = Free]
\* mutant: the view stays where a document was
Stays(b, i) == i
AfterClose(b, i) == IF b[i] # Free THEN i ELSE Min(Used(b))
Document(cmd) ==
    \/ /\ cmd = "new" /\ buf' = NewIn(buf)
       /\ here' = IF Named(buf, Free) = {} THEN here ELSE Min(Named(buf, Free))
    \/ /\ cmd = "close" /\ buf' = CloseIn(buf, here) /\ here' = AfterClose(buf', here)
    \/ /\ cmd = "open" /\ \E i \in DocSlots :
            IF buf[i] = Free THEN buf' = Ensured(buf) /\ UNCHANGED here
            ELSE here' = i /\ UNCHANGED buf
    \/ /\ cmd = "name" /\ UNCHANGED here
       /\ IF Named(buf, "a") \ {here} # {} THEN buf' = Ensured(buf)
          ELSE buf' = [buf EXCEPT ![here] = "a"]
OnADocument(cmd) ==
    /\ Document(cmd) /\ Said /\ Forgotten
    /\ shown' = IF here' = here THEN shown ELSE -1
    /\ UNCHANGED <<prev, ver, ask>>

\* '>run': every line of a page, and back to where it was; what its last line
\* was refused for is left for the editor to mark.
OutputPage ==
    LET b == Ensured(buf)
    IN \/ /\ mark' = [slot |-> here, ver |-> ver[here], by |-> "page"]
          /\ Ran(b, here) /\ buf' = b /\ UNCHANGED <<ver, ask, shown>>
       \/ \E cmd \in {"new", "close"} :
            LET c == IF cmd = "new" THEN NewIn(buf) ELSE CloseIn(buf, here)
                at == IF c[here] # Free THEN here ELSE Min(Used(c))
            IN /\ buf' = c /\ Ran(c, at) /\ Forgotten
               /\ shown' = IF at = here THEN shown ELSE -1
               /\ UNCHANGED <<ver, ask>>

(* A password on the line is cut; without one the question is asked.         *)
Secret ==
    \/ Counted("edits") /\ Edited(here) /\ Forgotten /\ Said
       /\ UNCHANGED <<buf, here, prev, ask, shown>>
    \/ \E fn \in {"wifi", "ssh"} :
         /\ ask' = [on |-> TRUE, len |-> 0, fn |-> fn] /\ Forgotten /\ Said
         /\ UNCHANGED <<buf, here, prev, ver, shown, left>>
Enter ==
    /\ Free0
    /\ \/ (\/ Prose \/ OutputPage
           \/ \E kind \in DOMAIN Answers : Command(kind)
           \/ \E cmd \in {"new", "close", "open", "name"} : OnADocument(cmd)) /\ UNCHANGED left
       \/ Secret

-----------------------------------------------------------------------------
(* ask_feed(): every key is the question's while there is one.               *)
\* mutant: the answer is left where it was typed
LeftThere(a) == [a EXCEPT !.on = FALSE]
Wiped(a) == NoQuestion
AskChar == /\ ask.on /\ ask.len < MaxSecret /\ ask' = [ask EXCEPT !.len = @ + 1]
           /\ UNCHANGED <<bar, left>>
AskBackspace == /\ ask.on /\ ask' = [ask EXCEPT !.len = Max({0, @ - 1})]
                /\ UNCHANGED <<bar, left>>
AskChord == ask.on /\ UNCHANGED <<ask, bar, left>>
AskCancel == ask.on /\ ask' = Wiped(ask) /\ Said /\ UNCHANGED left
\* The command that asked has the answer: an ssh session begins.
AskSubmit ==
    /\ ask.on /\ ask' = Wiped(ask) /\ Said
    /\ left' = IF ask.fn = "ssh" THEN [left EXCEPT !.session = 1] ELSE left
Question ==
    /\ AskChar \/ AskBackspace \/ AskChord \/ AskCancel \/ AskSubmit
    /\ UNCHANGED <<buf, here, prev, ver, mark, shown>>

(* The main loop: a session's end shows its output, and time passes.         *)
SessionEnds ==
    LET b == Ensured(buf)
    IN /\ left.session = 1
       /\ left' = [left EXCEPT !.session = 0]
       /\ buf' = b
       /\ IF Moves(b, here)
          THEN /\ ShowOutput(b, here) /\ shown' = here
               /\ mark' = IF mark = NoMark THEN mark ELSE [mark EXCEPT !.by = "left"]
          ELSE Said /\ UNCHANGED <<here, prev, shown, mark>>
       /\ UNCHANGED <<ver, ask>>
\* status_bar(): the question before the message, the message before the hint,
\* which another message may outlast.
Over(b) == IF b.now # "message" \/ ~Machine(here) \/ b.next = "name" THEN {Quiet}
           ELSE {[b EXCEPT !.now = "back"]} \cup (IF b.next = "late" THEN {Quiet} ELSE {})
\* mutant: the hint has no longer than the message
TimeIsUp == bar # Quiet /\ bar' = Quiet /\ UNCHANGED <<buf, here, prev, ver, mark, ask, shown, left>>
TimePasses ==
    /\ bar # Quiet /\ bar' \in Over(bar)
    /\ UNCHANGED <<buf, here, prev, ver, mark, ask, shown, left>>

DeskInit ==
    /\ buf = [i \in DocSlots |-> IF i = 0 THEN "" ELSE IF i = 1 THEN "guide" ELSE Free]
    /\ here = 0 /\ prev = -1 /\ ver = [i \in DocSlots |-> 0] /\ mark = NoMark
    /\ ask = NoQuestion /\ bar = Quiet
    /\ shown = -1
    /\ left = [edits |-> MaxEdits, session |-> 0]
DeskNext == \/ EditKey \/ Guide \/ Toggle \/ Walk(1) \/ Walk(-1) \/ Enter
            \/ Question \/ SessionEnds \/ TimePasses
DeskSpec == DeskInit /\ [][DeskNext]_deskVars /\ WF_deskVars(TimePasses)

-----------------------------------------------------------------------------
DeskTypeOK ==
    /\ buf \in [DocSlots -> {Free, "", "a", "guide", Out}]
    /\ here \in Used(buf) /\ prev \in {-1} \cup DocSlots
    /\ \A n \in {"a", "guide", Out} : Cardinality(Named(buf, n)) <= 1
    /\ ask.len \in 0..MaxSecret

(* 'It never points at the wrong text': the box is on the character a line   *)
(* typed by hand was refused for, in the document shown and as it was then.  *)
MarkPointsAtItsText ==
    mark # NoMark => mark.by # "page" /\ mark.slot = here /\ mark.ver = ver[here]

(* So it is, but for a session that ends while it is up and for a page whose *)
(* last line was refused (s_err_off, editor_handle).                         *)
MarkKeptToItsText ==
    mark.by = "line" => MarkPointsAtItsText

(* 'Either way it is wiped': nothing of an answer is left when its question  *)
(* is over, however it ended (ask_end).                                      *)
AnswersWiped == ~ask.on => ask = NoQuestion

(* 'Where we came from, so a jump to +out is never a one-way door': from the *)
(* output a command, a session or Ctrl-O took the view to, Ctrl-O goes back  *)
(* to the document it was taken from, until the hands go to another or close *)
(* it (s_prev_buf).                                                          *)
TheWayBack ==
    (Machine(here) /\ shown >= 0 /\ buf[shown] \notin {Free, Out}) => prev = shown

(* ... whatever brought it there.                                            *)
NeverOneWay == (Machine(here) /\ prev >= 0) => prev # here /\ buf[prev] # Free

(* 'Say how to get back, and say it last': when the view is taken to the     *)
(* output the hint is shown in the end, unless the view goes on or something *)
(* else is said meanwhile, which may outlast it (s_msg2_until).              *)
HintShown ==
    bar.next = "back" ~> (bar.now = "back" \/ ~Machine(here) \/ bar.next = "late")

(* What is kept between two keys is good when it is used: the mark, the way  *)
(* back, the answer typed (s_err_off, s_prev_buf, ask_end).                  *)
DeskKept == MarkKeptToItsText /\ AnswersWiped /\ TheWayBack
=============================================================================
