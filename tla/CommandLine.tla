----------------------------- MODULE CommandLine -----------------------------
(* A line that is run (cmd/cmd.c), and a document run line by line: '>run'    *)
(* (cmd/builtins.c) and the boot document (main/main.c). All of it is the     *)
(* main task's; a line of a page is a command of its own, and while a page is *)
(* run its lines may open, make or close documents, or run another page.      *)
EXTENDS Integers, Sequences, FiniteSets, SequencesExt, TLC

CONSTANTS BootTexts, SongTexts,  \* what the two filed documents may hold
          Typed,                 \* the lines the owner runs
          Written,               \* the lines the owner writes on the page that is open
          MaxPages,              \* DOC_MAX_BUFFERS
          MaxLines, MaxOut,      \* bounds: lines the owner writes; lines "+out" has room for
          MaxWalks               \* bound: pages under way at once; never reached
CommandVerbs == {"prose", "lane", "define", "run", "open", "list", "new", "close", "usb", "kbd",
                 "wifi"}
PageNames == {"", "boot", "song", "+out", "none"}
CommandLines == [verb : CommandVerbs, of : PageNames]
ASSUME CommandAssumption ==
    /\ MaxPages \in Nat /\ MaxPages > 2 /\ {MaxLines, MaxOut, MaxWalks} \subseteq Nat
    /\ BootTexts \cup SongTexts \subseteq Seq(CommandLines)
    /\ Typed \cup Written \subseteq CommandLines

VARIABLES page,       \* s_bufs: slot -> [name, lines]
          open,       \* s_cur
          walks,      \* the pages being run, the innermost last
          busy,       \* c_run()'s flag
          defined,    \* the lane names are: "no", "yes"; "cold" before the boot document is run
          finished,   \* history: the walk the last step ended, or None
          strayed     \* history: what a page's lines did that they may not
commandVars == <<page, open, walks, busy, defined, finished, strayed>>

NoWalk == [kind |-> "none"]
Line(verb, of) == [verb |-> verb, of |-> of]
DefineNames == Line("define", "")                   \* BOOT_NAMES
Starter == <<DefineNames, Line("lane", "")>>        \* BOOT_TEXT
Pages == 0 .. MaxPages - 1
Blank == [name |-> "", lines |-> <<>>]
Held(i, p) == [j \in DOMAIN page \cup {i} |-> IF j = i THEN p ELSE page[j]]
Called(name) == {i \in DOMAIN page : page[i].name = name}
FirstOf(S) == CHOOSE i \in S : \A j \in S : i <= j
Vacant == Pages \ DOMAIN page

(* caller_caps(), and what the table asks of each verb.                       *)
Needs(verb) == CASE verb \in {"usb", "kbd"} -> "system"
                 [] verb = "wifi" -> "net"
                 [] verb \in {"open", "list"} -> "read"
                 [] OTHER -> "edit"
CallerCaps(who) == IF who = "hands" THEN {"read", "edit", "store", "net", "system"}
                   ELSE {"read", "edit", "store", "net"}
\* mutant: a page is run by whoever ran it
PageHands == "hands"
PageCaller == "guide"
Caller == IF walks = <<>> THEN "hands" ELSE PageCaller

-----------------------------------------------------------------------------
(* cmd_out(): the answer goes to "+out", made when it is not there and lost   *)
(* when it cannot be, or is full.                                             *)
Answered ==
    LET slots == IF Called("+out") # {} THEN Called("+out") ELSE Vacant
        i == FirstOf(slots)
        old == IF i \in DOMAIN page THEN page[i] ELSE [name |-> "+out", lines |-> <<>>]
    IN IF slots = {} \/ Len(old.lines) >= MaxOut THEN page
       ELSE Held(i, [old EXCEPT !.lines = Append(@, Line("prose", ""))])
Say == page' = Answered /\ UNCHANGED <<open, defined, busy>>

(* c_open(), c_new(), c_close().                                              *)
OpenPage(name) ==
    IF Called(name) = {} THEN Say
    ELSE open' = FirstOf(Called(name)) /\ UNCHANGED <<page, defined, busy>>
NewPage ==
    IF Vacant = {} THEN Say
    ELSE /\ open' = FirstOf(Vacant) /\ page' = Held(FirstOf(Vacant), Blank)
         /\ UNCHANGED <<defined, busy>>
OnlyPage == Cardinality(DOMAIN page) = 1
ClosePage ==
    IF OnlyPage THEN Say
    ELSE /\ page' = [i \in DOMAIN page \ {open} |-> page[i]]
         /\ open' = FirstOf(DOMAIN page') /\ UNCHANGED <<defined, busy>>

(* A walk: where it came from, the page it reads, how long that was, how far  *)
(* it is; and, kept for the properties, the text then, the lines it ran,      *)
(* whether it lost its page on the way or its page was closed, and whether    *)
(* where it came from is closed.                                              *)
NewWalk(kind, was, i, text, marked) ==
    [kind |-> kind, was |-> was, doc |-> i, n |-> Len(text), at |-> 0, text |-> text,
     ran |-> <<>>, lost |-> FALSE, gone |-> FALSE, marked |-> marked]
\* mutant: how long the page is, read before it is opened
LengthBefore(i) == Len(page[open].lines)
LengthOf(i) == Len(page[i].lines)
Begun(i) == [NewWalk("run", open, i, page[i].lines, TRUE) EXCEPT !.n = LengthOf(i)]

(* c_run(): refused inside itself, and for a page that is not there.          *)
\* mutant: no flag
NeverBusy == FALSE
IsBusy == busy
\* mutant: the flag goes up before the page has been found
FlagFirst(found) == TRUE
FlagUp(found) == IF found THEN TRUE ELSE busy
RunPage(name, left) ==
    LET i == IF name = "" THEN open ELSE FirstOf(Called(name))
        found == name = "" \/ Called(name) # {}
    IN IF IsBusy THEN Say /\ walks' = left
       ELSE IF ~found THEN /\ page' = Answered /\ busy' = FlagUp(FALSE) /\ walks' = left
                           /\ UNCHANGED <<open, defined>>
       ELSE /\ Len(left) < MaxWalks
            /\ busy' = FlagUp(TRUE) /\ open' = i /\ walks' = Append(left, Begun(i))
            /\ UNCHANGED <<page, defined>>

(* cmd_run_line(): prose is no command, a verb needs what its caller has, a   *)
(* lane its name. `left` is the walks with this line behind them.             *)
ToldGone(w, i) == [w EXCEPT !.gone = @ \/ w.was = i, !.lost = @ \/ w.doc = i]
Gone(left) == [j \in DOMAIN left |-> ToldGone(left[j], open)]
Strays(l) ==
    CASE l.verb \in {"usb", "kbd"} /\ Needs(l.verb) \in CallerCaps(Caller) /\ walks # <<>> -> {"system"}
      [] /\ l.verb = "lane" /\ defined = "no" /\ walks # <<>>
         /\ walks[1].kind = "boot" /\ (~walks[1].marked \/ walks[1].text[1] = DefineNames) -> {"unnamed"}
      [] OTHER -> {}
RunLine(l, left) ==
    /\ strayed' = strayed \cup Strays(l)
    /\ IF l.verb = "prose" THEN walks' = left /\ UNCHANGED <<page, open, defined, busy>>
       ELSE IF Needs(l.verb) \notin CallerCaps(Caller) THEN Say /\ walks' = left
       ELSE CASE l.verb = "run" -> RunPage(l.of, left)
              [] l.verb = "open" -> OpenPage(l.of) /\ walks' = left
              [] l.verb = "new" -> NewPage /\ walks' = left
              [] l.verb = "close" -> ClosePage /\ walks' = IF OnlyPage THEN left ELSE Gone(left)
              [] l.verb = "define" -> defined' = "yes" /\ walks' = left /\ UNCHANGED <<page, open, busy>>
              [] l.verb = "lane" /\ defined = "yes" -> walks' = left /\ UNCHANGED <<page, open, defined, busy>>
              [] OTHER -> Say /\ walks' = left

-----------------------------------------------------------------------------
Idle == walks = <<>> /\ defined # "cold" /\ finished' = NoWalk
RunTyped == Idle /\ \E l \in Typed : RunLine(l, <<>>)
OwnerWrites ==
    /\ Idle /\ Len(page[open].lines) < MaxLines
    /\ \E l \in Written : page' = [page EXCEPT ![open].lines = Append(@, l)]
    /\ UNCHANGED <<open, walks, busy, defined, strayed>>

(* The loop of c_run() and run_boot_document(): it reads whatever document is *)
(* open by now; past its end there is nothing to run.                         *)
LineAt(i) == IF i < Len(page[open].lines) THEN page[open].lines[i + 1] ELSE Line("prose", "")
NextLine(w) == [w EXCEPT !.at = @ + 1, !.ran = Append(@, LineAt(w.at)), !.lost = @ \/ open # w.doc]
Innermost == walks[Len(walks)]
Step ==
    /\ walks # <<>> /\ Innermost.at < Innermost.n
    /\ RunLine(LineAt(Innermost.at), [walks EXCEPT ![Len(walks)] = NextLine(Innermost)])
    /\ finished' = NoWalk
\* mutants: the owner is left on the page that was run; goes back to one that is closed
StayThere(w) == open
GoBackAnyway(w) == w.was
ComeBack(w) == IF w.was \in DOMAIN page THEN w.was ELSE open
Finish ==
    /\ walks # <<>> /\ Innermost.at >= Innermost.n
    /\ open' = ComeBack(Innermost) /\ walks' = Front(walks) /\ finished' = Innermost
    /\ busy' = (busy /\ Innermost.kind = "boot")
    /\ UNCHANGED <<page, defined, strayed>>

(* run_boot_document(): made when it is missing and there is room; the names  *)
(* go in at the top of one that has none.                                     *)
\* mutant: the names go in at the end
NamesBelow(lines) == Append(lines, DefineNames)
NamesOnTop(lines) == <<DefineNames>> \o lines
Boot ==
    /\ defined = "cold" /\ defined' = "no"
    /\ IF Called("boot") = {} /\ Vacant = {} THEN UNCHANGED <<page, open, walks>>
       ELSE LET made == Called("boot") = {}
                i == FirstOf(IF made THEN Vacant ELSE Called("boot"))
                found == IF made THEN Starter ELSE page[i].lines
                marked == Contains(found, DefineNames)
                text == IF marked THEN found ELSE NamesOnTop(found)
            IN /\ page' = Held(i, [name |-> "boot", lines |-> text])
               /\ open' = i /\ walks' = <<NewWalk("boot", open, i, text, marked)>>
    /\ UNCHANGED <<busy, finished, strayed>>

(* The scratch document, and one or two that are filed.                       *)
FirstPages(song, boot) ==
    [i \in 0 .. 2 |-> CASE i = 0 -> Blank
                         [] i = 1 -> [name |-> "song", lines |-> song]
                         [] OTHER -> [name |-> "boot", lines |-> boot]]
CommandInit ==
    /\ \E boot \in BootTexts, song \in SongTexts, last \in {1, 2} :
          page = [i \in 0 .. last |-> FirstPages(song, boot)[i]]
    /\ open = 0 /\ walks = <<>> /\ busy = FALSE /\ defined = "cold"
    /\ finished = NoWalk /\ strayed = {}
CommandNext == Boot \/ RunTyped \/ OwnerWrites \/ Step \/ Finish
CommandSpec == CommandInit /\ [][CommandNext]_commandVars

-----------------------------------------------------------------------------
CommandTypeOK ==
    /\ DOMAIN page \subseteq Pages /\ open \in DOMAIN page
    /\ \A i \in DOMAIN walks : walks[i].was \in Pages /\ walks[i].at <= walks[i].n

(* 'Always come back to where the owner was standing': when a page has been   *)
(* run, the document that was open is open again, unless the page closed it   *)
(* (c_run, run_boot_document).                                                *)
OwnerIsBack == finished # NoWalk /\ ~finished.gone => open = finished.was

(* 'Run every command line in a document': each line once, in order, and      *)
(* nothing else, as long as no line left the page it stands on (c_run).       *)
EveryLineRuns == finished # NoWalk /\ ~finished.lost => finished.ran = finished.text

(* 'One flag, checked first': a '>run' is refused when one is under way and   *)
(* at no other time (c_run).                                                  *)
BusyIsTrue == busy = (\E i \in DOMAIN walks : walks[i].kind = "run")

(* 'A guide line may not change pairing or power state', however it came to   *)
(* be run (caller_caps); and the lane names 'must exist before any lane line  *)
(* below them runs' (run_boot_document).                                      *)
PagesKeepToTheirOwn == strayed = {}

(* A page that is run, whatever its lines open, make, close or run: what it  *)
(* does, where it leaves its owner and whether another may begin (c_run).    *)
PagesRunWhole == OwnerIsBack /\ EveryLineRuns /\ BusyIsTrue /\ PagesKeepToTheirOwn
==============================================================================
