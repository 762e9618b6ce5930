------------------------------- MODULE TextGrid -------------------------------
(* The text grid over the panel (textgrid/textgrid.c) and the main loop's use *)
(* of both (main/main.c, main/editor.c): cells that are written, marked and   *)
(* drawn from glyphs turned once for an orientation; a pass that handles the *)
(* passkey, the KEY button, the drawing and the blink.                        *)
EXTENDS Panel

CONSTANTS MarginX, MarginTop,
          Faces,      \* a density's name -> a cell's [w, h]
          Spots,      \* the cells the document writes: [x, y] corners
          CursorAt, PinAt
(* tg_set_layout() refuses cells and margins that are not whole blocks; the  *)
(* two faces fill the same part of the panel (editor_set_density).           *)
ASSUME FacesAssumption ==
    /\ MarginX \in Nat /\ MarginX % 2 = 0 /\ 2 * MarginX <= Width
    /\ MarginTop \in Nat /\ MarginTop % 12 = 0 /\ MarginTop <= Height
    /\ "low" \in DOMAIN Faces
    /\ \A f \in DOMAIN Faces :
           /\ Faces[f].w \in Nat \ {0} /\ Faces[f].w % 2 = 0 /\ (Width - 2 * MarginX) % Faces[f].w = 0
           /\ Faces[f].h \in Nat \ {0} /\ Faces[f].h % 12 = 0 /\ (Height - MarginTop) % Faces[f].h = 0

VARIABLES face, txt, dirty,
          fb,          \* block -> what its bytes show
          turned,      \* glyph -> the orientation it was turned for
          turnOrient,  \* s_turn_orient, or -1
          doc,         \* the spots where the document has a character
          cursorOn, needDraw,
          passkey,     \* "none", "pending", "shown" (drawn, in this pass)
          phase
gridVars == <<face, txt, dirty, fb, turned, turnOrient>>
loopVars == <<doc, cursorOn, needDraw, passkey, phase>>
glassVars == <<panelVars, gridVars, loopVars>>

Cols(f) == (Width - 2 * MarginX) \div Faces[f].w
Rows(f) == (Height - MarginTop) \div Faces[f].h
CellAt(f, i, j) == [x |-> MarginX + Faces[f].w * i, y |-> MarginTop + Faces[f].h * j]
CornersOf == [f \in DOMAIN Faces |-> {CellAt(f, i, j) : i \in 0 .. Cols(f) - 1, j \in 0 .. Rows(f) - 1}]
Corners(f) == CornersOf[f]
CellRect(f, c) == [x0 |-> c.x, y0 |-> c.y, x1 |-> c.x + Faces[f].w - 1, y1 |-> c.y + Faces[f].h - 1]
(* The cell whose bytes a block is: cells are whole blocks, whichever way the *)
(* panel is held. A block of the margins is in none of the corners' cells.   *)
CellOf(f, o, b) ==
    LET x == IF o \in {0, 3} THEN 2 * b[2] ELSE Width - 1 - 2 * b[2]
        y == IF o \in {0, 1} THEN 12 * b[1] ELSE Height - 1 - 12 * b[1]
    IN CellAt(f, (x - MarginX) \div Faces[f].w, (y - MarginTop) \div Faces[f].h)
Blank == [face |-> "", cell |-> [x |-> 0, y |-> 0], ch |-> " ", dir |-> 0]
Look(f, c, ch, dir) == IF ch = " " THEN Blank ELSE [face |-> f, cell |-> c, ch |-> ch, dir |-> dir]

NoGlyphs == [g \in {} |-> 0]

(* tg_render(): turn_ready(), then each dirty cell in reading order from its *)
(* turned glyph, each declaring its damage. Before it, tg_put() marked the   *)
(* cells of the page that changed.                                           *)
\* mutant: glyphs turned for another orientation are kept
Kept(t) == t
Ready(t) == IF turnOrient = orient THEN t ELSE NoGlyphs
Cell(f, i) == CellAt(f, i % Cols(f), i \div Cols(f))
DamagedBy(cells) ==
    LET f == face
        acc[i \in 0 .. Cols(f) * Rows(f)] ==
                          IF i = 0 THEN dmg
                          ELSE IF Cell(f, i - 1) \in cells THEN Damaged(acc[i - 1], CellRect(f, Cell(f, i - 1)))
                          ELSE acc[i - 1]
    IN acc[Cols(f) * Rows(f)]
Render(page) ==
    LET cells == dirty \cup {c \in DOMAIN page : page[c] # txt[c]}
        had == Ready(turned)
        now == [g \in DOMAIN had \cup {page[c] : c \in cells} |-> IF g \in DOMAIN had THEN had[g] ELSE orient]
        of == [b \in Blocks |-> CellOf(face, orient, b)]
    IN /\ txt' = page /\ dirty' = {} /\ turned' = now /\ turnOrient' = orient
       /\ fb' = [b \in Blocks |-> IF of[b] \notin cells THEN fb[b]
                                  ELSE Look(face, of[b], page[of[b]], now[page[of[b]]])]
       /\ dmg' = DamagedBy(cells)
       /\ stale' = stale \cup {b \in Blocks : of[b] \in cells}
       /\ UNCHANGED <<orient, lost, face>>

(* What is put in the cells: the document with its cursor, the passkey.      *)
Page(at) == [c \in Corners(face) |-> IF c = CursorAt /\ at THEN "#"
                                     ELSE IF c \in doc THEN "k" ELSE " "]
PinPage == [c \in Corners(face) |-> IF c = PinAt THEN "7" ELSE " "]

-----------------------------------------------------------------------------
(* The main loop. While it waits for keys: the document changes, a command   *)
(* changes the density (tg_set_layout), or nothing comes.                    *)
SameLoop == UNCHANGED <<doc, cursorOn>>
Key == /\ phase = "wait"
       /\ \E d \in SUBSET Spots : doc' = d
       /\ cursorOn' = TRUE /\ needDraw' = TRUE
       /\ UNCHANGED <<panelVars, gridVars, passkey, phase>>
Density == /\ phase = "wait" /\ needDraw' = TRUE
           /\ \E f \in DOMAIN Faces :
                /\ face' = f /\ txt' = [c \in Corners(f) |-> " "] /\ dirty' = Corners(f)
           /\ turnOrient' = -1
           /\ SameLoop /\ UNCHANGED <<panelVars, fb, turned, passkey, phase>>
(* kbd_on_passkey(), on the radio's task: recorded, and drawn by the loop.   *)
PasskeyAsked == /\ phase = "wait" /\ passkey' = "pending"
                /\ SameLoop /\ UNCHANGED <<panelVars, gridVars, needDraw, phase>>
Nothing == /\ phase = "wait" /\ phase' = IF passkey = "pending" THEN "pin" ELSE "key"
           /\ passkey' = IF passkey = "pending" THEN passkey ELSE "none"
           /\ SameLoop /\ UNCHANGED <<panelVars, gridVars, needDraw>>

From(here, next) == phase = here /\ phase' = next
DrawPin == /\ From("pin", "pin push") /\ passkey' = "shown"
           /\ Render(PinPage) /\ SameLoop /\ UNCHANGED needDraw
PushPin == /\ From("pin push", "key") /\ Flush(Everything)
           /\ dirty' = Corners(face) /\ needDraw' = TRUE
           /\ SameLoop /\ UNCHANGED <<face, txt, fb, turned, turnOrient, passkey>>
(* The KEY button's tap turns the panel, and everything is drawn again.      *)
KeyTap == /\ From("key", "draw")
          /\ orient' = (orient + 1) % 4 /\ dirty' = Corners(face) /\ needDraw' = TRUE
          /\ dmg' = Everything /\ stale' = Blocks /\ fb' = [b \in Blocks |-> Blank]
          /\ SameLoop /\ UNCHANGED <<face, txt, turned, turnOrient, lost, passkey>>
NoTap == /\ From("key", IF needDraw THEN "draw" ELSE "blink")
         /\ SameLoop /\ UNCHANGED <<panelVars, gridVars, needDraw, passkey>>
Draw == /\ From("draw", "push") /\ needDraw /\ needDraw' = FALSE
        /\ Render(Page(cursorOn)) /\ SameLoop /\ UNCHANGED passkey
(* editor_present(): a push only when this call rendered was a bug it had.   *)
\* mutant: pushed only if cells are left to render
PushedIfDirty(list) == IF dirty = {} THEN << >> ELSE list
Pushed(list) == list
Present == /\ \/ From("push", "blink") \/ From("blink push", "wait")
           /\ \/ Pushed(dmg) = dmg /\ Flush(dmg)
              \/ Pushed(dmg) # dmg /\ UNCHANGED panelVars
           /\ SameLoop /\ UNCHANGED <<gridVars, needDraw, passkey>>
(* editor_blink(): one cell.                                                 *)
Blink == /\ From("blink", "blink push") /\ cursorOn' = ~cursorOn /\ Render(Page(cursorOn'))
         /\ UNCHANGED <<doc, needDraw, passkey>>
NoBlink == From("blink", "wait") /\ SameLoop /\ UNCHANGED <<panelVars, gridVars, needDraw, passkey>>

GridInit == /\ PanelInit /\ face = "low" /\ txt = [c \in Corners(face) |-> " "] /\ dirty = {}
            /\ fb = [b \in Blocks |-> Blank] /\ turned = NoGlyphs /\ turnOrient = -1
            /\ doc = {} /\ cursorOn = TRUE /\ needDraw = TRUE
            /\ passkey = "none" /\ phase = "wait"
GridNext == \/ Key \/ Density \/ PasskeyAsked \/ Nothing \/ DrawPin \/ PushPin \/ KeyTap \/ NoTap
            \/ Draw \/ Present \/ Blink \/ NoBlink
GlassSpec == GridInit /\ [][GridNext]_glassVars

-----------------------------------------------------------------------------
GlassTypeOK ==
    /\ orient \in 0 .. 3 /\ Len(dmg) <= DmgMax /\ stale \subseteq Blocks /\ lost \subseteq Blocks
    /\ DOMAIN txt = Corners(face) /\ dirty \subseteq Corners(face)

(* What the glass does not show is in a damaged rectangle, whichever were    *)
(* folded, merged or mirrored, or its push failed (st7305_damage,            *)
(* push_window).                                                             *)
StaleIsDamaged == stale \subseteq lost \cup UNION {Covered(orient, dmg[i]) : i \in DOMAIN dmg}

(* A cell that is not marked is in the framebuffer as it is written, turned  *)
(* the way the panel is held, and the margins are blank (tg_render,          *)
(* turn_ready, tg_set_layout).                                               *)
InCell(c, page) == IF c \in DOMAIN page THEN Look(face, c, page[c], orient) ELSE Blank
CleanCellIsDrawn ==
    \A b \in Blocks : LET c == CellOf(face, orient, b)
                       IN c \in dirty \/ fb[b] = InCell(c, txt)

(* 'If cells were rendered and nothing went out on the wire, the panel is    *)
(* showing something other than the document': when the loop waits with      *)
(* nothing to draw, the glass shows the document and its cursor, but for     *)
(* what a failed push lost (main loop, editor_present).                      *)
GlassShowsDocument ==
    phase = "wait" /\ ~needDraw =>
        /\ stale \subseteq lost
        /\ \A b \in Blocks : fb[b] = InCell(CellOf(face, orient, b), Page(cursorOn))

(* From the text to the glass nothing is lost: cell, framebuffer, damage,    *)
(* panel (tg_render, st7305_damage, st7305_push).                            *)
GlassIsTrue == StaleIsDamaged /\ CleanCellIsDrawn /\ GlassShowsDocument
==============================================================================
