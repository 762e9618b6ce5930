-------------------------------- MODULE Panel --------------------------------
(* The reflective panel's driver (st7305/st7305.c, st7305_addr.h): a          *)
(* framebuffer in the controller's order, a short list of damaged            *)
(* rectangles, and the windows a flush pushes over the wire. The             *)
(* framebuffer's content is the text grid's (TextGrid); here is which of its *)
(* blocks - twelve native pixels by two, what one address holds - the panel's*)
(* own memory does not have.                                                 *)
EXTENDS Integers, Sequences, FiniteSetsExt

CONSTANTS Width, Height,   \* logical pixels
          DmgMax           \* rectangles the list holds
ASSUME PanelAssumption ==
    Width \in Nat \ {0} /\ Height \in Nat \ {0} /\ Width % 2 = 0 /\ Height % 12 = 0 /\ DmgMax \in Nat \ {0, 1}

VARIABLES orient, dmg,
          stale,      \* blocks that are not on the glass
          lost        \* history: those of a push that failed
panelVars == <<orient, dmg, stale, lost>>

Blocks == (0 .. Height \div 12 - 1) \X (0 .. Width \div 2 - 1)
AddrStart == 18
AddrEnd == AddrStart + Height \div 12 - 1
MirrorBase == AddrStart + AddrEnd

(* st7305_to_native().                                                       *)
ToNative(o, x, y) ==
    CASE o = 0 -> <<y, x>>
      [] o = 1 -> <<y, Width - 1 - x>>
      [] o = 2 -> <<Height - 1 - y, Width - 1 - x>>
      [] OTHER -> <<Height - 1 - y, x>>

(* st7305_window(), of a rectangle's corners: what goes on the wire.         *)
Window(o, r) ==
    LET p == ToNative(o, r.x0, r.y0)
        q == ToNative(o, r.x1, r.y1)
        first(i, unit) == Min({p[i], q[i]}) \div unit
        last(i, unit) == Max({p[i], q[i]}) \div unit
    IN [start |-> first(1, 12), cols |-> last(1, 12) - first(1, 12) + 1,
        caset |-> <<MirrorBase - (AddrStart + last(1, 12)), MirrorBase - (AddrStart + first(1, 12))>>,
        raset |-> <<first(2, 2), last(2, 2)>>]
Covered(o, r) ==
    LET w == Window(o, r)
    IN {b \in Blocks : b[1] \in w.start .. w.start + w.cols - 1 /\ b[2] \in w.raset[1] .. w.raset[2]}

(* The panel (MADCTL 0x48): a row's data fills from the end of the CASET     *)
(* range down, and the address AddrEnd - i shows what block i of the         *)
(* framebuffer is for. What each block is sent:                              *)
Sent(w) ==
    [b \in {<<AddrEnd - (w.caset[2] - k), r>> : k \in 0 .. w.cols - 1, r \in w.raset[1] .. w.raset[2]}
        |-> <<w.start + b[1] - (AddrEnd - w.caset[2]), b[2]>>]
AfterPush(st, o, r) ==
    LET sent == Sent(Window(o, r))
    IN {b \in st : b \notin DOMAIN sent} \cup {b \in DOMAIN sent : sent[b] # b}

-----------------------------------------------------------------------------
(* st7305_damage(): fold into a rectangle it touches, or take a slot, or     *)
(* merge the pair that costs least and take the slot that is freed.          *)
Unite(a, b) == [x0 |-> Min({a.x0, b.x0}), y0 |-> Min({a.y0, b.y0}),
                x1 |-> Max({a.x1, b.x1}), y1 |-> Max({a.y1, b.y1})]
Area(r) == (r.x1 - r.x0 + 1) * (r.y1 - r.y0 + 1)
MergeCost(a, b) == Area(Unite(a, b)) - Area(a) - Area(b)
Touch(r, d) == /\ r.x0 <= d.x1 + 2 /\ d.x0 <= r.x1 + 2
               /\ r.y0 <= d.y1 + 12 /\ d.y0 <= r.y1 + 12
Cheapest(list) ==
    LET pairs == {p \in (1 .. Len(list)) \X (1 .. Len(list)) : p[1] < p[2]}
        cost(p) == MergeCost(list[p[1]], list[p[2]])
        order(p) == p[1] * (DmgMax + 1) + p[2]
    IN CHOOSE p \in pairs : \A q \in pairs :
           cost(p) < cost(q) \/ (cost(p) = cost(q) /\ order(p) <= order(q))
\* mutant: a full list loses its last
MergedOver(list, r) == [list EXCEPT ![Len(list)] = r]
Merged(list, r) ==
    LET p == Cheapest(list)
    IN [list EXCEPT ![p[1]] = Unite(list[p[1]], list[p[2]]),
                    ![p[2]] = list[Len(list)], ![Len(list)] = r]
\* mutant: a slot more than there is
RoomOneMore(list) == Len(list) <= DmgMax
Room(list) == Len(list) < DmgMax
Damaged(list, r) ==
    LET near == {i \in 1 .. Len(list) : Touch(r, list[i])}
    IN IF near # {} THEN [list EXCEPT ![Min(near)] = Unite(@, r)]
       ELSE IF Room(list) THEN Append(list, r)
       ELSE Merged(list, r)
Everything == <<[x0 |-> 0, y0 |-> 0, x1 |-> Width - 1, y1 |-> Height - 1]>>

(* st7305_flush(): the list is emptied first; the bus may fail before the    *)
(* window after the n-th; bounded: not while something is lost already.      *)
Unpushed(list, n) ==
    LET after[i \in 0 .. n] == IF i = 0 THEN stale ELSE AfterPush(after[i - 1], orient, list[i])
    IN after[n]
Flush(list) ==
    \E n \in (IF lost = {} THEN 0 ELSE Len(list)) .. Len(list) :
        /\ dmg' = << >> /\ stale' = Unpushed(list, n)
        /\ lost' = (lost \cap stale') \cup UNION {Covered(orient, list[i]) : i \in n + 1 .. Len(list)}
        /\ UNCHANGED orient

PanelInit == orient = 0 /\ dmg = << >> /\ stale = {} /\ lost = {}
==============================================================================
