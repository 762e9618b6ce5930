----------------------------- MODULE DocBuffers -----------------------------
(***************************************************************************)
(* The open documents (firmware/components/docstore/buffer.c), what the    *)
(* commands do to them (components/cmd/builtins.c) and when the main loop  *)
(* files them (main/main.c).                                               *)
(*                                                                         *)
(* Below the buffers is the archive: a save replaces the text of a name    *)
(* whole or fails and changes nothing, which is what Journal is shown to   *)
(* do (module Archive).  Everything here runs on the main task, so a       *)
(* command is one step; saving every document before a restart is one step *)
(* per document, because power may be cut between two of them.             *)
(*                                                                         *)
(* A text is a document's identity and a version of it; version 0 is no    *)
(* text at all.  Identities are not in the code: they say whose text it is *)
(* that a name holds.                                                      *)
(***************************************************************************)
EXTENDS Integers, FiniteSets

CONSTANTS
    DocNames,        \* names as stored, DOC_NAME_MAX - 1 characters at most
    NoName,      \* the empty name
    Out,          \* "+out"
    Stored,       \* [requested name -> name stored]; identity on DocNames
    MaxBuffers,   \* DOC_MAX_BUFFERS
    MaxDocs,      \* bound: documents at any one time, open or archived
    MaxVer,       \* bound: versions of a document
    Restarts,     \* bound: whether a restart is ever asked for
    ReadFails,    \* a record may fail to be read back
    MallocFails,  \* an allocation may fail
    NoText

Slots    == 0 .. MaxBuffers - 1
Requests == DOMAIN Stored
Filed    == DocNames \ {NoName, Out}   \* no other name here begins with '+'

ASSUME NamesAssumption ==
    /\ {NoName, Out} \subseteq DocNames /\ NoName # Out
    /\ DocNames \subseteq Requests
    /\ \A r \in Requests : Stored[r] \in DocNames
    /\ \A n \in DocNames : Stored[n] = n
ASSUME BoundsAssumption ==
    /\ MaxBuffers \in Nat \ {0, 1} /\ MaxDocs \in Nat \ {0} /\ MaxVer \in Nat
    /\ Restarts \in BOOLEAN /\ ReadFails \in BOOLEAN /\ MallocFails \in BOOLEAN

DocTexts == [doc : 0 .. MaxDocs, ver : 0 .. MaxVer]

ASSUME NoneIsNoText == NoText \notin DocTexts

VARIABLES
    slot,      \* s_bufs
    cur,       \* s_cur
    archive,   \* [DocNames -> text or NoText]: the newest record of each name
    phase,        \* "off", "up", "saving" (doc_save_all_dirty) or "reboot"
    at,        \* the slot doc_save_all_dirty() has reached
    was,       \* the slot it will come back to
    failed,    \* the slots whose save it saw fail
    playing    \* seq_running()

bufferVars == <<slot, cur, archive, phase, at, was, failed, playing>>
restart == <<at, was, failed>>

\* A zeroed slot, and a claimed one: text and record are fetched on demand.
Free == [used |-> FALSE, name |-> NoName, buf |-> NoText, rec |-> NoText,
         dirty |-> FALSE, doc |-> 0]
Claim(n, r, d) == [Free EXCEPT !.used = TRUE, !.name = n, !.rec = r, !.doc = d]

Transient(i) == slot[i].name = Out
Loaded(i)    == slot[i].buf # NoText
Open         == {i \in Slots : slot[i].used}
Empty(b)     == [doc |-> b.doc, ver |-> 0]
Lowest(S)    == CHOOSE i \in S : \A j \in S : i <= j

\* Identities no text has: a document to come gets one of these.
Unborn == 1 .. MaxDocs \ ({slot[i].doc : i \in Slots}
                          \cup {archive[n].doc : n \in {m \in DocNames : archive[m] # NoText}})

\* What is at the offset noted at boot: the record, unless the name has been
\* saved since and its sectors given away.
ReadAt(b) ==
    IF archive[b.name] = b.rec THEN {b.rec}
    ELSE {b.rec, NoText} \cup {archive[n] : n \in DocNames}

When(c, S) == IF c THEN S ELSE {}

\* ensure_storage(): the ways it can end.  When the second of its two
\* allocations fails, the first one stays behind, blank.
EnsureForgets(b) ==                                  \* mutant: record dropped
    {[b |-> [b EXCEPT !.buf = IF b.buf = NoText THEN Empty(b) ELSE b.buf,
                      !.rec = NoText],
      ok |-> TRUE]}
EnsureStorage(b) ==
    LET Loads(t) == [b |-> [b EXCEPT !.buf = t, !.rec = NoText], ok |-> TRUE]
        Fails(c) == [b |-> c, ok |-> FALSE]
    IN  IF b.buf # NoText THEN {[b |-> b, ok |-> TRUE]}
        ELSE When(MallocFails, {Fails(b)}) \cup
             IF b.rec = NoText THEN {Loads(Empty(b))}
             ELSE {Loads(t) : t \in ReadAt(b) \ {NoText}}
                  \cup When(ReadFails \/ NoText \in ReadAt(b), {Fails(b)})
                  \cup When(MallocFails, {Fails([b EXCEPT !.buf = Empty(b)])})

\* doc_buf_select(i), from the table s with c current.
Selected(s, c, i) ==
    IF ~s[i].used THEN {[slot |-> s, cur |-> c, ok |-> FALSE]}
    ELSE {[slot |-> [s EXCEPT ![i] = e.b], cur |-> IF e.ok THEN i ELSE c,
           ok |-> e.ok] : e \in EnsureStorage(s[i])}

\* doc_save() of the buffer b: what it leaves of b and of the archive when it
\* succeeds.  A transient buffer is marked clean and written nowhere; one with
\* no text in memory is written empty.
TextOf(b)   == IF b.buf = NoText THEN Empty(b) ELSE b.buf
Cleaned(b)  == [b EXCEPT !.dirty = FALSE]
Archived(b) == IF b.name = Out THEN archive
               ELSE [archive EXCEPT ![b.name] = TextOf(b)]

-----------------------------------------------------------------------------
BuffersInit ==
    /\ slot = [i \in Slots |-> Free]
    /\ archive = [n \in DocNames |-> NoText]
    /\ phase = "off" /\ cur = 0 /\ at = 0 /\ was = 0 /\ failed = {}
    /\ playing = FALSE

\* doc_init(): slot 0 is the scratch document, loaded at once; then a slot for
\* each filed name, in the order the scan met them, until there are no more.
DeckOn ==
    /\ phase = "off"
    /\ \E f \in [Slots \ {0} -> {n \in Filed : archive[n] # NoText} \cup {NoText}] :
          /\ \A i, j \in Slots \ {0} : f[i] = f[j] /\ f[i] # NoText => i = j
          /\ \A i \in Slots \ {0} : f[i] = NoText =>
                 \A n \in Filed : archive[n] # NoText => \E j \in 1 .. i - 1 : f[j] = n
          /\ \E d \in IF archive[NoName] = NoText
                   THEN When(Unborn # {}, {Lowest(Unborn)})
                   ELSE {archive[NoName].doc} :
                \E t \in IF archive[NoName] = NoText THEN {[doc |-> d, ver |-> 0]}
                            ELSE {archive[NoName]}
                                 \cup When(ReadFails, {[doc |-> d, ver |-> 0]}) :
                      slot' = [i \in Slots |->
                          IF i = 0 THEN [Claim(NoName, NoText, d) EXCEPT !.buf = t]
                          ELSE IF f[i] = NoText THEN Free
                          ELSE Claim(f[i], archive[f[i]], archive[f[i]].doc)]
    /\ phase' = "up" /\ cur' = 0
    /\ UNCHANGED <<archive, restart, playing>>

Up == phase = "up" /\ UNCHANGED <<phase, restart>>

\* >open and every other way to another buffer.
Select(i) ==
    /\ Up
    /\ \E o \in Selected(slot, cur, i) : slot' = o.slot /\ cur' = o.cur
    /\ UNCHANGED <<archive, playing>>

\* >new: the first free slot, with no record, selected.
New ==
    /\ Up /\ Open # Slots /\ Unborn # {}
    /\ LET i == Lowest(Slots \ Open)
           s == [slot EXCEPT ![i] = Claim(NoName, NoText, Lowest(Unborn))]
       IN  \E o \in Selected(s, cur, i) : slot' = o.slot /\ cur' = o.cur
    /\ UNCHANGED <<archive, playing>>

\* doc_buf_rename() compares the name asked for, whole, with the stored ones.
\* Mutants: no check; a check of the documents in memory only.
NotChecked(r) == TRUE
CheckLoaded(r) == \A i \in Open \ {cur} : Loaded(i) => slot[i].name # r
MayRename(r) == r # NoName /\ \A i \in Open \ {cur} : slot[i].name # r

\* >name: the answer is the same whether the save succeeds or not.
Name(r) ==
    /\ Up /\ MayRename(r)
    /\ LET b == [slot[cur] EXCEPT !.name = Stored[r], !.dirty = TRUE]
       IN  \/ slot' = [slot EXCEPT ![cur] = Cleaned(b)] /\ archive' = Archived(b)
           \/ slot' = [slot EXCEPT ![cur] = b] /\ b.name # Out /\ UNCHANGED archive
    /\ UNCHANGED <<cur, playing>>

\* A key: dropped when the buffer has no storage.  What "+out" says is not
\* followed.
LaterTwice(b) == [b.buf EXCEPT !.ver = @ + 2]        \* mutant
Later(b) == IF b.name = Out THEN [b.buf EXCEPT !.ver = MaxVer]
            ELSE [b.buf EXCEPT !.ver = @ + 1]
Edit ==
    /\ Up /\ Loaded(cur)
    /\ Transient(cur) \/ slot[cur].buf.ver < MaxVer
    /\ slot' = [slot EXCEPT ![cur].buf = Later(slot[cur]), ![cur].dirty = TRUE]
    /\ UNCHANGED <<cur, archive, playing>>

\* doc_save() of the current buffer succeeding; a save that fails changes
\* nothing.
DocSave ==
    /\ archive' = Archived(slot[cur])
    /\ slot' = [slot EXCEPT ![cur] = Cleaned(slot[cur])]

SaveDoc ==
    /\ Up /\ ~Transient(cur)
    /\ DocSave
    /\ UNCHANGED <<cur, playing>>

\* The main loop: a dirty transient buffer is marked clean; any other is saved
\* once typing pauses, and not while the transport runs.
WhilePlaying == playing                              \* mutant
MaySave == ~playing
Autosave ==
    /\ Up /\ slot[cur].dirty
    /\ Transient(cur) \/ MaySave
    /\ DocSave
    /\ UNCHANGED <<cur, playing>>

Transport == Up /\ playing' = ~playing /\ UNCHANGED <<slot, cur, archive>>

\* >close: the text is freed, and the first buffer left is selected, if it can
\* be loaded.
Close ==
    /\ Up /\ slot[cur].used /\ Cardinality(Open) > 1
    /\ LET s == [slot EXCEPT ![cur] = Free]
       IN  \E o \in Selected(s, cur, Lowest(Open \ {cur})) :
               slot' = o.slot /\ cur' = o.cur
    /\ UNCHANGED <<archive, playing>>

\* cmd_out(): a line for "+out", made if it is not open and there is room.
PrintLine ==
    /\ Up
    /\ LET have == {i \in Open : slot[i].name = Out}
           i    == IF have # {} THEN Lowest(have) ELSE Lowest(Slots \ Open)
           b    == IF have # {} THEN slot[i] ELSE Claim(Out, NoText, 0)
       IN  /\ have # {} \/ Open # Slots
           /\ \E e \in EnsureStorage(b) :
                 slot' = [slot EXCEPT ![i] =
                     IF e.ok THEN [e.b EXCEPT !.buf = Later(e.b), !.dirty = TRUE]
                     ELSE e.b]
    /\ UNCHANGED <<cur, archive, playing>>

-----------------------------------------------------------------------------
\* doc_save_all_dirty(), called before a chosen restart.  seq_stop() follows it
\* there; nothing asks in between whether the transport runs.
SaveAll ==
    /\ Restarts /\ phase = "up"
    /\ phase' = "saving" /\ at' = 0 /\ was' = cur /\ failed' = {} /\ playing' = FALSE
    /\ UNCHANGED <<slot, cur, archive>>

SkipNext ==
    /\ phase = "saving" /\ at < MaxBuffers
    /\ ~slot[at].used \/ Transient(at)
    /\ at' = at + 1
    /\ UNCHANGED <<slot, cur, archive, phase, was, failed, playing>>

CurrentOnly(i) == i = was /\ slot[i].dirty           \* mutant: what it once did
NeedsSave(i) == slot[i].dirty
SaveNext ==
    /\ phase = "saving" /\ at < MaxBuffers
    /\ slot[at].used /\ ~Transient(at)
    /\ \E o \in Selected(slot, cur, at) :
          /\ cur' = o.cur
          /\ IF o.ok /\ NeedsSave(at)
             THEN \/ /\ slot' = [o.slot EXCEPT ![at] = Cleaned(o.slot[at])]
                     /\ archive' = Archived(o.slot[at])
                     /\ UNCHANGED failed
                  \/ /\ slot' = o.slot /\ failed' = failed \cup {at}
                     /\ UNCHANGED archive
             ELSE slot' = o.slot /\ UNCHANGED <<archive, failed>>
    /\ at' = at + 1
    /\ UNCHANGED <<phase, was, playing>>

SaveAllEnd ==
    /\ phase = "saving" /\ at = MaxBuffers
    /\ \E o \in Selected(slot, cur, was) : slot' = o.slot /\ cur' = o.cur
    /\ phase' = "reboot"
    /\ UNCHANGED <<archive, restart, playing>>

\* The restart that was asked for, or power cut at any moment.
DeckOff ==
    /\ phase # "off"
    /\ slot' = [i \in Slots |-> Free]
    /\ phase' = "off" /\ cur' = 0 /\ at' = 0 /\ was' = 0 /\ failed' = {}
    /\ playing' = FALSE
    /\ UNCHANGED <<archive>>

BuffersNext ==
    \/ DeckOn \/ DeckOff
    \/ \E i \in Slots : Select(i)
    \/ \E r \in Requests : Name(r)
    \/ New \/ Edit \/ SaveDoc \/ Autosave \/ Transport \/ Close \/ PrintLine
    \/ SaveAll \/ SkipNext \/ SaveNext \/ SaveAllEnd

BuffersSpec == BuffersInit /\ [][BuffersNext]_bufferVars

\* The main loop keeps turning, and a journal with room accepts a save in the
\* end.
BuffersFair == BuffersSpec /\ WF_bufferVars(Autosave)

-----------------------------------------------------------------------------
Buffers == [used : BOOLEAN, name : DocNames, buf : DocTexts \cup {NoText},
            rec : DocTexts \cup {NoText}, dirty : BOOLEAN, doc : 0 .. MaxDocs]

\* The types of everything the open documents keep.
BuffersTypeOK ==
    /\ slot \in [Slots -> Buffers]
    /\ cur \in Slots
    /\ archive \in [DocNames -> DocTexts \cup {NoText}]
    /\ phase \in {"off", "up", "saving", "reboot"}
    /\ at \in 0 .. MaxBuffers /\ was \in Slots /\ failed \subseteq Slots
    /\ playing \in BOOLEAN

\* "A name is unique" (buffer.c:197): no two open buffers have the same name,
\* the nameless ones apart.
NamesUnique ==
    \A i, j \in Open :
        i # j /\ slot[i].name # NoName => slot[i].name # slot[j].name

\* A filed document that shows no unsaved change is the one a reboot would
\* bring back.
CleanIsFiled ==
    \A i \in Open :
        slot[i].name \in Filed /\ Loaded(i) /\ ~slot[i].dirty
        => archive[slot[i].name] = slot[i].buf

\* The record a document will be loaded from is the newest of its name, however
\* long ago its offset was noted, and there is no edit to be lost by loading it.
OffsetFresh ==
    \A i \in Open :
        slot[i].rec # NoText => archive[slot[i].name] = slot[i].rec /\ ~slot[i].dirty

\* "Write every dirty non-transient document" (docstore.h:117): at the restart
\* every document has been filed whose save did not fail, and the view is back
\* where it was.
NothingLostAtReboot ==
    phase = "reboot" =>
           /\ \A i \in Open \ failed : Transient(i) \/ ~slot[i].dirty
           /\ slot[was].used => cur = was

\* A document left alone on the screen is filed in the end, once the transport
\* stays stopped (main.c:977-1005).
EventuallyFiled ==
    \A i \in Slots :
        <>[](phase = "up" /\ cur = i /\ ~playing) => []<>~slot[i].dirty

\* "forget it; the journal keeps it" (docstore.h:69): the newest record of a
\* filed document is not replaced by another document's.
JournalKeepsIt ==
    [][\A n \in Filed : archive[n] # NoText => archive'[n].doc = archive[n].doc]_bufferVars

\* What is shown and what is noted agree with flash: a clean filed document is
\* the one archived, and one not loaded yet is loaded from its newest record
\* (buffer.c, doc_save).
CleanIsDurable == CleanIsFiled /\ OffsetFresh
=============================================================================
