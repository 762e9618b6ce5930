--------------------------- MODULE CommandsProofs ---------------------------
(* What a line that is run changes, for every number of slots, names, texts   *)
(* and lines. The documents that are open have names of their own and are     *)
(* filed as they are shown (DocBuffers); a lane has the name it was given and *)
(* means what that name means now (LaneNames); a page that is run is run      *)
(* whole, whatever its lines do (CommandLine); a key that is written is read  *)
(* as it is written, while the clock reads the key too (SeqKey).              *)
EXTENDS DocBuffers, LaneNames, CommandLine, SeqKey,
        FiniteSetTheorems, SequenceTheorems, WellFoundedInduction, TLAPS

\* A set of numbers between two others has a least one.
LEMMA LeastIn ==
    ASSUME NEW S \in SUBSET Int, NEW lo \in Int, NEW hi \in Int, S \subseteq lo .. hi, S # {}
    PROVE  \E i \in S : \A j \in S : i <= j
<1> DEFINE D == lo .. hi
           Upto(i) == {m \in D : m <= i}
           T == {Upto(i) : i \in S}
<1>1. T \subseteq FiniteSubsetsOf(D) /\ T # {}
  <2>1. \A i \in S : Upto(i) \in SUBSET D
    OBVIOUS
  <2>2. IsFiniteSet(D)
    BY FS_Interval
  <2>3. SUBSET D = FiniteSubsetsOf(D)
    BY <2>2, FS_FiniteSubsetsOfFinite
  <2> HIDE DEF Upto
  <2>4. T # {}
    OBVIOUS
  <2> QED
    BY <2>1, <2>3, <2>4
<1>2. PICK x \in T : \A y \in T : ~ (<<y, x>> \in StrictSubsetOrdering(D))
  BY <1>1, FS_StrictSubsetOrderingWellFounded, WFMin
<1>3. PICK i \in S : x = Upto(i)
  BY <1>2
<1>4. ASSUME NEW j \in S PROVE i <= j
  <2>1. Upto(j) \in T /\ Upto(j) \in SUBSET D /\ Upto(i) \in SUBSET D
    OBVIOUS
  <2>2. ~(Upto(j) \subseteq Upto(i)) \/ Upto(j) = Upto(i)
    BY <1>2, <1>3, <2>1 DEF StrictSubsetOrdering
  <2>3. i \in Upto(i) /\ i \in Int /\ j \in Int
    OBVIOUS
  <2>4. j < i => Upto(j) \subseteq Upto(i) /\ i \notin Upto(j)
    BY <2>3
  <2> QED
    BY <2>2, <2>3, <2>4
<1> QED
  BY <1>4

\* The lowest of such a set is one of it.
LEMMA LowestIn ==
    ASSUME NEW S \in SUBSET Int, NEW lo \in Int, NEW hi \in Int, S \subseteq lo .. hi, S # {}
    PROVE  Lowest(S) \in S
  BY LeastIn DEF Lowest

-----------------------------------------------------------------------------
(***************************************************************************)
(* DocBuffers: the documents that are open, and the archive.               *)
(***************************************************************************)

\* Every name asked for fits where it is kept: it is stored as it was asked
\* for.  A longer one is cut after it has been compared (buffer.c:201).
NamesFit == \A r \in Requests : Stored[r] = r

Archives == [DocNames -> DocTexts \cup {NoText}]
UsedIn(s) == {i \in Slots : s[i].used}

\* No two open documents have the same name.
Apart(s) ==
    \A i, j \in UsedIn(s) : i # j /\ s[i].name # NoName => s[i].name # s[j].name

\* A record noted at boot and not read yet is the newest of its name.
NotedIsNewest(s, a) ==
    \A i \in Slots : s[i].rec # NoText =>
        /\ s[i].used /\ s[i].buf = NoText /\ ~s[i].dirty
        /\ s[i].name \in Filed /\ a[s[i].name] = s[i].rec

\* A filed document is in memory or its record is noted.
InMemoryOrNoted(s) ==
    \A i \in UsedIn(s) : s[i].name \in Filed => s[i].buf # NoText \/ s[i].rec # NoText

\* A filed document in memory with no change to save is what is archived.
CleanIsArchived(s, a) ==
    \A i \in UsedIn(s) : s[i].name \in Filed /\ s[i].buf # NoText /\ ~s[i].dirty =>
        a[s[i].name] = s[i].buf

\* The table s of open documents agrees with the archive a.
Agree(s, a) ==
    /\ s \in [Slots -> Buffers] /\ a \in Archives
    /\ Apart(s) /\ NotedIsNewest(s, a) /\ InMemoryOrNoted(s) /\ CleanIsArchived(s, a)

\* What is on the screen is in memory; a slot left there when its document was
\* closed and no other could be loaded has a name of its own.
OnScreen(s, c) ==
    /\ c \in Slots
    /\ s[c].used => s[c].buf # NoText
    /\ ~s[c].used /\ s[c].name \in Filed => \A i \in UsedIn(s) : s[i].name # s[c].name

\* The documents before the slot k are filed, or known to have failed.
PassedIn(s, k, lost) ==
    \A i \in UsedIn(s) : i < k => i \in lost \/ s[i].name = Out \/ ~s[i].dirty

\* Saving everything comes back to a document that stays in memory, and what
\* it has passed is filed.
SavingInv ==
    /\ phase \in {"saving", "reboot"} =>
          was \in Slots /\ (slot[was].used => slot[was].buf # NoText)
    /\ phase = "saving" => at \in 0 .. MaxBuffers /\ PassedIn(slot, at, failed)
    /\ phase = "reboot" => PassedIn(slot, MaxBuffers, failed) /\ (slot[was].used => cur = was)

DocsInv == Agree(slot, archive) /\ OnScreen(slot, cur) /\ SavingInv

-----------------------------------------------------------------------------
(***************************************************************************)
(* What a change of one slot keeps.                                        *)
(***************************************************************************)

\* A slot is replaced and the archive left alone.
LEMMA PutKeeps ==
    ASSUME NEW s, NEW a, Agree(s, a), NEW i \in Slots, NEW b \in Buffers,
           b.rec # NoText => /\ b.used /\ b.buf = NoText /\ ~b.dirty
                             /\ b.name \in Filed /\ a[b.name] = b.rec,
           b.used /\ b.name \in Filed => b.buf # NoText \/ b.rec # NoText,
           b.used /\ b.name \in Filed /\ b.buf # NoText /\ ~b.dirty => a[b.name] = b.buf,
           b.used /\ b.name # NoName => \A j \in UsedIn(s) : j # i => s[j].name # b.name
    PROVE  Agree([s EXCEPT ![i] = b], a)
<1> DEFINE t == [s EXCEPT ![i] = b]
<1>1. s \in [Slots -> Buffers] /\ a \in Archives
  BY DEF Agree
<1>2. t \in [Slots -> Buffers] /\ t[i] = b /\ \A j \in Slots : j # i => t[j] = s[j]
  BY <1>1
<1> HIDE DEF t
<1>3. \A j \in UsedIn(t) : j \in Slots /\ (j # i => j \in UsedIn(s) /\ t[j] = s[j])
  BY <1>2 DEF UsedIn
<1>4. i \in UsedIn(t) => b.used
  BY <1>2 DEF UsedIn
<1>5. Apart(t)
  BY <1>2, <1>3, <1>4 DEF Agree, Apart
<1>6. NotedIsNewest(t, a)
  BY <1>2 DEF Agree, NotedIsNewest
<1>7. InMemoryOrNoted(t)
  BY <1>2, <1>3, <1>4 DEF Agree, InMemoryOrNoted
<1>8. CleanIsArchived(t, a)
  BY <1>2, <1>3, <1>4 DEF Agree, CleanIsArchived
<1>9. Agree(t, a)
  BY <1>1, <1>2, <1>5, <1>6, <1>7, <1>8 DEF Agree
<1> QED
  BY <1>9 DEF t

\* A slot is replaced by a clean one whose text is archived under its name.
LEMMA SaveKeeps ==
    ASSUME NEW s, NEW a, Agree(s, a), NEW i \in Slots, NEW b \in Buffers, NEW x \in DocTexts,
           b.rec = NoText, b.used => b.buf = x,
           (b.name \in Filed \/ b.used) /\ b.name # NoName =>
               \A j \in UsedIn(s) : j # i => s[j].name # b.name
    PROVE  Agree([s EXCEPT ![i] = b], [a EXCEPT ![b.name] = x])
<1> DEFINE t == [s EXCEPT ![i] = b]
           c == [a EXCEPT ![b.name] = x]
<1>1. s \in [Slots -> Buffers] /\ a \in Archives /\ b.name \in DocNames
  BY DEF Agree, Buffers
<1>2. t \in [Slots -> Buffers] /\ t[i] = b /\ \A j \in Slots : j # i => t[j] = s[j]
  BY <1>1
<1>3. /\ c \in Archives /\ c[b.name] = x
      /\ \A n \in DocNames : n # b.name => c[n] = a[n]
  BY <1>1 DEF Archives
<1> HIDE DEF t, c
<1>4. \A j \in UsedIn(t) : j \in Slots /\ (j # i => j \in UsedIn(s) /\ t[j] = s[j])
  BY <1>2 DEF UsedIn
<1>5. i \in UsedIn(t) => b.used
  BY <1>2 DEF UsedIn
<1>6. Apart(t)
  BY <1>2, <1>4, <1>5 DEF Agree, Apart
<1>7. ASSUME NEW j \in UsedIn(s), j # i, s[j].name \in Filed
      PROVE  c[s[j].name] = a[s[j].name]
  <2>1. s[j].name \in DocNames
    BY <1>7 DEF Filed
  <2>2. s[j].name # b.name
    <3> SUFFICES ASSUME s[j].name = b.name PROVE FALSE
      OBVIOUS
    <3>1. b.name \in Filed /\ b.name # NoName
      BY <1>7 DEF Filed
    <3> QED
      BY <1>7, <3>1
  <2> QED
    BY <1>3, <2>1, <2>2
<1>8. NotedIsNewest(t, c)
  <2>1. ASSUME NEW j \in Slots, t[j].rec # NoText
        PROVE  /\ t[j].used /\ t[j].buf = NoText /\ ~t[j].dirty
               /\ t[j].name \in Filed /\ c[t[j].name] = t[j].rec
    <3>1. j # i /\ t[j] = s[j]
      BY <1>2, <2>1
    <3>2. /\ s[j].used /\ s[j].buf = NoText /\ ~s[j].dirty
          /\ s[j].name \in Filed /\ a[s[j].name] = s[j].rec
      BY <2>1, <3>1 DEF Agree, NotedIsNewest
    <3>3. j \in UsedIn(s)
      BY <3>2 DEF UsedIn
    <3> QED
      BY <1>7, <3>1, <3>2, <3>3
  <2> QED
    BY <2>1 DEF NotedIsNewest
<1>9. InMemoryOrNoted(t)
  <2>1. x # NoText
    BY NoneIsNoText
  <2> QED
    BY <1>2, <1>4, <1>5, <2>1 DEF Agree, InMemoryOrNoted
<1>10. CleanIsArchived(t, c)
  <2>1. ASSUME NEW j \in UsedIn(t), t[j].name \in Filed, t[j].buf # NoText, ~t[j].dirty
        PROVE  c[t[j].name] = t[j].buf
    <3>1. CASE j = i
      BY <1>2, <1>3, <1>5, <3>1
    <3>2. CASE j # i
      <4>1. a[s[j].name] = s[j].buf
        BY <1>4, <2>1, <3>2 DEF Agree, CleanIsArchived
      <4> QED
        BY <1>4, <1>7, <2>1, <3>2, <4>1
    <3> QED
      BY <3>1, <3>2
  <2> QED
    BY <2>1 DEF CleanIsArchived
<1>11. Agree(t, c)
  BY <1>2, <1>3, <1>6, <1>8, <1>9, <1>10 DEF Agree
<1> QED
  BY <1>11 DEF t, c

\* A buffer with its text in memory.
ToLoad(b) == IF b.rec = NoText THEN Empty(b) ELSE b.rec
Filled(b) == [b EXCEPT !.buf = ToLoad(b), !.rec = NoText]

\* A buffer's record is read into it.
LEMMA FilledIs ==
    ASSUME NEW b \in Buffers
    PROVE  /\ Empty(b) \in DocTexts /\ ToLoad(b) \in DocTexts
           /\ Filled(b) \in Buffers /\ Filled(b).buf = ToLoad(b) /\ Filled(b).buf # NoText
           /\ Filled(b).rec = NoText /\ Filled(b).name = b.name
           /\ (Filled(b).used <=> b.used) /\ (Filled(b).dirty <=> b.dirty)
<1>1. /\ b.doc \in 0 .. MaxDocs /\ 0 \in 0 .. MaxVer /\ b.rec \in DocTexts \cup {NoText}
  BY BoundsAssumption DEF Buffers
<1>2. Empty(b) \in DocTexts
  BY <1>1 DEF Empty, DocTexts
<1>3. ToLoad(b) \in DocTexts
  BY <1>1, <1>2 DEF ToLoad
<1>4. ToLoad(b) # NoText
  BY <1>3, NoneIsNoText
<1> HIDE DEF ToLoad
<1>5. /\ Filled(b) \in Buffers /\ Filled(b).buf = ToLoad(b)
      /\ Filled(b).rec = NoText /\ Filled(b).name = b.name
      /\ (Filled(b).used <=> b.used) /\ (Filled(b).dirty <=> b.dirty)
  BY <1>3 DEF Filled, Buffers
<1> QED
  BY <1>2, <1>3, <1>4, <1>5

\* ensure_storage() of a buffer whose record, if noted, is the newest of its
\* name: its text is there, or is loaded, or its record cannot be read.
LEMMA StorageWays ==
    ASSUME ~MallocFails, NEW b \in Buffers,
           b.rec # NoText => archive[b.name] = b.rec, NEW e \in EnsureStorage(b)
    PROVE  \/ e.ok = TRUE /\ e.b = b /\ b.buf # NoText
           \/ e.ok = TRUE /\ e.b = Filled(b) /\ b.buf = NoText
           \/ e.ok = FALSE /\ e.b = b /\ b.buf = NoText /\ b.rec # NoText
<1>1. CASE b.buf # NoText
  <2>1. e = [b |-> b, ok |-> TRUE]
    BY <1>1 DEF EnsureStorage
  <2> QED
    BY <1>1, <2>1
<1>2. CASE b.buf = NoText /\ b.rec = NoText
  <2>1. e \in {[b |-> [b EXCEPT !.buf = Empty(b), !.rec = NoText], ok |-> TRUE]}
    BY <1>2 DEF EnsureStorage, When
  <2>2. e = [b |-> Filled(b), ok |-> TRUE]
    BY <1>2, <2>1 DEF Filled, ToLoad
  <2> QED
    BY <1>2, <2>2
<1>3. CASE b.buf = NoText /\ b.rec # NoText
  <2>1. ReadAt(b) = {b.rec}
    BY <1>3 DEF ReadAt
  <2>2. \/ e = [b |-> [b EXCEPT !.buf = b.rec, !.rec = NoText], ok |-> TRUE]
        \/ e = [b |-> b, ok |-> FALSE]
    BY <1>3, <2>1 DEF EnsureStorage, When
  <2>3. e = [b |-> Filled(b), ok |-> TRUE] \/ e = [b |-> b, ok |-> FALSE]
    BY <1>3, <2>2 DEF Filled, ToLoad
  <2> QED
    BY <1>3, <2>3
<1> QED
  BY <1>1, <1>2, <1>3

\* Loading the text of a document changes nothing that is open or archived.
LEMMA LoadKeeps ==
    ASSUME NEW s, NEW a, Agree(s, a), NEW i \in UsedIn(s), s[i].buf = NoText
    PROVE  Agree([s EXCEPT ![i] = Filled(s[i])], a)
<1>1. i \in Slots /\ s[i].used /\ s[i] \in Buffers
  BY DEF UsedIn, Agree
<1>2. /\ Filled(s[i]) \in Buffers /\ Filled(s[i]).buf = ToLoad(s[i]) /\ Filled(s[i]).buf # NoText
      /\ Filled(s[i]).rec = NoText /\ Filled(s[i]).name = s[i].name /\ Filled(s[i]).used
  BY <1>1, FilledIs
<1>3. ASSUME s[i].name \in Filed PROVE a[s[i].name] = ToLoad(s[i])
  <2>1. s[i].rec # NoText
    BY <1>3 DEF Agree, InMemoryOrNoted
  <2> QED
    BY <1>1, <2>1 DEF Agree, NotedIsNewest, ToLoad
<1>4. s[i].name # NoName => \A j \in UsedIn(s) : j # i => s[j].name # s[i].name
  BY DEF Agree, Apart
<1>5. ASSUME NEW b \in Buffers, b = Filled(s[i]) PROVE Agree([s EXCEPT ![i] = b], a)
  BY <1>1, <1>2, <1>3, <1>4, <1>5, PutKeeps
<1> QED
  BY <1>2, <1>5

\* The same documents are open in s and t, under the same names and with the
\* same changes to save, and what was in memory still is.
SameDocs(s, t) ==
    /\ UsedIn(t) = UsedIn(s)
    /\ \A i \in Slots : /\ t[i].name = s[i].name /\ (t[i].used <=> s[i].used)
                        /\ (t[i].dirty <=> s[i].dirty)
                        /\ s[i].buf # NoText => t[i].buf # NoText

\* doc_buf_select(): the document asked for is on the screen, in memory; or
\* nothing has changed.
SelectEnds(s, c, i, o) ==
    /\ Agree(o.slot, archive) /\ SameDocs(s, o.slot)
    /\ \/ o.ok = TRUE /\ o.cur = i /\ s[i].used /\ o.slot[i].buf # NoText
       \/ o.ok = FALSE /\ o.cur = c /\ o.slot = s
          /\ (s[i].used => s[i].buf = NoText /\ s[i].rec # NoText)

\* What selecting a document may leave.
LEMMA SelectedWays ==
    ASSUME ~MallocFails, NEW s, Agree(s, archive), NEW c \in Slots, NEW i \in Slots,
           NEW o \in Selected(s, c, i)
    PROVE  SelectEnds(s, c, i, o)
<1> USE DEF SelectEnds
<1>1. s \in [Slots -> Buffers] /\ s[i] \in Buffers
  BY DEF Agree
<1>2. SameDocs(s, s)
  BY DEF SameDocs
<1>3. CASE ~s[i].used
  <2>1. o = [slot |-> s, cur |-> c, ok |-> FALSE]
    BY <1>3 DEF Selected
  <2> QED
    BY <1>2, <1>3, <2>1
<1>4. CASE s[i].used
  <2>1. PICK e \in EnsureStorage(s[i]) :
            o = [slot |-> [s EXCEPT ![i] = e.b], cur |-> IF e.ok THEN i ELSE c, ok |-> e.ok]
    BY <1>4 DEF Selected
  <2>2. s[i].rec # NoText => archive[s[i].name] = s[i].rec
    BY DEF Agree, NotedIsNewest
  <2>3. \/ e.ok = TRUE /\ e.b = s[i] /\ s[i].buf # NoText
        \/ e.ok = TRUE /\ e.b = Filled(s[i]) /\ s[i].buf = NoText
        \/ e.ok = FALSE /\ e.b = s[i] /\ s[i].buf = NoText /\ s[i].rec # NoText
    BY <1>1, <2>2, StorageWays
  <2>4. e.b = s[i] => [s EXCEPT ![i] = e.b] = s
    BY <1>1
  <2>5. CASE e.ok = TRUE /\ e.b = s[i] /\ s[i].buf # NoText
    <3>1. o.slot = s /\ o.cur = i /\ o.ok = TRUE
      BY <2>1, <2>4, <2>5
    <3> QED
      BY <1>2, <1>4, <2>5, <3>1
  <2>6. CASE e.ok = TRUE /\ e.b = Filled(s[i]) /\ s[i].buf = NoText
    <3>1. o.slot = [s EXCEPT ![i] = Filled(s[i])] /\ o.cur = i /\ o.ok = TRUE
      BY <2>1, <2>6
    <3>2. i \in UsedIn(s)
      BY <1>4 DEF UsedIn
    <3>3. Agree(o.slot, archive)
      BY <2>6, <3>1, <3>2, LoadKeeps
    <3>4. o.slot[i] = Filled(s[i]) /\ \A j \in Slots : j # i => o.slot[j] = s[j]
      BY <1>1, <3>1
    <3>5. /\ Filled(s[i]).name = s[i].name /\ Filled(s[i]).buf # NoText
          /\ (Filled(s[i]).used <=> s[i].used) /\ (Filled(s[i]).dirty <=> s[i].dirty)
      BY <1>1, FilledIs
    <3>6. \A j \in Slots : /\ o.slot[j].name = s[j].name /\ (o.slot[j].used <=> s[j].used)
                           /\ (o.slot[j].dirty <=> s[j].dirty)
                           /\ s[j].buf # NoText => o.slot[j].buf # NoText
      BY <3>4, <3>5
    <3>7. UsedIn(o.slot) = UsedIn(s)
      BY <3>6 DEF UsedIn
    <3> QED
      BY <1>4, <3>1, <3>3, <3>4, <3>5, <3>6, <3>7 DEF SameDocs
  <2>7. CASE e.ok = FALSE /\ e.b = s[i] /\ s[i].buf = NoText /\ s[i].rec # NoText
    <3>1. o.slot = s /\ o.cur = c /\ o.ok = FALSE
      BY <2>1, <2>4, <2>7
    <3> QED
      BY <1>2, <2>7, <3>1
  <2> QED
    BY <2>3, <2>5, <2>6, <2>7
<1> QED
  BY <1>3, <1>4

\* The first slot of some is one of them.
LEMMA FirstSlot ==
    ASSUME NEW S \in SUBSET Slots, S # {}
    PROVE  Lowest(S) \in S
<1>1. S \in SUBSET Int /\ 0 \in Int /\ MaxBuffers - 1 \in Int /\ S \subseteq 0 .. MaxBuffers - 1
  BY BoundsAssumption DEF Slots
<1> QED
  BY <1>1, LowestIn

\* A fresh slot, and one a document has been given.
LEMMA Slotted ==
    /\ Free \in Buffers /\ Free.rec = NoText /\ ~Free.used /\ Free.name = NoName
    /\ Free.buf = NoText
    /\ \A n \in DocNames, r \in DocTexts \cup {NoText}, d \in 0 .. MaxDocs :
           /\ Claim(n, r, d) \in Buffers /\ Claim(n, r, d).used /\ Claim(n, r, d).name = n
           /\ Claim(n, r, d).rec = r /\ Claim(n, r, d).buf = NoText /\ ~Claim(n, r, d).dirty
<1>1. 0 \in 0 .. MaxDocs /\ NoName \in DocNames
  BY NamesAssumption, BoundsAssumption
<1> QED
  BY <1>1 DEF Free, Claim, Buffers

\* The table of a deck that is off.
LEMMA AllFree ==
    ASSUME NEW a \in Archives
    PROVE  Agree([i \in Slots |-> Free], a) /\ OnScreen([i \in Slots |-> Free], 0)
<1> DEFINE s == [i \in Slots |-> Free]
<1>1. s \in [Slots -> Buffers] /\ UsedIn(s) = {} /\ \A i \in Slots : s[i] = Free
  BY Slotted DEF UsedIn
<1>2. 0 \in Slots
  BY BoundsAssumption DEF Slots
<1> HIDE DEF s
<1>3. Agree(s, a)
  BY <1>1, Slotted DEF Agree, Apart, NotedIsNewest, InMemoryOrNoted, CleanIsArchived
<1>4. OnScreen(s, 0)
  BY <1>1, <1>2, Slotted DEF OnScreen
<1> QED
  BY <1>3, <1>4 DEF s

\* A document closed is one less.
LEMMA FreeKeeps ==
    ASSUME NEW s, NEW a, Agree(s, a), NEW i \in Slots
    PROVE  Agree([s EXCEPT ![i] = Free], a) /\ UsedIn([s EXCEPT ![i] = Free]) = UsedIn(s) \ {i}
<1>1. Agree([s EXCEPT ![i] = Free], a)
  <2>1. ASSUME NEW b \in Buffers, b = Free PROVE Agree([s EXCEPT ![i] = b], a)
    BY <2>1, Slotted, PutKeeps
  <2> QED
    BY <2>1, Slotted
<1>2. UsedIn([s EXCEPT ![i] = Free]) = UsedIn(s) \ {i}
  BY Slotted DEF UsedIn, Agree
<1> QED
  BY <1>1, <1>2

\* What doc_buf_select() leaves on the screen.
LEMMA SelectedScreen ==
    ASSUME ~MallocFails, NEW s, Agree(s, archive), NEW c \in Slots, NEW i \in Slots,
           NEW o \in Selected(s, c, i),
           OnScreen(s, c) \/ (s[i].used /\ s[i].rec = NoText)
    PROVE  OnScreen(o.slot, o.cur)
<1>1. SelectEnds(s, c, i, o)
  BY SelectedWays
<1>2. CASE o.cur = i /\ s[i].used /\ o.slot[i].buf # NoText
  <2>1. o.slot[i].used
    BY <1>1, <1>2 DEF SelectEnds, SameDocs
  <2> QED
    BY <1>2, <2>1 DEF OnScreen
<1>3. CASE o.cur = c /\ o.slot = s /\ (s[i].used => s[i].buf = NoText /\ s[i].rec # NoText)
  BY <1>3
<1> QED
  BY <1>1, <1>2, <1>3 DEF SelectEnds

Kept == Agree(slot', archive') /\ OnScreen(slot', cur')

\* A document is selected.
LEMMA SelectKept ==
    ASSUME ~MallocFails, DocsInv, NEW i \in Slots, Select(i)
    PROVE  Kept
<1>1. PICK o \in Selected(slot, cur, i) : slot' = o.slot /\ cur' = o.cur /\ archive' = archive
  BY DEF Select
<1>2. Agree(slot, archive) /\ OnScreen(slot, cur) /\ cur \in Slots
  BY DEF DocsInv, OnScreen
<1>3. Agree(o.slot, archive) /\ OnScreen(o.slot, o.cur)
  BY <1>2, SelectedWays, SelectedScreen DEF SelectEnds
<1> QED
  BY <1>1, <1>3 DEF Kept

\* A document is made.
LEMMA NewKept ==
    ASSUME ~MallocFails, DocsInv, New
    PROVE  Kept
<1> DEFINE i == Lowest(Slots \ Open)
           d == Lowest(Unborn)
           b == Claim(NoName, NoText, d)
           s == [slot EXCEPT ![i] = b]
<1>1. Agree(slot, archive) /\ OnScreen(slot, cur) /\ cur \in Slots /\ slot \in [Slots -> Buffers]
  BY DEF DocsInv, OnScreen, Agree
<1>2. i \in Slots /\ i \notin Open
  <2>1. Slots \ Open \in SUBSET Slots /\ Slots \ Open # {}
    BY DEF New, Open
  <2> QED
    BY <2>1, FirstSlot
<1>3. d \in 0 .. MaxDocs
  <2>1. /\ Unborn \in SUBSET Int /\ 1 \in Int /\ MaxDocs \in Int /\ Unborn \subseteq 1 .. MaxDocs
        /\ Unborn # {}
    BY BoundsAssumption DEF Unborn, New
  <2>2. d \in Unborn
    BY <2>1, LowestIn
  <2>3. \A x \in Unborn : x \in 0 .. MaxDocs
    BY <2>1
  <2> QED
    BY <2>2, <2>3
<1>4. b \in Buffers /\ b.used /\ b.name = NoName /\ b.rec = NoText /\ NoName \notin Filed
  BY <1>3, NamesAssumption, Slotted DEF Filed
<1>5. PICK o \in Selected(s, cur, i) : slot' = o.slot /\ cur' = o.cur /\ archive' = archive
  BY DEF New
<1> HIDE DEF i, d, b
<1>6. Agree(s, archive)
  BY <1>1, <1>2, <1>4, PutKeeps
<1>7. s[i] = b
  BY <1>1, <1>2
<1> HIDE DEF s
<1>8. Agree(o.slot, archive) /\ OnScreen(o.slot, o.cur)
  BY <1>1, <1>2, <1>4, <1>6, <1>7, SelectedWays, SelectedScreen DEF SelectEnds
<1> QED
  BY <1>5, <1>8 DEF Kept

\* The open document is closed.
LEMMA CloseKept ==
    ASSUME ~MallocFails, DocsInv, Close
    PROVE  Kept
<1> DEFINE i == Lowest(Open \ {cur})
           s == [slot EXCEPT ![cur] = Free]
<1>1. Agree(slot, archive) /\ OnScreen(slot, cur) /\ cur \in Slots /\ slot \in [Slots -> Buffers]
  BY DEF DocsInv, OnScreen, Agree
<1>2. i \in Slots
  <2>1. Open \ {cur} # {}
    <3> SUFFICES ASSUME Open = {cur} PROVE FALSE
      BY <1>1 DEF Close, Open
    <3>1. Cardinality({cur}) = 1
      BY FS_Singleton
    <3> QED
      BY <3>1 DEF Close
  <2>2. Open \ {cur} \in SUBSET Slots
    BY DEF Open
  <2> QED
    BY <2>1, <2>2, FirstSlot
<1>3. PICK o \in Selected(s, cur, i) : slot' = o.slot /\ cur' = o.cur /\ archive' = archive
  BY DEF Close
<1>4. Agree(s, archive)
  BY <1>1, FreeKeeps
<1>5. s[cur] = Free
  BY <1>1
<1> HIDE DEF i, s
<1>6. OnScreen(s, cur)
  BY <1>1, <1>5, Slotted DEF OnScreen, Filed
<1>7. Agree(o.slot, archive) /\ OnScreen(o.slot, o.cur)
  BY <1>1, <1>2, <1>4, <1>6, SelectedWays, SelectedScreen DEF SelectEnds
<1> QED
  BY <1>3, <1>7 DEF Kept

\* A name that is free, in the table, is free for the document shown.
LEMMA NameKept ==
    ASSUME NamesFit, DocsInv, NEW r \in Requests, Name(r)
    PROVE  Kept
<1> DEFINE b == [slot[cur] EXCEPT !.name = r, !.dirty = TRUE]
<1>1. Agree(slot, archive) /\ OnScreen(slot, cur) /\ cur \in Slots /\ slot \in [Slots -> Buffers]
  BY DEF DocsInv, OnScreen, Agree
<1>2. Stored[r] = r /\ r \in DocNames /\ r # NoName
  BY NamesAssumption DEF NamesFit, Name, MayRename
<1>3. \A j \in UsedIn(slot) : j # cur => slot[j].name # r
  BY DEF Name, MayRename, Open, UsedIn
<1>4. slot[cur] \in Buffers /\ slot[cur].rec = NoText
  BY <1>1 DEF OnScreen, Agree, NotedIsNewest
<1>5. /\ b \in Buffers /\ b.name = r /\ b.dirty = TRUE /\ b.rec = NoText
      /\ b.buf = slot[cur].buf /\ b.used = slot[cur].used
  BY <1>2, <1>4 DEF Buffers
<1>6. /\ Cleaned(b) \in Buffers /\ Cleaned(b).name = r /\ ~Cleaned(b).dirty
      /\ Cleaned(b).rec = NoText /\ Cleaned(b).buf = slot[cur].buf
      /\ Cleaned(b).used = slot[cur].used
  BY <1>5 DEF Buffers, Cleaned
<1>7. /\ \/ slot' = [slot EXCEPT ![cur] = Cleaned(b)] /\ archive' = Archived(b)
         \/ slot' = [slot EXCEPT ![cur] = b] /\ archive' = archive
      /\ cur' = cur
  BY <1>2 DEF Name
<1>8. slot[cur].used => slot[cur].buf # NoText
  BY <1>1 DEF OnScreen
<1>9. TextOf(b) \in DocTexts /\ (slot[cur].used => TextOf(b) = slot[cur].buf)
  BY <1>5, <1>8, FilledIs DEF TextOf, Buffers
<1> DEFINE c == Cleaned(b)
<1> HIDE DEF b, c
<1>10. c = Cleaned(b)
  BY DEF c
<1>11. ASSUME NEW x \in Buffers, x \in {b, c}, slot' = [slot EXCEPT ![cur] = x]
       PROVE  OnScreen(slot', cur')
  <2>1. slot'[cur] = x /\ x.name = r /\ x.used = slot[cur].used /\ x.buf = slot[cur].buf
    BY <1>1, <1>5, <1>6, <1>10, <1>11
  <2>2. \A j \in UsedIn(slot') : j # cur => j \in UsedIn(slot) /\ slot'[j] = slot[j]
    BY <1>1, <1>11 DEF UsedIn
  <2>3. ~x.used => cur \notin UsedIn(slot')
    BY <2>1 DEF UsedIn
  <2> QED
    BY <1>1, <1>3, <1>7, <1>8, <2>1, <2>2, <2>3 DEF OnScreen
<1>12. CASE slot' = [slot EXCEPT ![cur] = b] /\ archive' = archive
  <2>1. Agree([slot EXCEPT ![cur] = b], archive)
    BY <1>1, <1>3, <1>5, <1>8, PutKeeps
  <2> QED
    BY <1>5, <1>11, <1>12, <2>1 DEF Kept
<1>13. CASE slot' = [slot EXCEPT ![cur] = Cleaned(b)] /\ archive' = Archived(b) /\ r # Out
  <2>1. Agree([slot EXCEPT ![cur] = c], [archive EXCEPT ![c.name] = TextOf(b)])
    BY <1>1, <1>3, <1>6, <1>9, <1>10, SaveKeeps
  <2>2. archive' = [archive EXCEPT ![c.name] = TextOf(b)]
    BY <1>5, <1>6, <1>10, <1>13 DEF Archived
  <2> QED
    BY <1>6, <1>10, <1>11, <1>13, <2>1, <2>2 DEF Kept
<1>14. CASE slot' = [slot EXCEPT ![cur] = Cleaned(b)] /\ archive' = Archived(b) /\ r = Out
  <2>1. r \notin Filed
    BY <1>14 DEF Filed
  <2>2. Agree([slot EXCEPT ![cur] = c], archive)
    BY <1>1, <1>3, <1>6, <1>10, <2>1, PutKeeps
  <2>3. archive' = archive
    BY <1>5, <1>14 DEF Archived
  <2> QED
    BY <1>6, <1>10, <1>11, <1>14, <2>2, <2>3 DEF Kept
<1> QED
  BY <1>7, <1>12, <1>13, <1>14

\* What is on the screen stays so when a slot is replaced by a document of no
\* name that is filed, or one on the screen by itself.
LEMMA PutScreen ==
    ASSUME NEW s \in [Slots -> Buffers], NEW c, OnScreen(s, c), NEW i \in Slots, NEW b \in Buffers,
           i = c => /\ b.used => b.buf # NoText
                    /\ b.used \/ (b.name = s[i].name /\ ~s[i].used),
           i # c => b.name \notin Filed
    PROVE  OnScreen([s EXCEPT ![i] = b], c)
<1> DEFINE t == [s EXCEPT ![i] = b]
<1>1. t \in [Slots -> Buffers] /\ t[i] = b /\ \A j \in Slots : j # i => t[j] = s[j]
  OBVIOUS
<1> SUFFICES OnScreen(t, c)
  OBVIOUS
<1> HIDE DEF t
<1>2. \A j \in UsedIn(t) : j # i => j \in UsedIn(s) /\ t[j] = s[j]
  BY <1>1 DEF UsedIn
<1>3. CASE i # c
  BY <1>1, <1>2, <1>3 DEF OnScreen
<1>4. CASE i = c /\ b.used
  BY <1>1, <1>4 DEF OnScreen
<1>5. CASE i = c /\ ~b.used
  <2>1. i \notin UsedIn(t)
    BY <1>1, <1>5 DEF UsedIn
  <2> QED
    BY <1>1, <1>2, <1>5, <2>1 DEF OnScreen
<1> QED
  BY <1>3, <1>4, <1>5

\* What an edit makes of a document.
LEMMA LaterText ==
    ASSUME NEW b \in Buffers, b.buf # NoText, b.name = Out \/ b.buf.ver < MaxVer
    PROVE  Later(b) \in DocTexts /\ Later(b) # NoText
<1>1. b.buf \in DocTexts /\ MaxVer \in Nat
  BY BoundsAssumption DEF Buffers
<1>2. b.buf.ver \in 0 .. MaxVer /\ b.buf.doc \in 0 .. MaxDocs
  BY <1>1 DEF DocTexts
<1>3. \A k \in 0 .. MaxVer : [b.buf EXCEPT !.ver = k] \in DocTexts
  BY <1>1 DEF DocTexts
<1>4. Later(b) \in DocTexts
  <2>1. CASE b.name = Out
    BY <1>1, <1>3, <2>1 DEF Later
  <2>2. CASE b.name # Out
    BY <1>1, <1>2, <1>3, <2>2 DEF Later
  <2> QED
    BY <2>1, <2>2
<1> QED
  BY <1>4, NoneIsNoText

\* A document that has changed and is known to have.
Changed(b) == [b EXCEPT !.buf = Later(b), !.dirty = TRUE]

\* A text that is changed: later, and not saved.
LEMMA ChangedIs ==
    ASSUME NEW b \in Buffers, b.buf # NoText, b.name = Out \/ b.buf.ver < MaxVer
    PROVE  /\ Changed(b) \in Buffers /\ Changed(b).buf # NoText /\ Changed(b).dirty = TRUE
           /\ Changed(b).name = b.name /\ (Changed(b).used <=> b.used) /\ Changed(b).rec = b.rec
<1>1. Later(b) \in DocTexts /\ Later(b) # NoText
  BY LaterText
<1> QED
  BY <1>1 DEF Changed, Buffers

\* A document with a change to save replaces one.
LEMMA PutChanged ==
    ASSUME NEW s, NEW a, Agree(s, a), NEW i \in Slots, NEW b \in Buffers,
           b.rec = NoText, b.buf # NoText, b.dirty = TRUE,
           b.used /\ b.name # NoName => \A j \in UsedIn(s) : j # i => s[j].name # b.name
    PROVE  Agree([s EXCEPT ![i] = b], a)
  BY PutKeeps

\* The open document is changed.
LEMMA EditKept ==
    ASSUME DocsInv, Edit
    PROVE  Kept
<1> DEFINE b == slot[cur]
           c == Changed(b)
<1>1. Agree(slot, archive) /\ OnScreen(slot, cur) /\ cur \in Slots /\ slot \in [Slots -> Buffers]
  BY DEF DocsInv, OnScreen, Agree
<1>2. b \in Buffers /\ b.buf # NoText /\ (b.name = Out \/ b.buf.ver < MaxVer)
  BY <1>1 DEF Edit, Loaded, Transient
<1>3. slot' = [slot EXCEPT ![cur] = c] /\ cur' = cur /\ archive' = archive
  <2>1. slot' = [slot EXCEPT ![cur] = [slot[cur] EXCEPT !.buf = Later(slot[cur]), !.dirty = TRUE]]
    BY <1>1 DEF Edit
  <2> QED
    BY <2>1 DEF Edit, Changed
<1>4. /\ c \in Buffers /\ c.buf # NoText /\ c.dirty = TRUE
      /\ c.name = b.name /\ (c.used <=> b.used) /\ c.rec = b.rec
  BY <1>2, ChangedIs
<1>5. b.rec = NoText
  BY <1>1, <1>2 DEF Agree, NotedIsNewest
<1>6. b.used /\ b.name # NoName => \A j \in UsedIn(slot) : j # cur => slot[j].name # b.name
  BY <1>1 DEF Agree, Apart, UsedIn
<1> HIDE DEF c
<1>7. Agree([slot EXCEPT ![cur] = c], archive)
  <2>1. Agree(slot, archive) /\ cur \in Slots
    BY <1>1
  <2>2. c \in Buffers /\ c.rec = NoText /\ c.buf # NoText /\ c.dirty = TRUE
    BY <1>4, <1>5
  <2>3. c.used /\ c.name # NoName => \A j \in UsedIn(slot) : j # cur => slot[j].name # c.name
    BY <1>4, <1>6
  <2> QED
    BY <2>1, <2>2, <2>3, PutChanged
<1>8. OnScreen([slot EXCEPT ![cur] = c], cur)
  BY <1>1, <1>4, PutScreen
<1> QED
  BY <1>3, <1>7, <1>8 DEF Kept

\* A document whose text is saved under its name.
LEMMA SavedIs ==
    ASSUME NEW b \in Buffers
    PROVE  /\ Cleaned(b) \in Buffers /\ ~Cleaned(b).dirty /\ Cleaned(b).name = b.name
           /\ (Cleaned(b).used <=> b.used) /\ Cleaned(b).rec = b.rec /\ Cleaned(b).buf = b.buf
           /\ TextOf(b) \in DocTexts /\ (b.buf # NoText => TextOf(b) = b.buf)
<1>1. Empty(b) \in DocTexts
  BY FilledIs
<1> QED
  BY <1>1 DEF Cleaned, TextOf, Buffers

\* doc_save() of a document in the table s.
LEMMA SavedKeeps ==
    ASSUME NEW s, Agree(s, archive), NEW i \in Slots,
           s[i].rec = NoText, s[i].used => s[i].buf # NoText,
           ~s[i].used /\ s[i].name \in Filed => \A j \in UsedIn(s) : s[j].name # s[i].name
    PROVE  Agree([s EXCEPT ![i] = Cleaned(s[i])], Archived(s[i]))
<1> DEFINE b == s[i]
           c == Cleaned(b)
<1>1. b \in Buffers
  BY DEF Agree
<1>2. /\ c \in Buffers /\ ~c.dirty /\ c.name = b.name
      /\ (c.used <=> b.used) /\ c.rec = NoText /\ c.buf = b.buf
      /\ TextOf(b) \in DocTexts /\ (b.buf # NoText => TextOf(b) = b.buf)
  BY <1>1, SavedIs
<1>3. b.used /\ b.name # NoName => \A j \in UsedIn(s) : j # i => s[j].name # b.name
  BY DEF Agree, Apart, UsedIn
<1> HIDE DEF c
<1>4. CASE b.name = Out
  <2>1. b.name \notin Filed
    BY <1>4 DEF Filed
  <2>2. Agree([s EXCEPT ![i] = c], archive)
    BY <1>2, <1>3, <2>1, PutKeeps
  <2> QED
    BY <1>4, <2>2 DEF Archived, c
<1>5. CASE b.name # Out
  <2>1. b.name # NoName => b.name \in Filed
    BY <1>1, <1>5 DEF Filed, Buffers
  <2>2. Agree([s EXCEPT ![i] = c], [archive EXCEPT ![c.name] = TextOf(b)])
    BY <1>2, <1>3, <2>1, SaveKeeps
  <2> QED
    BY <1>2, <1>5, <2>2 DEF Archived, c
<1> QED
  BY <1>4, <1>5

\* The open document is saved.
LEMMA SaveKept ==
    ASSUME DocsInv, DocSave, cur' = cur
    PROVE  Kept
<1> DEFINE c == Cleaned(slot[cur])
<1>1. Agree(slot, archive) /\ OnScreen(slot, cur) /\ cur \in Slots /\ slot \in [Slots -> Buffers]
  BY DEF DocsInv, OnScreen, Agree
<1>2. slot[cur].rec = NoText
  BY <1>1 DEF OnScreen, Agree, NotedIsNewest
<1>3. Agree([slot EXCEPT ![cur] = c], Archived(slot[cur]))
  BY <1>1, <1>2, SavedKeeps DEF OnScreen
<1>4. c \in Buffers /\ c.name = slot[cur].name /\ (c.used <=> slot[cur].used) /\ c.buf = slot[cur].buf
  BY <1>1, SavedIs
<1> HIDE DEF c
<1>5. slot[cur].used => slot[cur].buf # NoText
  BY <1>1 DEF OnScreen
<1>6. OnScreen([slot EXCEPT ![cur] = c], cur)
  BY <1>1, <1>4, <1>5, PutScreen
<1>7. slot' = [slot EXCEPT ![cur] = c] /\ archive' = Archived(slot[cur])
  BY DEF DocSave, c
<1> QED
  BY <1>3, <1>6, <1>7 DEF Kept

\* A line for "+out": never a document that is filed.
LEMMA PrintKept ==
    ASSUME ~MallocFails, DocsInv, PrintLine
    PROVE  Kept
<1> DEFINE have == {k \in Open : slot[k].name = Out}
           i == IF have # {} THEN Lowest(have) ELSE Lowest(Slots \ Open)
           b == IF have # {} THEN slot[i] ELSE Claim(Out, NoText, 0)
<1>1. Agree(slot, archive) /\ OnScreen(slot, cur) /\ cur \in Slots /\ slot \in [Slots -> Buffers]
  BY DEF DocsInv, OnScreen, Agree
<1>2. PICK e \in EnsureStorage(b) :
          slot' = [slot EXCEPT ![i] = IF e.ok THEN Changed(e.b) ELSE e.b]
  BY DEF PrintLine, Changed
<1>3. cur' = cur /\ archive' = archive /\ (have # {} \/ Open # Slots)
  BY DEF PrintLine
<1>4. Out \notin Filed /\ Out # NoName /\ Out \in DocNames
  BY NamesAssumption DEF Filed
<1>5. /\ i \in Slots /\ b \in Buffers /\ b.used /\ b.name = Out /\ b.rec = NoText
      /\ \A j \in UsedIn(slot) : j # i => slot[j].name # Out
  <2>1. CASE have # {}
    <3>1. have \in SUBSET Slots
      BY DEF Open
    <3>2. i \in have
      BY <2>1, <3>1, FirstSlot
    <3>3. b = slot[i]
      BY <2>1
    <3> HIDE DEF i, b
    <3>4. i \in Slots /\ slot[i].used /\ slot[i].name = Out
      BY <3>2 DEF Open
    <3>5. b.rec = NoText
      BY <1>1, <1>4, <3>3, <3>4 DEF Agree, NotedIsNewest
    <3>6. \A j \in UsedIn(slot) : j # i => slot[j].name # Out
      BY <1>1, <1>4, <3>4 DEF Agree, Apart, UsedIn
    <3> QED
      BY <1>1, <3>3, <3>4, <3>5, <3>6
  <2>2. CASE have = {}
    <3>1. Slots \ Open \in SUBSET Slots /\ Slots \ Open # {}
      BY <1>3, <2>2 DEF Open
    <3>2. i \in Slots \ Open
      BY <2>2, <3>1, FirstSlot
    <3>3. b = Claim(Out, NoText, 0)
      BY <2>2
    <3> HIDE DEF i, b
    <3>4. 0 \in 0 .. MaxDocs
      BY BoundsAssumption
    <3>5. b \in Buffers /\ b.used /\ b.name = Out /\ b.rec = NoText
      BY <1>4, <3>3, <3>4, Slotted
    <3>6. \A j \in UsedIn(slot) : slot[j].name # Out
      BY <2>2 DEF UsedIn, Open
    <3> QED
      BY <3>2, <3>5, <3>6
  <2> QED
    BY <2>1, <2>2
<1> HIDE DEF i, b, have
<1>6. e.ok = TRUE /\ ((e.b = b /\ b.buf # NoText) \/ e.b = Filled(b))
  BY <1>5, StorageWays
<1>7. e.b \in Buffers /\ e.b.buf # NoText /\ e.b.used /\ e.b.name = Out /\ e.b.rec = NoText
  BY <1>5, <1>6, FilledIs
<1> DEFINE c == Changed(e.b)
<1>8. /\ c \in Buffers /\ c.buf # NoText /\ c.dirty = TRUE
      /\ c.name = Out /\ c.used /\ c.rec = NoText
  BY <1>7, ChangedIs
<1>9. slot' = [slot EXCEPT ![i] = c]
  BY <1>2, <1>6
<1> HIDE DEF c
<1>10. Agree([slot EXCEPT ![i] = c], archive)
  <2>1. Agree(slot, archive) /\ i \in Slots
    BY <1>1, <1>5
  <2>2. c \in Buffers /\ c.rec = NoText /\ c.buf # NoText /\ c.dirty = TRUE
    BY <1>8
  <2>3. c.used /\ c.name # NoName => \A j \in UsedIn(slot) : j # i => slot[j].name # c.name
    BY <1>5, <1>8
  <2> QED
    BY <2>1, <2>2, <2>3, PutChanged
<1>11. OnScreen([slot EXCEPT ![i] = c], cur)
  BY <1>1, <1>4, <1>5, <1>8, PutScreen
<1> QED
  BY <1>3, <1>9, <1>10, <1>11 DEF Kept

\* doc_init(): each slot is the nameless document, one filed, or free.
LEMMA DeckOnKept ==
    ASSUME DocsInv, DeckOn
    PROVE  Kept
<1> DEFINE known == {n \in Filed : archive[n] # NoText}
<1>1. archive \in Archives
  BY DEF DocsInv, Agree
<1>2. PICK f \in [Slots \ {0} -> known \cup {NoText}],
           d \in 0 .. MaxDocs, t \in DocTexts :
        /\ \A i, j \in Slots \ {0} : f[i] = f[j] /\ f[i] # NoText => i = j
        /\ slot' = [i \in Slots |->
                       IF i = 0 THEN [Claim(NoName, NoText, d) EXCEPT !.buf = t]
                       ELSE IF f[i] = NoText THEN Free
                       ELSE Claim(f[i], archive[f[i]], archive[f[i]].doc)]
  <2>1. PICK f \in [Slots \ {0} -> known \cup {NoText}] :
          /\ \A i, j \in Slots \ {0} : f[i] = f[j] /\ f[i] # NoText => i = j
          /\ \E d \in IF archive[NoName] = NoText
                      THEN When(Unborn # {}, {Lowest(Unborn)})
                      ELSE {archive[NoName].doc} :
                \E t \in IF archive[NoName] = NoText THEN {[doc |-> d, ver |-> 0]}
                         ELSE {archive[NoName]}
                              \cup When(ReadFails, {[doc |-> d, ver |-> 0]}) :
                   slot' = [i \in Slots |->
                       IF i = 0 THEN [Claim(NoName, NoText, d) EXCEPT !.buf = t]
                       ELSE IF f[i] = NoText THEN Free
                       ELSE Claim(f[i], archive[f[i]], archive[f[i]].doc)]
    BY DEF DeckOn
  <2>2. PICK d \in IF archive[NoName] = NoText
                   THEN When(Unborn # {}, {Lowest(Unborn)})
                   ELSE {archive[NoName].doc} :
             \E t \in IF archive[NoName] = NoText THEN {[doc |-> d, ver |-> 0]}
                      ELSE {archive[NoName]} \cup When(ReadFails, {[doc |-> d, ver |-> 0]}) :
                slot' = [i \in Slots |->
                    IF i = 0 THEN [Claim(NoName, NoText, d) EXCEPT !.buf = t]
                    ELSE IF f[i] = NoText THEN Free
                    ELSE Claim(f[i], archive[f[i]], archive[f[i]].doc)]
    BY <2>1
  <2>3. PICK t \in IF archive[NoName] = NoText THEN {[doc |-> d, ver |-> 0]}
                   ELSE {archive[NoName]} \cup When(ReadFails, {[doc |-> d, ver |-> 0]}) :
             slot' = [i \in Slots |->
                 IF i = 0 THEN [Claim(NoName, NoText, d) EXCEPT !.buf = t]
                 ELSE IF f[i] = NoText THEN Free
                 ELSE Claim(f[i], archive[f[i]], archive[f[i]].doc)]
    BY <2>2
  <2>4. NoName \in DocNames /\ archive[NoName] \in DocTexts \cup {NoText}
    BY <1>1, NamesAssumption DEF Archives
  <2>5. d \in 0 .. MaxDocs
    <3>1. CASE archive[NoName] = NoText
      <4>1. Unborn # {} /\ d = Lowest(Unborn)
        BY <3>1 DEF When
      <4>2. /\ Unborn \in SUBSET Int /\ 1 \in Int /\ MaxDocs \in Int
            /\ Unborn \subseteq 1 .. MaxDocs
        BY BoundsAssumption DEF Unborn
      <4>3. Lowest(Unborn) \in Unborn
        BY <4>1, <4>2, LowestIn
      <4>4. \A x \in Unborn : x \in 0 .. MaxDocs
        BY <4>2
      <4> QED
        BY <4>1, <4>3, <4>4
    <3>2. CASE archive[NoName] # NoText
      BY <2>4, <3>2 DEF DocTexts
    <3> QED
      BY <3>1, <3>2
  <2>6. t \in DocTexts
    <3>1. [doc |-> d, ver |-> 0] \in DocTexts
      BY <2>5, BoundsAssumption DEF DocTexts
    <3> QED
      BY <2>4, <3>1 DEF When
  <2> QED
    BY <2>1, <2>3, <2>5, <2>6
<1> DEFINE s == [i \in Slots |->
                    IF i = 0 THEN [Claim(NoName, NoText, d) EXCEPT !.buf = t]
                    ELSE IF f[i] = NoText THEN Free
                    ELSE Claim(f[i], archive[f[i]], archive[f[i]].doc)]
<1>3. slot' = s /\ cur' = 0 /\ archive' = archive
  BY <1>2 DEF DeckOn
<1>4. 0 \in Slots /\ NoName \in DocNames /\ NoName \notin Filed /\ t # NoText
  BY BoundsAssumption, NamesAssumption, NoneIsNoText DEF Slots, Filed
<1>5. s[0] = [Claim(NoName, NoText, d) EXCEPT !.buf = t]
  BY <1>4
<1>6. /\ s[0] \in Buffers /\ s[0].used /\ s[0].name = NoName /\ s[0].rec = NoText
      /\ s[0].buf = t
  BY <1>4, <1>5 DEF Claim, Free, Buffers
<1>7. ASSUME NEW i \in Slots \ {0}
      PROVE  \/ f[i] = NoText /\ s[i] = Free
             \/ /\ f[i] \in Filed /\ f[i] # NoText /\ archive[f[i]] # NoText /\ s[i] \in Buffers
                /\ s[i].used /\ s[i].name = f[i] /\ s[i].rec = archive[f[i]]
                /\ s[i].buf = NoText /\ ~s[i].dirty
  <2>1. CASE f[i] = NoText
    BY <2>1
  <2>2. CASE f[i] # NoText
    <3>1. f[i] \in Filed /\ archive[f[i]] # NoText
      BY <2>2
    <3>2. f[i] \in DocNames /\ archive[f[i]] \in DocTexts
      BY <1>1, <3>1 DEF Filed, Archives
    <3>3. archive[f[i]].doc \in 0 .. MaxDocs
      BY <3>2 DEF DocTexts
    <3>4. s[i] = Claim(f[i], archive[f[i]], archive[f[i]].doc)
      BY <2>2
    <3> HIDE DEF s
    <3> QED
      BY <2>2, <3>1, <3>2, <3>3, <3>4, Slotted
  <2> QED
    BY <2>1, <2>2
<1>8. \A i \in Slots : s[i] \in Buffers
  BY <1>6, <1>7, Slotted
<1>9. s \in [Slots -> Buffers]
  <2>1. s = [i \in Slots |-> s[i]]
    OBVIOUS
  <2> HIDE DEF s
  <2> QED
    BY <1>8, <2>1
<1> HIDE DEF s
<1>10. \A i \in UsedIn(s) : i # 0 => /\ i \in Slots \ {0} /\ f[i] # NoText /\ s[i].name = f[i]
                                     /\ s[i].rec = archive[f[i]] /\ s[i].rec # NoText
                                     /\ s[i].buf = NoText
  BY <1>7, Slotted DEF UsedIn
<1>11. Apart(s)
  BY <1>2, <1>6, <1>10 DEF Apart
<1>12. NotedIsNewest(s, archive)
  BY <1>6, <1>7, Slotted DEF NotedIsNewest
<1>13. InMemoryOrNoted(s)
  BY <1>4, <1>6, <1>10 DEF InMemoryOrNoted
<1>14. CleanIsArchived(s, archive)
  BY <1>4, <1>6, <1>10 DEF CleanIsArchived
<1>15. OnScreen(s, 0)
  BY <1>4, <1>6 DEF OnScreen
<1> QED
  BY <1>1, <1>3, <1>9, <1>11, <1>12, <1>13, <1>14, <1>15 DEF Kept, Agree

\* The restart, or power cut.
LEMMA DeckOffKept ==
    ASSUME DocsInv, DeckOff
    PROVE  Kept
<1>1. archive \in Archives
  BY DEF DocsInv, Agree
<1> QED
  BY <1>1, AllFree DEF DeckOff, Kept

-----------------------------------------------------------------------------
(***************************************************************************)
(* doc_save_all_dirty(), a document at a time.                             *)
(***************************************************************************)

\* A save of everything begins.
LEMMA SavingStarts ==
    ASSUME DocsInv, SaveAll
    PROVE  DocsInv'
<1>1. OnScreen(slot, cur) /\ cur \in Slots
  BY DEF DocsInv, OnScreen
<1>2. /\ phase' = "saving" /\ at' = 0 /\ was' = cur /\ failed' = {}
      /\ slot' = slot /\ cur' = cur /\ archive' = archive
  BY DEF SaveAll
<1>3. PassedIn(slot', 0, {})
  BY <1>2 DEF PassedIn, UsedIn, Slots
<1>4. 0 \in 0 .. MaxBuffers
  BY BoundsAssumption
<1>5. SavingInv'
  BY <1>1, <1>2, <1>3, <1>4 DEF SavingInv, OnScreen
<1> QED
  BY <1>2, <1>5 DEF DocsInv

\* What doc_save_all_dirty() knows while it goes through the slots.
LEMMA SavingAt ==
    ASSUME DocsInv, phase = "saving"
    PROVE  /\ at \in 0 .. MaxBuffers /\ PassedIn(slot, at, failed)
           /\ was \in Slots /\ (slot[was].used => slot[was].buf # NoText)
  BY DEF DocsInv, SavingInv

\* A document with nothing to save is passed by.
LEMMA SkipKept ==
    ASSUME DocsInv, SkipNext
    PROVE  DocsInv'
<1>1. /\ phase = "saving" /\ at < MaxBuffers /\ at' = at + 1 /\ (~slot[at].used \/ slot[at].name = Out)
      /\ phase' = "saving" /\ was' = was /\ failed' = failed
      /\ slot' = slot /\ cur' = cur /\ archive' = archive
  BY DEF SkipNext, Transient
<1>2. /\ at \in 0 .. MaxBuffers /\ PassedIn(slot, at, failed)
      /\ was \in Slots /\ (slot[was].used => slot[was].buf # NoText)
  BY <1>1, SavingAt
<1>3. at + 1 \in 0 .. MaxBuffers
  BY <1>1, <1>2, BoundsAssumption
<1>4. PassedIn(slot, at + 1, failed)
  <2>1. ASSUME NEW i \in UsedIn(slot), i < at + 1
        PROVE  i \in failed \/ slot[i].name = Out \/ ~slot[i].dirty
    <3>1. slot[i].used /\ (i < at \/ i = at)
      BY <1>2, <2>1 DEF UsedIn, Slots
    <3> QED
      BY <1>1, <1>2, <3>1 DEF PassedIn
  <2> QED
    BY <2>1 DEF PassedIn
<1>5. SavingInv'
  BY <1>1, <1>2, <1>3, <1>4 DEF SavingInv
<1> QED
  BY <1>1, <1>5 DEF DocsInv

\* The document at the slot reached is brought up and, if it has changed,
\* filed, or known to have failed.
LEMMA SaveNextKept ==
    ASSUME ~MallocFails, DocsInv, SaveNext
    PROVE  DocsInv'
<1>1. /\ phase = "saving" /\ at < MaxBuffers /\ at' = at + 1 /\ slot[at].used
      /\ phase' = "saving" /\ was' = was
  BY DEF SaveNext
<1>2. /\ at \in 0 .. MaxBuffers /\ PassedIn(slot, at, failed)
      /\ was \in Slots /\ (slot[was].used => slot[was].buf # NoText)
  BY <1>1, SavingAt
<1>3. at \in Slots /\ at + 1 \in 0 .. MaxBuffers
  BY <1>1, <1>2, BoundsAssumption DEF Slots
<1>4. Agree(slot, archive) /\ OnScreen(slot, cur) /\ cur \in Slots
  BY DEF DocsInv, OnScreen
<1>5. PICK o \in Selected(slot, cur, at) :
        /\ cur' = o.cur
        /\ \/ /\ o.ok /\ slot[at].dirty
              /\ slot' = [o.slot EXCEPT ![at] = Cleaned(o.slot[at])]
              /\ archive' = Archived(o.slot[at])
              /\ failed' = failed
           \/ slot' = o.slot /\ failed' = failed \cup {at} /\ archive' = archive
           \/ (~o.ok \/ ~slot[at].dirty) /\ slot' = o.slot /\ archive' = archive /\ failed' = failed
  BY DEF SaveNext, NeedsSave
<1>6. SelectEnds(slot, cur, at, o)
  BY <1>3, <1>4, SelectedWays
<1>7. OnScreen(o.slot, o.cur)
  BY <1>3, <1>4, SelectedScreen
<1>8. /\ Agree(o.slot, archive) /\ SameDocs(slot, o.slot) /\ o.slot[at].used
      /\ o.slot[was].used => o.slot[was].buf # NoText
  BY <1>1, <1>2, <1>3, <1>6 DEF SelectEnds, SameDocs
\* Whatever is left of the slot reached, if it needs no saving the rest is passed.
<1>9. ASSUME NEW t, NEW lost, failed \subseteq lost, UsedIn(t) = UsedIn(slot),
             \A j \in Slots : j # at => t[j].name = slot[j].name /\ (t[j].dirty <=> slot[j].dirty),
             at \in lost \/ ~t[at].dirty
      PROVE  PassedIn(t, at + 1, lost)
  <2>1. ASSUME NEW j \in UsedIn(t), j < at + 1
        PROVE  j \in lost \/ t[j].name = Out \/ ~t[j].dirty
    <3>1. j \in UsedIn(slot) /\ j \in Slots
      BY <1>9 DEF UsedIn
    <3>2. j < at \/ j = at
      BY <1>2, <2>1, <3>1 DEF Slots
    <3>3. CASE j = at
      BY <1>9, <3>3
    <3>4. CASE j < at
      <4>1. j # at
        BY <1>2, <3>4
      <4>2. j \in failed \/ slot[j].name = Out \/ ~slot[j].dirty
        BY <1>2, <3>1, <3>4 DEF PassedIn
      <4> QED
        BY <1>9, <3>1, <4>1, <4>2
    <3> QED
      BY <3>2, <3>3, <3>4
  <2> QED
    BY <2>1 DEF PassedIn
<1>10. CASE slot' = o.slot /\ failed' = failed \cup {at} /\ archive' = archive
  <2>1. PassedIn(o.slot, at + 1, failed \cup {at})
    BY <1>8, <1>9 DEF SameDocs
  <2>2. SavingInv'
    BY <1>1, <1>2, <1>3, <1>8, <1>10, <2>1 DEF SavingInv
  <2> QED
    BY <1>5, <1>7, <1>8, <1>10, <2>2 DEF DocsInv
<1>11. CASE (~o.ok \/ ~slot[at].dirty) /\ slot' = o.slot /\ archive' = archive /\ failed' = failed
  <2>1. ~slot[at].dirty
    <3>1. CASE o.ok = FALSE
      BY <1>1, <1>3, <1>4, <1>6, <3>1 DEF SelectEnds, Agree, NotedIsNewest
    <3> QED
      BY <1>6, <1>11, <3>1 DEF SelectEnds
  <2>2. ~o.slot[at].dirty
    BY <1>3, <1>8, <2>1 DEF SameDocs
  <2>3. PassedIn(o.slot, at + 1, failed)
    BY <1>8, <1>9, <2>2 DEF SameDocs
  <2>4. SavingInv'
    BY <1>1, <1>2, <1>3, <1>8, <1>11, <2>3 DEF SavingInv
  <2> QED
    BY <1>5, <1>7, <1>8, <1>11, <2>4 DEF DocsInv
<1>12. CASE /\ o.ok
            /\ slot' = [o.slot EXCEPT ![at] = Cleaned(o.slot[at])]
            /\ archive' = Archived(o.slot[at])
            /\ failed' = failed
  <2> DEFINE c == Cleaned(o.slot[at])
             t == [o.slot EXCEPT ![at] = c]
  <2>1. o.cur = at /\ o.slot[at].buf # NoText
    BY <1>6, <1>12 DEF SelectEnds
  <2>2. o.slot \in [Slots -> Buffers] /\ o.slot[at] \in Buffers
    BY <1>3, <1>8 DEF Agree
  <2>3. o.slot[at].rec = NoText
    BY <1>3, <1>8, <2>1 DEF Agree, NotedIsNewest
  <2>4. Agree(t, Archived(o.slot[at]))
    BY <1>3, <1>8, <2>1, <2>3, SavedKeeps
  <2>5. /\ c \in Buffers /\ ~c.dirty /\ c.used /\ c.buf # NoText
    BY <1>8, <2>1, <2>2, SavedIs
  <2> HIDE DEF c
  <2>6. t[at] = c /\ \A j \in Slots : j # at => t[j] = o.slot[j]
    BY <1>3, <2>2
  <2> HIDE DEF t
  <2>7. OnScreen(t, at)
    BY <1>3, <2>5, <2>6 DEF OnScreen
  <2>8. UsedIn(t) = UsedIn(slot)
    <3>1. UsedIn(t) = UsedIn(o.slot)
      BY <1>3, <1>8, <2>5, <2>6 DEF UsedIn
    <3> QED
      BY <1>8, <3>1 DEF SameDocs
  <2>9. PassedIn(t, at + 1, failed)
    <3>1. \A j \in Slots : j # at => t[j].name = slot[j].name /\ (t[j].dirty <=> slot[j].dirty)
      BY <1>8, <2>6 DEF SameDocs
    <3>2. ~t[at].dirty
      BY <2>5, <2>6
    <3> QED
      BY <1>9, <2>8, <3>1, <3>2
  <2>10. t[was].used => t[was].buf # NoText
    BY <1>2, <1>8, <2>5, <2>6
  <2>11. slot' = t
    BY <1>12 DEF t, c
  <2>12. SavingInv'
    BY <1>1, <1>2, <1>3, <1>12, <2>9, <2>10, <2>11 DEF SavingInv
  <2> QED
    BY <1>5, <1>12, <2>1, <2>4, <2>7, <2>11, <2>12 DEF DocsInv
<1> QED
  BY <1>5, <1>10, <1>11, <1>12

\* The document that was on the screen is there again.
LEMMA SavingEnds ==
    ASSUME ~MallocFails, DocsInv, SaveAllEnd
    PROVE  DocsInv'
<1>1. /\ phase = "saving" /\ at = MaxBuffers
      /\ phase' = "reboot" /\ archive' = archive /\ was' = was /\ failed' = failed
  BY DEF SaveAllEnd, restart
<1>2. /\ PassedIn(slot, MaxBuffers, failed)
      /\ was \in Slots /\ (slot[was].used => slot[was].buf # NoText)
  BY <1>1, SavingAt
<1>3. Agree(slot, archive) /\ OnScreen(slot, cur) /\ cur \in Slots
  BY DEF DocsInv, OnScreen
<1>4. PICK o \in Selected(slot, cur, was) : slot' = o.slot /\ cur' = o.cur
  BY DEF SaveAllEnd
<1>5. SelectEnds(slot, cur, was, o)
  BY <1>2, <1>3, SelectedWays
<1>6. CASE ~slot[was].used
  <2>1. o.slot = slot /\ o.cur = cur
    BY <1>5, <1>6 DEF SelectEnds
  <2>2. SavingInv'
    BY <1>1, <1>2, <1>4, <1>6, <2>1 DEF SavingInv
  <2> QED
    BY <1>1, <1>3, <1>4, <2>1, <2>2 DEF DocsInv
<1>7. CASE slot[was].used
  <2>1. o.cur = was /\ o.slot[was].buf # NoText
    BY <1>2, <1>5, <1>7 DEF SelectEnds
  <2>2. Agree(o.slot, archive) /\ o.slot[was].used
    BY <1>2, <1>5, <1>7 DEF SelectEnds, SameDocs
  <2>3. PassedIn(o.slot, MaxBuffers, failed)
    <3>1. \A j \in UsedIn(o.slot) : /\ j \in UsedIn(slot) /\ o.slot[j].name = slot[j].name
                                    /\ (o.slot[j].dirty <=> slot[j].dirty)
      BY <1>5 DEF SelectEnds, SameDocs, UsedIn
    <3> QED
      BY <1>2, <3>1 DEF PassedIn
  <2>4. OnScreen(o.slot, o.cur)
    BY <1>2, <2>1, <2>2 DEF OnScreen
  <2>5. SavingInv'
    BY <1>1, <1>2, <1>4, <2>1, <2>3 DEF SavingInv
  <2> QED
    BY <1>1, <1>4, <2>2, <2>4, <2>5 DEF DocsInv
<1> QED
  BY <1>6, <1>7

-----------------------------------------------------------------------------
(***************************************************************************)
(* Every step.                                                             *)
(***************************************************************************)

\* Outside a restart there is nothing to keep of it.
LEMMA NotSaving ==
    ASSUME Kept, phase' = "up" \/ phase' = "off"
    PROVE  DocsInv'
<1>1. SavingInv'
  BY DEF SavingInv
<1> QED
  BY <1>1 DEF Kept, DocsInv

\* Every step keeps the documents.
LEMMA DocsStep ==
    ASSUME NamesFit, ~MallocFails, DocsInv, [BuffersNext]_bufferVars
    PROVE  DocsInv'
<1>1. CASE DeckOn
  BY <1>1, DeckOnKept, NotSaving DEF DeckOn
<1>2. CASE DeckOff
  BY <1>2, DeckOffKept, NotSaving DEF DeckOff
<1>3. ASSUME NEW i \in Slots, Select(i) PROVE DocsInv'
  BY <1>3, SelectKept, NotSaving DEF Select, Up
<1>4. ASSUME NEW r \in Requests, Name(r) PROVE DocsInv'
  BY <1>4, NameKept, NotSaving DEF Name, Up
<1>5. CASE New
  BY <1>5, NewKept, NotSaving DEF New, Up
<1>6. CASE Edit
  BY <1>6, EditKept, NotSaving DEF Edit, Up
<1>7. CASE SaveDoc
  BY <1>7, SaveKept, NotSaving DEF SaveDoc, Up
<1>8. CASE Autosave
  BY <1>8, SaveKept, NotSaving DEF Autosave, Up
<1>9. CASE Transport
  <2>1. Kept
    BY <1>9 DEF Transport, Kept, DocsInv
  <2> QED
    BY <1>9, <2>1, NotSaving DEF Transport, Up
<1>10. CASE Close
  BY <1>10, CloseKept, NotSaving DEF Close, Up
<1>11. CASE PrintLine
  BY <1>11, PrintKept, NotSaving DEF PrintLine, Up
<1>12. CASE SaveAll
  BY <1>12, SavingStarts
<1>13. CASE SkipNext
  BY <1>13, SkipKept
<1>14. CASE SaveNext
  BY <1>14, SaveNextKept
<1>15. CASE SaveAllEnd
  BY <1>15, SavingEnds
<1>16. CASE UNCHANGED bufferVars
  BY <1>16 DEF bufferVars, DocsInv, Agree, OnScreen, SavingInv
<1> QED
  BY <1>1, <1>2, <1>3, <1>4, <1>5, <1>6, <1>7, <1>8, <1>9, <1>10, <1>11, <1>12, <1>13, <1>14, <1>15,
     <1>16 DEF BuffersNext

\* The invariant holds of every deck whose memory does not run out half way.
LEMMA DocsHold ==
    ASSUME NamesFit, ~MallocFails
    PROVE  BuffersSpec => []DocsInv
<1>1. BuffersInit => DocsInv
  <2> SUFFICES ASSUME BuffersInit PROVE DocsInv
    OBVIOUS
  <2>1. archive \in Archives
    BY DEF BuffersInit, Archives
  <2>2. slot = [i \in Slots |-> Free] /\ cur = 0 /\ phase = "off"
    BY DEF BuffersInit
  <2> QED
    BY <2>1, <2>2, AllFree DEF DocsInv, SavingInv
<1>2. DocsInv /\ [BuffersNext]_bufferVars => DocsInv'
  BY DocsStep
<1> QED
  BY <1>1, <1>2, PTL DEF BuffersSpec

\* "A name is unique" (buffer.c:197): whatever is opened, named and closed, no
\* two open documents have the same name, as long as every name asked for fits.
THEOREM NoNameTwice ==
    ASSUME NamesFit, ~MallocFails
    PROVE  BuffersSpec => []NamesUnique
<1>1. DocsInv => NamesUnique
  BY DEF DocsInv, Agree, Apart, NamesUnique, Open, UsedIn
<1> QED
  BY <1>1, DocsHold, PTL

\* A filed document that shows no change to save is the one a reboot would
\* bring back, and one not read yet will be read from its newest record
\* (buffer.c, doc_save and ensure_storage).
THEOREM ShownIsFiled ==
    ASSUME NamesFit, ~MallocFails
    PROVE  BuffersSpec => []CleanIsDurable
<1>1. DocsInv => CleanIsFiled
  BY DEF DocsInv, Agree, CleanIsArchived, CleanIsFiled, Open, UsedIn, Loaded
<1>2. DocsInv => OffsetFresh
  BY DEF DocsInv, Agree, NotedIsNewest, OffsetFresh, Open
<1>3. DocsInv => CleanIsDurable
  BY <1>1, <1>2 DEF CleanIsDurable
<1> QED
  BY <1>3, DocsHold, PTL

\* "Write every dirty non-transient document" (docstore.h:117): at a restart
\* that was asked for each document is filed, or its save is known to have
\* failed, and the screen is back where it was.
THEOREM RestartLosesNothing ==
    ASSUME NamesFit, ~MallocFails
    PROVE  BuffersSpec => []NothingLostAtReboot
<1>1. ASSUME DocsInv PROVE NothingLostAtReboot
  <2> SUFFICES ASSUME phase = "reboot" PROVE /\ \A i \in Open \ failed : Transient(i) \/ ~slot[i].dirty
                                             /\ slot[was].used => cur = was
    BY DEF NothingLostAtReboot
  <2>1. PassedIn(slot, MaxBuffers, failed) /\ (slot[was].used => cur = was)
    BY <1>1 DEF DocsInv, SavingInv
  <2>2. \A i \in Open : i \in UsedIn(slot) /\ i < MaxBuffers
    BY BoundsAssumption DEF Open, UsedIn, Slots
  <2> QED
    BY <2>1, <2>2 DEF PassedIn, Transient
<1> QED
  BY <1>1, DocsHold, PTL

-----------------------------------------------------------------------------
(***************************************************************************)
(* LaneNames: what names mean, and the lanes.                              *)
(***************************************************************************)

Bindings == [kind : Kinds \cup {"unknown"}, num : Nat, part : {a.part : a \in Addresses}]
LaneRecs == [bound : Bindings, live : BOOLEAN, text : Patterns \cup {""}, muted : BOOLEAN,
             route : Sources \cup {Nowhere}, loud : BOOLEAN, high : BOOLEAN]
Vel(a) == [a EXCEPT !.part = "vel"]
Oct(a) == [a EXCEPT !.part = "oct"]
Silent == {"unknown"} \cup InputKinds

\* What is said of the lane l at the address a, among the lanes ls, when names
\* mean ns: it is bound to a part its kind has; its name is still one that
\* plays, and it plays what the name says if it is taken for one of its parts;
\* a level or an octave it did not have of itself was set by a lane that plays.
LaneIsNamed(ns, ls, a) ==
    /\ ls[a] \in LaneRecs
    /\ ls[a].bound.part = a.part /\ a.part \in PartsOf(ls[a].bound.kind)
    /\ Meaning(ns, a.base).kind \notin Silent
    /\ Binds(ns, a) => ls[a].bound = Bound(ns, a)
    /\ ls[a].loud => a.part = "" /\ Vel(a) \in DOMAIN ls /\ ls[Vel(a)].live
    /\ ls[a].high => a.part = "" /\ Oct(a) \in DOMAIN ls /\ ls[Oct(a)].live

NamedLanes(ns, ls) ==
    /\ \A w \in DOMAIN ns : ns[w] \in Definitions
    /\ DOMAIN ls \subseteq Addresses
    /\ \A a \in DOMAIN ls : LaneIsNamed(ns, ls, a)

NamesInv == NamedLanes(names, lanes) /\ InputsAreNamed

\* The parts of each kind.
LEMMA PartsAre ==
    /\ PartsOf("voice") = {"", "vel", "oct"} /\ PartsOf("note") = {"", "vel"}
    /\ PartsOf("picture") = {"", "x", "y"} /\ PartsOf("cc") = {""}
    /\ \A k : k \notin {"voice", "note", "picture", "cc"} => PartsOf(k) = {}
  BY DEF PartsOf

\* A name that is one part of an address, and its lane.
LEMMA Addressed ==
    ASSUME NEW a \in Addresses
    PROVE  /\ Vel(a).base = a.base /\ Oct(a).base = a.base /\ Parent(a).base = a.base
           /\ Vel(a).part = "vel" /\ Oct(a).part = "oct" /\ Parent(a).part = ""
           /\ a.part = "vel" => Vel(Parent(a)) = a
           /\ a.part = "oct" => Oct(Parent(a)) = a
           /\ a.part = "" => Parent(Vel(a)) = a /\ Parent(Oct(a)) = a
<1>1. a \in [base : STRING, inst : Nat, part : STRING]
  BY LaneNamesAssumption
<1> QED
  BY <1>1 DEF Vel, Oct, Parent

\* What a first word means is a kind and a number; what binds, plays.
LEMMA MeaningIs ==
    ASSUME NEW ns, \A w \in DOMAIN ns : ns[w] \in Definitions, NEW a \in Addresses
    PROVE  /\ Bound(ns, a) \in Bindings /\ Bound(ns, a).part = a.part
           /\ Bound(ns, a).kind = Meaning(ns, a.base).kind
           /\ Binds(ns, a) => a.part \in PartsOf(Bound(ns, a).kind)
           /\ Binds(ns, a) => Meaning(ns, a.base).kind \notin Silent
<1> DEFINE m == Meaning(ns, a.base)
<1>1. m.kind \in Kinds \cup {"unknown"} /\ m.num \in Nat
  <2>1. \A e \in [kind : Kinds, num : Nat] : e.kind \in Kinds /\ e.num \in Nat
    OBVIOUS
  <2>2. \A w \in DOMAIN ns : ns[w].kind \in Kinds /\ ns[w].num \in Nat
    BY <2>1, LaneNamesAssumption
  <2>3. \/ a.base \in DOMAIN ns /\ m = ns[a.base]
        \/ m = [kind |-> "picture", num |-> 0] \/ m = [kind |-> "unknown", num |-> 0]
    BY DEF Meaning
  <2> HIDE DEF m
  <2>4. CASE a.base \in DOMAIN ns /\ m = ns[a.base]
    BY <2>2, <2>4
  <2>5. CASE m = [kind |-> "picture", num |-> 0] \/ m = [kind |-> "unknown", num |-> 0]
    BY <2>5 DEF Kinds
  <2> QED
    BY <2>3, <2>4, <2>5
<1>2. a.part \in {x.part : x \in Addresses}
  OBVIOUS
<1>3. Bound(ns, a) = [kind |-> m.kind, num |-> m.num, part |-> a.part]
  BY DEF Bound
<1>4. Binds(ns, a) <=> a.part \in PartsOf(m.kind)
  BY DEF Binds
<1> HIDE DEF m
<1>5. \A k \in Silent : PartsOf(k) = {}
  BY PartsAre DEF Silent, InputKinds
<1> QED
  BY <1>1, <1>2, <1>3, <1>4, <1>5 DEF Bindings, m

-----------------------------------------------------------------------------
(***************************************************************************)
(* What the operators on a table of lanes keep.                            *)
(***************************************************************************)

\* Binding a lane, one there or one not: its name binds it to what it means.
LEMMA BindingKeeps ==
    ASSUME NEW ns, NEW ls, NamedLanes(ns, ls), NEW a \in Addresses, Binds(ns, a)
    PROVE  NamedLanes(ns, BoundTo(ls, a, Bound(ns, a)))
<1> DEFINE b == Bound(ns, a)
           l == IF a \in DOMAIN ls THEN [ls[a] EXCEPT !.bound = b, !.high = FALSE] ELSE Fresh(b)
           t == BoundTo(ls, a, b)
<1>1. /\ b \in Bindings /\ b.part = a.part /\ b.kind = Meaning(ns, a.base).kind
      /\ a.part \in PartsOf(b.kind) /\ Meaning(ns, a.base).kind \notin Silent
  BY MeaningIs DEF NamedLanes
<1>2. DOMAIN t = DOMAIN ls \cup {a} /\ \A y \in DOMAIN t : t[y] = IF y = a THEN l ELSE ls[y]
  BY DEF BoundTo, With
<1>3. Nowhere \in Sources \cup {Nowhere}
  OBVIOUS
<1> HIDE DEF b, t
<1>4. /\ l \in LaneRecs /\ l.bound = b /\ ~l.high
      /\ l.loud => a \in DOMAIN ls /\ ls[a].loud
      /\ a \in DOMAIN ls /\ ls[a].live => l.live
  <2>1. CASE a \in DOMAIN ls
    <3>1. ls[a] \in LaneRecs
      BY <2>1 DEF NamedLanes, LaneIsNamed
    <3>2. l = [ls[a] EXCEPT !.bound = b, !.high = FALSE]
      BY <2>1
    <3> HIDE DEF l
    <3> QED
      BY <1>1, <2>1, <3>1, <3>2 DEF LaneRecs
  <2>2. CASE a \notin DOMAIN ls
    <3>1. l = Fresh(b)
      BY <2>2
    <3> HIDE DEF l
    <3> QED
      BY <1>1, <2>2, <3>1 DEF LaneRecs, Fresh
  <2> QED
    BY <2>1, <2>2
<1> HIDE DEF l
<1>5. \A x \in DOMAIN ls : x \in DOMAIN t /\ (ls[x].live => t[x].live)
  BY <1>2, <1>4
<1>6. LaneIsNamed(ns, t, a)
  <2>1. t[a] = l
    BY <1>2
  <2>2. l.loud => a.part = "" /\ Vel(a) \in DOMAIN ls /\ ls[Vel(a)].live
    BY <1>4 DEF NamedLanes, LaneIsNamed
  <2> QED
    BY <1>1, <1>4, <1>5, <2>1, <2>2 DEF LaneIsNamed, b
<1>7. ASSUME NEW x \in DOMAIN ls, x # a PROVE LaneIsNamed(ns, t, x)
  BY <1>2, <1>5, <1>7 DEF NamedLanes, LaneIsNamed
<1> QED
  BY <1>2, <1>6, <1>7 DEF NamedLanes, t, b

\* A change that leaves every lane bound and set as it was, and playing if it
\* played.
LEMMA SameNamesKeeps ==
    ASSUME NEW ns, NEW ls, NEW t, NamedLanes(ns, ls), DOMAIN t = DOMAIN ls,
           \A x \in DOMAIN ls : /\ t[x] \in LaneRecs /\ t[x].bound = ls[x].bound
                                /\ (t[x].loud => ls[x].loud) /\ (t[x].high => ls[x].high)
                                /\ (ls[x].live => t[x].live)
    PROVE  NamedLanes(ns, t)
  BY DEF NamedLanes, LaneIsNamed

\* The lanes of one name go.
AllDefined(ns) == \A w \in DOMAIN ns : ns[w] \in Definitions
OthersAsBefore(ns, ms, w) == \A u : u # w => Meaning(ms, u) = Meaning(ns, u)
LanesBut(ls, w) == Without(ls, {a \in DOMAIN ls : a.base = w})

\* A name is forgotten: the lanes of every other mean what they meant.
LEMMA ForgettingKeeps ==
    ASSUME NEW ns, NEW ms, NEW ls, NEW w, NamedLanes(ns, ls),
           AllDefined(ms), OthersAsBefore(ns, ms, w)
    PROVE  NamedLanes(ms, LanesBut(ls, w))
<1> DEFINE t == LanesBut(ls, w)
<1>1. DOMAIN t = {a \in DOMAIN ls : a.base # w} /\ \A x \in DOMAIN t : t[x] = ls[x]
  BY DEF Without, Restrict, LanesBut
<1> HIDE DEF t
<1>2. ASSUME NEW x \in DOMAIN t PROVE LaneIsNamed(ms, t, x)
  <2>1. x \in DOMAIN ls /\ x.base # w /\ t[x] = ls[x] /\ x \in Addresses
    BY <1>1 DEF NamedLanes
  <2>2. LaneIsNamed(ns, ls, x)
    BY <2>1 DEF NamedLanes
  <2>3. Meaning(ms, x.base) = Meaning(ns, x.base)
    BY <2>1 DEF OthersAsBefore
  <2>4. (Binds(ms, x) <=> Binds(ns, x)) /\ Bound(ms, x) = Bound(ns, x)
    BY <2>3 DEF Binds, Bound
  <2>5. Vel(x) \in DOMAIN ls => Vel(x) \in DOMAIN t /\ t[Vel(x)] = ls[Vel(x)]
    BY <1>1, <2>1, Addressed
  <2>6. Oct(x) \in DOMAIN ls => Oct(x) \in DOMAIN t /\ t[Oct(x)] = ls[Oct(x)]
    BY <1>1, <2>1, Addressed
  <2> QED
    BY <2>1, <2>2, <2>3, <2>4, <2>5, <2>6 DEF LaneIsNamed
<1> QED
  BY <1>1, <1>2 DEF NamedLanes, AllDefined, t

\* A lane that does not play goes: it has set nothing.
LEMMA RemovingKeeps ==
    ASSUME NEW ns, NEW ls, NamedLanes(ns, ls), NEW a \in DOMAIN ls, ~ls[a].live
    PROVE  NamedLanes(ns, Without(ls, {a}))
<1> DEFINE t == Without(ls, {a})
<1>1. DOMAIN t = DOMAIN ls \ {a} /\ \A x \in DOMAIN t : t[x] = ls[x]
  BY DEF Without, Restrict
<1> HIDE DEF t
<1>2. ASSUME NEW x \in DOMAIN t PROVE LaneIsNamed(ns, t, x)
  BY <1>1 DEF NamedLanes, LaneIsNamed
<1> QED
  BY <1>1, <1>2 DEF NamedLanes, t

\* A part that sets a level or an octave is one of a lane that sounds.
LEMMA PartSounds ==
    ASSUME NEW ns, NEW ls, NamedLanes(ns, ls), NEW a \in DOMAIN ls
    PROVE  /\ ls[a].bound.kind \in Sounds => a.part \in {"", "vel", "oct"}
           /\ a.part \in {"vel", "oct"} => ls[a].bound.kind \in Sounds
<1>1. a.part \in PartsOf(ls[a].bound.kind)
  BY DEF NamedLanes, LaneIsNamed
<1>2. \A k \in Sounds : PartsOf(k) \subseteq {"", "vel", "oct"}
  BY PartsAre DEF Sounds
<1>3. \A k : "vel" \in PartsOf(k) \/ "oct" \in PartsOf(k) => k \in Sounds
  <2>1. "vel" \notin {"", "x", "y"} /\ "oct" \notin {"", "x", "y"}
    OBVIOUS
  <2>2. "vel" \notin {""} /\ "oct" \notin {""}
    OBVIOUS
  <2> QED
    BY <2>1, <2>2, PartsAre DEF Sounds
<1> QED
  BY <1>1, <1>2, <1>3

\* A lane whose level and octave are set.
LEMMA SettingIs ==
    ASSUME NEW r \in LaneRecs, NEW loud \in BOOLEAN, NEW high \in BOOLEAN
    PROVE  /\ [r EXCEPT !.loud = loud, !.high = high] \in LaneRecs
           /\ [r EXCEPT !.loud = loud] \in LaneRecs /\ [r EXCEPT !.high = high] \in LaneRecs
  BY DEF LaneRecs

\* seq_forget(): whatever the part that goes has set goes with it.
LEMMA DroppingKeeps ==
    ASSUME NEW ns, NEW ls, NamedLanes(ns, ls), NEW a \in DOMAIN ls
    PROVE  NamedLanes(ns, Dropped(ls, a))
<1> DEFINE p == Parent(a)
           left == Without(ls, {a})
<1>1. DOMAIN left = DOMAIN ls \ {a} /\ \A x \in DOMAIN left : left[x] = ls[x]
  BY DEF Without, Restrict
<1>2. a \in Addresses /\ \A x \in DOMAIN ls : x \in Addresses
  BY DEF NamedLanes
<1> HIDE DEF left
<1>3. ASSUME NEW x \in DOMAIN left, x # p \/ ls[a].bound.kind \notin Sounds
      PROVE  LaneIsNamed(ns, left, x)
  <2>1. x \in DOMAIN ls /\ left[x] = ls[x] /\ x \in Addresses /\ x # a
    BY <1>1, <1>2
  <2>2. LaneIsNamed(ns, ls, x)
    BY <2>1 DEF NamedLanes
  <2>3. x.part = "" => Vel(x) # a /\ Oct(x) # a
    <3> SUFFICES ASSUME x.part = "", Vel(x) = a \/ Oct(x) = a PROVE FALSE
      OBVIOUS
    <3>1. x = p /\ a.part \in {"vel", "oct"}
      BY <2>1, Addressed
    <3> QED
      BY <1>3, <3>1, PartSounds
  <2>4. \A y \in DOMAIN ls : y # a => y \in DOMAIN left /\ left[y] = ls[y]
    BY <1>1
  <2> QED
    BY <2>1, <2>2, <2>3, <2>4 DEF LaneIsNamed
<1>4. CASE a.part = "" \/ ls[a].bound.kind \notin Sounds \/ p \notin DOMAIN left
  <2>1. Dropped(ls, a) = left
    BY <1>4 DEF Dropped, left
  <2>2. \A x \in DOMAIN left : x # p \/ ls[a].bound.kind \notin Sounds
    <3>1. a.part = "" => p = a
      BY <1>2, LaneNamesAssumption DEF Parent
    <3> QED
      BY <1>1, <1>4, <3>1
  <2> QED
    BY <1>1, <1>2, <1>3, <2>1, <2>2 DEF NamedLanes
<1>5. CASE a.part # "" /\ ls[a].bound.kind \in Sounds /\ p \in DOMAIN left
  <2> DEFINE loud == IF a.part = "vel" THEN FALSE ELSE ls[p].loud
             high == IF a.part = "oct" THEN FALSE ELSE ls[p].high
             r == [ls[p] EXCEPT !.loud = loud, !.high = high]
             t == Dropped(ls, a)
  <2>1. p \in DOMAIN ls /\ left[p] = ls[p] /\ ls[p] \in LaneRecs /\ p \in Addresses /\ p # a
    BY <1>1, <1>2, <1>5 DEF NamedLanes, LaneIsNamed
  <2>2. t = [left EXCEPT ![p].loud = IF a.part = "vel" THEN FALSE ELSE @,
                         ![p].high = IF a.part = "oct" THEN FALSE ELSE @]
    BY <1>5 DEF Dropped, left
  <2> HIDE DEF t
  <2>3. DOMAIN t = DOMAIN left /\ (\A x \in DOMAIN left : x # p => t[x] = ls[x]) /\ t[p] = r
    BY <1>1, <1>5, <2>1, <2>2
  <2>4. loud \in BOOLEAN /\ high \in BOOLEAN
    BY <2>1 DEF LaneRecs
  <2>5. LaneIsNamed(ns, ls, p) /\ p.part = ""
    BY <1>2, <2>1, Addressed DEF NamedLanes
  <2> HIDE DEF loud, high
  <2>6. r \in LaneRecs /\ r.loud = loud /\ r.high = high /\ r.bound = ls[p].bound /\ r.live = ls[p].live
    <3>1. \A q \in LaneRecs :
            /\ [q EXCEPT !.loud = loud, !.high = high].loud = loud
            /\ [q EXCEPT !.loud = loud, !.high = high].high = high
            /\ [q EXCEPT !.loud = loud, !.high = high].bound = q.bound
            /\ [q EXCEPT !.loud = loud, !.high = high].live = q.live
      BY DEF LaneRecs
    <3>2. r \in LaneRecs
      BY <2>1, <2>4, SettingIs
    <3> QED
      BY <2>1, <3>1, <3>2
  <2> HIDE DEF r
  <2>7. ASSUME NEW y \in DOMAIN ls, y # a
        PROVE  y \in DOMAIN t /\ (ls[y].live => t[y].live)
    <3>1. y \in DOMAIN left
      BY <1>1, <2>7
    <3>2. CASE y = p
      BY <2>3, <2>6, <3>1, <3>2
    <3>3. CASE y # p
      BY <2>3, <3>1, <3>3
    <3> QED
      BY <3>2, <3>3
  <2>8. LaneIsNamed(ns, t, p)
    <3>1. loud => Vel(p) \in DOMAIN ls /\ ls[Vel(p)].live /\ Vel(p) # a
      BY <2>1, <2>5, Addressed DEF LaneIsNamed, loud
    <3>2. high => Oct(p) \in DOMAIN ls /\ ls[Oct(p)].live /\ Oct(p) # a
      BY <2>1, <2>5, Addressed DEF LaneIsNamed, high
    <3> QED
      BY <2>3, <2>5, <2>6, <2>7, <3>1, <3>2 DEF LaneIsNamed
  <2>9. ASSUME NEW x \in DOMAIN t, x # p PROVE LaneIsNamed(ns, t, x)
    <3>1. x \in DOMAIN left /\ LaneIsNamed(ns, left, x) /\ t[x] = ls[x] /\ left[x] = ls[x]
      BY <1>1, <1>3, <2>3, <2>9
    <3>2. \A y \in DOMAIN left : y \in DOMAIN t /\ (left[y].live => t[y].live)
      BY <1>1, <2>3, <2>7
    <3> QED
      BY <3>1, <3>2 DEF LaneIsNamed
  <2> QED
    BY <1>1, <1>2, <2>3, <2>8, <2>9 DEF NamedLanes, t
<1> QED
  BY <1>4, <1>5

\* fire_event(): the part that sets it plays.
LEMMA FiringKeeps ==
    ASSUME NEW ns, NEW ls, NamedLanes(ns, ls), NEW a \in DOMAIN ls, NEW v \in BOOLEAN,
           ls[a].live, ls[a].bound.kind \in Sounds, a.part # "", Parent(a) \in DOMAIN ls
    PROVE  /\ a.part = "vel" => NamedLanes(ns, [ls EXCEPT ![Parent(a)].loud = v])
           /\ a.part # "vel" => NamedLanes(ns, [ls EXCEPT ![Parent(a)].high = v])
<1> DEFINE p == Parent(a)
<1>1. ls[p] \in LaneRecs /\ p \in Addresses /\ a \in Addresses /\ LaneIsNamed(ns, ls, p)
  BY DEF NamedLanes, LaneIsNamed
<1>2. p.part = "" /\ (a.part = "vel" => Vel(p) = a) /\ (a.part # "vel" => Oct(p) = a)
  <2>1. a.part \in {"vel", "oct"}
    BY PartSounds
  <2> QED
    BY <1>1, <2>1, Addressed
<1> HIDE DEF p
<1>3. ASSUME NEW r \in LaneRecs, r.bound = ls[p].bound, r.live = ls[p].live,
             r.loud => ls[p].loud \/ a.part = "vel", r.high => ls[p].high \/ a.part # "vel",
             NEW t, t = [ls EXCEPT ![p] = r]
      PROVE  NamedLanes(ns, t)
  <2>1. p \in DOMAIN ls
    BY DEF p
  <2>2. /\ DOMAIN t = DOMAIN ls /\ t[p] = r
        /\ \A x \in DOMAIN ls : x # p => t[x] = ls[x]
    BY <1>3, <2>1
  <2>3. \A x \in DOMAIN ls : ls[x].live => t[x].live
    BY <1>3, <2>2
  <2>4. LaneIsNamed(ns, t, p)
    <3>1. r.loud => Vel(p) \in DOMAIN ls /\ ls[Vel(p)].live
      BY <1>1, <1>2, <1>3 DEF LaneIsNamed
    <3>2. r.high => Oct(p) \in DOMAIN ls /\ ls[Oct(p)].live
      BY <1>1, <1>2, <1>3 DEF LaneIsNamed
    <3> QED
      BY <1>1, <1>2, <1>3, <2>2, <2>3, <3>1, <3>2 DEF LaneIsNamed
  <2>5. ASSUME NEW x \in DOMAIN ls, x # p PROVE LaneIsNamed(ns, t, x)
    BY <2>2, <2>3, <2>5 DEF NamedLanes, LaneIsNamed
  <2> QED
    BY <2>2, <2>4, <2>5 DEF NamedLanes
<1>4. ASSUME a.part = "vel" PROVE NamedLanes(ns, [ls EXCEPT ![p].loud = v])
  <2>1. [ls EXCEPT ![p].loud = v] = [ls EXCEPT ![p] = [ls[p] EXCEPT !.loud = v]]
    OBVIOUS
  <2>2. ASSUME NEW r, r = [ls[p] EXCEPT !.loud = v]
        PROVE  r \in LaneRecs /\ r.bound = ls[p].bound /\ r.live = ls[p].live /\ (r.high => ls[p].high)
    BY <1>1, <2>2, SettingIs DEF LaneRecs
  <2> QED
    BY <1>3, <1>4, <2>1, <2>2
<1>5. ASSUME a.part # "vel" PROVE NamedLanes(ns, [ls EXCEPT ![p].high = v])
  <2>1. [ls EXCEPT ![p].high = v] = [ls EXCEPT ![p] = [ls[p] EXCEPT !.high = v]]
    OBVIOUS
  <2>2. ASSUME NEW r, r = [ls[p] EXCEPT !.high = v]
        PROVE  r \in LaneRecs /\ r.bound = ls[p].bound /\ r.live = ls[p].live /\ (r.loud => ls[p].loud)
    BY <1>1, <2>2, SettingIs DEF LaneRecs
  <2> QED
    BY <1>3, <1>5, <2>1, <2>2
<1> QED
  BY <1>4, <1>5 DEF p

\* rebind_lanes(): a name that is defined, as something that plays, is what its
\* lanes play from then on.
LEMMA RebindingKeeps ==
    ASSUME NEW ms, NEW w, NEW d \in Definitions, d.kind \notin InputKinds,
           ms = With(names, w, d), NamedLanes(names, lanes)
    PROVE  NamedLanes(ms, Rebound(ms, w))
<1> DEFINE t == Rebound(ms, w)
<1>1. /\ DOMAIN ms = DOMAIN names \cup {w} /\ ms[w] = d
      /\ \A u \in DOMAIN names : u # w => ms[u] = names[u]
  BY DEF With
<1>2. \A u \in DOMAIN ms : ms[u] \in Definitions
  BY <1>1 DEF NamedLanes
<1>3. \A u : u # w => Meaning(ms, u) = Meaning(names, u)
  BY <1>1 DEF Meaning
<1>4. Meaning(ms, w).kind \notin Silent
  <2>1. d.kind \in Kinds
    BY LaneNamesAssumption
  <2>2. "unknown" \notin Kinds
    BY DEF Kinds
  <2>3. Meaning(ms, w) = d
    BY <1>1 DEF Meaning
  <2> QED
    BY <2>1, <2>2, <2>3 DEF Silent
<1>5. /\ DOMAIN t = DOMAIN lanes
      /\ \A x \in DOMAIN lanes : x.base = w /\ Binds(ms, x) =>
             t[x] = [lanes[x] EXCEPT !.bound = Bound(ms, x), !.high = FALSE]
      /\ \A x \in DOMAIN lanes : ~(x.base = w /\ Binds(ms, x)) => t[x] = lanes[x]
  BY DEF Rebound, BoundTo, With
<1> HIDE DEF t
<1>6. ASSUME NEW x \in DOMAIN lanes, x.base = w, Binds(ms, x)
      PROVE  /\ t[x] \in LaneRecs /\ t[x].bound = Bound(ms, x) /\ ~t[x].high
             /\ (t[x].loud <=> lanes[x].loud) /\ (t[x].live <=> lanes[x].live)
  <2>1. lanes[x] \in LaneRecs /\ x \in Addresses
    BY DEF NamedLanes, LaneIsNamed
  <2>2. Bound(ms, x) \in Bindings
    BY <1>2, <2>1, MeaningIs
  <2> DEFINE r == lanes[x]
             b == Bound(ms, x)
  <2>3. t[x] = [r EXCEPT !.bound = b, !.high = FALSE]
    BY <1>5, <1>6
  <2> HIDE DEF r, b
  <2>4. r \in LaneRecs /\ b \in Bindings
    BY <2>1, <2>2 DEF r, b
  <2>5. /\ t[x] \in LaneRecs /\ t[x].bound = b /\ ~t[x].high
        /\ (t[x].loud <=> r.loud) /\ (t[x].live <=> r.live)
    BY <2>3, <2>4 DEF LaneRecs
  <2> QED
    BY <2>5 DEF r, b
<1>7. \A x \in DOMAIN lanes : lanes[x].live => t[x].live
  BY <1>5, <1>6
<1>8. ASSUME NEW x \in DOMAIN lanes PROVE LaneIsNamed(ms, t, x)
  <2>1. LaneIsNamed(names, lanes, x) /\ x \in Addresses
    BY DEF NamedLanes
  <2>2. CASE x.base # w
    <3>1. Meaning(ms, x.base) = Meaning(names, x.base)
      BY <1>3, <2>2
    <3>2. (Binds(ms, x) <=> Binds(names, x)) /\ Bound(ms, x) = Bound(names, x)
      BY <3>1 DEF Binds, Bound
    <3>3. t[x] = lanes[x]
      BY <1>5, <2>2
    <3> QED
      BY <1>5, <1>7, <2>1, <3>1, <3>2, <3>3 DEF LaneIsNamed
  <2>3. CASE x.base = w /\ ~Binds(ms, x)
    <3>1. t[x] = lanes[x]
      BY <1>5, <2>3
    <3> QED
      BY <1>4, <1>5, <1>7, <2>1, <2>3, <3>1 DEF LaneIsNamed
  <2>4. CASE x.base = w /\ Binds(ms, x)
    <3>1. /\ Bound(ms, x).part = x.part /\ x.part \in PartsOf(Bound(ms, x).kind)
          /\ Meaning(ms, x.base).kind \notin Silent
      BY <1>2, <2>1, <2>4, MeaningIs
    <3>2. t[x].loud => x.part = "" /\ Vel(x) \in DOMAIN t /\ t[Vel(x)].live
      BY <1>5, <1>6, <1>7, <2>1, <2>4 DEF LaneIsNamed
    <3> QED
      BY <1>6, <2>4, <3>1, <3>2 DEF LaneIsNamed
  <2> QED
    BY <2>2, <2>3, <2>4
<1> QED
  BY <1>2, <1>5, <1>8 DEF NamedLanes, t

-----------------------------------------------------------------------------
(***************************************************************************)
(* Every command, and what fires.                                          *)
(***************************************************************************)

\* '>define': the lanes.
LEMMA DefineKeepsLanes ==
    ASSUME NamesInv, Define
    PROVE  NamedLanes(names', lanes')
<1>1. NamedLanes(names, lanes)
  BY DEF NamesInv
<1>2. CASE Unchanged
  BY <1>1, <1>2 DEF Unchanged
<1>3. ASSUME NEW w, lanes' = LanesLeft(w), names' = Without(names, {w})
      PROVE  NamedLanes(names', lanes')
  <2>1. DOMAIN names' = DOMAIN names \ {w} /\ \A u \in DOMAIN names' : names'[u] = names[u]
    BY <1>3 DEF Without, Restrict
  <2>2. AllDefined(names')
    BY <1>1, <2>1 DEF NamedLanes, AllDefined
  <2>3. OthersAsBefore(names, names', w)
    BY <2>1 DEF Meaning, OthersAsBefore
  <2>4. NamedLanes(names', LanesBut(lanes, w))
    BY <1>1, <2>2, <2>3, ForgettingKeeps
  <2> QED
    BY <1>3, <2>4 DEF LanesLeft, Of, LanesBut
<1>4. ASSUME NEW w, NEW d \in Definitions, lanes' = LanesLeft(w), names' = With(names, w, d)
      PROVE  NamedLanes(names', lanes')
  <2>1. /\ DOMAIN names' = DOMAIN names \cup {w} /\ names'[w] = d
        /\ \A u \in DOMAIN names : u # w => names'[u] = names[u]
    BY <1>4 DEF With
  <2>2. AllDefined(names')
    BY <1>1, <2>1 DEF NamedLanes, AllDefined
  <2>3. OthersAsBefore(names, names', w)
    BY <2>1 DEF Meaning, OthersAsBefore
  <2>4. NamedLanes(names', LanesBut(lanes, w))
    BY <1>1, <2>2, <2>3, ForgettingKeeps
  <2> QED
    BY <1>4, <2>4 DEF LanesLeft, Of, LanesBut
<1>5. ASSUME NEW w, lanes' = LanesLeft(w), names' = names
      PROVE  NamedLanes(names', lanes')
  <2>1. AllDefined(names) /\ OthersAsBefore(names, names, w)
    BY <1>1 DEF NamedLanes, AllDefined, OthersAsBefore
  <2>2. NamedLanes(names, LanesBut(lanes, w))
    BY <1>1, <2>1, ForgettingKeeps
  <2> QED
    BY <1>5, <2>2 DEF LanesLeft, Of, LanesBut
<1>6. ASSUME NEW w, Forget(w) PROVE NamedLanes(names', lanes')
  BY <1>2, <1>3, <1>6 DEF Forget
<1>7. ASSUME NEW w, NEW d \in Definitions, DefineInput(w, d) PROVE NamedLanes(names', lanes')
  <2>1. CASE Refused /\ Unchanged
    BY <1>2, <2>1
  <2>2. CASE lanes' = LanesLeft(w) /\ names' = With(names, w, d)
    BY <1>4, <2>2
  <2>3. CASE lanes' = LanesLeft(w) /\ names' = names
    BY <1>5, <2>3
  <2> QED
    BY <1>7, <2>1, <2>2, <2>3 DEF DefineInput
<1>8. ASSUME NEW w, NEW d \in Definitions, d.kind \notin InputKinds, DefineSound(w, d)
      PROVE  NamedLanes(names', lanes')
  <2>1. CASE names' = names /\ lanes' = lanes
    BY <1>1, <2>1
  <2>2. CASE names' = With(names, w, d) /\ lanes' = Rebound(names', w)
    <3>1. NamedLanes(names', Rebound(names', w))
      BY <1>1, <1>8, <2>2, RebindingKeeps
    <3> QED
      BY <2>2, <3>1
  <2> QED
    BY <1>8, <2>1, <2>2 DEF DefineSound
<1>9. \/ Unchanged
      \/ \E w \in Words : Forget(w)
      \/ \E w \in Words, d \in Definitions : DefineInput(w, d)
      \/ \E w \in Words, d \in Definitions : d.kind \notin InputKinds /\ DefineSound(w, d)
  BY DEF Define
<1> QED
  BY <1>2, <1>6, <1>7, <1>8, <1>9

\* One lane is told something else to play, to be heard or not, or to follow another.
Retold(ls, t, a) ==
    /\ a \in DOMAIN ls /\ DOMAIN t = DOMAIN ls
    /\ \A x \in DOMAIN ls : x # a => t[x] = ls[x]
    /\ t[a] \in LaneRecs /\ t[a].bound = ls[a].bound
    /\ (t[a].loud <=> ls[a].loud) /\ (t[a].high <=> ls[a].high)
    /\ (ls[a].live => t[a].live)

\* A lane that is told again still has its name.
LEMMA RetellingKeeps ==
    ASSUME NEW ns, NEW ls, NEW t, NEW a, NamedLanes(ns, ls), Retold(ls, t, a)
    PROVE  NamedLanes(ns, t)
<1>1. \A x \in DOMAIN ls : ls[x] \in LaneRecs
  BY DEF NamedLanes, LaneIsNamed
<1>2. /\ DOMAIN t = DOMAIN ls
      /\ \A x \in DOMAIN ls : /\ t[x] \in LaneRecs /\ t[x].bound = ls[x].bound
                              /\ (t[x].loud => ls[x].loud) /\ (t[x].high => ls[x].high)
                              /\ (ls[x].live => t[x].live)
  BY <1>1 DEF Retold
<1> QED
  BY <1>2, SameNamesKeeps

\* '>lane' and a line that begins with a name.
LEMMA LaneKeepsLanes ==
    ASSUME NamesInv, Lane
    PROVE  NamedLanes(names', lanes')
<1>1. NamedLanes(names, lanes)
  BY DEF NamesInv
<1>2. CASE names' = names /\ lanes' = lanes
  BY <1>1, <1>2
<1>3. ASSUME NEW a \in Addresses, Bare(a) PROVE NamedLanes(names', lanes')
  <2>1. CASE Binds(names, a) /\ a \in DOMAIN lanes
    <3>1. NamedLanes(names, Dropped(lanes, a))
      BY <1>1, <2>1, DroppingKeeps
    <3> QED
      BY <1>3, <2>1, <3>1 DEF Bare
  <2>2. CASE ~(Binds(names, a) /\ a \in DOMAIN lanes)
    BY <1>2, <1>3, <2>2 DEF Bare, Unchanged
  <2> QED
    BY <2>1, <2>2
<1>4. ASSUME NEW a \in DOMAIN lanes, Hush(a) PROVE NamedLanes(names', lanes')
  <2>1. /\ DOMAIN lanes' = DOMAIN lanes /\ lanes'[a] = [lanes[a] EXCEPT !.muted = TRUE]
        /\ \A x \in DOMAIN lanes : x # a => lanes'[x] = lanes[x]
        /\ names' = names
    BY <1>4 DEF Hush
  <2>2. lanes[a] \in LaneRecs
    BY <1>1 DEF NamedLanes, LaneIsNamed
  <2>3. /\ lanes'[a] \in LaneRecs /\ lanes'[a].bound = lanes[a].bound
        /\ (lanes'[a].loud <=> lanes[a].loud) /\ (lanes'[a].high <=> lanes[a].high)
        /\ (lanes'[a].live <=> lanes[a].live)
    BY <2>1, <2>2 DEF LaneRecs
  <2>4. Retold(lanes, lanes', a)
    BY <2>1, <2>3 DEF Retold
  <2> QED
    BY <1>1, <2>1, <2>4, RetellingKeeps
<1>5. ASSUME NEW a \in Addresses, Binds(names, a), Typo(a) PROVE NamedLanes(names', lanes')
  <2> DEFINE u == BoundTo(lanes, a, Bound(names, a))
  <2>1. NamedLanes(names, u)
    BY <1>1, <1>5, BindingKeeps
  <2>2. a \in DOMAIN u
    BY DEF BoundTo, With
  <2>3. names' = names /\ lanes' = IF NeverHeard(u[a]) THEN Without(u, {a}) ELSE u
    BY <1>5 DEF Typo
  <2> HIDE DEF u
  <2>4. NeverHeard(u[a]) => NamedLanes(names, Without(u, {a}))
    BY <2>1, <2>2, RemovingKeeps DEF NeverHeard
  <2> QED
    BY <2>1, <2>3, <2>4
<1>6. ASSUME NEW a \in Addresses, Binds(names, a), NEW p \in Patterns, Write(a, p)
      PROVE  NamedLanes(names', lanes')
  <2> DEFINE u == BoundTo(lanes, a, Bound(names, a))
  <2>1. NamedLanes(names, u)
    BY <1>1, <1>6, BindingKeeps
  <2>2. a \in DOMAIN u
    BY DEF BoundTo, With
  <2>3. /\ names' = names
        /\ lanes' = [u EXCEPT ![a].live = TRUE, ![a].text = p, ![a].muted = FALSE]
    BY <1>6 DEF Write
  <2> HIDE DEF u
  <2>4. /\ DOMAIN lanes' = DOMAIN u
        /\ lanes'[a] = [u[a] EXCEPT !.live = TRUE, !.text = p, !.muted = FALSE]
        /\ \A x \in DOMAIN u : x # a => lanes'[x] = u[x]
    BY <2>2, <2>3
  <2>5. u[a] \in LaneRecs
    BY <2>1, <2>2 DEF NamedLanes, LaneIsNamed
  <2>6. /\ lanes'[a] \in LaneRecs /\ lanes'[a].bound = u[a].bound
        /\ (lanes'[a].loud <=> u[a].loud) /\ (lanes'[a].high <=> u[a].high)
        /\ lanes'[a].live
    BY <2>4, <2>5 DEF LaneRecs
  <2>7. Retold(u, lanes', a)
    BY <2>2, <2>4, <2>6 DEF Retold
  <2> QED
    BY <2>1, <2>3, <2>7, RetellingKeeps
<1>7. PICK a \in Addresses, hands \in BOOLEAN :
         \/ Bare(a)
         \/ \E p \in Patterns \cup {"typo"} :
              IF ~Binds(names, a) THEN Refused /\ Unchanged
              ELSE IF hands /\ SameLine(a, p) THEN Hush(a)
              ELSE IF ~Room(a) THEN Refused /\ Unchanged
              ELSE IF p = "typo" THEN Typo(a) ELSE Write(a, p)
  BY DEF Lane
<1>8. CASE Refused /\ Unchanged
  BY <1>2, <1>8 DEF Unchanged
<1>9. \/ Bare(a) \/ (Refused /\ Unchanged)
      \/ a \in DOMAIN lanes /\ Hush(a)
      \/ Binds(names, a) /\ Typo(a)
      \/ Binds(names, a) /\ \E p \in Patterns : Write(a, p)
  BY <1>7 DEF SameLine
<1> QED
  BY <1>3, <1>4, <1>5, <1>6, <1>8, <1>9

\* '>route'.
LEMMA RouteKeepsLanes ==
    ASSUME NamesInv, Route
    PROVE  NamedLanes(names', lanes')
<1>1. NamedLanes(names, lanes)
  BY DEF NamesInv
<1>2. PICK a \in Addresses, src \in Sources \cup {Nowhere} :
        LET made == IF a \in DOMAIN lanes \/ ~Room(a) THEN lanes
                    ELSE BoundTo(lanes, a, Bound(names, a))
        IN /\ Same /\ UNCHANGED <<names, inputs, late>>
           /\ IF a \notin DOMAIN lanes /\ ~Binds(names, a) THEN Refused /\ UNCHANGED lanes
              ELSE IF a \notin DOMAIN made \/ src = a THEN Refused /\ lanes' = made
              ELSE /\ Done
                   /\ lanes' = [made EXCEPT ![a].route = src,
                                   ![a].live = @ \/ src # Nowhere,
                                   ![a].text = IF made[a].live \/ src = Nowhere THEN @ ELSE "",
                                   ![a].muted = IF made[a].live \/ src = Nowhere THEN @ ELSE FALSE]
  BY DEF Route
<1> DEFINE made == IF a \in DOMAIN lanes \/ ~Room(a) THEN lanes
                   ELSE BoundTo(lanes, a, Bound(names, a))
<1>3. names' = names
  BY <1>2
<1>4. CASE lanes' = lanes
  BY <1>1, <1>3, <1>4
<1>5. CASE a \in DOMAIN lanes \/ Binds(names, a)
  <2>1. NamedLanes(names, made)
    <3>1. CASE a \in DOMAIN lanes \/ ~Room(a)
      BY <1>1, <3>1
    <3>2. CASE a \notin DOMAIN lanes /\ Room(a)
      <4>1. NamedLanes(names, BoundTo(lanes, a, Bound(names, a)))
        BY <1>1, <1>5, <3>2, BindingKeeps
      <4> QED
        BY <3>2, <4>1
    <3> QED
      BY <3>1, <3>2
  <2>2. \/ lanes' = made
        \/ /\ a \in DOMAIN made
           /\ lanes' = [made EXCEPT ![a].route = src,
                           ![a].live = @ \/ src # Nowhere,
                           ![a].text = IF made[a].live \/ src = Nowhere THEN @ ELSE "",
                           ![a].muted = IF made[a].live \/ src = Nowhere THEN @ ELSE FALSE]
    BY <1>2, <1>5
  <2> HIDE DEF made
  <2>3. CASE lanes' = made
    BY <1>3, <2>1, <2>3
  <2>4. CASE /\ a \in DOMAIN made
             /\ lanes' = [made EXCEPT ![a].route = src,
                             ![a].live = @ \/ src # Nowhere,
                             ![a].text = IF made[a].live \/ src = Nowhere THEN @ ELSE "",
                             ![a].muted = IF made[a].live \/ src = Nowhere THEN @ ELSE FALSE]
    <3> DEFINE r == made[a]
               live == r.live \/ src # Nowhere
               text == IF r.live \/ src = Nowhere THEN r.text ELSE ""
               muted == IF r.live \/ src = Nowhere THEN r.muted ELSE FALSE
    <3>1. r \in LaneRecs
      BY <2>1, <2>4 DEF NamedLanes, LaneIsNamed
    <3>2. live \in BOOLEAN /\ text \in Patterns \cup {""} /\ muted \in BOOLEAN
      BY <3>1 DEF LaneRecs
    <3>3. /\ DOMAIN lanes' = DOMAIN made
          /\ lanes'[a] = [r EXCEPT !.route = src, !.live = live, !.text = text, !.muted = muted]
          /\ \A x \in DOMAIN made : x # a => lanes'[x] = made[x]
      BY <2>4
    <3>4. r.live => live
      OBVIOUS
    <3> HIDE DEF r, live, text, muted
    <3>5. /\ lanes'[a] \in LaneRecs /\ lanes'[a].bound = r.bound
          /\ (lanes'[a].loud <=> r.loud) /\ (lanes'[a].high <=> r.high)
          /\ (lanes'[a].live <=> live)
      BY <3>1, <3>2, <3>3 DEF LaneRecs
    <3>6. NamedLanes(names, lanes')
      <4>1. r = made[a]
        BY DEF r
      <4>2. Retold(made, lanes', a)
        BY <2>4, <3>3, <3>4, <3>5, <4>1 DEF Retold
      <4> QED
        BY <2>1, <4>2, RetellingKeeps
    <3> QED
      BY <1>3, <3>6
  <2> QED
    BY <2>2, <2>3, <2>4
<1> QED
  BY <1>2, <1>4, <1>5

\* '>mute' and '>solo'.
LEMMA MuteKeepsLanes ==
    ASSUME NamesInv, Mute
    PROVE  NamedLanes(names', lanes')
<1>1. NamedLanes(names, lanes) /\ \A x \in DOMAIN lanes : lanes[x] \in LaneRecs
  BY DEF NamesInv, NamedLanes, LaneIsNamed
<1>2. PICK a \in Addresses, how \in {"mute", "solo", "all on"} :
        lanes' = [b \in DOMAIN lanes |-> [lanes[b] EXCEPT
                     !.muted = CASE how = "mute" -> b = a
                                 [] how = "solo" -> b # a
                                 [] OTHER -> FALSE]]
  BY DEF Mute
<1>3. names' = names /\ DOMAIN lanes' = DOMAIN lanes
  BY <1>2 DEF Mute
<1>4. ASSUME NEW x \in DOMAIN lanes
      PROVE  /\ lanes'[x] \in LaneRecs /\ lanes'[x].bound = lanes[x].bound
             /\ (lanes'[x].loud => lanes[x].loud) /\ (lanes'[x].high => lanes[x].high)
             /\ (lanes[x].live => lanes'[x].live)
  <2> DEFINE m == CASE how = "mute" -> x = a [] how = "solo" -> x # a [] OTHER -> FALSE
  <2>1. m \in BOOLEAN
    BY <1>2
  <2>2. lanes'[x] = [lanes[x] EXCEPT !.muted = m]
    BY <1>2
  <2> HIDE DEF m
  <2> QED
    BY <1>1, <2>1, <2>2 DEF LaneRecs
<1>5. NamedLanes(names, lanes')
  BY <1>1, <1>3, <1>4, SameNamesKeeps
<1> QED
  BY <1>3, <1>5

\* A part's step.
LEMMA FireKeepsLanes ==
    ASSUME NamesInv, PartFires
    PROVE  NamedLanes(names', lanes')
<1>1. NamedLanes(names, lanes)
  BY DEF NamesInv
<1>2. PICK a \in DOMAIN lanes, v \in BOOLEAN :
        /\ lanes[a].live /\ lanes[a].bound.kind \in Sounds /\ a.part # ""
        /\ Parent(a) \in DOMAIN lanes
        /\ lanes' = IF a.part = "vel" THEN [lanes EXCEPT ![Parent(a)].loud = v]
                                      ELSE [lanes EXCEPT ![Parent(a)].high = v]
  BY DEF PartFires
<1>3. names' = names
  BY DEF PartFires
<1>4. CASE a.part = "vel"
  BY <1>1, <1>2, <1>3, <1>4, FiringKeeps
<1>5. CASE a.part # "vel"
  BY <1>1, <1>2, <1>3, <1>5, FiringKeeps
<1> QED
  BY <1>4, <1>5

\* An input is one exactly while its name is, wherever definitions are made.
LEMMA InputsKeep ==
    ASSUME InputsAreNamed, Define
    PROVE  InputsAreNamed'
<1>1. CASE Unchanged
  BY <1>1 DEF Unchanged, InputsAreNamed
<1>2. ASSUME NEW w \in Words, NEW d
      PROVE  /\ w \in DOMAIN InputsLeft(w, d) =>
                    w \in DOMAIN inputs /\ (w \in DOMAIN names /\ names[w].kind \in InputKinds
                                            => d.kind = names[w].kind)
             /\ w \in DOMAIN inputs /\ ~(w \in DOMAIN names /\ names[w].kind \in InputKinds)
                    => w \in DOMAIN InputsLeft(w, d)
             /\ \A u : u # w => (u \in DOMAIN InputsLeft(w, d) <=> u \in DOMAIN inputs)
  BY DEF InputsLeft, Without, Restrict
<1>3. ASSUME NEW w \in Words, Forget(w) PROVE InputsAreNamed'
  <2>1. CASE w \notin DOMAIN names
    BY <1>1, <1>3, <2>1 DEF Forget
  <2>2. CASE w \in DOMAIN names
    <3>1. /\ names' = Without(names, {w}) /\ inputs' = InputsLeft(w, [kind |-> "none"])
          /\ late' = late
      BY <1>3, <2>2 DEF Forget
    <3>2. /\ DOMAIN names' = DOMAIN names \ {w} /\ \A u \in DOMAIN names' : names'[u] = names[u]
      BY <3>1 DEF Without, Restrict
    <3>3. names[w].kind \in InputKinds => [kind |-> "none"].kind # names[w].kind
      BY DEF InputKinds
    <3>4. w \notin late => w \notin DOMAIN inputs'
      BY <1>2, <2>2, <3>1, <3>3 DEF InputsAreNamed
    <3>5. \A u : u # w => (u \in DOMAIN inputs' <=> u \in DOMAIN inputs)
      BY <1>2, <3>1
    <3> QED
      BY <3>1, <3>2, <3>4, <3>5 DEF InputsAreNamed
  <2> QED
    BY <2>1, <2>2
<1>4. ASSUME NEW w \in Words, NEW d, d.kind \in InputKinds, DefineInput(w, d) PROVE InputsAreNamed'
  <2>1. CASE Refused /\ Unchanged
    BY <1>1, <2>1
  <2>2. CASE /\ inputs' = With(InputsLeft(w, d), w, d.kind)
             /\ \/ late' = late \cup {w} /\ names' = names
                \/ names' = With(names, w, d) /\ late' = late
    <3>1. /\ DOMAIN inputs' = DOMAIN InputsLeft(w, d) \cup {w}
      BY <2>2 DEF With
    <3>2. \A u : u # w => (u \in DOMAIN inputs' <=> u \in DOMAIN inputs)
      BY <1>2, <3>1
    <3>3. CASE late' = late \cup {w} /\ names' = names
      BY <3>2, <3>3 DEF InputsAreNamed
    <3>4. CASE names' = With(names, w, d) /\ late' = late
      <4>1. /\ DOMAIN names' = DOMAIN names \cup {w} /\ names'[w] = d
            /\ \A u \in DOMAIN names : u # w => names'[u] = names[u]
        BY <3>4 DEF With
      <4> QED
        BY <1>4, <3>1, <3>2, <3>4, <4>1 DEF InputsAreNamed
    <3> QED
      BY <2>2, <3>3, <3>4
  <2> QED
    BY <1>4, <2>1, <2>2 DEF DefineInput
<1>5. ASSUME NEW w \in Words, NEW d, d.kind \notin InputKinds, DefineSound(w, d) PROVE InputsAreNamed'
  <2>1. inputs' = InputsLeft(w, d)
    BY <1>5 DEF DefineSound
  <2>2. \A u : u # w => (u \in DOMAIN inputs' <=> u \in DOMAIN inputs)
    BY <1>2, <2>1
  <2>3. CASE names' = names /\ inputs' = inputs /\ late' = late
    BY <2>3 DEF InputsAreNamed
  <2>4. CASE names' = names /\ late' = late \cup {w}
    BY <2>2, <2>4 DEF InputsAreNamed
  <2>5. CASE names' = With(names, w, d) /\ late' = late
    <3>1. /\ DOMAIN names' = DOMAIN names \cup {w} /\ names'[w] = d
          /\ \A u \in DOMAIN names : u # w => names'[u] = names[u]
      BY <2>5 DEF With
    <3>2. w \notin late => w \notin DOMAIN inputs'
      BY <1>2, <1>5, <2>1 DEF InputsAreNamed
    <3> QED
      BY <1>5, <2>2, <2>5, <3>1, <3>2 DEF InputsAreNamed
  <2> QED
    BY <1>5, <2>3, <2>4, <2>5 DEF DefineSound
<1>6. \/ Unchanged
      \/ \E w \in Words : Forget(w)
      \/ \E w \in Words, d \in Definitions : d.kind \in InputKinds /\ DefineInput(w, d)
      \/ \E w \in Words, d \in Definitions : d.kind \notin InputKinds /\ DefineSound(w, d)
  BY DEF Define
<1> QED
  BY <1>1, <1>3, <1>4, <1>5, <1>6

\* Every step keeps the names and the lanes.
LEMMA NamesStep ==
    ASSUME NamesInv, [NamesNext]_namesVars
    PROVE  NamesInv'
<1>1. NamedLanes(names, lanes) /\ InputsAreNamed
  BY DEF NamesInv
<1>2. CASE Define
  <2>1. NamedLanes(names', lanes')
    BY <1>2, DefineKeepsLanes
  <2> QED
    BY <1>1, <1>2, <2>1, InputsKeep DEF NamesInv
\* No other command changes a definition or an input.
<1>3. ASSUME NamedLanes(names', lanes'), UNCHANGED <<names, inputs, late>> PROVE NamesInv'
  BY <1>1, <1>3 DEF NamesInv, InputsAreNamed
<1>4. CASE Lane
  <2>1. UNCHANGED <<names, inputs, late>>
    <3>1. Unchanged => UNCHANGED <<names, inputs, late>>
      BY DEF Unchanged
    <3>2. \A a : Bare(a) \/ Hush(a) => UNCHANGED <<names, inputs, late>>
      BY <3>1 DEF Bare, Hush
    <3>3. \A a, p : Typo(a) \/ Write(a, p) => UNCHANGED <<names, inputs, late>>
      BY DEF Typo, Write
    <3> QED
      BY <1>4, <3>1, <3>2, <3>3 DEF Lane
  <2> QED
    BY <1>3, <1>4, <2>1, LaneKeepsLanes
<1>5. CASE Route
  <2>1. UNCHANGED <<names, inputs, late>>
    BY <1>5 DEF Route
  <2> QED
    BY <1>3, <1>5, <2>1, RouteKeepsLanes
<1>6. CASE Mute
  <2>1. UNCHANGED <<names, inputs, late>>
    BY <1>6 DEF Mute
  <2> QED
    BY <1>3, <1>6, <2>1, MuteKeepsLanes
<1>7. CASE Clear
  <2>1. DOMAIN lanes' = {}
    BY <1>7 DEF Clear, Without, Restrict
  <2>2. UNCHANGED <<names, inputs, late>>
    BY <1>7 DEF Clear
  <2>3. NamedLanes(names', lanes')
    BY <1>1, <2>1, <2>2 DEF NamedLanes
  <2> QED
    BY <1>3, <2>2, <2>3
<1>8. CASE PlayStop
  BY <1>1, <1>3, <1>8 DEF PlayStop, Unchanged
<1>9. CASE PartFires
  <2>1. UNCHANGED <<names, inputs, late>>
    BY <1>9 DEF PartFires
  <2> QED
    BY <1>3, <1>9, <2>1, FireKeepsLanes
<1>10. CASE UNCHANGED namesVars
  BY <1>1, <1>3, <1>10 DEF namesVars
<1> QED
  BY <1>2, <1>4, <1>5, <1>6, <1>7, <1>8, <1>9, <1>10 DEF NamesNext

\* Whatever names become while lanes play, are refused or are dropped, every
\* lane has its name, plays what it says and is set only by parts that are
\* there, and an input is one exactly while its name is (cmd_define, cmd_lane,
\* seq_forget, fire_event).
THEOREM NamesAreKept == NamesSpec => []LanesKeepTheirNames
<1>1. NamesInit => NamesInv
  BY DEF NamesInit, NoNames, NamesInv, NamedLanes, InputsAreNamed
<1>2. NamesInv /\ [NamesNext]_namesVars => NamesInv'
  BY NamesStep
<1>3. NamesInv => EveryLaneHasItsName /\ BoundAsItsName
  BY DEF NamesInv, NamedLanes, LaneIsNamed, EveryLaneHasItsName, BoundAsItsName, Silent
<1>4. NamesInv => PartTakesItsSetting
  BY DEF NamesInv, NamedLanes, LaneIsNamed, PartTakesItsSetting, Vel, Oct
<1>5. NamesInv => LanesKeepTheirNames
  BY <1>3, <1>4 DEF NamesInv, LanesKeepTheirNames
<1> QED
  BY <1>1, <1>2, <1>5, PTL DEF NamesSpec

-----------------------------------------------------------------------------
(***************************************************************************)
(* CommandLine: a line that is run, and a page that is run line by line.   *)
(***************************************************************************)

\* The first slot of some is one of them.
LEMMA FirstPage ==
    ASSUME NEW S \in SUBSET Pages, S # {}
    PROVE  FirstOf(S) \in S
<1>1. S \in SUBSET Int /\ 0 \in Int /\ MaxPages - 1 \in Int /\ S \subseteq 0 .. MaxPages - 1
  BY CommandAssumption DEF Pages
<1> QED
  BY <1>1, LeastIn DEF FirstOf

-----------------------------------------------------------------------------
PageTexts == [name : PageNames, lines : Seq(CommandLines)]
Walks == [kind : {"run", "boot"}, was : Pages, doc : Pages, n : Nat, at : Nat,
          text : Seq(CommandLines), ran : Seq(CommandLines), lost : BOOLEAN, gone : BOOLEAN,
          marked : BOOLEAN]

PagesAre(pages) == DOMAIN pages \subseteq Pages /\ \A i \in DOMAIN pages : pages[i] \in PageTexts

\* The text s begins with the text t.
BeginsWith(s, t) == Len(t) <= Len(s) /\ \A k \in 1 .. Len(t) : s[k] = t[k]

\* What is said of a walk among the pages that are open: while its page is not
\* lost it is there with the text it had, and the lines it ran are the first of
\* that text; and where it came from is there until it is closed.
WalkKept(pages, w) ==
    /\ w \in Walks
    /\ w.n = Len(w.text) /\ w.at = Len(w.ran) /\ w.at <= w.n
    /\ ~w.lost => /\ w.doc \in DOMAIN pages /\ BeginsWith(pages[w.doc].lines, w.text)
                  /\ \A k \in 1 .. w.at : w.ran[k] = w.text[k]
    /\ ~w.gone => w.was \in DOMAIN pages

\* A page run from the boot document is the innermost walk; nothing is run from
\* a page that is run.
Nested(ws) ==
    /\ Len(ws) <= 2
    /\ Len(ws) = 2 => ws[1].kind = "boot" /\ ws[2].kind = "run"

\* The lane names come before the first line of the boot document that may be
\* about a lane.
NamesFirst ==
    /\ defined \in {"cold", "no", "yes"}
    /\ defined = "cold" => walks = <<>> /\ finished = NoWalk
    /\ /\ defined = "no" /\ walks # <<>>
       /\ walks[1].kind = "boot" /\ (~walks[1].marked \/ walks[1].text[1] = DefineNames)
       => /\ Len(walks) = 1 /\ walks[1].at = 0 /\ walks[1].n > 0 /\ open = walks[1].doc
          /\ page[open].lines # <<>> /\ page[open].lines[1] = DefineNames

\* What a line finds, and leaves: the pages, the one that is open, the walks
\* and the flag.
Standing(pages, here, ws, flag) ==
    /\ PagesAre(pages) /\ here \in DOMAIN pages
    /\ ws \in Seq(Walks) /\ Nested(ws)
    /\ \A j \in 1 .. Len(ws) : WalkKept(pages, ws[j])
    /\ flag \in BOOLEAN /\ (flag <=> \E j \in 1 .. Len(ws) : ws[j].kind = "run")

WalksInv ==
    /\ Standing(page, open, walks, busy)
    /\ strayed = {}
    /\ NamesFirst
    /\ OwnerIsBack /\ EveryLineRuns

-----------------------------------------------------------------------------
(***************************************************************************)
(* What the pages and the walks keep.                                      *)
(***************************************************************************)

\* Pages are made and their texts go on, and none is closed or rewritten.
Grows(pages, more) ==
    /\ PagesAre(more) /\ DOMAIN pages \subseteq DOMAIN more
    /\ \A i \in DOMAIN pages : BeginsWith(more[i].lines, pages[i].lines)

\* The text that goes on from one that goes on goes on.
LEMMA BeginsWithin ==
    ASSUME NEW s \in Seq(CommandLines), NEW t \in Seq(CommandLines), NEW u \in Seq(CommandLines),
           BeginsWith(t, s), BeginsWith(u, t)
    PROVE  BeginsWith(u, s)
<1>1. Len(s) \in Nat /\ Len(t) \in Nat /\ Len(u) \in Nat
  OBVIOUS
<1> QED
  BY <1>1 DEF BeginsWith

\* A page is made, or its text goes on.
LEMMA HeldGrows ==
    ASSUME PagesAre(page), NEW i \in Pages, NEW p \in PageTexts,
           i \in DOMAIN page => BeginsWith(p.lines, page[i].lines)
    PROVE  Grows(page, Held(i, p)) /\ i \in DOMAIN Held(i, p) /\ Held(i, p)[i] = p
<1> DEFINE t == Held(i, p)
<1>1. DOMAIN t = DOMAIN page \cup {i} /\ \A j \in DOMAIN t : t[j] = IF j = i THEN p ELSE page[j]
  BY DEF Held
<1> HIDE DEF t
<1>2. \A j \in DOMAIN page : page[j].lines \in Seq(CommandLines)
  BY DEF PagesAre, PageTexts
<1>3. \A s \in Seq(CommandLines) : BeginsWith(s, s)
  BY DEF BeginsWith
<1>4. PagesAre(t)
  BY <1>1 DEF PagesAre
<1>5. \A j \in DOMAIN page : BeginsWith(t[j].lines, page[j].lines)
  BY <1>1, <1>2, <1>3
<1> QED
  BY <1>1, <1>4, <1>5 DEF Grows, t

\* As they are, the pages grow by nothing.
LEMMA SameGrows ==
    ASSUME PagesAre(page)
    PROVE  Grows(page, page)
<1>1. \A j \in DOMAIN page : page[j].lines \in Seq(CommandLines)
  BY DEF PagesAre, PageTexts
<1> QED
  BY <1>1 DEF Grows, BeginsWith

\* The pages there are, and the slots that have none.
LEMMA PagesThere ==
    ASSUME PagesAre(page)
    PROVE  /\ Vacant \in SUBSET Pages /\ \A name : Called(name) \in SUBSET Pages
           /\ \A name : Called(name) \subseteq DOMAIN page
  BY DEF PagesAre, Vacant, Called

\* What is answered goes below what was said before.
LEMMA AnsweredGrows ==
    ASSUME PagesAre(page)
    PROVE  Grows(page, Answered)
<1> DEFINE slots == IF Called("+out") # {} THEN Called("+out") ELSE Vacant
           i == FirstOf(slots)
           old == IF i \in DOMAIN page THEN page[i] ELSE [name |-> "+out", lines |-> <<>>]
           l == Line("prose", "")
           p == [old EXCEPT !.lines = Append(@, l)]
<1>1. CASE slots = {} \/ Len(old.lines) >= MaxOut
  BY <1>1, SameGrows DEF Answered
<1>2. CASE ~(slots = {} \/ Len(old.lines) >= MaxOut)
  <2>1. i \in Pages
    BY <1>2, PagesThere, FirstPage
  <2>2. l \in CommandLines
    BY DEF Line, CommandLines, CommandVerbs, PageNames
  <2>3. old \in PageTexts
    <3>1. <<>> \in Seq(CommandLines) /\ "+out" \in PageNames
      BY DEF PageNames
    <3>2. [name |-> "+out", lines |-> <<>>] \in PageTexts
      BY <3>1 DEF PageTexts
    <3> QED
      BY <3>2 DEF PagesAre
  <2>4. Answered = Held(i, p)
    BY <1>2 DEF Answered
  <2>5. i \in DOMAIN page => old = page[i]
    OBVIOUS
  <2> HIDE DEF i, old, l
  <2>6. old.lines \in Seq(CommandLines) /\ p = [old EXCEPT !.lines = Append(old.lines, l)]
    BY <2>3 DEF PageTexts
  <2>7. Append(old.lines, l) \in Seq(CommandLines) /\ BeginsWith(Append(old.lines, l), old.lines)
    BY <2>2, <2>6, AppendProperties DEF BeginsWith
  <2>8. p \in PageTexts /\ p.lines = Append(old.lines, l)
    BY <2>3, <2>6, <2>7 DEF PageTexts
  <2> HIDE DEF p
  <2>9. i \in DOMAIN page => BeginsWith(p.lines, page[i].lines)
    BY <2>5, <2>7, <2>8
  <2> QED
    BY <2>1, <2>4, <2>8, <2>9, HeldGrows
<1> QED
  BY <1>1, <1>2

\* A walk goes on among pages that grow.
LEMMA WalkGrows ==
    ASSUME NEW pages, PagesAre(pages), NEW more, Grows(pages, more), NEW w, WalkKept(pages, w)
    PROVE  WalkKept(more, w)
<1>1. w \in Walks /\ w.text \in Seq(CommandLines)
  BY DEF WalkKept, Walks
<1>2. ASSUME ~w.lost
      PROVE  w.doc \in DOMAIN more /\ BeginsWith(more[w.doc].lines, w.text)
  <2>1. w.doc \in DOMAIN pages /\ BeginsWith(pages[w.doc].lines, w.text)
    BY <1>2 DEF WalkKept
  <2>2. w.doc \in DOMAIN more /\ BeginsWith(more[w.doc].lines, pages[w.doc].lines)
    BY <2>1 DEF Grows
  <2>3. pages[w.doc].lines \in Seq(CommandLines) /\ more[w.doc].lines \in Seq(CommandLines)
    BY <2>1, <2>2 DEF Grows, PagesAre, PageTexts
  <2> QED
    BY <1>1, <2>1, <2>2, <2>3, BeginsWithin
<1>3. ~w.gone => w.was \in DOMAIN more
  BY DEF Grows, WalkKept
<1> QED
  BY <1>2, <1>3 DEF WalkKept

\* A page is closed: the walks that read it or came from it are told.
LEMMA WalkOutlives ==
    ASSUME NEW w, WalkKept(page, w), NEW i, NEW pages, DOMAIN pages = DOMAIN page \ {i},
           \A j \in DOMAIN pages : pages[j] = page[j]
    PROVE  /\ WalkKept(pages, ToldGone(w, i))
           /\ ToldGone(w, i).kind = w.kind /\ ToldGone(w, i).at = w.at /\ ToldGone(w, i).n = w.n
           /\ ToldGone(w, i).text = w.text /\ ToldGone(w, i).marked = w.marked
<1> DEFINE gone == w.gone \/ w.was = i
           lost == w.lost \/ w.doc = i
           v == ToldGone(w, i)
<1>1. w \in Walks
  BY DEF WalkKept
<1>2. v = [w EXCEPT !.gone = gone, !.lost = lost]
  BY <1>1 DEF ToldGone
<1>3. gone \in BOOLEAN /\ lost \in BOOLEAN
  BY <1>1 DEF Walks
<1>4. /\ ~gone => ~w.gone /\ w.was # i
      /\ ~lost => ~w.lost /\ w.doc # i
  OBVIOUS
<1> HIDE DEF gone, lost, v
<1>5. /\ v \in Walks /\ (v.gone <=> gone) /\ (v.lost <=> lost) /\ v.kind = w.kind
      /\ v.was = w.was /\ v.doc = w.doc /\ v.n = w.n /\ v.at = w.at /\ v.text = w.text
      /\ v.ran = w.ran /\ v.marked = w.marked
  BY <1>1, <1>2, <1>3 DEF Walks
<1>6. WalkKept(pages, v)
  <2>1. ~v.gone => v.was \in DOMAIN pages
    BY <1>4, <1>5 DEF WalkKept
  <2>2. ~v.lost => /\ v.doc \in DOMAIN pages /\ BeginsWith(pages[v.doc].lines, v.text)
                   /\ \A k \in 1 .. v.at : v.ran[k] = v.text[k]
    BY <1>4, <1>5 DEF WalkKept
  <2>3. v.n = Len(v.text) /\ v.at = Len(v.ran) /\ v.at <= v.n
    BY <1>5 DEF WalkKept
  <2> QED
    BY <1>5, <2>1, <2>2, <2>3 DEF WalkKept
<1> QED
  BY <1>5, <1>6 DEF v

\* A walk takes its next line.
LEMMA WalkSteps ==
    ASSUME PagesAre(page), open \in DOMAIN page, NEW w, WalkKept(page, w), w.at < w.n
    PROVE  /\ LineAt(w.at) \in CommandLines
           /\ WalkKept(page, NextLine(w)) /\ NextLine(w).kind = w.kind
           /\ NextLine(w).text = w.text /\ NextLine(w).marked = w.marked
<1> DEFINE l == LineAt(w.at)
           at1 == w.at + 1
           ran1 == Append(w.ran, l)
           lost == w.lost \/ open # w.doc
           v == NextLine(w)
<1>1. w \in Walks /\ w.at \in Nat /\ w.n \in Nat /\ w.n = Len(w.text) /\ w.at = Len(w.ran)
      /\ w.ran \in Seq(CommandLines) /\ w.text \in Seq(CommandLines)
  BY DEF WalkKept, Walks
<1>2. page[open].lines \in Seq(CommandLines)
  BY DEF PagesAre, PageTexts
<1>3. l \in CommandLines
  <2>1. Line("prose", "") \in CommandLines
    BY DEF Line, CommandLines, CommandVerbs, PageNames
  <2>2. w.at < Len(page[open].lines) => page[open].lines[w.at + 1] \in CommandLines
    BY <1>1, <1>2
  <2> QED
    BY <2>1, <2>2 DEF LineAt
<1>4. ~lost => ~w.lost /\ open = w.doc
  OBVIOUS
<1>5. ~lost => l = w.text[w.at + 1]
  <2> SUFFICES ASSUME ~lost PROVE l = w.text[w.at + 1]
    OBVIOUS
  <2>1. BeginsWith(page[open].lines, w.text)
    BY <1>4 DEF WalkKept
  <2>2. w.at + 1 \in 1 .. Len(w.text) /\ Len(w.text) <= Len(page[open].lines)
        /\ Len(page[open].lines) \in Nat
    BY <1>1, <1>2, <2>1 DEF BeginsWith
  <2>3. page[open].lines[w.at + 1] = w.text[w.at + 1]
    BY <2>1, <2>2 DEF BeginsWith
  <2>4. w.at < Len(page[open].lines)
    BY <1>1, <2>2
  <2> QED
    BY <2>3, <2>4 DEF LineAt
<1>6. v = [w EXCEPT !.at = at1, !.ran = ran1, !.lost = lost]
  BY <1>1 DEF NextLine
<1>7. lost \in BOOLEAN
  BY <1>1 DEF Walks
<1> HIDE DEF l, lost, v
<1>8. /\ ran1 \in Seq(CommandLines) /\ Len(ran1) = at1 /\ ran1[at1] = l
      /\ \A k \in 1 .. w.at : ran1[k] = w.ran[k]
  BY <1>1, <1>3, AppendProperties
<1>9. at1 \in Nat /\ at1 <= w.n
  BY <1>1
<1>10. ~lost => \A k \in 1 .. at1 : ran1[k] = w.text[k]
  <2> SUFFICES ASSUME ~lost, NEW k \in 1 .. at1 PROVE ran1[k] = w.text[k]
    OBVIOUS
  <2>1. CASE k = at1
    BY <1>5, <1>8, <2>1
  <2>2. CASE k # at1
    <3>1. k \in 1 .. w.at
      BY <1>1, <2>2
    <3>2. w.ran[k] = w.text[k]
      BY <1>4, <3>1 DEF WalkKept
    <3> QED
      BY <1>8, <3>1, <3>2
  <2> QED
    BY <2>1, <2>2
<1> HIDE DEF at1, ran1
<1>11. /\ v \in Walks /\ (v.lost <=> lost) /\ (v.gone <=> w.gone) /\ v.kind = w.kind
       /\ v.was = w.was /\ v.doc = w.doc /\ v.n = w.n /\ v.at = at1 /\ v.text = w.text
       /\ v.ran = ran1 /\ v.marked = w.marked
  BY <1>1, <1>6, <1>7, <1>8, <1>9 DEF Walks
<1>12. WalkKept(page, v)
  <2>1. ~v.lost => v.doc \in DOMAIN page /\ BeginsWith(page[v.doc].lines, v.text)
    BY <1>4, <1>11 DEF WalkKept
  <2>2. ~v.lost => \A k \in 1 .. v.at : v.ran[k] = v.text[k]
    BY <1>10, <1>11
  <2>3. ~v.gone => v.was \in DOMAIN page
    BY <1>11 DEF WalkKept
  <2>4. v.n = Len(v.text) /\ v.at = Len(v.ran) /\ v.at <= v.n
    BY <1>1, <1>8, <1>9, <1>11
  <2> QED
    BY <1>11, <2>1, <2>2, <2>3, <2>4 DEF WalkKept
<1> QED
  BY <1>3, <1>11, <1>12 DEF l, v

-----------------------------------------------------------------------------
(***************************************************************************)
(* A line that is run.                                                     *)
(***************************************************************************)

\* The walks that were under way still are; one more may have begun.
Follows(ws, vs) ==
    /\ Len(vs) >= Len(ws)
    /\ \A j \in 1 .. Len(ws) : /\ vs[j].kind = ws[j].kind /\ vs[j].text = ws[j].text
                               /\ vs[j].marked = ws[j].marked
    /\ ws = <<>> /\ vs # <<>> => vs[1].kind = "run"

\* With no new walk the walks go on.
LEMMA FollowsItself == ASSUME NEW ws, Len(ws) \in Nat PROVE Follows(ws, ws)
  BY DEF Follows

\* Among pages that grow the walks stand, wherever the owner is.
LEMMA StandingGrows ==
    ASSUME NEW ws, NEW more, NEW here, Standing(page, open, ws, busy), Grows(page, more), here \in DOMAIN more
    PROVE  Standing(more, here, ws, busy)
<1>1. PagesAre(page) /\ \A j \in 1 .. Len(ws) : WalkKept(page, ws[j])
  BY DEF Standing
<1>2. \A j \in 1 .. Len(ws) : WalkKept(more, ws[j])
  BY <1>1, WalkGrows
<1>3. PagesAre(more)
  BY DEF Grows
<1> QED
  BY <1>2, <1>3 DEF Standing

\* A line is answered.
LEMMA SayKeeps ==
    ASSUME NEW left, Standing(page, open, left, busy), page' = Answered, open' = open, busy' = busy
    PROVE  Standing(page', open', left, busy')
<1>1. PagesAre(page) /\ open \in DOMAIN page
  BY DEF Standing
<1>2. Grows(page, Answered)
  BY <1>1, AnsweredGrows
<1>3. open \in DOMAIN Answered
  BY <1>1, <1>2 DEF Grows
<1>4. Standing(Answered, open, left, busy)
  BY <1>2, <1>3, StandingGrows
<1> QED
  BY <1>4

\* A page is opened.
LEMMA OpenKeeps ==
    ASSUME NEW left, NEW name, Standing(page, open, left, busy), OpenPage(name)
    PROVE  Standing(page', open', left, busy')
<1>1. PagesAre(page) /\ open \in DOMAIN page
  BY DEF Standing
<1>2. CASE Called(name) = {}
  BY <1>2, SayKeeps DEF OpenPage, Say
<1>3. CASE Called(name) # {}
  <2>1. FirstOf(Called(name)) \in DOMAIN page
    BY <1>1, <1>3, PagesThere, FirstPage
  <2>2. page' = page /\ open' = FirstOf(Called(name)) /\ busy' = busy
    BY <1>3 DEF OpenPage
  <2>3. Standing(page, FirstOf(Called(name)), left, busy)
    BY <1>1, <2>1, SameGrows, StandingGrows
  <2> QED
    BY <2>2, <2>3
<1> QED
  BY <1>2, <1>3

\* A page is made and opened.
LEMMA NewKeeps ==
    ASSUME NEW left, Standing(page, open, left, busy), NewPage
    PROVE  Standing(page', open', left, busy')
<1>1. PagesAre(page) /\ open \in DOMAIN page
  BY DEF Standing
<1>2. CASE Vacant = {}
  BY <1>2, SayKeeps DEF NewPage, Say
<1>3. CASE Vacant # {}
  <2> DEFINE i == FirstOf(Vacant)
  <2>1. i \in Vacant /\ i \in Pages /\ i \notin DOMAIN page
    <3>1. i \in Vacant
      BY <1>1, <1>3, PagesThere, FirstPage
    <3> QED
      BY <3>1 DEF Vacant
  <2>2. page' = Held(i, Blank) /\ open' = i /\ busy' = busy
    BY <1>3 DEF NewPage
  <2> HIDE DEF i
  <2>3. Blank \in PageTexts
    BY DEF Blank, PageTexts, PageNames
  <2>4. Grows(page, Held(i, Blank)) /\ i \in DOMAIN Held(i, Blank)
    BY <1>1, <2>1, <2>3, HeldGrows
  <2>5. Standing(Held(i, Blank), i, left, busy)
    BY <2>4, StandingGrows
  <2> QED
    BY <2>2, <2>5
<1> QED
  BY <1>2, <1>3

\* A page is closed, and is not the only one.
LEMMA CloseKeeps ==
    ASSUME NEW left, Standing(page, open, left, busy), ~OnlyPage, ClosePage
    PROVE  Standing(page', open', Gone(left), busy') /\ Follows(left, Gone(left))
<1> DEFINE D == DOMAIN page \ {open}
           less == [i \in D |-> page[i]]
           ws == Gone(left)
<1>1. /\ PagesAre(page) /\ open \in DOMAIN page /\ left \in Seq(Walks) /\ Nested(left)
      /\ \A j \in 1 .. Len(left) : WalkKept(page, left[j])
      /\ busy \in BOOLEAN /\ (busy <=> \E j \in 1 .. Len(left) : left[j].kind = "run")
  BY DEF Standing
<1>2. page' = less /\ open' = FirstOf(DOMAIN page') /\ busy' = busy
  BY DEF ClosePage
<1>3. D # {}
  <2> SUFFICES ASSUME D = {} PROVE FALSE
    OBVIOUS
  <2>1. DOMAIN page = {open}
    BY <1>1
  <2> QED
    BY <2>1, FS_Singleton DEF OnlyPage
<1>4. D \in SUBSET Pages
  BY <1>1 DEF PagesAre
<1>5. DOMAIN less = D /\ \A i \in D : less[i] = page[i]
  OBVIOUS
<1> HIDE DEF D, less
<1>6. FirstOf(DOMAIN less) \in DOMAIN less
  BY <1>3, <1>4, <1>5, FirstPage
<1>7. PagesAre(less)
  BY <1>1, <1>4, <1>5 DEF PagesAre, D
<1>8. /\ DOMAIN ws = 1 .. Len(left) /\ Len(left) \in Nat
      /\ \A j \in 1 .. Len(left) : ws[j] = ToldGone(left[j], open)
  BY <1>1 DEF Gone
<1> HIDE DEF ws
<1>9. \A j \in 1 .. Len(left) :
        /\ WalkKept(less, ws[j]) /\ ws[j].kind = left[j].kind /\ ws[j].text = left[j].text
        /\ ws[j].marked = left[j].marked
  <2>1. DOMAIN less = DOMAIN page \ {open} /\ \A i \in DOMAIN less : less[i] = page[i]
    BY <1>5 DEF D
  <2>2. ASSUME NEW j \in 1 .. Len(left)
        PROVE  /\ WalkKept(less, ToldGone(left[j], open)) /\ ToldGone(left[j], open).kind = left[j].kind
               /\ ToldGone(left[j], open).text = left[j].text
               /\ ToldGone(left[j], open).marked = left[j].marked
    <3>1. WalkKept(page, left[j])
      BY <1>1
    <3> QED
      BY <2>1, <3>1, WalkOutlives
  <2> QED
    BY <1>8, <2>2
<1>10. ws \in Seq(Walks) /\ Len(ws) = Len(left)
  <2>1. ws = [j \in 1 .. Len(left) |-> ws[j]]
    BY <1>8 DEF ws, Gone
  <2>2. \A j \in 1 .. Len(left) : ws[j] \in Walks
    BY <1>9 DEF WalkKept
  <2>3. ws \in [1 .. Len(left) -> Walks]
    BY <2>1, <2>2
  <2> QED
    BY <1>8, <2>3
<1>11. Nested(ws)
  BY <1>1, <1>9, <1>10 DEF Nested
<1>12. Standing(less, FirstOf(DOMAIN less), ws, busy)
  BY <1>1, <1>6, <1>7, <1>9, <1>10, <1>11 DEF Standing
<1>13. Follows(left, ws)
  <2>1. left = <<>> => ws = <<>>
    BY <1>10, EmptySeq
  <2> QED
    BY <1>8, <1>9, <1>10, <2>1 DEF Follows
<1> QED
  BY <1>2, <1>12, <1>13 DEF ws

\* A page is run: the flag goes up, and it is the innermost.
LEMMA RunKeeps ==
    ASSUME NEW left, NEW name, Standing(page, open, left, busy), RunPage(name, left)
    PROVE  Standing(page', open', walks', busy') /\ Follows(left, walks') /\ defined' = defined
<1> DEFINE i == IF name = "" THEN open ELSE FirstOf(Called(name))
           found == name = "" \/ Called(name) # {}
           w == Begun(i)
<1>1. /\ PagesAre(page) /\ open \in DOMAIN page /\ left \in Seq(Walks) /\ Nested(left)
      /\ \A j \in 1 .. Len(left) : WalkKept(page, left[j])
      /\ busy \in BOOLEAN /\ (busy <=> \E j \in 1 .. Len(left) : left[j].kind = "run")
  BY DEF Standing
<1>2. Len(left) \in Nat /\ Follows(left, left)
  BY <1>1, FollowsItself
<1>3. CASE busy
  <2>1. page' = Answered /\ open' = open /\ busy' = busy /\ defined' = defined /\ walks' = left
    BY <1>3 DEF RunPage, IsBusy, Say
  <2> QED
    BY <1>2, <2>1, SayKeeps
<1>4. CASE ~busy /\ ~found
  <2>1. page' = Answered /\ open' = open /\ busy' = busy /\ defined' = defined /\ walks' = left
    BY <1>4 DEF RunPage, IsBusy, FlagUp
  <2> QED
    BY <1>2, <2>1, SayKeeps
<1>5. CASE ~busy /\ found
  <2>1. page' = page /\ open' = i /\ busy' = TRUE /\ defined' = defined
        /\ walks' = Append(left, w)
    BY <1>5 DEF RunPage, IsBusy, FlagUp
  <2>2. i \in DOMAIN page /\ i \in Pages /\ open \in Pages
    <3>1. name # "" => FirstOf(Called(name)) \in DOMAIN page
      BY <1>1, <1>5, PagesThere, FirstPage
    <3> QED
      BY <1>1, <3>1 DEF PagesAre
  <2> HIDE DEF i, found
  <2> DEFINE lines == page[i].lines
  <2>3. lines \in Seq(CommandLines) /\ Len(lines) \in Nat
    BY <1>1, <2>2 DEF PagesAre, PageTexts
  <2>4. w = [kind |-> "run", was |-> open, doc |-> i, n |-> Len(lines), at |-> 0, text |-> lines,
             ran |-> <<>>, lost |-> FALSE, gone |-> FALSE, marked |-> TRUE]
    <3> DEFINE new == NewWalk("run", open, i, lines, TRUE)
    <3>1. new = [kind |-> "run", was |-> open, doc |-> i, n |-> Len(lines), at |-> 0, text |-> lines,
                 ran |-> <<>>, lost |-> FALSE, gone |-> FALSE, marked |-> TRUE]
      BY DEF NewWalk
    <3>2. w = [new EXCEPT !.n = Len(lines)]
      BY DEF Begun, LengthOf
    <3> HIDE DEF new, w, lines
    <3> QED
      BY <3>1, <3>2
  <2> HIDE DEF w
  <2>5. WalkKept(page, w) /\ w.kind = "run" /\ w \in Walks
    <3>1. w \in Walks
      BY <2>2, <2>3, <2>4 DEF Walks
    <3>2. BeginsWith(lines, lines)
      BY <2>3 DEF BeginsWith
    <3>3. w.n = Len(w.text) /\ w.at = Len(w.ran) /\ w.at <= w.n
      BY <2>3, <2>4
    <3>4. w.doc \in DOMAIN page /\ BeginsWith(page[w.doc].lines, w.text)
          /\ \A k \in 1 .. w.at : w.ran[k] = w.text[k]
      BY <2>2, <2>4, <3>2
    <3>5. w.was \in DOMAIN page
      BY <1>1, <2>4
    <3> QED
      BY <2>4, <3>1, <3>3, <3>4, <3>5 DEF WalkKept
  <2> HIDE DEF lines
  <2>6. Len(left) <= 1
    <3>1. Len(left) <= 2
      BY <1>1 DEF Nested
    <3>2. Len(left) = 2 => left[2].kind = "run"
      BY <1>1 DEF Nested
    <3>3. Len(left) # 2
      BY <1>1, <1>5, <3>2
    <3>4. Len(left) \in Nat
      BY <1>2
    <3>5. \A m \in Nat : m <= 2 /\ m # 2 => m <= 1
      OBVIOUS
    <3> QED
      BY <3>1, <3>3, <3>4, <3>5, Zenon
  <2>7. Len(left) = 1 => left[1].kind = "boot"
    <3>1. Len(left) = 1 => left[1].kind # "run" /\ left[1] \in Walks
      BY <1>1, <1>5
    <3> QED
      BY <3>1 DEF Walks
  <2> DEFINE ws == Append(left, w)
  <2>8. /\ ws \in Seq(Walks) /\ Len(ws) = Len(left) + 1 /\ ws[Len(left) + 1] = w
        /\ \A j \in 1 .. Len(left) : ws[j] = left[j]
    BY <1>1, <2>5, AppendProperties
  <2> HIDE DEF ws
  <2>9. Nested(ws)
    <3>1. Len(left) \in Nat /\ Len(ws) <= 2
      BY <1>2, <2>6, <2>8
    <3>2. \A m \in Nat : m + 1 = 2 => m = 1 /\ 1 \in 1 .. m
      OBVIOUS
    <3>3. Len(ws) = 2 => Len(left) = 1 /\ ws[1] = left[1] /\ ws[2] = w
      <4> SUFFICES ASSUME Len(ws) = 2 PROVE Len(left) = 1 /\ ws[1] = left[1] /\ ws[2] = w
        OBVIOUS
      <4>1. Len(left) = 1 /\ 1 \in 1 .. Len(left) /\ Len(left) + 1 = 2
        BY <2>8, <3>1, <3>2, Zenon
      <4> QED
        BY <2>8, <4>1, Zenon
    <3> QED
      BY <2>5, <2>7, <3>1, <3>3 DEF Nested
  <2>10. \A j \in 1 .. Len(ws) : WalkKept(page, ws[j])
    <3> TAKE j \in 1 .. Len(ws)
    <3>1. j \in 1 .. Len(left) \/ j = Len(left) + 1
      BY <1>2, <2>8
    <3> QED
      BY <1>1, <2>5, <2>8, <3>1
  <2>11. \E j \in 1 .. Len(ws) : ws[j].kind = "run"
    <3>1. Len(left) + 1 \in 1 .. Len(ws)
      BY <1>2, <2>8
    <3> QED
      BY <2>5, <2>8, <3>1
  <2>12. Standing(page, i, ws, TRUE)
    BY <1>1, <2>2, <2>8, <2>9, <2>10, <2>11 DEF Standing
  <2>13. Follows(left, ws)
    <3>1. left = <<>> => ws[1].kind = "run"
      BY <2>5, <2>8
    <3>2. Len(ws) >= Len(left)
      BY <1>2, <2>8
    <3> QED
      BY <2>8, <3>1, <3>2 DEF Follows
  <2> QED
    BY <2>1, <2>12, <2>13 DEF ws
<1> QED
  BY <1>1, <1>3, <1>4, <1>5

\* The line that names the lanes.
LEMMA DefinesLanes == DefineNames.verb = "define" /\ DefineNames \in CommandLines
  BY DEF DefineNames, Line, CommandLines, CommandVerbs, PageNames

\* The walk is of a boot document that names the lanes first.
NamingFirst(w) == w.kind = "boot" /\ (~w.marked \/ w.text[1] = DefineNames)

\* Before the lanes are named, the line such a boot document has next is the
\* one that names them.
LEMMA NamesAreNext ==
    ASSUME WalksInv, defined = "no", walks # <<>>, NamingFirst(walks[1])
    PROVE  LineAt(Innermost.at) = DefineNames
<1>1. /\ Len(walks) = 1 /\ walks[1].at = 0
      /\ page[open].lines # <<>> /\ page[open].lines[1] = DefineNames
  BY DEF WalksInv, NamesFirst, NamingFirst
<1>2. page[open].lines \in Seq(CommandLines)
  BY DEF WalksInv, Standing, PagesAre, PageTexts
<1>3. Len(page[open].lines) > 0
  BY <1>1, <1>2, EmptySeq, LenProperties
<1>4. Innermost.at = 0
  BY <1>1 DEF Innermost
<1>5. LineAt(0) = page[open].lines[0 + 1]
  BY <1>3 DEF LineAt
<1>6. 0 + 1 = 1
  OBVIOUS
<1> QED
  BY <1>1, <1>4, <1>5, <1>6, Zenon

\* A guide has no leave to change pairing or power state, so nothing strays.
LEMMA GuideStays ==
    ASSUME NEW l, WalksInv, walks # <<>> => l = LineAt(Innermost.at)
    PROVE  Strays(l) = {}
<1>1. CASE l.verb \in {"usb", "kbd"} /\ Needs(l.verb) \in CallerCaps(Caller) /\ walks # <<>>
  BY <1>1 DEF Needs, CallerCaps, Caller, PageCaller
<1>2. CASE /\ l.verb = "lane" /\ defined = "no" /\ walks # <<>>
           /\ walks[1].kind = "boot" /\ (~walks[1].marked \/ walks[1].text[1] = DefineNames)
  <2>1. l = DefineNames
    BY <1>2, NamesAreNext DEF NamingFirst
  <2> QED
    BY <1>2, <2>1, DefinesLanes
<1> QED
  BY <1>1, <1>2 DEF Strays

\* Whatever a line is, what it leaves stands; and DefineNames names the lanes.
LEMMA LineKeeps ==
    ASSUME NEW l \in CommandLines, NEW left, Standing(page, open, left, busy), RunLine(l, left)
    PROVE  /\ Standing(page', open', walks', busy') /\ Follows(left, walks')
           /\ strayed' = strayed \cup Strays(l)
           /\ defined' \in {defined, "yes"} /\ (l = DefineNames => defined' = "yes")
<1>1. /\ PagesAre(page) /\ open \in DOMAIN page /\ left \in Seq(Walks) /\ Follows(left, left)
      /\ Standing(page, open, left, busy)
  <2>1. left \in Seq(Walks)
    BY DEF Standing
  <2> QED
    BY <2>1, FollowsItself DEF Standing
<1>2. strayed' = strayed \cup Strays(l) /\ l.verb \in CommandVerbs
  BY DEF RunLine, CommandLines
<1>3. ASSUME Say, walks' = left
      PROVE  Standing(page', open', walks', busy') /\ Follows(left, walks') /\ defined' = defined
  BY <1>1, <1>3, SayKeeps DEF Say
<1>4. CASE l.verb = "prose"
  <2>1. walks' = left /\ page' = page /\ open' = open /\ defined' = defined /\ busy' = busy
    BY <1>4 DEF RunLine
  <2> QED
    BY <1>1, <1>2, <1>4, <2>1, DefinesLanes
<1>5. CASE l.verb # "prose" /\ Needs(l.verb) \notin CallerCaps(Caller)
  <2>1. Say /\ walks' = left
    BY <1>5 DEF RunLine
  <2>2. l # DefineNames
    <3>1. Needs("define") \in CallerCaps(Caller)
      BY DEF Needs, CallerCaps
    <3> QED
      BY <1>5, <3>1, DefinesLanes
  <2> QED
    BY <1>2, <1>3, <2>1, <2>2
<1>6. CASE l.verb # "prose" /\ Needs(l.verb) \in CallerCaps(Caller)
  <2> DEFINE Does == CASE l.verb = "run" -> RunPage(l.of, left)
              [] l.verb = "open" -> OpenPage(l.of) /\ walks' = left
              [] l.verb = "new" -> NewPage /\ walks' = left
              [] l.verb = "close" -> ClosePage /\ walks' = IF OnlyPage THEN left ELSE Gone(left)
              [] l.verb = "define" -> defined' = "yes" /\ walks' = left /\ UNCHANGED <<page, open, busy>>
              [] l.verb = "lane" /\ defined = "yes" -> walks' = left /\ UNCHANGED <<page, open, defined, busy>>
              [] OTHER -> Say /\ walks' = left
  <2>1. Does
    BY <1>6 DEF RunLine
  <2>2. l = DefineNames => l.verb = "define"
    BY DefinesLanes
  <2>3. CASE l.verb = "run"
    <3>1. RunPage(l.of, left)
      BY <2>1, <2>3
    <3> QED
      BY <1>1, <1>2, <2>2, <2>3, <3>1, RunKeeps
  <2>4. CASE l.verb = "open"
    <3>1. OpenPage(l.of) /\ walks' = left
      BY <2>1, <2>4
    <3>2. defined' = defined
      BY <3>1 DEF OpenPage, Say
    <3> QED
      BY <1>1, <1>2, <2>2, <2>4, <3>1, <3>2, OpenKeeps
  <2>5. CASE l.verb = "new"
    <3>1. NewPage /\ walks' = left
      BY <2>1, <2>5
    <3>2. defined' = defined
      BY <3>1 DEF NewPage, Say
    <3> QED
      BY <1>1, <1>2, <2>2, <2>5, <3>1, <3>2, NewKeeps
  <2>6. CASE l.verb = "close"
    <3>1. ClosePage /\ walks' = IF OnlyPage THEN left ELSE Gone(left)
      BY <2>1, <2>6
    <3>2. CASE OnlyPage
      <4>1. Say /\ walks' = left
        BY <3>1, <3>2 DEF ClosePage
      <4> QED
        BY <1>2, <1>3, <2>2, <2>6, <4>1
    <3>3. CASE ~OnlyPage
      <4>1. walks' = Gone(left) /\ defined' = defined
        BY <3>1, <3>3 DEF ClosePage
      <4> QED
        BY <1>1, <1>2, <2>2, <2>6, <3>1, <3>3, <4>1, CloseKeeps
    <3> QED
      BY <3>2, <3>3
  <2>7. CASE l.verb = "define"
    <3>1. defined' = "yes" /\ walks' = left /\ page' = page /\ open' = open /\ busy' = busy
      BY <2>1, <2>7
    <3> QED
      BY <1>1, <1>2, <3>1
  <2>8. CASE l.verb = "lane" /\ defined = "yes"
    <3>1. walks' = left /\ page' = page /\ open' = open /\ busy' = busy /\ defined' = defined
      BY <2>1, <2>8
    <3> QED
      BY <1>1, <1>2, <2>2, <2>8, <3>1
  <2>9. CASE l.verb \notin {"run", "open", "new", "close", "define"} /\ ~(l.verb = "lane" /\ defined = "yes")
    <3>1. Say /\ walks' = left
      BY <2>1, <2>9
    <3> QED
      BY <1>2, <1>3, <2>2, <2>9, <3>1
  <2> QED
    BY <2>3, <2>4, <2>5, <2>6, <2>7, <2>8, <2>9
<1> QED
  BY <1>4, <1>5, <1>6

-----------------------------------------------------------------------------
(***************************************************************************)
(* Every step keeps what is said of the walks.                             *)
(***************************************************************************)

\* c_run()'s flag is up exactly while a page is run.
LEMMA FlagIsTrue == ASSUME WalksInv PROVE BusyIsTrue
<1>1. walks \in Seq(Walks) /\ busy \in BOOLEAN
      /\ (busy <=> \E j \in 1 .. Len(walks) : walks[j].kind = "run")
  BY DEF WalksInv, Standing
<1>2. DOMAIN walks = 1 .. Len(walks)
  BY <1>1
<1> QED
  BY <1>1, <1>2 DEF BusyIsTrue

\* While no walk has just ended there is nothing to say of it.
LEMMA NothingEnded == ASSUME finished' = NoWalk PROVE OwnerIsBack' /\ EveryLineRuns'
  BY DEF OwnerIsBack, EveryLineRuns, NoWalk

\* The first pages.
LEMMA FirstPagesAre ==
    ASSUME NEW boot \in BootTexts, NEW song \in SongTexts, NEW last \in {1, 2}, NEW pages,
           pages = [i \in 0 .. last |-> FirstPages(song, boot)[i]]
    PROVE  PagesAre(pages) /\ 0 \in DOMAIN pages
<1> DEFINE t == FirstPages(song, boot)
<1>1. boot \in Seq(CommandLines) /\ song \in Seq(CommandLines) /\ <<>> \in Seq(CommandLines)
  BY CommandAssumption
<1>2. /\ t[0] = Blank /\ t[1] = [name |-> "song", lines |-> song]
      /\ t[2] = [name |-> "boot", lines |-> boot]
  BY DEF FirstPages
<1>3. Blank \in PageTexts
  BY <1>1 DEF Blank, PageTexts, PageNames
<1>4. t[1] \in PageTexts /\ t[2] \in PageTexts
  BY <1>1, <1>2 DEF PageTexts, PageNames
<1> HIDE DEF t
<1>5. DOMAIN pages = 0 .. last /\ \A i \in 0 .. last : pages[i] = t[i]
  BY DEF t
<1>6. \A i \in 0 .. last : i = 0 \/ i = 1 \/ i = 2
  OBVIOUS
<1>7. 0 .. last \subseteq Pages /\ 0 \in 0 .. last
  BY CommandAssumption DEF Pages
<1>8. t[0] \in PageTexts
  BY <1>2, <1>3
<1>9. \A i \in 0 .. last : t[i] \in PageTexts
  BY <1>4, <1>6, <1>8
<1> QED
  BY <1>5, <1>7, <1>9 DEF PagesAre

\* At the start nothing is run.
LEMMA WalksInit == ASSUME CommandInit PROVE WalksInv
<1>1. PICK boot \in BootTexts, song \in SongTexts, last \in {1, 2} :
         page = [i \in 0 .. last |-> FirstPages(song, boot)[i]]
  BY DEF CommandInit
<1>2. PagesAre(page) /\ 0 \in DOMAIN page
  BY <1>1, FirstPagesAre
<1>3. open = 0 /\ walks = <<>> /\ busy = FALSE /\ defined = "cold" /\ finished = NoWalk /\ strayed = {}
  BY DEF CommandInit
<1>4. walks \in Seq(Walks) /\ Len(walks) = 0
  BY <1>3
<1>5. Standing(page, open, walks, busy)
  BY <1>2, <1>3, <1>4 DEF Standing, Nested
<1>6. NamesFirst
  BY <1>3 DEF NamesFirst
<1> QED
  BY <1>3, <1>5, <1>6 DEF WalksInv, OwnerIsBack, EveryLineRuns

\* The boot document is begun: the lane names are its first line, unless it is
\* the owner who put them lower.
LEMMA BootKeeps ==
    ASSUME WalksInv, Boot
    PROVE  WalksInv'
<1>1. /\ Standing(page, open, walks, busy) /\ walks = <<>> /\ defined = "cold" /\ finished = NoWalk
      /\ strayed = {}
  BY DEF WalksInv, NamesFirst, Boot
<1>2. defined' = "no" /\ busy' = busy /\ finished' = NoWalk /\ strayed' = {}
  BY <1>1 DEF Boot
<1>3. PagesAre(page) /\ open \in DOMAIN page /\ ~busy /\ busy \in BOOLEAN
  BY <1>1 DEF Standing
<1>4. CASE Called("boot") = {} /\ Vacant = {}
  <2>1. page' = page /\ open' = open /\ walks' = walks
    BY <1>4 DEF Boot
  <2>2. Standing(page', open', walks', busy')
    BY <1>1, <1>2, <2>1
  <2>3. NamesFirst'
    BY <1>1, <1>2, <2>1 DEF NamesFirst
  <2> QED
    BY <1>2, <2>2, <2>3, NothingEnded DEF WalksInv
<1>5. CASE ~(Called("boot") = {} /\ Vacant = {})
  <2> DEFINE made == Called("boot") = {}
             slots == IF made THEN Vacant ELSE Called("boot")
             i == FirstOf(slots)
             found == IF made THEN Starter ELSE page[i].lines
             marked == Contains(found, DefineNames)
             text == IF marked THEN found ELSE NamesOnTop(found)
             w == NewWalk("boot", open, i, text, marked)
             more == Held(i, [name |-> "boot", lines |-> text])
  <2>1. page' = more /\ open' = i /\ walks' = <<w>>
    BY <1>5 DEF Boot
  <2>2. i \in Pages /\ (~made => i \in DOMAIN page)
    <3>1. slots # {} /\ slots \in SUBSET Pages
      BY <1>3, <1>5, PagesThere
    <3>2. i \in slots
      BY <3>1, FirstPage
    <3> QED
      BY <1>3, <3>1, <3>2, PagesThere
  <2>3. found \in Seq(CommandLines)
    <3>1. Line("lane", "") \in CommandLines
      BY DEF Line, CommandLines, CommandVerbs, PageNames
    <3>2. Starter \in Seq(CommandLines)
      <4>1. \A a, b \in CommandLines : <<a, b>> \in Seq(CommandLines)
        OBVIOUS
      <4> QED
        BY <3>1, <4>1, DefinesLanes DEF Starter
    <3>3. ~made => page[i].lines \in Seq(CommandLines)
      BY <1>3, <2>2 DEF PagesAre, PageTexts
    <3> QED
      BY <3>2, <3>3
  <2> HIDE DEF i, found
  <2>4. marked \in BOOLEAN
    BY DEF Contains
  <2>5. NamesOnTop(found) \in Seq(CommandLines) /\ NamesOnTop(found)[1] = DefineNames
        /\ Len(NamesOnTop(found)) = Len(found) + 1
    <3>1. <<DefineNames>> \in Seq(CommandLines) /\ Len(<<DefineNames>>) = 1
          /\ <<DefineNames>>[1] = DefineNames
      BY DefinesLanes
    <3> HIDE DEF DefineNames
    <3> QED
      BY <2>3, <3>1, ConcatProperties DEF NamesOnTop
  <2>6. marked => Len(found) > 0
    BY <2>3 DEF Contains
  <2> HIDE DEF marked
  <2>7. /\ text \in Seq(CommandLines) /\ Len(text) \in Nat /\ Len(text) > 0
        /\ (~marked => text[1] = DefineNames)
    BY <2>3, <2>5, <2>6
  <2> HIDE DEF text
  <2> DEFINE p == [name |-> "boot", lines |-> text]
  <2>8. p \in PageTexts /\ p.lines = text
    BY <2>7 DEF PageTexts, PageNames
  <2>9. DOMAIN more = DOMAIN page \cup {i} /\ \A j \in DOMAIN more : more[j] = IF j = i THEN p ELSE page[j]
    BY DEF Held
  <2> HIDE DEF p, more
  <2>10. PagesAre(more) /\ i \in DOMAIN more /\ open \in DOMAIN more /\ more[i] = p /\ open \in Pages
    BY <1>3, <2>2, <2>8, <2>9 DEF PagesAre
  <2>11. w = [kind |-> "boot", was |-> open, doc |-> i, n |-> Len(text), at |-> 0, text |-> text,
              ran |-> <<>>, lost |-> FALSE, gone |-> FALSE, marked |-> marked]
    BY DEF NewWalk
  <2> HIDE DEF w
  <2>12. WalkKept(more, w) /\ w \in Walks
    <3>1. w \in Walks
      BY <2>2, <2>4, <2>7, <2>10, <2>11 DEF Walks
    <3>2. BeginsWith(text, text)
      BY <2>7 DEF BeginsWith
    <3>3. w.n = Len(w.text) /\ w.at = Len(w.ran) /\ w.at <= w.n
      BY <2>7, <2>11
    <3>4. w.doc \in DOMAIN more /\ BeginsWith(more[w.doc].lines, w.text)
          /\ \A k \in 1 .. w.at : w.ran[k] = w.text[k]
      BY <2>8, <2>10, <2>11, <3>2
    <3>5. w.was \in DOMAIN more
      BY <2>10, <2>11
    <3> QED
      BY <3>1, <3>3, <3>4, <3>5 DEF WalkKept
  <2>13. <<w>> \in Seq(Walks) /\ Len(<<w>>) = 1 /\ <<w>>[1] = w /\ w.kind = "boot"
    BY <2>11, <2>12
  <2>14. Standing(more, i, <<w>>, busy)
    BY <1>3, <2>10, <2>12, <2>13 DEF Standing, Nested
  <2>15. NamesFirst'
    <3>1. page'[open'].lines = text /\ walks'[1] = w /\ Len(walks') = 1 /\ walks' # <<>>
      BY <2>1, <2>8, <2>10, <2>13
    <3>2. text # <<>>
      BY <2>7
    <3>3. (~w.marked \/ w.text[1] = DefineNames) => text[1] = DefineNames
      BY <2>7, <2>11
    <3>4. w.at = 0 /\ w.n > 0 /\ w.doc = i
      BY <2>7, <2>11
    <3> QED
      BY <1>2, <2>1, <3>1, <3>2, <3>3, <3>4 DEF NamesFirst
  <2>16. Standing(page', open', walks', busy')
    BY <1>2, <2>1, <2>14
  <2> QED
    BY <1>2, <2>15, <2>16, NothingEnded DEF WalksInv
<1> QED
  BY <1>4, <1>5

\* A line the owner runs.
LEMMA TypedKeeps ==
    ASSUME WalksInv, RunTyped
    PROVE  WalksInv'
<1>1. PICK l \in Typed : RunLine(l, <<>>)
  BY DEF RunTyped
<1>2. walks = <<>> /\ defined # "cold" /\ finished' = NoWalk
  BY DEF RunTyped, Idle
<1>3. Standing(page, open, <<>>, busy) /\ strayed = {} /\ defined \in {"cold", "no", "yes"}
  BY <1>2 DEF WalksInv, NamesFirst
<1>4. l \in CommandLines
  BY CommandAssumption
<1>5. /\ Standing(page', open', walks', busy') /\ Follows(<<>>, walks')
      /\ strayed' = strayed \cup Strays(l) /\ defined' \in {defined, "yes"}
  BY <1>1, <1>3, <1>4, LineKeeps
<1>6. strayed' = {}
  <2>1. Strays(l) = {}
    BY <1>2, GuideStays
  <2> QED
    BY <1>3, <1>5, <2>1
<1>7. NamesFirst'
  <2>1. walks' # <<>> => walks'[1].kind = "run"
    BY <1>5 DEF Follows
  <2> QED
    BY <1>2, <1>3, <1>5, <2>1 DEF NamesFirst
<1> QED
  BY <1>2, <1>5, <1>6, <1>7, NothingEnded DEF WalksInv

\* A line the owner writes.
LEMMA WritingKeeps ==
    ASSUME WalksInv, OwnerWrites
    PROVE  WalksInv'
<1>1. PICK l \in Written : page' = [page EXCEPT ![open].lines = Append(@, l)]
  BY DEF OwnerWrites
<1>2. /\ walks = <<>> /\ defined # "cold" /\ finished' = NoWalk
      /\ open' = open /\ walks' = walks /\ busy' = busy /\ defined' = defined /\ strayed' = strayed
  BY DEF OwnerWrites, Idle
<1>3. Standing(page, open, walks, busy) /\ strayed = {} /\ NamesFirst
  BY DEF WalksInv
<1>4. PagesAre(page) /\ open \in DOMAIN page /\ walks \in Seq(Walks) /\ Len(walks) = 0
  BY <1>2, <1>3 DEF Standing
<1>5. page[open] \in PageTexts /\ page[open].lines \in Seq(CommandLines) /\ l \in CommandLines
  BY <1>4, CommandAssumption DEF PagesAre, PageTexts
<1> DEFINE lines == Append(page[open].lines, l)
           p == [page[open] EXCEPT !.lines = lines]
<1>6. lines \in Seq(CommandLines)
  BY <1>5, AppendProperties
<1>7. page' = [page EXCEPT ![open] = p]
  BY <1>1
<1> HIDE DEF lines
<1>8. p \in PageTexts
  BY <1>5, <1>6 DEF PageTexts
<1> HIDE DEF p
<1>9. DOMAIN page' = DOMAIN page /\ \A i \in DOMAIN page' : page'[i] = IF i = open THEN p ELSE page[i]
  BY <1>7
<1>10. PagesAre(page') /\ open \in DOMAIN page'
  BY <1>4, <1>8, <1>9 DEF PagesAre
<1>11. Standing(page', open', walks', busy')
  BY <1>2, <1>3, <1>4, <1>10 DEF Standing
<1>12. NamesFirst'
  BY <1>2, <1>3 DEF NamesFirst
<1> QED
  BY <1>2, <1>3, <1>11, <1>12, NothingEnded DEF WalksInv

\* A page's next line.
LEMMA StepKeeps ==
    ASSUME WalksInv, Step
    PROVE  WalksInv'
<1> DEFINE n == Len(walks)
           w == walks[n]
           l == LineAt(w.at)
           left == [walks EXCEPT ![n] = NextLine(w)]
<1>1. walks # <<>> /\ w.at < w.n /\ finished' = NoWalk
  BY DEF Step, Innermost
<1>2. RunLine(l, left)
  BY DEF Step, Innermost
<1>3. /\ Standing(page, open, walks, busy) /\ strayed = {} /\ NamesFirst
      /\ PagesAre(page) /\ open \in DOMAIN page /\ walks \in Seq(Walks) /\ Nested(walks)
      /\ \A j \in 1 .. Len(walks) : WalkKept(page, walks[j])
      /\ busy \in BOOLEAN /\ (busy <=> \E j \in 1 .. Len(walks) : walks[j].kind = "run")
  BY DEF WalksInv, Standing
<1>4. n \in Nat /\ n \in 1 .. n /\ 1 \in 1 .. n
  BY <1>1, <1>3, EmptySeq, LenProperties
<1>5. WalkKept(page, w)
  BY <1>3, <1>4
<1> HIDE DEF w
<1>6. /\ l \in CommandLines /\ WalkKept(page, NextLine(w)) /\ NextLine(w).kind = w.kind
      /\ NextLine(w).text = w.text /\ NextLine(w).marked = w.marked
  BY <1>1, <1>3, <1>5, WalkSteps
<1>7. NextLine(w) \in Walks
  BY <1>6 DEF WalkKept
<1>8. /\ left \in Seq(Walks) /\ Len(left) = n
      /\ \A j \in 1 .. n : left[j] = IF j = n THEN NextLine(w) ELSE walks[j]
  BY <1>3, <1>4, <1>7, ExceptSeq
<1>9. l = LineAt(Innermost.at)
  BY DEF Innermost, w
<1> HIDE DEF left, l
<1>10. \A j \in 1 .. n : /\ WalkKept(page, left[j]) /\ left[j].kind = walks[j].kind
                         /\ left[j].text = walks[j].text /\ left[j].marked = walks[j].marked
  BY <1>3, <1>6, <1>8 DEF w
<1>11. Nested(left)
  <2>1. n = 2 => left[1].kind = walks[1].kind /\ left[2].kind = walks[2].kind
    BY <1>10
  <2> QED
    BY <1>3, <1>8, <2>1 DEF Nested
<1>12. Standing(page, open, left, busy)
  BY <1>3, <1>8, <1>10, <1>11 DEF Standing
<1>13. /\ Standing(page', open', walks', busy') /\ Follows(left, walks')
       /\ strayed' = strayed \cup Strays(l)
       /\ defined' \in {defined, "yes"} /\ (l = DefineNames => defined' = "yes")
  BY <1>2, <1>6, <1>12, LineKeeps
<1>14. strayed' = {}
  <2>1. Strays(l) = {}
    BY <1>9, GuideStays
  <2> QED
    BY <1>3, <1>13, <2>1
<1>15. NamesFirst'
  <2>1. defined # "cold" /\ defined \in {"cold", "no", "yes"}
    BY <1>1, <1>3 DEF NamesFirst
  <2>2. /\ walks'[1].kind = walks[1].kind /\ walks'[1].text = walks[1].text
        /\ walks'[1].marked = walks[1].marked
    BY <1>4, <1>8, <1>10, <1>13 DEF Follows
  <2>3. defined' = "no" => defined = "no" /\ ~NamingFirst(walks[1])
    BY <1>1, <1>9, <1>13, NamesAreNext
  <2>4. defined' = "no" => ~(walks'[1].kind = "boot" /\ (~walks'[1].marked \/ walks'[1].text[1] = DefineNames))
    BY <2>2, <2>3 DEF NamingFirst
  <2> QED
    BY <1>13, <2>1, <2>4 DEF NamesFirst
<1> QED
  BY <1>1, <1>13, <1>14, <1>15, NothingEnded DEF WalksInv

\* A page is done.
LEMMA FinishKeeps ==
    ASSUME WalksInv, Finish
    PROVE  WalksInv'
<1> DEFINE n == Len(walks)
           w == walks[n]
           ws == Front(walks)
<1>1. /\ walks # <<>> /\ w.at >= w.n /\ open' = ComeBack(w) /\ walks' = ws /\ finished' = w
      /\ (busy' <=> busy /\ w.kind = "boot") /\ busy' \in BOOLEAN
      /\ page' = page /\ defined' = defined /\ strayed' = strayed
  BY DEF Finish, Innermost
<1>2. /\ Standing(page, open, walks, busy) /\ strayed = {} /\ NamesFirst
      /\ PagesAre(page) /\ open \in DOMAIN page /\ walks \in Seq(Walks) /\ Nested(walks)
      /\ \A j \in 1 .. Len(walks) : WalkKept(page, walks[j])
      /\ (busy <=> \E j \in 1 .. Len(walks) : walks[j].kind = "run")
  BY DEF WalksInv, Standing
<1>3. n \in Nat /\ n \in 1 .. n /\ n > 0
  BY <1>1, <1>2, EmptySeq, LenProperties
<1>4. WalkKept(page, w) /\ w \in Walks
  BY <1>2, <1>3 DEF WalkKept
<1>5. n = 1 \/ n = 2
  <2>1. n <= 2
    BY <1>2 DEF Nested
  <2>2. \A m \in Nat : m > 0 /\ m <= 2 => m = 1 \/ m = 2
    OBVIOUS
  <2> QED
    BY <1>3, <2>1, <2>2, Zenon
<1>6. ws \in Seq(Walks) /\ Len(ws) = n - 1 /\ \A j \in 1 .. n - 1 : ws[j] = walks[j]
  <2>1. ws = SubSeq(walks, 1, n - 1)
    BY DEF Front
  <2>2. \A j \in 1 .. n - 1 : walks[j] \in Walks
    BY <1>2, <1>3
  <2> QED
    <3>1. n - 1 \in 0 .. n /\ n - 1 + 1 - 1 = n - 1 /\ 1 \in 1 .. (n - 1) + 1 /\ n - 1 \in 1 - 1 .. Len(walks)
      BY <1>3
    <3> QED
      BY <1>2, <1>3, <2>1, <2>2, <3>1, SubSeqProperties
<1>7. n = 2 => walks[1].kind = "boot" /\ w.kind = "run"
  BY <1>2 DEF Nested
<1>8. w.kind \in {"run", "boot"}
  BY <1>4 DEF Walks
<1>9. w.kind = "run" => busy
  BY <1>2, <1>3
<1> HIDE DEF ws
<1>10. \A j \in 1 .. Len(ws) : WalkKept(page, ws[j])
  BY <1>2, <1>3, <1>6
<1>11. ~busy' /\ ~ \E j \in 1 .. Len(ws) : ws[j].kind = "run"
  <2>1. CASE n = 2
    <3>1. Len(ws) = 1 /\ ws[1] = walks[1]
      BY <1>6, <2>1
    <3> QED
      BY <1>1, <1>7, <2>1, <3>1
  <2>2. CASE n = 1
    <3>1. Len(ws) = 0
      BY <1>6, <2>2
    <3>2. busy => w.kind = "run"
      BY <1>2, <2>2
    <3> QED
      BY <1>1, <3>1, <3>2
  <2> QED
    BY <1>5, <2>1, <2>2
<1>12. Nested(ws)
  BY <1>5, <1>6 DEF Nested
<1>13. ComeBack(w) \in DOMAIN page
  BY <1>2 DEF ComeBack
<1>14. Standing(page', open', walks', busy')
  BY <1>1, <1>2, <1>6, <1>10, <1>11, <1>12, <1>13 DEF Standing
<1>15. NamesFirst'
  <2>1. CASE n = 2
    <3>1. walks'[1] = walks[1] /\ Len(walks) # 1
      BY <1>1, <1>6, <2>1
    <3>2. defined = "no" => ~(walks[1].kind = "boot" /\ (~walks[1].marked \/ walks[1].text[1] = DefineNames))
      BY <1>1, <1>2, <3>1 DEF NamesFirst
    <3>3. defined # "cold" /\ defined \in {"no", "yes"}
      BY <1>1, <1>2 DEF NamesFirst
    <3> QED
      BY <1>1, <3>1, <3>2, <3>3 DEF NamesFirst
  <2>2. CASE n = 1
    <3>1. walks' = <<>>
      BY <1>1, <1>6, <2>2, EmptySeq
    <3>2. defined # "cold" /\ defined \in {"no", "yes"}
      BY <1>1, <1>2 DEF NamesFirst
    <3> QED
      BY <1>1, <3>1, <3>2 DEF NamesFirst
  <2> QED
    BY <1>5, <2>1, <2>2
<1>16. OwnerIsBack'
  <2>1. ~w.gone => ComeBack(w) = w.was
    BY <1>4 DEF WalkKept, ComeBack
  <2> QED
    BY <1>1, <2>1 DEF OwnerIsBack
<1>17. EveryLineRuns'
  <2>1. ~w.lost => w.ran = w.text
    <3> SUFFICES ASSUME ~w.lost PROVE w.ran = w.text
      OBVIOUS
    <3>1. w.ran \in Seq(CommandLines) /\ w.text \in Seq(CommandLines) /\ w.at \in Nat /\ w.n \in Nat
      BY <1>4 DEF Walks
    <3>2. w.n = Len(w.text) /\ w.at = Len(w.ran) /\ w.at <= w.n
          /\ \A k \in 1 .. w.at : w.ran[k] = w.text[k]
      BY <1>4 DEF WalkKept
    <3>3. w.at = w.n
      BY <1>1, <3>1, <3>2
    <3> QED
      BY <3>1, <3>2, <3>3, SeqEqual
  <2> QED
    BY <1>1, <2>1 DEF EveryLineRuns
<1> QED
  BY <1>1, <1>2, <1>14, <1>15, <1>16, <1>17 DEF WalksInv

\* Every step keeps what is said of the walks.
LEMMA WalksStay == WalksInv /\ [CommandNext]_commandVars => WalksInv'
<1> SUFFICES ASSUME WalksInv, [CommandNext]_commandVars PROVE WalksInv'
  OBVIOUS
<1>1. CASE Boot
  BY <1>1, BootKeeps
<1>2. CASE RunTyped
  BY <1>2, TypedKeeps
<1>3. CASE OwnerWrites
  BY <1>3, WritingKeeps
<1>4. CASE Step
  BY <1>4, StepKeeps
<1>5. CASE Finish
  BY <1>5, FinishKeeps
<1>6. CASE UNCHANGED commandVars
  BY <1>6 DEF commandVars, WalksInv, NamesFirst, OwnerIsBack, EveryLineRuns
<1> QED
  BY <1>1, <1>2, <1>3, <1>4, <1>5, <1>6 DEF CommandNext

\* Whatever the lines of a page open, make, close, define or run: each of its
\* lines is run once and in order while no line leaves the page, its owner is
\* back where he stood unless that was closed, one '>run' refuses another and
\* nothing else does, no line does what a guide may not, and the lanes have
\* their names before a lane is asked for (cmd.c, builtins.c c_run, main.c
\* run_boot_document).
THEOREM PagesAreRunWhole == CommandSpec => []PagesRunWhole
<1>1. CommandInit => WalksInv
  BY WalksInit
<1>2. WalksInv => PagesRunWhole
  BY FlagIsTrue DEF WalksInv, PagesRunWhole, PagesKeepToTheirOwn
<1> QED
  BY <1>1, <1>2, WalksStay, PTL DEF CommandSpec

-----------------------------------------------------------------------------
(***************************************************************************)
(* The key.  What is stored is the key shown until the first store, and    *)
(* after each of the two that half of the key asked for; a note worked out *)
(* while nothing was stored has its root and its interval of one mode.     *)
(***************************************************************************)
Halves == {"root", "mode"}
Readings == [at : {"counted", "rooted"}, deg : Degrees, octave : Octaves, n : Nat,
             mode : DOMAIN Modes, root : 0 .. 11]
Stays == storing.left = {} \/ storing.left = Halves
IsKey(key) == key.root \in 0 .. 11 /\ key.mode \in DOMAIN Modes
Known(spec) == Good(spec) \/ spec = <<"c", "min">>

KeyTyped ==
    /\ root \in 0 .. 11 /\ mode \in DOMAIN Modes
    /\ storing.left \subseteq Halves /\ storing = [left |-> storing.left, spec |-> storing.spec]
    /\ reading = Quiet \/ reading \in Readings
StoredInv ==
    /\ Known(shown)
    /\ Stays => root = Key(shown).root /\ mode = Key(shown).mode
    /\ storing.left # {} => Good(storing.spec)
    /\ storing.left # {} /\ "root" \notin storing.left => root = Key(storing.spec).root
    /\ storing.left # {} /\ "mode" \notin storing.left => mode = Key(storing.spec).mode
NoteInv ==
    reading # Quiet /\ ~crossed =>
        /\ Stays /\ reading.mode = mode /\ reading.n = Len(Modes[mode].iv)
        /\ reading.at = "rooted" => reading.root = root
KeyInv == KeyTyped /\ StoredInv /\ NoteInv /\ InTheKeyShown /\ refused \notin DOMAIN Keys

-----------------------------------------------------------------------------
(* What the table of modes says, a mode at a time.                           *)
LEMMA ModesAre ==
    /\ DOMAIN Modes = 1 .. 11
    /\ Modes[1] = Mode(<<"chrom">>, <<0, 1, 2, 3, 4, 5, 6, 7, 8, 9, 10, 11>>)
    /\ Modes[2] = Mode(<<"b", "lues">>, <<0, 3, 5, 6, 7, 10>>)
    /\ Modes[3] = Mode(<<"pent">>, <<0, 3, 5, 7, 10>>)
    /\ Modes[4] = Mode(<<"maj", "5">>, <<0, 2, 4, 7, 9>>)
    /\ Modes[5] = Mode(<<"maj">>, <<0, 2, 4, 5, 7, 9, 11>>)
    /\ Modes[6] = Mode(<<"min">>, <<0, 2, 3, 5, 7, 8, 10>>)
    /\ Modes[7] = Mode(<<"dor">>, <<0, 2, 3, 5, 7, 9, 10>>)
    /\ Modes[8] = Mode(<<"phr">>, <<0, 1, 3, 5, 7, 8, 10>>)
    /\ Modes[9] = Mode(<<"lyd">>, <<0, 2, 4, 6, 7, 9, 11>>)
    /\ Modes[10] = Mode(<<"mix">>, <<0, 2, 4, 5, 7, 9, 10>>)
    /\ Modes[11] = Mode(<<"loc">>, <<0, 1, 3, 5, 6, 8, 10>>)
    BY DEF Modes

LEMMA ModeFields ==
    ASSUME NEW name, NEW iv
    PROVE  Mode(name, iv).name = name /\ Mode(name, iv).iv = iv
    BY DEF Mode

\* The names of the modes, and where they begin alike.
LEMMA NamesAre ==
    /\ Modes[1].name = <<"chrom">> /\ Modes[2].name = <<"b", "lues">>
    /\ Modes[3].name = <<"pent">> /\ Modes[4].name = <<"maj", "5">>
    /\ Modes[5].name = <<"maj">> /\ Modes[6].name = <<"min">> /\ Modes[7].name = <<"dor">>
    /\ Modes[8].name = <<"phr">> /\ Modes[9].name = <<"lyd">> /\ Modes[10].name = <<"mix">>
    /\ Modes[11].name = <<"loc">>
    BY ModesAre, ModeFields

\* No two begin with the same syllable but "maj5" and "maj", and a longer one
\* does not begin a shorter.
LEMMA FirstSyllable ==
    ASSUME NEW i \in 1 .. 11, NEW j \in 1 .. 11, i < j \/ j < i,
           Modes[i].name[1] = Modes[j].name[1]
    PROVE  (i = 4 /\ j = 5) \/ (i = 5 /\ j = 4)
    BY NamesAre

Syllables == {"chrom", "b", "lues", "pent", "maj", "5", "min", "dor", "phr", "lyd", "mix", "loc",
              "#", "c", "d", "e", "f", "g", "a"}

LEMMA NameIsSeq ==
    ASSUME NEW i \in 1 .. 11
    PROVE  Modes[i].name \in Seq(Syllables) /\ Len(Modes[i].name) >= 1
<1>1. \A x \in Syllables : <<x>> \in Seq(Syllables) /\ Len(<<x>>) = 1
    OBVIOUS
<1>2. \A x, y \in Syllables : <<x, y>> \in Seq(Syllables) /\ Len(<<x, y>>) = 2
    OBVIOUS
<1>3. {"chrom", "b", "lues", "pent", "maj", "5", "min", "dor", "phr", "lyd", "mix", "loc"}
          \subseteq Syllables
    BY DEF Syllables
<1> HIDE DEF Syllables
<1>4. CASE i = 1
    BY <1>1, <1>3, <1>4, NamesAre
<1>5. CASE i = 2
    BY <1>2, <1>3, <1>5, NamesAre
<1>6. CASE i = 3
    BY <1>1, <1>3, <1>6, NamesAre
<1>7. CASE i = 4
    BY <1>2, <1>3, <1>7, NamesAre
<1>8. CASE i = 5
    BY <1>1, <1>3, <1>8, NamesAre
<1>9. CASE i = 6
    BY <1>1, <1>3, <1>9, NamesAre
<1>10. CASE i = 7
    BY <1>1, <1>3, <1>10, NamesAre
<1>11. CASE i = 8
    BY <1>1, <1>3, <1>11, NamesAre
<1>12. CASE i = 9
    BY <1>1, <1>3, <1>12, NamesAre
<1>13. CASE i = 10
    BY <1>1, <1>3, <1>13, NamesAre
<1>14. CASE i = 11
    BY <1>1, <1>3, <1>14, NamesAre
<1>15. QED
    BY <1>4, <1>5, <1>6, <1>7, <1>8, <1>9, <1>10, <1>11, <1>12, <1>13, <1>14

LEMMA MajorIsShorter == Len(Modes[4].name) = 2 /\ Len(Modes[5].name) = 1
    BY NamesAre

\* What is behind the first of a sequence.
LEMMA BehindTheFirst ==
    ASSUME NEW S, NEW x \in S, NEW s \in Seq(S)
    PROVE  /\ <<x>> \o s # <<>> /\ (<<x>> \o s)[1] = x /\ Tail(<<x>> \o s) = s
<1>1. /\ <<x>> \o s \in Seq(S) /\ Len(<<x>> \o s) = Len(s) + 1 /\ (<<x>> \o s)[1] = x
      /\ \A i \in 1 .. Len(s) : (<<x>> \o s)[i + 1] = s[i]
    OBVIOUS
<1>2. <<x>> \o s # <<>>
    BY <1>1, EmptySeq
<1> DEFINE t == <<x>> \o s
<1> HIDE DEF t
<1>3. /\ Tail(t) \in Seq(S) /\ Len(Tail(t)) = Len(t) - 1
      /\ \A i \in 1 .. Len(Tail(t)) : Tail(t)[i] = t[i + 1]
    BY <1>1, <1>2, HeadTailProperties DEF t
<1>4. Tail(t) = s
  <2>1. Len(Tail(t)) = Len(s) /\ \A i \in 1 .. Len(s) : Tail(t)[i] = s[i]
      BY <1>1, <1>3 DEF t
  <2>2. QED
      BY <1>3, <2>1, SeqEqual
<1>5. QED
    BY <1>1, <1>2, <1>4 DEF t

\* IsPrefix, of two that are not empty.
LEMMA PrefixBegins ==
    ASSUME NEW s \in Seq(Syllables), NEW t \in Seq(Syllables), Len(s) >= 1
    PROVE  /\ IsPrefix(s, t) => Len(s) <= Len(t) /\ s[1] = t[1]
           /\ IsPrefix(s, s)
  <1>1. ASSUME IsPrefix(s, t) PROVE Len(s) <= Len(t) /\ s[1] = t[1]
    <2>1. Len(s) <= Len(t) /\ SubSeq(s, 1, Len(s)) = SubSeq(t, 1, Len(s))
        BY <1>1 DEF IsPrefix
    <2>2. SubSeq(s, 1, Len(s))[1] = s[1] /\ SubSeq(t, 1, Len(s))[1] = t[1]
        BY <2>1
    <2>3. QED
        BY <2>1, <2>2
  <1>2. QED
      BY <1>1 DEF IsPrefix

\* A name of the table is found where it stands, not where a shorter one does.
LEMMA NameIsFound ==
    ASSUME NEW i \in 1 .. 11
    PROVE  ModeOf(Modes[i].name) = i
<1> DEFINE name == Modes[i].name
           hits == {j \in DOMAIN Modes : IsPrefix(Modes[j].name, name)}
<1>1. DOMAIN Modes = 1 .. 11 /\ name # <<>>
  <2>1. name \in Seq(Syllables) /\ Len(name) >= 1
      BY NameIsSeq
  <2>2. name # <<>>
    <3> HIDE DEF name
    <3>1. QED
        BY <2>1, EmptySeq
  <2>3. QED
      BY <2>2, ModesAre
<1>2. i \in hits
    BY <1>1, NameIsSeq, PrefixBegins
<1>3. ASSUME NEW j \in hits PROVE i <= j
  <2>1. j \in 1 .. 11 /\ IsPrefix(Modes[j].name, name)
      BY <1>1
  <2>2. Len(Modes[j].name) <= Len(name) /\ Modes[j].name[1] = name[1]
      BY <2>1, NameIsSeq, PrefixBegins
  <2>3. SUFFICES ASSUME j < i PROVE FALSE
      BY <2>1
  <2>4. j = 4 /\ i = 5
    <3>1. (j = 4 /\ i = 5) \/ (j = 5 /\ i = 4)
        BY <2>1, <2>2, <2>3, FirstSyllable
    <3>2. QED
        BY <2>3, <3>1
  <2>5. QED
      BY <2>2, <2>4, MajorIsShorter
<1>4. hits \subseteq 1 .. 11
    BY <1>1
<1>5. (CHOOSE k \in hits : \A j \in hits : k <= j) = i
  <2> HIDE DEF hits
  <2>1. \A k \in hits : (\A j \in hits : k <= j) => k = i
      BY <1>2, <1>3, <1>4
  <2>2. QED
      BY <1>2, <1>3, <2>1
<1>6. hits # {}
    BY <1>2
<1>7. QED
    BY <1>1, <1>5, <1>6, Zenon DEF ModeOf

\* What a spec stands for is a key.
LEMMA ModeIsOne ==
    ASSUME NEW name, ModeOf(name) # Unknown
    PROVE  ModeOf(name) \in 1 .. 11
<1> DEFINE hits == {j \in DOMAIN Modes : IsPrefix(Modes[j].name, name)}
<1>1. CASE name = <<>>
    BY <1>1 DEF ModeOf, Minor
<1>2. CASE name # <<>>
  <2>1. hits # {} /\ ModeOf(name) = CHOOSE k \in hits : \A j \in hits : k <= j
      BY <1>2 DEF ModeOf
  <2>2. hits \in SUBSET Int /\ hits \subseteq 1 .. 11
      BY ModesAre
  <2> HIDE DEF hits
  <2>3. \E k \in hits : \A j \in hits : k <= j
      BY <2>1, <2>2, LeastIn
  <2>4. ModeOf(name) \in hits
      BY <2>1, <2>3
  <2>5. QED
      BY <2>2, <2>4
<1>3. QED
    BY <1>1, <1>2

LEMMA LettersAre ==
    /\ \A l \in DOMAIN Letters : Letters[l] \in 0 .. 11
    /\ \A a \in DOMAIN Accidentals : Accidentals[a] \in 0 .. 11
    /\ DOMAIN Accidentals = {"#", "b"} /\ DOMAIN Letters = {"a", "b", "c", "d", "e", "f", "g"}
    /\ "c" \in DOMAIN Letters /\ Letters["c"] = 0
    BY DEF Letters, Accidentals

LEMMA InitialKey == Key(<<"c", "min">>) = [root |-> 0, mode |-> Minor]
<1>1. Tail(<<"c", "min">>) = <<"min">> /\ <<"c", "min">>[1] = "c" /\ <<"min">>[1] = "min"
    OBVIOUS
<1>2. "min" \notin DOMAIN Accidentals
    BY LettersAre
<1>3. Accidental(<<"min">>) = 0 /\ Named(<<"min">>) = <<"min">>
    BY <1>1, <1>2 DEF Accidental, Named
<1>4. RootOf(<<"c", "min">>) = 0
    BY <1>1, <1>3, LettersAre DEF RootOf
<1>5. ModeOf(<<"min">>) = Minor
    BY NamesAre, NameIsFound DEF Minor
<1>6. QED
    BY <1>1, <1>3, <1>4, <1>5 DEF Key

LEMMA KeyOfSpec ==
    ASSUME NEW spec, Known(spec)
    PROVE  IsKey(Key(spec))
<1>1. CASE spec = <<"c", "min">>
    BY <1>1, InitialKey, ModesAre DEF IsKey, Minor
<1>2. CASE Good(spec)
  <2>1. ModeOf(Named(Tail(spec))) \in 1 .. 11
      BY <1>2, ModeIsOne DEF Good
  <2>2. Letters[spec[1]] \in 0 .. 11
      BY <1>2, LettersAre DEF Good
  <2>3. Accidental(Tail(spec)) \in 0 .. 11
      BY LettersAre DEF Accidental
  <2>4. RootOf(spec) \in 0 .. 11
      BY <2>2, <2>3 DEF RootOf
  <2>5. QED
      BY <2>1, <2>4, ModesAre DEF Key, IsKey
<1>3. QED
    BY <1>1, <1>2 DEF Known

-----------------------------------------------------------------------------
(* The spelling of a key with an accidental.                                 *)
Signs == {<<"#">>, <<"b">>}
LEMMA SpelledIsRead ==
    ASSUME NEW k \in Grammar(Signs)
    PROVE  LET spec == Spelled(k)
           IN  /\ Good(spec) /\ Key(spec).mode = k.i
               /\ Key(spec).root = (Letters[k.l] + Accidentals[k.x[1]]) % 12
<1> DEFINE spec == Spelled(k)
           name == Modes[k.i].name
<1> SUFFICES /\ Good(spec) /\ Key(spec).mode = k.i
             /\ Key(spec).root = (Letters[k.l] + Accidentals[k.x[1]]) % 12
    OBVIOUS
<1>1. k.l \in DOMAIN Letters /\ k.x \in Signs /\ k.i \in 1 .. 11
    BY ModesAre DEF Grammar
<1>2. name \in Seq(Syllables)
    BY <1>1, NameIsSeq
<1>3. PICK x \in {"#", "b"} : k.x = <<x>>
    BY <1>1 DEF Signs
<1>4. k.l \in Syllables /\ x \in Syllables
    BY <1>1, LettersAre DEF Syllables
<1> HIDE DEF name
<1>5. spec = <<k.l, x>> \o name
    BY <1>3 DEF Spelled, name
<1> HIDE DEF spec
<1>6. spec # <<>> /\ spec[1] = k.l /\ Tail(spec) = <<x>> \o name
    BY <1>2, <1>4, <1>5
<1>7. /\ Tail(spec) # <<>> /\ Tail(spec)[1] = x /\ Tail(Tail(spec)) = name
  <2>1. /\ <<x>> \o name # <<>> /\ (<<x>> \o name)[1] = x /\ Tail(<<x>> \o name) = name
      BY <1>2, <1>4, BehindTheFirst, Zenon
  <2>2. QED
      BY <1>6, <2>1, Zenon
<1>8. x \in DOMAIN Accidentals
    BY LettersAre
<1>9. Named(Tail(spec)) = name /\ Accidental(Tail(spec)) = Accidentals[x]
    BY <1>7, <1>8 DEF Named, Accidental
<1>10. ModeOf(name) = k.i
    BY <1>1, NameIsFound DEF name
<1>11. Good(spec)
    BY <1>1, <1>6, <1>9, <1>10 DEF Good, Unknown
<1>12. k.x[1] = x
    BY <1>3
<1>13. QED
    BY <1>6, <1>9, <1>10, <1>11, <1>12 DEF Key, RootOf

\* So a spelling that is refused is not one, and one that is stored is that key.
LEMMA KeysAreRead ==
    ASSUME NEW spec \in DOMAIN Keys
    PROVE  /\ Good(spec) /\ Key(spec).mode = Keys[spec].i
           /\ Key(spec).root = (Letters[Keys[spec].l] + Accidentals[Keys[spec].x[1]]) % 12
<1>1. PICK k \in Grammar(Signs) : spec = Spelled(k)
    BY DEF Keys, Signs
<1>2. Keys[spec] = CHOOSE c \in Grammar(Signs) : Spelled(c) = spec
    BY DEF Keys, Signs
<1>3. Keys[spec] \in Grammar(Signs) /\ Spelled(Keys[spec]) = spec
    BY <1>1, <1>2
<1>4. QED
    BY <1>3, SpelledIsRead

LEMMA EmptyIsNoKey == <<>> \notin DOMAIN Keys
    BY KeysAreRead DEF Good

-----------------------------------------------------------------------------
(* The intervals of a mode: it begins on its root, and climbs in an octave.  *)
LEMMA IntervalsClimb ==
    ASSUME NEW m \in DOMAIN Modes
    PROVE  /\ Modes[m].iv \in Seq(0 .. 11) /\ Len(Modes[m].iv) \in 5 .. 12 /\ Modes[m].iv[1] = 0
           /\ \A i \in 1 .. Len(Modes[m].iv) - 1 : Modes[m].iv[i] < Modes[m].iv[i + 1]
<1>1. m \in 1 .. 11
    BY ModesAre
<1>2. CASE m = 1
    BY <1>2, ModesAre DEF Mode
<1>3. CASE m = 2
    BY <1>3, ModesAre DEF Mode
<1>4. CASE m = 3
    BY <1>4, ModesAre DEF Mode
<1>5. CASE m = 4
    BY <1>5, ModesAre DEF Mode
<1>6. CASE m = 5
    BY <1>6, ModesAre DEF Mode
<1>7. CASE m = 6
    BY <1>7, ModesAre DEF Mode
<1>8. CASE m = 7
    BY <1>8, ModesAre DEF Mode
<1>9. CASE m = 8
    BY <1>9, ModesAre DEF Mode
<1>10. CASE m = 9
    BY <1>10, ModesAre DEF Mode
<1>11. CASE m = 10
    BY <1>11, ModesAre DEF Mode
<1>12. CASE m = 11
    BY <1>12, ModesAre DEF Mode
<1>13. QED
    BY <1>1, <1>2, <1>3, <1>4, <1>5, <1>6, <1>7, <1>8, <1>9, <1>10, <1>11, <1>12

\* A degree is an octave and a place in the mode.
LEMMA DegreeIs ==
    ASSUME NEW n \in 5 .. 12, NEW d \in 0 .. 9
    PROVE  /\ d % n \in 0 .. n - 1 /\ d \div n \in 0 .. 1
           /\ d < n => d % n = d /\ d \div n = 0
           /\ d >= n => d % n = d - n /\ d \div n = 1
<1>1. d = n * (d \div n) + (d % n) /\ d % n \in 0 .. n - 1 /\ d \div n \in Nat
    OBVIOUS
<1>2. d \div n \in 0 .. 1
    BY <1>1
<1>3. QED
    BY <1>1, <1>2

\* A note in a key is of it, or the top of the range.
LEMMA NoteIsInKey ==
    ASSUME NEW r \in 0 .. 11, NEW m \in DOMAIN Modes, NEW d \in 0 .. 9, NEW o \in 0 .. 8,
           NEW key, key.root = r, key.mode = m
    PROVE  LET note == Pitch(d, o, Len(Modes[m].iv), r, m)
           IN  note = 127 \/ note % 12 \in PitchClasses(key)
<1> DEFINE iv == Modes[m].iv
           n == Len(iv)
           e == d \div n
           i == d % n
           sum == 12 * (o + 1 + e) + r + iv[i + 1]
<1>1. iv \in Seq(0 .. 11) /\ n \in 5 .. 12
    BY IntervalsClimb
<1>2. e \in 0 .. 1 /\ i \in 0 .. n - 1
    BY <1>1, DegreeIs
<1> HIDE DEF e, i
<1>3. i + 1 \in DOMAIN iv /\ iv[i + 1] \in 0 .. 11
    BY <1>1, <1>2
<1>4. Interval(m, i) = iv[i + 1]
    BY <1>1, <1>2 DEF Interval
<1>5. Pitch(d, o, n, r, m) = Clamp(sum)
    BY <1>4 DEF Pitch, Climb, e, i
<1>6. sum % 12 = (r + iv[i + 1]) % 12
  <2> HIDE DEF iv
  <2>0. PICK c : c = iv[i + 1]
      OBVIOUS
  <2>1. PICK a, b : a \in Nat /\ b \in Nat /\ a = o + 1 + e /\ b = r + c
    <3>1. e \in 0 .. 1 /\ c \in 0 .. 11
        BY <1>2, <1>3, <2>0
    <3>2. o + 1 + e \in Nat /\ r + c \in Nat
        BY <3>1
    <3>3. QED
        BY <3>2
  <2>2. (12 * a + b) % 12 = b % 12
      BY <2>1
  <2>3. sum = 12 * a + b
    <3>1. e \in 0 .. 1 /\ c \in 0 .. 11
        BY <1>2, <1>3, <2>0
    <3>2. 12 * (o + 1 + e) + r + c = 12 * (o + 1 + e) + (r + c)
        BY <3>1
    <3>3. QED
        BY <2>0, <2>1, <3>2
  <2>4. QED
      BY <2>0, <2>1, <2>2, <2>3
<1>7. (r + iv[i + 1]) % 12 \in PitchClasses(key)
    BY <1>3 DEF PitchClasses
<1>8. QED
    BY <1>5, <1>6, <1>7 DEF Clamp

\* Each degree is above the one before it.
LEMMA EveryKeyClimbs ==
    ASSUME NEW r \in 0 .. 11, NEW m \in DOMAIN Modes
    PROVE  Climbs([root |-> r, mode |-> m])
<1>1. PICK iv, n : iv = Modes[m].iv /\ n = Len(iv)
    OBVIOUS
<1>2. /\ n \in 5 .. 12 /\ iv[1] = 0
      /\ \A i \in 1 .. n - 1 : iv[i] < iv[i + 1]
      /\ \A i \in 1 .. n : iv[i] \in 0 .. 11
    BY <1>1, IntervalsClimb
<1> DEFINE key == [root |-> r, mode |-> m]
           Place(d) == iv[(d % n) + 1]
           Sum(d, o) == 12 * (o + 1 + (d \div n)) + r + Place(d)
<1>3. \A d \in 0 .. 9 : /\ d % n \in 0 .. n - 1 /\ d \div n \in 0 .. 1 /\ Place(d) \in 0 .. 11
                        /\ d < n => d % n = d /\ d \div n = 0 /\ Place(d) = iv[d + 1]
                        /\ d >= n => d % n = d - n /\ d \div n = 1 /\ Place(d) = iv[d - n + 1]
  <2>1. ASSUME NEW d \in 0 .. 9
        PROVE  /\ d % n \in 0 .. n - 1 /\ d \div n \in 0 .. 1 /\ Place(d) \in 0 .. 11
               /\ d < n => d % n = d /\ d \div n = 0 /\ Place(d) = iv[d + 1]
               /\ d >= n => d % n = d - n /\ d \div n = 1 /\ Place(d) = iv[d - n + 1]
    <3>1. /\ d % n \in 0 .. n - 1 /\ d \div n \in 0 .. 1
          /\ d < n => d % n = d /\ d \div n = 0
          /\ d >= n => d % n = d - n /\ d \div n = 1
        BY <1>2, DegreeIs
    <3>2. (d % n) + 1 \in 1 .. n
        BY <1>2, <3>1
    <3>3. QED
        BY <1>2, <3>1, <3>2
  <2>2. QED
      BY <2>1
<1>4. ASSUME NEW d \in 0 .. 9, NEW o \in 0 .. 8
      PROVE  NoteIn(key, d, o) = Clamp(Sum(d, o)) /\ Sum(d, o) \in Nat
  <2>1. Interval(m, d % n) = Place(d)
    <3>1. PICK i : i = d % n
        OBVIOUS
    <3>2. i < Len(Modes[m].iv)
      <4>1. i \in 0 .. n - 1
          BY <1>2, <3>1, DegreeIs
      <4>2. QED
          BY <1>1, <1>2, <4>1
    <3>3. Interval(m, i) = iv[i + 1]
        BY <1>1, <3>2 DEF Interval
    <3>4. QED
        BY <3>1, <3>3
  <2>2. NoteIn(key, d, o) = Pitch(d, o, n, r, m)
      BY <1>1 DEF NoteIn
  <2>3. Pitch(d, o, n, r, m) = Clamp(Sum(d, o))
      BY <2>1 DEF Pitch, Climb
  <2>4. Sum(d, o) \in Nat
    <3> HIDE DEF Place
    <3>1. QED
        BY <1>3
  <2>5. QED
      BY <2>2, <2>3, <2>4
<1> HIDE DEF Place
<1>5. ASSUME NEW d \in 1 .. 9, NEW o \in 0 .. 8
      PROVE  Sum(d, o) > Sum(d - 1, o)
  <2>1. d \in 0 .. 9 /\ d - 1 \in 0 .. 9
      OBVIOUS
  <2>2. PICK a, b : a = d \div n /\ b = (d - 1) \div n
      OBVIOUS
  <2>3. /\ Place(d) \in 0 .. 11 /\ Place(d - 1) \in 0 .. 11
        /\ (d < n => a = 0 /\ b = 0 /\ Place(d) = iv[d + 1] /\ Place(d - 1) = iv[d])
        /\ (d = n => a = 1 /\ b = 0 /\ Place(d) = iv[1])
        /\ (d > n => a = 1 /\ b = 1 /\ Place(d) = iv[d - n + 1] /\ Place(d - 1) = iv[d - n])
    <3>1. CASE d < n
      <4>1. d - 1 + 1 = d /\ d - 1 < n
          BY <1>2, <3>1
      <4>2. QED
          BY <1>2, <1>3, <2>1, <2>2, <3>1, <4>1
    <3>2. CASE d = n
      <4>1. d - n + 1 = 1 /\ d - 1 < n
          BY <1>2, <3>2
      <4>2. QED
          BY <1>2, <1>3, <2>1, <2>2, <3>2, <4>1
    <3>3. CASE d > n
      <4>1. d - 1 - n + 1 = d - n /\ d - 1 >= n
          BY <1>2, <3>3
      <4>2. QED
          BY <1>2, <1>3, <2>1, <2>2, <3>3, <4>1
    <3>4. QED
        BY <1>2, <3>1, <3>2, <3>3
  <2>4. /\ (d < n => iv[d] < iv[d + 1]) /\ (d > n => iv[d - n] < iv[d - n + 1]) /\ iv[1] = 0
    <3>1. (d < n => d \in 1 .. n - 1) /\ (d > n => d - n \in 1 .. n - 1)
        BY <1>2
    <3>2. QED
        BY <1>2, <3>1
  <2>5. CASE d # n
    <3>1. a = b /\ a \in 0 .. 1 /\ Place(d) > Place(d - 1)
        BY <1>2, <2>3, <2>4, <2>5
    <3>2. QED
        BY <2>2, <2>3, <3>1
  <2>6. CASE d = n
      BY <2>2, <2>3, <2>4, <2>6
  <2>7. QED
      BY <2>5, <2>6
<1> HIDE DEF Sum, key
<1>6. ASSUME NEW o \in 0 .. 8, NEW d \in 1 .. 9
      PROVE  NoteIn(key, d, o) > NoteIn(key, d - 1, o) \/ NoteIn(key, d - 1, o) = 127
  <2>1. d - 1 \in 0 .. 9 /\ d \in 0 .. 9
      OBVIOUS
  <2>2. /\ NoteIn(key, d, o) = Clamp(Sum(d, o)) /\ NoteIn(key, d - 1, o) = Clamp(Sum(d - 1, o))
        /\ Sum(d, o) \in Nat /\ Sum(d - 1, o) \in Nat
      BY <1>4, <2>1
  <2>3. QED
      BY <1>5, <2>2 DEF Clamp
<1>7. QED
    BY <1>6 DEF Climbs, key

-----------------------------------------------------------------------------
LEMMA KeyStarts == KeyInit => KeyInv
<1>1. SUFFICES ASSUME KeyInit PROVE KeyInv
    OBVIOUS
<1>2. KeyTyped
  <2>1. storing = [left |-> storing.left, spec |-> storing.spec] /\ storing.left = {}
      BY <1>1 DEF KeyInit, AllStored
  <2>2. QED
      BY <1>1, <2>1, ModesAre DEF KeyInit, KeyTyped, Minor, Halves
<1>3. StoredInv
  <2>1. storing.left = {}
      BY <1>1 DEF KeyInit, AllStored
  <2>2. QED
      BY <1>1, <2>1, InitialKey DEF KeyInit, StoredInv, Known
<1>4. NoteInv /\ InTheKeyShown
    BY <1>1 DEF KeyInit, NoteInv, InTheKeyShown, Silence
<1>5. QED
    BY <1>1, <1>2, <1>3, <1>4, EmptyIsNoKey DEF KeyInit, KeyInv

\* A reading under way is not quiet.
LEMMA ReadingIsNotQuiet ==
    ASSUME NEW r \in Readings
    PROVE  r # Quiet /\ r.at # "quiet"
<1>1. r.at \in {"counted", "rooted"}
    BY DEF Readings
<1>2. Quiet.at = "quiet"
    BY DEF Quiet
<1>3. QED
    BY <1>1, <1>2

LEMMA KeyStep == KeyInv /\ [KeyNext]_keyVars => KeyInv'
<1>1. SUFFICES ASSUME KeyInv, [KeyNext]_keyVars PROVE KeyInv'
    OBVIOUS
<1>2. /\ KeyTyped /\ StoredInv /\ NoteInv /\ InTheKeyShown /\ refused \notin DOMAIN Keys
    BY <1>1 DEF KeyInv
<1>3. ASSUME NEW spec \in Specs, Ask(spec) PROVE KeyInv'
  <2>1. /\ storing.left = {} /\ root' = root /\ UNCHANGED <<mode, shown, reading, heard, crossed>>
      BY <1>3 DEF Ask, StoreFirst
  <2>2. CASE Good(spec)
    <3>1. storing' = [left |-> Halves, spec |-> spec] /\ refused' = <<>>
        BY <1>3, <2>2 DEF Ask, Halves
    <3>2. storing'.left = Halves /\ storing'.spec = spec
        BY <3>1
    <3>3. KeyTyped'
        BY <1>2, <2>1, <3>1, <3>2 DEF KeyTyped
    <3>4. StoredInv'
        BY <1>2, <2>1, <2>2, <3>2 DEF StoredInv, Stays, Halves
    <3>5. NoteInv' /\ InTheKeyShown'
        BY <1>2, <2>1, <3>2 DEF NoteInv, Stays, InTheKeyShown
    <3>6. QED
        BY <3>1, <3>3, <3>4, <3>5, EmptyIsNoKey DEF KeyInv
  <2>3. CASE ~Good(spec)
    <3>1. storing' = AllStored /\ refused' = spec
        BY <1>3, <2>3 DEF Ask
    <3>2. storing'.left = {} /\ storing' = [left |-> storing'.left, spec |-> storing'.spec]
        BY <3>1 DEF AllStored
    <3>3. KeyTyped'
        BY <1>2, <2>1, <3>2 DEF KeyTyped
    <3>4. StoredInv'
        BY <1>2, <2>1, <3>2 DEF StoredInv, Stays
    <3>5. NoteInv' /\ InTheKeyShown'
        BY <1>2, <2>1, <3>2 DEF NoteInv, Stays, InTheKeyShown
    <3>6. refused' \notin DOMAIN Keys
        BY <2>3, <3>1, KeysAreRead
    <3>7. QED
        BY <3>3, <3>4, <3>5, <3>6 DEF KeyInv
  <2>4. QED
      BY <2>2, <2>3
<1>4. ASSUME NEW what \in Halves, Store(what) PROVE KeyInv'
  <2>1. /\ what \in storing.left /\ storing' = [storing EXCEPT !.left = storing.left \ {what}]
        /\ root' = IF what = "root" THEN Key(storing.spec).root ELSE root
        /\ mode' = IF what = "mode" THEN Key(storing.spec).mode ELSE mode
        /\ shown' = IF storing'.left = {} THEN storing.spec ELSE shown
        /\ crossed' = (crossed \/ reading # Quiet)
        /\ UNCHANGED <<reading, heard, refused>>
      BY <1>4 DEF Store
  <2>2. /\ storing'.left = storing.left \ {what} /\ storing'.spec = storing.spec
        /\ storing' = [left |-> storing'.left, spec |-> storing'.spec]
    <3>1. storing = [left |-> storing.left, spec |-> storing.spec]
        BY <1>2 DEF KeyTyped
    <3>2. PICK l, c : l = storing.left \ {what} /\ c = storing.spec
        OBVIOUS
    <3>3. storing' = [left |-> l, spec |-> c]
        BY <2>1, <3>1, <3>2
    <3>4. QED
        BY <3>2, <3>3
  <2>3. Good(storing.spec) /\ storing.left \subseteq Halves
      BY <1>2, <2>1 DEF StoredInv, KeyTyped
  <2>4. IsKey(Key(storing.spec))
      BY <2>3, KeyOfSpec DEF Known
  <2>5. KeyTyped'
    <3>1. root' \in 0 .. 11 /\ mode' \in DOMAIN Modes
        BY <1>2, <2>1, <2>4 DEF KeyTyped, IsKey
    <3>2. QED
        BY <1>2, <2>1, <2>2, <2>3, <3>1 DEF KeyTyped
  <2>6. StoredInv'
    <3>1. Known(shown)'
        BY <1>2, <2>1, <2>3 DEF StoredInv, Known
    <3>2. storing'.left # Halves
        BY <1>4, <2>2
    <3>3. CASE storing'.left = {}
      <4>1. storing.left = {what} /\ shown' = storing.spec
          BY <2>1, <2>2, <3>3
      <4>2. root' = Key(storing.spec).root /\ mode' = Key(storing.spec).mode
        <5>1. CASE what = "root"
            BY <1>2, <2>1, <4>1, <5>1 DEF StoredInv
        <5>2. CASE what = "mode"
            BY <1>2, <2>1, <4>1, <5>2 DEF StoredInv
        <5>3. QED
            BY <1>4, <5>1, <5>2 DEF Halves
      <4>3. QED
          BY <3>1, <3>3, <4>1, <4>2 DEF StoredInv
    <3>4. CASE storing'.left # {}
      <4>1. "root" \notin storing'.left => root' = Key(storing'.spec).root
          BY <1>2, <2>1, <2>2, <2>3, <3>4 DEF StoredInv
      <4>2. "mode" \notin storing'.left => mode' = Key(storing'.spec).mode
          BY <1>2, <2>1, <2>2, <2>3, <3>4 DEF StoredInv
      <4>3. Good(storing'.spec)
          BY <2>2, <2>3
      <4>4. QED
          BY <3>1, <3>2, <3>4, <4>1, <4>2, <4>3 DEF StoredInv, Stays
    <3>5. QED
        BY <3>3, <3>4
  <2>7. NoteInv' /\ InTheKeyShown'
      BY <1>2, <2>1 DEF NoteInv, InTheKeyShown
  <2>8. QED
      BY <1>2, <2>1, <2>5, <2>6, <2>7 DEF KeyInv
<1>5. ASSUME NEW deg \in Degrees, NEW octave \in Octaves, BeginNote(deg, octave) PROVE KeyInv'
  <2>1. /\ crossed' = (storing.left # {}) /\ UNCHANGED <<root, mode, shown, storing, refused>>
        /\ reading' = [at |-> "counted", deg |-> deg, octave |-> octave,
                       n |-> Len(Modes[mode].iv), mode |-> mode, root |-> 0]
      BY <1>5 DEF BeginNote
  <2>2. mode \in DOMAIN Modes /\ Len(Modes[mode].iv) \in Nat
      BY <1>2, IntervalsClimb DEF KeyTyped
  <2>3. reading' \in Readings /\ reading'.at = "counted" /\ reading'.mode = mode
        /\ reading'.n = Len(Modes[mode].iv)
    <3>1. PICK z, c, n : z = 0 /\ c = "counted" /\ n = Len(Modes[mode].iv)
        OBVIOUS
    <3>2. reading' = [at |-> c, deg |-> deg, octave |-> octave, n |-> n, mode |-> mode, root |-> z]
        BY <2>1, <3>1
    <3>3. z \in 0 .. 11 /\ c \in {"counted", "rooted"} /\ n \in Nat
        BY <2>2, <3>1
    <3>4. reading' \in Readings /\ reading'.at = c /\ reading'.mode = mode /\ reading'.n = n
        BY <2>2, <3>2, <3>3 DEF Readings
    <3>5. QED
        BY <3>1, <3>4
  <2>4. reading' # Quiet
      BY <2>3, ReadingIsNotQuiet
  <2>5. KeyTyped'
      BY <1>2, <2>1, <2>3 DEF KeyTyped
  <2>6. StoredInv'
      BY <1>2, <2>1 DEF StoredInv, Stays
  <2>7. NoteInv' /\ InTheKeyShown'
      BY <2>1, <2>3, <2>4 DEF NoteInv, InTheKeyShown, Stays
  <2>8. QED
      BY <1>2, <2>1, <2>5, <2>6, <2>7 DEF KeyInv
<1>6. CASE ReadRoot
  <2>1. /\ reading.at = "counted" /\ UNCHANGED <<root, mode, shown, storing, heard, refused, crossed>>
        /\ reading' = [reading EXCEPT !.at = "rooted", !.root = root]
      BY <1>6 DEF ReadRoot
  <2>2. reading \in Readings
      BY <1>2, <2>1 DEF KeyTyped, Quiet
  <2>3. /\ reading' \in Readings /\ reading'.mode = reading.mode /\ reading'.n = reading.n
        /\ reading'.root = root
    <3>1. PICK c : c = "rooted"
        OBVIOUS
    <3>2. reading' = [reading EXCEPT !.at = c, !.root = root] /\ c \in {"counted", "rooted"}
        BY <2>1, <3>1
    <3>3. root \in 0 .. 11
        BY <1>2 DEF KeyTyped
    <3>4. QED
        BY <2>2, <3>2, <3>3 DEF Readings
  <2>4. reading # Quiet /\ reading' # Quiet
      BY <2>2, <2>3, ReadingIsNotQuiet
  <2>5. KeyTyped'
      BY <1>2, <2>1, <2>3 DEF KeyTyped
  <2>6. StoredInv'
      BY <1>2, <2>1 DEF StoredInv, Stays
  <2>7. NoteInv' /\ InTheKeyShown'
      BY <1>2, <2>1, <2>3, <2>4 DEF NoteInv, InTheKeyShown, Stays
  <2>8. QED
      BY <1>2, <2>1, <2>5, <2>6, <2>7 DEF KeyInv
<1>7. CASE Sound
  <2>1. /\ reading.at = "rooted" /\ reading' = Quiet
        /\ UNCHANGED <<root, mode, shown, storing, refused, crossed>>
      BY <1>7 DEF Sound
  <2>2. PICK m \in {reading.mode, mode} :
            heard' = [note |-> Pitch(reading.deg, reading.octave, reading.n, reading.root, m),
                      key |-> Key(shown)]
      BY <1>7 DEF Sound
  <2>3. reading \in Readings /\ reading # Quiet
      BY <1>2, <2>1, ReadingIsNotQuiet DEF KeyTyped, Quiet
  <2>4. KeyTyped'
      BY <1>2, <2>1 DEF KeyTyped
  <2>5. StoredInv'
      BY <1>2, <2>1 DEF StoredInv, Stays
  <2>6. ASSUME ~crossed
        PROVE  heard'.note = 127 \/ heard'.note % 12 \in PitchClasses(heard'.key)
    <3>1. /\ m = mode /\ reading.n = Len(Modes[mode].iv) /\ reading.root = root /\ Stays
        BY <1>2, <2>1, <2>2, <2>3, <2>6 DEF NoteInv
    <3>2. Key(shown).root = root /\ Key(shown).mode = mode
        BY <1>2, <3>1 DEF StoredInv
    <3>3. /\ heard'.note = Pitch(reading.deg, reading.octave, Len(Modes[mode].iv), root, mode)
          /\ heard'.key = Key(shown)
        BY <2>2, <3>1
    <3>4. reading.deg \in 0 .. 9 /\ reading.octave \in 0 .. 8 /\ root \in 0 .. 11 /\ mode \in DOMAIN Modes
        BY <1>2, <2>3, KeyAssumption DEF Readings, KeyTyped
    <3>5. QED
        BY <3>2, <3>3, <3>4, NoteIsInKey
  <2>7. NoteInv' /\ InTheKeyShown'
      BY <2>1, <2>6 DEF NoteInv, InTheKeyShown
  <2>8. QED
      BY <1>2, <2>1, <2>4, <2>5, <2>7 DEF KeyInv
<1>8. CASE UNCHANGED keyVars
    BY <1>2, <1>8 DEF keyVars, KeyInv, KeyTyped, StoredInv, Stays, NoteInv, InTheKeyShown
<1>9. QED
    BY <1>1, <1>3, <1>4, <1>5, <1>6, <1>7, <1>8 DEF KeyNext, Halves

LEMMA KeyInvImplies == KeyInv => InTheKeyShown /\ KeyIsAsRead
<1>1. SUFFICES ASSUME KeyInv PROVE InTheKeyShown /\ KeyIsAsRead
    OBVIOUS
<1>2. root \in 0 .. 11 /\ mode \in DOMAIN Modes /\ StoredInv /\ refused \notin DOMAIN Keys
    BY <1>1 DEF KeyInv, KeyTyped
<1>3. DegreesClimb
  <2>1. PICK key : key = [root |-> root, mode |-> mode]
      OBVIOUS
  <2>2. key \in [root : 0 .. 11, mode : DOMAIN Modes] /\ Climbs(key)
      BY <1>2, <2>1, EveryKeyClimbs
  <2>3. QED
      BY <2>1, <2>2 DEF DegreesClimb, Climbing
<1>4. ASSUME storing.left = {}, shown \in DOMAIN Keys
      PROVE  /\ mode = Keys[shown].i
             /\ root = (Letters[Keys[shown].l] + Accidentals[Keys[shown].x[1]]) % 12
  <2>1. root = Key(shown).root /\ mode = Key(shown).mode
      BY <1>2, <1>4 DEF StoredInv, Stays
  <2>2. QED
      BY <1>4, <2>1, KeysAreRead
<1>5. KeyAsAsked
    BY <1>2, <1>4 DEF KeyAsAsked
<1>6. QED
    BY <1>1, <1>3, <1>5 DEF KeyInv, KeyIsAsRead

(* 'A wrong note is not expressible', whatever keys are asked for, degrees   *)
(* and octaves played: a note worked out while nothing of the key was stored *)
(* is of the key the screen shows (degree_note, seq_scale).                  *)
THEOREM NotesAreInTheKey == KeySpec => []InTheKeyShown
<1>1. KeyInit => KeyInv
    BY KeyStarts
<1>2. KeyInv /\ [KeyNext]_keyVars => KeyInv'
    BY KeyStep
<1>3. KeyInv => InTheKeyShown
    BY KeyInvImplies
<1>4. QED
    BY <1>1, <1>2, <1>3, PTL DEF KeySpec

(* A key with an accidental is never refused and once stored is that root    *)
(* and that mode, and in any key the degrees climb (seq_scale, degree_note). *)
THEOREM KeysAreAsWritten == KeySpec => []KeyIsAsRead
<1>1. KeyInit => KeyInv
    BY KeyStarts
<1>2. KeyInv /\ [KeyNext]_keyVars => KeyInv'
    BY KeyStep
<1>3. KeyInv => KeyIsAsRead
    BY KeyInvImplies
<1>4. QED
    BY <1>1, <1>2, <1>3, PTL DEF KeySpec
=============================================================================
