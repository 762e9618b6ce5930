------------------------------ MODULE Journal ------------------------------
(***************************************************************************)
(* The snapshot journal (firmware/components/docstore/journal.c): whole    *)
(* documents appended as CRC-checked, sector-aligned records in a raw      *)
(* flash partition, a RAM table of which sectors hold live records, and    *)
(* the scan that rebuilds that table at boot.                              *)
(*                                                                         *)
(* Every flash operation the code issues is a step: a sector erased, a     *)
(* sector's worth of payload written, the header written last.  Power may  *)
(* be cut between any two steps, in the middle of a sector erase and in    *)
(* the middle of the header, and any flash call may report an error.       *)
(*                                                                         *)
(* A text is a member of Texts; all that is kept of it is how many sectors *)
(* carry its bytes (Chunks).  A sector keeps the header at its start, if   *)
(* any, and the chunk of payload in it.                                    *)
(***************************************************************************)
EXTENDS Integers, FiniteSets

CONSTANTS
    Names,        \* names a document can be saved under
    Scratch,      \* the empty name, the scratch document
    Garbled,      \* the name a header cut short inside its name field reads as
    Texts,        \* document contents
    Chunks,       \* [Texts -> Nat]: sectors holding payload; 0 is the empty text
    NSectors,     \* s_nsectors
    MaxNames,     \* JOURNAL_MAX_NAMES, the size of s_live and of best[]
    MaxSeq,       \* bound: no save is begun at this sequence number
    None

AllNames == Names \cup {Garbled}
Sectors  == 0 .. NSectors - 1

ASSUME ScratchIsAName  == Scratch \in Names
ASSUME GarbledIsNoName == Garbled \notin Names
ASSUME NamesFinite     == IsFiniteSet(Names)
ASSUME SizesAssumption ==
    /\ Chunks \in [Texts -> Nat]
    /\ NSectors \in Nat \ {0}
    /\ MaxNames \in Nat \ {0}
    /\ MaxSeq \in Nat
VARIABLES
    flash,    \* the partition: [Sectors -> [hdr, pay]]
    used,     \* s_used: the sectors marked as holding a live record
    live,     \* s_live: [AllNames -> extent or None]
    seq,      \* s_seq: the newest sequence number known
    pc,       \* what the machine is doing
    job,      \* the record doc_save() is writing, or None
    k,        \* progress within the current phase of the save
    off,      \* the scan's offset, in sectors
    best      \* journal_scan()'s best[]: [AllNames -> found record or None]

ramVars == <<used, live, seq, job, k, off, best>>
vars == <<flash, used, live, seq, pc, job, k, off, best>>

NoHdr == [name |-> Garbled, seq |-> 0, text |-> None, crc |-> FALSE]
Blank == [text |-> None, at |-> 0]

Headers == [name : AllNames, seq : Nat, text : Texts, crc : BOOLEAN]
Payload == [text : Texts, at : Nat] \cup {Blank}
Erased  == [hdr |-> NoHdr, pay |-> Blank]
Jobs    == [name : Names, text : Texts, start : Sectors]
Extents == [off : Sectors, sectors : Nat]
Found   == [off : Sectors, seq : Nat, first : Sectors]
Saves   == [name : Names, text : Texts, filed : BOOLEAN]

ASSUME NoneIsNothing ==
    /\ None \notin Texts /\ None \notin Jobs /\ None \notin Extents
    /\ None \notin Found /\ None \notin Saves

Nothing == [n \in AllNames |-> None]

\* rec_total(): a record is a whole number of sectors, and at least one.
RecSectors(t) == IF Chunks[t] = 0 THEN 1 ELSE Chunks[t]

Extent(s, t) == s .. s + RecSectors(t) - 1

\* read_hdr(): there is a header of a known version at this sector.
HasHdr(s) == flash[s].hdr # NoHdr

\* There is a record at s that ends inside the partition, and its payload has
\* the header's CRC.
Fits(s)  == HasHdr(s) /\ s + RecSectors(flash[s].hdr.text) <= NSectors
Whole(s) ==
    /\ Fits(s)
    /\ flash[s].hdr.crc
    /\ \A i \in 0 .. Chunks[flash[s].hdr.text] - 1 :
           flash[s + i].pay = [text |-> flash[s].hdr.text, at |-> i]

\* find_free_run(): p is the first sector of the first run of w free ones.
FreeRun(p, w) == p + w <= NSectors /\ \A i \in p .. p + w - 1 : i \notin used
WrappingRun(p, w) == p + w <= NSectors               \* mutant: the old cursor
AnyFreeRun(p, w)  == FreeRun(p, w)                   \* mutant: not the first
FindFreeRun(p, w) == FreeRun(p, w) /\ \A q \in 0 .. p - 1 : ~FreeRun(q, w)

Claimed == {n \in AllNames : live[n] # None}
Covers(e) == e.off .. e.off + e.sectors - 1

\* Mutants of LiveClaim: a sector too many; the old version never released;
\* sectors marked that the full table cannot track.
LiveClaimOneMore(n, s, w) ==
    /\ live' = [live EXCEPT ![n] = [off |-> s, sectors |-> w]]
    /\ used' = used \cup (s .. s + w)
LiveClaimKeeps(n, s, w) ==
    /\ live' = [live EXCEPT ![n] = [off |-> s, sectors |-> w]]
    /\ used' = used \cup (s .. s + w - 1)
LiveClaimUntracked(n, s, w) ==
    /\ live' = IF Cardinality(Claimed) < MaxNames
               THEN [live EXCEPT ![n] = [off |-> s, sectors |-> w]]
               ELSE live
    /\ used' = used \cup (s .. s + w - 1)

\* live_claim(): the new record is tracked, and only then are the sectors of
\* the name's previous one released.  With no slot left the record is not
\* tracked at all.
LiveClaim(n, s, w) ==
    LET old  == IF live[n] = None THEN {} ELSE Covers(live[n])
        room == live[n] # None \/ Cardinality(Claimed) < MaxNames
    IN  IF room
        THEN /\ live' = [live EXCEPT ![n] = [off |-> s, sectors |-> w]]
             /\ used' = (used \ old) \cup (s .. s + w - 1)
        ELSE UNCHANGED <<live, used>>

-----------------------------------------------------------------------------
Init ==
    /\ flash = [s \in Sectors |-> Erased]
    /\ used = {} /\ live = Nothing /\ seq = 0
    /\ pc = "off" /\ job = None /\ k = 0
    /\ off = 0 /\ best = Nothing

(***************************************************************************)
(* doc_init() and journal_scan(): one step per record walked, then one per *)
(* name claimed, in the order the names were first met.                    *)
(***************************************************************************)
PowerOn ==
    /\ pc = "off"
    /\ pc' = "scan"
    /\ UNCHANGED <<flash, ramVars>>

\* No header here, or one whose record runs off the end: on to the next sector.
ScanSkip ==
    /\ pc = "scan" /\ off < NSectors
    /\ ~Fits(off)
    /\ off' = off + 1
    /\ UNCHANGED <<flash, used, live, seq, pc, job, k, best>>

\* A record that fails its CRC is stepped over whole.
ScanBad ==
    /\ pc = "scan" /\ off < NSectors
    /\ Fits(off) /\ ~Whole(off)
    /\ off' = off + RecSectors(flash[off].hdr.text)
    /\ UNCHANGED <<flash, used, live, seq, pc, job, k, best>>

Tracked == {n \in AllNames : best[n] # None}

\* s_seq follows the newest number met, whoever's it is; best[] keeps the
\* newest record of the name, the later one of two with the same number.
SeqNotRestored(h) == seq                             \* mutant
SeqAfter(h) == IF h.seq >= seq THEN h.seq ELSE seq

LastByPlace(h, b) == TRUE                            \* mutant
Supersedes(h, b) == h.seq >= b.seq

\* A good record: the newest of its name is remembered.
ScanGood ==
    /\ pc = "scan" /\ off < NSectors
    /\ Whole(off)
    /\ LET h == flash[off].hdr
           b == best[h.name]
       IN  /\ b # None \/ Cardinality(Tracked) < MaxNames
           /\ best' = IF b = None
                      THEN [best EXCEPT ![h.name] = [off |-> off, seq |-> h.seq,
                                                     first |-> off]]
                      ELSE IF Supersedes(h, b)
                      THEN [best EXCEPT ![h.name].off = off, ![h.name].seq = h.seq]
                      ELSE best
           /\ seq' = SeqAfter(h)
           /\ off' = off + RecSectors(h.text)
    /\ UNCHANGED <<flash, used, live, pc, job, k>>

\* A good record of a name there is no room to remember: its sectors are held
\* under the scratch name as a placeholder.
ScanHold ==
    /\ pc = "scan" /\ off < NSectors
    /\ Whole(off)
    /\ LET h == flash[off].hdr
       IN  /\ best[h.name] = None /\ Cardinality(Tracked) >= MaxNames
           /\ LiveClaim(Scratch, off, RecSectors(h.text))
           /\ seq' = SeqAfter(h)
           /\ off' = off + RecSectors(h.text)
    /\ UNCHANGED <<flash, pc, job, k, best>>

ScanEnd ==
    /\ pc = "scan" /\ off >= NSectors
    /\ pc' = "claim"
    /\ UNCHANGED <<flash, ramVars>>

ClaimBest(n) ==
    /\ pc = "claim" /\ best[n] # None
    /\ \A m \in Tracked : best[n].first <= best[m].first
    /\ LiveClaim(n, best[n].off, RecSectors(flash[best[n].off].hdr.text))
    /\ best' = [best EXCEPT ![n] = None]
    /\ UNCHANGED <<flash, seq, pc, job, k, off>>

BootDone ==
    /\ pc = "claim" /\ best = Nothing
    /\ pc' = "idle" /\ off' = 0
    /\ UNCHANGED <<flash, used, live, seq, job, k, best>>

(***************************************************************************)
(* doc_save() of the text t under the name n.                              *)
(***************************************************************************)
SaveBegin(n, t) ==
    /\ pc = "idle" /\ seq < MaxSeq
    /\ \E p \in Sectors :
          /\ FindFreeRun(p, RecSectors(t))
          /\ job' = [name |-> n, text |-> t, start |-> p]
    /\ pc' = "erase" /\ k' = 0
    /\ UNCHANGED <<flash, used, live, seq, off, best>>

EraseSector ==
    /\ pc = "erase"
    /\ flash' = [flash EXCEPT ![job.start + k] = Erased]
    /\ IF k + 1 < RecSectors(job.text)
       THEN k' = k + 1 /\ UNCHANGED pc
       ELSE k' = 0 /\ pc' = IF Chunks[job.text] > 0 THEN "payload" ELSE "header"
    /\ UNCHANGED <<used, live, seq, job, off, best>>

WriteChunk ==
    /\ pc = "payload"
    /\ flash' = [flash EXCEPT ![job.start + k].pay = [text |-> job.text, at |-> k]]
    /\ IF k + 1 < Chunks[job.text]
       THEN k' = k + 1 /\ UNCHANGED pc
       ELSE k' = 0 /\ pc' = "header"
    /\ UNCHANGED <<used, live, seq, job, off, best>>

JobHdr == [name |-> job.name, seq |-> seq + 1, text |-> job.text, crc |-> TRUE]

WriteHeader ==
    /\ pc = "header"
    /\ flash' = [flash EXCEPT ![job.start].hdr = JobHdr]
    /\ pc' = "claimnew"
    /\ UNCHANGED ramVars

SaveDone ==
    /\ pc = "claimnew"
    /\ seq' = seq + 1
    /\ LiveClaim(job.name, job.start, RecSectors(job.text))
    /\ pc' = "idle" /\ job' = None
    /\ UNCHANGED <<flash, k, off, best>>

(***************************************************************************)
(* What goes wrong: power is cut, or a flash call reports an error and     *)
(* doc_save() returns it.                                                  *)
(***************************************************************************)
Writing == {"erase", "payload", "header"}

\* Where the machine can be left, RAM and all.
LosePower ==
    /\ used' = {} /\ live' = Nothing /\ seq' = 0
    /\ pc' = "off" /\ job' = None /\ k' = 0
    /\ off' = 0 /\ best' = Nothing

ReturnError ==
    /\ pc' = "idle" /\ job' = None /\ k' = 0
    /\ UNCHANGED <<used, live, seq, off, best>>

PowerCut  == pc # "off" /\ LosePower /\ UNCHANGED flash
SaveError == pc \in Writing /\ ReturnError /\ UNCHANGED flash

\* A sector erase cut short can leave the header and lose the payload.
TornErase ==
    /\ pc = "erase"
    /\ flash' = [flash EXCEPT ![job.start + k].pay = Blank]
    /\ LosePower \/ ReturnError

\* A header cut short: after its length, before its CRC; or after its CRC,
\* inside its name.
TornHeader ==
    /\ pc = "header"
    /\ \E h \in {[JobHdr EXCEPT !.crc = FALSE], [JobHdr EXCEPT !.name = Garbled]} :
           flash' = [flash EXCEPT ![job.start].hdr = h]
    /\ LosePower \/ ReturnError

-----------------------------------------------------------------------------
Boot == \/ PowerOn \/ ScanSkip \/ ScanBad \/ ScanGood \/ ScanHold \/ ScanEnd
        \/ \E n \in AllNames : ClaimBest(n)
        \/ BootDone

Save == \/ \E n \in Names, t \in Texts : SaveBegin(n, t)
        \/ EraseSector \/ WriteChunk \/ WriteHeader \/ SaveDone

Fault == PowerCut \/ SaveError \/ TornErase \/ TornHeader

Next == Boot \/ Save \/ Fault

Spec == Init /\ [][Next]_vars

-----------------------------------------------------------------------------
(***************************************************************************)
(* What makes it correct.                                                  *)
(***************************************************************************)

\* The types of everything the journal keeps; in particular no sector outside
\* the partition is ever marked or allocated.
TypeOK ==
    /\ flash \in [Sectors -> [hdr : Headers \cup {NoHdr}, pay : Payload]]
    /\ used \subseteq Sectors
    /\ live \in [AllNames -> Extents \cup {None}]
    /\ seq \in Nat
    /\ pc \in {"off", "scan", "claim", "idle", "claimnew"} \cup Writing
    /\ job \in Jobs \cup {None}
    /\ k \in Nat
    /\ off \in Nat
    /\ best \in [AllNames -> Found \cup {None}]

RecordsOf(n) == {s \in Sectors : Whole(s) /\ flash[s].hdr.name = n}

\* What a reader of the partition means by the document n: the whole record of
\* that name with the highest sequence number.
Newest(n, s) ==
    /\ s \in RecordsOf(n)
    /\ \A r \in RecordsOf(n) : flash[r].hdr.seq <= flash[s].hdr.seq

Running == {"idle", "claimnew"} \cup Writing

\* The conclusion of journal.c:85-90: whenever
\* the journal may allocate, the sectors of every document's newest record are
\* the ones the table holds for that name, and no save is writing over them.
Protected ==
    pc \in Running \ {"claimnew"} =>
        \A n \in AllNames, s \in Sectors : Newest(n, s) /\ n # Garbled =>
            /\ live[n] = [off |-> s, sectors |-> RecSectors(flash[s].hdr.text)]
            /\ Covers(live[n]) \subseteq used
            /\ job # None =>
                   Covers(live[n]) \cap Extent(job.start, job.text) = {}

\* The boot walk steps over a record by its length (journal.c:321, 360), so a
\* record that began inside the length of another one, stale or torn, would
\* never be seen again.  None ever does.
WalkReachesAll ==
    \A s, r \in Sectors :
        HasHdr(s) /\ HasHdr(r) /\ s < r => r \notin Extent(s, flash[s].hdr.text)

\* A sequence number is never given to two records of the same document, and
\* the next one is newer than all of them, through every reboot and error
\* (journal.c:357, 474, 498).
SeqFresh ==
    /\ \A s, r \in Sectors :
           /\ Whole(s) /\ Whole(r) /\ flash[s].hdr.name # Garbled
           /\ flash[s].hdr.name = flash[r].hdr.name
           /\ flash[s].hdr.seq = flash[r].hdr.seq
           => s = r
    /\ pc \in {"idle"} \cup Writing =>
           \A s \in Sectors : Whole(s) /\ flash[s].hdr.name # Garbled =>
               flash[s].hdr.seq <= seq

\* Outside the boot, the table is exact: what it tracks are whole records on
\* flash, no two share a sector, and the used sectors are theirs.
LiveExact ==
    pc \in Running =>
        /\ \A n \in Claimed : Whole(live[n].off)
        /\ \A n, m \in Claimed : n # m => Covers(live[n]) \cap Covers(live[m]) = {}
        /\ used = UNION {Covers(live[n]) : n \in Claimed}

\* "Nothing that is still reachable is ever erased" (journal.c:90): the newest
\* record of a document is whole until there is a newer one.
NothingReachableErased ==
    [][\A n \in Names, s \in Sectors : Newest(n, s) => s \in RecordsOf(n)']_vars

(***************************************************************************)
(* The promise: Archive.  A document is what its newest whole record says; *)
(* a save takes effect when its header is down.                            *)
(***************************************************************************)
ArchivedText(n) ==
    IF \E s \in Sectors : Newest(n, s)
    THEN flash[CHOOSE s \in Sectors : Newest(n, s)].hdr.text
    ELSE None

Saving ==
    IF pc \in Writing \cup {"claimnew"}
    THEN [name |-> job.name, text |-> job.text, filed |-> pc = "claimnew"]
    ELSE None

Arch == INSTANCE Archive WITH archive <- [n \in Names |-> ArchivedText(n)],
                              saving <- Saving

\* doc_save() replaces the whole document or leaves it as it was, whatever is
\* cut or fails, and a boot finds what was last saved (docstore.h:4-7).
ImplementsArchive == Arch!Spec
=============================================================================
