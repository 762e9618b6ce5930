--------------------------- MODULE JournalProofs ---------------------------
(***************************************************************************)
(* Theorems about Journal, for every partition size, every set of names    *)
(* and texts and every history of saves, faults and reboots.               *)
(*                                                                         *)
(* LayoutInv is inductive and needs nothing of the constants.  NewestInv   *)
(* is inductive on top of it when the table has room for every name the    *)
(* partition can hold (Room), the condition journal.c:103-112 sizes it by. *)
(***************************************************************************)
EXTENDS Journal, TLAPS, FiniteSetTheorems

(***************************************************************************)
(* The inductive invariant.                                                *)
(***************************************************************************)

Busy == Writing \cup {"claimnew"}

\* Bytes of the job already on flash.
PayloadDown(i) == flash[job.start + i].pay = [text |-> job.text, at |-> i]

\* The save in flight has its run of sectors to itself: none is used, and no
\* record that starts below them reaches into them.
JobApart ==
    /\ Extent(job.start, job.text) \subseteq Sectors \ used
    /\ \A s \in Sectors : s < job.start /\ HasHdr(s) =>
           s + RecSectors(flash[s].hdr.text) <= job.start

\* How far it has come: erased from the front, then written from the front,
\* then headed.
JobProgress ==
    /\ pc = "erase" =>
          /\ k < RecSectors(job.text)
          /\ \A s \in Sectors : job.start <= s /\ s < job.start + k => ~HasHdr(s)
    /\ pc \in {"payload", "header"} =>
          \A s \in Extent(job.start, job.text) : ~HasHdr(s)
    /\ pc = "payload" =>
          /\ k < Chunks[job.text]
          /\ \A i \in 0 .. k - 1 : PayloadDown(i)
    /\ pc \in {"header", "claimnew"} =>
          \A i \in 0 .. Chunks[job.text] - 1 : PayloadDown(i)
    /\ pc = "claimnew" => flash[job.start].hdr = JobHdr

JobInv == /\ pc \in Busy <=> job # None
          /\ job # None => JobApart /\ JobProgress

\* The table tracks whole records, each once, and marks their sectors.
LiveInv ==
    /\ \A n \in Claimed, s \in Sectors : live[n].off = s =>
           Whole(s) /\ live[n].sectors = RecSectors(flash[s].hdr.text)
    /\ \A n, m \in Claimed : n # m => live[n].off # live[m].off
    /\ \A x \in Sectors : x \in used <=> \E n \in Claimed : x \in Covers(live[n])

\* What the boot has found is whole, is of that name, and is not claimed yet.
BootInv ==
    /\ pc \notin {"scan", "claim"} => best = Nothing
    /\ pc = "off" => used = {} /\ live = Nothing /\ off = 0 /\ seq = 0
    /\ \A n \in Tracked, s \in Sectors : best[n].off = s =>
           Whole(s) /\ flash[s].hdr.name = n /\ flash[s].hdr.seq = best[n].seq
    /\ pc = "scan" => \A n \in Tracked : best[n].off < off
    /\ \A n \in Tracked, m \in Claimed : live[m].off # best[n].off
    /\ pc = "scan" => \A m \in Claimed : live[m].off < off

LayoutInv == TypeOK /\ WalkReachesAll /\ JobInv /\ LiveInv /\ BootInv

-----------------------------------------------------------------------------
(***************************************************************************)
(* Lemmas about records and sectors.                                       *)
(***************************************************************************)

\* A record is at least one sector long and has room for its payload.
LEMMA RecSectorsType ==
    \A t \in Texts : /\ RecSectors(t) \in Nat \ {0}
                     /\ Chunks[t] \in Nat
                     /\ Chunks[t] <= RecSectors(t)
BY SizesAssumption DEF RecSectors

\* A header that is there is a header of the types the journal writes.
LEMMA HdrType ==
    ASSUME TypeOK, NEW s \in Sectors, HasHdr(s)
    PROVE  /\ flash[s].hdr \in Headers
           /\ flash[s].hdr.name \in AllNames
           /\ flash[s].hdr.text \in Texts
           /\ flash[s].hdr.seq \in Nat
BY DEF TypeOK, HasHdr, Headers

\* A whole record lies inside the partition.
LEMMA WholeFits ==
    ASSUME TypeOK, NEW s \in Sectors, Whole(s)
    PROVE  /\ HasHdr(s)
           /\ flash[s].hdr.text \in Texts
           /\ s + RecSectors(flash[s].hdr.text) <= NSectors
           /\ Extent(s, flash[s].hdr.text) \subseteq Sectors
<1>1. HasHdr(s) /\ s + RecSectors(flash[s].hdr.text) <= NSectors
  BY DEF Whole, Fits
<1>2. flash[s].hdr.text \in Texts
  BY <1>1, HdrType
<1>3. RecSectors(flash[s].hdr.text) \in Nat
  BY <1>2, RecSectorsType
<1> QED
  BY <1>1, <1>2, <1>3, SizesAssumption DEF Extent, Sectors

\* A record whose sectors are left alone stays whole.
LEMMA WholeKept ==
    ASSUME TypeOK, NEW s \in Sectors, Whole(s),
           \A r \in Extent(s, flash[s].hdr.text) : flash'[r] = flash[r]
    PROVE  Whole(s)' /\ flash'[s] = flash[s]
<1> DEFINE t == flash[s].hdr.text
<1>1. t \in Texts /\ HasHdr(s) /\ s + RecSectors(t) <= NSectors
  BY WholeFits
<1>2. RecSectors(t) \in Nat \ {0} /\ Chunks[t] \in Nat /\ Chunks[t] <= RecSectors(t)
  BY <1>1, RecSectorsType
<1>3. s \in Extent(s, t) /\ \A i \in 0 .. Chunks[t] - 1 : s + i \in Extent(s, t)
  BY <1>2 DEF Extent, Sectors
<1>4. flash'[s] = flash[s] /\ \A i \in 0 .. Chunks[t] - 1 : flash'[s + i] = flash[s + i]
  BY <1>3
<1> QED
  BY <1>1, <1>4 DEF Whole, Fits, HasHdr

\* Losing headers never breaks the walk.
LEMMA FewerHeaders ==
    ASSUME WalkReachesAll,
           \A s \in Sectors : HasHdr(s)' => flash'[s].hdr = flash[s].hdr
    PROVE  WalkReachesAll'
BY DEF WalkReachesAll, HasHdr

\* Writing inside the save's own run disturbs no record the table tracks.
LEMMA LiveKept ==
    ASSUME LayoutInv, job # None, UNCHANGED <<used, live>>,
           \A r \in Sectors \ Extent(job.start, job.text) : flash'[r] = flash[r]
    PROVE  LiveInv'
<1>1. TypeOK /\ LiveInv /\ JobApart
  BY DEF LayoutInv, JobInv
<1>2. Claimed' = Claimed
  BY DEF Claimed
<1>3. ASSUME NEW n \in Claimed, NEW s \in Sectors, live[n].off = s
      PROVE  Whole(s)' /\ flash'[s] = flash[s]
  <2>1. Whole(s) /\ live[n].sectors = RecSectors(flash[s].hdr.text)
    BY <1>1, <1>3 DEF LiveInv
  <2>2. Extent(s, flash[s].hdr.text) \subseteq Sectors
    BY <1>1, <2>1, WholeFits
  <2>3. Extent(s, flash[s].hdr.text) = Covers(live[n])
    BY <1>3, <2>1 DEF Extent, Covers
  <2>4. Extent(s, flash[s].hdr.text) \subseteq used
    BY <1>1, <2>2, <2>3 DEF LiveInv
  <2>5. \A r \in Extent(s, flash[s].hdr.text) : flash'[r] = flash[r]
    BY <1>1, <2>2, <2>4 DEF JobApart
  <2> QED
    BY <1>1, <2>1, <2>5, WholeKept
<1>4. \A n \in Claimed', s \in Sectors : live'[n].off = s =>
          Whole(s)' /\ live'[n].sectors = RecSectors(flash'[s].hdr.text)
  BY <1>1, <1>2, <1>3 DEF LiveInv
<1>5. /\ \A n, m \in Claimed' : n # m => live'[n].off # live'[m].off
      /\ \A x \in Sectors : x \in used' <=> \E n \in Claimed' : x \in Covers(live'[n])
  BY <1>1, <1>2 DEF LiveInv
<1> QED
  BY <1>4, <1>5 DEF LiveInv

\* Losing power leaves nothing in RAM that could be wrong.
LEMMA PowerLost ==
    ASSUME LosePower
    PROVE  JobInv' /\ LiveInv' /\ BootInv'
<1>1. Claimed' = {} /\ Tracked' = {}
  BY DEF LosePower, Claimed, Tracked, Nothing
<1>2. JobInv'
  BY DEF LosePower, JobInv, Busy, Writing
<1>3. LiveInv'
  BY <1>1 DEF LosePower, LiveInv
<1>4. BootInv'
  BY <1>1 DEF LosePower, BootInv
<1> QED
  BY <1>2, <1>3, <1>4

\* A save that returns an error leaves the table as it was.
LEMMA ErrorReturned ==
    ASSUME LayoutInv, pc \in Writing, ReturnError
    PROVE  JobInv' /\ BootInv'
<1>1. best = Nothing /\ best' = Nothing
  BY DEF LayoutInv, BootInv, Writing, ReturnError
<1>2. Tracked' = {}
  BY <1>1 DEF Tracked, Nothing
<1>3. JobInv'
  BY DEF ReturnError, JobInv, Busy, Writing
<1>4. BootInv'
  BY <1>1, <1>2 DEF ReturnError, BootInv
<1> QED
  BY <1>3, <1>4

\* Between boots there is nothing left of the scan.
LEMMA BootOver ==
    ASSUME BootInv, pc \in Running, pc' \in Running, best' = best
    PROVE  BootInv'
<1>1. best = Nothing /\ best' = Nothing
  BY DEF BootInv, Running, Writing
<1>2. Tracked' = {}
  BY <1>1 DEF Tracked, Nothing
<1> QED
  BY <1>1, <1>2 DEF BootInv, Running, Writing

\* The job's sectors, and what the types say of it.
LEMMA JobType ==
    ASSUME TypeOK, JobInv, job # None
    PROVE  /\ job \in Jobs
           /\ job.start \in Sectors /\ job.text \in Texts /\ job.name \in Names
           /\ RecSectors(job.text) \in Nat \ {0}
           /\ Chunks[job.text] \in Nat /\ Chunks[job.text] <= RecSectors(job.text)
           /\ Extent(job.start, job.text) \subseteq Sectors
           /\ \A i \in 0 .. RecSectors(job.text) - 1 :
                  job.start + i \in Extent(job.start, job.text)
           /\ pc \in Busy /\ JobApart /\ JobProgress
<1>1. job \in Jobs
  BY DEF TypeOK
<1>2. job.start \in Sectors /\ job.text \in Texts /\ job.name \in Names
  BY <1>1 DEF Jobs
<1>3. /\ RecSectors(job.text) \in Nat \ {0}
      /\ Chunks[job.text] \in Nat /\ Chunks[job.text] <= RecSectors(job.text)
  BY <1>2, RecSectorsType
<1>4. pc \in Busy /\ JobApart /\ JobProgress
  BY DEF JobInv
<1>5. \A i \in 0 .. RecSectors(job.text) - 1 : job.start + i \in Extent(job.start, job.text)
  BY <1>2, <1>3 DEF Extent, Sectors
<1> QED
  BY <1>1, <1>2, <1>3, <1>4, <1>5 DEF JobApart

LEMMA EraseSectorStep ==
    ASSUME LayoutInv, EraseSector
    PROVE  LayoutInv'
<1> DEFINE e == job.start + k
           J == Extent(job.start, job.text)
<1>1. TypeOK /\ WalkReachesAll /\ JobInv /\ LiveInv /\ BootInv /\ pc = "erase" /\ job # None
  BY DEF LayoutInv, EraseSector, JobInv, Busy, Writing
<1>2. k \in Nat /\ k < RecSectors(job.text) /\ e \in J /\ e \in Sectors
  BY <1>1, JobType DEF JobProgress, TypeOK
<1>3. flash' = [flash EXCEPT ![e] = Erased] /\ UNCHANGED <<used, live, seq, job, off, best>>
  BY DEF EraseSector
<1>4. \A s \in Sectors : s # e => flash'[s] = flash[s]
  BY <1>1, <1>2, <1>3 DEF TypeOK
<1>5. flash'[e] = Erased
  BY <1>1, <1>2, <1>3 DEF TypeOK
<1>6. \A s \in Sectors : HasHdr(s)' => s # e /\ HasHdr(s) /\ flash'[s] = flash[s]
  BY <1>4, <1>5 DEF HasHdr, Erased
<1>7. /\ pc' \in {"erase", "payload", "header"}
      /\ pc' = "erase" => k' = k + 1 /\ k + 1 < RecSectors(job.text)
      /\ pc' # "erase" => k' = 0 /\ ~(k + 1 < RecSectors(job.text))
      /\ pc' = "payload" => Chunks[job.text] > 0
      /\ pc' = "header" => ~(Chunks[job.text] > 0)
  BY <1>1, <1>2, JobType DEF EraseSector
<1>8. TypeOK'
  <2>1. flash' \in [Sectors -> [hdr : Headers \cup {NoHdr}, pay : Payload]]
    BY <1>1, <1>3 DEF TypeOK, Erased, Payload
  <2> QED
    BY <1>1, <1>2, <1>3, <1>7, <2>1 DEF TypeOK, Writing
<1>9. WalkReachesAll'
  BY <1>1, <1>6, FewerHeaders
<1>10. LiveInv'
  BY <1>1, <1>2, <1>3, <1>4, LiveKept
<1>11. JobApart'
  <2>1. \A s \in Sectors : s < job'.start /\ HasHdr(s)' =>
            s + RecSectors(flash'[s].hdr.text) <= job'.start
    BY <1>1, <1>3, <1>6, JobType DEF JobApart
  <2> QED
    BY <1>1, <1>3, <2>1, JobType DEF JobApart
<1>12. JobProgress'
  <2>1. \A s \in Sectors : job.start <= s /\ s < job.start + (k + 1) => ~HasHdr(s)'
    <3> TAKE s \in Sectors
    <3> HAVE job.start <= s /\ s < job.start + (k + 1)
    <3>1. s = e \/ s < job.start + k
      BY <1>1, <1>2, JobType DEF Sectors
    <3>2. s < job.start + k => ~HasHdr(s)
      BY <1>1, <1>2, JobType DEF JobProgress
    <3> QED
      BY <1>6, <3>1, <3>2
  <2>2. CASE pc' = "erase"
    BY <1>1, <1>2, <1>3, <1>7, <2>1, <2>2, JobType DEF JobProgress
  <2>3. CASE pc' # "erase"
    <3>1. \A s \in J : ~HasHdr(s)'
      <4>1. \A s \in J : s \in Sectors /\ job.start <= s /\ s < job.start + (k + 1)
        BY <1>1, <1>2, <1>7, <2>3, JobType DEF Extent, Sectors
      <4> QED
        BY <2>1, <4>1
    <3>2. pc' = "header" => Chunks[job.text] = 0
      BY <1>1, <1>7, JobType
    <3> QED
      BY <1>1, <1>3, <1>7, <2>3, <3>1, <3>2, JobType DEF JobProgress, PayloadDown
  <2> QED
    BY <2>2, <2>3
<1>13. JobInv'
  BY <1>1, <1>3, <1>7, <1>11, <1>12 DEF JobInv, Busy, Writing
<1>14. BootInv'
  BY <1>1, <1>3, <1>7, BootOver DEF Running, Writing
<1> QED
  BY <1>8, <1>9, <1>10, <1>13, <1>14 DEF LayoutInv

LEMMA WriteChunkStep ==
    ASSUME LayoutInv, WriteChunk
    PROVE  LayoutInv'
<1> DEFINE e == job.start + k
           J == Extent(job.start, job.text)
<1>1. TypeOK /\ WalkReachesAll /\ JobInv /\ LiveInv /\ BootInv /\ pc = "payload" /\ job # None
  BY DEF LayoutInv, WriteChunk, JobInv, Busy, Writing
<1>2. k \in Nat /\ k < Chunks[job.text] /\ e \in J /\ e \in Sectors
  BY <1>1, JobType DEF JobProgress, TypeOK
<1>3. /\ flash' = [flash EXCEPT ![e].pay = [text |-> job.text, at |-> k]]
      /\ UNCHANGED <<used, live, seq, job, off, best>>
  BY DEF WriteChunk
<1>4. \A s \in Sectors : s # e => flash'[s] = flash[s]
  BY <1>1, <1>2, <1>3 DEF TypeOK
<1>5. flash'[e].hdr = flash[e].hdr /\ flash'[e].pay = [text |-> job.text, at |-> k]
  BY <1>1, <1>2, <1>3 DEF TypeOK
<1>6. \A s \in Sectors : flash'[s].hdr = flash[s].hdr
  BY <1>4, <1>5
<1>7. \A s \in Sectors : HasHdr(s)' <=> HasHdr(s)
  BY <1>6 DEF HasHdr
<1>8. /\ pc' \in {"payload", "header"}
      /\ pc' = "payload" => k' = k + 1 /\ k + 1 < Chunks[job.text]
      /\ pc' = "header" => k' = 0 /\ ~(k + 1 < Chunks[job.text])
  BY <1>1, <1>2, JobType DEF WriteChunk
<1>9. TypeOK'
  <2>1. flash' \in [Sectors -> [hdr : Headers \cup {NoHdr}, pay : Payload]]
    BY <1>1, <1>2, <1>3, JobType DEF TypeOK, Payload
  <2> QED
    BY <1>1, <1>2, <1>3, <1>8, <2>1 DEF TypeOK, Writing
<1>10. WalkReachesAll'
  BY <1>1, <1>6, FewerHeaders
<1>11. LiveInv'
  BY <1>1, <1>2, <1>3, <1>4, LiveKept
<1>12. JobApart'
  BY <1>1, <1>3, <1>6, <1>7, JobType DEF JobApart
<1>13. JobProgress'
  <2>1. \A s \in J : ~HasHdr(s)'
    BY <1>1, <1>7, JobType DEF JobProgress
  <2>2. \A i \in 0 .. k : flash'[job.start + i].pay = [text |-> job.text, at |-> i]
    <3> TAKE i \in 0 .. k
    <3>1. CASE i = k
      BY <1>5, <3>1
    <3>2. CASE i # k
      <4>1. job.start + i \in Sectors /\ job.start + i # e /\ i \in 0 .. k - 1
        BY <1>1, <1>2, <3>2, JobType DEF Sectors
      <4> QED
        BY <1>1, <1>4, <4>1, JobType DEF JobProgress, PayloadDown
    <3> QED
      BY <3>1, <3>2
  <2>3. CASE pc' = "payload"
    BY <1>1, <1>2, <1>3, <1>8, <2>1, <2>2, <2>3, JobType DEF JobProgress, PayloadDown
  <2>4. CASE pc' = "header"
    <3>1. Chunks[job.text] - 1 = k
      BY <1>1, <1>2, <1>8, <2>4, JobType
    <3> QED
      BY <1>3, <2>1, <2>2, <2>4, <3>1 DEF JobProgress, PayloadDown
  <2> QED
    BY <1>8, <2>3, <2>4
<1>14. JobInv'
  BY <1>1, <1>3, <1>8, <1>12, <1>13 DEF JobInv, Busy, Writing
<1>15. BootInv'
  BY <1>1, <1>3, <1>8, BootOver DEF Running, Writing
<1> QED
  BY <1>9, <1>10, <1>11, <1>14, <1>15 DEF LayoutInv

\* The one step that adds a header: nothing reaches into its run, and nothing
\* starts in it.
LEMMA NewHeader ==
    ASSUME LayoutInv, pc = "header",
           NEW h \in Headers, h.text = job.text,
           flash' = [flash EXCEPT ![job.start].hdr = h]
    PROVE  /\ WalkReachesAll'
           /\ flash' \in [Sectors -> [hdr : Headers \cup {NoHdr}, pay : Payload]]
           /\ \A s \in Sectors : s # job.start => flash'[s] = flash[s]
           /\ flash'[job.start].hdr = h
           /\ \A s \in Sectors : flash'[s].pay = flash[s].pay
<1> DEFINE p == job.start
           J == Extent(job.start, job.text)
<1>1. TypeOK /\ WalkReachesAll /\ JobInv /\ job # None
  BY DEF LayoutInv, JobInv, Busy, Writing
<1>2. p \in Sectors
  BY <1>1, JobType
<1>3. /\ \A s \in Sectors : s # p => flash'[s] = flash[s]
      /\ flash'[p].hdr = h
      /\ \A s \in Sectors : flash'[s].pay = flash[s].pay
  BY <1>1, <1>2 DEF TypeOK
<1>4. flash' \in [Sectors -> [hdr : Headers \cup {NoHdr}, pay : Payload]]
  BY <1>1, <1>2 DEF TypeOK
<1>5. \A s \in J : ~HasHdr(s)
  BY <1>1, JobType DEF JobProgress
<1>6. ASSUME NEW s \in Sectors, NEW r \in Sectors, HasHdr(s)', HasHdr(r)', s < r
      PROVE  r \notin Extent(s, flash'[s].hdr.text)
  <2>1. CASE s # p /\ r # p
    BY <1>1, <1>3, <1>6, <2>1 DEF WalkReachesAll, HasHdr
  <2>2. CASE s = p
    <3>1. HasHdr(r)
      BY <1>3, <1>6, <2>2 DEF HasHdr, Sectors
    <3>2. flash'[s].hdr.text = job.text
      BY <1>3, <2>2
    <3> QED
      BY <1>5, <2>2, <3>1, <3>2
  <2>3. CASE r = p
    <3>1. HasHdr(s) /\ flash'[s] = flash[s]
      BY <1>3, <1>6, <2>3 DEF HasHdr, Sectors
    <3>2. s + RecSectors(flash[s].hdr.text) <= p
      BY <1>1, <1>6, <2>3, <3>1, JobType DEF JobApart
    <3>3. RecSectors(flash[s].hdr.text) \in Nat
      BY <1>1, <3>1, HdrType, RecSectorsType
    <3>4. p \notin Extent(s, flash[s].hdr.text)
      BY <1>2, <3>2, <3>3 DEF Extent, Sectors
    <3> QED
      BY <2>3, <3>1, <3>4
  <2> QED
    BY <2>1, <2>2, <2>3
<1>7. WalkReachesAll'
  BY <1>6 DEF WalkReachesAll
<1> QED
  BY <1>3, <1>4, <1>7

LEMMA WriteHeaderStep ==
    ASSUME LayoutInv, WriteHeader
    PROVE  LayoutInv'
<1>1. TypeOK /\ JobInv /\ LiveInv /\ BootInv /\ pc = "header" /\ job # None
  BY DEF LayoutInv, WriteHeader, JobInv, Busy, Writing
<1>2. /\ flash' = [flash EXCEPT ![job.start].hdr = JobHdr]
      /\ pc' = "claimnew" /\ UNCHANGED <<used, live, seq, job, k, off, best>>
  BY DEF WriteHeader, ramVars
<1>3. JobHdr \in Headers /\ JobHdr.text = job.text
  BY <1>1, JobType DEF JobHdr, Headers, TypeOK, AllNames
<1>4. /\ WalkReachesAll'
      /\ flash' \in [Sectors -> [hdr : Headers \cup {NoHdr}, pay : Payload]]
      /\ \A s \in Sectors : s # job.start => flash'[s] = flash[s]
      /\ flash'[job.start].hdr = JobHdr
      /\ \A s \in Sectors : flash'[s].pay = flash[s].pay
  BY <1>1, <1>2, <1>3, NewHeader
<1>5. TypeOK'
  BY <1>1, <1>2, <1>4 DEF TypeOK, Writing
<1>6. LiveInv'
  <2>1. job.start \in Extent(job.start, job.text)
    BY <1>1, JobType DEF Extent, Sectors
  <2> QED
    BY <1>1, <1>2, <1>4, <2>1, LiveKept
<1>7. JobApart'
  <2>1. \A s \in Sectors : s < job.start => (HasHdr(s)' <=> HasHdr(s)) /\ flash'[s] = flash[s]
    BY <1>1, <1>4, JobType DEF HasHdr, Sectors
  <2> QED
    BY <1>1, <1>2, <2>1, JobType DEF JobApart
<1>8. JobProgress'
  <2>1. JobHdr' = JobHdr
    BY <1>2 DEF JobHdr
  <2>2. \A i \in 0 .. Chunks[job.text] - 1 : job.start + i \in Sectors /\ PayloadDown(i)
    BY <1>1, JobType DEF JobProgress
  <2>3. \A i \in 0 .. Chunks[job.text] - 1 :
            flash'[job.start + i].pay = [text |-> job.text, at |-> i]
    BY <1>4, <2>2 DEF PayloadDown
  <2> QED
    BY <1>2, <1>4, <2>1, <2>3 DEF JobProgress, PayloadDown
<1>9. JobInv'
  BY <1>1, <1>2, <1>7, <1>8 DEF JobInv, Busy, Writing
<1>10. BootInv'
  BY <1>1, <1>2, BootOver DEF Running, Writing
<1> QED
  BY <1>4, <1>5, <1>6, <1>9, <1>10 DEF LayoutInv

\* What a fault does to RAM keeps the types; flash is typed separately.
LEMMA FaultTypes ==
    ASSUME TypeOK, LosePower \/ ReturnError,
           flash' \in [Sectors -> [hdr : Headers \cup {NoHdr}, pay : Payload]]
    PROVE  TypeOK'
<1>1. CASE LosePower
  BY <1>1 DEF TypeOK, LosePower, Nothing
<1>2. CASE ReturnError
  BY <1>2 DEF TypeOK, ReturnError
<1> QED
  BY <1>1, <1>2

\* A fault during a save: the layout survives if the flash did.
LEMMA FaultStep ==
    ASSUME LayoutInv, pc \in Writing, LosePower \/ ReturnError,
           flash' \in [Sectors -> [hdr : Headers \cup {NoHdr}, pay : Payload]],
           WalkReachesAll',
           \A r \in Sectors \ Extent(job.start, job.text) : flash'[r] = flash[r]
    PROVE  LayoutInv'
<1>1. TypeOK'
  BY FaultTypes DEF LayoutInv
<1>2. CASE LosePower
  BY <1>1, <1>2, PowerLost DEF LayoutInv
<1>3. CASE ReturnError
  <2>1. JobInv' /\ BootInv'
    BY <1>3, ErrorReturned
  <2>2. job # None
    BY DEF LayoutInv, JobInv, Busy
  <2>3. LiveInv'
    BY <1>3, <2>2, LiveKept DEF ReturnError
  <2> QED
    BY <1>1, <2>1, <2>3 DEF LayoutInv
<1> QED
  BY <1>2, <1>3

LEMMA TornEraseStep ==
    ASSUME LayoutInv, TornErase
    PROVE  LayoutInv'
<1> DEFINE e == job.start + k
<1>1. TypeOK /\ WalkReachesAll /\ JobInv /\ pc = "erase" /\ job # None
  BY DEF LayoutInv, TornErase, JobInv, Busy, Writing
<1>2. k \in Nat /\ k < RecSectors(job.text) /\ e \in Sectors /\ e \in Extent(job.start, job.text)
  BY <1>1, JobType DEF JobProgress, TypeOK
<1>3. flash' = [flash EXCEPT ![e].pay = Blank] /\ (LosePower \/ ReturnError)
  BY DEF TornErase
<1>4. flash' \in [Sectors -> [hdr : Headers \cup {NoHdr}, pay : Payload]]
  BY <1>1, <1>2, <1>3 DEF TypeOK, Payload
<1>5. /\ \A r \in Sectors : flash'[r].hdr = flash[r].hdr
      /\ \A r \in Sectors \ Extent(job.start, job.text) : flash'[r] = flash[r]
  BY <1>1, <1>2, <1>3 DEF TypeOK
<1>6. WalkReachesAll'
  BY <1>1, <1>5, FewerHeaders
<1>7. pc \in Writing
  BY <1>1 DEF Writing
<1> QED
  BY <1>3, <1>4, <1>5, <1>6, <1>7, FaultStep

LEMMA TornHeaderStep ==
    ASSUME LayoutInv, TornHeader
    PROVE  LayoutInv'
<1>1. TypeOK /\ JobInv /\ pc = "header" /\ job # None
  BY DEF LayoutInv, TornHeader, JobInv, Busy, Writing
<1>2. PICK h \in {[JobHdr EXCEPT !.crc = FALSE], [JobHdr EXCEPT !.name = Garbled]} :
          flash' = [flash EXCEPT ![job.start].hdr = h]
  BY DEF TornHeader
<1>3. h \in Headers /\ h.text = job.text
  <2>1. JobHdr \in Headers /\ JobHdr.text = job.text
    BY <1>1, JobType DEF JobHdr, Headers, TypeOK, AllNames
  <2>2. [JobHdr EXCEPT !.crc = FALSE] \in Headers /\ [JobHdr EXCEPT !.name = Garbled] \in Headers
    BY <2>1 DEF Headers, AllNames
  <2>3. /\ [JobHdr EXCEPT !.crc = FALSE].text = job.text
        /\ [JobHdr EXCEPT !.name = Garbled].text = job.text
    BY <2>1 DEF Headers
  <2> QED
    BY <1>2, <2>2, <2>3
<1>4. /\ WalkReachesAll'
      /\ flash' \in [Sectors -> [hdr : Headers \cup {NoHdr}, pay : Payload]]
      /\ \A s \in Sectors : s # job.start => flash'[s] = flash[s]
  BY <1>1, <1>2, <1>3, NewHeader
<1>5. job.start \in Extent(job.start, job.text)
  BY <1>1, JobType DEF Extent, Sectors
<1>6. pc \in Writing /\ (LosePower \/ ReturnError)
  BY <1>1 DEF Writing, TornHeader
<1> QED
  BY <1>4, <1>5, <1>6, FaultStep

LEMMA PowerCutStep ==
    ASSUME LayoutInv, PowerCut
    PROVE  LayoutInv'
<1>1. TypeOK'
  BY FaultTypes DEF LayoutInv, PowerCut, TypeOK
<1>2. WalkReachesAll'
  BY FewerHeaders DEF LayoutInv, PowerCut
<1> QED
  BY <1>1, <1>2, PowerLost DEF LayoutInv, PowerCut

LEMMA SaveErrorStep ==
    ASSUME LayoutInv, SaveError
    PROVE  LayoutInv'
<1>1. flash' \in [Sectors -> [hdr : Headers \cup {NoHdr}, pay : Payload]]
  BY DEF LayoutInv, SaveError, TypeOK
<1>2. WalkReachesAll'
  BY FewerHeaders DEF LayoutInv, SaveError, ReturnError
<1>3. pc \in Writing /\ ReturnError /\ flash' = flash
  BY DEF SaveError
<1> QED
  BY <1>1, <1>2, <1>3, FaultStep

\* The first free run of a size starts at the front of the partition or right
\* after a used sector.
LEMMA FirstFit ==
    ASSUME NEW p \in Sectors, NEW w \in Nat \ {0}, FindFreeRun(p, w)
    PROVE  p = 0 \/ p - 1 \in used
<1> SUFFICES ASSUME p # 0, p - 1 \notin used
             PROVE  FALSE
  OBVIOUS
<1>1. p - 1 \in 0 .. p - 1
  BY DEF Sectors
<1>2. FreeRun(p - 1, w)
  <2>1. p - 1 + w <= NSectors
    BY SizesAssumption DEF FindFreeRun, FreeRun, Sectors
  <2>2. \A i \in p - 1 .. p - 1 + w - 1 : i = p - 1 \/ i \in p .. p + w - 1
    BY DEF Sectors
  <2>3. \A i \in p .. p + w - 1 : i \notin used
    BY DEF FindFreeRun, FreeRun
  <2> QED
    BY <2>1, <2>2, <2>3 DEF FreeRun
<1> QED
  BY <1>1, <1>2 DEF FindFreeRun

\* Hence no record that starts below it, live or stale, reaches into it.
LEMMA FreeRunApart ==
    ASSUME LayoutInv, NEW p \in Sectors, p \notin used, p = 0 \/ p - 1 \in used,
           NEW s \in Sectors, HasHdr(s), s < p
    PROVE  s + RecSectors(flash[s].hdr.text) <= p
<1> DEFINE w == RecSectors(flash[s].hdr.text)
<1>1. TypeOK /\ WalkReachesAll /\ LiveInv /\ w \in Nat \ {0}
  BY HdrType, RecSectorsType DEF LayoutInv
<1> SUFFICES ASSUME s + w > p
             PROVE  FALSE
  BY <1>1 DEF Sectors
<1>2. p - 1 \in Sectors /\ p - 1 \in used /\ s <= p - 1
  BY SizesAssumption DEF Sectors
<1>3. PICK n \in Claimed : p - 1 \in Covers(live[n])
  BY <1>1, <1>2 DEF LiveInv
<1> DEFINE o == live[n].off
<1>4. o \in Sectors /\ live[n].sectors \in Nat
  BY <1>1 DEF TypeOK, Claimed, Extents
<1>5. Whole(o) /\ HasHdr(o) /\ live[n].sectors = RecSectors(flash[o].hdr.text)
  BY <1>1, <1>4, WholeFits DEF LiveInv
<1>6. p \notin Covers(live[n])
  BY <1>1 DEF LiveInv
<1>7. o <= p - 1 /\ o + live[n].sectors = p
  BY <1>2, <1>3, <1>4, <1>6 DEF Covers, Sectors
<1>8. CASE o = s
  BY <1>1, <1>4, <1>5, <1>7, <1>8 DEF Sectors
<1>9. CASE o < s
  <2>1. s \in Extent(o, flash[o].hdr.text)
    BY <1>2, <1>4, <1>5, <1>7, <1>9 DEF Extent, Sectors
  <2> QED
    BY <1>1, <1>4, <1>5, <1>9, <2>1 DEF WalkReachesAll
<1>10. CASE s < o
  <2>1. o \in Extent(s, flash[s].hdr.text)
    BY <1>1, <1>4, <1>7, <1>10 DEF Extent, Sectors
  <2> QED
    BY <1>1, <1>4, <1>5, <1>10, <2>1 DEF WalkReachesAll
<1> QED
  BY <1>4, <1>8, <1>9, <1>10 DEF Sectors

\* Different records share no sector.
LEMMA RecordsApart ==
    ASSUME TypeOK, WalkReachesAll, NEW a \in Sectors, NEW b \in Sectors,
           HasHdr(a), HasHdr(b), a # b
    PROVE  Extent(a, flash[a].hdr.text) \cap Extent(b, flash[b].hdr.text) = {}
<1>1. ASSUME NEW c \in Sectors, NEW d \in Sectors, HasHdr(c), HasHdr(d), c < d
      PROVE  c + RecSectors(flash[c].hdr.text) <= d
  <2>1. d \notin Extent(c, flash[c].hdr.text)
    BY <1>1 DEF WalkReachesAll
  <2>2. RecSectors(flash[c].hdr.text) \in Nat
    BY <1>1, HdrType, RecSectorsType
  <2> QED
    BY <1>1, <2>1, <2>2 DEF Extent, Sectors
<1>2. RecSectors(flash[a].hdr.text) \in Nat /\ RecSectors(flash[b].hdr.text) \in Nat
  BY HdrType, RecSectorsType
<1>3. CASE a < b
  BY <1>1, <1>2, <1>3 DEF Extent, Sectors
<1>4. CASE b < a
  BY <1>1, <1>2, <1>4 DEF Extent, Sectors
<1> QED
  BY <1>3, <1>4 DEF Sectors

\* Claiming a whole record that is not claimed yet keeps the table exact,
\* whether or not there is a slot for it.
LEMMA ClaimKeepsLive ==
    ASSUME TypeOK, WalkReachesAll, LiveInv, NEW n \in AllNames, NEW s \in Sectors, Whole(s),
           \A m \in Claimed : live[m].off # s,
           LiveClaim(n, s, RecSectors(flash[s].hdr.text)), UNCHANGED flash
    PROVE  /\ LiveInv'
           /\ used' \subseteq Sectors
           /\ live' \in [AllNames -> Extents \cup {None}]
           /\ \A m \in Claimed' : (m \in Claimed /\ live'[m] = live[m]) \/ live'[m].off = s
           /\ \A m \in AllNames : m # n => live'[m] = live[m]
<1> DEFINE w == RecSectors(flash[s].hdr.text)
           room == live[n] # None \/ Cardinality(Claimed) < MaxNames
           e == [off |-> s, sectors |-> w]
<1>1. /\ HasHdr(s) /\ w \in Nat \ {0} /\ s + w <= NSectors
      /\ Extent(s, flash[s].hdr.text) = s .. s + w - 1 /\ s .. s + w - 1 \subseteq Sectors
  BY WholeFits, RecSectorsType DEF Extent
<1>2. CASE ~room
  <2>1. UNCHANGED <<live, used>>
    BY <1>2 DEF LiveClaim
  <2>2. Claimed' = Claimed
    BY <2>1 DEF Claimed
  <2>3. \A r \in Sectors : Whole(r)' <=> Whole(r)
    BY DEF Whole, Fits, HasHdr
  <2>4. LiveInv'
    BY <2>1, <2>2, <2>3 DEF LiveInv
  <2> QED
    BY <2>1, <2>2, <2>4 DEF TypeOK
<1>3. CASE room
  <2> DEFINE old == IF live[n] = None THEN {} ELSE Covers(live[n])
  <2>1. /\ live' = [live EXCEPT ![n] = e]
        /\ used' = (used \ old) \cup (s .. s + w - 1)
    BY <1>3 DEF LiveClaim
  <2>2. e \in Extents /\ e # None
    BY <1>1, NoneIsNothing DEF Extents
  <2>3. /\ live' \in [AllNames -> Extents \cup {None}]
        /\ live'[n] = e
        /\ \A m \in AllNames : m # n => live'[m] = live[m]
    BY <2>1, <2>2 DEF TypeOK
  <2>4. Claimed' = Claimed \cup {n}
    BY <2>2, <2>3 DEF Claimed
  <2>5. \A r \in Sectors : Whole(r)' <=> Whole(r)
    BY DEF Whole, Fits, HasHdr
  <2>6. \A m \in Claimed', r \in Sectors : live'[m].off = r =>
            Whole(r)' /\ live'[m].sectors = RecSectors(flash'[r].hdr.text)
    <3> TAKE m \in Claimed', r \in Sectors
    <3> HAVE live'[m].off = r
    <3>1. flash'[r] = flash[r]
      OBVIOUS
    <3>2. CASE m = n
      <4>1. r = s /\ live'[m].sectors = w
        BY <2>3, <3>2
      <4> QED
        BY <2>5, <3>1, <4>1
    <3>3. CASE m # n
      <4>1. m \in Claimed /\ live'[m] = live[m]
        BY <2>3, <2>4, <3>3 DEF Claimed
      <4>2. Whole(r) /\ live[m].sectors = RecSectors(flash[r].hdr.text)
        BY <4>1 DEF LiveInv
      <4> QED
        BY <2>5, <3>1, <4>1, <4>2
    <3> QED
      BY <3>2, <3>3
  <2>7. \A m, o \in Claimed' : m # o => live'[m].off # live'[o].off
    BY <2>3, <2>4 DEF LiveInv, Claimed
  <2>8. ASSUME NEW m \in Claimed
        PROVE  /\ live[m].off \in Sectors /\ HasHdr(live[m].off)
               /\ Covers(live[m]) = Extent(live[m].off, flash[live[m].off].hdr.text)
    <3>1. live[m].off \in Sectors /\ live[m].sectors \in Nat
      BY DEF TypeOK, Claimed, Extents
    <3>2. Whole(live[m].off) /\ live[m].sectors = RecSectors(flash[live[m].off].hdr.text)
      BY <3>1 DEF LiveInv
    <3> QED
      BY <3>1, <3>2, WholeFits DEF Covers, Extent
  <2>9. \A m \in Claimed : m # n => Covers(live[m]) \cap old = {}
    <3> TAKE m \in Claimed
    <3> HAVE m # n
    <3>1. CASE live[n] = None
      BY <3>1
    <3>2. CASE live[n] # None
      <4>1. n \in Claimed /\ live[m].off # live[n].off
        BY <3>2 DEF Claimed, LiveInv
      <4> QED
        BY <2>8, <3>2, <4>1, RecordsApart
    <3> QED
      BY <3>1, <3>2
  <2>10. used' \subseteq Sectors
    BY <1>1, <2>1 DEF TypeOK
  <2>11. \A x \in Sectors : x \in used' <=> \E m \in Claimed' : x \in Covers(live'[m])
    <3> TAKE x \in Sectors
    <3>1. x \in used' <=> (x \in used /\ x \notin old) \/ x \in s .. s + w - 1
      BY <2>1
    <3>2. x \in used <=> \E m \in Claimed : x \in Covers(live[m])
      BY DEF LiveInv
    <3>3. Covers(live'[n]) = s .. s + w - 1
      BY <2>3 DEF Covers
    <3>4. (\E m \in Claimed' : x \in Covers(live'[m])) <=>
             \/ \E m \in Claimed : m # n /\ x \in Covers(live[m])
             \/ x \in s .. s + w - 1
      BY <2>3, <2>4, <3>3 DEF Claimed
    <3>5. (x \in used /\ x \notin old) <=> \E m \in Claimed : m # n /\ x \in Covers(live[m])
      <4>1. CASE live[n] = None
        BY <3>2, <4>1 DEF Claimed
      <4>2. CASE live[n] # None
        BY <2>9, <3>2, <4>2 DEF Claimed
      <4> QED
        BY <4>1, <4>2
    <3> QED
      BY <3>1, <3>4, <3>5
  <2>12. LiveInv'
    BY <2>6, <2>7, <2>11 DEF LiveInv
  <2> QED
    BY <2>3, <2>4, <2>10, <2>12 DEF Claimed
<1> QED
  BY <1>2, <1>3

\* Steps that write no flash leave every record as it was.
LEMMA SameFlash ==
    ASSUME flash' = flash
    PROVE  /\ \A s \in Sectors : (Whole(s)' <=> Whole(s)) /\ (HasHdr(s)' <=> HasHdr(s))
           /\ WalkReachesAll => WalkReachesAll'
BY DEF Whole, Fits, HasHdr, WalkReachesAll

LEMMA SameLive ==
    ASSUME LiveInv, UNCHANGED <<flash, used, live>>
    PROVE  LiveInv' /\ Claimed' = Claimed
<1>1. Claimed' = Claimed
  BY DEF Claimed
<1>2. \A n \in Claimed', s \in Sectors : live'[n].off = s =>
          Whole(s)' /\ live'[n].sectors = RecSectors(flash'[s].hdr.text)
  BY <1>1, SameFlash DEF LiveInv
<1> QED
  BY <1>1, <1>2 DEF LiveInv

LEMMA SaveBeginStep ==
    ASSUME LayoutInv, NEW n \in Names, NEW t \in Texts, SaveBegin(n, t)
    PROVE  LayoutInv'
<1>1. TypeOK /\ WalkReachesAll /\ JobInv /\ LiveInv /\ BootInv
  BY DEF LayoutInv
<1>2. PICK p \in Sectors : FindFreeRun(p, RecSectors(t)) /\ job' = [name |-> n, text |-> t, start |-> p]
  BY DEF SaveBegin
<1>3. /\ pc = "idle" /\ pc' = "erase" /\ k' = 0
      /\ UNCHANGED <<flash, used, live, seq, off, best>>
  BY DEF SaveBegin
<1>4. RecSectors(t) \in Nat \ {0} /\ job' \in Jobs /\ job' # None
  BY <1>2, RecSectorsType, NoneIsNothing DEF Jobs
<1>5. TypeOK'
  BY <1>1, <1>3, <1>4 DEF TypeOK, Writing
<1>6. WalkReachesAll' /\ LiveInv'
  BY <1>1, <1>3, SameFlash, SameLive
<1>7. Extent(p, t) \subseteq Sectors \ used /\ p \notin used
  BY <1>2, <1>4, SizesAssumption DEF FindFreeRun, FreeRun, Extent, Sectors
<1>8. p = 0 \/ p - 1 \in used
  BY <1>2, <1>4, FirstFit
<1>9. \A s \in Sectors : s < p /\ HasHdr(s) => s + RecSectors(flash[s].hdr.text) <= p
  BY <1>7, <1>8, FreeRunApart
<1>10. JobApart'
  <2>1. \A s \in Sectors : s < p /\ HasHdr(s)' => s + RecSectors(flash'[s].hdr.text) <= p
    BY <1>3, <1>9, SameFlash
  <2>2. job'.start = p /\ job'.text = t
    BY <1>2
  <2> QED
    BY <1>3, <1>7, <2>1, <2>2 DEF JobApart
<1>11. JobProgress'
  <2>1. job'.start = p /\ job'.text = t
    BY <1>2
  <2> QED
    BY <1>3, <1>4, <2>1 DEF JobProgress, Sectors
<1>12. JobInv'
  BY <1>3, <1>4, <1>10, <1>11 DEF JobInv, Busy, Writing
<1>13. BootInv'
  BY <1>1, <1>3, BootOver DEF Running, Writing
<1> QED
  BY <1>5, <1>6, <1>12, <1>13 DEF LayoutInv

LEMMA SaveDoneStep ==
    ASSUME LayoutInv, SaveDone
    PROVE  LayoutInv'
<1>1. TypeOK /\ WalkReachesAll /\ JobInv /\ LiveInv /\ BootInv
  BY DEF LayoutInv
<1>2. /\ pc = "claimnew" /\ pc' = "idle" /\ seq' = seq + 1 /\ job' = None
      /\ UNCHANGED <<flash, k, off, best>>
      /\ LiveClaim(job.name, job.start, RecSectors(job.text))
  BY DEF SaveDone
<1>3. job # None /\ flash[job.start].hdr = JobHdr
  BY <1>1, <1>2, JobType DEF JobInv, Busy, JobProgress
<1>4. job.start \in Sectors /\ job.name \in AllNames /\ flash[job.start].hdr.text = job.text
  BY <1>1, <1>3, JobType DEF JobHdr, AllNames
<1>5. Whole(job.start)
  <2>1. JobHdr # NoHdr
    BY <1>1, <1>3, JobType, NoneIsNothing DEF JobHdr, NoHdr
  <2>2. job.start + RecSectors(job.text) <= NSectors
    <3>1. job.start + (RecSectors(job.text) - 1) \in Sectors
      BY <1>1, <1>3, JobType
    <3> QED
      BY <1>1, <1>3, <3>1, JobType, SizesAssumption DEF Sectors
  <2>3. \A i \in 0 .. Chunks[job.text] - 1 : PayloadDown(i)
    BY <1>1, <1>2, <1>3, JobType DEF JobProgress
  <2> QED
    BY <1>3, <1>4, <2>1, <2>2, <2>3 DEF Whole, Fits, HasHdr, JobHdr, PayloadDown
<1>6. \A m \in Claimed : live[m].off # job.start
  <2> SUFFICES ASSUME NEW m \in Claimed, live[m].off = job.start
               PROVE  FALSE
    OBVIOUS
  <2>1. live[m].sectors \in Nat \ {0}
    BY <1>1, <1>4, RecSectorsType, <1>3, JobType DEF LiveInv
  <2>2. job.start \in Covers(live[m])
    BY <1>4, <2>1 DEF Covers, Sectors
  <2>3. job.start \in used
    BY <1>1, <1>4, <2>2 DEF LiveInv
  <2>4. job.start \in Extent(job.start, job.text)
    BY <1>1, <1>3, JobType DEF Extent, Sectors
  <2> QED
    BY <1>1, <1>3, <2>3, <2>4, JobType DEF JobApart
<1>7. /\ LiveInv' /\ used' \subseteq Sectors
      /\ live' \in [AllNames -> Extents \cup {None}]
  BY <1>1, <1>2, <1>4, <1>5, <1>6, ClaimKeepsLive
<1>8. TypeOK'
  BY <1>1, <1>2, <1>7 DEF TypeOK
<1>9. JobInv'
  BY <1>2 DEF JobInv, Busy, Writing
<1>10. BootInv'
  BY <1>1, <1>2, BootOver DEF Running, Writing
<1>11. WalkReachesAll'
  BY <1>1, <1>2, SameFlash
<1> QED
  BY <1>7, <1>8, <1>9, <1>10, <1>11 DEF LayoutInv

\* Boot steps: no save is in flight, before or after.
LEMMA NoJob ==
    ASSUME JobInv, pc \notin Busy, pc' \notin Busy, job' = job
    PROVE  JobInv'
BY DEF JobInv

\* The record under the scan's cursor.
LEMMA AtCursor ==
    ASSUME TypeOK, off < NSectors, Fits(off)
    PROVE  /\ off \in Sectors /\ HasHdr(off)
           /\ RecSectors(flash[off].hdr.text) \in Nat \ {0}
           /\ flash[off].hdr.name \in AllNames /\ flash[off].hdr.seq \in Nat
<1>1. off \in Sectors
  BY SizesAssumption DEF TypeOK, Sectors
<1>2. HasHdr(off)
  BY DEF Fits
<1> QED
  BY <1>1, <1>2, HdrType, RecSectorsType

LEMMA Offsets ==
    ASSUME TypeOK
    PROVE  /\ \A n \in Tracked : best[n].off \in Sectors /\ best[n].off \in Nat
           /\ \A n \in Claimed : live[n].off \in Sectors /\ live[n].off \in Nat
<1>1. \A n \in Tracked : best[n] \in Found
  BY DEF TypeOK, Tracked
<1>2. \A n \in Claimed : live[n] \in Extents
  BY DEF TypeOK, Claimed
<1> QED
  BY <1>1, <1>2 DEF Found, Extents, Sectors

\* Steps of the boot that touch neither flash nor table and move the cursor on.
LEMMA CursorStep ==
    ASSUME LayoutInv, pc \notin Busy, pc' \in {"scan", "claim", "idle"},
           UNCHANGED <<flash, used, live, seq, job, k, best>>,
           off' \in Nat, pc' = "scan" => pc \in {"off", "scan"} /\ off <= off',
           pc' = "idle" => best = Nothing
    PROVE  LayoutInv'
<1>1. TypeOK /\ WalkReachesAll /\ JobInv /\ LiveInv /\ BootInv
  BY DEF LayoutInv
<1>2. TypeOK'
  BY <1>1 DEF TypeOK
<1>3. WalkReachesAll' /\ LiveInv' /\ Claimed' = Claimed
  BY <1>1, SameFlash, SameLive
<1>4. JobInv'
  BY <1>1, NoJob DEF Busy, Writing
<1>5. Tracked' = Tracked
  BY DEF Tracked
<1>6. BootInv'
  <2>1. \A n \in Tracked', s \in Sectors : best'[n].off = s =>
            Whole(s)' /\ flash'[s].hdr.name = n /\ flash'[s].hdr.seq = best'[n].seq
    BY <1>1, <1>5, SameFlash DEF BootInv
  <2>2. \A n \in Tracked : best[n].off \in Nat
    BY <1>1, Offsets
  <2>3. \A n \in Claimed : live[n].off \in Nat
    BY <1>1, Offsets
  <2>4. pc = "off" => Tracked = {} /\ Claimed = {}
    BY <1>1 DEF BootInv, Tracked, Claimed, Nothing
  <2>5. pc' = "scan" => \A n \in Tracked' : best'[n].off < off'
    BY <1>1, <1>5, <2>2, <2>4 DEF BootInv, TypeOK
  <2>6. pc' = "scan" => \A n \in Claimed' : live'[n].off < off'
    BY <1>1, <1>3, <2>3, <2>4 DEF BootInv, TypeOK
  <2>7. \A n \in Tracked', m \in Claimed' : live'[m].off # best'[n].off
    BY <1>1, <1>3, <1>5 DEF BootInv
  <2>8. pc' \notin {"scan", "claim"} => best' = Nothing
    OBVIOUS
  <2> QED
    BY <2>1, <2>5, <2>6, <2>7, <2>8 DEF BootInv
<1> QED
  BY <1>2, <1>3, <1>4, <1>6 DEF LayoutInv

LEMMA PlainBootSteps ==
    ASSUME LayoutInv, PowerOn \/ ScanSkip \/ ScanBad \/ ScanEnd \/ BootDone
    PROVE  LayoutInv'
<1>1. TypeOK /\ BootInv
  BY DEF LayoutInv
<1>2. CASE PowerOn
  BY <1>1, <1>2, CursorStep DEF PowerOn, ramVars, BootInv, TypeOK, Busy, Writing
<1>3. CASE ScanSkip
  BY <1>1, <1>3, CursorStep DEF ScanSkip, TypeOK, Busy, Writing
<1>4. CASE ScanBad
  <2>1. RecSectors(flash[off].hdr.text) \in Nat \ {0}
    BY <1>1, <1>4, AtCursor DEF ScanBad
  <2> QED
    BY <1>1, <1>4, <2>1, CursorStep DEF ScanBad, TypeOK, Busy, Writing
<1>5. CASE ScanEnd
  BY <1>1, <1>5, CursorStep DEF ScanEnd, ramVars, TypeOK, Busy, Writing
<1>6. CASE BootDone
  BY <1>1, <1>6, CursorStep DEF BootDone, Busy, Writing
<1> QED
  BY <1>2, <1>3, <1>4, <1>5, <1>6

LEMMA ScanGoodStep ==
    ASSUME LayoutInv, ScanGood
    PROVE  LayoutInv'
<1> DEFINE h == flash[off].hdr
<1>1. TypeOK /\ WalkReachesAll /\ JobInv /\ LiveInv /\ BootInv
  BY DEF LayoutInv
<1>2. /\ pc = "scan" /\ pc' = "scan" /\ Whole(off) /\ off < NSectors
      /\ UNCHANGED <<flash, used, live, job, k>>
      /\ off' = off + RecSectors(h.text)
      /\ seq' = SeqAfter(h)
      /\ best' = IF best[h.name] = None
                 THEN [best EXCEPT ![h.name] = [off |-> off, seq |-> h.seq, first |-> off]]
                 ELSE IF Supersedes(h, best[h.name])
                 THEN [best EXCEPT ![h.name].off = off, ![h.name].seq = h.seq]
                 ELSE best
  BY DEF ScanGood
<1>3. /\ off \in Sectors /\ RecSectors(h.text) \in Nat \ {0}
      /\ h.name \in AllNames /\ h.seq \in Nat
  BY <1>1, <1>2, AtCursor DEF Whole
<1>4. off' \in Nat /\ off < off'
  BY <1>2, <1>3 DEF Sectors
<1>5. /\ best' \in [AllNames -> Found \cup {None}]
      /\ \A n \in AllNames : n # h.name => best'[n] = best[n]
      /\ best'[h.name] # None
      /\ best'[h.name] = best[h.name] \/ (best'[h.name].off = off /\ best'[h.name].seq = h.seq)
  <2>1. CASE best[h.name] = None
    BY <1>1, <1>2, <1>3, <2>1, NoneIsNothing DEF TypeOK, Found
  <2>2. CASE best[h.name] # None /\ Supersedes(h, best[h.name])
    <3>1. best[h.name] \in Found
      BY <1>1, <1>3, <2>2 DEF TypeOK
    <3>2. /\ best' = [best EXCEPT ![h.name] = [@ EXCEPT !.off = off, !.seq = h.seq]]
          /\ [best[h.name] EXCEPT !.off = off, !.seq = h.seq] \in Found
      BY <1>2, <1>3, <2>2, <3>1 DEF Found
    <3> QED
      BY <1>1, <1>3, <3>1, <3>2, NoneIsNothing DEF TypeOK, Found
  <2>3. CASE best[h.name] # None /\ ~Supersedes(h, best[h.name])
    BY <1>1, <1>2, <2>3 DEF TypeOK
  <2> QED
    BY <2>1, <2>2, <2>3
<1>6. TypeOK'
  <2>1. seq' \in Nat
    BY <1>1, <1>2, <1>3 DEF SeqAfter, TypeOK
  <2> QED
    BY <1>1, <1>2, <1>4, <1>5, <2>1 DEF TypeOK
<1>7. WalkReachesAll' /\ LiveInv' /\ Claimed' = Claimed
  BY <1>1, <1>2, SameFlash, SameLive
<1>8. JobInv'
  BY <1>1, <1>2, NoJob DEF Busy, Writing
<1>9. ASSUME NEW n \in Tracked'
      PROVE  /\ n \in AllNames
             /\ \/ n \in Tracked /\ best'[n] = best[n]
                \/ n = h.name /\ best'[n].off = off /\ best'[n].seq = h.seq
  BY <1>5, <1>9 DEF Tracked
<1>10. BootInv'
  <2>1. ASSUME NEW n \in Tracked', NEW s \in Sectors, best'[n].off = s
        PROVE  Whole(s)' /\ flash'[s].hdr.name = n /\ flash'[s].hdr.seq = best'[n].seq
    <3>1. Whole(s)' <=> Whole(s)
      BY <1>2, SameFlash
    <3>2. CASE n \in Tracked /\ best'[n] = best[n]
      <4>1. n \in Tracked /\ best[n].off = s /\ best'[n].seq = best[n].seq
        BY <2>1, <3>2
      <4>2. Whole(s) /\ flash[s].hdr.name = n /\ flash[s].hdr.seq = best[n].seq
        BY <1>1, <4>1 DEF BootInv
      <4> QED
        BY <1>2, <3>1, <4>1, <4>2
    <3>3. CASE n = h.name /\ best'[n].off = off /\ best'[n].seq = h.seq
      BY <1>2, <2>1, <3>1, <3>3
    <3> QED
      BY <1>9, <3>2, <3>3
  <2>2. \A n \in Tracked' : best'[n].off < off'
    <3> TAKE n \in Tracked'
    <3>1. CASE n \in Tracked /\ best'[n] = best[n]
      <4>1. best[n].off < off /\ best[n].off \in Nat
        BY <1>1, <1>2, <3>1, Offsets DEF BootInv
      <4>2. off \in Nat /\ off' \in Nat /\ off < off'
        BY <1>1, <1>4 DEF TypeOK
      <4>3. best[n].off < off'
        BY <4>1, <4>2
      <4> QED
        BY <3>1, <4>3
    <3> QED
      BY <1>4, <1>9, <3>1
  <2>3. \A m \in Claimed' : live'[m].off < off'
    <3>1. \A m \in Claimed : live[m].off < off /\ live[m].off \in Nat
      BY <1>1, <1>2, Offsets DEF BootInv
    <3>2. off \in Nat /\ off' \in Nat /\ off < off'
      BY <1>1, <1>4 DEF TypeOK
    <3>3. Claimed' = Claimed /\ live' = live
      BY <1>2, <1>7
    <3>4. \A m \in Claimed : live[m].off < off'
      BY <3>1, <3>2
    <3> QED
      BY <3>3, <3>4
  <2>4. \A n \in Tracked', m \in Claimed' : live'[m].off # best'[n].off
    <3> TAKE n \in Tracked', m \in Claimed'
    <3>1. CASE n \in Tracked /\ best'[n] = best[n]
      <4>1. m \in Claimed /\ live'[m] = live[m]
        BY <1>2, <1>7
      <4>2. live[m].off # best[n].off
        BY <1>1, <3>1, <4>1 DEF BootInv
      <4> QED
        BY <3>1, <4>1, <4>2
    <3>2. CASE best'[n].off = off
      <4>1. live[m].off < off
        BY <1>1, <1>2, <1>7 DEF BootInv
      <4>2. live'[m] = live[m] /\ m \in Claimed /\ live[m].off \in Nat /\ off \in Nat
        BY <1>1, <1>2, <1>7, Offsets DEF TypeOK
      <4>3. live[m].off # off
        BY <4>1, <4>2
      <4> QED
        BY <3>2, <4>2, <4>3
    <3> QED
      BY <1>9, <3>1, <3>2
  <2> QED
    BY <1>2, <2>1, <2>2, <2>3, <2>4 DEF BootInv
<1> QED
  BY <1>6, <1>7, <1>8, <1>10 DEF LayoutInv

LEMMA ScanHoldStep ==
    ASSUME LayoutInv, ScanHold
    PROVE  LayoutInv'
<1> DEFINE h == flash[off].hdr
<1>1. TypeOK /\ WalkReachesAll /\ JobInv /\ LiveInv /\ BootInv
  BY DEF LayoutInv
<1>2. /\ pc = "scan" /\ pc' = "scan" /\ Whole(off) /\ off < NSectors
      /\ best[h.name] = None
      /\ UNCHANGED <<flash, job, k, best>>
      /\ off' = off + RecSectors(h.text)
      /\ seq' = SeqAfter(h)
      /\ LiveClaim(Scratch, off, RecSectors(h.text))
  BY DEF ScanHold
<1>3. /\ off \in Sectors /\ RecSectors(h.text) \in Nat \ {0}
      /\ h.name \in AllNames /\ h.seq \in Nat
  BY <1>1, <1>2, AtCursor DEF Whole
<1>4. off \in Nat /\ off' \in Nat /\ off < off'
  BY <1>2, <1>3 DEF Sectors
<1>5. \A m \in Claimed : live[m].off < off /\ live[m].off # off
  BY <1>1, <1>2, <1>4, Offsets DEF BootInv
<1>6. /\ LiveInv' /\ used' \subseteq Sectors
      /\ live' \in [AllNames -> Extents \cup {None}]
      /\ \A m \in Claimed' : (m \in Claimed /\ live'[m] = live[m]) \/ live'[m].off = off
  BY <1>1, <1>2, <1>3, <1>5, ScratchIsAName, ClaimKeepsLive DEF AllNames
<1>7. TypeOK'
  <2>1. seq' \in Nat
    BY <1>1, <1>2, <1>3 DEF SeqAfter, TypeOK
  <2> QED
    BY <1>1, <1>2, <1>4, <1>6, <2>1 DEF TypeOK
<1>8. WalkReachesAll'
  BY <1>1, <1>2, SameFlash
<1>9. JobInv'
  BY <1>1, <1>2, NoJob DEF Busy, Writing
<1>10. BootInv'
  <2>1. Tracked' = Tracked
    BY <1>2 DEF Tracked
  <2>2. \A n \in Tracked', s \in Sectors : best'[n].off = s =>
            Whole(s)' /\ flash'[s].hdr.name = n /\ flash'[s].hdr.seq = best'[n].seq
    BY <1>1, <1>2, <2>1, SameFlash DEF BootInv
  <2>3. \A n \in Tracked : best[n].off < off'
    <3>1. \A n \in Tracked : best[n].off < off /\ best[n].off \in Nat
      BY <1>1, <1>2, Offsets DEF BootInv
    <3> QED
      BY <1>4, <3>1
  <2>4. \A m \in Claimed' : live'[m].off < off'
    <3>1. \A m \in Claimed : live[m].off < off'
      BY <1>1, <1>4, <1>5, Offsets
    <3> QED
      BY <1>4, <1>6, <3>1
  <2>5. \A n \in Tracked : best[n].off # off
    <3> TAKE n \in Tracked
    <3>1. best[n].off \in Sectors
      BY <1>1, Offsets
    <3>2. flash[best[n].off].hdr.name = n /\ n # h.name
      BY <1>1, <1>2, <3>1 DEF BootInv, Tracked
    <3> QED
      BY <3>2
  <2>6. \A n \in Tracked, m \in Claimed' : live'[m].off # best[n].off
    <3> TAKE n \in Tracked, m \in Claimed'
    <3>1. CASE m \in Claimed /\ live'[m] = live[m]
      BY <1>1, <3>1 DEF BootInv
    <3> QED
      BY <1>6, <2>5, <3>1
  <2> QED
    BY <1>2, <2>1, <2>2, <2>3, <2>4, <2>6 DEF BootInv
<1> QED
  BY <1>6, <1>7, <1>8, <1>9, <1>10 DEF LayoutInv

LEMMA ClaimBestStep ==
    ASSUME LayoutInv, NEW n \in AllNames, ClaimBest(n)
    PROVE  LayoutInv'
<1> DEFINE p == best[n].off
<1>1. TypeOK /\ WalkReachesAll /\ JobInv /\ LiveInv /\ BootInv
  BY DEF LayoutInv
<1>2. /\ pc = "claim" /\ pc' = "claim" /\ best[n] # None
      /\ UNCHANGED <<flash, seq, job, k, off>>
      /\ best' = [best EXCEPT ![n] = None]
      /\ LiveClaim(n, p, RecSectors(flash[p].hdr.text))
  BY DEF ClaimBest
<1>3. n \in Tracked /\ p \in Sectors
  BY <1>1, <1>2, Offsets DEF Tracked
<1>4. Whole(p) /\ flash[p].hdr.name = n /\ \A m \in Claimed : live[m].off # p
  BY <1>1, <1>3 DEF BootInv
<1>5. /\ LiveInv' /\ used' \subseteq Sectors
      /\ live' \in [AllNames -> Extents \cup {None}]
      /\ \A m \in Claimed' : (m \in Claimed /\ live'[m] = live[m]) \/ live'[m].off = p
  BY <1>1, <1>2, <1>3, <1>4, ClaimKeepsLive
<1>6. /\ best' \in [AllNames -> Found \cup {None}]
      /\ \A m \in Tracked' : m \in Tracked /\ m # n /\ best'[m] = best[m]
  BY <1>1, <1>2 DEF TypeOK, Tracked
<1>7. TypeOK'
  BY <1>1, <1>2, <1>5, <1>6 DEF TypeOK
<1>8. WalkReachesAll'
  BY <1>1, <1>2, SameFlash
<1>9. JobInv'
  BY <1>1, <1>2, NoJob DEF Busy, Writing
<1>10. BootInv'
  <2>1. ASSUME NEW m \in Tracked'
        PROVE  /\ m \in Tracked /\ best'[m] = best[m] /\ best[m].off \in Sectors
               /\ flash[best[m].off].hdr.name = m /\ m # n /\ best[m].off # p
    <3>1. m \in Tracked /\ m # n /\ best'[m] = best[m] /\ best[m].off \in Sectors
      BY <1>1, <1>6, Offsets
    <3>2. flash[best[m].off].hdr.name = m
      BY <1>1, <3>1 DEF BootInv
    <3> QED
      BY <1>4, <3>1, <3>2
  <2>2. \A m \in Tracked', s \in Sectors : best'[m].off = s =>
            Whole(s)' /\ flash'[s].hdr.name = m /\ flash'[s].hdr.seq = best'[m].seq
    BY <1>1, <1>2, <2>1, SameFlash DEF BootInv
  <2>3. \A m \in Tracked', o \in Claimed' : live'[o].off # best'[m].off
    <3> TAKE m \in Tracked', o \in Claimed'
    <3>1. CASE o \in Claimed /\ live'[o] = live[o]
      BY <1>1, <2>1, <3>1 DEF BootInv
    <3> QED
      BY <1>5, <2>1, <3>1
  <2> QED
    BY <1>2, <2>2, <2>3 DEF BootInv
<1> QED
  BY <1>5, <1>7, <1>8, <1>9, <1>10 DEF LayoutInv

LEMMA Stutter ==
    ASSUME LayoutInv, UNCHANGED vars
    PROVE  LayoutInv'
<1>1. UNCHANGED <<flash, used, live, seq, pc, job, k, off, best>>
  BY DEF vars
<1>2. TypeOK'
  BY <1>1 DEF LayoutInv, TypeOK
<1>3. WalkReachesAll' /\ LiveInv' /\ Claimed' = Claimed
  BY <1>1, SameFlash, SameLive DEF LayoutInv
<1>4. JobInv'
  <2>1. \A s \in Sectors : HasHdr(s)' <=> HasHdr(s)
    BY <1>1, SameFlash
  <2>2. JobHdr' = JobHdr
    BY <1>1 DEF JobHdr
  <2> QED
    BY <1>1, <2>1, <2>2 DEF LayoutInv, JobInv, JobApart, JobProgress, PayloadDown
<1>5. BootInv'
  <2>1. Tracked' = Tracked
    BY <1>1 DEF Tracked
  <2>2. \A n \in Tracked', s \in Sectors : best'[n].off = s =>
            Whole(s)' /\ flash'[s].hdr.name = n /\ flash'[s].hdr.seq = best'[n].seq
    BY <1>1, <2>1, SameFlash DEF LayoutInv, BootInv
  <2> QED
    BY <1>1, <1>3, <2>1, <2>2 DEF LayoutInv, BootInv
<1> QED
  BY <1>2, <1>3, <1>4, <1>5 DEF LayoutInv

LEMMA LayoutInit == Init => LayoutInv
<1> SUFFICES ASSUME Init PROVE LayoutInv
  OBVIOUS
<1>1. /\ Claimed = {} /\ Tracked = {}
      /\ \A s \in Sectors : ~HasHdr(s)
  BY DEF Init, Claimed, Tracked, Nothing, HasHdr, Erased
<1>2. TypeOK
  BY DEF Init, TypeOK, Erased, Payload, Nothing
<1>3. WalkReachesAll
  BY <1>1 DEF WalkReachesAll
<1>4. JobInv
  BY DEF Init, JobInv, Busy, Writing
<1>5. LiveInv
  BY <1>1 DEF Init, LiveInv
<1>6. BootInv
  BY <1>1 DEF Init, BootInv
<1> QED
  BY <1>2, <1>3, <1>4, <1>5, <1>6 DEF LayoutInv

LEMMA LayoutStep == LayoutInv /\ [Next]_vars => LayoutInv'
<1> SUFFICES ASSUME LayoutInv, [Next]_vars PROVE LayoutInv'
  OBVIOUS
<1>1. CASE Boot
  BY <1>1, PlainBootSteps, ScanGoodStep, ScanHoldStep, ClaimBestStep DEF Boot
<1>2. CASE Save
  BY <1>2, SaveBeginStep, EraseSectorStep, WriteChunkStep, WriteHeaderStep, SaveDoneStep DEF Save
<1>3. CASE Fault
  BY <1>3, PowerCutStep, SaveErrorStep, TornEraseStep, TornHeaderStep DEF Fault
<1>4. CASE UNCHANGED vars
  BY <1>4, Stutter
<1> QED
  BY <1>1, <1>2, <1>3, <1>4 DEF Next

\* The layout invariant holds throughout every run.
THEOREM LayoutHolds == Spec => []LayoutInv
BY LayoutInit, LayoutStep, PTL DEF Spec

\* Everything the journal keeps has its type: no sector outside the partition
\* is ever marked, allocated or erased.
THEOREM TypeCorrect == Spec => []TypeOK
<1>1. LayoutInv => TypeOK
  BY DEF LayoutInv
<1> QED
  BY <1>1, LayoutHolds, PTL

\* The boot walk never steps over the start of a record, whatever was cut off
\* and whatever stale records the partition holds (journal.c:302-361).
THEOREM WalkMissesNothing == Spec => []WalkReachesAll
<1>1. LayoutInv => WalkReachesAll
  BY DEF LayoutInv
<1> QED
  BY <1>1, LayoutHolds, PTL

\* The table of live sectors is exact whenever the journal may allocate, even
\* when it is too small for the archive (journal.c:130-166).
THEOREM TableExact == Spec => []LiveExact
<1>1. ASSUME LayoutInv
      PROVE  LiveExact
  <2>1. TypeOK /\ WalkReachesAll /\ LiveInv
    BY <1>1 DEF LayoutInv
  <2>2. ASSUME NEW n \in Claimed
        PROVE  /\ live[n].off \in Sectors /\ Whole(live[n].off) /\ HasHdr(live[n].off)
               /\ Covers(live[n]) = Extent(live[n].off, flash[live[n].off].hdr.text)
               /\ Covers(live[n]) \subseteq Sectors
    <3>1. live[n].off \in Sectors
      BY <2>1, Offsets
    <3>2. Whole(live[n].off) /\ live[n].sectors = RecSectors(flash[live[n].off].hdr.text)
      BY <2>1, <3>1 DEF LiveInv
    <3>3. Covers(live[n]) = Extent(live[n].off, flash[live[n].off].hdr.text)
      BY <3>2 DEF Covers, Extent
    <3> QED
      BY <2>1, <3>1, <3>2, <3>3, WholeFits
  <2>3. \A n, m \in Claimed : n # m => Covers(live[n]) \cap Covers(live[m]) = {}
    <3> TAKE n, m \in Claimed
    <3> HAVE n # m
    <3>1. live[n].off # live[m].off
      BY <2>1 DEF LiveInv
    <3> QED
      BY <2>1, <2>2, <3>1, RecordsApart
  <2>4. used = UNION {Covers(live[n]) : n \in Claimed}
    BY <2>1, <2>2 DEF LiveInv, TypeOK
  <2> QED
    BY <2>2, <2>3, <2>4 DEF LiveExact
<1> QED
  BY <1>1, LayoutHolds, PTL
-----------------------------------------------------------------------------
(***************************************************************************)
(* The table does not merely hold whole records, it holds the newest one   *)
(* of every document.  That rests on the layout and on Room: the table has *)
(* a slot for every name the partition can hold, which is what             *)
(* journal.c:103-112 sizes it for.  Without Room it is false: a document   *)
(* the table has no slot for is erased under its reader.  From it the      *)
(* refinement follows: doc_save() replaces a document whole or not at all, *)
(* as Archive promises.                                                    *)
(***************************************************************************)

Room == Cardinality(AllNames) <= MaxNames

\* Records that count: whole, and under a name some document can have.
Counts(s) == Whole(s) /\ flash[s].hdr.name # Garbled

\* The header just written, which s_seq and the table do not know of yet.
Pending(s) == pc = "claimnew" /\ s = job.start

\* No two records of a document have the same number.
OneOfEach ==
    \A s, r \in Sectors :
        /\ Counts(s) /\ Counts(r)
        /\ flash[s].hdr.name = flash[r].hdr.name /\ flash[s].hdr.seq = flash[r].hdr.seq
        => s = r

\* s_seq is the highest number on flash, or of the part walked so far.
SeqIsNewest ==
    \A s \in Sectors :
        Counts(s) /\ ~Pending(s) /\ pc # "off" /\ (pc = "scan" => s < off) =>
            flash[s].hdr.seq <= seq

LiveIsNamed ==
    /\ \A n \in Claimed, s \in Sectors : live[n].off = s => flash[s].hdr.name = n
    /\ pc \in {"off", "scan"} => live = Nothing

InTable(s) ==
    LET n == flash[s].hdr.name
    IN  /\ live[n] # None
        /\ \A r \in Sectors : live[n].off = r => flash[s].hdr.seq <= flash[r].hdr.seq

InBest(s) ==
    LET n == flash[s].hdr.name IN best[n] # None /\ flash[s].hdr.seq <= best[n].seq

\* Every record that counts is no newer than what is remembered of its name.
Remembered ==
    \A s \in Sectors : Counts(s) /\ ~Pending(s) =>
        /\ pc = "scan" /\ s < off => InBest(s)
        /\ pc = "claim" => InBest(s) \/ InTable(s)
        /\ pc \in Running => InTable(s)

\* A name is being claimed once: it is in best[] or in the table.
ClaimedOnce == \A n \in Tracked : live[n] = None

NewestInv == OneOfEach /\ SeqIsNewest /\ LiveIsNamed /\ Remembered /\ ClaimedOnce

-----------------------------------------------------------------------------
\* With Room there is a slot, in best[] and in the table, for a name that has
\* none yet.
LEMMA SlotLeft ==
    ASSUME Room, NEW S \in SUBSET AllNames, NEW n \in AllNames, n \notin S
    PROVE  Cardinality(S) < MaxNames
<1>1. IsFiniteSet(AllNames)
  BY NamesFinite, FS_AddElement DEF AllNames
<1>2. IsFiniteSet(S) /\ Cardinality(S) <= Cardinality(AllNames)
  BY <1>1, FS_Subset
<1>3. Cardinality(S) # Cardinality(AllNames)
  BY <1>1, FS_Subset
<1>4. Cardinality(S) \in Nat /\ Cardinality(AllNames) \in Nat
  BY <1>1, <1>2, FS_CardinalityType
<1> QED
  BY <1>2, <1>3, <1>4, SizesAssumption DEF Room

\* A step that brings no record to life, and leaves the table's records alone.
Quiet ==
    /\ \A s \in Sectors : Counts(s)' => Counts(s) /\ flash'[s].hdr = flash[s].hdr
    /\ \A n \in Claimed : flash'[live[n].off] = flash[live[n].off]

\* The sectors of the job are none of the table's.
LEMMA TableAlone ==
    ASSUME LayoutInv, job # None,
           \A r \in Sectors \ Extent(job.start, job.text) : flash'[r] = flash[r]
    PROVE  \A n \in Claimed : flash'[live[n].off] = flash[live[n].off]
<1> TAKE n \in Claimed
<1>1. TypeOK /\ LiveInv /\ JobApart
  BY DEF LayoutInv, JobInv
<1>2. live[n].off \in Sectors /\ live[n].off \in Nat
  BY <1>1, Offsets
<1>3. Whole(live[n].off) /\ live[n].sectors = RecSectors(flash[live[n].off].hdr.text)
  BY <1>1, <1>2 DEF LiveInv
<1>4. live[n].sectors \in Nat \ {0}
  BY <1>1, <1>2, <1>3, WholeFits, RecSectorsType
<1>5. live[n].off \in Covers(live[n])
  BY <1>2, <1>4 DEF Covers
<1>6. live[n].off \in used
  BY <1>1, <1>2, <1>5 DEF LiveInv
<1> QED
  BY <1>1, <1>2, <1>6 DEF JobApart

LEMMA SameFlashQuiet ==
    ASSUME flash' = flash
    PROVE  Quiet /\ \A s \in Sectors : Counts(s)' <=> Counts(s)
BY SameFlash DEF Quiet, Counts

\* Erasing, whole or torn, brings nothing to life.
LEMMA EraseQuiet ==
    ASSUME LayoutInv, EraseSector \/ TornErase
    PROVE  Quiet
<1> DEFINE e == job.start + k
<1>1. TypeOK /\ JobInv /\ pc = "erase" /\ job # None
  BY DEF LayoutInv, EraseSector, TornErase, JobInv, Busy, Writing
<1>2. k \in Nat /\ e \in Sectors /\ e \in Extent(job.start, job.text)
  BY <1>1, JobType DEF JobProgress, TypeOK
<1>3. /\ \A s \in Sectors : s # e => flash'[s] = flash[s]
      /\ flash'[e].pay = Blank
      /\ flash'[e].hdr = NoHdr \/ flash'[e].hdr = flash[e].hdr
  BY <1>1, <1>2 DEF EraseSector, TornErase, TypeOK, Erased
<1>4. ASSUME NEW s \in Sectors, Whole(s)'
      PROVE  Whole(s) /\ flash'[s].hdr = flash[s].hdr
  <2> DEFINE t == flash[s].hdr.text
  <2>1. HasHdr(s)'
    BY <1>4 DEF Whole, Fits
  <2>2. flash'[s].hdr = flash[s].hdr /\ HasHdr(s)
    BY <1>3, <2>1 DEF HasHdr
  <2>3. t \in Texts /\ RecSectors(t) \in Nat /\ Chunks[t] \in Nat /\ Chunks[t] <= RecSectors(t)
    BY <1>1, <2>2, HdrType, RecSectorsType
  <2>4. /\ s + RecSectors(t) <= NSectors /\ flash[s].hdr.crc
        /\ \A i \in 0 .. Chunks[t] - 1 : flash'[s + i].pay = [text |-> t, at |-> i]
    BY <1>4, <2>2 DEF Whole, Fits
  <2>5. ASSUME NEW i \in 0 .. Chunks[t] - 1
        PROVE  flash[s + i].pay = [text |-> t, at |-> i]
    <3>1. s + i \in Sectors
      BY <2>3, <2>4, SizesAssumption DEF Sectors
    <3>2. flash'[s + i].pay = [text |-> t, at |-> i]
      BY <2>4
    <3>3. flash'[s + i].pay # Blank
      BY <2>3, <3>2, NoneIsNothing DEF Blank
    <3> QED
      BY <1>3, <3>1, <3>2, <3>3
  <2> QED
    BY <2>2, <2>4, <2>5 DEF Whole, Fits
<1>5. \A r \in Sectors \ Extent(job.start, job.text) : flash'[r] = flash[r]
  BY <1>2, <1>3
<1>6. \A s \in Sectors : Counts(s)' => Counts(s) /\ flash'[s].hdr = flash[s].hdr
  BY <1>4 DEF Counts
<1> QED
  BY <1>1, <1>5, <1>6, TableAlone DEF Quiet

\* Payload lands where no header is and no record reaches.
LEMMA WriteChunkQuiet ==
    ASSUME LayoutInv, WriteChunk
    PROVE  Quiet
<1> DEFINE e == job.start + k
<1>1. TypeOK /\ JobInv /\ pc = "payload" /\ job # None
  BY DEF LayoutInv, WriteChunk, JobInv, Busy, Writing
<1>2. k \in Nat /\ k < Chunks[job.text] /\ e \in Sectors /\ e \in Extent(job.start, job.text)
  BY <1>1, JobType DEF JobProgress, TypeOK
<1>3. /\ \A s \in Sectors : s # e => flash'[s] = flash[s]
      /\ \A s \in Sectors : flash'[s].hdr = flash[s].hdr
  BY <1>1, <1>2 DEF WriteChunk, TypeOK
<1>4. ASSUME NEW s \in Sectors, Whole(s)'
      PROVE  Whole(s)
  <2> DEFINE t == flash[s].hdr.text
  <2>1. HasHdr(s)
    BY <1>3, <1>4 DEF Whole, Fits, HasHdr
  <2>2. t \in Texts /\ RecSectors(t) \in Nat /\ Chunks[t] \in Nat /\ Chunks[t] <= RecSectors(t)
    BY <1>1, <2>1, HdrType, RecSectorsType
  <2>3. /\ s + RecSectors(t) <= NSectors /\ flash[s].hdr.crc
        /\ \A i \in 0 .. Chunks[t] - 1 : flash'[s + i].pay = [text |-> t, at |-> i]
    BY <1>3, <1>4 DEF Whole, Fits
  <2>4. s \notin Extent(job.start, job.text)
    BY <1>1, <2>1, JobType DEF JobProgress
  <2>5. s < job.start => s + RecSectors(t) <= job.start
    BY <1>1, <2>1, JobType DEF JobApart
  <2>6. \A i \in 0 .. Chunks[t] - 1 : s + i \in Sectors /\ s + i # e
    BY <1>1, <1>2, <2>2, <2>3, <2>4, <2>5, JobType, SizesAssumption DEF Sectors, Extent
  <2>7. \A i \in 0 .. Chunks[t] - 1 : flash[s + i].pay = [text |-> t, at |-> i]
    BY <1>3, <2>3, <2>6
  <2> QED
    BY <2>1, <2>3, <2>7 DEF Whole, Fits
<1>5. \A r \in Sectors \ Extent(job.start, job.text) : flash'[r] = flash[r]
  BY <1>2, <1>3
<1>6. \A s \in Sectors : Counts(s)' => Counts(s) /\ flash'[s].hdr = flash[s].hdr
  BY <1>3, <1>4 DEF Counts
<1> QED
  BY <1>1, <1>5, <1>6, TableAlone DEF Quiet

\* A header brings at most its own record to life.
LEMMA HeaderQuiet ==
    ASSUME LayoutInv, pc = "header",
           NEW h \in Headers, h.text = job.text,
           flash' = [flash EXCEPT ![job.start].hdr = h]
    PROVE  /\ \A s \in Sectors : s # job.start /\ Counts(s)' =>
                   Counts(s) /\ flash'[s].hdr = flash[s].hdr
           /\ flash'[job.start].hdr = h
           /\ \A n \in Claimed : flash'[live[n].off] = flash[live[n].off]
<1>1. TypeOK /\ JobInv /\ job # None
  BY DEF LayoutInv, JobInv, Busy, Writing
<1>2. /\ \A s \in Sectors : s # job.start => flash'[s] = flash[s]
      /\ flash'[job.start].hdr = h
      /\ \A s \in Sectors : flash'[s].pay = flash[s].pay
  BY NewHeader
<1>3. ASSUME NEW s \in Sectors, s # job.start, Whole(s)'
      PROVE  Whole(s) /\ flash'[s].hdr = flash[s].hdr
  <2> DEFINE t == flash[s].hdr.text
  <2>1. HasHdr(s) /\ flash'[s].hdr = flash[s].hdr
    BY <1>2, <1>3 DEF Whole, Fits, HasHdr
  <2>2. t \in Texts /\ RecSectors(t) \in Nat /\ Chunks[t] \in Nat /\ Chunks[t] <= RecSectors(t)
    BY <1>1, <2>1, HdrType, RecSectorsType
  <2>3. /\ s + RecSectors(t) <= NSectors /\ flash[s].hdr.crc
        /\ \A i \in 0 .. Chunks[t] - 1 : flash'[s + i].pay = [text |-> t, at |-> i]
    BY <1>3, <2>1 DEF Whole, Fits
  <2>4. \A i \in 0 .. Chunks[t] - 1 : s + i \in Sectors
    BY <2>2, <2>3, SizesAssumption DEF Sectors
  <2>5. \A i \in 0 .. Chunks[t] - 1 : flash[s + i].pay = [text |-> t, at |-> i]
    BY <1>2, <2>3, <2>4
  <2> QED
    BY <2>1, <2>3, <2>5 DEF Whole, Fits
<1>4. job.start \in Extent(job.start, job.text)
  BY <1>1, JobType DEF Extent, Sectors
<1>5. \A n \in Claimed : flash'[live[n].off] = flash[live[n].off]
  BY <1>1, <1>2, <1>4, TableAlone
<1> QED
  BY <1>2, <1>3, <1>5 DEF Counts

Between == {"idle"} \cup Writing

\* Between a boot and the end of a save the table stays right as long as the
\* flash is quiet.
LEMMA QuietStep ==
    ASSUME LayoutInv, NewestInv, Quiet, pc \in Between, pc' \in Between,
           UNCHANGED <<used, live, seq, best>>
    PROVE  NewestInv'
<1>1. TypeOK /\ (\A s \in Sectors : ~Pending(s) /\ ~Pending(s)')
  BY DEF LayoutInv, Pending, Between, Writing
<1>2. \A s \in Sectors : Counts(s)' => Counts(s) /\ flash'[s].hdr = flash[s].hdr
  BY DEF Quiet
<1>3. Claimed' = Claimed /\ Tracked' = Tracked
  BY DEF Claimed, Tracked
<1>4. OneOfEach'
  BY <1>2 DEF NewestInv, OneOfEach
<1>5. SeqIsNewest'
  BY <1>1, <1>2 DEF NewestInv, SeqIsNewest, Between, Writing
<1>6. \A n \in Claimed, s \in Sectors : live[n].off = s => flash'[s] = flash[s]
  BY DEF Quiet
<1>7. LiveIsNamed'
  BY <1>3, <1>6 DEF NewestInv, LiveIsNamed, Between, Writing
<1>8. ASSUME NEW s \in Sectors, Counts(s)'
      PROVE  InTable(s)'
  <2>1. InTable(s) /\ flash'[s].hdr = flash[s].hdr
    BY <1>1, <1>2, <1>8 DEF NewestInv, Remembered, Between, Running
  <2>2. flash[s].hdr.name \in AllNames
    BY <1>1, <1>2, <1>8, HdrType DEF Counts, Whole, Fits
  <2>3. flash[s].hdr.name \in Claimed
    BY <2>1, <2>2 DEF InTable, Claimed
  <2> QED
    BY <1>6, <2>1, <2>3 DEF InTable
<1>9. Remembered'
  BY <1>8 DEF Remembered, Between, Writing
<1>10. ClaimedOnce'
  BY <1>3 DEF NewestInv, ClaimedOnce
<1> QED
  BY <1>4, <1>5, <1>7, <1>9, <1>10 DEF NewestInv

\* With the power gone all that matters is that the flash was quiet.
LEMMA LosePowerStep ==
    ASSUME LayoutInv, OneOfEach, LosePower,
           \A s \in Sectors : Counts(s)' => Counts(s) /\ flash'[s].hdr = flash[s].hdr
    PROVE  NewestInv'
<1>1. /\ pc' = "off" /\ live' = Nothing /\ best' = Nothing
      /\ Claimed' = {} /\ Tracked' = {}
  BY DEF LosePower, Nothing, Claimed, Tracked
<1>2. OneOfEach'
  BY DEF OneOfEach
<1>3. SeqIsNewest' /\ LiveIsNamed' /\ Remembered' /\ ClaimedOnce'
  BY <1>1 DEF SeqIsNewest, LiveIsNamed, Remembered, ClaimedOnce, Running, Writing
<1> QED
  BY <1>2, <1>3 DEF NewestInv

LEMMA SaveNewest ==
    ASSUME LayoutInv, NewestInv,
           (\E n \in Names, t \in Texts : SaveBegin(n, t)) \/ EraseSector \/ WriteChunk
    PROVE  NewestInv'
<1>1. CASE \E n \in Names, t \in Texts : SaveBegin(n, t)
  BY <1>1, SameFlashQuiet, QuietStep DEF SaveBegin, Between, Writing
<1>2. CASE EraseSector
  <2>1. pc \in Between /\ pc' \in Between /\ UNCHANGED <<used, live, seq, best>>
    BY <1>2 DEF EraseSector, Between, Writing
  <2> QED
    BY <1>2, <2>1, EraseQuiet, QuietStep
<1>3. CASE WriteChunk
  <2>1. pc \in Between /\ pc' \in Between /\ UNCHANGED <<used, live, seq, best>>
    BY <1>3 DEF WriteChunk, Between, Writing
  <2> QED
    BY <1>3, <2>1, WriteChunkQuiet, QuietStep
<1> QED
  BY <1>1, <1>2, <1>3

LEMMA FaultNewest ==
    ASSUME LayoutInv, NewestInv, Fault
    PROVE  NewestInv'
<1>1. ASSUME pc \in Writing, Quiet, LosePower \/ ReturnError
      PROVE  NewestInv'
  <2>1. CASE LosePower
    BY <1>1, <2>1, LosePowerStep DEF NewestInv, Quiet
  <2>2. CASE ReturnError
    BY <1>1, <2>2, QuietStep DEF ReturnError, Between
  <2> QED
    BY <1>1, <2>1, <2>2
<1>2. CASE PowerCut
  BY <1>2, SameFlashQuiet, LosePowerStep DEF PowerCut, NewestInv, Quiet
<1>3. CASE SaveError
  BY <1>1, <1>3, SameFlashQuiet DEF SaveError
<1>4. CASE TornErase
  BY <1>1, <1>4, EraseQuiet DEF TornErase, Writing
<1>5. CASE TornHeader
  <2>1. TypeOK /\ JobInv /\ pc = "header" /\ job # None
    BY <1>5 DEF LayoutInv, TornHeader, JobInv, Busy, Writing
  <2>2. PICK h \in {[JobHdr EXCEPT !.crc = FALSE], [JobHdr EXCEPT !.name = Garbled]} :
            flash' = [flash EXCEPT ![job.start].hdr = h]
    BY <1>5 DEF TornHeader
  <2>3. JobHdr \in Headers /\ JobHdr.text = job.text
    BY <2>1, JobType DEF JobHdr, Headers, TypeOK, AllNames
  <2>4. h \in Headers /\ h.text = job.text /\ (h.crc = FALSE \/ h.name = Garbled)
    BY <2>2, <2>3 DEF Headers, AllNames
  <2>5. /\ \A s \in Sectors : s # job.start /\ Counts(s)' =>
                Counts(s) /\ flash'[s].hdr = flash[s].hdr
        /\ flash'[job.start].hdr = h
        /\ \A n \in Claimed : flash'[live[n].off] = flash[live[n].off]
    BY <2>1, <2>2, <2>4, HeaderQuiet
  <2>6. Quiet
    <3>1. ASSUME NEW s \in Sectors, Counts(s)'
          PROVE  s # job.start
      <4> SUFFICES ASSUME s = job.start PROVE FALSE
        OBVIOUS
      <4>1. flash'[s].hdr = h
        BY <2>5
      <4> QED
        BY <2>4, <3>1, <4>1 DEF Counts, Whole
    <3> QED
      BY <2>5, <3>1 DEF Quiet
  <2> QED
    BY <1>1, <1>5, <2>1, <2>6 DEF TornHeader, Writing
<1> QED
  BY <1>2, <1>3, <1>4, <1>5 DEF Fault

\* The new record gets a number above all of its name's.
LEMMA WriteHeaderNewest ==
    ASSUME LayoutInv, NewestInv, WriteHeader
    PROVE  NewestInv'
<1>1. /\ TypeOK /\ JobInv /\ pc = "header" /\ pc' = "claimnew" /\ job # None
      /\ UNCHANGED <<used, live, seq, job, k, off, best>>
  BY DEF LayoutInv, WriteHeader, ramVars, JobInv, Busy, Writing
<1>2. JobHdr \in Headers /\ JobHdr.text = job.text /\ JobHdr.seq = seq + 1 /\ seq \in Nat
  BY <1>1, JobType DEF JobHdr, Headers, TypeOK, AllNames
<1>3. /\ \A s \in Sectors : s # job.start /\ Counts(s)' =>
             Counts(s) /\ flash'[s].hdr = flash[s].hdr
      /\ flash'[job.start].hdr = JobHdr
      /\ \A n \in Claimed : flash'[live[n].off] = flash[live[n].off]
  BY <1>1, <1>2, HeaderQuiet DEF WriteHeader
<1>4. \A s \in Sectors : ~Pending(s) /\ (Pending(s)' <=> s = job.start)
  BY <1>1 DEF Pending
<1>5. \A s \in Sectors : Counts(s) => flash[s].hdr.seq <= seq /\ flash[s].hdr.seq \in Nat
  BY <1>1, <1>4, HdrType DEF NewestInv, SeqIsNewest, Counts, Whole, Fits
<1>6. OneOfEach'
  <2>1. ASSUME NEW s \in Sectors, NEW r \in Sectors, Counts(s)', Counts(r)',
               flash'[s].hdr.name = flash'[r].hdr.name, flash'[s].hdr.seq = flash'[r].hdr.seq
        PROVE  s = r
    <3>1. CASE s # job.start /\ r # job.start
      BY <1>3, <2>1, <3>1 DEF NewestInv, OneOfEach
    <3>2. CASE s = job.start /\ r # job.start
      <4>1. flash'[r].hdr.seq <= seq /\ flash'[r].hdr.seq \in Nat
        BY <1>3, <1>5, <2>1, <3>2
      <4>2. flash'[s].hdr.seq = seq + 1
        BY <1>2, <1>3, <3>2
      <4> QED
        BY <1>2, <2>1, <4>1, <4>2
    <3>3. CASE r = job.start /\ s # job.start
      <4>1. flash'[s].hdr.seq <= seq /\ flash'[s].hdr.seq \in Nat
        BY <1>3, <1>5, <2>1, <3>3
      <4>2. flash'[r].hdr.seq = seq + 1
        BY <1>2, <1>3, <3>3
      <4> QED
        BY <1>2, <2>1, <4>1, <4>2
    <3> QED
      BY <3>1, <3>2, <3>3
  <2> QED
    BY <2>1 DEF OneOfEach
<1>7. SeqIsNewest'
  BY <1>1, <1>3, <1>4, <1>5 DEF SeqIsNewest
<1>8. Claimed' = Claimed /\ Tracked' = Tracked
  BY <1>1 DEF Claimed, Tracked
<1>9. \A n \in Claimed, s \in Sectors : live[n].off = s => flash'[s] = flash[s]
  BY <1>3
<1>10. LiveIsNamed'
  BY <1>1, <1>8, <1>9 DEF NewestInv, LiveIsNamed
<1>11. ASSUME NEW s \in Sectors, Counts(s)', s # job.start
       PROVE  InTable(s)'
  <2>1. Counts(s) /\ InTable(s) /\ flash'[s].hdr = flash[s].hdr
    BY <1>1, <1>3, <1>4, <1>11 DEF NewestInv, Remembered, Running, Writing
  <2>2. flash[s].hdr.name \in Claimed
    BY <1>1, <2>1, HdrType DEF InTable, Claimed, Counts, Whole, Fits
  <2> QED
    BY <1>1, <1>9, <2>1, <2>2 DEF InTable
<1>12. Remembered'
  BY <1>1, <1>4, <1>11 DEF Remembered
<1>13. ClaimedOnce'
  BY <1>1, <1>8 DEF NewestInv, ClaimedOnce
<1> QED
  BY <1>6, <1>7, <1>10, <1>12, <1>13 DEF NewestInv

\* With Room a claim always finds a slot.
LEMMA ClaimSucceeds ==
    ASSUME Room, TypeOK, NEW n \in AllNames, NEW s \in Sectors, NEW w \in Nat, LiveClaim(n, s, w)
    PROVE  /\ live'[n] = [off |-> s, sectors |-> w]
           /\ \A m \in AllNames : m # n => live'[m] = live[m]
           /\ Claimed' = Claimed \cup {n}
<1>1. live[n] # None \/ Cardinality(Claimed) < MaxNames
  BY SlotLeft DEF Claimed
<1>2. live' = [live EXCEPT ![n] = [off |-> s, sectors |-> w]]
  BY <1>1 DEF LiveClaim
<1>3. /\ live'[n] = [off |-> s, sectors |-> w]
      /\ \A m \in AllNames : m # n => live'[m] = live[m]
  BY <1>2 DEF TypeOK
<1>4. live'[n] # None
  BY <1>3, NoneIsNothing DEF Extents
<1> QED
  BY <1>3, <1>4 DEF Claimed

LEMMA SaveDoneNewest ==
    ASSUME Room, LayoutInv, NewestInv, SaveDone
    PROVE  NewestInv'
<1> DEFINE p == job.start
           n == job.name
<1>1. /\ TypeOK /\ JobInv /\ BootInv /\ pc = "claimnew" /\ pc' = "idle" /\ job # None
      /\ seq' = seq + 1 /\ UNCHANGED <<flash, off, best>>
      /\ LiveClaim(n, p, RecSectors(job.text))
  BY DEF LayoutInv, SaveDone, JobInv, Busy, Writing
<1>2. /\ p \in Sectors /\ n \in AllNames /\ n # Garbled /\ flash[p].hdr = JobHdr
      /\ RecSectors(job.text) \in Nat /\ seq \in Nat
  BY <1>1, JobType, GarbledIsNoName DEF JobProgress, AllNames, TypeOK
<1>3. flash[p].hdr.name = n /\ flash[p].hdr.seq = seq + 1
  BY <1>2 DEF JobHdr
<1>4. /\ live'[n] = [off |-> p, sectors |-> RecSectors(job.text)]
      /\ \A m \in AllNames : m # n => live'[m] = live[m]
      /\ Claimed' = Claimed \cup {n}
  BY <1>1, <1>2, ClaimSucceeds
<1>5. \A s \in Sectors : (Counts(s)' <=> Counts(s)) /\ (Pending(s) <=> s = p) /\ ~Pending(s)'
  BY <1>1, SameFlashQuiet DEF Pending
<1>6. OneOfEach'
  BY <1>1, <1>5 DEF NewestInv, OneOfEach
<1>7. \A s \in Sectors : Counts(s) => flash[s].hdr.seq <= seq + 1 /\ flash[s].hdr.seq \in Nat
  <2> TAKE s \in Sectors
  <2> HAVE Counts(s)
  <2>1. flash[s].hdr.seq \in Nat
    BY <1>1, HdrType DEF Counts, Whole, Fits
  <2>2. CASE s = p
    BY <1>2, <1>3, <2>2
  <2>3. CASE s # p
    <3>1. flash[s].hdr.seq <= seq
      BY <1>1, <1>5, <2>3 DEF NewestInv, SeqIsNewest
    <3> QED
      BY <1>2, <2>1, <3>1
  <2> QED
    BY <2>2, <2>3
<1>8. SeqIsNewest'
  BY <1>1, <1>5, <1>7 DEF SeqIsNewest
<1>9. best' = Nothing /\ Tracked' = {}
  BY <1>1 DEF BootInv, Tracked, Nothing
<1>10. LiveIsNamed'
  <2>1. ASSUME NEW m \in Claimed', NEW s \in Sectors, live'[m].off = s
        PROVE  flash'[s].hdr.name = m
    <3>1. CASE m = n
      BY <1>1, <1>3, <1>4, <2>1, <3>1
    <3>2. CASE m # n
      <4>1. m \in Claimed /\ live[m].off = s
        BY <1>4, <2>1, <3>2 DEF Claimed
      <4> QED
        BY <1>1, <4>1 DEF NewestInv, LiveIsNamed
    <3> QED
      BY <3>1, <3>2
  <2> QED
    BY <1>1, <2>1 DEF LiveIsNamed
<1>11. ASSUME NEW s \in Sectors, Counts(s)
       PROVE  InTable(s)'
  <2> DEFINE m == flash[s].hdr.name
  <2>1. m \in AllNames
    BY <1>1, <1>11, HdrType DEF Counts, Whole, Fits
  <2>2. CASE m = n
    <3>1. live'[m] # None /\ live'[m].off = p
      BY <1>4, <2>2 DEF Claimed
    <3>2. flash[s].hdr.seq <= flash[p].hdr.seq
      BY <1>3, <1>7, <1>11
    <3> QED
      BY <1>1, <3>1, <3>2 DEF InTable
  <2>3. CASE m # n
    <3>1. InTable(s)
      BY <1>1, <1>3, <1>5, <1>11, <2>3 DEF NewestInv, Remembered, Running
    <3> QED
      BY <1>1, <1>4, <2>1, <2>3, <3>1 DEF InTable
  <2> QED
    BY <2>2, <2>3
<1>12. Remembered'
  BY <1>1, <1>5, <1>11 DEF Remembered
<1>13. ClaimedOnce'
  BY <1>9 DEF ClaimedOnce
<1> QED
  BY <1>6, <1>8, <1>10, <1>12, <1>13 DEF NewestInv

\* No record starts inside the one the cursor steps over.
LEMMA NothingSkipped ==
    ASSUME LayoutInv, off < NSectors, Fits(off),
           NEW s \in Sectors, HasHdr(s), s < off + RecSectors(flash[off].hdr.text)
    PROVE  s < off \/ s = off
<1>1. TypeOK /\ WalkReachesAll
  BY DEF LayoutInv
<1>2. off \in Sectors /\ HasHdr(off) /\ RecSectors(flash[off].hdr.text) \in Nat \ {0}
  BY <1>1, AtCursor
<1> SUFFICES ASSUME off < s
             PROVE  FALSE
  BY <1>2 DEF Sectors
<1>3. s \in Extent(off, flash[off].hdr.text)
  BY <1>2 DEF Extent, Sectors
<1> QED
  BY <1>1, <1>2, <1>3 DEF WalkReachesAll

\* A boot step that only moves the cursor, past nothing that counts.
LEMMA CursorNewest ==
    ASSUME LayoutInv, NewestInv, UNCHANGED <<flash, used, live, seq, best>>,
           pc \in {"off", "scan", "claim"}, pc' \in {"scan", "claim", "idle"},
           pc' = "scan" => /\ live = Nothing
                           /\ \A s \in Sectors : Counts(s) /\ s < off' => pc = "scan" /\ s < off,
           pc' = "claim" => pc = "scan" /\ \A s \in Sectors : s < off,
           pc' = "idle" => pc = "claim" /\ best = Nothing
    PROVE  NewestInv'
<1>1. \A s \in Sectors : (Counts(s)' <=> Counts(s)) /\ ~Pending(s) /\ ~Pending(s)'
  BY SameFlashQuiet DEF Pending
<1>2. OneOfEach'
  BY <1>1 DEF NewestInv, OneOfEach
<1>3. SeqIsNewest'
  BY <1>1 DEF NewestInv, SeqIsNewest
<1>4. Claimed' = Claimed /\ Tracked' = Tracked
  BY DEF Claimed, Tracked
<1>5. LiveIsNamed'
  BY <1>4 DEF NewestInv, LiveIsNamed
<1>6. \A s \in Sectors : (InTable(s)' <=> InTable(s)) /\ (InBest(s)' <=> InBest(s))
  BY DEF InTable, InBest
<1>7. best = Nothing => \A s \in Sectors : Counts(s) => ~InBest(s)
  <2> SUFFICES ASSUME best = Nothing, NEW s \in Sectors, Counts(s)
               PROVE  ~InBest(s)
    OBVIOUS
  <2>1. flash[s].hdr.name \in AllNames
    BY HdrType DEF LayoutInv, Counts, Whole, Fits
  <2> QED
    BY <2>1 DEF InBest, Nothing
<1>8. Remembered'
  <2>1. ASSUME NEW s \in Sectors, Counts(s)
        PROVE  /\ pc' = "scan" /\ s < off' => InBest(s)
               /\ pc' = "claim" => InBest(s) \/ InTable(s)
               /\ pc' \in Running => InTable(s)
    <3>1. CASE pc' = "scan"
      BY <1>1, <2>1, <3>1 DEF NewestInv, Remembered, Running, Writing
    <3>2. CASE pc' = "claim"
      BY <1>1, <2>1, <3>2 DEF NewestInv, Remembered, Running, Writing
    <3>3. CASE pc' = "idle"
      BY <1>1, <1>7, <2>1, <3>3 DEF NewestInv, Remembered, Running, Writing
    <3> QED
      BY <3>1, <3>2, <3>3
  <2> QED
    BY <1>1, <1>6, <2>1 DEF Remembered
<1>9. ClaimedOnce'
  BY <1>4 DEF NewestInv, ClaimedOnce
<1> QED
  BY <1>2, <1>3, <1>5, <1>8, <1>9 DEF NewestInv

LEMMA PlainBootNewest ==
    ASSUME LayoutInv, NewestInv, PowerOn \/ ScanSkip \/ ScanBad \/ ScanEnd \/ BootDone
    PROVE  NewestInv'
<1>1. TypeOK /\ BootInv /\ off \in Nat
  BY DEF LayoutInv, TypeOK
<1>2. CASE PowerOn
  <2>1. off' = 0 /\ live = Nothing
    BY <1>1, <1>2 DEF PowerOn, ramVars, BootInv
  <2> QED
    BY <1>2, <2>1, CursorNewest DEF PowerOn, ramVars, Sectors
<1>3. CASE ScanSkip
  <2>1. \A s \in Sectors : Counts(s) /\ s < off' => s < off
    BY <1>1, <1>3 DEF ScanSkip, Counts, Whole, Sectors
  <2>2. live = Nothing
    BY <1>3 DEF ScanSkip, NewestInv, LiveIsNamed
  <2> QED
    BY <1>3, <2>1, <2>2, CursorNewest DEF ScanSkip
<1>4. CASE ScanBad
  <2>1. ASSUME NEW s \in Sectors, Counts(s), s < off'
        PROVE  s < off
    <3>1. HasHdr(s) /\ Whole(s)
      BY <2>1 DEF Counts, Whole, Fits
    <3>2. s < off \/ s = off
      BY <1>4, <2>1, <3>1, NothingSkipped DEF ScanBad
    <3> QED
      BY <1>4, <3>1, <3>2 DEF ScanBad
  <2>2. live = Nothing
    BY <1>4 DEF ScanBad, NewestInv, LiveIsNamed
  <2> QED
    BY <1>4, <2>1, <2>2, CursorNewest DEF ScanBad
<1>5. CASE ScanEnd
  <2>1. \A s \in Sectors : s < off
    BY <1>1, <1>5, SizesAssumption DEF ScanEnd, Sectors
  <2> QED
    BY <1>5, <2>1, CursorNewest DEF ScanEnd, ramVars
<1>6. CASE BootDone
  BY <1>6, CursorNewest DEF BootDone
<1> QED
  BY <1>2, <1>3, <1>4, <1>5, <1>6

LEMMA ScanGoodNewest ==
    ASSUME LayoutInv, NewestInv, ScanGood
    PROVE  NewestInv'
<1> DEFINE h == flash[off].hdr
           b == best[h.name]
<1>1. /\ TypeOK /\ BootInv /\ pc = "scan" /\ pc' = "scan" /\ Whole(off) /\ off < NSectors
      /\ UNCHANGED <<flash, used, live, job, k>>
      /\ off' = off + RecSectors(h.text)
      /\ seq' = SeqAfter(h)
      /\ best' = IF b = None
                 THEN [best EXCEPT ![h.name] = [off |-> off, seq |-> h.seq, first |-> off]]
                 ELSE IF Supersedes(h, b)
                 THEN [best EXCEPT ![h.name].off = off, ![h.name].seq = h.seq]
                 ELSE best
  BY DEF LayoutInv, ScanGood
<1>2. /\ off \in Sectors /\ h.name \in AllNames /\ h.seq \in Nat /\ seq \in Nat /\ Fits(off)
  BY <1>1, AtCursor DEF Whole, TypeOK
<1>3. b # None => b \in Found /\ b.seq \in Nat
  BY <1>1, <1>2 DEF TypeOK, Found
<1>4. /\ \A n \in AllNames : n # h.name => best'[n] = best[n]
      /\ best'[h.name] # None
      /\ h.seq <= best'[h.name].seq
      /\ b # None => b.seq <= best'[h.name].seq
      /\ best'[h.name].seq \in Nat
  <2>1. CASE b = None
    <3>1. best'[h.name] = [off |-> off, seq |-> h.seq, first |-> off]
      BY <1>1, <1>2, <2>1 DEF TypeOK
    <3>2. best'[h.name] \in Found
      BY <1>2, <3>1 DEF Found
    <3> QED
      BY <1>1, <1>2, <2>1, <3>1, <3>2, NoneIsNothing DEF TypeOK
  <2>2. CASE b # None /\ Supersedes(h, b)
    <3>1. /\ best' = [best EXCEPT ![h.name] = [b EXCEPT !.off = off, !.seq = h.seq]]
          /\ [b EXCEPT !.off = off, !.seq = h.seq] \in Found
      BY <1>1, <1>2, <1>3, <2>2 DEF Found
    <3>2. best'[h.name] \in Found /\ best'[h.name].seq = h.seq
      BY <1>1, <1>2, <1>3, <3>1 DEF TypeOK, Found
    <3>3. \A n \in AllNames : n # h.name => best'[n] = best[n]
      BY <1>1, <1>2, <3>1 DEF TypeOK
    <3>4. best'[h.name] # None
      BY <3>2, NoneIsNothing
    <3>5. b.seq <= h.seq
      BY <2>2 DEF Supersedes
    <3> QED
      BY <1>2, <1>3, <2>2, <3>2, <3>3, <3>4, <3>5
  <2>3. CASE b # None /\ ~Supersedes(h, b)
    BY <1>1, <1>2, <1>3, <2>3 DEF Supersedes
  <2> QED
    BY <2>1, <2>2, <2>3
<1>5. \A s \in Sectors : (Counts(s)' <=> Counts(s)) /\ ~Pending(s) /\ ~Pending(s)'
  BY <1>1, SameFlashQuiet DEF Pending
<1>6. \A s \in Sectors : Counts(s) /\ s < off' => s < off \/ s = off
  BY <1>1, <1>2, NothingSkipped DEF Counts, Whole, Fits
<1>7. OneOfEach'
  BY <1>1, <1>5 DEF NewestInv, OneOfEach
<1>8. SeqIsNewest'
  <2>1. h.seq <= seq' /\ seq <= seq' /\ seq' \in Nat
    BY <1>1, <1>2 DEF SeqAfter
  <2>2. ASSUME NEW s \in Sectors, Counts(s), s < off'
        PROVE  flash[s].hdr.seq <= seq'
    <3>1. CASE s = off
      BY <2>1, <3>1
    <3>2. CASE s < off
      <4>1. flash[s].hdr.seq \in Nat
        BY <1>1, <2>2, HdrType DEF Counts, Whole, Fits
      <4>2. flash[s].hdr.seq <= seq
        BY <1>1, <1>5, <2>2, <3>2 DEF NewestInv, SeqIsNewest
      <4> QED
        BY <1>2, <2>1, <4>1, <4>2
    <3> QED
      BY <1>6, <2>2, <3>1, <3>2
  <2> QED
    BY <1>1, <1>5, <2>2 DEF SeqIsNewest
<1>9. live = Nothing /\ live' = Nothing /\ Claimed' = {}
  BY <1>1 DEF NewestInv, LiveIsNamed, Claimed, Nothing
<1>10. LiveIsNamed' /\ ClaimedOnce'
  <2>1. \A n \in Tracked' : live'[n] = None
    BY <1>9 DEF Tracked, Nothing
  <2> QED
    BY <1>9, <2>1 DEF LiveIsNamed, ClaimedOnce
<1>11. ASSUME NEW s \in Sectors, Counts(s), s < off'
       PROVE  InBest(s)'
  <2> DEFINE n == flash[s].hdr.name
  <2>1. n \in AllNames /\ flash[s].hdr.seq \in Nat /\ flash'[s] = flash[s]
    BY <1>1, <1>11, HdrType DEF Counts, Whole, Fits
  <2>2. CASE s = off
    BY <1>1, <1>4, <2>2 DEF InBest
  <2>3. CASE s < off
    <3>1. best[n] # None /\ flash[s].hdr.seq <= best[n].seq
      BY <1>1, <1>5, <1>11, <2>3 DEF NewestInv, Remembered, InBest
    <3>2. CASE n = h.name
      <4>1. flash[s].hdr.seq <= best'[n].seq
        BY <1>3, <1>4, <2>1, <3>1, <3>2
      <4> QED
        BY <1>4, <2>1, <3>2, <4>1 DEF InBest
    <3>3. CASE n # h.name
      BY <1>4, <2>1, <3>1, <3>3 DEF InBest
    <3> QED
      BY <3>2, <3>3
  <2> QED
    BY <1>6, <1>11, <2>2, <2>3
<1>12. Remembered'
  BY <1>1, <1>5, <1>11 DEF Remembered, Running, Writing
<1> QED
  BY <1>7, <1>8, <1>10, <1>12 DEF NewestInv

\* With Room no record is ever held under the placeholder.
LEMMA NeverHeld ==
    ASSUME Room, LayoutInv
    PROVE  ~ScanHold
<1> SUFFICES ASSUME ScanHold PROVE FALSE
  OBVIOUS
<1>1. flash[off].hdr.name \in AllNames
  BY AtCursor DEF LayoutInv, ScanHold, Whole
<1>2. Cardinality(Tracked) < MaxNames
  BY <1>1, SlotLeft DEF ScanHold, Tracked
<1>3. Cardinality(Tracked) \in Nat
  BY NamesFinite, FS_AddElement, FS_Subset, FS_CardinalityType DEF Tracked, AllNames
<1> QED
  BY <1>2, <1>3, SizesAssumption DEF ScanHold

LEMMA ClaimBestNewest ==
    ASSUME Room, LayoutInv, NewestInv, NEW n \in AllNames, ClaimBest(n)
    PROVE  NewestInv'
<1> DEFINE p == best[n].off
           w == RecSectors(flash[p].hdr.text)
<1>1. /\ TypeOK /\ BootInv /\ pc = "claim" /\ pc' = "claim" /\ best[n] # None
      /\ UNCHANGED <<flash, seq, job, k, off>>
      /\ best' = [best EXCEPT ![n] = None]
      /\ LiveClaim(n, p, w)
  BY DEF LayoutInv, ClaimBest
<1>2. /\ n \in Tracked /\ p \in Sectors /\ Whole(p)
      /\ flash[p].hdr.name = n /\ flash[p].hdr.seq = best[n].seq
  BY <1>1, Offsets DEF BootInv, Tracked
<1>3. w \in Nat
  BY <1>1, <1>2, WholeFits, RecSectorsType
<1>4. /\ live'[n] = [off |-> p, sectors |-> w]
      /\ \A m \in AllNames : m # n => live'[m] = live[m]
      /\ Claimed' = Claimed \cup {n}
  BY <1>1, <1>2, <1>3, ClaimSucceeds
<1>5. /\ \A m \in AllNames : m # n => best'[m] = best[m]
      /\ best'[n] = None
      /\ \A m \in Tracked' : m \in Tracked /\ m # n
  BY <1>1 DEF TypeOK, Tracked
<1>6. \A s \in Sectors : (Counts(s)' <=> Counts(s)) /\ ~Pending(s) /\ ~Pending(s)'
  BY <1>1, SameFlashQuiet DEF Pending
<1>7. OneOfEach'
  BY <1>1, <1>6 DEF NewestInv, OneOfEach
<1>8. SeqIsNewest'
  BY <1>1, <1>6 DEF NewestInv, SeqIsNewest
<1>9. LiveIsNamed'
  <2>1. ASSUME NEW m \in Claimed', NEW s \in Sectors, live'[m].off = s
        PROVE  flash'[s].hdr.name = m
    <3>1. CASE m = n
      BY <1>1, <1>2, <1>4, <2>1, <3>1
    <3>2. CASE m # n
      <4>1. m \in Claimed /\ live[m].off = s
        BY <1>4, <2>1, <3>2 DEF Claimed
      <4> QED
        BY <1>1, <4>1 DEF NewestInv, LiveIsNamed
    <3> QED
      BY <3>1, <3>2
  <2> QED
    BY <1>1, <2>1 DEF LiveIsNamed
<1>10. ASSUME NEW s \in Sectors, Counts(s)
       PROVE  InBest(s)' \/ InTable(s)'
  <2> DEFINE m == flash[s].hdr.name
  <2>1. m \in AllNames /\ (InBest(s) \/ InTable(s))
    BY <1>1, <1>6, <1>10, HdrType DEF Counts, Whole, Fits, NewestInv, Remembered
  <2>2. CASE m = n
    <3>1. live[n] = None
      BY <1>2 DEF NewestInv, ClaimedOnce
    <3>2. flash[s].hdr.seq <= flash[p].hdr.seq
      BY <1>2, <2>1, <2>2, <3>1 DEF InBest, InTable
    <3>3. live'[m] # None /\ live'[m].off = p
      BY <1>4, <2>2 DEF Claimed
    <3> QED
      BY <1>1, <3>2, <3>3 DEF InTable
  <2>3. CASE m # n
    BY <1>1, <1>4, <1>5, <2>1, <2>3 DEF InBest, InTable
  <2> QED
    BY <2>2, <2>3
<1>11. Remembered'
  BY <1>1, <1>6, <1>10 DEF Remembered, Running, Writing
<1>12. ClaimedOnce'
  BY <1>4, <1>5 DEF NewestInv, ClaimedOnce, Tracked
<1> QED
  BY <1>7, <1>8, <1>9, <1>11, <1>12 DEF NewestInv

LEMMA StutterNewest ==
    ASSUME NewestInv, UNCHANGED vars
    PROVE  NewestInv'
<1>1. UNCHANGED <<flash, used, live, seq, pc, job, k, off, best>>
  BY DEF vars
<1>2. \A s \in Sectors : /\ Counts(s)' <=> Counts(s)
                         /\ Pending(s)' <=> Pending(s)
                         /\ InTable(s)' <=> InTable(s)
                         /\ InBest(s)' <=> InBest(s)
  BY <1>1, SameFlashQuiet DEF Pending, InTable, InBest
<1>3. Claimed' = Claimed /\ Tracked' = Tracked
  BY <1>1 DEF Claimed, Tracked
<1> QED
  BY <1>1, <1>2, <1>3 DEF NewestInv, OneOfEach, SeqIsNewest, LiveIsNamed, Remembered, ClaimedOnce

LEMMA NewestInit == Init => NewestInv
<1> SUFFICES ASSUME Init PROVE NewestInv
  OBVIOUS
<1>1. \A s \in Sectors : ~Counts(s)
  BY DEF Init, Counts, Whole, Fits, HasHdr, Erased
<1>2. Claimed = {} /\ Tracked = {} /\ live = Nothing
  BY DEF Init, Claimed, Tracked, Nothing
<1> QED
  BY <1>1, <1>2 DEF NewestInv, OneOfEach, SeqIsNewest, LiveIsNamed, Remembered, ClaimedOnce

LEMMA NewestStep ==
    ASSUME Room
    PROVE  LayoutInv /\ NewestInv /\ [Next]_vars => NewestInv'
<1> SUFFICES ASSUME LayoutInv, NewestInv, [Next]_vars PROVE NewestInv'
  OBVIOUS
<1>1. CASE Boot
  BY <1>1, PlainBootNewest, ScanGoodNewest, NeverHeld, ClaimBestNewest DEF Boot
<1>2. CASE Save
  BY <1>2, SaveNewest, WriteHeaderNewest, SaveDoneNewest DEF Save
<1>3. CASE Fault
  BY <1>3, FaultNewest
<1>4. CASE UNCHANGED vars
  BY <1>4, StutterNewest
<1> QED
  BY <1>1, <1>2, <1>3, <1>4 DEF Next

\* With Room the second invariant holds throughout every run.
THEOREM NewestHolds ==
    ASSUME Room
    PROVE  Spec => [](LayoutInv /\ NewestInv)
<1>1. Init => LayoutInv /\ NewestInv
  BY LayoutInit, NewestInit
<1>2. LayoutInv /\ NewestInv /\ [Next]_vars => (LayoutInv /\ NewestInv)'
  BY LayoutStep, NewestStep
<1> QED
  BY <1>1, <1>2, PTL DEF Spec

\* Whenever the journal may allocate, the newest record of every document is
\* the one the table holds, and no save is writing over it: nothing that is
\* still reachable is ever erased (journal.c:85-90).
THEOREM DocumentsProtected ==
    ASSUME Room
    PROVE  Spec => []Protected
<1>1. ASSUME LayoutInv, NewestInv, pc \in Running \ {"claimnew"},
             NEW n \in AllNames, NEW s \in Sectors, Newest(n, s), n # Garbled
      PROVE  /\ live[n] = [off |-> s, sectors |-> RecSectors(flash[s].hdr.text)]
             /\ Covers(live[n]) \subseteq used
             /\ job # None => Covers(live[n]) \cap Extent(job.start, job.text) = {}
  <2>1. TypeOK /\ LiveInv /\ JobInv
    BY <1>1 DEF LayoutInv
  <2>2. Counts(s) /\ flash[s].hdr.name = n /\ ~Pending(s)
    BY <1>1 DEF Newest, RecordsOf, Counts, Pending
  <2>3. InTable(s)
    BY <1>1, <2>2 DEF NewestInv, Remembered
  <2> DEFINE r == live[n].off
  <2>4. n \in Claimed /\ r \in Sectors /\ live[n] \in Extents
    BY <2>1, <2>2, <2>3, Offsets DEF InTable, Claimed, TypeOK
  <2>5. /\ Whole(r) /\ flash[r].hdr.name = n
        /\ live[n].sectors = RecSectors(flash[r].hdr.text)
        /\ flash[s].hdr.seq <= flash[r].hdr.seq
    BY <1>1, <2>1, <2>2, <2>3, <2>4 DEF LiveInv, NewestInv, LiveIsNamed, InTable
  <2>6. flash[r].hdr.seq <= flash[s].hdr.seq
    BY <1>1, <2>4, <2>5 DEF Newest, RecordsOf
  <2>7. flash[r].hdr.seq \in Nat /\ flash[s].hdr.seq \in Nat
    BY <2>1, <2>2, <2>4, <2>5, HdrType DEF Counts, Whole, Fits
  <2>8. r = s
    BY <1>1, <2>2, <2>4, <2>5, <2>6, <2>7 DEF NewestInv, OneOfEach, Counts
  <2>9. live[n] = [off |-> s, sectors |-> RecSectors(flash[s].hdr.text)]
    BY <2>4, <2>5, <2>8 DEF Extents
  <2>10. Covers(live[n]) = Extent(s, flash[s].hdr.text) /\ Covers(live[n]) \subseteq Sectors
    BY <2>1, <2>2, <2>9, WholeFits DEF Covers, Extent, Counts
  <2>11. Covers(live[n]) \subseteq used
    BY <2>1, <2>4, <2>10 DEF LiveInv
  <2> QED
    BY <2>1, <2>9, <2>11 DEF JobInv, JobApart
<1>2. LayoutInv /\ NewestInv => Protected
  BY <1>1 DEF Protected
<1> QED
  BY <1>2, NewestHolds, PTL

\* No number is given twice to records of one document, and s_seq is never
\* behind the newest of them, through every reboot and every error.
THEOREM NumbersFresh ==
    ASSUME Room
    PROVE  Spec => []SeqFresh
<1>1. LayoutInv /\ NewestInv => SeqFresh
  <2> SUFFICES ASSUME LayoutInv, NewestInv PROVE SeqFresh
    OBVIOUS
  <2>1. ASSUME pc \in {"idle"} \cup Writing,
               NEW s \in Sectors, Whole(s), flash[s].hdr.name # Garbled
        PROVE  flash[s].hdr.seq <= seq
    BY <2>1 DEF NewestInv, SeqIsNewest, Counts, Pending, Writing
  <2> QED
    BY <2>1 DEF SeqFresh, NewestInv, OneOfEach, Counts
<1> QED
  BY <1>1, NewestHolds, PTL

-----------------------------------------------------------------------------
(* The refinement.  A document is read as its newest whole record says.    *)
(* While the journal may write, the table holds that record, and a save    *)
(* writes only where no tabled record is (JournalProofs): so only the      *)
(* header, the last thing written, can change what is read, and it changes *)
(* one name, because its number is above every other's.                    *)


\* Every name reads as its newest whole record says.
ReadsNewest ==
    \A n \in Names, s \in Sectors : Newest(n, s) => ArchivedText(n) = flash[s].hdr.text

\* No two records can both be the newest of a name.
LEMMA ReadsAsNewest == TypeOK /\ OneOfEach => ReadsNewest
<1> SUFFICES ASSUME TypeOK, OneOfEach, NEW n \in Names, NEW s \in Sectors, Newest(n, s)
             PROVE  ArchivedText(n) = flash[s].hdr.text
  BY DEF ReadsNewest
<1> DEFINE c == CHOOSE r \in Sectors : Newest(n, r)
<1>1. c \in Sectors /\ Newest(n, c)
  OBVIOUS
<1>2. n # Garbled
  BY GarbledIsNoName
<1>3. /\ Whole(c) /\ flash[c].hdr.name = n
      /\ Whole(s) /\ flash[s].hdr.name = n
      /\ flash[s].hdr.seq <= flash[c].hdr.seq /\ flash[c].hdr.seq <= flash[s].hdr.seq
  BY <1>1 DEF Newest, RecordsOf
<1>4. flash[s].hdr.seq \in Nat /\ flash[c].hdr.seq \in Nat
  BY <1>1, <1>3, HdrType DEF Whole, Fits
<1>5. s = c
  BY <1>1, <1>2, <1>3, <1>4 DEF OneOfEach, Counts
<1> QED
  BY <1>5 DEF ArchivedText

\* While the journal may write, the table holds the record a document is read
\* from, if there is one.
LEMMA TableHoldsNewest ==
    ASSUME LayoutInv, NewestInv, pc \in Between, NEW n \in Names, RecordsOf(n) # {}
    PROVE  n \in Claimed /\ live[n].off \in Sectors /\ Newest(n, live[n].off)
<1>1. TypeOK /\ LiveInv /\ n \in AllNames /\ n # Garbled
  BY GarbledIsNoName DEF LayoutInv, AllNames
<1>2. \A s \in RecordsOf(n) : s \in Sectors /\ Whole(s) /\ flash[s].hdr.name = n /\ Counts(s)
  BY <1>1 DEF RecordsOf, Counts
<1>3. \A s \in RecordsOf(n) : InTable(s)
  BY <1>2 DEF NewestInv, Remembered, Between, Running, Pending, Writing
<1>4. n \in Claimed
  BY <1>1, <1>2, <1>3 DEF InTable, Claimed
<1>5. live[n].off \in Sectors
  BY <1>1, <1>4, Offsets
<1>6. live[n].off \in RecordsOf(n)
  BY <1>4, <1>5, <1>1 DEF LiveInv, NewestInv, LiveIsNamed, RecordsOf
<1>7. \A s \in RecordsOf(n) : flash[s].hdr.seq <= flash[live[n].off].hdr.seq
  BY <1>2, <1>3, <1>5 DEF InTable
<1> QED
  BY <1>4, <1>5, <1>6, <1>7 DEF Newest

\* What the table holds outlives any write inside the save's own sectors.
LEMMA TableKept ==
    ASSUME LayoutInv, job # None, NEW n \in Claimed, NEW p \in Sectors, live[n].off = p,
           \A r \in Sectors \ Extent(job.start, job.text) : flash'[r] = flash[r]
    PROVE  Whole(p)' /\ flash'[p] = flash[p]
<1>1. TypeOK /\ LiveInv /\ JobApart
  BY DEF LayoutInv, JobInv
<1>2. Whole(p) /\ live[n].sectors = RecSectors(flash[p].hdr.text)
  BY <1>1 DEF LiveInv
<1>3. Covers(live[n]) = Extent(p, flash[p].hdr.text) /\ Covers(live[n]) \subseteq Sectors
  BY <1>1, <1>2, WholeFits DEF Covers, Extent
<1>4. Covers(live[n]) \subseteq used
  BY <1>1, <1>3 DEF LiveInv
<1>5. \A r \in Extent(p, flash[p].hdr.text) : flash'[r] = flash[r]
  BY <1>1, <1>3, <1>4 DEF JobApart
<1> QED
  BY <1>1, <1>2, <1>5, WholeKept

\* A record that was not there, or was no document's, does not appear: nothing
\* under the name n is brought to life.
NoneBorn(n) ==
    \A s \in Sectors : Whole(s)' /\ flash'[s].hdr.name = n =>
        Whole(s) /\ flash'[s].hdr = flash[s].hdr

\* A write inside the save's own sectors that brings nothing of a document to
\* life leaves the document as it was.
LEMMA TextKept ==
    ASSUME LayoutInv, NewestInv, pc \in Between, job # None, NEW n \in Names, NoneBorn(n),
           \A r \in Sectors \ Extent(job.start, job.text) : flash'[r] = flash[r],
           TypeOK', OneOfEach'
    PROVE  ArchivedText(n)' = ArchivedText(n)
<1>1. ReadsNewest /\ ReadsNewest'
  <2>1. TypeOK /\ OneOfEach
    BY DEF LayoutInv, NewestInv
  <2>2. TypeOK' /\ OneOfEach' => ReadsNewest'
    BY ReadsAsNewest, PTL
  <2> QED
    BY <2>1, <2>2, ReadsAsNewest
<1>2. /\ RecordsOf(n) = {} => ArchivedText(n) = None
      /\ RecordsOf(n)' = {} => ArchivedText(n)' = None
  BY DEF ArchivedText, Newest
<1>3. \A s \in RecordsOf(n)' : s \in RecordsOf(n) /\ flash'[s].hdr = flash[s].hdr
  BY DEF NoneBorn, RecordsOf
<1>4. CASE RecordsOf(n) = {}
  BY <1>2, <1>3, <1>4
<1>5. CASE RecordsOf(n) # {}
  <2> DEFINE p == live[n].off
  <2>1. n \in Claimed /\ p \in Sectors /\ Newest(n, p)
    BY <1>5, TableHoldsNewest
  <2>2. PICK q \in Sectors : q = p
    BY <2>1
  <2>3. Whole(q)' /\ flash'[q] = flash[q]
    BY <2>1, <2>2, TableKept
  <2>4. Newest(n, q) /\ q \in RecordsOf(n)
    BY <2>1, <2>2 DEF Newest
  <2>5. q \in RecordsOf(n)'
    BY <2>3, <2>4 DEF RecordsOf
  <2>6. Newest(n, q)'
    BY <1>3, <2>3, <2>4, <2>5 DEF Newest
  <2>7. ArchivedText(n)' = flash'[q].hdr.text
    BY <1>1, <2>6 DEF ReadsNewest
  <2> QED
    BY <1>1, <2>3, <2>4, <2>7 DEF ReadsNewest
<1> QED
  BY <1>4, <1>5

\* Where the flash is left alone every document reads the same.
LEMMA SameFlashSameText ==
    ASSUME flash' = flash, NEW n \in Names
    PROVE  ArchivedText(n)' = ArchivedText(n)
<1>1. \A s \in Sectors : Whole(s)' <=> Whole(s)
  BY SameFlash
<1>2. RecordsOf(n)' = RecordsOf(n)
  BY <1>1 DEF RecordsOf
<1>3. \A s \in Sectors : Newest(n, s)' <=> Newest(n, s)
  BY <1>2 DEF Newest
<1> QED
  BY <1>3 DEF ArchivedText

\* The instant of a save: with its header down the new record is whole, has
\* the highest number of its name, and is what the document reads as.
LEMMA HeaderFiles ==
    ASSUME LayoutInv, NewestInv, WriteHeader, LayoutInv', NewestInv'
    PROVE  ArchivedText(job.name)' = job.text
<1> DEFINE p == job.start
<1>1. /\ TypeOK /\ JobInv /\ pc = "header" /\ pc' = "claimnew" /\ job # None
      /\ UNCHANGED <<used, live, seq, job, k, off, best>>
  BY DEF LayoutInv, WriteHeader, ramVars, JobInv, Busy, Writing
<1>2. /\ p \in Sectors /\ job.name \in Names /\ job.text \in Texts /\ job.name # Garbled
      /\ Extent(p, job.text) \subseteq Sectors /\ JobProgress /\ seq \in Nat
      /\ RecSectors(job.text) \in Nat \ {0}
      /\ Chunks[job.text] \in Nat /\ Chunks[job.text] <= RecSectors(job.text)
  BY <1>1, JobType, GarbledIsNoName DEF JobInv, TypeOK
<1>3. JobHdr \in Headers /\ JobHdr.text = job.text /\ JobHdr.name = job.name
      /\ JobHdr.seq = seq + 1 /\ JobHdr.crc
  BY <1>2 DEF JobHdr, Headers, AllNames
<1>4. /\ \A s \in Sectors : s # p /\ Counts(s)' => Counts(s) /\ flash'[s].hdr = flash[s].hdr
      /\ flash'[p].hdr = JobHdr
      /\ \A s \in Sectors : flash'[s].pay = flash[s].pay
  BY <1>1, <1>3, HeaderQuiet, NewHeader DEF WriteHeader
<1>5. p + RecSectors(job.text) <= NSectors
  <2>1. p + RecSectors(job.text) - 1 \in Extent(p, job.text)
    BY <1>2 DEF Extent, Sectors
  <2> QED
    BY <1>2, <2>1, SizesAssumption DEF Sectors
<1>6. \A i \in 0 .. Chunks[job.text] - 1 :
          p + i \in Sectors /\ flash'[p + i].pay = [text |-> job.text, at |-> i]
  BY <1>1, <1>2, <1>4, <1>5, SizesAssumption DEF JobProgress, PayloadDown, Sectors
<1>7. JobHdr # NoHdr
  BY <1>2, <1>3 DEF NoHdr
<1>8. Whole(job.start)' /\ flash'[p].hdr.name = job.name
  BY <1>1, <1>3, <1>4, <1>5, <1>6, <1>7 DEF Whole, Fits, HasHdr
<1>9. ASSUME NEW r \in Sectors, Whole(r)', flash'[r].hdr.name = job.name
      PROVE  flash'[r].hdr.seq <= flash'[p].hdr.seq
  <2>1. CASE r = p
    BY <1>2, <1>3, <1>4, <2>1
  <2>2. CASE r # p
    <3>1. Counts(r) /\ flash'[r].hdr = flash[r].hdr
      BY <1>2, <1>4, <1>9, <2>2 DEF Counts
    <3>2. flash[r].hdr.seq <= seq
      BY <1>1, <3>1 DEF NewestInv, SeqIsNewest, Pending
    <3>3. flash[r].hdr.seq \in Nat
      BY <1>1, <3>1, HdrType DEF Counts, Whole, Fits
    <3> QED
      BY <1>2, <1>3, <1>4, <3>1, <3>2, <3>3
  <2> QED
    BY <2>1, <2>2
<1>10. PICK n \in Names : n = job.name
  BY <1>2
<1>11. PICK q \in Sectors : q = p
  BY <1>2
<1>12. job' = job
  BY <1>1
<1>13. q \in RecordsOf(n)'
  BY <1>8, <1>10, <1>11, <1>12 DEF RecordsOf
<1>14. Newest(n, q)'
  BY <1>9, <1>10, <1>11, <1>13 DEF Newest, RecordsOf
<1>15. TypeOK' /\ OneOfEach'
  BY DEF LayoutInv, NewestInv
<1>16. ReadsNewest'
  <2>1. TypeOK' /\ OneOfEach' => ReadsNewest'
    BY ReadsAsNewest, PTL
  <2> QED
    BY <1>15, <2>1
<1>17. ArchivedText(n)' = flash'[q].hdr.text
  BY <1>14, <1>16 DEF ReadsNewest
<1> QED
  BY <1>3, <1>4, <1>10, <1>11, <1>12, <1>17

-----------------------------------------------------------------------------
(***************************************************************************)
(* Step by step.                                                           *)
(***************************************************************************)

SameArchive == \A n \in Names : ArchivedText(n)' = ArchivedText(n)

\* A sector erased, whole or torn, or a sector of payload written, changes no
\* document.
LEMMA BodyKeepsArchive ==
    ASSUME LayoutInv, NewestInv, EraseSector \/ WriteChunk \/ TornErase, LayoutInv', NewestInv'
    PROVE  SameArchive
<1>1. /\ TypeOK /\ JobInv /\ pc \in {"erase", "payload"} /\ job # None
  BY DEF LayoutInv, EraseSector, WriteChunk, TornErase, JobInv, Busy, Writing
<1>2. k \in Nat /\ job.start + k \in Extent(job.start, job.text) /\ job.start + k \in Sectors
  BY <1>1, JobType DEF JobProgress, JobInv, TypeOK
<1>3. \A r \in Sectors \ Extent(job.start, job.text) : flash'[r] = flash[r]
  BY <1>1, <1>2 DEF EraseSector, WriteChunk, TornErase, TypeOK
<1>4. Quiet
  BY EraseQuiet, WriteChunkQuiet
<1>5. ASSUME NEW n \in Names
      PROVE  NoneBorn(n)
  BY <1>4, GarbledIsNoName DEF NoneBorn, Quiet, Counts
<1>6. pc \in Between /\ TypeOK' /\ OneOfEach'
  BY <1>1 DEF Between, Writing, LayoutInv, NewestInv
<1> QED
  BY <1>1, <1>3, <1>5, <1>6, TextKept DEF SameArchive

\* A header, whole or cut short, changes no document but the one it names.
LEMMA HeaderKeepsOthers ==
    ASSUME LayoutInv, NewestInv, WriteHeader \/ TornHeader, LayoutInv', NewestInv'
    PROVE  \A n \in Names : ArchivedText(n)' = ArchivedText(n) \/ (n = job.name /\ WriteHeader)
<1>1. /\ TypeOK /\ JobInv /\ pc = "header" /\ job # None
  BY DEF LayoutInv, WriteHeader, TornHeader, JobInv, Busy, Writing
<1>2. JobHdr \in Headers /\ JobHdr.text = job.text /\ JobHdr.name = job.name
  BY <1>1, JobType DEF JobHdr, Headers, TypeOK, AllNames
<1>3. PICK h \in Headers :
          /\ flash' = [flash EXCEPT ![job.start].hdr = h] /\ h.text = job.text
          /\ (WriteHeader /\ h.name = job.name) \/ h.crc = FALSE \/ h.name = Garbled
  BY <1>2 DEF WriteHeader, TornHeader, Headers, AllNames
<1>4. /\ \A s \in Sectors : s # job.start /\ Counts(s)' =>
             Counts(s) /\ flash'[s].hdr = flash[s].hdr
      /\ flash'[job.start].hdr = h
      /\ \A s \in Sectors : s # job.start => flash'[s] = flash[s]
  BY <1>1, <1>3, HeaderQuiet, NewHeader
<1>5. job.start \in Extent(job.start, job.text)
  BY <1>1, JobType DEF Extent, Sectors
<1>6. pc \in Between /\ TypeOK' /\ OneOfEach'
  BY <1>1 DEF Between, Writing, LayoutInv, NewestInv
<1>7. ASSUME NEW n \in Names, ~(n = job.name /\ WriteHeader)
      PROVE  NoneBorn(n)
  <2> SUFFICES ASSUME NEW s \in Sectors, Whole(s)', flash'[s].hdr.name = n
               PROVE  Whole(s) /\ flash'[s].hdr = flash[s].hdr
    BY DEF NoneBorn
  <2>1. n # Garbled
    BY GarbledIsNoName
  <2>2. s # job.start
    <3> SUFFICES ASSUME s = job.start PROVE FALSE
      OBVIOUS
    <3>1. flash'[s].hdr = h
      BY <1>4
    <3>2. flash'[s].hdr.crc
      BY DEF Whole
    <3> QED
      BY <1>3, <1>7, <2>1, <3>1, <3>2
  <2> QED
    BY <1>4, <2>1, <2>2 DEF Counts
<1>8. \A r \in Sectors \ Extent(job.start, job.text) : flash'[r] = flash[r]
  BY <1>4, <1>5
<1> QED
  BY <1>1, <1>6, <1>7, <1>8, TextKept

\* Only the header of a whole record changes a document.
LEMMA OnlyHeaderFiles ==
    ASSUME LayoutInv, NewestInv, Next, LayoutInv', NewestInv'
    PROVE  SameArchive \/ WriteHeader
<1>1. CASE flash' = flash
  BY <1>1, SameFlashSameText DEF SameArchive
<1>2. CASE EraseSector \/ WriteChunk \/ TornErase
  BY <1>2, BodyKeepsArchive
<1>3. CASE TornHeader
  BY <1>3, HeaderKeepsOthers DEF SameArchive
<1>4. flash' = flash \/ EraseSector \/ WriteChunk \/ TornErase \/ TornHeader \/ WriteHeader
  BY DEF Next, Boot, Save, Fault, PowerOn, ScanSkip, ScanBad, ScanGood, ScanHold, ScanEnd,
         ClaimBest, BootDone, SaveBegin, SaveDone, PowerCut, SaveError
<1> QED
  BY <1>1, <1>2, <1>3, <1>4

\* What is in flight, phase by phase.
LEMMA InFlight ==
    ASSUME TypeOK, JobInv
    PROVE  /\ pc \notin Busy => Saving = None
           /\ pc \in Busy => /\ Saving = [name |-> job.name, text |-> job.text,
                                          filed |-> pc = "claimnew"]
                             /\ Saving \in Saves /\ Saving # None
                             /\ job \in Jobs /\ job.name \in Names /\ job.text \in Texts
<1>1. pc \notin Busy => Saving = None
  BY DEF Saving, Busy
<1>2. ASSUME pc \in Busy
      PROVE  /\ Saving = [name |-> job.name, text |-> job.text, filed |-> pc = "claimnew"]
             /\ job \in Jobs /\ job.name \in Names /\ job.text \in Texts
  <2>1. job # None
    BY <1>2 DEF JobInv
  <2> QED
    BY <1>2, <2>1, JobType DEF Saving, Busy
<1>3. ASSUME pc \in Busy PROVE Saving \in Saves /\ Saving # None
  <2>1. \A n \in Names, t \in Texts, b \in BOOLEAN :
            [name |-> n, text |-> t, filed |-> b] \in Saves
    BY DEF Saves
  <2>2. Saving \in Saves
    <3>1. (pc = "claimnew") \in BOOLEAN
      OBVIOUS
    <3> QED
      BY <1>2, <1>3, <2>1, <3>1, Zenon
  <2> QED
    BY <2>2, NoneIsNothing
<1> QED
  BY <1>1, <1>2, <1>3

\* The store as the promise sees it.
Store == [n \in Names |-> ArchivedText(n)]

\* Every step of the journal is one the promise allows, or none at all.
LEMMA ArchiveStep ==
    ASSUME LayoutInv, NewestInv, [Next]_vars, LayoutInv', NewestInv'
    PROVE  [Arch!Next]_(Arch!avars)
<1> USE DEF Store
<1>1. TypeOK /\ JobInv /\ TypeOK' /\ JobInv'
  BY DEF LayoutInv
<1>2. /\ pc \notin Busy => Saving = None
      /\ pc \in Busy => /\ Saving = [name |-> job.name, text |-> job.text,
                                     filed |-> pc = "claimnew"]
                        /\ Saving \in Saves /\ Saving # None
                        /\ job.name \in Names /\ job.text \in Texts
  BY <1>1, InFlight
<1>3. (pc \notin Busy => Saving = None)'
  BY DEF Saving, Busy
<1>4. SameArchive => Store' = Store
  BY DEF SameArchive
<1>5. CASE UNCHANGED vars
  <2>1. flash' = flash /\ Saving' = Saving
    BY <1>5 DEF vars, Saving
  <2>2. Store' = Store
    BY <1>4, <2>1, SameFlashSameText DEF SameArchive
  <2> QED
    BY <2>1, <2>2 DEF Arch!avars
<1>6. CASE Boot
  <2>1. SameArchive
    BY <1>6, SameFlashSameText
       DEF SameArchive, Boot, PowerOn, ScanSkip, ScanBad, ScanGood, ScanHold, ScanEnd,
           ClaimBest, BootDone
  <2>2. pc \notin Busy /\ pc' \notin Busy
    BY <1>6 DEF Boot, PowerOn, ScanSkip, ScanBad, ScanGood, ScanHold, ScanEnd,
                ClaimBest, BootDone, Busy, Writing
  <2> QED
    BY <1>2, <1>3, <1>4, <2>1, <2>2 DEF Arch!avars
<1>7. ASSUME NEW n \in Names, NEW t \in Texts, SaveBegin(n, t)
      PROVE  Arch!Begin(n, t)
  <2>1. flash' = flash /\ pc = "idle" /\ pc' = "erase" /\ job'.name = n /\ job'.text = t
    BY <1>7 DEF SaveBegin
  <2>2. Saving = None /\ Saving' = [name |-> n, text |-> t, filed |-> FALSE]
    BY <2>1 DEF Saving, Writing
  <2>3. Store' = Store
    BY <1>4, <2>1, SameFlashSameText DEF SameArchive
  <2> QED
    BY <2>2, <2>3 DEF Arch!Begin
<1>8. CASE EraseSector \/ WriteChunk
  <2>1. pc \in Writing /\ pc' \in Writing /\ job' = job
    BY <1>8 DEF EraseSector, WriteChunk, Writing
  <2>2. Saving' = Saving
    BY <2>1 DEF Saving, Writing
  <2>3. Store' = Store
    BY <1>4, <1>8, BodyKeepsArchive
  <2> QED
    BY <2>2, <2>3 DEF Arch!avars
<1>9. CASE WriteHeader
  <2>1. pc = "header" /\ pc' = "claimnew" /\ job' = job
    BY <1>9 DEF WriteHeader, ramVars
  <2>2. /\ Saving = [name |-> job.name, text |-> job.text, filed |-> FALSE]
        /\ Saving' = [name |-> job.name, text |-> job.text, filed |-> TRUE]
    BY <2>1 DEF Saving, Writing
  <2>3. Saving # None /\ job.name \in Names /\ job.text \in Texts
    BY <1>2, <2>1 DEF Busy, Writing
  <2>4. ArchivedText(job.name)' = job.text
    BY <1>9, HeaderFiles
  <2>5. \A n \in Names : n # job.name => ArchivedText(n)' = ArchivedText(n)
    BY <1>9, HeaderKeepsOthers
  <2>6. \A n \in Names : n = job.name => ArchivedText(n)' = job.text
    BY <2>1, <2>4
  <2>8. Saving.name = job.name /\ Saving.text = job.text /\ ~Saving.filed
    BY <2>2
  <2>7. Store' = [Store EXCEPT ![job.name] = job.text]
    BY <2>5, <2>6
  <2> QED
    BY <2>2, <2>3, <2>7, <2>8 DEF Arch!Commit, Arch!Next
<1>10. CASE SaveDone
  <2>1. flash' = flash /\ pc = "claimnew" /\ pc' = "idle"
    BY <1>10 DEF SaveDone
  <2>2. Saving # None /\ Saving.filed /\ Saving' = None
    <3>1. pc \in Busy /\ pc' \notin Busy
      BY <2>1 DEF Busy, Writing
    <3>2. Saving = [name |-> job.name, text |-> job.text, filed |-> TRUE]
      BY <2>1 DEF Saving
    <3> QED
      BY <1>2, <1>3, <3>1, <3>2
  <2>3. Store' = Store
    BY <1>4, <2>1, SameFlashSameText DEF SameArchive
  <2> QED
    BY <2>2, <2>3 DEF Arch!Saved, Arch!Next
<1>11. CASE Fault
  <2>1. SameArchive
    <3>1. ~WriteHeader \/ SameArchive
      <4>1. pc' # "claimnew"
        BY <1>11 DEF Fault, PowerCut, SaveError, TornErase, TornHeader, LosePower, ReturnError
      <4> QED
        BY <4>1 DEF WriteHeader
    <3> QED
      BY <1>11, <3>1, OnlyHeaderFiles DEF Next
  <2>2. pc' \notin Busy
    BY <1>11 DEF Fault, PowerCut, SaveError, TornErase, TornHeader, LosePower, ReturnError,
                 Busy, Writing
  <2>3. Store' = Store /\ Saving' = None
    BY <1>3, <1>4, <2>1, <2>2
  <2> QED
    BY <2>3 DEF Arch!PowerCut, Arch!Next
<1>12. CASE \E n \in Names, t \in Texts : SaveBegin(n, t)
  BY <1>7, <1>12 DEF Arch!Next
<1> QED
  BY <1>5, <1>6, <1>8, <1>9, <1>10, <1>11, <1>12 DEF Next, Save

\* A document is replaced whole or not at all, through every failed call,
\* power cut and reboot, and what was answered "saved" is what the next boot
\* reads (docstore.h:4-7): the journal implements Archive.
THEOREM SavedWholeOrNotAtAll ==
    ASSUME Room
    PROVE  Spec => ImplementsArchive
<1>1. Init => Arch!Init
  <2> SUFFICES ASSUME Init PROVE Arch!Init
    OBVIOUS
  <2>1. \A n \in Names : RecordsOf(n) = {}
    BY DEF Init, RecordsOf, Whole, Fits, HasHdr, Erased
  <2>2. \A n \in Names : ArchivedText(n) = None
    BY <2>1 DEF ArchivedText, Newest
  <2>3. Saving = None
    BY DEF Init, Saving, Writing
  <2> QED
    BY <2>2, <2>3 DEF Arch!Init
<1>2. LayoutInv /\ NewestInv /\ [Next]_vars /\ (LayoutInv /\ NewestInv)' => [Arch!Next]_(Arch!avars)
  BY ArchiveStep
<1> QED
  BY <1>1, <1>2, NewestHolds, PTL DEF Spec, ImplementsArchive, Arch!Spec
=============================================================================
