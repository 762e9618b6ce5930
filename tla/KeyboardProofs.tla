--------------------------- MODULE KeyboardProofs ---------------------------
(***************************************************************************)
(* What is typed, from the Bluetooth keyboard to the undo log, for any     *)
(* keyboards, links, keys, texts and bounds.                               *)
(*                                                                         *)
(*   KeysInv   a key the repeat task acts on has not come late, and has    *)
(*             not repeated more than the task has counted                 *)
(*   LinkInv   a walk over the reports of a keyboard, unless something it  *)
(*             relies on went wrong, is one procedure at a time of one     *)
(*             report of one link, and what was asked is what was passed   *)
(*   LogInv    every open buffer has a history, what it held before the    *)
(*             oldest entry of the log and after each, of which the text   *)
(*             is where the log has come to                                *)
(***************************************************************************)
EXTENDS BleLink, HeldKeys, Undo, TLAPS, WellFoundedInduction, SequenceTheorems,
        FiniteSetTheorems

\* The task never acts on a key it cannot account for: while the link lives the
\* held key is down as far as the deck knows, no late character of it has come
\* and it has repeated no more than the task has counted; a repetition decided
\* on is of a key with one to spare.
HeldInv == live = TRUE /\ held # NoKey =>
               held \in prev /\ late[held] = 0 /\ again[held] <= repeats
TaskInv == task.does = "type" =>
               /\ task.key \in Keys /\ repeats < RepeatMax
               /\ late[task.key] = 0 /\ again[task.key] < RepeatMax
\* A key that is down and was typed is remembered as down.
TypedInv == \A k \in Keys : typed[k] = 1 /\ k \in Range(down) => k \in prev

KeysTyped ==
    /\ down \in Seq(Keys) /\ prev \subseteq Keys /\ held \in Keys \cup {NoKey}
    /\ live \in BOOLEAN
    /\ task \in [does : {"look", "type", "cap"}, key : Keys \cup {NoKey}]
    /\ repeats \in Nat
    /\ typed \in [Keys -> Nat] /\ again \in [Keys -> Nat] /\ late \in [Keys -> Nat]
AtMost == \A k \in Keys : typed[k] <= 1 /\ late[k] <= 1 /\ again[k] <= RepeatMax
KeysInv == KeysTyped /\ AtMost /\ HeldInv /\ TaskInv /\ TypedInv

\* The last new key of a report is a key of the report.
LEMMA LastNew ==
    ASSUME NEW n \in Nat, NEW S, S \subseteq 1..n, S # {}
    PROVE  Max(S) \in S
<1> DEFINE T == {n - x : x \in S}
<1>1. T \subseteq Nat /\ T # {} /\ \A x \in S : x \in Nat
  <2>1. \A x \in S : x \in 1..n
    OBVIOUS
  <2>2. \A x \in S : n - x \in Nat /\ x \in Nat
    BY <2>1
  <2>3. QED
    BY <2>2
<1>2. PICK t \in T : \A y \in T : ~(<<y, t>> \in OpToRel(<, Nat))
    BY <1>1, NatLessThanWellFounded, WFMin
<1>3. PICK x \in S : t = n - x
    BY <1>2
<1>4. ASSUME NEW y \in S PROVE x >= y
  <2>1. n - y \in T /\ n - y \in Nat /\ t \in Nat
    BY <1>1
  <2>2. ~(n - y < t)
    BY <1>2, <2>1 DEF OpToRel
  <2>3. x \in Nat /\ y \in Nat
    BY <1>1
  <2>4. QED
    BY <1>3, <2>1, <2>2, <2>3
<1>5. QED
    BY <1>4 DEF Max

\* What a report does to the deck.
LEMMA Reported ==
    ASSUME KeysInv, NEW now \in Seq(Keys), HandleReport(now)
    PROVE  /\ prev' = Range(now) /\ prev' \subseteq Keys /\ held' \in Keys \cup {NoKey}
           /\ again' \in [Keys -> Nat] /\ late' \in [Keys -> Nat]
           /\ \A k \in Keys : again'[k] \in {0, again[k]} /\ late'[k] \in {0, late[k]}
           /\ held' # NoKey => held' \in prev'
           /\ held' # NoKey => \/ held' = held
                               \/ late'[held'] = 0 /\ again'[held'] = 0
<1> DEFINE new == NewIn(now)
           last == IF new = {} THEN held ELSE now[Max(new)]
           since(n) == [k \in Keys |-> IF \E i \in new : now[i] = k THEN 0 ELSE n[k]]
<1>1. /\ prev' = Range(now) /\ late' = since(late) /\ again' = since(again)
      /\ held' = IF last \in Range(now) THEN last ELSE NoKey
    BY DEF HandleReport, HeldAfter
<1>2. again \in [Keys -> Nat] /\ late \in [Keys -> Nat]
    BY DEF KeysInv, KeysTyped
<1>3. Range(now) \subseteq Keys
    BY DEF Range
<1>4. /\ again' \in [Keys -> Nat] /\ late' \in [Keys -> Nat]
      /\ \A k \in Keys : again'[k] \in {0, again[k]} /\ late'[k] \in {0, late[k]}
    BY <1>1, <1>2
<1>5. new # {} => last \in Keys /\ late'[last] = 0 /\ again'[last] = 0
  <2>1. SUFFICES ASSUME new # {} PROVE last \in Keys /\ late'[last] = 0 /\ again'[last] = 0
    OBVIOUS
  <2>2. new \subseteq 1..Len(now) /\ Len(now) \in Nat
    BY DEF NewIn
  <2> HIDE DEF new
  <2>3. Max(new) \in new
    BY <2>1, <2>2, LastNew
  <2>4. last = now[Max(new)] /\ last \in Keys
    <3>1. last = now[Max(new)]
      BY <2>1
    <3>2. Max(new) \in 1..Len(now)
      BY <2>2, <2>3
    <3>3. QED
      BY <3>1, <3>2
  <2>5. QED
    BY <1>1, <2>3, <2>4
<1>6. held' # NoKey => held' = last /\ last \in Range(now)
    BY <1>1
<1>7. new = {} => last = held
    OBVIOUS
<1> HIDE DEF new, last, since
<1>8. QED
    BY <1>1, <1>3, <1>4, <1>5, <1>6, <1>7

\* A finger that goes down or up, heard of or not.
LEMMA FingerKept ==
    ASSUME KeysInv, NEW k \in Keys, NEW now \in Seq(Keys), NEW arrives \in BOOLEAN,
           Finger(k, now, arrives),
           \A i \in DOMAIN now : now[i] = k \/ now[i] \in Range(down)
    PROVE  KeysInv'
<1> DEFINE was == [j \in Keys |-> IF j \in Fresh(k) THEN 0 ELSE typed[j]]
<1>1. /\ typed \in [Keys -> Nat] /\ \A j \in Keys : typed[j] <= 1
      /\ prev \subseteq Keys /\ repeats \in Nat /\ RepeatMax \in Nat
      /\ held \in Keys \cup {NoKey} /\ NoKey \notin Keys
      /\ again \in [Keys -> Nat] /\ late \in [Keys -> Nat]
    BY KeysAssumption DEF KeysInv, KeysTyped, AtMost
<1>2. /\ down' = now /\ live' = live /\ task' = task /\ repeats' = repeats
      /\ typed' = [j \in Keys |-> IF arrives /\ \E i \in NewIn(now) : now[i] = j
                                  THEN was[j] + 1 ELSE was[j]]
    BY DEF Finger
<1>3. \A j \in Keys : was[j] \in Nat /\ was[j] <= 1
    BY <1>1
<1>4. \A j \in Keys : j \in Range(now) /\ was[j] = 1 => j \in prev
  <2>1. SUFFICES ASSUME NEW j \in Keys, j \in Range(now), was[j] = 1 PROVE j \in prev
    OBVIOUS
  <2>2. j \notin Fresh(k) /\ typed[j] = 1
    BY <2>1
  <2>3. j \in Range(down)
    BY <2>1, <2>2 DEF Range, Fresh
  <2>4. QED
    BY <2>2, <2>3 DEF KeysInv, TypedInv
<1>5. \A j \in Keys : (\E i \in NewIn(now) : now[i] = j) => j \in Range(now) /\ j \notin prev
    BY DEF NewIn, Range
<1> HIDE DEF was
<1>6. CASE arrives = TRUE
  <2>1. HandleReport(now)
    BY <1>6 DEF Finger
  <2>2. typed' \in [Keys -> Nat] /\ \A j \in Keys : typed'[j] <= 1
    <3>1. \A j \in Keys : (\E i \in NewIn(now) : now[i] = j) => was[j] = 0
      BY <1>3, <1>4, <1>5
    <3>2. QED
      BY <1>2, <1>3, <1>6, <3>1
  <2>3. KeysTyped'
    BY <1>2, <2>1, <2>2, Reported DEF KeysInv, KeysTyped
  <2>4. AtMost'
    <3>1. \A j \in Keys : again'[j] \in {0, again[j]} /\ late'[j] \in {0, late[j]}
      BY <2>1, Reported
    <3>2. \A j \in Keys : again[j] <= RepeatMax /\ late[j] <= 1
      BY DEF KeysInv, AtMost
    <3>3. ASSUME NEW j \in Keys PROVE again'[j] <= RepeatMax /\ late'[j] <= 1
      <4>1. again'[j] = 0 \/ again'[j] = again[j]
        BY <3>1
      <4>2. late'[j] = 0 \/ late'[j] = late[j]
        BY <3>1
      <4>3. again[j] <= RepeatMax /\ late[j] <= 1 /\ 0 <= RepeatMax /\ 0 <= 1
        BY <1>1, <3>2
      <4>4. QED
        BY <4>1, <4>2, <4>3
    <3>4. QED
      BY <2>2, <3>3 DEF AtMost
  <2>5. HeldInv'
    <3>1. SUFFICES ASSUME live = TRUE, held' # NoKey
                   PROVE  held' \in prev' /\ late'[held'] = 0 /\ again'[held'] <= repeats
      BY <1>2 DEF HeldInv
    <3>2. held' \in prev' /\ held' \in Keys
      BY <2>1, <3>1, Reported
    <3>3. CASE held' = held
      <4>1. late[held] = 0 /\ again[held] <= repeats
        BY <3>1, <3>3 DEF KeysInv, HeldInv
      <4>2. again'[held] \in {0, again[held]} /\ late'[held] \in {0, late[held]}
        BY <2>1, <3>2, <3>3, Reported
      <4>3. QED
        BY <1>1, <3>2, <3>3, <4>1, <4>2
    <3>4. CASE late'[held'] = 0 /\ again'[held'] = 0
      BY <1>1, <3>2, <3>4
    <3>5. QED
      BY <2>1, <3>1, <3>3, <3>4, Reported
  <2>6. TaskInv'
    <3>1. SUFFICES ASSUME task.does = "type"
                   PROVE  /\ task.key \in Keys /\ repeats < RepeatMax
                          /\ late'[task.key] = 0 /\ again'[task.key] < RepeatMax
      BY <1>2 DEF TaskInv
    <3>2. /\ task.key \in Keys /\ repeats < RepeatMax
          /\ late[task.key] = 0 /\ again[task.key] < RepeatMax
      BY <3>1 DEF KeysInv, TaskInv
    <3>3. again'[task.key] \in {0, again[task.key]} /\ late'[task.key] \in {0, late[task.key]}
      BY <2>1, <3>2, Reported
    <3>4. QED
      BY <1>1, <3>2, <3>3
  <2>7. TypedInv'
    BY <1>2, <2>1, Reported DEF TypedInv
  <2>8. QED
    BY <2>3, <2>4, <2>5, <2>6, <2>7 DEF KeysInv
<1>7. CASE arrives = FALSE
  <2>1. UNCHANGED <<held, prev, due, late, again>>
    BY <1>7 DEF Finger
  <2>2. \A j \in Keys : typed'[j] = was[j]
    BY <1>2, <1>7
  <2>3. typed' \in [Keys -> Nat]
    BY <1>2, <1>3, <1>7
  <2>4. KeysTyped' /\ AtMost' /\ HeldInv' /\ TaskInv'
    BY <1>2, <1>3, <2>1, <2>2, <2>3 DEF KeysInv, KeysTyped, AtMost, HeldInv, TaskInv
  <2>5. TypedInv'
    BY <1>2, <1>4, <2>1, <2>2 DEF TypedInv
  <2>6. QED
    BY <2>4, <2>5 DEF KeysInv
<1>8. QED
    BY <1>6, <1>7

LEMMA PressKept ==
    ASSUME KeysInv, NEW k \in Keys, NEW arrives \in BOOLEAN, Press(k, arrives)
    PROVE  KeysInv'
<1>1. down \in Seq(Keys) /\ Finger(k, Append(down, k), arrives)
    BY DEF KeysInv, KeysTyped, Press
<1>2. /\ Append(down, k) \in Seq(Keys)
      /\ \A i \in DOMAIN Append(down, k) : \/ Append(down, k)[i] = k
                                           \/ Append(down, k)[i] \in Range(down)
    BY <1>1 DEF Range
<1>3. QED
    BY <1>1, <1>2, FingerKept

LEMMA ReleaseKept ==
    ASSUME KeysInv, NEW k \in Keys, NEW arrives \in BOOLEAN, Release(k, arrives)
    PROVE  KeysInv'
<1>1. PICK i \in DOMAIN down : Finger(k, RemoveAt(down, i), arrives)
    BY DEF Release
<1>2. down \in Seq(Keys) /\ Len(down) \in Nat /\ i \in 1..Len(down)
  <2>1. down \in Seq(Keys)
    BY DEF KeysInv, KeysTyped
  <2>2. QED
    BY <2>1
<1> DEFINE now == RemoveAt(down, i)
<1>3. now = SubSeq(down, 1, i - 1) \o SubSeq(down, i + 1, Len(down))
    BY DEF RemoveAt
<1>4. now \in Seq(Keys) /\ \A j \in DOMAIN now : now[j] \in Range(down)
  <2>1. /\ SubSeq(down, 1, i - 1) \in Seq(Keys) /\ SubSeq(down, i + 1, Len(down)) \in Seq(Keys)
        /\ Len(SubSeq(down, 1, i - 1)) = i - 1
        /\ Len(SubSeq(down, i + 1, Len(down))) = Len(down) - i
        /\ \A j \in 1..(i - 1) : SubSeq(down, 1, i - 1)[j] = down[j]
        /\ \A j \in 1..(Len(down) - i) : SubSeq(down, i + 1, Len(down))[j] = down[j + i]
    BY <1>2
  <2>2. \A j \in 1..Len(down) : down[j] \in Range(down)
    BY <1>2 DEF Range
  <2>3. PICK a, b : a = SubSeq(down, 1, i - 1) /\ b = SubSeq(down, i + 1, Len(down))
    OBVIOUS
  <2>4. /\ a \in Seq(Keys) /\ b \in Seq(Keys) /\ now = a \o b
        /\ \A j \in 1..Len(a) : a[j] \in Range(down)
        /\ \A j \in 1..Len(b) : b[j] \in Range(down)
    <3>1. a \in Seq(Keys) /\ b \in Seq(Keys) /\ now = a \o b
      BY <1>3, <2>1, <2>3
    <3>2. Len(a) = i - 1 /\ \A j \in 1..(i - 1) : a[j] = down[j] /\ j \in 1..Len(down)
      <4>1. \A j \in 1..(i - 1) : j \in 1..Len(down)
        BY <1>2
      <4>2. QED
        BY <2>1, <2>3, <4>1
    <3>3. Len(b) = Len(down) - i
          /\ \A j \in 1..(Len(down) - i) : b[j] = down[j + i] /\ j + i \in 1..Len(down)
      <4>1. \A j \in 1..(Len(down) - i) : j + i \in 1..Len(down)
        BY <1>2
      <4>2. QED
        BY <2>1, <2>3, <4>1
    <3> HIDE DEF now
    <3>4. QED
      BY <2>2, <3>1, <3>2, <3>3
  <2>5. DOMAIN now = 1..(Len(a) + Len(b)) /\ now \in Seq(Keys)
        /\ \A j \in DOMAIN now : now[j] = IF j <= Len(a) THEN a[j] ELSE b[j - Len(a)]
    BY <2>4
  <2>6. ASSUME NEW j \in DOMAIN now PROVE now[j] \in Range(down)
    <3>1. Len(a) \in Nat /\ Len(b) \in Nat
      BY <2>4
    <3>2. j <= Len(a) => j \in 1..Len(a)
      BY <2>5, <2>6, <3>1
    <3>3. ~(j <= Len(a)) => j - Len(a) \in 1..Len(b)
      BY <2>5, <2>6, <3>1
    <3> HIDE DEF now
    <3>4. QED
      BY <2>4, <2>5, <3>2, <3>3
  <2>7. QED
    BY <2>5, <2>6
<1> HIDE DEF now
<1>5. Finger(k, now, arrives)
    BY <1>1 DEF now
<1>6. QED
    BY <1>4, <1>5, FingerKept

LEMMA KeysAtFirst == KeysInit => KeysInv
<1>1. SUFFICES ASSUME KeysInit PROVE KeysInv
    OBVIOUS
<1>2. KeysTyped /\ AtMost
    BY <1>1, KeysAssumption DEF KeysInit, KeysTyped, AtMost, idle
<1>3. HeldInv /\ TaskInv /\ TypedInv
    BY <1>1 DEF KeysInit, HeldInv, TaskInv, TypedInv, idle
<1>4. QED
    BY <1>2, <1>3 DEF KeysInv

LEMMA KeysKept == KeysInv /\ [KeysNext]_keyVars => KeysInv'
<1>1. SUFFICES ASSUME KeysInv, [KeysNext]_keyVars PROVE KeysInv'
    OBVIOUS
<1>2. /\ KeysTyped /\ AtMost /\ HeldInv /\ TaskInv /\ TypedInv
      /\ RepeatMax \in Nat /\ NoKey \notin Keys
    BY <1>1, KeysAssumption DEF KeysInv
<1>3. CASE LinkLost
    BY <1>2, <1>3 DEF LinkLost, KeysInv, KeysTyped, AtMost, HeldInv, TaskInv, TypedInv
<1>4. CASE LinkForgotten
    BY <1>2, <1>4 DEF LinkForgotten, KeysInv, KeysTyped, AtMost, HeldInv, TaskInv, TypedInv
<1>5. CASE LinkBack
    BY <1>2, <1>5 DEF LinkBack, KeysInv, KeysTyped, AtMost, HeldInv, TaskInv, TypedInv
<1>6. CASE Later \/ UNCHANGED keyVars
    BY <1>2, <1>6 DEF Later, keyVars, KeysInv, KeysTyped, AtMost, HeldInv, TaskInv, TypedInv
<1>7. CASE Look
    BY <1>2, <1>7 DEF Look, KeysInv, KeysTyped, AtMost, HeldInv, TaskInv, TypedInv
<1>8. CASE TypeAgain
  <2>1. KeysTyped'
      BY <1>2, <1>8 DEF TypeAgain, KeysTyped, TaskInv, idle
  <2>2. AtMost'
      BY <1>2, <1>8 DEF TypeAgain, KeysTyped, AtMost, TaskInv, idle
  <2>3. HeldInv'
      BY <1>2, <1>8 DEF TypeAgain, KeysTyped, HeldInv, TaskInv, idle
  <2>4. TaskInv'
      BY <1>2, <1>8 DEF TypeAgain, KeysTyped, TaskInv, idle
  <2>5. TypedInv'
      BY <1>2, <1>8 DEF TypeAgain, KeysTyped, TypedInv, idle
  <2>6. QED
      BY <2>1, <2>2, <2>3, <2>4, <2>5 DEF KeysInv
<1>9. CASE Cap
    BY <1>2, <1>9 DEF Cap, KeysInv, KeysTyped, AtMost, HeldInv, TaskInv, TypedInv, idle
<1>10. QED
    BY <1>1, <1>3, <1>4, <1>5, <1>6, <1>7, <1>8, <1>9, PressKept, ReleaseKept DEF KeysNext

(* However often keys go down and up, whatever reports the air loses and   *)
(* whenever the link goes or the task of the other core looks: a press is  *)
(* typed once, at most one repetition comes after the key is known to be   *)
(* up, and repetition ends (handle_report, repeat_task).                   *)
THEOREM TypedAsFingersPress == KeysSpec => []TypedAsPressed
<1>1. KeysInv => TypedAsPressed
    BY DEF KeysInv, AtMost, TypedAsPressed, TypedOncePerPress, OneLateRepeat, RepeatsEnd
<1>2. QED
    BY <1>1, KeysAtFirst, KeysKept, PTL DEF KeysSpec

-----------------------------------------------------------------------------
(* What is so of every link, procedure and walk, however far.               *)
WalkKinds == {"dsc", "end", "cccd"}
Kinds == {"svc", "chr"} \cup WalkKinds
Walks(p) == p.kind \in WalkKinds

StackTyped ==
    /\ sync \in BOOLEAN /\ gap \in {"idle", "scan", "dial"}
    /\ link \in [Links -> {"free", "up", "closing", "dying"}]
    /\ enc \in [Links -> Nat] /\ DOMAIN board = Links
    /\ \A h \in Links : link[h] # "free" => board[h] \in Boards
ProcsTyped ==
    /\ procs \subseteq [on : Links, kind : Kinds, at : Nat, n : Nat]
    /\ \A p \in procs : link[p.on] # "free"
WalkTyped ==
    /\ chrs \in Boards \cup {<<>>} /\ idx \in Nat \ {0} /\ done \in Nat
    /\ started \in BOOLEAN /\ upset \in BOOLEAN
    /\ asked \in [1..MaxReports -> Nat]

\* A walk nothing has upset: it is of one report of one link.
SoleStep ==
    \A p, q \in procs : Walks(p) /\ Walks(q) =>
        p.on = q.on /\ p.n = q.n /\ p.at = q.at /\ (p.kind = "dsc" => q = p)
InStep ==
    \A p \in procs :
        /\ p.kind \in {"dsc", "cccd"} =>
               p.at = idx /\ idx <= Len(chrs) /\ board[p.on] = chrs
        /\ p.kind = "dsc" => started = FALSE /\ asked[idx] = 0
        /\ p.kind = "cccd" => asked[idx] = 1 /\ chrs[idx] = TRUE
        /\ p.kind = "end" => started = TRUE
Counted ==
    \A i \in 1..Len(chrs) :
        /\ asked[i] <= 1
        /\ i < idx => (asked[i] = 1 <=> chrs[i] = TRUE)
        /\ i > idx => asked[i] = 0
Walk == upset = FALSE /\ chrs # <<>> => SoleStep /\ InStep /\ Counted

\* The radio: what the deck thinks it is linked to is.
Radio ==
    /\ connected => \E h \in Links : link[h] # "free"
    /\ conn # NoLink => conn \in Links /\ link[conn] # "free"
    /\ AlwaysLooking
    /\ connected \in BOOLEAN
LinkTyped == StackTyped /\ ProcsTyped /\ WalkTyped
LinkInv == LinkTyped /\ Walk /\ Radio

LEMMA ClosedIs ==
    ASSUME StackTyped, NEW h
    PROVE  /\ Closed(h) \in [Links -> {"free", "up", "closing", "dying"}]
           /\ \A x \in Links : /\ Closed(h)[x] = "free" <=> link[x] = "free"
                               /\ Closed(h)[x] = "dying" <=> link[x] = "dying"
<1>1. link \in [Links -> {"free", "up", "closing", "dying"}]
    BY DEF StackTyped
<1>2. CASE h \in Links /\ link[h] = "up"
  <2>1. Closed(h) = [link EXCEPT ![h] = "closing"]
    BY <1>2 DEF Closed
  <2>2. QED
    BY <1>1, <1>2, <2>1
<1>3. CASE ~(h \in Links /\ link[h] = "up")
    BY <1>1, <1>3 DEF Closed
<1>4. QED
    BY <1>2, <1>3

\* A report more, or the end of the walk.
LEMMA NextReport ==
    ASSUME LinkTyped, NEW h \in Links, link[h] # "free", NEW i \in Nat \ {0},
           NEW ps \in SUBSET procs, SubscribeNext(h, i, ps), chrs' \in Boards \cup {<<>>}
    PROVE  /\ idx' \in Nat \ {0} /\ started' \in BOOLEAN
           /\ procs' \subseteq [on : Links, kind : Kinds, at : Nat, n : Nat]
           /\ \A p \in procs' : link[p.on] # "free"
           /\ link' = link \/ link' = Closed(h)
           /\ ~Passed(i) => /\ idx' = i
                            /\ i <= Len(chrs') => /\ procs' = ps \cup {Proc(h, "dsc", i)}
                                                  /\ started' = FALSE /\ link[h] # "dying"
                            /\ i > Len(chrs') => procs' = ps /\ started' = started
<1>1. Len(chrs') \in Nat
  <2>1. chrs' \in Seq(BOOLEAN)
    <3>1. \A b \in Boards : b \in Seq(BOOLEAN)
      BY LinkAssumption
    <3>2. <<>> \in Seq(BOOLEAN)
      OBVIOUS
    <3>3. QED
      BY <3>1, <3>2
  <2>2. QED
    BY <2>1
<1>2. PICK to \in {i} \cup i..(Len(chrs') + 1) :
        /\ idx' = to
        /\ IF i <= Len(chrs') THEN started' = FALSE ELSE UNCHANGED started
        /\ IF to <= Len(chrs')
           THEN /\ link[h] # "dying"
                /\ procs' = ps \cup {Proc(h, "dsc", to)}
                /\ UNCHANGED link
           ELSE /\ procs' = ps
                /\ UNCHANGED link \/ link' = Closed(h)
    BY DEF SubscribeNext, Subscribed
<1>3. to \in Nat \ {0} /\ i <= to
    BY <1>1
<1>4. Proc(h, "dsc", to) \in [on : Links, kind : Kinds, at : Nat, n : Nat]
      /\ Proc(h, "dsc", to).on = h
    BY <1>3 DEF LinkTyped, StackTyped, Proc, Kinds, WalkKinds
<1>5. procs \subseteq [on : Links, kind : Kinds, at : Nat, n : Nat]
      /\ \A p \in procs : link[p.on] # "free"
    BY DEF LinkTyped, ProcsTyped
<1>6. /\ procs' \subseteq [on : Links, kind : Kinds, at : Nat, n : Nat]
      /\ \A p \in procs' : link[p.on] # "free"
    BY <1>2, <1>4, <1>5
<1>7. started' \in BOOLEAN
    BY <1>2 DEF LinkTyped, WalkTyped
<1>8. ~Passed(i) => to = i
    BY <1>2, <1>3 DEF Passed
<1>9. QED
    BY <1>1, <1>2, <1>3, <1>6, <1>7, <1>8

\* What the answers to the stack's procedures leave alone.
AnswerTo(p) == \/ OnSvc(p) \/ OnChr(p) \/ CccdFound(p) \/ DscDone(p) \/ Abort(p)
               \/ \E ok \in BOOLEAN : CccdWritten(p, ok)

LEMMA AnswersLeave ==
    ASSUME NEW p, AnswerTo(p)
    PROVE  UNCHANGED <<sync, gap, board, enc, conn, connected, host, main>>
    BY DEF AnswerTo, OnSvc, OnChr, CccdFound, DscDone, Abort, CccdWritten, flags

\* They end, or go on from, a procedure of a link that is there.
LEMMA AnswersTyped ==
    ASSUME LinkTyped, NEW p \in procs, AnswerTo(p)
    PROVE  /\ link' = link \/ link' = Closed(p.on)
           /\ procs' \subseteq [on : Links, kind : Kinds, at : Nat, n : Nat]
           /\ \A q \in procs' : link[q.on] # "free"
           /\ WalkTyped'
<1>1. /\ p \in [on : Links, kind : Kinds, at : Nat, n : Nat] /\ link[p.on] # "free"
      /\ procs \subseteq [on : Links, kind : Kinds, at : Nat, n : Nat]
      /\ \A q \in procs : link[q.on] # "free"
      /\ WalkTyped /\ p.on \in Links /\ board[p.on] \in Boards
    BY DEF LinkTyped, ProcsTyped, StackTyped
<1>2. ASSUME NEW k \in Kinds
      PROVE  /\ [p EXCEPT !.kind = k] \in [on : Links, kind : Kinds, at : Nat, n : Nat]
             /\ [p EXCEPT !.kind = k].on = p.on
    BY <1>1
<1>3. procs \ {p} \in SUBSET procs
    OBVIOUS
<1>4. CASE OnSvc(p)
  <2>1. \/ procs' = procs \ {p}
        \/ procs' = (procs \ {p}) \cup {[p EXCEPT !.kind = "chr"]}
    BY <1>4 DEF OnSvc
  <2>2. "chr" \in Kinds
    BY DEF Kinds
  <2>3. /\ procs' \subseteq [on : Links, kind : Kinds, at : Nat, n : Nat]
        /\ \A q \in procs' : link[q.on] # "free"
    BY <1>1, <1>2, <2>1, <2>2
  <2>4. WalkTyped'
    BY <1>1, <1>4 DEF OnSvc, WalkTyped
  <2>5. QED
    BY <1>4, <2>3, <2>4 DEF OnSvc
<1>5. CASE OnChr(p)
  <2>1. CASE procs' = procs \ {p} /\ UNCHANGED <<link, chrs, idx, done, started, asked, upset>>
    BY <1>1, <2>1 DEF WalkTyped
  <2>2. CASE /\ chrs' = board[p.on] /\ done' = 0 /\ asked' = NoneAsked
             /\ SubscribeNext(p.on, 1, procs \ {p})
             /\ upset' = (procs # {p} \/ Passed(1))
    <3>1. chrs' \in Boards \cup {<<>>} /\ 1 \in Nat \ {0}
      BY <1>1, <2>2
    <3>2. /\ idx' \in Nat \ {0} /\ started' \in BOOLEAN
          /\ procs' \subseteq [on : Links, kind : Kinds, at : Nat, n : Nat]
          /\ \A q \in procs' : link[q.on] # "free"
          /\ link' = link \/ link' = Closed(p.on)
      BY <1>1, <1>3, <2>2, <3>1, NextReport
    <3>3. asked' \in [1..MaxReports -> Nat] /\ done' \in Nat
      BY <2>2 DEF NoneAsked
    <3>4. upset' \in BOOLEAN
      BY <2>2, Zenon
    <3>5. QED
      BY <3>1, <3>2, <3>3, <3>4 DEF WalkTyped
  <2>3. QED
    BY <1>5, <2>1, <2>2 DEF OnChr
<1>6. CASE CccdFound(p)
  <2>1. /\ link' = link \/ link' = Closed(p.on)
        /\ chrs' = chrs /\ done' = done
    BY <1>6 DEF CccdFound, Subscribed
  <2>2. procs' \subseteq (procs \ {p}) \cup {[p EXCEPT !.kind = "end"], [p EXCEPT !.kind = "cccd"],
                                             Proc(p.on, "dsc", idx + 1)}
    BY <1>6 DEF CccdFound
  <2>3. Proc(p.on, "dsc", idx + 1) \in [on : Links, kind : Kinds, at : Nat, n : Nat]
        /\ Proc(p.on, "dsc", idx + 1).on = p.on
    BY <1>1 DEF LinkTyped, StackTyped, WalkTyped, Proc, Kinds, WalkKinds
  <2>4. "end" \in Kinds /\ "cccd" \in Kinds
    BY DEF Kinds, WalkKinds
  <2>5. /\ procs' \subseteq [on : Links, kind : Kinds, at : Nat, n : Nat]
        /\ \A q \in procs' : link[q.on] # "free"
    BY <1>1, <1>2, <2>2, <2>3, <2>4
  <2>6. idx' \in Nat \ {0}
    BY <1>1, <1>6 DEF CccdFound, WalkTyped
  <2>7. started' \in BOOLEAN /\ upset' \in BOOLEAN
    <3>1. \/ started' = TRUE /\ upset' = upset
          \/ started' = (started /\ idx >= Len(chrs)) /\ upset' = TRUE
      BY <1>6 DEF CccdFound
    <3>2. QED
      BY <1>1, <3>1, Zenon DEF WalkTyped
  <2>8. asked' \in [1..MaxReports -> Nat]
    <3>1. \/ asked' = asked
          \/ asked' = [asked EXCEPT ![p.at] = IF asked[p.at] < 2 THEN asked[p.at] + 1
                                              ELSE asked[p.at]]
      BY <1>6 DEF CccdFound
    <3>2. QED
      BY <1>1, <3>1 DEF WalkTyped
  <2>9. QED
    BY <1>1, <2>1, <2>5, <2>6, <2>7, <2>8 DEF WalkTyped
<1>7. ASSUME SubscribeNext(p.on, idx + 1, procs \ {p}), chrs' = chrs, asked' = asked,
             upset' = (upset \/ Passed(idx + 1)), done' \in Nat
      PROVE  /\ link' = link \/ link' = Closed(p.on)
             /\ procs' \subseteq [on : Links, kind : Kinds, at : Nat, n : Nat]
             /\ \A q \in procs' : link[q.on] # "free"
             /\ WalkTyped'
  <2>1. idx + 1 \in Nat \ {0} /\ chrs' \in Boards \cup {<<>>}
    BY <1>1, <1>7 DEF WalkTyped
  <2>2. /\ idx' \in Nat \ {0} /\ started' \in BOOLEAN
        /\ procs' \subseteq [on : Links, kind : Kinds, at : Nat, n : Nat]
        /\ \A q \in procs' : link[q.on] # "free"
        /\ link' = link \/ link' = Closed(p.on)
    BY <1>1, <1>3, <1>7, <2>1, NextReport
  <2>3. upset' \in BOOLEAN
    BY <1>7, Zenon
  <2>4. QED
    BY <1>1, <1>7, <2>1, <2>2, <2>3 DEF WalkTyped
<1>8. ASSUME procs' = procs \ {p}, chrs' = chrs, asked' = asked, upset' = upset, done' = done,
             idx' = idx, started' = started
      PROVE  /\ procs' \subseteq [on : Links, kind : Kinds, at : Nat, n : Nat]
             /\ \A q \in procs' : link[q.on] # "free"
             /\ WalkTyped'
    BY <1>1, <1>8 DEF WalkTyped
<1>9. CASE DscDone(p)
  <2>1. chrs' = chrs /\ asked' = asked /\ done' = done /\ done \in Nat
    BY <1>1, <1>9 DEF DscDone, WalkTyped
  <2>2. CASE NoCccd
    BY <1>7, <1>9, <2>1, <2>2 DEF DscDone
  <2>3. CASE ~NoCccd
    BY <1>8, <1>9, <2>1, <2>3 DEF DscDone
  <2>4. QED
    BY <2>2, <2>3
<1>10. ASSUME NEW ok \in BOOLEAN, Advance(p, ok), chrs' = chrs, asked' = asked
       PROVE  /\ link' = link \/ link' = Closed(p.on)
              /\ procs' \subseteq [on : Links, kind : Kinds, at : Nat, n : Nat]
              /\ \A q \in procs' : link[q.on] # "free"
              /\ WalkTyped'
  <2>1. CASE FinishedWalk
    BY <1>8, <1>10, <2>1 DEF Advance
  <2>2. CASE ~FinishedWalk
    <3>1. done' \in Nat
      BY <1>1, <1>10, <2>2 DEF Advance, WalkTyped
    <3>2. QED
      BY <1>7, <1>10, <2>2, <3>1 DEF Advance
  <2>3. QED
    BY <2>1, <2>2
<1>11. ASSUME NEW ok \in BOOLEAN, CccdWritten(p, ok)
       PROVE  /\ link' = link \/ link' = Closed(p.on)
              /\ procs' \subseteq [on : Links, kind : Kinds, at : Nat, n : Nat]
              /\ \A q \in procs' : link[q.on] # "free"
              /\ WalkTyped'
    BY <1>10, <1>11 DEF CccdWritten
<1>12. CASE Abort(p)
  <2>1. chrs' = chrs /\ asked' = asked
    BY <1>12 DEF Abort
  <2>2. CASE p.kind = "cccd"
    <3>1. Advance(p, FALSE)
      BY <1>12, <2>2 DEF Abort
    <3>2. QED
      BY <1>10, <2>1, <3>1
  <2>3. CASE p.kind # "cccd"
    BY <1>8, <1>12, <2>1, <2>3 DEF Abort
  <2>4. QED
    BY <2>2, <2>3
<1>13. QED
    BY <1>4, <1>5, <1>6, <1>9, <1>11, <1>12 DEF AnswerTo

\* The other steps, of the host task and the main task.
OtherNext ==
    \/ Sync \/ Reset \/ Found \/ ScanOver \/ ConnectFailed \/ Dial
    \/ \E h \in Links : \/ \E b \in Boards : Connected(h, b)
                        \/ EncChange(h) \/ Drop(h) \/ Disconnected(h) \/ Notified(h)
    \/ LinkDead \/ Forget \/ ForgetBonds \/ Share \/ ShareCancel \/ Rescan

LEMMA NextIs == LinkNext <=> OtherNext \/ \E p \in procs : AnswerTo(p)
    BY DEF LinkNext, OtherNext, Answered, AnswerTo

LEMMA RadioAnswers ==
    ASSUME LinkTyped, Radio, NEW p \in procs, AnswerTo(p)
    PROVE  Radio'
<1>1. \A x \in Links : link'[x] = "free" <=> link[x] = "free"
    BY AnswersTyped, ClosedIs DEF LinkTyped
<1>2. UNCHANGED <<sync, gap, conn, connected, host, main>>
    BY AnswersLeave
<1>3. AlwaysLooking'
    BY <1>1, <1>2 DEF Radio, AlwaysLooking
<1>4. QED
    BY <1>1, <1>2, <1>3 DEF Radio

\* What the deck tells the radio, and what the radio reports.
LEMMA RadioOthers ==
    ASSUME LinkTyped, Radio, OtherNext
    PROVE  Radio'
<1> USE DEF Scanning, Cancelled, Linked
<1>1. /\ link \in [Links -> {"free", "up", "closing", "dying"}] /\ NoLink \notin Links
      /\ sync \in BOOLEAN /\ gap \in {"idle", "scan", "dial"} /\ connected \in BOOLEAN
      /\ connected => \E h \in Links : link[h] # "free"
      /\ conn # NoLink => conn \in Links /\ link[conn] # "free"
      /\ (sync /\ host = "free" /\ main = "free" /\ \A h \in Links : link[h] = "free")
             => gap # "idle"
    BY LinkAssumption DEF Radio, LinkTyped, StackTyped, AlwaysLooking
<1>2. ASSUME \A x \in Links : link'[x] = "free" <=> link[x] = "free",
             conn' = conn, connected' = connected,
             sync' = sync, host' # "free" \/ main' # "free" \/ gap' # "idle" \/ ~sync
                                \/ UNCHANGED <<host, main, gap>>
      PROVE  Radio'
    BY <1>1, <1>2 DEF Radio, AlwaysLooking
<1>3. \A h, x : x \in Links => (Closed(h)[x] = "free" <=> link[x] = "free")
    BY ClosedIs DEF LinkTyped
<1>4. CASE Sync
    BY <1>1, <1>4 DEF Sync, Radio, AlwaysLooking, flags
<1>5. CASE Reset
  <2>1. \A x \in Links : link'[x] = "free" <=> link[x] = "free"
    BY <1>1, <1>5 DEF Reset
  <2>2. QED
    BY <1>1, <1>5, <2>1 DEF Reset, Radio, AlwaysLooking
<1>6. CASE Found \/ ConnectFailed \/ Dial
    BY <1>1, <1>2, <1>6 DEF Found, ConnectFailed, Dial, flags
<1>7. CASE ScanOver
  <2>1. UNCHANGED <<sync, link, conn, connected, main>>
    BY <1>7 DEF ScanOver, flags
  <2>2. CASE ~connected /\ conn = NoLink
    BY <1>1, <1>2, <1>7, <2>1, <2>2 DEF ScanOver
  <2>3. CASE connected \/ conn # NoLink
    BY <1>1, <2>1, <2>3 DEF Radio, AlwaysLooking
  <2>4. QED
    BY <1>1, <2>2, <2>3
<1>8. ASSUME NEW h \in Links, NEW b \in Boards, Connected(h, b) PROVE Radio'
  <2>1. link' = [link EXCEPT ![h] = "up"] /\ conn' = h /\ connected' = connected
    BY <1>8 DEF Connected, flags
  <2>2. link'[h] = "up"
    BY <1>1, <2>1
  <2>3. QED
    BY <1>1, <2>1, <2>2 DEF Radio, AlwaysLooking
<1>9. ASSUME NEW h \in Links, EncChange(h) PROVE Radio'
    BY <1>1, <1>2, <1>9 DEF EncChange, flags
<1>10. ASSUME NEW h \in Links, Drop(h) PROVE Radio'
  <2>1. link[h] # "free" /\ link' = [link EXCEPT ![h] = "dying"]
    BY <1>10 DEF Drop
  <2>2. \A x \in Links : link'[x] = "free" <=> link[x] = "free"
    BY <1>1, <2>1
  <2>3. QED
    BY <1>2, <1>10, <2>2 DEF Drop, flags
<1>11. ASSUME NEW h \in Links, Disconnected(h) PROVE Radio'
  <2>1. connected' = FALSE /\ conn' = NoLink /\ sync' = sync
    BY <1>11 DEF Disconnected
  <2>2. host' # "free" \/ (host' = host /\ (sync => gap' # "idle"))
    BY <1>1, <1>11 DEF Disconnected, ConnectKnown
  <2>3. connected' \in BOOLEAN
    BY <2>1, Zenon
  <2>4. QED
    BY <2>1, <2>2, <2>3 DEF Radio, AlwaysLooking
<1>12. ASSUME NEW h \in Links, Notified(h) PROVE Radio'
  <2>1. link[h] # "free" /\ connected' = TRUE
        /\ UNCHANGED <<sync, gap, link, conn, host, main>>
    BY <1>12 DEF Notified, stack
  <2>2. connected' \in BOOLEAN
    BY <2>1, Zenon
  <2>3. QED
    BY <1>1, <2>1, <2>2 DEF Radio, AlwaysLooking
<1>13. CASE LinkDead \/ Forget
  <2>1. link' = Closed(conn)
    BY <1>13 DEF LinkDead, Forget
  <2>2. \A x \in Links : link'[x] = "free" <=> link[x] = "free"
    BY <1>3, <2>1
  <2>3. QED
    BY <1>2, <1>13, <2>2 DEF LinkDead, Forget, flags
<1>14. CASE ForgetBonds
  <2>1. connected' = FALSE /\ main' = "rescan" /\ UNCHANGED <<sync, gap, link, conn, host>>
    BY <1>14 DEF ForgetBonds, stack
  <2>2. connected' \in BOOLEAN
    BY <2>1, Zenon
  <2>3. QED
    BY <1>1, <2>1, <2>2 DEF Radio, AlwaysLooking
<1>15. CASE Share \/ ShareCancel \/ Rescan
    BY <1>1, <1>2, <1>15 DEF Share, ShareCancel, Rescan, stack, flags
<1>16. QED
    BY <1>4, <1>5, <1>6, <1>7, <1>8, <1>9, <1>10, <1>11, <1>12, <1>13, <1>14, <1>15
       DEF OtherNext

\* They end no procedure, and start one only to look for the service.
LEMMA OthersTyped ==
    ASSUME LinkTyped, OtherNext
    PROVE  /\ LinkTyped'
           /\ procs \subseteq procs'
           /\ \A q \in procs' : q \in procs \/ q.kind = "svc"
           /\ \A q \in procs : board'[q.on] = board[q.on]
           /\ chrs' = chrs
           /\ upset' = TRUE \/ UNCHANGED <<idx, started, asked, upset>>
<1> USE DEF Scanning, Cancelled, Linked
<1>1. /\ StackTyped /\ ProcsTyped /\ WalkTyped
      /\ link \in [Links -> {"free", "up", "closing", "dying"}]
      /\ sync \in BOOLEAN /\ gap \in {"idle", "scan", "dial"}
      /\ enc \in [Links -> Nat] /\ DOMAIN board = Links
      /\ \A h \in Links : link[h] # "free" => board[h] \in Boards
      /\ procs \subseteq [on : Links, kind : Kinds, at : Nat, n : Nat]
      /\ \A p \in procs : link[p.on] # "free"
      /\ TRUE \in BOOLEAN /\ FALSE \in BOOLEAN
    BY DEF LinkTyped, StackTyped, ProcsTyped
<1>2. ASSUME UNCHANGED walk PROVE WalkTyped' /\ UNCHANGED <<chrs, idx, started, asked, upset>>
    BY <1>1, <1>2 DEF walk, WalkTyped
<1>3. ASSUME link' \in [Links -> {"free", "up", "closing", "dying"}],
             \A x \in Links : link'[x] = "free" <=> link[x] = "free",
             UNCHANGED <<enc, board, procs, walk>>,
             sync' \in BOOLEAN, gap' \in {"idle", "scan", "dial"}
      PROVE  /\ LinkTyped' /\ procs' = procs /\ board' = board
             /\ UNCHANGED <<chrs, idx, started, asked, upset>>
    BY <1>1, <1>2, <1>3 DEF LinkTyped, StackTyped, ProcsTyped
<1>4. ASSUME \/ Sync \/ Reset \/ Found \/ ScanOver \/ ConnectFailed \/ Dial \/ LinkDead
             \/ Forget \/ ForgetBonds \/ Share \/ ShareCancel \/ Rescan
             \/ \E h \in Links : Drop(h) \/ Notified(h)
      PROVE  /\ LinkTyped' /\ procs' = procs /\ board' = board
             /\ UNCHANGED <<chrs, idx, started, asked, upset>>
  <2>1. UNCHANGED <<enc, board, procs, walk>>
    BY <1>4 DEF Sync, Reset, Found, ScanOver, ConnectFailed, Dial, LinkDead, Forget, ForgetBonds,
       Share, ShareCancel, Rescan, Drop, Notified, stack
  <2>2. sync' \in BOOLEAN
    <3>1. sync' \in {sync, TRUE, FALSE}
      BY <1>4 DEF Sync, Reset, Found, ScanOver, ConnectFailed, Dial, LinkDead, Forget,
         ForgetBonds, Share, ShareCancel, Rescan, Drop, Notified, stack
    <3>2. QED
      BY <1>1, <3>1
  <2>3. gap' \in {"idle", "scan", "dial"}
    BY <1>1, <1>4 DEF Sync, Reset, Found, ScanOver, ConnectFailed, Dial, LinkDead, Forget,
       ForgetBonds, Share, ShareCancel, Rescan, Drop, Notified, stack
  <2>4. /\ link' \in [Links -> {"free", "up", "closing", "dying"}]
        /\ \A x \in Links : link'[x] = "free" <=> link[x] = "free"
    <3>1. CASE LinkDead \/ Forget
      <4>1. link' = Closed(conn)
        BY <3>1 DEF LinkDead, Forget
      <4>2. QED
        BY <1>1, <4>1, ClosedIs
    <3>2. CASE Reset
      BY <1>1, <3>2 DEF Reset
    <3>3. ASSUME NEW h \in Links, Drop(h)
          PROVE  /\ link' \in [Links -> {"free", "up", "closing", "dying"}]
                 /\ \A x \in Links : link'[x] = "free" <=> link[x] = "free"
      <4>1. link[h] # "free" /\ link' = [link EXCEPT ![h] = "dying"]
        BY <3>3 DEF Drop
      <4>2. QED
        BY <1>1, <4>1
    <3>4. CASE \/ Sync \/ Found \/ ScanOver \/ ConnectFailed \/ Dial
               \/ ForgetBonds \/ Share \/ ShareCancel \/ Rescan \/ \E h \in Links : Notified(h)
      <4>1. link' = link
        BY <3>4 DEF Sync, Found, ScanOver, ConnectFailed, Dial, ForgetBonds,
           Share, ShareCancel, Rescan, Notified, stack
      <4>2. QED
        BY <1>1, <4>1
    <3>5. QED
      BY <1>4, <3>1, <3>2, <3>3, <3>4
  <2>5. QED
    BY <1>3, <2>1, <2>2, <2>3, <2>4
<1>5. ASSUME NEW h \in Links
      PROVE  /\ "svc" \in Kinds
             /\ \A n \in Nat : /\ [Proc(h, "svc", 0) EXCEPT !.n = n]
                                      \in [on : Links, kind : Kinds, at : Nat, n : Nat]
                               /\ [Proc(h, "svc", 0) EXCEPT !.n = n].on = h
                               /\ [Proc(h, "svc", 0) EXCEPT !.n = n].kind = "svc"
    BY <1>1 DEF Kinds, Proc
<1>6. ASSUME NEW h \in Links, NEW b \in Boards, Connected(h, b)
      PROVE  /\ LinkTyped' /\ procs \subseteq procs'
             /\ \A q \in procs' : q \in procs \/ q.kind = "svc"
             /\ \A q \in procs : board'[q.on] = board[q.on]
             /\ UNCHANGED <<chrs, idx, started, asked, upset>>
  <2>1. /\ link[h] = "free" /\ link' = [link EXCEPT ![h] = "up"]
        /\ board' = [board EXCEPT ![h] = b] /\ enc' = [enc EXCEPT ![h] = 0]
        /\ gap' = "idle" /\ sync' = sync /\ UNCHANGED walk
        /\ procs' = procs \/ procs' = procs \cup {[Proc(h, "svc", 0) EXCEPT !.n = 0]}
    BY <1>6 DEF Connected
  <2>2. StackTyped'
    BY <1>1, <2>1 DEF StackTyped
  <2>3. link'[h] = "up" /\ \A x \in Links : x # h => link'[x] = link[x] /\ board'[x] = board[x]
    BY <1>1, <2>1
  <2>4. \A q \in procs : q.on # h /\ q.on \in Links
    BY <1>1, <2>1
  <2>5. ProcsTyped' /\ \A q \in procs' : q \in procs \/ q.kind = "svc"
    BY <1>1, <1>5, <2>1, <2>3, <2>4 DEF ProcsTyped
  <2>6. QED
    BY <1>2, <2>1, <2>2, <2>3, <2>4, <2>5 DEF LinkTyped
<1>7. ASSUME NEW h \in Links, EncChange(h)
      PROVE  /\ LinkTyped' /\ procs \subseteq procs' /\ chrs' = chrs
             /\ \A q \in procs' : q \in procs \/ q.kind = "svc"
             /\ board' = board
             /\ upset' = TRUE \/ UNCHANGED <<idx, started, asked, upset>>
  <2>1. /\ link[h] # "free" /\ enc' = [enc EXCEPT ![h] = enc[h] + 1]
        /\ upset' = (upset \/ procs # {})
        /\ procs' = procs \/ procs' = procs \cup {[Proc(h, "svc", 0) EXCEPT !.n = enc'[h]]}
        /\ UNCHANGED <<sync, gap, link, board, chrs, idx, done, started, asked>>
    BY <1>7 DEF EncChange, DiscoverHid
  <2>2. enc' \in [Links -> Nat] /\ enc'[h] \in Nat
    BY <1>1, <2>1
  <2>3. ProcsTyped' /\ \A q \in procs' : q \in procs \/ q.kind = "svc"
    <3>1. PICK n \in Nat : n = enc'[h]
      BY <2>2
    <3>2. QED
      BY <1>1, <1>5, <2>1, <3>1 DEF ProcsTyped
  <2>4. upset' \in BOOLEAN /\ (upset' = TRUE \/ upset' = upset)
    <3>1. upset' \in BOOLEAN
      BY <2>1, Zenon
    <3>2. upset \in BOOLEAN
      BY <1>1 DEF WalkTyped
    <3>3. upset => upset'
      BY <2>1, Zenon
    <3>4. QED
      BY <3>1, <3>2, <3>3
  <2>5. StackTyped' /\ WalkTyped'
    BY <1>1, <2>1, <2>2, <2>4 DEF StackTyped, WalkTyped
  <2>6. QED
    BY <2>1, <2>3, <2>4, <2>5 DEF LinkTyped
<1>8. ASSUME NEW h \in Links, Disconnected(h)
      PROVE  /\ LinkTyped' /\ procs' = procs /\ chrs' = chrs /\ upset' = TRUE
             /\ \A q \in procs : board'[q.on] = board[q.on]
  <2>1. /\ link' = [link EXCEPT ![h] = "free"] /\ board' = [board EXCEPT ![h] = SomeBoard]
        /\ enc' = [enc EXCEPT ![h] = 0] /\ \A p \in procs : p.on # h
        /\ asked' = NoneAsked /\ upset' = TRUE
        /\ sync' = sync /\ procs' = procs /\ chrs' = chrs
    BY <1>8 DEF Disconnected
  <2>2. /\ link' \in [Links -> {"free", "up", "closing", "dying"}] /\ link'[h] = "free"
        /\ \A x \in Links : x # h => link'[x] = link[x] /\ board'[x] = board[x]
        /\ enc' \in [Links -> Nat] /\ DOMAIN board' = Links
    BY <1>1, <2>1
  <2>3. gap' \in {"idle", "scan", "dial"}
    BY <1>1, <1>8 DEF Disconnected, ConnectKnown
  <2>4. StackTyped' /\ ProcsTyped'
    BY <1>1, <2>1, <2>2, <2>3 DEF StackTyped, ProcsTyped
  <2>5. asked' \in [1..MaxReports -> Nat]
    BY <2>1 DEF NoneAsked
  <2>6. \/ idx' = 1 /\ done' = 0 /\ started' = FALSE
        \/ UNCHANGED <<idx, done, started>>
    BY <1>8 DEF Disconnected
  <2>7. idx' \in Nat \ {0} /\ done' \in Nat /\ started' \in BOOLEAN
    <3>1. started' \in BOOLEAN
      BY <1>1, <2>6, Zenon DEF WalkTyped
    <3>2. idx' \in Nat \ {0} /\ done' \in Nat
      BY <1>1, <2>6 DEF WalkTyped
    <3>3. QED
      BY <3>1, <3>2
  <2>8. WalkTyped'
    BY <1>1, <2>1, <2>5, <2>7 DEF WalkTyped
  <2>9. QED
    BY <1>1, <2>1, <2>2, <2>4, <2>8 DEF LinkTyped
<1>9. QED
  <2>1. CASE \E h \in Links : \E b \in Boards : Connected(h, b)
    BY <1>6, <2>1
  <2>2. CASE \E h \in Links : EncChange(h)
    BY <1>7, <2>2
  <2>3. CASE \E h \in Links : Disconnected(h)
    BY <1>8, <2>3
  <2>4. CASE \/ Sync \/ Reset \/ Found \/ ScanOver \/ ConnectFailed \/ Dial \/ LinkDead \/ Forget
             \/ ForgetBonds \/ Share \/ ShareCancel \/ Rescan
             \/ \E h \in Links : Drop(h) \/ Notified(h)
    BY <1>4, <2>4
  <2>5. QED
    BY <2>1, <2>2, <2>3, <2>4 DEF OtherNext

\* What ends procedures, or looks for a service, leaves a walk as it is.
LEMMA WalkStays ==
    ASSUME Walk, UNCHANGED <<chrs, idx, started, asked, upset>>,
           \A q \in procs' : q \in procs \/ ~Walks(q),
           \A q \in procs : board'[q.on] = board[q.on]
    PROVE  Walk'
<1>1. SUFFICES ASSUME upset' = FALSE, chrs' # <<>> PROVE SoleStep' /\ InStep' /\ Counted'
    BY DEF Walk
<1>2. SoleStep /\ InStep /\ Counted
    BY <1>1 DEF Walk
<1>3. \A q \in procs' : q.kind \in WalkKinds => q \in procs
    BY DEF Walks
<1>4. SoleStep'
    BY <1>2, <1>3 DEF SoleStep, Walks
<1>5. InStep'
    BY <1>2, <1>3 DEF InStep, WalkKinds
<1>6. Counted'
    BY <1>2 DEF Counted
<1>7. QED
    BY <1>4, <1>5, <1>6

LEMMA WalkUpset == upset' = TRUE \/ chrs' = <<>> => Walk'
    BY DEF Walk

\* From one report, subscribed to or without need, to the next; what is left of
\* the walk's procedures can only be the end of the last one's descriptors.
LEMMA WalkGoesOn ==
    ASSUME LinkTyped, Walk, NEW p \in procs, Walks(p), upset = FALSE, chrs # <<>>,
           board[p.on] = chrs, idx <= Len(chrs), asked[idx] <= 1,
           asked[idx] = 1 <=> chrs[idx] = TRUE,
           \A q \in procs \ {p} : Walks(q) => q.kind = "end" /\ link[p.on] = "dying",
           SubscribeNext(p.on, idx + 1, procs \ {p}), ~Passed(idx + 1),
           UNCHANGED <<chrs, asked, board>>
    PROVE  SoleStep' /\ InStep' /\ Counted'
<1> DEFINE next == idx + 1
<1>1. /\ idx \in Nat \ {0} /\ next \in Nat \ {0} /\ p.on \in Links /\ link[p.on] # "free"
      /\ asked \in [1..MaxReports -> Nat] /\ chrs \in Boards /\ Len(chrs) <= MaxReports
      /\ Len(chrs) \in Nat /\ MaxReports \in Nat
  <2>1. chrs \in Boards
    BY DEF LinkTyped, WalkTyped
  <2>2. chrs \in Seq(BOOLEAN) /\ Len(chrs) <= MaxReports /\ MaxReports \in Nat
    BY <2>1, LinkAssumption
  <2>3. p.on \in Links /\ link[p.on] # "free"
    BY DEF LinkTyped, ProcsTyped
  <2>4. idx \in Nat \ {0} /\ asked \in [1..MaxReports -> Nat]
    BY DEF LinkTyped, WalkTyped
  <2>5. QED
    BY <2>1, <2>2, <2>3, <2>4
<1>2. procs \ {p} \in SUBSET procs /\ chrs' \in Boards \cup {<<>>}
    BY <1>1
<1>3. /\ idx' = next
      /\ next <= Len(chrs) => /\ procs' = (procs \ {p}) \cup {Proc(p.on, "dsc", next)}
                              /\ started' = FALSE /\ link[p.on] # "dying"
      /\ next > Len(chrs) => procs' = procs \ {p} /\ started' = started
    BY <1>1, <1>2, NextReport
<1>4. SoleStep /\ InStep /\ Counted
    BY DEF Walk
<1>5. Counted'
  <2>1. ASSUME NEW i \in 1..Len(chrs)
        PROVE  /\ asked[i] <= 1
               /\ i < next => (asked[i] = 1 <=> chrs[i] = TRUE)
               /\ i > next => asked[i] = 0
    <3>1. /\ asked[i] <= 1
          /\ i < idx => (asked[i] = 1 <=> chrs[i] = TRUE)
          /\ i > idx => asked[i] = 0
      BY <1>4 DEF Counted
    <3>2. i \in Nat /\ (i < next => i < idx \/ i = idx) /\ (i > next => i > idx)
      BY <1>1
    <3> HIDE DEF next
    <3>3. QED
      BY <3>1, <3>2
  <2>2. QED
    BY <1>3, <2>1 DEF Counted
<1>6. CASE next <= Len(chrs)
  <2>1. \A q \in procs' : Walks(q) => q = Proc(p.on, "dsc", next)
    BY <1>3, <1>6
  <2>2. /\ Proc(p.on, "dsc", next).kind = "dsc" /\ Proc(p.on, "dsc", next).at = next
        /\ Proc(p.on, "dsc", next).on = p.on
    BY DEF Proc
  <2>3. SoleStep'
    BY <2>1 DEF SoleStep, Walks
  <2>4. asked[next] = 0
    BY <1>1, <1>4, <1>6 DEF Counted
  <2>5. InStep'
    <3>1. ASSUME NEW q \in procs', q.kind \in WalkKinds
          PROVE  q.kind = "dsc" /\ q.at = next /\ q.on = p.on
      BY <2>1, <2>2, <3>1 DEF Walks
    <3> HIDE DEF next
    <3>2. QED
      BY <1>3, <1>6, <2>4, <3>1 DEF InStep, WalkKinds
  <2>6. QED
    BY <1>5, <2>3, <2>5
<1>7. CASE ~(next <= Len(chrs))
  <2>1. procs' = procs \ {p} /\ started' = started
    BY <1>1, <1>3, <1>7
  <2>2. \A q \in procs' : q.kind \in WalkKinds => q.kind = "end"
    BY <2>1 DEF Walks
  <2>3. SoleStep'
    BY <1>4, <2>1 DEF SoleStep, Walks
  <2>4. InStep'
    BY <1>4, <2>1, <2>2 DEF InStep, WalkKinds
  <2>5. QED
    BY <1>5, <2>3, <2>4
<1>8. QED
    BY <1>6, <1>7

\* A new walk, from its first report.
LEMMA WalkBegins ==
    ASSUME LinkTyped, NEW p \in procs, OnChr(p), Walk
    PROVE  Walk'
<1>1. CASE procs' = procs \ {p} /\ UNCHANGED <<chrs, idx, started, asked, upset>>
  <2>1. board' = board
    BY DEF OnChr
  <2>2. QED
    BY <1>1, <2>1, WalkStays
<1>2. CASE /\ chrs' = board[p.on] /\ done' = 0 /\ asked' = NoneAsked
           /\ SubscribeNext(p.on, 1, procs \ {p})
           /\ upset' = (procs # {p} \/ Passed(1))
  <2>1. SUFFICES ASSUME upset' = FALSE, chrs' # <<>> PROVE SoleStep' /\ InStep' /\ Counted'
    BY DEF Walk
  <2>2. procs = {p} /\ ~Passed(1)
    BY <1>2, <2>1
  <2>3. /\ p.on \in Links /\ link[p.on] # "free" /\ chrs' \in Boards /\ board' = board
        /\ 1 \in Nat \ {0} /\ procs \ {p} \in SUBSET procs
    BY <1>2 DEF LinkTyped, ProcsTyped, StackTyped, OnChr
  <2>4. chrs' \in Seq(BOOLEAN) /\ Len(chrs') <= MaxReports /\ MaxReports \in Nat
    BY <2>3, LinkAssumption
  <2>5. Len(chrs') \in Nat /\ 1 <= Len(chrs')
    BY <2>1, <2>4
  <2>6. /\ idx' = 1 /\ procs' = (procs \ {p}) \cup {Proc(p.on, "dsc", 1)} /\ started' = FALSE
    BY <1>2, <2>2, <2>3, <2>5, NextReport
  <2>7. procs' = {Proc(p.on, "dsc", 1)}
    BY <2>2, <2>6
  <2>8. /\ Proc(p.on, "dsc", 1).kind = "dsc" /\ Proc(p.on, "dsc", 1).at = 1
        /\ Proc(p.on, "dsc", 1).on = p.on
    BY DEF Proc
  <2>9. \A i \in 1..Len(chrs') : asked'[i] = 0
    BY <1>2, <2>4, <2>5 DEF NoneAsked
  <2>10. SoleStep'
    BY <2>7 DEF SoleStep
  <2>11. InStep'
    BY <1>2, <2>3, <2>5, <2>6, <2>7, <2>8, <2>9 DEF InStep
  <2>12. Counted'
    BY <2>6, <2>9 DEF Counted
  <2>13. QED
    BY <2>10, <2>11, <2>12
<1>3. QED
    BY <1>1, <1>2 DEF OnChr

LEMMA ChrsTyped ==
    ASSUME LinkTyped, chrs # <<>>
    PROVE  /\ chrs \in Boards /\ chrs \in Seq(BOOLEAN) /\ Len(chrs) \in Nat
           /\ Len(chrs) <= MaxReports /\ MaxReports \in Nat
           /\ DOMAIN chrs = 1..Len(chrs)
           /\ \A i \in 1..Len(chrs) : chrs[i] \in BOOLEAN /\ i \in 1..MaxReports
<1>1. chrs \in Boards
    BY DEF LinkTyped, WalkTyped
<1>2. chrs \in Seq(BOOLEAN) /\ Len(chrs) <= MaxReports /\ MaxReports \in Nat
    BY <1>1, LinkAssumption
<1>3. Len(chrs) \in Nat /\ DOMAIN chrs = 1..Len(chrs)
      /\ \A i \in 1..Len(chrs) : chrs[i] \in BOOLEAN
    BY <1>2
<1>4. QED
    BY <1>1, <1>2, <1>3

\* The write of a CCCD, once for a report that has one.
LEMMA WalkFinds ==
    ASSUME LinkTyped, NEW p \in procs, CccdFound(p), Walk
    PROVE  Walk'
<1>1. CASE upset' = TRUE
    BY <1>1, WalkUpset
<1>2. CASE /\ procs' = ((procs \ {p}) \cup {[p EXCEPT !.kind = "end"]})
                        \cup {[p EXCEPT !.kind = "cccd"]}
           /\ started' = TRUE
           /\ asked' = [asked EXCEPT ![p.at] = IF asked[p.at] < 2 THEN asked[p.at] + 1
                                               ELSE asked[p.at]]
           /\ UNCHANGED <<idx, upset>>
  <2>1. SUFFICES ASSUME upset' = FALSE, chrs' # <<>> PROVE SoleStep' /\ InStep' /\ Counted'
    BY DEF Walk
  <2>2. /\ upset = FALSE /\ chrs # <<>> /\ chrs' = chrs /\ board' = board /\ p.kind = "dsc"
        /\ p.at \in DOMAIN board[p.on] /\ board[p.on][p.at]
    BY <1>2, <2>1 DEF CccdFound, Upon, HasCccd
  <2>3. SoleStep /\ InStep /\ Counted
    BY <2>2 DEF Walk
  <2>4. p.at = idx /\ idx <= Len(chrs) /\ board[p.on] = chrs /\ asked[idx] = 0
    BY <2>2, <2>3 DEF InStep
  <2>5. chrs \in Seq(BOOLEAN) /\ Len(chrs) \in Nat /\ Len(chrs) <= MaxReports /\ MaxReports \in Nat
        /\ idx \in 1..Len(chrs) /\ idx \in 1..MaxReports /\ chrs[idx] \in BOOLEAN
        /\ DOMAIN chrs = 1..Len(chrs)
    BY <2>2, <2>4, ChrsTyped DEF LinkTyped, WalkTyped
  <2>6. chrs[idx] = TRUE
    <3>1. chrs[idx]
      BY <2>2, <2>4, Zenon
    <3>2. QED
      BY <2>5, <3>1, Zenon
  <2>7. asked \in [1..MaxReports -> Nat]
    BY DEF LinkTyped, WalkTyped
  <2>8. asked' = [asked EXCEPT ![idx] = 1]
    BY <1>2, <2>4, <2>5, <2>7
  <2>9. asked'[idx] = 1 /\ \A i \in 1..MaxReports : i # idx => asked'[i] = asked[i]
    BY <2>5, <2>7, <2>8
  <2>10. \A q \in procs \ {p} : ~Walks(q)
    BY <2>2, <2>3 DEF SoleStep, Walks, WalkKinds
  <2>11. p \in [on : Links, kind : Kinds, at : Nat, n : Nat]
    BY DEF LinkTyped, ProcsTyped
  <2>12. ASSUME NEW k
         PROVE  /\ [p EXCEPT !.kind = k].kind = k /\ [p EXCEPT !.kind = k].on = p.on
                /\ [p EXCEPT !.kind = k].at = p.at /\ [p EXCEPT !.kind = k].n = p.n
    BY <2>11
  <2>13. ASSUME NEW q \in procs', Walks(q)
         PROVE  /\ q.on = p.on /\ q.n = p.n /\ q.at = p.at
                /\ q.kind = "end" \/ q.kind = "cccd"
    <3>1. q = [p EXCEPT !.kind = "end"] \/ q = [p EXCEPT !.kind = "cccd"]
      BY <1>2, <2>10, <2>13
    <3>2. CASE q = [p EXCEPT !.kind = "end"]
      BY <2>12, <3>2, Zenon
    <3>3. CASE q = [p EXCEPT !.kind = "cccd"]
      BY <2>12, <3>3, Zenon
    <3>4. QED
      BY <3>1, <3>2, <3>3
  <2>14. SoleStep'
    BY <2>13 DEF SoleStep, Walks
  <2>15. InStep'
    <3>1. ASSUME NEW q \in procs'
          PROVE  /\ q.kind \in {"dsc", "cccd"} =>
                        q.at = idx' /\ idx' <= Len(chrs') /\ board'[q.on] = chrs'
                 /\ q.kind = "dsc" => started' = FALSE /\ asked'[idx'] = 0
                 /\ q.kind = "cccd" => asked'[idx'] = 1 /\ chrs'[idx'] = TRUE
                 /\ q.kind = "end" => started' = TRUE
      <4>1. CASE Walks(q)
        BY <1>2, <2>2, <2>4, <2>6, <2>9, <2>13, <4>1
      <4>2. CASE ~Walks(q)
        BY <4>2 DEF Walks, WalkKinds
      <4>3. QED
        BY <4>1, <4>2
    <3>2. QED
      BY <3>1 DEF InStep
  <2>16. Counted'
    <3>1. ASSUME NEW i \in 1..Len(chrs)
          PROVE  /\ asked'[i] <= 1
                 /\ i < idx => (asked'[i] = 1 <=> chrs[i] = TRUE)
                 /\ i > idx => asked'[i] = 0
      <4>1. CASE i = idx
        BY <2>5, <2>9, <4>1
      <4>2. CASE i # idx
        <5>1. asked'[i] = asked[i]
          BY <2>5, <2>9, <4>2
        <5>2. QED
          BY <2>3, <5>1 DEF Counted
      <4>3. QED
        BY <4>1, <4>2
    <3>2. QED
      BY <1>2, <2>2, <3>1 DEF Counted
  <2>17. QED
    BY <2>14, <2>15, <2>16
<1>3. QED
    BY <1>1, <1>2 DEF CccdFound

\* A walk that has upset itself, or is over, needs nothing more to be shown of it.
LEMMA WalkOn ==
    ASSUME LinkTyped, Walk, NEW p \in procs, Walks(p),
           upset = FALSE /\ chrs # <<>> =>
               /\ board[p.on] = chrs /\ idx <= Len(chrs) /\ asked[idx] <= 1
               /\ asked[idx] = 1 <=> chrs[idx] = TRUE
               /\ \A q \in procs \ {p} : Walks(q) => q.kind = "end" /\ link[p.on] = "dying",
           SubscribeNext(p.on, idx + 1, procs \ {p}),
           upset' = (upset \/ Passed(idx + 1)), UNCHANGED <<chrs, asked, board>>
    PROVE  Walk'
<1>1. SUFFICES ASSUME upset' = FALSE, chrs' # <<>> PROVE SoleStep' /\ InStep' /\ Counted'
    BY DEF Walk
<1>2. upset = FALSE /\ ~Passed(idx + 1)
  <2>1. upset \in BOOLEAN
    BY DEF LinkTyped, WalkTyped
  <2>2. ~upset /\ ~Passed(idx + 1)
    BY <1>1, Zenon
  <2>3. QED
    BY <2>1, <2>2
<1>3. QED
    BY <1>1, <1>2, WalkGoesOn

\* The end of the descriptors of a report: it goes on only if it has no CCCD.
LEMMA WalkEnds ==
    ASSUME LinkTyped, NEW p \in procs, DscDone(p), Walk
    PROVE  Walk'
<1>1. Ends(p) /\ UNCHANGED <<chrs, asked, board>>
    BY DEF DscDone
<1>2. CASE NoCccd
  <2>1. SubscribeNext(p.on, idx + 1, procs \ {p}) /\ upset' = (upset \/ Passed(idx + 1))
    BY <1>2 DEF DscDone
  <2>2. Walks(p)
    BY <1>1 DEF Ends, Walks, WalkKinds
  <2>3. ASSUME upset = FALSE, chrs # <<>>
        PROVE  /\ board[p.on] = chrs /\ idx <= Len(chrs) /\ asked[idx] <= 1
               /\ asked[idx] = 1 <=> chrs[idx] = TRUE
               /\ \A q \in procs \ {p} : Walks(q) => q.kind = "end" /\ link[p.on] = "dying"
    <3>1. SoleStep /\ InStep
      BY <2>3 DEF Walk
    <3>2. started = FALSE
      BY <1>2 DEF NoCccd, LinkTyped, WalkTyped
    <3>3. p.kind = "dsc" /\ ~HasCccd(p)
      BY <1>1, <3>1, <3>2 DEF Ends, InStep
    <3>4. p.at = idx /\ idx <= Len(chrs) /\ board[p.on] = chrs /\ asked[idx] = 0
      BY <3>1, <3>3 DEF InStep
    <3>5. idx \in DOMAIN chrs
      BY <2>3, <3>4, ChrsTyped DEF LinkTyped, WalkTyped
    <3>6. ~chrs[idx]
      BY <3>3, <3>4, <3>5, Zenon DEF HasCccd
    <3>7. chrs[idx] # TRUE
      BY <3>6, Zenon
    <3>8. \A q \in procs \ {p} : ~Walks(q)
      BY <2>2, <3>1, <3>3 DEF SoleStep
    <3>9. asked[idx] <= 1 /\ asked[idx] # 1
      BY <3>4
    <3>10. QED
      BY <3>4, <3>7, <3>8, <3>9, Zenon
  <2>4. QED
    BY <1>1, <2>1, <2>2, <2>3, WalkOn
<1>3. CASE ~NoCccd
  <2>1. procs' = procs \ {p} /\ UNCHANGED <<idx, started, upset>>
    BY <1>3 DEF DscDone
  <2>2. QED
    BY <1>1, <2>1, WalkStays
<1>4. QED
    BY <1>2, <1>3

\* The answer to the write, or its failure.
LEMMA WalkAdvances ==
    ASSUME LinkTyped, NEW p \in procs, p.kind = "cccd", NEW ok \in BOOLEAN, Advance(p, ok),
           [p EXCEPT !.kind = "end"] \notin procs \/ link[p.on] = "dying",
           UNCHANGED <<chrs, asked, board>>, Walk
    PROVE  Walk'
<1>1. CASE FinishedWalk
  <2>1. procs' = procs \ {p} /\ UNCHANGED <<idx, started, upset>>
    BY <1>1 DEF Advance
  <2>2. QED
    BY <2>1, WalkStays
<1>2. CASE ~FinishedWalk
  <2>1. SubscribeNext(p.on, idx + 1, procs \ {p}) /\ upset' = (upset \/ Passed(idx + 1))
    BY <1>2 DEF Advance
  <2>2. Walks(p)
    BY DEF Walks, WalkKinds
  <2>3. ASSUME upset = FALSE, chrs # <<>>
        PROVE  /\ board[p.on] = chrs /\ idx <= Len(chrs) /\ asked[idx] <= 1
               /\ asked[idx] = 1 <=> chrs[idx] = TRUE
               /\ \A q \in procs \ {p} : Walks(q) => q.kind = "end" /\ link[p.on] = "dying"
    <3>1. SoleStep /\ InStep
      BY <2>3 DEF Walk
    <3>2. idx <= Len(chrs) /\ board[p.on] = chrs /\ asked[idx] = 1 /\ chrs[idx] = TRUE
      BY <3>1 DEF InStep
    <3>3. procs \subseteq [on : Links, kind : Kinds, at : Nat, n : Nat]
      BY DEF LinkTyped, ProcsTyped
    <3>4. ASSUME NEW q \in procs \ {p}, Walks(q)
          PROVE  q.kind = "end" /\ link[p.on] = "dying"
      <4>1. q.on = p.on /\ q.n = p.n /\ q.at = p.at /\ q.kind # "dsc"
        BY <2>2, <3>1, <3>4 DEF SoleStep
      <4>2. q.kind = "cccd" => q = p
        BY <3>3, <4>1
      <4>3. q.kind = "end"
        BY <3>4, <4>1, <4>2 DEF Walks, WalkKinds
      <4>4. q = [p EXCEPT !.kind = "end"]
        BY <3>3, <4>1, <4>3
      <4>5. QED
        BY <4>3, <4>4
    <3>5. QED
      BY <3>2, <3>4
  <2>4. QED
    BY <2>1, <2>2, <2>3, WalkOn
<1>3. QED
    BY <1>1, <1>2

LEMMA WalkAnswers ==
    ASSUME LinkTyped, Walk, NEW p \in procs, AnswerTo(p)
    PROVE  Walk'
<1>1. CASE OnSvc(p)
  <2>1. CASE chrs' = <<>>
    BY <2>1, WalkUpset
  <2>2. CASE chrs' # <<>>
    <3>1. /\ procs' = procs \ {p} /\ chrs' = chrs
          /\ UNCHANGED <<idx, started, asked, upset, board>>
      BY <1>1, <2>2 DEF OnSvc
    <3>2. QED
      BY <3>1, WalkStays
  <2>3. QED
    BY <2>1, <2>2
<1>2. ASSUME NEW ok \in BOOLEAN, CccdWritten(p, ok) PROVE Walk'
  <2>1. /\ p.kind = "cccd" /\ Advance(p, ok) /\ [p EXCEPT !.kind = "end"] \notin procs
        /\ UNCHANGED <<chrs, asked, board>>
    BY <1>2 DEF CccdWritten, Upon
  <2>2. QED
    BY <2>1, WalkAdvances
<1>3. CASE Abort(p)
  <2>1. UNCHANGED <<chrs, asked, board>> /\ link[p.on] = "dying"
    BY <1>3 DEF Abort
  <2>2. CASE p.kind = "cccd"
    <3>1. Advance(p, FALSE) /\ FALSE \in BOOLEAN
      BY <1>3, <2>2 DEF Abort
    <3>2. QED
      BY <2>1, <2>2, <3>1, WalkAdvances
  <2>3. CASE p.kind # "cccd"
    <3>1. procs' = procs \ {p} /\ UNCHANGED <<idx, started, upset>>
      BY <1>3, <2>3 DEF Abort
    <3>2. QED
      BY <2>1, <3>1, WalkStays
  <2>4. QED
    BY <2>2, <2>3
<1>4. QED
    BY <1>1, <1>2, <1>3, WalkBegins, WalkFinds, WalkEnds DEF AnswerTo

LEMMA TypedAnswers ==
    ASSUME LinkTyped, NEW p \in procs, AnswerTo(p)
    PROVE  LinkTyped'
<1>1. /\ StackTyped /\ UNCHANGED <<sync, gap, board, enc>>
      /\ link \in [Links -> {"free", "up", "closing", "dying"}]
    BY AnswersLeave DEF LinkTyped, StackTyped
<1>2. /\ link' = link \/ link' = Closed(p.on)
      /\ procs' \subseteq [on : Links, kind : Kinds, at : Nat, n : Nat]
      /\ \A q \in procs' : link[q.on] # "free"
      /\ WalkTyped'
    BY AnswersTyped
<1>3. /\ link' \in [Links -> {"free", "up", "closing", "dying"}]
      /\ \A x \in Links : link'[x] = "free" <=> link[x] = "free"
    BY <1>1, <1>2, ClosedIs
<1>4. StackTyped'
    BY <1>1, <1>3 DEF StackTyped
<1>5. ProcsTyped'
    BY <1>2, <1>3 DEF ProcsTyped
<1>6. QED
    BY <1>2, <1>4, <1>5 DEF LinkTyped

LEMMA LinkInitially == LinkInit => LinkInv
<1>1. SUFFICES ASSUME LinkInit PROVE LinkInv
    OBVIOUS
<1>2. StackTyped
    BY <1>1 DEF LinkInit, StackTyped
<1>3. ProcsTyped
    BY <1>1 DEF LinkInit, ProcsTyped
<1>4. WalkTyped
  <2>1. started \in BOOLEAN /\ upset \in BOOLEAN
    BY <1>1, Zenon DEF LinkInit
  <2>2. asked \in [1..MaxReports -> Nat]
    BY <1>1 DEF LinkInit, NoneAsked
  <2>3. QED
    BY <1>1, <2>1, <2>2 DEF LinkInit, WalkTyped
<1>5. Walk
    BY <1>1 DEF LinkInit, Walk
<1>6. Radio
    BY <1>1 DEF LinkInit, Radio, AlwaysLooking
<1>7. QED
    BY <1>2, <1>3, <1>4, <1>5, <1>6 DEF LinkInv, LinkTyped

LEMMA LinkStep == LinkInv /\ [LinkNext]_linkVars => LinkInv'
<1>1. SUFFICES ASSUME LinkTyped, Walk, Radio, [LinkNext]_linkVars PROVE LinkInv'
    BY DEF LinkInv
<1>2. CASE UNCHANGED linkVars
  <2>1. UNCHANGED <<sync, gap, link, board, enc, procs, conn, connected, chrs, idx, done,
                    started, asked, upset, host, main>>
    BY <1>2 DEF linkVars, stack, walk, flags
  <2>2. LinkTyped'
    BY <1>1, <2>1 DEF LinkTyped, StackTyped, ProcsTyped, WalkTyped
  <2>3. Walk'
    BY <1>1, <2>1 DEF Walk, SoleStep, InStep, Counted
  <2>4. Radio'
    BY <1>1, <2>1 DEF Radio, AlwaysLooking
  <2>5. QED
    BY <2>2, <2>3, <2>4 DEF LinkInv
<1>3. ASSUME NEW p \in procs, AnswerTo(p) PROVE LinkInv'
    BY <1>1, <1>3, TypedAnswers, WalkAnswers, RadioAnswers DEF LinkInv
<1>4. CASE OtherNext
  <2>1. /\ LinkTyped' /\ \A q \in procs' : q \in procs \/ q.kind = "svc"
        /\ \A q \in procs : board'[q.on] = board[q.on] /\ chrs' = chrs
        /\ upset' = TRUE \/ UNCHANGED <<chrs, idx, started, asked, upset>>
    <3>1. chrs' = chrs
      BY <1>1, <1>4, OthersTyped
    <3>2. QED
      BY <1>1, <1>4, <3>1, OthersTyped
  <2>2. \A q \in procs' : q \in procs \/ ~Walks(q)
    BY <2>1 DEF Walks, WalkKinds
  <2>3. Walk'
    BY <1>1, <2>1, <2>2, WalkStays, WalkUpset
  <2>4. QED
    BY <1>1, <1>4, <2>1, <2>3, RadioOthers DEF LinkInv
<1>5. QED
    BY <1>1, <1>2, <1>3, <1>4, NextIs

LEMMA LinkEnough == LinkInv => LinkKept
<1>1. SUFFICES ASSUME LinkTyped, Walk, Radio PROVE LinkKept
    BY DEF LinkInv
<1>2. AlwaysLooking
    BY <1>1 DEF Radio
<1>3. ASSUME ~upset, NEW i \in DOMAIN chrs
      PROVE  /\ asked[i] <= 1
             /\ i < idx => (asked[i] = 1 <=> chrs[i])
             /\ i > idx => asked[i] = 0
  <2>1. upset = FALSE /\ chrs # <<>>
    BY <1>1, <1>3 DEF LinkTyped, WalkTyped
  <2>2. i \in 1..Len(chrs) /\ chrs[i] \in BOOLEAN
    BY <1>1, <2>1, ChrsTyped
  <2>3. /\ asked[i] <= 1
        /\ i < idx => (asked[i] = 1 <=> chrs[i] = TRUE)
        /\ i > idx => asked[i] = 0
    BY <1>1, <2>1, <2>2 DEF Walk, Counted
  <2>4. chrs[i] = TRUE <=> chrs[i]
    BY <2>2, Zenon
  <2>5. QED
    BY <2>3, <2>4
<1>4. EachReportOnce
    BY <1>3 DEF EachReportOnce
<1>5. QED
    BY <1>2, <1>4 DEF LinkKept

(* Whatever fails, however the callbacks of the host task meet the calls   *)
(* of the main task and the loss of a link: without a keyboard the deck is *)
(* looking for one, and a walk nothing upset asks for each report once     *)
(* (gap_event, on_dsc, on_cccd_write, subscribe_next).                     *)
THEOREM KeyboardIsFoundAndAsked == LinkSpec => []LinkKept
<1>1. LinkSpec => []LinkInv
    BY LinkInitially, LinkStep, PTL DEF LinkSpec
<1>2. QED
    BY <1>1, LinkEnough, PTL

-----------------------------------------------------------------------------
(* The undo log.                                                           *)

\* A set of numbers between two others has a least one.
LEMMA LeastIn ==
    ASSUME NEW S \in SUBSET Int, NEW lo \in Int, NEW hi \in Int, S \subseteq lo .. hi, S # {}
    PROVE  \E i \in S : \A j \in S : i <= j
<1> DEFINE D == lo .. hi
           Upto(i) == {m \in D : m <= i}
           T == {Upto(i) : i \in S}
<1>1. T \subseteq FiniteSubsetsOf(D) /\ T # {}
  <2>1. \A i \in S : Upto(i) \in SUBSET D
    OBVIOUS
  <2>2. IsFiniteSet(D)
    BY FS_Interval
  <2>3. SUBSET D = FiniteSubsetsOf(D)
    BY <2>2, FS_FiniteSubsetsOfFinite
  <2> HIDE DEF Upto
  <2>4. T # {}
    OBVIOUS
  <2> QED
    BY <2>1, <2>3, <2>4
<1>2. PICK x \in T : \A y \in T : ~ (<<y, x>> \in StrictSubsetOrdering(D))
  BY <1>1, FS_StrictSubsetOrderingWellFounded, WFMin
<1>3. PICK i \in S : x = Upto(i)
  BY <1>2
<1>4. ASSUME NEW j \in S PROVE i <= j
  <2>1. Upto(j) \in T /\ Upto(j) \in SUBSET D /\ Upto(i) \in SUBSET D
    OBVIOUS
  <2>2. ~(Upto(j) \subseteq Upto(i)) \/ Upto(j) = Upto(i)
    BY <1>2, <1>3, <2>1 DEF StrictSubsetOrdering
  <2>3. i \in Upto(i) /\ i \in Int /\ j \in Int
    OBVIOUS
  <2>4. j < i => Upto(j) \subseteq Upto(i) /\ i \notin Upto(j)
    BY <2>3
  <2> QED
    BY <2>2, <2>3, <2>4
<1> QED
  BY <1>4

\* What holds at one end of a span and of the next number with each holds of the span.
LEMMA GoingUp ==
    ASSUME NEW S, NEW lo \in Int, NEW hi \in Int, lo \in S,
           \A j \in lo .. hi - 1 : j \in S => j + 1 \in S
    PROVE  \A j \in lo .. hi : j \in S
<1> DEFINE B == {j \in lo .. hi : j \notin S}
<1>1. SUFFICES ASSUME B # {} PROVE FALSE
    OBVIOUS
<1>2. B \in SUBSET Int /\ B \subseteq lo .. hi
    OBVIOUS
<1>3. PICK i \in B : \A j \in B : i <= j
    BY <1>1, <1>2, LeastIn
<1>4. i \in lo .. hi /\ i \notin S /\ i # lo
    OBVIOUS
<1>5. i - 1 \in lo .. hi - 1 /\ ~(i <= i - 1)
    BY <1>4
<1>6. i - 1 \in lo .. hi /\ i - 1 \notin B
    BY <1>3, <1>4, <1>5
<1>7. i - 1 \in S /\ (i - 1) + 1 = i
    BY <1>4, <1>6
<1>8. QED
    BY <1>4, <1>5, <1>7

LEMMA GoingDown ==
    ASSUME NEW S, NEW lo \in Int, NEW hi \in Int, hi \in S,
           \A j \in lo + 1 .. hi : j \in S => j - 1 \in S
    PROVE  \A j \in lo .. hi : j \in S
<1> DEFINE T == {m \in Int : lo + hi - m \in S}
<1>1. lo \in T
    OBVIOUS
<1>2. ASSUME NEW m \in lo .. hi - 1, m \in T PROVE m + 1 \in T
  <2>1. lo + hi - m \in lo + 1 .. hi /\ lo + hi - m \in S
      BY <1>2
  <2>2. (lo + hi - m) - 1 \in S /\ (lo + hi - m) - 1 = lo + hi - (m + 1)
      BY <2>1
  <2>3. QED
      BY <2>2
<1> HIDE DEF T
<1>3. \A m \in lo .. hi : m \in T
    BY <1>1, <1>2, GoingUp
<1>4. ASSUME NEW j \in lo .. hi PROVE j \in S
  <2>1. lo + hi - j \in lo .. hi /\ lo + hi - (lo + hi - j) = j
      OBVIOUS
  <2>2. lo + hi - j \in T
      BY <1>3, <2>1
  <2>3. QED
      BY <2>1, <2>2 DEF T
<1>5. QED
    BY <1>4

-----------------------------------------------------------------------------
(* A text with another put in.                                               *)
Puts(p, s, t, u) ==
    /\ p \in 0 .. Len(t) /\ Len(u) = Len(t) + Len(s)
    /\ \A j \in 1 .. p : u[j] = t[j]
    /\ \A j \in 1 .. Len(s) : u[p + j] = s[j]
    /\ \A j \in p + 1 .. Len(t) : u[j + Len(s)] = t[j]

\* The pieces of a text.
LEMMA Pieces ==
    ASSUME NEW t \in Seq(Chars), NEW a \in 0 .. Len(t)
    PROVE  /\ Before(t, a) \in Seq(Chars) /\ Len(Before(t, a)) = a
           /\ \A j \in 1 .. a : Before(t, a)[j] = t[j]
           /\ After(t, a) \in Seq(Chars) /\ Len(After(t, a)) = Len(t) - a
           /\ \A j \in 1 .. Len(t) - a : After(t, a)[j] = t[a + j]
<1>1. Len(t) \in Nat /\ \A i \in 1 .. Len(t) : t[i] \in Chars
    BY LenProperties, ElementOfSeq
<1>2. 1 \in Int /\ a \in Int /\ a + 1 \in Int /\ Len(t) \in Int
    BY <1>1
<1>3. \A i \in 1 .. a : t[i] \in Chars
    BY <1>1
<1>4. \A i \in a + 1 .. Len(t) : t[i] \in Chars
    BY <1>1
<1>5. /\ Before(t, a) \in Seq(Chars) /\ Len(Before(t, a)) = IF 1 <= a THEN a - 1 + 1 ELSE 0
      /\ \A j \in 1 .. a - 1 + 1 : Before(t, a)[j] = t[1 + j - 1]
    BY <1>2, <1>3, SubSeqProperties DEF Before
<1>6. /\ After(t, a) \in Seq(Chars)
      /\ Len(After(t, a)) = IF a + 1 <= Len(t) THEN Len(t) - (a + 1) + 1 ELSE 0
      /\ \A j \in 1 .. Len(t) - (a + 1) + 1 : After(t, a)[j] = t[a + 1 + j - 1]
    BY <1>2, <1>4, SubSeqProperties DEF After
<1>7. Len(Before(t, a)) = a /\ \A j \in 1 .. a : Before(t, a)[j] = t[j]
  <2>1. \A j \in 1 .. a : j \in 1 .. a - 1 + 1 /\ 1 + j - 1 = j
      OBVIOUS
  <2>2. \A j \in 1 .. a : Before(t, a)[j] = t[j]
      BY <1>5, <2>1
  <2>3. QED
      BY <1>5, <2>2
<1>8. Len(After(t, a)) = Len(t) - a /\ \A j \in 1 .. Len(t) - a : After(t, a)[j] = t[a + j]
  <2>1. \A j \in 1 .. Len(t) - a : j \in 1 .. Len(t) - (a + 1) + 1 /\ a + 1 + j - 1 = a + j
      BY <1>1
  <2>2. \A j \in 1 .. Len(t) - a : After(t, a)[j] = t[a + j]
      BY <1>6, <2>1
  <2>3. QED
      BY <1>1, <1>6, <2>2
<1>9. QED
    BY <1>5, <1>6, <1>7, <1>8

\* What is between two pieces of a text is put in there.
LEMMA PutBetween ==
    ASSUME NEW t \in Seq(Chars), NEW s \in Seq(Chars), NEW a \in 0 .. Len(t)
    PROVE  LET u == Before(t, a) \o s \o After(t, a)
           IN  u \in Seq(Chars) /\ Puts(a, s, t, u)
<1> DEFINE b == Before(t, a)
           c == After(t, a)
           v == b \o s
           u == v \o c
<1>1. SUFFICES u \in Seq(Chars) /\ Puts(a, s, t, u)
    OBVIOUS
<1>2. /\ b \in Seq(Chars) /\ Len(b) = a /\ \A j \in 1 .. a : b[j] = t[j]
      /\ c \in Seq(Chars) /\ Len(c) = Len(t) - a /\ \A j \in 1 .. Len(t) - a : c[j] = t[a + j]
    BY Pieces
<1> HIDE DEF b, c
<1>3. /\ v \in Seq(Chars) /\ Len(v) = a + Len(s)
      /\ \A i \in 1 .. a + Len(s) : v[i] = IF i <= a THEN b[i] ELSE s[i - a]
  <2>1. /\ v \in Seq(Chars) /\ Len(v) = Len(b) + Len(s)
        /\ \A i \in 1 .. Len(b) + Len(s) : v[i] = IF i <= Len(b) THEN b[i] ELSE s[i - Len(b)]
      BY <1>2, ConcatProperties
  <2>2. Len(b) = a
      BY <1>2
  <2>3. QED
      BY <2>1, <2>2
<1> HIDE DEF v
<1>4. /\ u \in Seq(Chars) /\ Len(u) = Len(v) + Len(c)
      /\ \A i \in 1 .. Len(v) + Len(c) : u[i] = IF i <= Len(v) THEN v[i] ELSE c[i - Len(v)]
  <2>1. v \in Seq(Chars) /\ c \in Seq(Chars)
      BY <1>2, <1>3
  <2>2. QED
      BY <2>1, ConcatProperties
<1> HIDE DEF u
<1>5. PICK n, m : n = Len(s) /\ m = Len(t)
    OBVIOUS
<1>6. n \in Nat /\ m \in Nat /\ a \in 0 .. m
    BY <1>5, LenProperties
<1>7. Len(v) = a + n /\ Len(c) = m - a /\ Len(u) = m + n
    BY <1>2, <1>3, <1>4, <1>5, <1>6
<1>8. ASSUME NEW j \in 1 .. a PROVE u[j] = t[j]
  <2>1. j \in 1 .. Len(v) + Len(c) /\ j <= Len(v) /\ j \in 1 .. a + Len(s) /\ j <= a
      BY <1>5, <1>6, <1>7
  <2>2. QED
      BY <1>2, <1>3, <1>4, <2>1
<1>9. ASSUME NEW j \in 1 .. n PROVE u[a + j] = s[j]
  <2>1. /\ a + j \in 1 .. Len(v) + Len(c) /\ a + j <= Len(v) /\ a + j \in 1 .. a + Len(s)
        /\ ~(a + j <= a) /\ (a + j) - a = j
      BY <1>5, <1>6, <1>7
  <2>2. QED
      BY <1>3, <1>4, <2>1
<1>10. ASSUME NEW j \in a + 1 .. m PROVE u[j + n] = t[j]
  <2>1. /\ j + n \in 1 .. Len(v) + Len(c) /\ ~(j + n <= Len(v))
        /\ (j + n) - Len(v) = j - a /\ j - a \in 1 .. Len(t) - a /\ a + (j - a) = j
      BY <1>5, <1>6, <1>7
  <2>2. u[j + n] = c[j - a] /\ c[j - a] = t[a + (j - a)]
      BY <1>2, <1>4, <2>1
  <2>3. QED
      BY <2>1, <2>2
<1>11. QED
    BY <1>4, <1>5, <1>6, <1>7, <1>8, <1>9, <1>10 DEF Puts

\* What is put in makes one text, and was put in one.
LEMMA PutOnce ==
    ASSUME NEW s \in Seq(Chars), NEW t \in Seq(Chars), NEW u \in Seq(Chars), NEW v \in Seq(Chars), NEW p,
           Puts(p, s, t, u), Puts(p, s, t, v)
    PROVE  u = v
<1>1. PICK n, m : n = Len(s) /\ m = Len(t)
    OBVIOUS
<1>2. n \in Nat /\ m \in Nat /\ p \in 0 .. m /\ Len(u) = m + n /\ Len(v) = m + n
    BY <1>1, LenProperties DEF Puts
<1>3. ASSUME NEW i \in 1 .. m + n PROVE u[i] = v[i]
  <2>1. CASE i <= p
    <3>1. i \in 1 .. p
        BY <1>2, <2>1
    <3>2. QED
        BY <3>1 DEF Puts
  <2>2. CASE i > p /\ i <= p + n
    <3>1. i - p \in 1 .. Len(s) /\ p + (i - p) = i
        BY <1>1, <1>2, <2>2
    <3>2. u[p + (i - p)] = v[p + (i - p)]
        BY <3>1 DEF Puts
    <3>3. QED
        BY <3>1, <3>2
  <2>3. CASE i > p + n
    <3>1. i - n \in p + 1 .. Len(t) /\ (i - n) + Len(s) = i
        BY <1>1, <1>2, <2>3
    <3>2. u[(i - n) + Len(s)] = v[(i - n) + Len(s)]
        BY <3>1 DEF Puts
    <3>3. QED
        BY <3>1, <3>2
  <2>4. QED
      BY <1>2, <2>1, <2>2, <2>3
<1>4. QED
    BY <1>2, <1>3, SeqEqual

\* What was put in and is cut out again leaves the text it was put in.
LEMMA CutOutAgain ==
    ASSUME NEW s \in Seq(Chars), NEW t \in Seq(Chars), NEW u \in Seq(Chars), NEW p,
           Puts(p, s, t, u)
    PROVE  p + Len(s) \in 0 .. Len(u) /\ Before(u, p) \o After(u, p + Len(s)) = t
<1>1. PICK n, m : n = Len(s) /\ m = Len(t)
    OBVIOUS
<1>2. n \in Nat /\ m \in Nat /\ p \in 0 .. m /\ Len(u) = m + n
    BY <1>1, LenProperties DEF Puts
<1>3. p \in 0 .. Len(u) /\ p + n \in 0 .. Len(u)
    BY <1>2
<1> DEFINE b == Before(u, p)
           c == After(u, p + n)
           v == b \o c
<1>4. /\ b \in Seq(Chars) /\ Len(b) = p /\ \A j \in 1 .. p : b[j] = u[j]
      /\ c \in Seq(Chars) /\ Len(c) = Len(u) - (p + n)
      /\ \A j \in 1 .. Len(u) - (p + n) : c[j] = u[(p + n) + j]
    BY <1>3, Pieces
<1> HIDE DEF b, c
<1>5. /\ v \in Seq(Chars) /\ Len(v) = Len(b) + Len(c)
      /\ \A i \in 1 .. Len(b) + Len(c) : v[i] = IF i <= Len(b) THEN b[i] ELSE c[i - Len(b)]
    BY <1>4, ConcatProperties
<1> HIDE DEF v
<1>6. Len(v) = m /\ Len(c) = m - p
  <2>1. PICK x, y, z, w : x = Len(b) /\ y = Len(c) /\ z = Len(v) /\ w = Len(u)
      OBVIOUS
  <2>2. x = p /\ y = w - (p + n) /\ z = x + y
      BY <1>4, <1>5, <2>1
  <2>3. z = m /\ y = m - p
      BY <1>2, <2>1, <2>2
  <2>4. QED
      BY <2>1, <2>3
<1>7. ASSUME NEW i \in 1 .. m PROVE v[i] = t[i]
  <2>1. CASE i <= p
    <3>1. i \in 1 .. Len(b) + Len(c) /\ i <= Len(b) /\ i \in 1 .. p
      <4>1. p + (m - p) = m /\ i \in 1 .. p
          BY <1>2, <2>1
      <4>2. QED
          BY <1>4, <1>6, <2>1, <4>1
    <3>2. QED
        BY <1>4, <1>5, <3>1 DEF Puts
  <2>2. CASE i > p
    <3>1. /\ i \in 1 .. Len(b) + Len(c) /\ ~(i <= Len(b)) /\ i - Len(b) = i - p
          /\ i - p \in 1 .. Len(u) - (p + n) /\ (p + n) + (i - p) = i + Len(s)
          /\ i \in p + 1 .. Len(t)
        BY <1>1, <1>2, <1>4, <1>6, <2>2
    <3>2. v[i] = c[i - p] /\ c[i - p] = u[i + Len(s)]
        BY <1>4, <1>5, <3>1
    <3>3. u[i + Len(s)] = t[i]
        BY <3>1 DEF Puts
    <3>4. QED
        BY <3>2, <3>3
  <2>3. QED
      BY <1>2, <2>1, <2>2
<1>8. v = t
    BY <1>1, <1>5, <1>6, <1>7, SeqEqual
<1>9. QED
    BY <1>1, <1>3, <1>8 DEF v, b, c

-----------------------------------------------------------------------------
(* What the buffer makes of an edit.                                         *)

LEMMA LeastIs == ASSUME NEW a \in Int, NEW b \in Int
                 PROVE  Least(a, b) = (IF a < b THEN a ELSE b) /\ Least(a, b) \in {a, b}
                        /\ Least(a, b) <= a /\ Least(a, b) <= b
    BY DEF Least

\* doc_insert(): a text within the buffer stays within it; what fits is put in whole.
LEMMA InsertedIs ==
    ASSUME NEW t \in Seq(Chars), Len(t) <= Capacity, NEW s \in Seq(Chars), NEW p \in Nat
    PROVE  LET r == Inserted(t, p, s)
           IN  /\ r.text \in Seq(Chars) /\ Len(r.text) <= Capacity /\ r.at \in 0 .. Len(r.text)
               /\ Len(r.text) = Len(t) + Len(s) => Len(t) + Len(s) <= Capacity
               /\ p <= Len(t) /\ Len(t) + Len(s) <= Capacity =>
                      Puts(p, s, t, r.text) /\ r.at = p + Len(s)
<1> DEFINE q == Least(p, Len(t))
           room == Least(Len(s), Capacity - Len(t))
           fits == SubSeq(s, 1, room)
           v == Before(t, q) \o fits \o After(t, q)
<1>1. PICK n, m : n = Len(s) /\ m = Len(t)
    OBVIOUS
<1>2. n \in Nat /\ m \in Nat /\ m <= Capacity /\ Capacity \in Nat
    BY <1>1, LenProperties, UndoAssumption
<1>3. q \in 0 .. Len(t) /\ (p <= Len(t) => q = p)
    BY <1>1, <1>2, LeastIs
<1>4. room \in 0 .. Len(s) /\ m + room <= Capacity /\ (m + n <= Capacity => room = n)
    BY <1>1, <1>2, LeastIs
<1> HIDE DEF q, room
<1>5. fits = Before(s, room)
    BY DEF Before
<1>6. fits \in Seq(Chars) /\ Len(fits) = room
    BY <1>4, <1>5, Pieces
<1>7. room = n => fits = s
    BY <1>1, SubSeqFull
<1> HIDE DEF fits
<1>8. v \in Seq(Chars) /\ Puts(q, fits, t, v)
    BY <1>3, <1>6, PutBetween
<1> HIDE DEF v
<1>9. Len(v) = m + room
    BY <1>1, <1>6, <1>8 DEF Puts
<1>10. PICK a : a = q + Len(fits)
    OBVIOUS
<1>11. a \in 0 .. Len(v)
    BY <1>1, <1>2, <1>3, <1>4, <1>6, <1>9, <1>10
<1>12. Inserted(t, p, s) = [text |-> v, at |-> a]
    BY <1>10 DEF Inserted, v, fits, room, q
<1>13. Inserted(t, p, s).text = v /\ Inserted(t, p, s).at = a
    BY <1>12
<1>14. Len(v) <= Capacity
    BY <1>4, <1>9
<1>15. Len(v) = m + n => m + n <= Capacity
    BY <1>14
<1>16. ASSUME p <= Len(t), m + n <= Capacity PROVE Puts(p, s, t, v) /\ a = p + n
    BY <1>1, <1>3, <1>4, <1>6, <1>7, <1>8, <1>10, <1>16
<1>17. QED
    BY <1>1, <1>8, <1>11, <1>13, <1>14, <1>15, <1>16

\* doc_backspace(), n times: the buffer stays within itself.
LEMMA DeletedIs ==
    ASSUME NEW u \in Seq(Chars), NEW p \in Nat, NEW n \in Nat
    PROVE  LET r == Deleted(u, p, n)
           IN  /\ r.text \in Seq(Chars) /\ Len(r.text) <= Len(u) /\ r.at \in 0 .. Len(r.text)
               /\ p \in n .. Len(u) => /\ r.text = Before(u, p - n) \o After(u, p)
                                       /\ Len(r.text) = Len(u) - n /\ r.at = p - n
<1> DEFINE q == Least(p, Len(u))
           m == Least(n, q)
           v == Before(u, q - m) \o After(u, q)
<1>1. PICK l : l = Len(u)
    OBVIOUS
<1>2. l \in Nat
    BY <1>1, LenProperties
<1>3. q \in 0 .. l /\ (p <= l => q = p)
    BY <1>1, <1>2, LeastIs
<1> HIDE DEF q
<1>4. m \in 0 .. q /\ (n <= q => m = n)
    BY <1>3, LeastIs
<1> HIDE DEF m
<1>5. PICK a : a = q - m
    OBVIOUS
<1>6. a \in 0 .. l /\ q \in 0 .. l
    BY <1>2, <1>3, <1>4, <1>5
<1>7. /\ Before(u, a) \in Seq(Chars) /\ Len(Before(u, a)) = a
      /\ After(u, q) \in Seq(Chars) /\ Len(After(u, q)) = l - q
    BY <1>1, <1>6, Pieces
<1>8. v \in Seq(Chars) /\ Len(v) = Len(Before(u, a)) + Len(After(u, q))
    BY <1>5, <1>7, ConcatProperties
<1>9. Deleted(u, p, n) = [text |-> v, at |-> a]
    BY <1>5 DEF Deleted, m, q
<1>10. Deleted(u, p, n).text = v /\ Deleted(u, p, n).at = a
    BY <1>9
<1>11. p \in n .. l => q = p /\ a = p - n
    BY <1>2, <1>3, <1>4, <1>5
<1>12. Len(v) = a + (l - q)
    BY <1>7, <1>8
<1>13. Len(v) <= l /\ a \in 0 .. Len(v)
    BY <1>2, <1>3, <1>4, <1>5, <1>12
<1>14. p \in n .. l => Len(v) = l - n
    BY <1>2, <1>11, <1>12
<1>15. p \in n .. l => v = Before(u, p - n) \o After(u, p)
    BY <1>5, <1>11
<1>16. QED
    BY <1>1, <1>8, <1>10, <1>11, <1>13, <1>14, <1>15

\* What an entry put in is taken out by its length, from where it ends.
LEMMA TakenOut ==
    ASSUME NEW s \in Seq(Chars), NEW t \in Seq(Chars), NEW u \in Seq(Chars), NEW p \in Nat,
           Puts(p, s, t, u)
    PROVE  Deleted(u, p + Len(s), Len(s)).text = t
<1>1. PICK n, q : n = Len(s) /\ q = p + n
    OBVIOUS
<1>2. n \in Nat /\ q \in Nat /\ Len(u) \in Nat /\ q - n = p
    BY <1>1, LenProperties
<1>3. q \in 0 .. Len(u) /\ Before(u, p) \o After(u, q) = t
  <2>1. p + Len(s) \in 0 .. Len(u) /\ Before(u, p) \o After(u, p + Len(s)) = t
      BY ONLY CutOutAgain, s \in Seq(Chars), t \in Seq(Chars), u \in Seq(Chars), Puts(p, s, t, u)
  <2>2. QED
      BY <1>1, <2>1
<1>4. q \in n .. Len(u)
    BY <1>1, <1>2, <1>3
<1>5. Deleted(u, q, n).text = Before(u, q - n) \o After(u, q)
    BY <1>2, <1>4, DeletedIs
<1>6. QED
    BY <1>1, <1>2, <1>3, <1>5

\* A text that an entry was put in has it put in again.
LEMMA PutInAgain ==
    ASSUME NEW s \in Seq(Chars), NEW t \in Seq(Chars), NEW u \in Seq(Chars), NEW p \in Nat,
           Puts(p, s, t, u), Len(u) <= Capacity
    PROVE  Inserted(t, p, s).text = u
<1>1. PICK n, m : n = Len(s) /\ m = Len(t)
    OBVIOUS
<1>2. n \in Nat /\ m \in Nat /\ p <= m /\ m + n <= Capacity
    BY <1>1, LenProperties DEF Puts
<1>3. Len(t) <= Capacity
    BY <1>1, <1>2, UndoAssumption
<1>4. Inserted(t, p, s).text \in Seq(Chars) /\ Puts(p, s, t, Inserted(t, p, s).text)
    BY <1>1, <1>2, <1>3, InsertedIs
<1>5. QED
    BY <1>4, PutOnce

\* A character typed, and one taken back.
LEMMA OneTyped ==
    ASSUME NEW t \in Seq(Chars), Len(t) < Capacity, NEW c \in Chars, NEW p \in 0 .. Len(t)
    PROVE  LET u == Inserted(t, p, <<c>>).text
           IN  u \in Seq(Chars) /\ Len(u) = Len(t) + 1 /\ Len(u) <= Capacity /\ Puts(p, <<c>>, t, u)
<1>1. <<c>> \in Seq(Chars) /\ Len(<<c>>) = 1 /\ Len(t) \in Nat /\ Capacity \in Nat
    BY LenProperties, UndoAssumption
<1>2. Len(t) <= Capacity /\ Len(t) + Len(<<c>>) <= Capacity /\ p \in Nat /\ p <= Len(t)
    BY <1>1
<1>3. /\ Inserted(t, p, <<c>>).text \in Seq(Chars) /\ Len(Inserted(t, p, <<c>>).text) <= Capacity
      /\ Puts(p, <<c>>, t, Inserted(t, p, <<c>>).text)
    BY <1>1, <1>2, InsertedIs
<1>4. QED
    BY <1>1, <1>3 DEF Puts

LEMMA OneTakenBack ==
    ASSUME NEW u \in Seq(Chars), NEW p \in 1 .. Len(u)
    PROVE  LET t == Deleted(u, p, 1).text
           IN  t \in Seq(Chars) /\ Len(t) = Len(u) - 1 /\ Puts(p - 1, <<u[p]>>, t, u)
<1>1. PICK l, c : l = Len(u) /\ c = u[p]
    OBVIOUS
<1>2. l \in Nat /\ p \in 1 .. l /\ c \in Chars /\ p \in Nat
    BY <1>1, LenProperties, ElementOfSeq
<1>3. PICK t : t = Deleted(u, p, 1).text
    OBVIOUS
<1>0. 1 \in Nat /\ p \in Nat /\ p \in 1 .. Len(u)
    BY <1>2
<1>4. t \in Seq(Chars) /\ t = Before(u, p - 1) \o After(u, p) /\ Len(t) = l - 1
  <2>1. /\ Deleted(u, p, 1).text \in Seq(Chars)
        /\ Deleted(u, p, 1).text = Before(u, p - 1) \o After(u, p)
        /\ Len(Deleted(u, p, 1).text) = Len(u) - 1
      BY <1>0, DeletedIs
  <2>2. QED
      BY <1>1, <1>3, <2>1
<1>5. /\ Before(u, p - 1) \in Seq(Chars) /\ Len(Before(u, p - 1)) = p - 1
      /\ \A j \in 1 .. p - 1 : Before(u, p - 1)[j] = u[j]
  <2>1. p - 1 \in 0 .. Len(u)
      BY <1>1, <1>2
  <2>2. QED
      BY <2>1, Pieces
<1>6. /\ After(u, p) \in Seq(Chars) /\ Len(After(u, p)) = l - p
      /\ \A j \in 1 .. l - p : After(u, p)[j] = u[p + j]
  <2>1. p \in 0 .. Len(u)
      BY <1>1, <1>2
  <2>2. QED
      BY <1>1, <2>1, Pieces
<1>7. PICK b, d : b = Before(u, p - 1) /\ d = After(u, p)
    OBVIOUS
<1>8. b \in Seq(Chars) /\ d \in Seq(Chars)
    BY <1>5, <1>6, <1>7
<1>9. \A i \in 1 .. Len(b) + Len(d) : (b \o d)[i] = IF i <= Len(b) THEN b[i] ELSE d[i - Len(b)]
    BY <1>8, ConcatProperties
<1>10. \A i \in 1 .. (p - 1) + (l - p) : t[i] = IF i <= p - 1 THEN b[i] ELSE d[i - (p - 1)]
    BY <1>4, <1>5, <1>6, <1>7, <1>9
<1>11. ASSUME NEW j \in 1 .. p - 1 PROVE u[j] = t[j]
  <2>1. j \in 1 .. (p - 1) + (l - p) /\ j <= p - 1
      BY <1>2
  <2>2. QED
      BY <1>5, <1>7, <1>10, <2>1
<1>12. ASSUME NEW j \in p .. l - 1 PROVE u[j + 1] = t[j]
  <2>1. /\ j \in 1 .. (p - 1) + (l - p) /\ ~(j <= p - 1) /\ j - (p - 1) \in 1 .. l - p
        /\ p + (j - (p - 1)) = j + 1
      BY <1>2
  <2>2. t[j] = d[j - (p - 1)] /\ d[j - (p - 1)] = u[p + (j - (p - 1))]
      BY <1>6, <1>7, <1>10, <2>1
  <2>3. QED
      BY <2>1, <2>2
<1>13. <<c>> \in Seq(Chars) /\ Len(<<c>>) = 1 /\ <<c>>[1] = c
    BY <1>2
<1>14. p - 1 \in 0 .. Len(t) /\ Len(u) = Len(t) + Len(<<c>>)
  <2>1. Len(t) = l - 1 /\ Len(<<c>>) = 1 /\ Len(u) = l
      BY <1>1, <1>4, <1>13
  <2>2. QED
      BY <1>2, <2>1
<1>15. \A j \in 1 .. Len(<<c>>) : u[(p - 1) + j] = <<c>>[j]
  <2>1. SUFFICES ASSUME NEW j \in 1 .. Len(<<c>>) PROVE u[(p - 1) + j] = <<c>>[j]
      OBVIOUS
  <2>2. j = 1 /\ (p - 1) + j = p
      BY <1>2, <1>13, <2>1
  <2>3. QED
      BY <1>1, <1>13, <2>2
<1>16. \A j \in (p - 1) + 1 .. Len(t) : u[j + Len(<<c>>)] = t[j]
  <2>1. SUFFICES ASSUME NEW j \in (p - 1) + 1 .. Len(t) PROVE u[j + Len(<<c>>)] = t[j]
      OBVIOUS
  <2>2. j \in p .. l - 1 /\ j + Len(<<c>>) = j + 1
      BY <1>2, <1>4, <1>13, <2>1
  <2>3. QED
      BY <1>12, <2>2
<1>17. Puts(p - 1, <<c>>, t, u)
    BY <1>11, <1>14, <1>15, <1>16 DEF Puts
<1>18. QED
    BY <1>1, <1>3, <1>4, <1>17

\* A run goes on: at its end when typed, at its front when taken back.
LEMMA RunGoesOn ==
    ASSUME NEW s \in Seq(Chars), NEW t \in Seq(Chars), NEW u \in Seq(Chars), NEW v \in Seq(Chars),
           NEW p \in Nat, NEW c \in Chars, Puts(p, s, t, u), Puts(p + Len(s), <<c>>, u, v)
    PROVE  Puts(p, Append(s, c), t, v)
<1>1. PICK n, m, r : n = Len(s) /\ m = Len(t) /\ r = Append(s, c)
    OBVIOUS
<1>2. n \in Nat /\ m \in Nat /\ p \in 0 .. m /\ Len(u) = m + n
    BY <1>1, LenProperties DEF Puts
<1>3. /\ r \in Seq(Chars) /\ Len(r) = n + 1 /\ r[n + 1] = c
      /\ \A i \in 1 .. n : r[i] = s[i]
    BY <1>1, AppendProperties
<1>4. Len(<<c>>) = 1 /\ <<c>>[1] = c
    OBVIOUS
<1>5. /\ Len(v) = Len(u) + 1 /\ \A j \in 1 .. p + n : v[j] = u[j]
      /\ \A j \in p + n + 1 .. Len(u) : v[j + 1] = u[j]
    BY <1>1, <1>4 DEF Puts
<1>6. v[p + n + 1] = c
  <2>1. \A j \in 1 .. Len(<<c>>) : v[(p + Len(s)) + j] = <<c>>[j]
      BY DEF Puts
  <2>2. 1 \in 1 .. Len(<<c>>)
      BY <1>4
  <2>3. v[(p + Len(s)) + 1] = c
      BY <1>4, <2>1, <2>2
  <2>4. QED
      BY <1>1, <2>3
<1>7. ASSUME NEW j \in 1 .. p PROVE v[j] = t[j]
  <2>1. j \in 1 .. p + n
      BY <1>2
  <2>2. QED
      BY <1>5, <2>1 DEF Puts
<1>8. ASSUME NEW j \in 1 .. n + 1 PROVE v[p + j] = r[j]
  <2>1. CASE j = n + 1
    <3>1. p + j = p + n + 1
        BY <1>2, <2>1
    <3>2. QED
        BY <1>3, <1>6, <2>1, <3>1
  <2>2. CASE j \in 1 .. n
    <3>1. p + j \in 1 .. p + n
        BY <1>2, <2>2
    <3>2. v[p + j] = u[p + j] /\ u[p + j] = s[j]
        BY <1>1, <1>5, <2>2, <3>1 DEF Puts
    <3>3. QED
        BY <1>3, <2>2, <3>2
  <2>3. QED
      BY <1>2, <2>1, <2>2
<1>9. ASSUME NEW j \in p + 1 .. m PROVE v[j + (n + 1)] = t[j]
  <2>1. j + n \in p + n + 1 .. Len(u) /\ (j + n) + 1 = j + (n + 1)
      BY <1>2
  <2>2. v[(j + n) + 1] = u[j + n]
      BY <1>5, <2>1
  <2>3. u[j + n] = t[j]
      BY <1>1 DEF Puts
  <2>4. QED
      BY <2>1, <2>2, <2>3
<1>10. Len(v) = m + (n + 1)
    BY <1>2, <1>5
<1>11. Puts(p, r, t, v)
    BY <1>1, <1>2, <1>3, <1>7, <1>8, <1>9, <1>10 DEF Puts
<1>12. QED
    BY <1>1, <1>11

LEMMA RunGoesBack ==
    ASSUME NEW s \in Seq(Chars), NEW t \in Seq(Chars), NEW u \in Seq(Chars), NEW v \in Seq(Chars),
           NEW p \in Nat \ {0}, NEW c \in Chars, Puts(p, s, t, u), Puts(p - 1, <<c>>, v, t)
    PROVE  Puts(p - 1, <<c>> \o s, v, u)
<1>1. PICK n, m, r : n = Len(s) /\ m = Len(v) /\ r = <<c>> \o s
    OBVIOUS
<1>2. <<c>> \in Seq(Chars) /\ Len(<<c>>) = 1 /\ <<c>>[1] = c
    OBVIOUS
<1>3. n \in Nat /\ m \in Nat /\ p - 1 \in 0 .. m /\ Len(t) = m + 1 /\ Len(u) = m + 1 + n
    BY <1>1, <1>2, LenProperties DEF Puts
<1>4. /\ r \in Seq(Chars) /\ Len(r) = 1 + n
      /\ \A i \in 1 .. 1 + n : r[i] = IF i <= 1 THEN c ELSE s[i - 1]
  <2>1. /\ r \in Seq(Chars) /\ Len(r) = Len(<<c>>) + Len(s)
        /\ \A i \in 1 .. Len(<<c>>) + Len(s) : r[i] = IF i <= Len(<<c>>) THEN <<c>>[i] ELSE s[i - Len(<<c>>)]
      BY <1>1, <1>2, ConcatProperties
  <2>2. \A i \in 1 .. 1 + n : i <= 1 => i = 1
      BY <1>3
  <2>3. QED
      BY <1>1, <1>2, <2>1, <2>2
<1>5. /\ \A j \in 1 .. p - 1 : t[j] = v[j]
      /\ \A j \in (p - 1) + 1 .. m : t[j + 1] = v[j]
    BY <1>1, <1>2 DEF Puts
<1>6. t[(p - 1) + 1] = c
  <2>1. \A j \in 1 .. Len(<<c>>) : t[(p - 1) + j] = <<c>>[j]
      BY DEF Puts
  <2>2. 1 \in 1 .. Len(<<c>>)
      BY <1>2
  <2>3. QED
      BY <1>2, <2>1, <2>2
<1>7. /\ \A j \in 1 .. p : u[j] = t[j]
      /\ \A j \in 1 .. n : u[p + j] = s[j]
      /\ \A j \in p + 1 .. m + 1 : u[j + n] = t[j]
    BY <1>1, <1>3 DEF Puts
<1>8. ASSUME NEW j \in 1 .. p - 1 PROVE u[j] = v[j]
  <2>1. j \in 1 .. p
      BY <1>3
  <2>2. QED
      BY <1>5, <1>7, <2>1
<1>9. ASSUME NEW j \in 1 .. 1 + n PROVE u[(p - 1) + j] = r[j]
  <2>1. CASE j = 1
    <3>1. (p - 1) + 1 = p /\ p \in 1 .. p
        BY <1>3
    <3>2. u[p] = t[p] /\ t[p] = c
        BY <1>6, <1>7, <3>1
    <3>3. r[1] = c
        BY <1>3, <1>4, <2>1
    <3>4. QED
        BY <2>1, <3>1, <3>2, <3>3
  <2>2. CASE j \in 2 .. 1 + n
    <3>1. j - 1 \in 1 .. n /\ p + (j - 1) = (p - 1) + j /\ ~(j <= 1)
        BY <1>3, <2>2
    <3>2. u[p + (j - 1)] = s[j - 1]
        BY <1>7, <3>1
    <3>3. r[j] = s[j - 1]
        BY <1>4, <3>1
    <3>4. QED
        BY <3>1, <3>2, <3>3
  <2>3. QED
      BY <1>3, <2>1, <2>2
<1>10. ASSUME NEW j \in (p - 1) + 1 .. m PROVE u[j + (1 + n)] = v[j]
  <2>1. j + 1 \in p + 1 .. m + 1 /\ (j + 1) + n = j + (1 + n)
      BY <1>3
  <2>2. u[(j + 1) + n] = t[j + 1]
      BY <1>7, <2>1
  <2>3. QED
      BY <1>5, <2>1, <2>2
<1>11. Len(u) = m + (1 + n)
    BY <1>3
<1>12. Puts(p - 1, r, v, u)
    BY <1>1, <1>3, <1>4, <1>8, <1>9, <1>10, <1>11 DEF Puts
<1>13. QED
    BY <1>1, <1>12

\* A line added at the end disturbs no entry.
LEMMA PutsBeforeTheEnd ==
    ASSUME NEW s \in Seq(Chars), NEW t \in Seq(Chars), NEW u \in Seq(Chars), NEW p, NEW c \in Chars,
           Puts(p, s, t, u)
    PROVE  Puts(p, s, Append(t, c), Append(u, c))
<1>1. PICK n, m, a, b : n = Len(s) /\ m = Len(t) /\ a = Append(t, c) /\ b = Append(u, c)
    OBVIOUS
<1>2. n \in Nat /\ m \in Nat /\ p \in 0 .. m /\ Len(u) = m + n
    BY <1>1, LenProperties DEF Puts
<1>3. /\ a \in Seq(Chars) /\ Len(a) = m + 1 /\ \A i \in 1 .. m : a[i] = t[i]
      /\ a[m + 1] = c
    BY <1>1, AppendProperties
<1>4. /\ b \in Seq(Chars) /\ Len(b) = m + n + 1 /\ \A i \in 1 .. m + n : b[i] = u[i]
      /\ b[m + n + 1] = c
  <2>1. /\ b \in Seq(Chars) /\ Len(b) = Len(u) + 1 /\ \A i \in 1 .. Len(u) : b[i] = u[i]
        /\ b[Len(u) + 1] = c
      BY <1>1, AppendProperties
  <2>2. QED
      BY <1>2, <2>1
<1>5. /\ \A j \in 1 .. p : u[j] = t[j]
      /\ \A j \in 1 .. n : u[p + j] = s[j]
      /\ \A j \in p + 1 .. m : u[j + n] = t[j]
    BY <1>1 DEF Puts
<1>6. ASSUME NEW j \in 1 .. p PROVE b[j] = a[j]
  <2>1. j \in 1 .. m /\ j \in 1 .. m + n
      BY <1>2
  <2>2. QED
      BY <1>3, <1>4, <1>5, <2>1
<1>7. ASSUME NEW j \in 1 .. n PROVE b[p + j] = s[j]
  <2>1. p + j \in 1 .. m + n
      BY <1>2
  <2>2. QED
      BY <1>4, <1>5, <2>1
<1>8. ASSUME NEW j \in p + 1 .. m + 1 PROVE b[j + n] = a[j]
  <2>1. CASE j = m + 1
    <3>1. j + n = m + n + 1
        BY <1>2, <2>1
    <3>2. QED
        BY <1>3, <1>4, <2>1, <3>1
  <2>2. CASE j \in p + 1 .. m
    <3>1. j + n \in 1 .. m + n /\ j \in 1 .. m
        BY <1>2, <2>2
    <3>2. QED
        BY <1>3, <1>4, <1>5, <2>2, <3>1
  <2>3. QED
      BY <1>2, <2>1, <2>2
<1>9. p \in 0 .. Len(a) /\ Len(b) = Len(a) + Len(s)
    BY <1>1, <1>2, <1>3, <1>4
<1>10. Puts(p, s, a, b)
    BY <1>1, <1>3, <1>6, <1>7, <1>8, <1>9 DEF Puts
<1>11. QED
    BY <1>1, <1>10

-----------------------------------------------------------------------------
(* The invariant.  A history of a buffer is what it held before the oldest   *)
(* entry and after each; the text is where the log has come to in it.        *)
Applied(op, t, u) ==
    IF op.type = "insert" THEN Puts(op.pos, op.text, t, u) ELSE Puts(op.pos, op.text, u, t)
History(i, H, log, d, t) ==
    /\ H \in [0 .. Len(log) -> Seq(Chars)] /\ H[d] = t
    /\ \A k \in 1 .. Len(log) :
           IF log[k].buf = i THEN Applied(log[k], H[k - 1], H[k]) ELSE H[k] = H[k - 1]
    /\ i # OutSlot => \A k \in 0 .. Len(log) : Len(H[k]) <= Capacity

LogTyped ==
    /\ text \in [Pages -> Seq(Chars) \cup {NoEdit}] /\ gs \in [Pages -> Nat]
    /\ \A i \in Pages : IF text[i] = NoEdit THEN gs[i] = 0
                        ELSE Len(text[i]) <= Capacity /\ gs[i] <= Len(text[i])
    /\ onPage \in Pages /\ text[onPage] # NoEdit
    /\ ops \in Seq(Ops) /\ cursor \in 0 .. Len(ops)
HistoryInv ==
    stray \/ \A i \in Pages : text[i] # NoEdit /\ (i = OutSlot => ~clipped) =>
                 \E H : History(i, H, ops, cursor, text[i])
NoSpaceIn(s, n) == \A j \in 1 .. n : s[j] \notin Spaces
WordsInv ==
    \A k \in 1 .. Len(ops) : ops[k].type = "insert" =>
        /\ NoSpaceIn(ops[k].text, Len(ops[k].text) - 1)
        /\ ~ops[k].closed => NoSpaceIn(ops[k].text, Len(ops[k].text))
LogInv == LogTyped /\ HistoryInv /\ WordsInv

LEMMA LogTypes ==
    ASSUME LogTyped
    PROVE  /\ Len(ops) \in Nat /\ cursor \in Nat /\ cursor <= Len(ops)
           /\ \A k \in 1 .. Len(ops) :
                 /\ ops[k] \in Ops /\ ops[k].text \in Seq(Chars) /\ ops[k].pos \in Nat
                 /\ ops[k].buf \in Pages /\ ops[k].type \in {"insert", "delete"}
                 /\ ops[k].closed \in BOOLEAN /\ Len(ops[k].text) \in Nat
           /\ \A i \in Pages : text[i] # NoEdit =>
                 text[i] \in Seq(Chars) /\ Len(text[i]) \in Nat /\ Len(text[i]) <= Capacity
                 /\ gs[i] \in 0 .. Len(text[i])
           /\ onPage \in Pages /\ text[onPage] # NoEdit /\ Capacity \in Nat
<1>1. ops \in Seq(Ops) /\ cursor \in 0 .. Len(ops) /\ Len(ops) \in Nat
    BY LenProperties DEF LogTyped
<1>2. ASSUME NEW k \in 1 .. Len(ops)
      PROVE  /\ ops[k] \in Ops /\ ops[k].text \in Seq(Chars) /\ ops[k].pos \in Nat
             /\ ops[k].buf \in Pages /\ ops[k].type \in {"insert", "delete"}
             /\ ops[k].closed \in BOOLEAN /\ Len(ops[k].text) \in Nat
  <2>1. ops[k] \in Ops
      BY <1>1, ElementOfSeq
  <2>2. ops[k].text \in Seq(Chars)
      BY <2>1 DEF Ops
  <2>3. Len(ops[k].text) \in Nat
      BY <2>2, LenProperties
  <2>4. QED
      BY <2>1, <2>2, <2>3 DEF Ops
<1>3. ASSUME NEW i \in Pages, text[i] # NoEdit
      PROVE  text[i] \in Seq(Chars) /\ Len(text[i]) \in Nat /\ Len(text[i]) <= Capacity
             /\ gs[i] \in 0 .. Len(text[i])
  <2>1. text[i] \in Seq(Chars) /\ Len(text[i]) <= Capacity /\ gs[i] \in Nat /\ gs[i] <= Len(text[i])
      BY <1>3 DEF LogTyped
  <2>2. Len(text[i]) \in Nat
      BY <2>1, LenProperties
  <2>3. QED
      BY <2>1, <2>2
<1>4. QED
    BY <1>1, <1>2, <1>3, UndoAssumption DEF LogTyped

GoesOnAs(op, type, p, c) ==
    /\ Continues(type, p) /\ cursor > 0
    /\ op.text = IF type = "insert" THEN Append(ops[cursor].text, c) ELSE <<c>> \o ops[cursor].text
    /\ op.pos = IF type = "insert" THEN ops[cursor].pos ELSE p
RecordedAs(m, s, op, type, p, c) ==
    /\ ops' \in Seq(Ops) /\ Len(ops') = m + 1 /\ cursor' = m + 1 /\ ops'[m + 1] = op
    /\ \A k \in 1 .. m : ops'[k] = ops[k + s]
    /\ op.type = type /\ op.buf = onPage
    /\ \/ m + s = cursor /\ op.text = <<c>> /\ op.pos = p
       \/ GoesOnAs(op, type, p, c) /\ s = 0 /\ m = cursor - 1
    /\ ~op.closed => ~EndsWord(type, c)

\* What Record makes of the log: all but perhaps the oldest entry, and one that
\* is the character's own or goes on with it.
LEMMA RecordIs ==
    ASSUME LogTyped, NEW type \in {"insert", "delete"}, NEW p \in Nat, NEW c \in Chars,
           Record(type, p, c)
    PROVE  \E m \in Nat, s \in {0, 1}, op \in Ops : RecordedAs(m, s, op, type, p, c)
<1>1. /\ Len(ops) \in Nat /\ cursor \in Nat /\ cursor <= Len(ops) /\ onPage \in Pages
      /\ \A k \in 1 .. Len(ops) : ops[k] \in Ops /\ ops[k].text \in Seq(Chars) /\ ops[k].pos \in Nat
    BY LogTypes
<1> DEFINE goes == Continues(type, p)
           run == IF ~goes THEN <<c>>
                  ELSE IF type = "insert" THEN Append(ops[cursor].text, c)
                  ELSE <<c>> \o ops[cursor].text
           pos == IF goes /\ type = "insert" THEN ops[cursor].pos ELSE p
           closed == EndsWord(type, c) \/ Len(run) >= RunMax
           log == IF goes THEN SubSeq(Done, 1, cursor - 1)
                  ELSE IF LogFull THEN SubSeq(Done, 2, cursor) ELSE Done
<1>2. goes => cursor > 0 /\ cursor \in 1 .. Len(ops)
    BY <1>1 DEF Continues, LastIsOurs
<1>3. run \in Seq(Chars)
  <2>1. <<c>> \in Seq(Chars)
      OBVIOUS
  <2>2. goes => ops[cursor].text \in Seq(Chars)
      BY <1>1, <1>2
  <2>3. goes => Append(ops[cursor].text, c) \in Seq(Chars) /\ <<c>> \o ops[cursor].text \in Seq(Chars)
      BY <2>1, <2>2, AppendProperties, ConcatProperties
  <2> HIDE DEF goes
  <2>4. QED
      BY <2>1, <2>3
<1>4. pos \in Nat
  <2> HIDE DEF goes
  <2>1. QED
      BY <1>1, <1>2
<1>5. PICK b : b = closed
    OBVIOUS
<1>6. b \in BOOLEAN
    BY <1>5
<1> DEFINE op == [type |-> type, buf |-> onPage, text |-> run, pos |-> pos, closed |-> b]
<1>7. ops' = Append(log, op) /\ cursor' = Len(log) + 1
    BY <1>5 DEF Record
<1> HIDE DEF goes, run, pos, closed
<1>8. op \in Ops
    BY <1>1, <1>3, <1>4, <1>6 DEF Ops
<1>9. op.type = type /\ op.buf = onPage /\ op.text = run /\ op.pos = pos /\ op.closed = b
    OBVIOUS
<1> HIDE DEF op
<1>10. Done \in Seq(Ops) /\ Len(Done) = cursor /\ \A k \in 1 .. cursor : Done[k] = ops[k]
  <2>1. \A k \in 1 .. cursor : ops[k] \in Ops
      BY <1>1
  <2>2. /\ Done \in Seq(Ops) /\ Len(Done) = IF 1 <= cursor THEN cursor - 1 + 1 ELSE 0
        /\ \A k \in 1 .. cursor - 1 + 1 : Done[k] = ops[1 + k - 1]
      BY <1>1, <2>1, SubSeqProperties DEF Done
  <2>3. \A k \in 1 .. cursor : k \in 1 .. cursor - 1 + 1 /\ 1 + k - 1 = k
      BY <1>1
  <2>4. \A k \in 1 .. cursor : Done[k] = ops[k]
      BY <2>2, <2>3
  <2>5. QED
      BY <1>1, <2>2, <2>4
<1>11. \E m \in Nat, s \in {0, 1} :
          /\ log \in Seq(Ops) /\ Len(log) = m /\ \A k \in 1 .. m : log[k] = ops[k + s]
          /\ IF goes THEN s = 0 /\ m = cursor - 1 ELSE m + s = cursor
  <2>1. CASE goes
    <3>1. \A k \in 1 .. cursor - 1 : Done[k] \in Ops /\ Done[k] = ops[k]
        BY <1>1, <1>10
    <3>2. PICK e : e = cursor - 1
        OBVIOUS
    <3>3. e \in Nat /\ 1 \in Int
        BY <1>1, <1>2, <2>1, <3>2
    <3>4. /\ SubSeq(Done, 1, e) \in Seq(Ops) /\ Len(SubSeq(Done, 1, e)) = IF 1 <= e THEN e - 1 + 1 ELSE 0
          /\ \A k \in 1 .. e - 1 + 1 : SubSeq(Done, 1, e)[k] = Done[1 + k - 1]
        BY <3>1, <3>2, <3>3, SubSeqProperties
    <3>5. \A k \in 1 .. e : k \in 1 .. e - 1 + 1 /\ 1 + k - 1 = k /\ k + 0 = k
        BY <3>3
    <3>6. \A k \in 1 .. e : SubSeq(Done, 1, e)[k] = ops[k + 0]
        BY <3>1, <3>2, <3>4, <3>5
    <3>7. log = SubSeq(Done, 1, e) /\ Len(log) = e
        BY <2>1, <3>2, <3>3, <3>4
    <3>8. QED
        BY <2>1, <3>2, <3>3, <3>4, <3>6, <3>7
  <2>2. CASE ~goes /\ LogFull
    <3>1. cursor \in Nat \ {0}
        BY <1>1, <2>2, UndoAssumption DEF LogFull
    <3>2. \A k \in 2 .. cursor : Done[k] \in Ops /\ Done[k] = ops[k]
        BY <1>1, <1>10, <3>1
    <3>3. PICK e : e = cursor - 1
        OBVIOUS
    <3>4. e \in Nat /\ 2 \in Int /\ cursor \in Int /\ cursor = e + 1
        BY <3>1, <3>3
    <3>5. /\ SubSeq(Done, 2, cursor) \in Seq(Ops)
          /\ Len(SubSeq(Done, 2, cursor)) = IF 2 <= cursor THEN cursor - 2 + 1 ELSE 0
          /\ \A k \in 1 .. cursor - 2 + 1 : SubSeq(Done, 2, cursor)[k] = Done[2 + k - 1]
        BY <3>2, <3>4, SubSeqProperties
    <3>6. \A k \in 1 .. e : k \in 1 .. cursor - 2 + 1 /\ 2 + k - 1 = k + 1 /\ k + 1 \in 2 .. cursor
        BY <3>4
    <3>7. \A k \in 1 .. e : SubSeq(Done, 2, cursor)[k] = ops[k + 1]
        BY <3>2, <3>5, <3>6
    <3>8. log = SubSeq(Done, 2, cursor) /\ Len(log) = e
        BY <2>2, <3>4, <3>5
    <3>9. QED
        BY <2>2, <3>4, <3>5, <3>7, <3>8
  <2>3. CASE ~goes /\ ~LogFull
    <3>1. log = Done /\ cursor + 0 = cursor /\ \A k \in 1 .. cursor : k + 0 = k
        BY <1>1, <2>3
    <3>2. QED
        BY <1>1, <1>10, <2>3, <3>1
  <2>4. QED
      BY <2>1, <2>2, <2>3
<1> HIDE DEF log
<1>12. PICK m \in Nat, s \in {0, 1} :
          /\ log \in Seq(Ops) /\ Len(log) = m /\ \A k \in 1 .. m : log[k] = ops[k + s]
          /\ IF goes THEN s = 0 /\ m = cursor - 1 ELSE m + s = cursor
    BY <1>11
<1>13. /\ ops' \in Seq(Ops) /\ Len(ops') = m + 1 /\ cursor' = m + 1 /\ ops'[m + 1] = op
       /\ \A k \in 1 .. m : ops'[k] = ops[k + s]
    BY <1>7, <1>8, <1>12, AppendProperties
<1>14. CASE goes
  <2>1. Continues(type, p) /\ run = (IF type = "insert" THEN Append(ops[cursor].text, c) ELSE <<c>> \o ops[cursor].text)
        /\ pos = IF type = "insert" THEN ops[cursor].pos ELSE p
      BY <1>14 DEF goes, run, pos
  <2>2. ~b => ~EndsWord(type, c)
      BY <1>5 DEF closed
  <2>3. GoesOnAs(op, type, p, c)
      BY <1>2, <1>9, <1>14, <2>1 DEF GoesOnAs
  <2>4. RecordedAs(m, s, op, type, p, c)
      BY <1>9, <1>12, <1>13, <1>14, <2>2, <2>3 DEF RecordedAs
  <2>5. QED
      BY <1>8, <2>4
<1>15. CASE ~goes
  <2>1. run = <<c>> /\ pos = p
      BY <1>15 DEF run, pos
  <2>2. ~b => ~EndsWord(type, c)
      BY <1>5 DEF closed
  <2>3. RecordedAs(m, s, op, type, p, c)
      BY <1>9, <1>12, <1>13, <1>15, <2>1, <2>2 DEF RecordedAs
  <2>4. QED
      BY <1>8, <2>3
<1>16. QED
    BY <1>14, <1>15

\* A history goes on with what a new entry makes of a buffer.
GoesTo(i, op, g, u) == IF op.buf = i THEN Applied(op, g, u) ELSE u = g
LEMMA HistoryGrows ==
    ASSUME NEW i, NEW log \in Seq(Ops), NEW d \in 0 .. Len(log), NEW t, NEW H,
           History(i, H, log, d, t),
           NEW m \in Nat, NEW s \in {0, 1}, m + s <= d,
           NEW new \in Seq(Ops), Len(new) = m + 1, \A k \in 1 .. m : new[k] = log[k + s],
           NEW u \in Seq(Chars), i # OutSlot => Len(u) <= Capacity,
           GoesTo(i, new[m + 1], H[m + s], u)
    PROVE  \E G : History(i, G, new, m + 1, u)
<1> DEFINE G == [k \in 0 .. m + 1 |-> IF k = m + 1 THEN u ELSE H[k + s]]
<1>1. Len(log) \in Nat /\ d \in Nat /\ s \in Nat
    BY LenProperties
<1>2. /\ H \in [0 .. Len(log) -> Seq(Chars)]
      /\ \A k \in 1 .. Len(log) :
             IF log[k].buf = i THEN Applied(log[k], H[k - 1], H[k]) ELSE H[k] = H[k - 1]
      /\ i # OutSlot => \A k \in 0 .. Len(log) : Len(H[k]) <= Capacity
    BY DEF History
<1>3. \A k \in 0 .. m : k + s \in 0 .. Len(log)
    BY <1>1
<1>4. G \in [0 .. m + 1 -> Seq(Chars)] /\ G[m + 1] = u /\ \A k \in 0 .. m : G[k] = H[k + s]
  <2>1. \A k \in 0 .. m + 1 : k # m + 1 => k \in 0 .. m
      OBVIOUS
  <2>2. \A k \in 0 .. m + 1 : k # m + 1 => H[k + s] \in Seq(Chars)
      BY <1>2, <1>3, <2>1
  <2>3. m + 1 \in 0 .. m + 1 /\ \A k \in 0 .. m : k \in 0 .. m + 1 /\ k # m + 1
      OBVIOUS
  <2>4. QED
      BY <2>2, <2>3
<1> HIDE DEF G
<1>5. ASSUME NEW k \in 1 .. m + 1
      PROVE  IF new[k].buf = i THEN Applied(new[k], G[k - 1], G[k]) ELSE G[k] = G[k - 1]
  <2>1. CASE k = m + 1
    <3>1. k - 1 = m /\ m \in 0 .. m
        BY <2>1
    <3>2. G[k - 1] = H[m + s] /\ G[k] = u
        BY <1>4, <2>1, <3>1
    <3>3. QED
        BY <2>1, <3>2 DEF GoesTo
  <2>2. CASE k \in 1 .. m
    <3>1. k - 1 \in 0 .. m /\ k \in 0 .. m /\ (k - 1) + s = (k + s) - 1 /\ k + s \in 1 .. Len(log)
        BY <1>1, <2>2
    <3>2. G[k - 1] = H[(k + s) - 1] /\ G[k] = H[k + s] /\ new[k] = log[k + s]
        BY <1>4, <2>2, <3>1
    <3>3. IF log[k + s].buf = i THEN Applied(log[k + s], H[(k + s) - 1], H[k + s])
          ELSE H[k + s] = H[(k + s) - 1]
        BY <1>2, <3>1
    <3>4. QED
        BY <3>2, <3>3
  <2>3. QED
      BY <2>1, <2>2
<1>6. ASSUME i # OutSlot, NEW k \in 0 .. m + 1 PROVE Len(G[k]) <= Capacity
  <2>1. CASE k = m + 1
      BY <1>4, <1>6, <2>1
  <2>2. CASE k \in 0 .. m
      BY <1>2, <1>3, <1>4, <1>6, <2>2
  <2>3. QED
      BY <2>1, <2>2
<1>7. History(i, G, new, m + 1, u)
    BY <1>4, <1>5, <1>6 DEF History
<1>8. QED
    BY <1>7

LEMMA Recorded ==
    ASSUME LogTyped, NEW type \in {"insert", "delete"}, NEW p \in Nat, NEW c \in Chars,
           Record(type, p, c), NEW i \in Pages, text[i] # NoEdit,
           NEW H, History(i, H, ops, cursor, text[i]),
           NEW u \in Seq(Chars), i # OutSlot => Len(u) <= Capacity,
           i # onPage => u = text[i],
           i = onPage /\ type = "insert" => Puts(p, <<c>>, text[i], u),
           i = onPage /\ type = "delete" => Puts(p, <<c>>, u, text[i])
    PROVE  \E G : History(i, G, ops', cursor', u)
<1>1. /\ Len(ops) \in Nat /\ cursor \in Nat /\ cursor <= Len(ops)
      /\ \A k \in 1 .. Len(ops) : ops[k] \in Ops /\ ops[k].text \in Seq(Chars) /\ ops[k].pos \in Nat
      /\ text[i] \in Seq(Chars) /\ ops \in Seq(Ops)
    BY LogTypes DEF LogTyped
<1>0. PICK m \in Nat, s \in {0, 1}, op \in Ops : RecordedAs(m, s, op, type, p, c)
    BY RecordIs
<1>2. /\ ops' \in Seq(Ops) /\ Len(ops') = m + 1 /\ cursor' = m + 1 /\ ops'[m + 1] = op
      /\ \A k \in 1 .. m : ops'[k] = ops[k + s]
      /\ op.type = type /\ op.buf = onPage
      /\ \/ m + s = cursor /\ op.text = <<c>> /\ op.pos = p
         \/ GoesOnAs(op, type, p, c) /\ s = 0 /\ m = cursor - 1
    BY <1>0 DEF RecordedAs
<1>3. /\ H \in [0 .. Len(ops) -> Seq(Chars)] /\ H[cursor] = text[i]
      /\ \A k \in 1 .. Len(ops) :
             IF ops[k].buf = i THEN Applied(ops[k], H[k - 1], H[k]) ELSE H[k] = H[k - 1]
    BY DEF History
<1>4. m + s <= cursor /\ cursor \in 0 .. Len(ops)
    BY <1>1, <1>2 DEF GoesOnAs
<1>5. IF op.buf = i THEN Applied(op, H[m + s], u) ELSE u = H[m + s]
  <2>1. CASE m + s = cursor /\ op.text = <<c>> /\ op.pos = p
    <3>1. H[m + s] = text[i]
        BY <1>3, <2>1
    <3>2. CASE i = onPage /\ type = "insert"
        BY <1>2, <2>1, <3>1, <3>2 DEF Applied
    <3>3. CASE i = onPage /\ type = "delete"
        BY <1>2, <2>1, <3>1, <3>3 DEF Applied
    <3>4. CASE i # onPage
        BY <1>2, <3>1, <3>4
    <3>5. QED
        BY <3>2, <3>3, <3>4
  <2>2. CASE GoesOnAs(op, type, p, c) /\ s = 0 /\ m = cursor - 1
    <3>1. PICK last : last = ops[cursor]
        OBVIOUS
    <3>2. /\ last.buf = onPage /\ last.type = type
          /\ type = "insert" => last.pos + Len(last.text) = p
          /\ type = "delete" => last.pos = p + 1
        BY <2>2, <3>1 DEF GoesOnAs, Continues, LastIsOurs
    <3>3. cursor \in 1 .. Len(ops) /\ m + s = cursor - 1 /\ cursor - 1 \in 0 .. Len(ops)
        BY <1>1, <2>2 DEF GoesOnAs
    <3>4. /\ last.text \in Seq(Chars) /\ last.pos \in Nat /\ H[cursor - 1] \in Seq(Chars)
          /\ IF last.buf = i THEN Applied(last, H[cursor - 1], H[cursor]) ELSE H[cursor] = H[cursor - 1]
        BY <1>1, <1>3, <3>1, <3>3
    <3>5. PICK g : g = H[cursor - 1]
        OBVIOUS
    <3>6. H[m + s] = g /\ g \in Seq(Chars)
        BY <3>3, <3>4, <3>5
    <3>7. CASE i # onPage
        BY <1>2, <1>3, <3>2, <3>4, <3>5, <3>6, <3>7
    <3>8. CASE i = onPage /\ type = "insert"
      <4>1. Puts(last.pos, last.text, g, text[i])
          BY <1>3, <3>2, <3>4, <3>5, <3>8 DEF Applied
      <4>2. Puts(last.pos + Len(last.text), <<c>>, text[i], u)
          BY <3>2, <3>8
      <4>3. Puts(last.pos, Append(last.text, c), g, u)
          BY <1>1, <3>4, <3>6, <4>1, <4>2, RunGoesOn
      <4>4. op.text = Append(last.text, c) /\ op.pos = last.pos /\ op.type = "insert" /\ op.buf = i
          BY <1>2, <2>2, <3>1, <3>8 DEF GoesOnAs
      <4>5. QED
          BY <3>6, <4>3, <4>4 DEF Applied
    <3>9. CASE i = onPage /\ type = "delete"
      <4>1. Puts(last.pos, last.text, text[i], g)
          BY <1>3, <3>2, <3>4, <3>5, <3>9 DEF Applied
      <4>2. last.pos = p + 1 /\ last.pos \in Nat \ {0} /\ last.pos - 1 = p
          BY <3>2, <3>9
      <4>3. Puts(last.pos - 1, <<c>>, u, text[i])
          BY <3>9, <4>2
      <4>4. Puts(last.pos - 1, <<c>> \o last.text, u, g)
          BY <1>1, <3>4, <3>6, <4>1, <4>2, <4>3, RunGoesBack
      <4>5. op.text = <<c>> \o last.text /\ op.pos = p /\ op.type = "delete" /\ op.buf = i
          BY <1>2, <2>2, <3>1, <3>9 DEF GoesOnAs
      <4>6. QED
          BY <3>6, <4>2, <4>4, <4>5 DEF Applied
    <3>10. QED
        BY <3>7, <3>8, <3>9
  <2>3. QED
      BY <1>2, <2>1, <2>2
<1>6. GoesTo(i, ops'[m + 1], H[m + s], u)
    BY <1>2, <1>5 DEF GoesTo
<1>7. \E G : History(i, G, ops', m + 1, u)
  <2>1. /\ ops' \in Seq(Ops) /\ Len(ops') = m + 1 /\ \A k \in 1 .. m : ops'[k] = ops[k + s]
        /\ ops \in Seq(Ops)
      BY <1>1, <1>2
  <2>2. PICK new, log, d, t : new = ops' /\ log = ops /\ d = cursor /\ t = text[i]
      OBVIOUS
  <2>3. /\ new \in Seq(Ops) /\ Len(new) = m + 1 /\ \A k \in 1 .. m : new[k] = log[k + s]
        /\ log \in Seq(Ops) /\ d \in 0 .. Len(log) /\ m + s <= d /\ History(i, H, log, d, t)
        /\ GoesTo(i, new[m + 1], H[m + s], u)
        /\ i # OutSlot => Len(u) <= Capacity
      BY <1>4, <1>6, <2>1, <2>2
  <2>4. \E G : History(i, G, new, m + 1, u)
      BY ONLY <2>3, HistoryGrows, u \in Seq(Chars), m \in Nat, s \in {0, 1}
  <2>5. QED
      BY <2>2, <2>4
<1>8. QED
    BY <1>2, <1>7

\* No entry typed spans two words, and one that ends in a space is not gone on with.
LEMMA WordsRecorded ==
    ASSUME LogTyped, WordsInv, NEW type \in {"insert", "delete"}, NEW p \in Nat, NEW c \in Chars,
           Record(type, p, c)
    PROVE  WordsInv'
<1>1. /\ Len(ops) \in Nat /\ cursor \in Nat /\ cursor <= Len(ops)
      /\ \A k \in 1 .. Len(ops) : ops[k] \in Ops /\ ops[k].text \in Seq(Chars)
    BY LogTypes
<1>0. PICK m \in Nat, s \in {0, 1}, op \in Ops : RecordedAs(m, s, op, type, p, c)
    BY RecordIs
<1>2. /\ ops' \in Seq(Ops) /\ Len(ops') = m + 1 /\ cursor' = m + 1 /\ ops'[m + 1] = op
      /\ \A k \in 1 .. m : ops'[k] = ops[k + s]
      /\ op.type = type
      /\ \/ m + s = cursor /\ op.text = <<c>>
         \/ GoesOnAs(op, type, p, c) /\ s = 0 /\ m = cursor - 1
      /\ ~op.closed => ~EndsWord(type, c)
    BY <1>0 DEF RecordedAs
<1>3. ASSUME type = "insert"
      PROVE  NoSpaceIn(op.text, Len(op.text) - 1) /\ (~op.closed => NoSpaceIn(op.text, Len(op.text)))
  <2>1. ~op.closed => c \notin Spaces
      BY <1>2, <1>3 DEF EndsWord
  <2>2. CASE op.text = <<c>>
    <3>1. Len(op.text) = 1 /\ op.text[1] = c
        BY <2>2
    <3>2. NoSpaceIn(op.text, 0) /\ 1 - 1 = 0
        BY DEF NoSpaceIn
    <3>3. c \notin Spaces => NoSpaceIn(op.text, 1)
      <4>1. \A j \in 1 .. 1 : j = 1
          OBVIOUS
      <4>2. QED
          BY <3>1, <4>1 DEF NoSpaceIn
    <3>4. QED
        BY <2>1, <3>1, <3>2, <3>3
  <2>3. CASE GoesOnAs(op, type, p, c)
    <3>1. /\ cursor \in 1 .. Len(ops) /\ ops[cursor].type = "insert" /\ ~ops[cursor].closed
          /\ op.text = Append(ops[cursor].text, c)
        BY <1>1, <1>3, <2>3 DEF GoesOnAs, Continues
    <3>2. PICK old, n : old = ops[cursor].text /\ n = Len(old)
        OBVIOUS
    <3>3. old \in Seq(Chars) /\ n \in Nat /\ NoSpaceIn(old, n)
        BY <1>1, <3>1, <3>2, LenProperties DEF WordsInv
    <3>4. /\ Len(op.text) = n + 1 /\ op.text[n + 1] = c
          /\ \A j \in 1 .. n : op.text[j] = old[j]
        BY <3>1, <3>2, <3>3, AppendProperties
    <3>5. NoSpaceIn(op.text, n) /\ (n + 1) - 1 = n
      <4>1. NoSpaceIn(op.text, n)
          BY <3>3, <3>4, Zenon DEF NoSpaceIn
      <4>2. QED
          BY <3>3, <4>1
    <3>6. c \notin Spaces => NoSpaceIn(op.text, n + 1)
      <4>1. \A j \in 1 .. n + 1 : j = n + 1 \/ j \in 1 .. n
          BY <3>3
      <4>2. QED
          BY <3>4, <3>5, <4>1 DEF NoSpaceIn
    <3>7. QED
        BY <2>1, <3>4, <3>5, <3>6
  <2>4. QED
      BY <1>2, <1>3, <2>2, <2>3
<1>4. ASSUME NEW k \in 1 .. Len(ops'), ops'[k].type = "insert"
      PROVE  /\ NoSpaceIn(ops'[k].text, Len(ops'[k].text) - 1)
             /\ ~ops'[k].closed => NoSpaceIn(ops'[k].text, Len(ops'[k].text))
  <2>1. CASE k = m + 1
      BY <1>2, <1>3, <1>4, <2>1
  <2>2. CASE k \in 1 .. m
    <3>1. k + s \in 1 .. Len(ops) /\ ops'[k] = ops[k + s]
        BY <1>1, <1>2, <2>2 DEF GoesOnAs
    <3>2. QED
        BY <1>4, <3>1 DEF WordsInv
  <2>3. QED
      BY <1>2, <2>1, <2>2
<1>5. QED
    BY <1>4 DEF WordsInv

-----------------------------------------------------------------------------
(* The steps, one by one.                                                    *)

\* The text under the hands and its cursor are replaced, within the buffer.
LEMMA TypedReplaced ==
    ASSUME LogTyped, NEW u \in Seq(Chars), Len(u) <= Capacity, NEW g \in 0 .. Len(u),
           text' = [text EXCEPT ![onPage] = u], gs' = [gs EXCEPT ![onPage] = g],
           onPage' = onPage, ops' \in Seq(Ops), cursor' \in 0 .. Len(ops')
    PROVE  /\ LogTyped' /\ text'[onPage] = u
           /\ \A i \in Pages : i # onPage => text'[i] = text[i]
           /\ \A i \in Pages : text'[i] # NoEdit => text[i] # NoEdit
<1>1. onPage \in Pages /\ text[onPage] # NoEdit /\ u # NoEdit /\ Len(u) \in Nat
    BY LenProperties, UndoAssumption DEF LogTyped
<1>2. text' \in [Pages -> Seq(Chars) \cup {NoEdit}] /\ gs' \in [Pages -> Nat]
    BY <1>1 DEF LogTyped
<1>3. /\ text'[onPage] = u /\ gs'[onPage] = g
      /\ \A i \in Pages : i # onPage => text'[i] = text[i] /\ gs'[i] = gs[i]
    BY <1>1 DEF LogTyped
<1>4. ASSUME NEW i \in Pages
      PROVE  IF text'[i] = NoEdit THEN gs'[i] = 0 ELSE Len(text'[i]) <= Capacity /\ gs'[i] <= Len(text'[i])
  <2>1. CASE i = onPage
      BY <1>1, <1>3, <2>1
  <2>2. CASE i # onPage
      BY <1>3, <2>2 DEF LogTyped
  <2>3. QED
      BY <2>1, <2>2
<1>5. LogTyped'
    BY <1>1, <1>2, <1>3, <1>4 DEF LogTyped
<1>6. QED
    BY <1>1, <1>3, <1>5

\* A key pressed: what it does to the text, and what is recorded of it.
LEMMA KeyPressed ==
    ASSUME LogInv, NEW type \in {"insert", "delete"}, NEW p \in Nat, NEW c \in Chars,
           Record(type, p, c), NEW u \in Seq(Chars), Len(u) <= Capacity, NEW g \in 0 .. Len(u),
           text' = [text EXCEPT ![onPage] = u], gs' = [gs EXCEPT ![onPage] = g],
           UNCHANGED <<onPage, clipped, stray>>,
           type = "insert" => Puts(p, <<c>>, text[onPage], u),
           type = "delete" => Puts(p, <<c>>, u, text[onPage])
    PROVE  LogInv'
<1>1. LogTyped /\ HistoryInv /\ WordsInv
    BY DEF LogInv
<1>2. ops' \in Seq(Ops) /\ cursor' \in 0 .. Len(ops')
  <2>1. PICK m \in Nat, s \in {0, 1}, op \in Ops : RecordedAs(m, s, op, type, p, c)
      BY <1>1, RecordIs
  <2>2. ops' \in Seq(Ops) /\ Len(ops') = m + 1 /\ cursor' = m + 1
      BY <2>1 DEF RecordedAs
  <2>3. QED
      BY <2>2
<1>3. /\ LogTyped' /\ text'[onPage] = u
      /\ \A i \in Pages : i # onPage => text'[i] = text[i]
      /\ \A i \in Pages : text'[i] # NoEdit => text[i] # NoEdit
    BY <1>1, <1>2, TypedReplaced
<1>4. ASSUME ~stray, NEW i \in Pages, text'[i] # NoEdit, i = OutSlot => ~clipped
      PROVE  \E G : History(i, G, ops', cursor', text'[i])
  <2>1. text[i] # NoEdit
      BY <1>3, <1>4
  <2>2. PICK H : History(i, H, ops, cursor, text[i])
      BY <1>1, <1>4, <2>1 DEF HistoryInv
  <2>3. PICK v : v = text'[i]
      OBVIOUS
  <2>4. v \in Seq(Chars) /\ Len(v) <= Capacity
    <3>1. text[i] \in Seq(Chars) /\ Len(text[i]) <= Capacity
        BY <1>1, <2>1, LogTypes
    <3>2. QED
        BY <1>3, <2>3, <3>1
  <2>5. /\ i # onPage => v = text[i]
        /\ i = onPage /\ type = "insert" => Puts(p, <<c>>, text[i], v)
        /\ i = onPage /\ type = "delete" => Puts(p, <<c>>, v, text[i])
      BY <1>3, <2>3
  <2>6. \E G : History(i, G, ops', cursor', v)
      BY <1>1, <2>1, <2>2, <2>4, <2>5, Recorded
  <2>7. QED
      BY <2>3, <2>6
<1>5. HistoryInv'
    BY <1>4 DEF HistoryInv
<1>6. WordsInv'
    BY <1>1, WordsRecorded
<1>7. QED
    BY <1>3, <1>5, <1>6 DEF LogInv

LEMMA TypeKeeps == ASSUME LogInv, NEW c \in Chars, Type(c) PROVE LogInv'
<1>1. PICK t, p : t = text[onPage] /\ p = gs[onPage]
    OBVIOUS
<1>2. /\ t \in Seq(Chars) /\ Len(t) \in Nat /\ p \in 0 .. Len(t) /\ Len(t) < Capacity
      /\ text \in [Pages -> Seq(Chars) \cup {NoEdit}] /\ gs \in [Pages -> Nat] /\ onPage \in Pages
    BY <1>1, LogTypes DEF LogInv, LogTyped, Type
<1>3. PICK u : u = Inserted(t, p, <<c>>).text
    OBVIOUS
<1>4. u \in Seq(Chars) /\ Len(u) = Len(t) + 1 /\ Len(u) <= Capacity /\ Puts(p, <<c>>, t, u)
    BY <1>2, <1>3, OneTyped
<1>5. text' = [text EXCEPT ![onPage] = u] /\ gs' = [gs EXCEPT ![onPage] = p + 1]
    BY <1>1, <1>3 DEF Type
<1>6. Record("insert", p, c) /\ UNCHANGED <<onPage, clipped, stray>>
    BY <1>1 DEF Type
<1>7. p + 1 \in 0 .. Len(u) /\ p \in Nat
    BY <1>2, <1>4
<1>8. QED
    BY <1>1, <1>4, <1>5, <1>6, <1>7, KeyPressed

LEMMA BackspaceKeeps == ASSUME LogInv, Backspace PROVE LogInv'
<1>1. PICK t, q : t = text[onPage] /\ q = gs[onPage]
    OBVIOUS
<1>2. /\ t \in Seq(Chars) /\ Len(t) \in Nat /\ q \in 1 .. Len(t) /\ Len(t) <= Capacity
      /\ Capacity \in Nat
    BY <1>1, LogTypes DEF LogInv, Backspace
<1>3. PICK u, c : u = Deleted(t, q, 1).text /\ c = t[q]
    OBVIOUS
<1>4. u \in Seq(Chars) /\ Len(u) = Len(t) - 1 /\ Puts(q - 1, <<c>>, u, t)
    BY <1>2, <1>3, OneTakenBack
<1>5. text' = [text EXCEPT ![onPage] = u] /\ gs' = [gs EXCEPT ![onPage] = q - 1]
    BY <1>1, <1>3 DEF Backspace
<1>6. Record("delete", q - 1, c) /\ UNCHANGED <<onPage, clipped, stray>>
    BY <1>1, <1>3 DEF Backspace
<1>7. q - 1 \in 0 .. Len(u) /\ q - 1 \in Nat /\ Len(u) <= Capacity /\ c \in Chars
    BY <1>2, <1>3, <1>4, ElementOfSeq
<1>8. PICK p : p = q - 1
    OBVIOUS
<1>9. QED
    BY <1>1, <1>4, <1>5, <1>6, <1>7, <1>8, KeyPressed

\* An entry applied: the text comes to where the log has come.
LEMMA HistoryMoves ==
    ASSUME LogInv, NEW u \in Seq(Chars), Len(u) <= Capacity, NEW g \in 0 .. Len(u),
           text' = [text EXCEPT ![onPage] = u], gs' = [gs EXCEPT ![onPage] = g],
           UNCHANGED <<onPage, ops, stray>>, clipped => clipped', cursor' \in 0 .. Len(ops),
           \A i \in Pages : \A H :
               /\ text[i] # NoEdit /\ (i = OutSlot => ~clipped')
               /\ History(i, H, ops, cursor, text[i])
               => H[cursor'] = text'[i]
    PROVE  LogInv'
<1>1. LogTyped /\ HistoryInv /\ WordsInv
    BY DEF LogInv
<1>2. ops' \in Seq(Ops) /\ cursor' \in 0 .. Len(ops')
    BY <1>1 DEF LogTyped
<1>3. LogTyped' /\ \A i \in Pages : text'[i] # NoEdit => text[i] # NoEdit
    BY <1>1, <1>2, TypedReplaced
<1>4. ASSUME ~stray, NEW i \in Pages, text'[i] # NoEdit, i = OutSlot => ~clipped'
      PROVE  \E G : History(i, G, ops', cursor', text'[i])
  <2>1. text[i] # NoEdit /\ (i = OutSlot => ~clipped)
      BY <1>3, <1>4
  <2>2. PICK H : History(i, H, ops, cursor, text[i])
      BY <1>1, <1>4, <2>1 DEF HistoryInv
  <2>3. H[cursor'] = text'[i]
      BY <1>4, <2>1, <2>2
  <2>4. History(i, H, ops, cursor', text'[i])
      BY <2>2, <2>3 DEF History
  <2>5. QED
      BY <2>4
<1>5. HistoryInv'
    BY <1>4 DEF HistoryInv
<1>6. WordsInv'
    BY <1>1 DEF WordsInv
<1>7. QED
    BY <1>3, <1>5, <1>6 DEF LogInv

\* What an entry is taken out of, and what it is put back in when that fits.
LEMMA EntryGoesBack ==
    ASSUME NEW op \in Ops, NEW t \in Seq(Chars), NEW u \in Seq(Chars), Applied(op, t, u),
           op.type = "delete" => Len(t) <= Capacity
    PROVE  Backward(op, u).text = t
<1>1. op.text \in Seq(Chars) /\ op.pos \in Nat /\ op.type \in {"insert", "delete"}
    BY DEF Ops
<1>2. CASE op.type = "insert"
    BY <1>1, <1>2, TakenOut DEF Applied, Backward
<1>3. CASE op.type = "delete"
  <2>1. Puts(op.pos, op.text, u, t)
      BY <1>3 DEF Applied
  <2>2. Inserted(u, op.pos, op.text).text = t
      BY <1>1, <1>3, <2>1, PutInAgain
  <2>3. QED
      BY <1>3, <2>2 DEF Backward
<1>4. QED
    BY <1>1, <1>2, <1>3

LEMMA EntryGoesOn ==
    ASSUME NEW op \in Ops, NEW t \in Seq(Chars), NEW u \in Seq(Chars), Applied(op, t, u),
           op.type = "insert" => Len(u) <= Capacity
    PROVE  Forward(op, t).text = u
<1>1. op.text \in Seq(Chars) /\ op.pos \in Nat /\ op.type \in {"insert", "delete"}
    BY DEF Ops
<1>2. CASE op.type = "insert"
  <2>1. Puts(op.pos, op.text, t, u)
      BY <1>2 DEF Applied
  <2>2. Inserted(t, op.pos, op.text).text = u
      BY <1>1, <1>2, <2>1, PutInAgain
  <2>3. QED
      BY <1>2, <2>2 DEF Forward
<1>3. CASE op.type = "delete"
  <2>1. Puts(op.pos, op.text, u, t) /\ op.type # "insert"
      BY <1>3 DEF Applied
  <2>2. Deleted(t, op.pos + Len(op.text), Len(op.text)).text = u
      BY <1>1, <2>1, TakenOut
  <2>3. QED
      BY <2>1, <2>2 DEF Forward
<1>4. QED
    BY <1>1, <1>2, <1>3

\* Whatever an entry is applied to, the buffer stays within itself; and what grew
\* by all of an entry had room for it.
LEMMA AppliedIs ==
    ASSUME NEW op \in Ops, NEW t \in Seq(Chars), Len(t) <= Capacity, NEW r,
           r = Backward(op, t) \/ r = Forward(op, t)
    PROVE  /\ r.text \in Seq(Chars) /\ Len(r.text) <= Capacity /\ r.at \in 0 .. Len(r.text)
           /\ Len(r.text) = Len(t) + Len(op.text) /\ r = Inserted(t, op.pos, op.text)
                => Len(t) + Len(op.text) <= Capacity
<1>1. /\ op.text \in Seq(Chars) /\ op.pos \in Nat /\ op.type \in {"insert", "delete"}
      /\ Len(op.text) \in Nat /\ Len(t) \in Nat /\ Capacity \in Nat
    BY LenProperties, UndoAssumption DEF Ops
<1>2. r = Inserted(t, op.pos, op.text) \/ r = Deleted(t, op.pos + Len(op.text), Len(op.text))
    BY <1>1 DEF Backward, Forward
<1>3. CASE r = Inserted(t, op.pos, op.text)
    BY <1>1, <1>3, InsertedIs
<1>4. CASE r = Deleted(t, op.pos + Len(op.text), Len(op.text)) /\ r # Inserted(t, op.pos, op.text)
  <2>1. op.pos + Len(op.text) \in Nat
      BY <1>1
  <2>2. r.text \in Seq(Chars) /\ Len(r.text) <= Len(t) /\ r.at \in 0 .. Len(r.text)
      BY <1>1, <1>4, <2>1, DeletedIs
  <2>3. Len(r.text) \in Nat
      BY <2>2, LenProperties
  <2>4. QED
      BY <1>1, <1>4, <2>2, <2>3
<1>5. QED
    BY <1>2, <1>3, <1>4

LEMMA UndoKeeps == ASSUME LogInv, UndoIt PROVE LogInv'
<1>1. PICK op, t, r : op = ops[cursor] /\ t = text[onPage] /\ r = Backward(op, t)
    OBVIOUS
<1>2. /\ op \in Ops /\ op.text \in Seq(Chars) /\ op.pos \in Nat /\ Len(op.text) \in Nat
      /\ op.type \in {"insert", "delete"} /\ op.buf = onPage
      /\ t \in Seq(Chars) /\ Len(t) \in Nat /\ Len(t) <= Capacity
      /\ cursor \in 1 .. Len(ops) /\ onPage \in Pages
  <2>1. LogTyped /\ cursor > 0 /\ ops[cursor].buf = onPage
      BY DEF LogInv, UndoIt
  <2>2. cursor \in 1 .. Len(ops)
      BY <2>1, LogTypes
  <2>3. QED
      BY <1>1, <2>1, <2>2, LogTypes
<1>3. /\ r.text \in Seq(Chars) /\ Len(r.text) <= Capacity /\ r.at \in 0 .. Len(r.text)
      /\ Len(r.text) = Len(t) + Len(op.text) /\ r = Inserted(t, op.pos, op.text)
           => Len(t) + Len(op.text) <= Capacity
    BY <1>1, <1>2, AppliedIs
<1>4. /\ text' = [text EXCEPT ![onPage] = r.text] /\ gs' = [gs EXCEPT ![onPage] = r.at]
      /\ UNCHANGED <<onPage, ops, stray>> /\ cursor' = cursor - 1
      /\ clipped' = (clipped \/ (onPage = OutSlot /\ Len(r.text) # Len(t) + (-Grows(op))))
    BY <1>1 DEF UndoIt, Apply
<1>5. clipped => clipped'
    BY <1>4, Zenon
<1>6. onPage = OutSlot /\ ~clipped' => Len(r.text) = Len(t) + (-Grows(op))
    BY <1>4, Zenon
<1>7. PICK d : d = cursor - 1
    OBVIOUS
<1>8. d \in 0 .. Len(ops) /\ cursor' = d /\ cursor - 1 = d
    BY <1>2, <1>4, <1>7
<1>9. ASSUME NEW i \in Pages, NEW H, text[i] # NoEdit, i = OutSlot => ~clipped',
             History(i, H, ops, cursor, text[i])
      PROVE  H[d] = text'[i]
  <2>1. /\ H \in [0 .. Len(ops) -> Seq(Chars)] /\ H[cursor] = text[i]
        /\ IF op.buf = i THEN Applied(op, H[cursor - 1], H[cursor]) ELSE H[cursor] = H[cursor - 1]
        /\ i # OutSlot => Len(H[d]) <= Capacity
      BY <1>1, <1>2, <1>8, <1>9 DEF History
  <2>2. CASE i # onPage
    <3>1. text'[i] = text[i]
        BY <1>4, <1>9, <2>2 DEF LogInv, LogTyped
    <3>2. QED
        BY <1>2, <1>8, <2>1, <2>2, <3>1
  <2>3. CASE i = onPage
    <3>1. text'[i] = r.text
        BY <1>2, <1>4, <2>3 DEF LogInv, LogTyped
    <3>2. Applied(op, H[d], t) /\ H[d] \in Seq(Chars)
        BY <1>1, <1>2, <1>8, <2>1, <2>3
    <3>3. ASSUME op.type = "delete" PROVE Len(H[d]) <= Capacity
      <4>1. Len(H[d]) = Len(t) + Len(op.text)
          BY <3>2, <3>3 DEF Applied, Puts
      <4>2. r = Inserted(t, op.pos, op.text) /\ -Grows(op) = Len(op.text)
          BY <1>1, <1>2, <3>3 DEF Backward, Grows
      <4>3. CASE i = OutSlot
        <5>1. Len(r.text) = Len(t) + Len(op.text)
            BY <1>6, <1>9, <2>3, <4>2, <4>3
        <5>2. QED
            BY <1>3, <4>1, <4>2, <5>1
      <4>4. QED
          BY <2>1, <4>3
    <3>4. Backward(op, t).text = H[d]
        BY <1>2, <3>2, <3>3, EntryGoesBack
    <3>5. QED
        BY <1>1, <3>1, <3>4
  <2>4. QED
      BY <2>2, <2>3
<1>10. PICK u, g : u = r.text /\ g = r.at
    OBVIOUS
<1>11. \A i \in Pages : \A H :
          /\ text[i] # NoEdit /\ (i = OutSlot => ~clipped')
          /\ History(i, H, ops, cursor, text[i])
          => H[cursor'] = text'[i]
    BY <1>8, <1>9
<1>12. QED
    BY <1>3, <1>4, <1>5, <1>8, <1>10, <1>11, HistoryMoves

LEMMA RedoKeeps == ASSUME LogInv, RedoIt PROVE LogInv'
<1>1. PICK d : d = cursor + 1
    OBVIOUS
<1>2. PICK op, t, r : op = ops[d] /\ t = text[onPage] /\ r = Forward(op, t)
    OBVIOUS
<1>3. /\ op \in Ops /\ op.text \in Seq(Chars) /\ op.pos \in Nat /\ Len(op.text) \in Nat
      /\ op.type \in {"insert", "delete"} /\ op.buf = onPage
      /\ t \in Seq(Chars) /\ Len(t) \in Nat /\ Len(t) <= Capacity
      /\ d \in 1 .. Len(ops) /\ d - 1 = cursor /\ onPage \in Pages
  <2>1. LogTyped /\ cursor < Len(ops) /\ ops[cursor + 1].buf = onPage
      BY DEF LogInv, RedoIt
  <2>2. d \in 1 .. Len(ops) /\ d - 1 = cursor
      BY <1>1, <2>1, LogTypes
  <2>3. QED
      BY <1>1, <1>2, <2>1, <2>2, LogTypes
<1>4. /\ r.text \in Seq(Chars) /\ Len(r.text) <= Capacity /\ r.at \in 0 .. Len(r.text)
      /\ Len(r.text) = Len(t) + Len(op.text) /\ r = Inserted(t, op.pos, op.text)
           => Len(t) + Len(op.text) <= Capacity
    BY <1>2, <1>3, AppliedIs
<1>5. /\ text' = [text EXCEPT ![onPage] = r.text] /\ gs' = [gs EXCEPT ![onPage] = r.at]
      /\ UNCHANGED <<onPage, ops, stray>> /\ cursor' = d
      /\ clipped' = (clipped \/ (onPage = OutSlot /\ Len(r.text) # Len(t) + Grows(op)))
    BY <1>1, <1>2 DEF RedoIt, Apply
<1>6. clipped => clipped'
    BY <1>5, Zenon
<1>7. onPage = OutSlot /\ ~clipped' => Len(r.text) = Len(t) + Grows(op)
    BY <1>5, Zenon
<1>8. ASSUME NEW i \in Pages, NEW H, text[i] # NoEdit, i = OutSlot => ~clipped',
             History(i, H, ops, cursor, text[i])
      PROVE  H[d] = text'[i]
  <2>1. /\ H \in [0 .. Len(ops) -> Seq(Chars)] /\ H[cursor] = text[i]
        /\ IF op.buf = i THEN Applied(op, H[d - 1], H[d]) ELSE H[d] = H[d - 1]
        /\ i # OutSlot => Len(H[d]) <= Capacity
      BY <1>2, <1>3, <1>8 DEF History
  <2>2. CASE i # onPage
    <3>1. text'[i] = text[i]
        BY <1>5, <1>8, <2>2 DEF LogInv, LogTyped
    <3>2. QED
        BY <1>3, <2>1, <2>2, <3>1
  <2>3. CASE i = onPage
    <3>1. text'[i] = r.text
        BY <1>3, <1>5, <2>3 DEF LogInv, LogTyped
    <3>2. Applied(op, t, H[d]) /\ H[d] \in Seq(Chars)
        BY <1>2, <1>3, <2>1, <2>3
    <3>3. ASSUME op.type = "insert" PROVE Len(H[d]) <= Capacity
      <4>1. Len(H[d]) = Len(t) + Len(op.text)
          BY <3>2, <3>3 DEF Applied, Puts
      <4>2. r = Inserted(t, op.pos, op.text) /\ Grows(op) = Len(op.text)
          BY <1>2, <1>3, <3>3 DEF Forward, Grows
      <4>3. CASE i = OutSlot
        <5>1. Len(r.text) = Len(t) + Len(op.text)
            BY <1>7, <1>8, <2>3, <4>2, <4>3
        <5>2. QED
            BY <1>4, <4>1, <4>2, <5>1
      <4>4. QED
          BY <2>1, <4>3
    <3>4. Forward(op, t).text = H[d]
        BY <1>3, <3>2, <3>3, EntryGoesOn
    <3>5. QED
        BY <1>2, <3>1, <3>4
  <2>4. QED
      BY <2>2, <2>3
<1>9. PICK u, g : u = r.text /\ g = r.at
    OBVIOUS
<1>10. \A i \in Pages : \A H :
          /\ text[i] # NoEdit /\ (i = OutSlot => ~clipped')
          /\ History(i, H, ops, cursor, text[i])
          => H[cursor'] = text'[i]
    BY <1>5, <1>8
<1>11. cursor' \in 0 .. Len(ops)
    BY <1>3, <1>5
<1>12. QED
    BY <1>4, <1>5, <1>6, <1>9, <1>10, <1>11, HistoryMoves

LEMMA EmptyText == /\ <<>> \in Seq(Chars) /\ <<>> \in Seq(Ops) /\ Len(<<>>) = 0
                   /\ <<>> # NoEdit /\ 0 <= Capacity
<1>1. <<>> \in Seq(Chars) /\ <<>> \in Seq(Ops) /\ Len(<<>>) = 0
    BY EmptySeq
<1>2. <<>> # NoEdit
    BY <1>1, UndoAssumption
<1>3. 0 <= Capacity
    BY UndoAssumption
<1>4. QED
    BY <1>1, <1>2, <1>3

\* What leaves the log and every open text alone.
LEMMA TextsKept ==
    ASSUME LogInv, LogTyped', UNCHANGED <<ops, cursor, clipped, stray>>,
           \A i \in Pages : text'[i] # NoEdit => text'[i] = text[i]
    PROVE  LogInv'
<1>1. HistoryInv /\ WordsInv
    BY DEF LogInv
<1>2. ASSUME ~stray, NEW i \in Pages, text'[i] # NoEdit, i = OutSlot => ~clipped
      PROVE  \E H : History(i, H, ops, cursor, text'[i])
  <2>1. text'[i] = text[i] /\ text[i] # NoEdit
      BY <1>2
  <2>2. \E H : History(i, H, ops, cursor, text[i])
      BY <1>1, <1>2, <2>1 DEF HistoryInv
  <2>3. QED
      BY <2>1, <2>2
<1>3. HistoryInv'
    BY <1>2 DEF HistoryInv
<1>4. WordsInv'
    BY <1>1 DEF WordsInv
<1>5. QED
    BY <1>3, <1>4 DEF LogInv

LEMMA MoveKeeps == ASSUME LogInv, NEW p \in 0 .. Capacity, Move(p) PROVE LogInv'
<1>1. LogTyped /\ onPage \in Pages /\ text[onPage] # NoEdit /\ p \in Nat /\ p <= Len(text[onPage])
    BY UndoAssumption DEF LogInv, LogTyped, Move
<1>2. gs' = [gs EXCEPT ![onPage] = p] /\ UNCHANGED <<text, onPage, ops, cursor, edits, clipped, stray>>
    BY DEF Move
<1>3. gs' \in [Pages -> Nat] /\ gs'[onPage] = p /\ \A i \in Pages : i # onPage => gs'[i] = gs[i]
    BY <1>1, <1>2 DEF LogTyped
<1>4. ASSUME NEW i \in Pages
      PROVE  IF text[i] = NoEdit THEN gs'[i] = 0 ELSE Len(text[i]) <= Capacity /\ gs'[i] <= Len(text[i])
  <2>1. IF text[i] = NoEdit THEN gs[i] = 0 ELSE Len(text[i]) <= Capacity /\ gs[i] <= Len(text[i])
      BY <1>1 DEF LogTyped
  <2>2. QED
      BY <1>1, <1>3, <2>1
<1>5. LogTyped'
    BY <1>1, <1>2, <1>3, <1>4 DEF LogTyped
<1>6. QED
    BY <1>2, <1>5, TextsKept

LEMMA SelectKeeps == ASSUME LogInv, NEW i \in Pages, SelectBuffer(i) PROVE LogInv'
<1>1. LogTyped'
    BY DEF LogInv, LogTyped, SelectBuffer
<1>2. UNCHANGED <<text, ops, cursor, clipped, stray>>
    BY DEF SelectBuffer
<1>3. QED
    BY <1>1, <1>2, TextsKept

LEMMA CloseKeeps == ASSUME LogInv, NEW i \in Pages, CloseBuffer(i) PROVE LogInv'
<1>1. LogTyped /\ onPage \in Pages
    BY DEF LogInv, LogTyped
<1>2. /\ text[i] # NoEdit /\ i # onPage /\ onPage' = i
      /\ text' = [text EXCEPT ![onPage] = NoEdit] /\ gs' = [gs EXCEPT ![onPage] = 0]
      /\ UNCHANGED <<ops, cursor, clipped, stray>>
    BY DEF CloseBuffer
<1>3. /\ text' \in [Pages -> Seq(Chars) \cup {NoEdit}] /\ gs' \in [Pages -> Nat]
      /\ text'[onPage] = NoEdit /\ gs'[onPage] = 0
      /\ \A k \in Pages : k # onPage => text'[k] = text[k] /\ gs'[k] = gs[k]
    BY <1>1, <1>2 DEF LogTyped
<1>4. ASSUME NEW k \in Pages
      PROVE  IF text'[k] = NoEdit THEN gs'[k] = 0 ELSE Len(text'[k]) <= Capacity /\ gs'[k] <= Len(text'[k])
    BY <1>1, <1>3 DEF LogTyped
<1>5. LogTyped'
    BY <1>1, <1>2, <1>3, <1>4 DEF LogTyped
<1>6. \A k \in Pages : text'[k] # NoEdit => text'[k] = text[k]
    BY <1>3
<1>7. QED
    BY <1>2, <1>5, <1>6, TextsKept

\* A buffer no entry is of has been what it is all along.
LEMMA NeverTouched ==
    ASSUME NEW i, NEW log \in Seq(Ops), NEW d \in 0 .. Len(log), NEW t \in Seq(Chars),
           \A k \in 1 .. Len(log) : log[k].buf # i, Len(t) <= Capacity
    PROVE  \E H : History(i, H, log, d, t)
<1> DEFINE H == [k \in 0 .. Len(log) |-> t]
<1>1. Len(log) \in Nat
    BY LenProperties
<1>2. \A k \in 1 .. Len(log) : k \in 0 .. Len(log) /\ k - 1 \in 0 .. Len(log)
    BY <1>1
<1>3. H \in [0 .. Len(log) -> Seq(Chars)] /\ \A k \in 0 .. Len(log) : H[k] = t
    OBVIOUS
<1> HIDE DEF H
<1>4. History(i, H, log, d, t)
    BY <1>2, <1>3 DEF History
<1>5. QED
    BY <1>4

LEMMA NewKeeps == ASSUME LogInv, NEW i \in Pages, NewBuffer(i) PROVE LogInv'
<1>1. LogTyped /\ HistoryInv /\ WordsInv
    BY DEF LogInv
<1>2. /\ text[i] = NoEdit /\ onPage' = i /\ text' = [text EXCEPT ![i] = <<>>]
      /\ stray' = (stray \/ \E k \in 1 .. Len(ops) : ops[k].buf = i)
      /\ UNCHANGED <<gs, ops, cursor, clipped>>
    BY DEF NewBuffer
<1>3. <<>> \in Seq(Chars) /\ Len(<<>>) = 0 /\ <<>> # NoEdit /\ 0 <= Capacity
    BY EmptyText
<1>4. /\ text' \in [Pages -> Seq(Chars) \cup {NoEdit}] /\ text'[i] = <<>>
      /\ \A k \in Pages : k # i => text'[k] = text[k]
    BY <1>1, <1>2, <1>3 DEF LogTyped
<1>5. ASSUME NEW k \in Pages
      PROVE  IF text'[k] = NoEdit THEN gs[k] = 0 ELSE Len(text'[k]) <= Capacity /\ gs[k] <= Len(text'[k])
  <2>1. CASE k = i
    <3>1. gs[i] = 0
        BY <1>1, <1>2 DEF LogTyped
    <3>2. QED
        BY <1>3, <1>4, <2>1, <3>1
  <2>2. CASE k # i
      BY <1>1, <1>4, <2>2 DEF LogTyped
  <2>3. QED
      BY <2>1, <2>2
<1>6. LogTyped'
    BY <1>1, <1>2, <1>3, <1>4, <1>5 DEF LogTyped
<1>7. ASSUME ~stray', NEW k \in Pages, text'[k] # NoEdit, k = OutSlot => ~clipped
      PROVE  \E H : History(k, H, ops, cursor, text'[k])
  <2>1. ~stray /\ \A m \in 1 .. Len(ops) : ops[m].buf # i
      BY <1>2, <1>7
  <2>2. CASE k = i
    <3>1. ops \in Seq(Ops) /\ cursor \in 0 .. Len(ops)
        BY <1>1 DEF LogTyped
    <3>2. PICK e : e = <<>>
        OBVIOUS
    <3>3. e \in Seq(Chars) /\ Len(e) <= Capacity
        BY <1>3, <3>2
    <3>4. \E H : History(i, H, ops, cursor, e)
        BY <2>1, <3>1, <3>3, NeverTouched
    <3>5. QED
        BY <1>4, <2>2, <3>2, <3>4
  <2>3. CASE k # i
    <3>1. text'[k] = text[k] /\ text[k] # NoEdit
        BY <1>4, <1>7, <2>3
    <3>2. \E H : History(k, H, ops, cursor, text[k])
        BY <1>1, <1>7, <2>1, <3>1 DEF HistoryInv
    <3>3. QED
        BY <3>1, <3>2
  <2>4. QED
      BY <2>2, <2>3
<1>8. HistoryInv'
    BY <1>2, <1>7 DEF HistoryInv
<1>9. WordsInv'
    BY <1>1, <1>2 DEF WordsInv
<1>10. QED
    BY <1>6, <1>8, <1>9 DEF LogInv

\* A line printed was there all along, as far as the entries can tell.
LEMMA PrintedAllAlong ==
    ASSUME NEW H, NEW log \in Seq(Ops), NEW d \in 0 .. Len(log), NEW t, NEW c \in Chars,
           History(OutSlot, H, log, d, t)
    PROVE  \E G : History(OutSlot, G, log, d, Append(t, c))
<1> DEFINE G == [k \in 0 .. Len(log) |-> Append(H[k], c)]
<1>1. /\ Len(log) \in Nat /\ H \in [0 .. Len(log) -> Seq(Chars)] /\ H[d] = t
      /\ \A k \in 1 .. Len(log) :
             IF log[k].buf = OutSlot THEN Applied(log[k], H[k - 1], H[k]) ELSE H[k] = H[k - 1]
    BY LenProperties DEF History
<1>2. \A k \in 0 .. Len(log) : Append(H[k], c) \in Seq(Chars)
    BY <1>1, AppendProperties
<1>3. /\ G \in [0 .. Len(log) -> Seq(Chars)] /\ G[d] = Append(t, c)
      /\ \A k \in 0 .. Len(log) : G[k] = Append(H[k], c)
    BY <1>1, <1>2
<1> HIDE DEF G
<1>4. ASSUME NEW k \in 1 .. Len(log)
      PROVE  IF log[k].buf = OutSlot THEN Applied(log[k], G[k - 1], G[k]) ELSE G[k] = G[k - 1]
  <2>1. k - 1 \in 0 .. Len(log) /\ k \in 0 .. Len(log)
      BY <1>1
  <2>2. PICK a, b, e : a = H[k - 1] /\ b = H[k] /\ e = log[k]
      OBVIOUS
  <2>3. a \in Seq(Chars) /\ b \in Seq(Chars) /\ G[k - 1] = Append(a, c) /\ G[k] = Append(b, c)
      BY <1>1, <1>3, <2>1, <2>2
  <2>4. IF e.buf = OutSlot THEN Applied(e, a, b) ELSE b = a
      BY <1>1, <2>2
  <2>5. e.text \in Seq(Chars)
    <3>1. e \in Ops
        BY <2>2, ElementOfSeq
    <3>2. QED
        BY <3>1 DEF Ops
  <2>6. Applied(e, a, b) => Applied(e, Append(a, c), Append(b, c))
      BY <2>3, <2>5, PutsBeforeTheEnd DEF Applied
  <2>7. QED
      BY <2>2, <2>3, <2>4, <2>6
<1>5. History(OutSlot, G, log, d, Append(t, c))
    BY <1>3, <1>4 DEF History
<1>6. QED
    BY <1>5

LEMMA PrintsKeeps == ASSUME LogInv, NEW c \in Chars, PrintsLine(c) PROVE LogInv'
<1>1. LogTyped /\ HistoryInv /\ WordsInv /\ OutSlot \in Pages /\ onPage \in Pages
    BY UndoAssumption DEF LogInv, LogTyped
<1>2. PICK t, u : t = text[OutSlot] /\ u = Append(t, c)
    OBVIOUS
<1>3. /\ text[OutSlot] # NoEdit /\ Len(t) < Capacity
      /\ text' = [text EXCEPT ![OutSlot] = u]
      /\ gs' = IF onPage = OutSlot THEN [gs EXCEPT ![onPage] = Len(text[onPage]) + 1] ELSE gs
      /\ UNCHANGED <<onPage, ops, cursor, clipped, stray>>
    BY <1>2 DEF PrintsLine
<1>4. t \in Seq(Chars) /\ Len(t) \in Nat /\ gs[OutSlot] \in 0 .. Len(t) /\ Capacity \in Nat
    BY <1>1, <1>2, <1>3, LogTypes
<1>5. u \in Seq(Chars) /\ Len(u) = Len(t) + 1 /\ Len(u) <= Capacity /\ u # NoEdit
  <2>1. u \in Seq(Chars) /\ Len(u) = Len(t) + 1
      BY <1>2, <1>4, AppendProperties
  <2>2. QED
      BY <1>3, <1>4, <2>1, UndoAssumption
<1>6. /\ text' \in [Pages -> Seq(Chars) \cup {NoEdit}] /\ text'[OutSlot] = u
      /\ \A k \in Pages : k # OutSlot => text'[k] = text[k]
    BY <1>1, <1>3, <1>5 DEF LogTyped
<1>7. /\ gs' \in [Pages -> Nat] /\ gs'[OutSlot] \in 0 .. Len(u)
      /\ \A k \in Pages : k # OutSlot => gs'[k] = gs[k]
  <2>1. CASE onPage = OutSlot
    <3>1. gs' = [gs EXCEPT ![OutSlot] = Len(u)] /\ Len(u) \in Nat
        BY <1>2, <1>3, <1>4, <1>5, <2>1
    <3>2. QED
        BY <1>1, <3>1 DEF LogTyped
  <2>2. CASE onPage # OutSlot
      BY <1>1, <1>3, <1>4, <1>5, <2>2 DEF LogTyped
  <2>3. QED
      BY <2>1, <2>2
<1>8. ASSUME NEW k \in Pages
      PROVE  IF text'[k] = NoEdit THEN gs'[k] = 0 ELSE Len(text'[k]) <= Capacity /\ gs'[k] <= Len(text'[k])
  <2>1. CASE k = OutSlot
      BY <1>5, <1>6, <1>7, <2>1
  <2>2. CASE k # OutSlot
      BY <1>1, <1>6, <1>7, <2>2 DEF LogTyped
  <2>3. QED
      BY <2>1, <2>2
<1>9. text'[onPage] # NoEdit
    BY <1>1, <1>5, <1>6 DEF LogTyped
<1>10. LogTyped'
    BY <1>1, <1>3, <1>6, <1>7, <1>8, <1>9 DEF LogTyped
<1>11. ASSUME ~stray, NEW k \in Pages, text'[k] # NoEdit, k = OutSlot => ~clipped
       PROVE  \E H : History(k, H, ops, cursor, text'[k])
  <2>1. CASE k = OutSlot
    <3>1. ops \in Seq(Ops) /\ cursor \in 0 .. Len(ops)
        BY <1>1 DEF LogTyped
    <3>2. PICK H : History(OutSlot, H, ops, cursor, t)
        BY <1>1, <1>2, <1>3, <1>11, <2>1 DEF HistoryInv
    <3>3. PICK log, d : log = ops /\ d = cursor
        OBVIOUS
    <3>4. log \in Seq(Ops) /\ d \in 0 .. Len(log) /\ History(OutSlot, H, log, d, t)
        BY <3>1, <3>2, <3>3
    <3>5. \E G : History(OutSlot, G, log, d, u)
        BY <1>2, <3>4, PrintedAllAlong
    <3>6. QED
        BY <1>6, <2>1, <3>3, <3>5
  <2>2. CASE k # OutSlot
    <3>1. text'[k] = text[k]
        BY <1>6, <2>2
    <3>2. \E H : History(k, H, ops, cursor, text[k])
        BY <1>1, <1>11, <2>2, <3>1 DEF HistoryInv
    <3>3. QED
        BY <3>1, <3>2
  <2>3. QED
      BY <2>1, <2>2
<1>12. HistoryInv'
    BY <1>3, <1>11 DEF HistoryInv
<1>13. WordsInv'
    BY <1>1, <1>3 DEF WordsInv
<1>14. QED
    BY <1>10, <1>12, <1>13 DEF LogInv

\* An empty log is nobody's.
LEMMA LogForgotten ==
    ASSUME NEW tx, NEW log, NEW d, log = <<>>, d = 0, NEW i \in Pages,
           tx \in [Pages -> Seq(Chars) \cup {NoEdit}], tx[i] # NoEdit, Len(tx[i]) <= Capacity
    PROVE  Len(log) = 0 /\ \E H : History(i, H, log, d, tx[i])
<1>1. Len(log) = 0 /\ log \in Seq(Ops) /\ d \in 0 .. Len(log)
    BY EmptyText
<1>2. tx[i] \in Seq(Chars)
    OBVIOUS
<1>3. \A k \in 1 .. Len(log) : log[k].buf # i
    BY <1>1
<1>4. QED
    BY <1>1, <1>2, <1>3, NeverTouched

LEMMA SetKeeps == ASSUME LogInv, SetText(<<>>) PROVE LogInv'
<1>1. /\ text' = [text EXCEPT ![onPage] = <<>>] /\ gs' = [gs EXCEPT ![onPage] = Len(<<>>)]
      /\ ops' = <<>> /\ cursor' = 0 /\ onPage' = onPage
    BY DEF SetText
<1>2. PICK u : u = <<>>
    OBVIOUS
<1>3. u \in Seq(Chars) /\ Len(u) = 0 /\ Len(u) <= Capacity /\ Len(u) \in 0 .. Len(u)
    BY <1>2, EmptySeq, UndoAssumption
<1>4. ops' \in Seq(Ops) /\ cursor' \in 0 .. Len(ops')
    BY <1>1, EmptySeq
<1>5. LogTyped'
    BY <1>1, <1>2, <1>3, <1>4, TypedReplaced DEF LogInv
<1>6. HistoryInv'
  <2>1. ASSUME NEW i \in Pages, text'[i] # NoEdit PROVE \E H : History(i, H, ops', cursor', text'[i])
    <3>1. /\ text' \in [Pages -> Seq(Chars) \cup {NoEdit}]
          /\ Len(text'[i]) <= Capacity
        BY <1>5, <2>1 DEF LogTyped
    <3>2. QED
        BY <1>1, <2>1, <3>1, LogForgotten
  <2>2. QED
      BY <2>1 DEF HistoryInv
<1>7. WordsInv'
    BY <1>1, EmptyText DEF WordsInv
<1>8. QED
    BY <1>5, <1>6, <1>7 DEF LogInv

LEMMA LogStart == ASSUME UndoInit PROVE LogInv
<1>1. <<>> \in Seq(Chars) /\ Len(<<>>) = 0 /\ <<>> # NoEdit /\ 0 <= Capacity /\ <<>> \in Seq(Ops)
    BY EmptyText
<1>2. LogTyped
    BY <1>1 DEF UndoInit, LogTyped
<1>3. HistoryInv
  <2>1. ASSUME NEW i \in Pages PROVE \E H : History(i, H, ops, cursor, text[i])
    <3>1. /\ text \in [Pages -> Seq(Chars) \cup {NoEdit}] /\ ops = <<>> /\ cursor = 0
          /\ text[i] # NoEdit /\ Len(text[i]) <= Capacity
        BY <1>1 DEF UndoInit
    <3>2. QED
        BY <3>1, LogForgotten
  <2>2. QED
      BY <2>1 DEF HistoryInv
<1>4. WordsInv
    BY <1>1 DEF UndoInit, WordsInv
<1>5. QED
    BY <1>2, <1>3, <1>4 DEF LogInv

LEMMA LogStep == ASSUME LogInv, [UndoNext]_undoVars PROVE LogInv'
<1>1. CASE \E c \in Chars : Type(c)
    BY <1>1, TypeKeeps
<1>2. CASE Backspace
    BY <1>2, BackspaceKeeps
<1>3. CASE \E p \in 0 .. Capacity : Move(p)
    BY <1>3, MoveKeeps
<1>4. CASE \E i \in Pages : SelectBuffer(i)
    BY <1>4, SelectKeeps
<1>5. CASE \E i \in Pages : CloseBuffer(i)
    BY <1>5, CloseKeeps
<1>6. CASE \E i \in Pages : NewBuffer(i)
    BY <1>6, NewKeeps
<1>7. CASE UndoIt
    BY <1>7, UndoKeeps
<1>8. CASE RedoIt
    BY <1>8, RedoKeeps
<1>9. CASE \E c \in Spaces : PrintsLine(c)
  <2>1. Spaces \subseteq Chars
      BY DEF Chars
  <2>2. QED
      BY <1>9, <2>1, PrintsKeeps
<1>10. CASE SetText(<<>>)
    BY <1>10, SetKeeps
<1>11. CASE UNCHANGED undoVars
  <2>1. UNCHANGED <<text, gs, onPage, ops, cursor, clipped, stray>>
      BY <1>11 DEF undoVars
  <2>2. LogTyped'
      BY <2>1 DEF LogInv, LogTyped
  <2>3. QED
      BY <2>1, <2>2, TextsKept
<1>12. QED
    BY <1>1, <1>2, <1>3, <1>4, <1>5, <1>6, <1>7, <1>8, <1>9, <1>10, <1>11 DEF UndoNext

-----------------------------------------------------------------------------
(* What undoing back to an entry, or redoing on to one, makes of a buffer is *)
(* what the history says it held there.                                      *)

LEMMA HistoryIs ==
    ASSUME LogTyped, NEW i \in Pages, NEW H, History(i, H, ops, cursor, text[i])
    PROVE  /\ \A k \in 0 .. Len(ops) : H[k] \in Seq(Chars) /\ Len(H[k]) \in Nat
           /\ H[cursor] = text[i]
           /\ \A k \in 1 .. Len(ops) :
                  IF ops[k].buf = i THEN Applied(ops[k], H[k - 1], H[k]) ELSE H[k] = H[k - 1]
           /\ i # OutSlot => \A k \in 0 .. Len(ops) : Len(H[k]) <= Capacity
<1>1. \A k \in 0 .. Len(ops) : H[k] \in Seq(Chars)
    BY DEF History
<1>2. \A k \in 0 .. Len(ops) : Len(H[k]) \in Nat
    BY <1>1, LenProperties
<1>3. QED
    BY <1>1, <1>2 DEF History

LEMMA BackOne ==
    ASSUME LogTyped, NEW i \in Pages, NEW H, History(i, H, ops, cursor, text[i]),
           NEW j \in 1 .. Len(ops), Len(H[j - 1]) <= Capacity
    PROVE  (IF ops[j].buf = i THEN Backward(ops[j], H[j]).text ELSE H[j]) = H[j - 1]
<1>1. j - 1 \in 0 .. Len(ops) /\ j \in 0 .. Len(ops)
    BY LogTypes
<1>2. PICK op, t, u : op = ops[j] /\ t = H[j - 1] /\ u = H[j]
    OBVIOUS
<1>3. /\ op \in Ops /\ t \in Seq(Chars) /\ u \in Seq(Chars) /\ Len(t) <= Capacity
      /\ IF op.buf = i THEN Applied(op, t, u) ELSE u = t
    BY <1>1, <1>2, LogTypes, HistoryIs
<1>4. op.buf = i => Backward(op, u).text = t
    BY <1>3, EntryGoesBack
<1>5. QED
    BY <1>2, <1>3, <1>4

LEMMA OnOne ==
    ASSUME LogTyped, NEW i \in Pages, NEW H, History(i, H, ops, cursor, text[i]),
           NEW j \in 1 .. Len(ops), Len(H[j]) <= Capacity
    PROVE  (IF ops[j].buf = i THEN Forward(ops[j], H[j - 1]).text ELSE H[j - 1]) = H[j]
<1>1. j - 1 \in 0 .. Len(ops) /\ j \in 0 .. Len(ops)
    BY LogTypes
<1>2. PICK op, t, u : op = ops[j] /\ t = H[j - 1] /\ u = H[j]
    OBVIOUS
<1>3. /\ op \in Ops /\ t \in Seq(Chars) /\ u \in Seq(Chars) /\ Len(u) <= Capacity
      /\ IF op.buf = i THEN Applied(op, t, u) ELSE u = t
    BY <1>1, <1>2, LogTypes, HistoryIs
<1>4. op.buf = i => Forward(op, t).text = u
    BY <1>3, EntryGoesOn
<1>5. QED
    BY <1>2, <1>3, <1>4

LEMMA UndoneIs ==
    ASSUME LogTyped, NEW i \in Pages, NEW H, History(i, H, ops, cursor, text[i]),
           NEW k \in 0 .. cursor, \A m \in k .. cursor : Len(H[m]) <= Capacity
    PROVE  UndoneTo(k, i) = H[k]
<1>1. /\ cursor \in Nat /\ cursor <= Len(ops) /\ Len(ops) \in Nat /\ H[cursor] = text[i]
      /\ k \in k .. cursor /\ cursor \in k .. cursor
    BY LogTypes, HistoryIs
<1>2. ASSUME NEW j \in k .. cursor, j # cursor
      PROVE  /\ j + 1 \in k .. cursor
             /\ (IF ops[j + 1].buf = i THEN Backward(ops[j + 1], H[j + 1]).text ELSE H[j + 1]) = H[j]
  <2>1. PICK n : n = j + 1
      OBVIOUS
  <2>2. n \in 1 .. Len(ops) /\ n \in k .. cursor /\ n - 1 = j
      BY <1>1, <1>2, <2>1
  <2>3. Len(H[n - 1]) <= Capacity
      BY <2>2
  <2>4. (IF ops[n].buf = i THEN Backward(ops[n], H[n]).text ELSE H[n]) = H[n - 1]
      BY <2>2, <2>3, BackOne
  <2>5. QED
      BY <2>1, <2>2, <2>4
<1> DEFINE Step(f) == [j \in k .. cursor |->
                          IF j = cursor THEN text[i]
                          ELSE IF ops[j + 1].buf = i THEN Backward(ops[j + 1], f[j + 1]).text ELSE f[j + 1]]
           g == [j \in k .. cursor |-> H[j]]
           fun == CHOOSE f : f = Step(f)
<1>3. g = Step(g)
  <2>1. ASSUME NEW j \in k .. cursor PROVE g[j] = Step(g)[j]
    <3>1. CASE j = cursor
        BY <1>1, <3>1
    <3>2. CASE j # cursor
      <4>1. g[j] = H[j] /\ g[j + 1] = H[j + 1]
          BY <1>2, <3>2
      <4>2. Step(g)[j] = IF ops[j + 1].buf = i THEN Backward(ops[j + 1], g[j + 1]).text ELSE g[j + 1]
          BY <3>2
      <4>3. QED
          BY <1>2, <3>2, <4>1, <4>2
    <3>3. QED
        BY <3>1, <3>2
  <2>2. QED
      BY <2>1
<1>4. fun = Step(fun)
  <2> HIDE DEF Step, g
  <2>1. \E f : f = Step(f)
      BY <1>3
  <2>2. QED
      BY <2>1, Zenon
<1>5. UndoneTo(k, i) = fun[k]
    BY DEF UndoneTo
<1>6. /\ fun[cursor] = text[i]
      /\ \A j \in k .. cursor : j # cursor =>
             fun[j] = IF ops[j + 1].buf = i THEN Backward(ops[j + 1], fun[j + 1]).text ELSE fun[j + 1]
  <2> HIDE DEF fun
  <2>1. fun = [j \in k .. cursor |->
                  IF j = cursor THEN text[i]
                  ELSE IF ops[j + 1].buf = i THEN Backward(ops[j + 1], fun[j + 1]).text ELSE fun[j + 1]]
      BY <1>4, Zenon
  <2> HIDE DEF Step
  <2>2. ASSUME NEW j \in k .. cursor
        PROVE  fun[j] = IF j = cursor THEN text[i]
                  ELSE IF ops[j + 1].buf = i THEN Backward(ops[j + 1], fun[j + 1]).text ELSE fun[j + 1]
      BY <2>1, Zenon
  <2>3. QED
      BY <1>1, <2>2
<1> HIDE DEF fun
<1> DEFINE S == {j \in Int : fun[j] = H[j]}
<1>7. cursor \in S
    BY <1>1, <1>6
<1>8. ASSUME NEW j \in k + 1 .. cursor, j \in S PROVE j - 1 \in S
  <2>1. PICK n : n = j - 1
      OBVIOUS
  <2>2. n \in k .. cursor /\ n # cursor /\ n + 1 = j /\ n \in Int
      BY <1>1, <2>1
  <2>3. fun[n] = IF ops[j].buf = i THEN Backward(ops[j], fun[j]).text ELSE fun[j]
      BY <1>6, <2>2
  <2>4. (IF ops[j].buf = i THEN Backward(ops[j], H[j]).text ELSE H[j]) = H[n]
      BY <1>2, <2>2
  <2>5. fun[n] = H[n]
      BY <1>8, <2>3, <2>4
  <2>6. QED
      BY <2>1, <2>2, <2>5
<1> HIDE DEF S
<1>9. k \in S
  <2>1. k \in Int /\ cursor \in Int
      BY <1>1
  <2>2. QED
      BY <1>1, <1>7, <1>8, <2>1, GoingDown
<1>10. QED
    BY <1>5, <1>9 DEF S

LEMMA RedoneIs ==
    ASSUME LogTyped, NEW i \in Pages, NEW H, History(i, H, ops, cursor, text[i]),
           NEW k \in cursor .. Len(ops), \A m \in cursor .. k : Len(H[m]) <= Capacity
    PROVE  RedoneTo(k, i) = H[k]
<1>1. /\ cursor \in Nat /\ cursor <= Len(ops) /\ Len(ops) \in Nat /\ H[cursor] = text[i]
      /\ k \in cursor .. k /\ cursor \in cursor .. k
    BY LogTypes, HistoryIs
<1>2. ASSUME NEW j \in cursor .. k, j # cursor
      PROVE  /\ j - 1 \in cursor .. k
             /\ (IF ops[j].buf = i THEN Forward(ops[j], H[j - 1]).text ELSE H[j - 1]) = H[j]
  <2>1. j \in 1 .. Len(ops) /\ j - 1 \in cursor .. k
      BY <1>1, <1>2
  <2>2. QED
      BY <2>1, OnOne
<1> DEFINE Step(f) == [j \in cursor .. k |->
                          IF j = cursor THEN text[i]
                          ELSE IF ops[j].buf = i THEN Forward(ops[j], f[j - 1]).text ELSE f[j - 1]]
           g == [j \in cursor .. k |-> H[j]]
           fun == CHOOSE f : f = Step(f)
<1>3. g = Step(g)
  <2>1. ASSUME NEW j \in cursor .. k PROVE g[j] = Step(g)[j]
    <3>1. CASE j = cursor
        BY <1>1, <3>1
    <3>2. CASE j # cursor
      <4>1. g[j] = H[j] /\ g[j - 1] = H[j - 1]
          BY <1>2, <3>2
      <4>2. Step(g)[j] = IF ops[j].buf = i THEN Forward(ops[j], g[j - 1]).text ELSE g[j - 1]
          BY <3>2
      <4>3. QED
          BY <1>2, <3>2, <4>1, <4>2
    <3>3. QED
        BY <3>1, <3>2
  <2>2. QED
      BY <2>1
<1>4. fun = Step(fun)
  <2> HIDE DEF Step, g
  <2>1. \E f : f = Step(f)
      BY <1>3
  <2>2. QED
      BY <2>1, Zenon
<1>5. RedoneTo(k, i) = fun[k]
    BY DEF RedoneTo
<1>6. /\ fun[cursor] = text[i]
      /\ \A j \in cursor .. k : j # cursor =>
             fun[j] = IF ops[j].buf = i THEN Forward(ops[j], fun[j - 1]).text ELSE fun[j - 1]
  <2> HIDE DEF fun
  <2>1. fun = [j \in cursor .. k |->
                  IF j = cursor THEN text[i]
                  ELSE IF ops[j].buf = i THEN Forward(ops[j], fun[j - 1]).text ELSE fun[j - 1]]
      BY <1>4, Zenon
  <2> HIDE DEF Step
  <2>2. ASSUME NEW j \in cursor .. k
        PROVE  fun[j] = IF j = cursor THEN text[i]
                  ELSE IF ops[j].buf = i THEN Forward(ops[j], fun[j - 1]).text ELSE fun[j - 1]
      BY <2>1, Zenon
  <2>3. QED
      BY <1>1, <2>2
<1> HIDE DEF fun
<1> DEFINE S == {j \in Int : fun[j] = H[j]}
<1>7. cursor \in S
    BY <1>1, <1>6
<1>8. ASSUME NEW j \in cursor .. k - 1, j \in S PROVE j + 1 \in S
  <2>1. PICK n : n = j + 1
      OBVIOUS
  <2>2. n \in cursor .. k /\ n # cursor /\ n - 1 = j /\ n \in Int
      BY <1>1, <2>1
  <2>3. fun[n] = IF ops[n].buf = i THEN Forward(ops[n], fun[j]).text ELSE fun[j]
      BY <1>6, <2>2
  <2>4. (IF ops[n].buf = i THEN Forward(ops[n], H[j]).text ELSE H[j]) = H[n]
      BY <1>2, <2>2
  <2>5. fun[n] = H[n]
      BY <1>8, <2>3, <2>4
  <2>6. QED
      BY <2>1, <2>2, <2>5
<1> HIDE DEF S
<1>9. k \in S
  <2>1. k \in Int /\ cursor \in Int
      BY <1>1
  <2>2. QED
      BY <1>1, <1>7, <1>8, <2>1, GoingUp
<1>10. QED
    BY <1>5, <1>9 DEF S

\* On the way back to an entry, or on to one, nothing runs full.
LEMMA RoomBack ==
    ASSUME LogTyped, NEW i \in Pages, text[i] # NoEdit, NEW H, History(i, H, ops, cursor, text[i]),
           NEW k \in 1 .. cursor, ClearBack(k, i)
    PROVE  \A m \in k - 1 .. cursor : Len(H[m]) <= Capacity
<1>1. /\ cursor \in Nat /\ cursor <= Len(ops) /\ Len(ops) \in Nat
      /\ H[cursor] = text[i] /\ Len(text[i]) <= Capacity
    BY LogTypes, HistoryIs
<1>2. CASE i # OutSlot
    BY <1>1, <1>2, HistoryIs
<1>3. CASE i = OutSlot
  <2> DEFINE S == {j \in Int : \A m \in j .. cursor : Len(H[m]) <= Capacity}
  <2>1. cursor \in S
    <3>1. \A m \in cursor .. cursor : m = cursor
        BY <1>1
    <3>2. QED
        BY <1>1, <3>1
  <2>2. ASSUME NEW j \in (k - 1) + 1 .. cursor, j \in S PROVE j - 1 \in S
    <3>1. /\ j \in 1 .. Len(ops) /\ j \in k .. cursor /\ j \in 0 .. cursor /\ j \in 0 .. Len(ops)
          /\ j - 1 \in 0 .. Len(ops) /\ j \in j .. cursor
        BY <1>1, <2>2
    <3>2. PICK op, t, u : op = ops[j] /\ t = H[j - 1] /\ u = H[j]
        OBVIOUS
    <3>3. /\ op.text \in Seq(Chars) /\ Len(op.text) \in Nat /\ op.type \in {"insert", "delete"}
          /\ Len(t) \in Nat /\ Len(u) \in Nat /\ Len(u) <= Capacity /\ Capacity \in Nat
          /\ IF op.buf = i THEN Applied(op, t, u) ELSE u = t
      <4>1. /\ op.text \in Seq(Chars) /\ Len(op.text) \in Nat /\ op.type \in {"insert", "delete"}
            /\ Capacity \in Nat
          BY <3>1, <3>2, LogTypes
      <4>2. /\ Len(t) \in Nat /\ Len(u) \in Nat
            /\ IF op.buf = i THEN Applied(op, t, u) ELSE u = t
          BY <3>1, <3>2, HistoryIs
      <4>3. Len(u) <= Capacity
          BY <2>2, <3>1, <3>2
      <4>4. QED
          BY <4>1, <4>2, <4>3
    <3>7. Len(t) <= Capacity
      <4>4. CASE op.buf # i
          BY <3>3, <4>4
      <4>5. CASE op.buf = i /\ op.type = "insert"
          BY <3>3, <4>5 DEF Applied, Puts
      <4>6. CASE op.buf = i /\ op.type = "delete"
        <5>1. UndoneTo(j, i) = u
            BY <2>2, <3>1, <3>2, UndoneIs
        <5>2. Fits(op, u)
            BY <1>3, <3>1, <3>2, <4>6, <5>1 DEF ClearBack
        <5>3. Len(t) = Len(u) + Len(op.text)
            BY <3>3, <4>6 DEF Applied, Puts
        <5>4. QED
            BY <5>2, <5>3 DEF Fits
      <4>7. QED
          BY <3>3, <4>4, <4>5, <4>6
    <3>8. \A m \in j - 1 .. cursor : m = j - 1 \/ m \in j .. cursor
        BY <1>1
    <3>9. QED
        BY <2>2, <3>2, <3>7, <3>8
  <2> HIDE DEF S
  <2>3. \A j \in k - 1 .. cursor : j \in S
    <3>1. k - 1 \in Int /\ cursor \in Int
        BY <1>1
    <3>2. QED
        BY <2>1, <2>2, <3>1, GoingDown
  <2>4. k - 1 \in k - 1 .. cursor
      BY <1>1
  <2>5. k - 1 \in S
      BY <2>3, <2>4
  <2>6. QED
      BY <2>5 DEF S
<1>4. QED
    BY <1>2, <1>3

LEMMA RoomOn ==
    ASSUME LogTyped, NEW i \in Pages, text[i] # NoEdit, NEW H, History(i, H, ops, cursor, text[i]),
           NEW k \in cursor + 1 .. Len(ops), ClearOn(k, i)
    PROVE  \A m \in cursor .. k : Len(H[m]) <= Capacity
<1>1. /\ cursor \in Nat /\ cursor <= Len(ops) /\ Len(ops) \in Nat
      /\ H[cursor] = text[i] /\ Len(text[i]) <= Capacity
    BY LogTypes, HistoryIs
<1>2. CASE i # OutSlot
    BY <1>1, <1>2, HistoryIs
<1>3. CASE i = OutSlot
  <2> DEFINE S == {j \in Int : \A m \in cursor .. j : Len(H[m]) <= Capacity}
  <2>1. cursor \in S
    <3>1. \A m \in cursor .. cursor : m = cursor
        BY <1>1
    <3>2. QED
        BY <1>1, <3>1
  <2>2. ASSUME NEW j \in cursor .. k - 1, j \in S PROVE j + 1 \in S
    <3>0. PICK n : n = j + 1
        OBVIOUS
    <3>1. /\ n \in 1 .. Len(ops) /\ n \in cursor + 1 .. k /\ n \in 0 .. Len(ops)
          /\ n - 1 = j /\ j \in cursor .. Len(ops) /\ j \in 0 .. Len(ops) /\ j \in cursor .. j
        BY <1>1, <2>2, <3>0
    <3>2. PICK op, t, u : op = ops[n] /\ t = H[n - 1] /\ u = H[n]
        OBVIOUS
    <3>3. /\ op.text \in Seq(Chars) /\ Len(op.text) \in Nat /\ op.type \in {"insert", "delete"}
          /\ Len(t) \in Nat /\ Len(u) \in Nat /\ Len(t) <= Capacity /\ Capacity \in Nat
          /\ IF op.buf = i THEN Applied(op, t, u) ELSE u = t
      <4>1. /\ op.text \in Seq(Chars) /\ Len(op.text) \in Nat /\ op.type \in {"insert", "delete"}
            /\ Capacity \in Nat
          BY <3>1, <3>2, LogTypes
      <4>2. /\ Len(t) \in Nat /\ Len(u) \in Nat
            /\ IF op.buf = i THEN Applied(op, t, u) ELSE u = t
          BY <3>1, <3>2, HistoryIs
      <4>3. Len(H[j]) <= Capacity
          BY <2>2, <3>1
      <4>4. t = H[j]
          BY <3>1, <3>2
      <4>5. QED
          BY <4>1, <4>2, <4>3, <4>4
    <3>7. Len(u) <= Capacity
      <4>4. CASE op.buf # i
          BY <3>3, <4>4
      <4>5. CASE op.buf = i /\ op.type = "delete"
          BY <3>3, <4>5 DEF Applied, Puts
      <4>6. CASE op.buf = i /\ op.type = "insert"
        <5>1. RedoneTo(n - 1, i) = t
            BY <2>2, <3>1, <3>2, RedoneIs
        <5>2. Fits(op, t)
            BY <1>3, <3>1, <3>2, <4>6, <5>1 DEF ClearOn
        <5>3. Len(u) = Len(t) + Len(op.text)
            BY <3>3, <4>6 DEF Applied, Puts
        <5>4. QED
            BY <5>2, <5>3 DEF Fits
      <4>7. QED
          BY <3>3, <4>4, <4>5, <4>6
    <3>8. \A m \in cursor .. n : m = n \/ m \in cursor .. j
        BY <1>1, <3>1
    <3>9. n \in Int
        BY <3>1
    <3>10. QED
        BY <2>2, <3>0, <3>2, <3>7, <3>8, <3>9
  <2> HIDE DEF S
  <2>3. \A j \in cursor .. k : j \in S
    <3>1. k \in Int /\ cursor \in Int
        BY <1>1
    <3>2. QED
        BY <2>1, <2>2, <3>1, GoingUp
  <2>4. k \in cursor .. k
      BY <1>1
  <2>5. k \in S
      BY <2>3, <2>4
  <2>6. QED
      BY <2>5 DEF S
<1>4. QED
    BY <1>2, <1>3

LEMMA EntriesFit == ASSUME LogInv, ~stray PROVE EveryEntryFits
<1> SUFFICES ASSUME NEW k \in 1 .. Len(ops), text[ops[k].buf] # NoEdit
             PROVE  LET op == ops[k]
                        i  == op.buf
                    IN  /\ k <= cursor /\ ClearBack(k, i) =>
                               LET t == UndoneTo(k, i) IN Forward(op, Backward(op, t).text).text = t
                        /\ k > cursor /\ ClearOn(k, i) =>
                               LET t == RedoneTo(k - 1, i) IN Backward(op, Forward(op, t).text).text = t
    BY DEF EveryEntryFits
<1> DEFINE op == ops[k]
           i == op.buf
<1>1. LogTyped /\ HistoryInv
    BY DEF LogInv
<1>2. /\ i \in Pages /\ text[i] # NoEdit /\ cursor \in Nat /\ cursor <= Len(ops) /\ Len(ops) \in Nat
      /\ k - 1 \in 0 .. Len(ops) /\ k \in 0 .. Len(ops)
    BY <1>1, LogTypes
<1>3. ASSUME i = OutSlot => ~clipped PROVE \E H : History(i, H, ops, cursor, text[i])
    BY <1>1, <1>2, <1>3 DEF HistoryInv
<1> HIDE DEF i
<1>4. op.buf = i
    BY DEF i
<1>5. ASSUME k <= cursor, ClearBack(k, i)
      PROVE  Forward(op, Backward(op, UndoneTo(k, i)).text).text = UndoneTo(k, i)
  <2>1. i = OutSlot => ~clipped
      BY <1>5 DEF ClearBack
  <2>2. PICK H : History(i, H, ops, cursor, text[i])
      BY <1>3, <2>1
  <2>3. k \in 1 .. cursor /\ k \in 0 .. cursor /\ k - 1 \in k - 1 .. cursor /\ k \in k - 1 .. cursor
        /\ \A m \in k .. cursor : m \in k - 1 .. cursor
      BY <1>2, <1>5
  <2>4. \A m \in k - 1 .. cursor : Len(H[m]) <= Capacity
      BY <1>1, <1>2, <1>5, <2>2, <2>3, RoomBack
  <2>5. UndoneTo(k, i) = H[k]
      BY <1>1, <1>2, <2>2, <2>3, <2>4, UndoneIs
  <2>6. Backward(op, H[k]).text = H[k - 1]
      BY <1>1, <1>2, <1>4, <2>2, <2>3, <2>4, BackOne
  <2>7. Forward(op, H[k - 1]).text = H[k]
      BY <1>1, <1>2, <1>4, <2>2, <2>3, <2>4, OnOne
  <2>8. QED
      BY <2>5, <2>6, <2>7
<1>6. ASSUME k > cursor, ClearOn(k, i)
      PROVE  Backward(op, Forward(op, RedoneTo(k - 1, i)).text).text = RedoneTo(k - 1, i)
  <2>1. i = OutSlot => ~clipped
      BY <1>6 DEF ClearOn
  <2>2. PICK H : History(i, H, ops, cursor, text[i])
      BY <1>3, <2>1
  <2>3. /\ k \in cursor + 1 .. Len(ops) /\ k - 1 \in cursor .. Len(ops) /\ k - 1 \in cursor .. k
        /\ k \in cursor .. k /\ \A m \in cursor .. k - 1 : m \in cursor .. k
      BY <1>2, <1>6
  <2>4. \A m \in cursor .. k : Len(H[m]) <= Capacity
      BY <1>1, <1>2, <1>6, <2>2, <2>3, RoomOn
  <2>5. RedoneTo(k - 1, i) = H[k - 1]
      BY <1>1, <1>2, <2>2, <2>3, <2>4, RedoneIs
  <2>6. Forward(op, H[k - 1]).text = H[k]
      BY <1>1, <1>2, <1>4, <2>2, <2>3, <2>4, OnOne
  <2>7. Backward(op, H[k]).text = H[k - 1]
      BY <1>1, <1>2, <1>4, <2>2, <2>3, <2>4, BackOne
  <2>8. QED
      BY <2>5, <2>6, <2>7
<1>7. QED
    BY <1>5, <1>6 DEF i

LEMMA LogIsKept == ASSUME LogInv PROVE LogKept
<1>1. RoundTrip
    BY EntriesFit DEF RoundTrip
<1>2. WordAtATime
    BY DEF LogInv, WordsInv, NoSpaceIn, WordAtATime
<1>3. QED
    BY <1>1, <1>2 DEF LogKept

\* However far back or forward one goes in an open buffer, every entry finds its
\* characters where it left them, and none typed spans two words: through typing,
\* deleting, undo, redo, other buffers, lines printed to "+out", a log that runs
\* over and slots closed and taken again (undo.c:74-231).
THEOREM UndoTakesBackWhatWasDone == UndoSpec => []LogKept
<1>1. UndoInit => LogInv
    BY LogStart
<1>2. LogInv /\ [UndoNext]_undoVars => LogInv'
    BY LogStep
<1>3. LogInv => LogKept
    BY LogIsKept
<1>4. QED
    BY <1>1, <1>2, <1>3, PTL DEF UndoSpec
=============================================================================
