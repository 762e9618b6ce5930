------------------------------ MODULE Archive ------------------------------
(***************************************************************************)
(* What the document store promises, with no flash in it: one text per     *)
(* name, replaced whole or not at all.                                     *)
(*                                                                         *)
(* A save is in flight between Begin and its answer.  It takes effect at   *)
(* one instant (Commit); it is answered "saved" only after that instant,   *)
(* and "failed" only if it never came.  A power cut forgets the save that  *)
(* was in flight and nothing else.  Journal implements this module         *)
(* (Journal!Arch): see docstore.h:4-7 for the promise.                     *)
(***************************************************************************)
CONSTANTS
    Names,      \* document names; an empty name is the scratch document
    Texts,      \* document contents
    None        \* no text filed / no save in flight

VARIABLES
    archive,    \* [Names -> Texts \cup {None}]: what a reader would find
    saving      \* the save in flight: [name, text, filed], or None

avars == <<archive, saving>>

ArchiveTypeOK ==
    /\ archive \in [Names -> Texts \cup {None}]
    /\ saving \in [name : Names, text : Texts, filed : BOOLEAN] \cup {None}

Init ==
    /\ archive = [n \in Names |-> None]
    /\ saving = None

Begin(n, t) ==
    /\ saving = None
    /\ saving' = [name |-> n, text |-> t, filed |-> FALSE]
    /\ UNCHANGED archive

Commit ==
    /\ saving # None
    /\ ~saving.filed
    /\ archive' = [archive EXCEPT ![saving.name] = saving.text]
    /\ saving' = [name |-> saving.name, text |-> saving.text, filed |-> TRUE]

Saved ==
    /\ saving # None
    /\ saving.filed
    /\ saving' = None
    /\ UNCHANGED archive

Failed ==
    /\ saving # None
    /\ ~saving.filed
    /\ saving' = None
    /\ UNCHANGED archive

PowerCut ==
    /\ saving' = None
    /\ UNCHANGED archive

Next ==
    \/ \E n \in Names, t \in Texts : Begin(n, t)
    \/ Commit
    \/ Saved
    \/ Failed
    \/ PowerCut

Spec == Init /\ [][Next]_avars
=============================================================================
