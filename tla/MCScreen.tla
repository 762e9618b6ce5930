------------------------------- MODULE MCScreen -------------------------------
(* The screen, on small instances side by side: a document in its view, which *)
(* document is under the hands, the characters the panel shows. None of them  *)
(* reads another's state: each moves only while the others are as they were   *)
(* at the start.                                                              *)
EXTENDS EditorView, EditorDesk, TextGrid

SomeTexts == {<<>>,
              <<"a", "a", " ", "a", "a", "a", "a", NL>>,
              <<NL, NL, NL, NL, "a", " ", "a">>,
              <<"a", NL, "a", "a", "a", NL, NL, ">", "a">>,
              <<"a", "a", "a", "a", "a", "a", "a", "a", "a">>}
C(i, j) == [x |-> i, y |-> j]
TwoFaces == [high |-> [w |-> 2, h |-> 12], low |-> [w |-> 4, h |-> 24]]
SomeSpots == {C(0, 12), C(0, 36)}
Corner == C(4, 36)
Start == C(0, 12)

ViewWaits == text = <<>> /\ ViewInit /\ UNCHANGED viewVars
GlassWaits == GridInit /\ UNCHANGED glassVars
DeskWaits == DeskInit /\ UNCHANGED deskVars
Init == ViewInit /\ DeskInit /\ GridInit
Next ==
    \/ DeskWaits /\ GlassWaits /\ ViewNext
    \/ ViewWaits /\ GlassWaits /\ DeskNext
    \/ ViewWaits /\ DeskWaits /\ GridNext
Spec == /\ Init /\ [][Next]_<<viewVars, deskVars, glassVars>>
        /\ WF_deskVars(TimePasses /\ ViewWaits /\ GlassWaits)
==============================================================================
