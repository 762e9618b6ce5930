----------------------------- MODULE MCKeyboard -----------------------------
(* The link and the keys of one keyboard, one after the other: either moves  *)
(* only while the other is as it was at the start.                           *)
EXTENDS BleLink, HeldKeys

CONSTANTS a, b
TwoKeys == {a, b}
TheHandle == {1}
SomeBoards == {<<TRUE, FALSE, TRUE>>, <<FALSE>>}

Init == LinkInit /\ KeysInit
Next == \/ LinkNext /\ KeysInit /\ UNCHANGED keyVars
        \/ KeysNext /\ LinkInit /\ UNCHANGED linkVars
Spec == Init /\ [][Next]_<<linkVars, keyVars>> /\ LinkFair
=============================================================================
