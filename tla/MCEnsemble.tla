---------------------------- MODULE MCEnsemble ----------------------------
(* Two decks, two places to start from, two exchanges under way.           *)
EXTENDS Ensemble

CONSTANTS a, b

TwoDecks == {a, b}
LeadAndFollow == [d \in TwoDecks |-> IF d = a THEN "lead" ELSE "follow"]
TwoOrigins == {0, 1}
OneTempo == {1}
TwoTempos == {1, 2}
=============================================================================
