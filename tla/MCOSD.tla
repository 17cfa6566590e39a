------------------------------- MODULE MCOSD -------------------------------
(* OSD with two texts, one that ends in a line break, and one of nothing   *)
(* but a line break.                                                       *)
EXTENDS OSD, TLC

CONSTANTS h1, h2, a, aBreak, break

TwoHandlers == {h1, h2}

AllTexts == {a, aBreak, break}
AllTrim  == [t \in AllTexts |-> IF t = break THEN Blank ELSE a]
AnyFile  == {Absent, Blank, a}

Symmetry == Permutations(TwoHandlers)
=============================================================================
