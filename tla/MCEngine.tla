------------------------------- MODULE MCEngine -------------------------------
(***************************************************************************)
(* Instances of Engine for TLC: two features, the second depending on the  *)
(* first.                                                                  *)
(***************************************************************************)
EXTENDS EngineProperties, TLC

CONSTANTS a, b

TwoFeatures == {a, b}
BAfterA == [g \in TwoFeatures |-> IF g = b THEN {a} ELSE {}]

\* The whole list in dependency order, and the lists that --feature selects.
SortedLists == {<<a, b>>, <<b>>}
=============================================================================
