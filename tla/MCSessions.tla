------------------------------ MODULE MCSessions ------------------------------
(***************************************************************************)
(* Instances of Sessions for TLC: two features, the second depending on    *)
(* the first, and up to three invocations of `pave run`.                   *)
(***************************************************************************)
EXTENDS Sessions

CONSTANTS a, b

TwoFeatures == {a, b}
BAfterA == [g \in TwoFeatures |-> IF g = b THEN {a} ELSE {}]
SpecOrder == <<a, b>>
NoLists == {}

WholeList == [feature |-> NoSelection, max |-> 0, dry |-> FALSE]
WholeListDry == [WholeList EXCEPT !.dry = TRUE]
OnlyOne == [WholeList EXCEPT !.max = 1]

FullOptions == {WholeList, WholeListDry}
MaxOptions == {WholeList, OnlyOne}
=============================================================================
