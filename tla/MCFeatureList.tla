---------------------------- MODULE MCFeatureList ----------------------------
(***************************************************************************)
(* An instance of FeatureList for TLC: two titles, each written in two     *)
(* ways, one of them with two dependencies that a comma or a blank         *)
(* separates, a line that continues the item above it, and an item without *)
(* a slug.                                                                 *)
(***************************************************************************)
EXTENDS FeatureList

Part(key, ids) == [key |-> key, val |-> ids]
First == <<"same">>
Second == <<"same", "2">>

SameOpen == [mark |-> "open", text |-> <<"same", "-", "why">>, meta |-> <<>>]
SameChecked == [mark |-> "checked", text |-> <<"same", "!!!">>, meta |-> <<>>]
AfterBoth == [mark |-> "open", text |-> <<"both", "-", "same", ":", "why">>,
              meta |-> <<Part("depends", <<First>>), Part("bare", <<Second>>),
                         Part("priority", <<<<"1">>>>)>>]
AfterBlanks == [mark |-> "open", text |-> <<"both", "same">>,
                meta |-> <<Part("depends", <<First, Second>>)>>]
Continuation == [mark |-> "none", text |-> <<"more">>,
                 meta |-> <<Part("depends", <<First>>)>>]
NoSlug == [mark |-> "open", text |-> <<"!!!">>, meta |-> <<>>]

SomeLines == {SameOpen, SameChecked, AfterBoth, AfterBlanks, Continuation, NoSlug}
OneMention == {<<"see", "same", "2">>}

\* What the theorems on IDs ask of the lines.
ASSUME OwnTitlesHold == OwnTitles
=============================================================================
