------------------------------ MODULE Lifecycle ------------------------------
(***************************************************************************)
(* What one run of pave promises about the features table, whatever        *)
(* happens to providers, keys, signals and store calls: at most one        *)
(* feature is being worked on, work on a feature starts only when its      *)
(* dependencies are implemented, a feature becomes implemented exactly     *)
(* when the provider reported success for it, and an implemented feature   *)
(* stays implemented.  A run may be abandoned with its active feature left *)
(* in_progress; then nothing is written any more.                          *)
(***************************************************************************)
CONSTANTS Features, DependsOn, NoFeature

VARIABLES
    table,      \* [Features -> status, or "absent"]
    active,     \* the feature being worked on, or NoFeature
    proven,     \* features for which the provider reported success
    over        \* TRUE iff the run writes no more feature rows

lifecycleVars == <<table, active, proven, over>>

Implemented == {g \in Features : table[g] = "implemented"}

Init ==
    /\ table \in [Features -> {"pending", "in_progress", "implemented",
                               "failed", "absent"}]
    /\ active = NoFeature
    /\ proven = {}
    /\ over = FALSE

Start(g) ==
    /\ ~over /\ active = NoFeature
    /\ table[g] \notin {"implemented", "absent"}
    /\ DependsOn[g] \subseteq Implemented
    /\ table' = [table EXCEPT ![g] = "in_progress"]
    /\ active' = g
    /\ UNCHANGED <<proven, over>>

Prove ==
    /\ ~over /\ active # NoFeature
    /\ proven' = proven \cup {active}
    /\ UNCHANGED <<table, active, over>>

Finish(s) ==
    /\ ~over /\ active # NoFeature
    /\ s = "implemented" <=> active \in proven
    /\ table' = [table EXCEPT ![active] = s]
    /\ active' = NoFeature
    /\ UNCHANGED <<proven, over>>

\* The run ends; a feature that is active then stays in_progress.
End ==
    /\ ~over
    /\ over' = TRUE /\ active' = NoFeature
    /\ UNCHANGED <<table, proven>>

Next ==
    \/ \E g \in Features : Start(g)
    \/ Prove
    \/ \E s \in {"implemented", "failed", "pending"} : Finish(s)
    \/ End

Spec == Init /\ [][Next]_lifecycleVars
=============================================================================
