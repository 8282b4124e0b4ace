------------------------------ MODULE MCAttempt ------------------------------
(***************************************************************************)
(* Instances of Attempt for TLC. Its constants are given in the .cfg files.*)
(***************************************************************************)
EXTENDS Attempt, TLC
=============================================================================
