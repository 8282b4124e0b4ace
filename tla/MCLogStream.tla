----------------------------- MODULE MCLogStream -----------------------------
(***************************************************************************)
(* Instances of LogStream for TLC. Its constants are given in the .cfg     *)
(* files.                                                                  *)
(***************************************************************************)
EXTENDS LogStream
=============================================================================
