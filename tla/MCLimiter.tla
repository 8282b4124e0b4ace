------------------------------ MODULE MCLimiter ------------------------------
(***************************************************************************)
(* Instances of Limiter for TLC. A time unit stands for about an hour. Its *)
(* constants are given in the .cfg files.                                  *)
(***************************************************************************)
EXTENDS Limiter, TLC
=============================================================================
