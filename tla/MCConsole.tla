------------------------------ MODULE MCConsole ------------------------------
(***************************************************************************)
(* An instance of Console for TLC: a failed, an implemented and a pending  *)
(* row.                                                                    *)
(***************************************************************************)
EXTENDS Console

Row(id, status) == [id |-> id, status |-> status]
ThreeRows == <<Row("a", "failed"), Row("b", "implemented"), Row("c", "pending")>>
=============================================================================
