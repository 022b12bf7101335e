---------------------------- MODULE MCApiServer ----------------------------
(***************************************************************************)
(* The API server for TLC: each kind of mishap may happen once.            *)
(***************************************************************************)
EXTENDS ApiServer

Once == [k \in MishapKind |-> 1]
=============================================================================
