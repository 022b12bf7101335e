------------------------------ MODULE MCSystem ------------------------------
(***************************************************************************)
(* The whole back end for TLC: any mishap at the server once, and some of  *)
(* the faults that may strike a worker.                                    *)
(***************************************************************************)
EXTENDS System

Once == [k \in MishapKind |-> 1]
CrewFaults == [k \in Kinds |-> IF k \in {"crash", "db", "redisLoss"} THEN 1 ELSE 0]
=============================================================================
