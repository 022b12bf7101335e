------------------------------- MODULE Faults -------------------------------
(***************************************************************************)
(* The faults of the environment the queue runs in.  Each kind of fault    *)
(* has a budget; an action that needs a fault spends one of its kind.      *)
(* Budgets are finite because a deployment in which, say, the database     *)
(* fails for ever makes no promise at all; they are constants, so that a   *)
(* run can forbid a kind of fault and a theorem holds for every budget.    *)
(*                                                                         *)
(*   "crash"     a worker process dies between two of its steps            *)
(*   "sigterm"   a worker process receives SIGINT or SIGTERM               *)
(*   "db"        a PostgreSQL call of a worker fails, with an error        *)
(*   "insert"    the INSERT of a job reports an error, applied or not      *)
(*   "redis"     a Redis call of a worker fails, or its reply is lost      *)
(*   "redisLoss" Redis restarts without its data (its pod has no volume)   *)
(*   "enqueue"   XADD fails for good, the handler sees an error            *)
(*   "dup"       XADD is applied, its reply is lost, the client library    *)
(*               sends it again                                            *)
(*   "abort"     the request's context ends between INSERT and XADD: the   *)
(*               client went away, or the API process died                 *)
(*   "late"      a stream entry stays un-acknowledged for minIdleTime      *)
(*               although the worker that holds it is alive and at work    *)
(***************************************************************************)
EXTENDS Integers

CONSTANT FaultBudget

FaultKind == {"crash", "sigterm", "db", "insert", "redis", "redisLoss",
              "enqueue", "dup", "abort", "late"}

ASSUME BudgetAssumption == FaultBudget \in [FaultKind -> Nat]

VARIABLE faultsLeft

FaultsTypeOK == faultsLeft \in [FaultKind -> Nat]

FaultsInit == faultsLeft = FaultBudget

Fault(k) ==
    /\ faultsLeft[k] > 0
    /\ faultsLeft' = [faultsLeft EXCEPT ![k] = @ - 1]

NoFault == UNCHANGED faultsLeft

Spent(k) == FaultBudget[k] - faultsLeft[k]

Unspent(k) == Spent(k) = 0
=============================================================================
