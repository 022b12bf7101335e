----------------------------- MODULE MCLoadGen -----------------------------
(***************************************************************************)
(* The load generator with more jobs than goroutines, as in the program    *)
(* (300 jobs, 10 goroutines).                                              *)
(***************************************************************************)
EXTENDS LoadGen
=============================================================================
