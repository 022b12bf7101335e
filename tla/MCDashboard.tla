---------------------------- MODULE MCDashboard ----------------------------
(***************************************************************************)
(* The dashboard for TLC: three list requests overlap, one follows a POST. *)
(***************************************************************************)
EXTENDS Dashboard
=============================================================================
