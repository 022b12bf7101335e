----------------------------- MODULE MCStartup -----------------------------
(***************************************************************************)
(* The migration for TLC: a restart of the database may lose its files.    *)
(***************************************************************************)
EXTENDS Startup

EitherWay == BOOLEAN
=============================================================================
