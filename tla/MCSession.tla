----------------------------- MODULE MCSession -----------------------------
(***************************************************************************)
(* Two tabs for TLC: in one of them an old request may be in flight while  *)
(* a login is, the other only opens the application and logs out.          *)
(***************************************************************************)
EXTENDS Session

TwoTabs == {"a", "b"}
TwoCalls == {<<"a", 1>>, <<"a", 2>>}
=============================================================================
