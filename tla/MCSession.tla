------------------------------ MODULE MCSession ------------------------------
(***************************************************************************)
(* SessionState for TLC: client processes are model values.                *)
(***************************************************************************)
EXTENDS SessionState

CONSTANTS u1, u2

MCCreator  == u1
MCTwo      == {u1, u2}
MCAlone    == {u1}
=============================================================================
