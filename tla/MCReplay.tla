------------------------------- MODULE MCReplay -------------------------------
(***************************************************************************)
(* Replay for TLC: the constants' values are numbers and stand in the      *)
(* .cfg files, and the inductive invariant is an invariant of the runs.    *)
(***************************************************************************)
EXTENDS ReplayInv
=============================================================================
