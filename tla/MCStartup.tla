------------------------------ MODULE MCStartup ------------------------------
(***************************************************************************)
(* Startup for TLC: agents are model values.                               *)
(***************************************************************************)
EXTENDS Startup

CONSTANTS a1, a2, a3

MCAgents   == {a1, a2, a3}
MCCreators == {a1, a2}

\* No port configured, and a range that is free but for its first port, wholly
\* taken, or invalid; a port that is taken, and one that is free.
MCConfigs ==
  {[port |-> 0, lo |-> 1, hi |-> 3], [port |-> 0, lo |-> 1, hi |-> 1],
   [port |-> 0, lo |-> 3, hi |-> 2], [port |-> 1, lo |-> 1, hi |-> 3],
   [port |-> 2, lo |-> 1, hi |-> 3]}
=============================================================================
