------------------------------ MODULE MCControl ------------------------------
(***************************************************************************)
(* Control for TLC: requests and ids are model values.                     *)
(***************************************************************************)
EXTENDS Control

CONSTANTS q1, q2, q3, i1, i2

MCRequests == {q1, q2, q3}
MCIds      == {i1, i2}
MCPorts    == {None, 1, 2}

\* A wrapper around what an agent sends, right or wrong, or none.
MCOuter == {<< >>} \cup {<<OnPort(p)>> : p \in {1, 2}} \cup {<<OnProtocol(v)>> : v \in Versions}
=============================================================================
