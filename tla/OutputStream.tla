----------------------------- MODULE OutputStream -----------------------------
(***************************************************************************)
(* What thther promises about a session's output, with no buffer, no       *)
(* network and no threads in it (README.md: "exact resume within the       *)
(* retained output history", "Missing history is reported"):               *)
(*                                                                         *)
(*   - a terminal is shown the session's bytes in order, each at most      *)
(*     once, and never one the shell has not produced;                     *)
(*   - a byte may be left out only when it is no longer among the last     *)
(*     Retained bytes, and then the terminal is told so, in its place.     *)
(*                                                                         *)
(* A byte is identified with its offset in the session's output.           *)
(***************************************************************************)
EXTENDS Naturals, Sequences

CONSTANT Retained        \* how many of the latest bytes are kept for replay

VARIABLES produced,      \* how many bytes of output the session has
          shown,         \* the bytes on the terminal, in the order displayed
          reported       \* the offsets the terminal was told are unavailable

streamVars == <<produced, shown, reported>>

ShownBytes == {shown[i] : i \in 1..Len(shown)}

\* Every offset below n, and no other, is on the terminal or reported missing.
AccountedTo(n) == ShownBytes \cup reported = 0..(n - 1)

Forgotten == IF produced > Retained THEN produced - Retained ELSE 0

Init == produced = 0 /\ shown = << >> /\ reported = {}

\* The shell writes.
Produce ==
  /\ produced' > produced
  /\ UNCHANGED <<shown, reported>>

\* The next bytes reach the terminal.
Show ==
  \E lo \in 0..produced : \E hi \in lo..produced :
     /\ AccountedTo(lo)
     /\ shown' = shown \o [i \in 1..(hi - lo) |-> lo + i - 1]
     /\ UNCHANGED <<produced, reported>>

\* The next bytes are gone, and the terminal is told.
Report ==
  \E lo \in 0..Forgotten : \E hi \in lo..Forgotten :
     /\ AccountedTo(lo)
     /\ reported' = reported \cup lo..(hi - 1)
     /\ UNCHANGED <<produced, shown>>

\* The user attaches from a new client process, on a terminal of its own.
NewTerminal ==
  /\ shown' = << >>
  /\ reported' = {}
  /\ UNCHANGED produced

Next == Produce \/ Show \/ Report \/ NewTerminal

Spec == Init /\ [][Next]_streamVars
=============================================================================
