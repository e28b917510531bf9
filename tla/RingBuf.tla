------------------------------- MODULE RingBuf -------------------------------
(***************************************************************************)
(* The replay buffer of a session: struct RingBuf of server/session.rs.    *)
(* It keeps the most recent bytes of the PTY's output, indexed by their    *)
(* absolute offset in that output.  A ring is a record: data, the retained *)
(* bytes, and start, the absolute offset of the first of them.             *)
(*                                                                         *)
(* A byte is abstract: the users of this module give each byte the         *)
(* identity that their properties need.                                    *)
(***************************************************************************)
EXTENDS Naturals, Sequences

CONSTANTS RingBytes,       \* cap: the configured ring_bytes, 0 included
          MaxOutputBytes   \* the most data one Output frame carries

ASSUME RingAssumption == /\ RingBytes \in Nat
                         /\ MaxOutputBytes \in Nat \ {0}

Smaller(a, b) == IF a <= b THEN a ELSE b
Larger(a, b) == IF a >= b THEN a ELSE b

EmptyRing == [data |-> << >>, start |-> 0]

Total(r) == r.start + Len(r.data)

\* How many of n buffered bytes do not fit.
Excess(n) == IF n > RingBytes THEN n - RingBytes ELSE 0

\* A bug in append: the bytes are dropped and the start offset is kept.
AppendKeepsStart(r, bytes) ==
  LET all  == r.data \o bytes
      drop == Excess(Len(all))
  IN  [data |-> SubSeq(all, drop + 1, Len(all)), start |-> r.start]

\* Append: extend, then drop what exceeds the cap from the front.
AppendTo(r, bytes) ==
  LET all  == r.data \o bytes
      drop == Excess(Len(all))
  IN  [data |-> SubSeq(all, drop + 1, Len(all)), start |-> r.start + drop]

\* A bug in read_from: the offset asked for is returned, evicted or not.
ReadFromAsAsked(r, offset) ==
  LET from == Larger(offset, r.start)
      idx  == from - r.start
      n    == Smaller(MaxOutputBytes, Len(r.data) - idx)
  IN  IF offset >= Total(r) THEN [offset |-> Total(r), data |-> << >>]
      ELSE [offset |-> offset, data |-> SubSeq(r.data, idx + 1, idx + n)]

\* A bounded chunk at or after offset, with the offset it really starts at.
ReadFrom(r, offset) ==
  LET from == Larger(offset, r.start)
      idx  == from - r.start
      n    == Smaller(MaxOutputBytes, Len(r.data) - idx)
  IN  IF offset >= Total(r) THEN [offset |-> Total(r), data |-> << >>]
      ELSE [offset |-> from, data |-> SubSeq(r.data, idx + 1, idx + n)]
=============================================================================
