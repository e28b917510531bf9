------------------------------ MODULE ReplayInv ------------------------------
(***************************************************************************)
(* The inductive invariant of Replay.  Its core is a statement about every *)
(* place an Output frame can be: the frames the client has still to commit *)
(* (the one it is working on, those on the wire, the one being written)    *)
(* follow each other from the committed offset to the writer's cursor, and *)
(* a frame leaves a hole before it only where the ring has already dropped *)
(* the bytes.  It also says how far the terminal is at each point of       *)
(* SessionOutput::accept.                                                  *)
(***************************************************************************)
EXTENDS Replay

\* A frame carries the bytes its offset says, of an output of n bytes.
Genuine(f, n) == f.data = Bytes(f.offset, EndOf(f)) /\ EndOf(f) <= n

FramesGenuine ==
  /\ Genuine(cur, taken) /\ Genuine(out, taken)
  /\ \A i \in 1..Len(wire) : Genuine(wire[i], taken)

\* f may come next for a reader at offset e, when the ring starts at s.
Follows(e, f, s) == f.offset >= e /\ (f.offset > e => f.offset <= s)

\* Where the client is after the frame it is working on.
Ahead == IF cli \in Accepting THEN EndOf(cur) ELSE received

\* Where it is after the frames on the wire too.
WireEnd == IF wire = << >> THEN Ahead ELSE EndOf(wire[Len(wire)])

Contiguous ==
  /\ wire # << >> => Follows(Ahead, wire[1], ring.start)
  /\ \A i \in 2..Len(wire) : Follows(EndOf(wire[i - 1]), wire[i], ring.start)
  /\ cli \in Accepting => /\ Follows(received, cur, ring.start)
                          /\ EndOf(cur) > received
  /\ cli = "gap" => cur.offset > received

WriterPlace ==
  /\ cursor <= taken
  /\ srv \in {"top", "read", "check", "wait", "bye"} => cursor = WireEnd
  /\ srv = "send" => Follows(WireEnd, out, ring.start) /\ cursor = EndOf(out)

Handshake ==
  /\ received <= taken
  /\ cli \in {"hello", "auth"} => hello = received
  /\ srv \in {"hello", "auth"} => /\ cli \in {"hello", "auth"} /\ wire = << >>
                             /\ reply # "hello"
  /\ reply # "badoffset" /\ cli # "badoffset"
  /\ reply = "ok" => hello <= replyTotal

\* How far the terminal is: the notice has been written in "write", the data
\* in "flush".
Front == CASE cli = "write" -> cur.offset
           [] cli = "flush" -> EndOf(cur)
           [] OTHER         -> received

TerminalPlace ==
  /\ NoSilentLoss
  /\ cli \notin Stopped => ShownBytes \cup reported = 0..(Front - 1)

Wakeup ==
  ~woken =>
     /\ srv \in {"check", "wait"} /\ cursor < Total(ring)
           => thread["reader"] = "notify"
     /\ srv = "wait" /\ ended => \E t \in Threads : thread[t] = "tell"

IInv == /\ TypeOK
        /\ RetainsTail
        /\ FramesGenuine
        /\ Contiguous
        /\ WriterPlace
        /\ Handshake
        /\ TerminalPlace
        /\ ExactlyOnceInOrder
        /\ HonestGap
        /\ Wakeup
=============================================================================
