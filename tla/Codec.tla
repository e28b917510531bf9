-------------------------------- MODULE Codec --------------------------------
(***************************************************************************)
(* Frames as bytes (proto/frame.rs).  A byte is a digit to Base (256), so  *)
(* that TLC can have integers of two and eight bytes whole.                *)
(***************************************************************************)
EXTENDS Naturals, SequencesExt

CONSTANTS Base,       \* 256
          Magic,      \* HELLO_MAGIC
          MaxOutput,  \* MAX_OUTPUT_BYTES
          MaxRecord   \* MAX_RECORD

\* What two, four and eight bytes can tell apart.
Base2  == Base * Base
Base4  == Base2 * Base2
U64Max == Base4 * Base4 - 1

Byte == 0..(Base - 1)

ASSUME CodecAssumption ==
  Base \in Nat \ {0, 1} /\ Magic \in Seq(Byte) /\ MaxOutput \in Nat /\ MaxRecord \in Nat

Tag == [data |-> 0, resize |-> 1, ping |-> 2, pong |-> 3, ack |-> 4, hello |-> 5,
        ended |-> 6, output |-> 7]

Data(s)         == [type |-> "data", data |-> s]
Output(o, s)    == [type |-> "output", offset |-> o, data |-> s]
Resize(x, y)    == [type |-> "resize", cols |-> x, rows |-> y]
Ack(n)          == [type |-> "ack", offset |-> n]
Bare(t)         == [type |-> t]  \* ping, pong, hello and ended
Bad             == [type |-> "bad"]

\* Big-endian integers of two, four and eight bytes: the high half, then the low.
BE2(n) == <<n \div Base, n % Base>>
BE4(n) == BE2(n \div Base2) \o BE2(n % Base2)
BE8(n) == BE4(n \div Base4) \o BE4(n % Base4)

FromBE2(s) == s[1] * Base + s[2]
FromBE4(s) == FromBE2(SubSeq(s, 1, 2)) * Base2 + FromBE2(SubSeq(s, 3, 4))
FromBE8(s) == FromBE4(SubSeq(s, 1, 4)) * Base4 + FromBE4(SubSeq(s, 5, 8))

Encode(f) ==
  <<Tag[f.type]>> \o CASE f.type = "data"   -> f.data
                       [] f.type = "output" -> BE8(f.offset) \o f.data
                       [] f.type = "resize" -> BE2(f.cols) \o BE2(f.rows)
                       [] f.type = "ack"    -> BE8(f.offset)
                       [] f.type = "hello"  -> Magic
                       [] OTHER             -> << >>

\* A bug: the limit is for the data and the offset together.
DecodeShort(rest) ==
  IF Len(rest) < 8 \/ Len(rest) > MaxOutput THEN Bad
  ELSE Output(FromBE8(SubSeq(rest, 1, 8)), SubSeq(rest, 9, Len(rest)))

\* What follows the type byte of an Output frame.
DecodeOutput(rest) ==
  IF Len(rest) < 8 \/ Len(rest) - 8 > MaxOutput THEN Bad
  ELSE LET o == FromBE8(SubSeq(rest, 1, 8))
           s == SubSeq(rest, 9, Len(rest))
       IN  IF o + Len(s) > U64Max THEN Bad ELSE Output(o, s)

Decode(b) ==
  IF b = << >> THEN Bad
  ELSE LET rest == Tail(b)
       IN  CASE b[1] = Tag.data   -> Data(rest)
             [] b[1] = Tag.output -> DecodeOutput(rest)
             [] b[1] = Tag.resize -> IF Len(rest) # 4 THEN Bad
                                     ELSE Resize(FromBE2(SubSeq(rest, 1, 2)),
                                                 FromBE2(SubSeq(rest, 3, 4)))
             [] b[1] = Tag.ack    -> IF Len(rest) # 8 THEN Bad ELSE Ack(FromBE8(rest))
             [] b[1] = Tag.hello  -> IF rest # Magic THEN Bad ELSE Bare("hello")
             [] b[1] = Tag.ping   -> Bare("ping")
             [] b[1] = Tag.pong   -> Bare("pong")
             [] b[1] = Tag.ended  -> Bare("ended")
             [] OTHER             -> Bad
=============================================================================
