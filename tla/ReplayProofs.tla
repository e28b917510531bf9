----------------------------- MODULE ReplayProofs -----------------------------
(***************************************************************************)
(* The safety of Replay, for every size of the ring, of a frame, of the    *)
(* reads and of the socket, and every number of bytes, losses and clients. *)
(***************************************************************************)
EXTENDS ReplayLemmas

\* The tuples that UNCHANGED names are always looked into.
USE DEF ptyVars, sessionVars, writerVars, linkVars, clientVars, boundVars,
        writerFrame, clientFrame

-----------------------------------------------------------------------------
(* Which steps change what.                                                *)

\* The client leaves a connection, in one of the ways that end it.
Leaves == \/ ClientRejected \/ HandshakeFails \/ DialFails \/ OutputFails
          \/ ReaderStops \/ ReaderDisconnected \/ ReaderEnded
          \/ Killed \/ Attach

\* The steps of Next, by name.
LEMMA Steps ==
  ASSUME Next
  PROVE  \/ ShellWrites \/ ShellExits \/ SlavesClose
         \/ ReaderAppends \/ ReaderNotifies
         \/ \E t \in Threads : MarkEnded(t)
         \/ \E t \in Threads : Tell(t)
         \/ ServerHello \/ ServerAuth
         \/ WriterTop \/ WriterRead \/ WriterSend \/ WriterCheck
         \/ WriterBye \/ WriterWakes \/ WriterTicks \/ ServerLeaves
         \/ Dial \/ ClientHello \/ ClientEnter \/ Cut
         \/ ClientFrame \/ ClientNotice \/ ClientWrite \/ ClientCommit
         \/ \E o \in {"detached", "disconnected"} : WriterStops(o)
         \/ Leaves
BY DEF Next, Shell, ThreadStep, ServerStep, ClientStep, Environment, Leaves

USE DEF ShellWrites, ShellExits, SlavesClose, ReaderAppends, ReaderNotifies,
   MarkEnded, Tell, ServerHello, ServerAuth, WriterTop, WriterRead, WriterSend,
   WriterCheck, WriterBye, WriterWakes, WriterTicks, ServerLeaves, Dial,
   ClientHello, ClientEnter, Cut, ClientFrame, ClientNotice, ClientWrite,
   ClientCommit, WriterStops, Leaves, ClientRejected, HandshakeFails, DialFails,
   OutputFails, ReaderStops, ReaderDisconnected, ReaderEnded, Killed, Attach,
   HangUp, TaskGone

LEMMA PtySteps ==
  ASSUME Next
  PROVE  ShellWrites \/ ShellExits \/ SlavesClose \/ UNCHANGED ptyVars
BY Steps

LEMMA RingSteps ==
  ASSUME Next
  PROVE  ReaderAppends \/ UNCHANGED <<taken, ring>>
BY Steps

LEMMA ThreadSteps ==
  ASSUME Next
  PROVE  \/ ReaderAppends \/ ReaderNotifies
         \/ \E t \in Threads : MarkEnded(t)
         \/ \E t \in Threads : Tell(t)
         \/ UNCHANGED sessionVars
BY Steps

\* The steps of the server's task, and those that begin and end it.
LEMMA WriterSteps ==
  ASSUME Next
  PROVE  \/ ServerHello \/ ServerAuth
         \/ WriterTop \/ WriterRead \/ WriterSend \/ WriterCheck
         \/ WriterBye \/ WriterWakes \/ WriterTicks \/ ServerLeaves
         \/ Dial \/ Cut \/ Leaves
         \/ UNCHANGED <<srv, cursor, out>>
BY Steps

LEMMA WokenSteps ==
  ASSUME Next
  PROVE  \/ ReaderNotifies
         \/ \E t \in Threads : Tell(t)
         \/ WriterTop \/ Cut \/ Leaves
         \/ UNCHANGED woken
BY Steps

LEMMA WireSteps ==
  ASSUME Next
  PROVE  \/ WriterSend \/ WriterBye \/ Cut \/ Dial \/ ClientFrame \/ Leaves
         \/ UNCHANGED wire
BY Steps

LEMMA HandshakeSteps ==
  ASSUME Next
  PROVE  \/ ServerHello \/ ServerAuth \/ Dial \/ Cut \/ Leaves
         \/ UNCHANGED <<link, hello, reply, replyTotal>>
BY Steps

LEMMA ClientSteps ==
  ASSUME Next
  PROVE  \/ Dial \/ ClientHello \/ ClientEnter
         \/ ClientFrame \/ ClientNotice \/ ClientWrite \/ ClientCommit
         \/ \E o \in {"detached", "disconnected"} : WriterStops(o)
         \/ Leaves
         \/ UNCHANGED clientVars
BY Steps

LEMMA BoundSteps ==
  ASSUME Next, cuts \in 0..MaxCuts, clients \in 1..MaxClients
  PROVE  cuts' \in 0..MaxCuts /\ clients' \in 1..MaxClients
<1>1. \/ UNCHANGED boundVars
      \/ cuts < MaxCuts /\ cuts' = cuts + 1 /\ clients' = clients
      \/ clients < MaxClients /\ clients' = clients + 1 /\ cuts' = cuts
  BY Steps
<1> QED BY <1>1, ReplayAssumption

\* What is left when the client leaves a connection.
LEMMA Leaving ==
  ASSUME Leaves
  PROVE  /\ srv' = "none" /\ cursor' = 0 /\ out' = NoFrame /\ woken' = FALSE
         /\ link' = "down" /\ wire' = << >>
         /\ hello' = 0 /\ reply' = "none" /\ replyTotal' = 0
         /\ cur' = NoFrame /\ stop' = "none"
         /\ cli' \in Stopped \cup {"dial"}
         /\ UNCHANGED <<ptyVars, sessionVars>>
BY DEF Stopped, AfterError

HIDE DEF ShellWrites, ShellExits, SlavesClose, ReaderAppends, ReaderNotifies,
   MarkEnded, Tell, ServerHello, ServerAuth, WriterTop, WriterRead, WriterSend,
   WriterCheck, WriterBye, WriterWakes, WriterTicks, ServerLeaves, Dial,
   ClientHello, ClientEnter, Cut, ClientFrame, ClientNotice, ClientWrite,
   ClientCommit, WriterStops, Leaves, ClientRejected, HandshakeFails, DialFails,
   OutputFails, ReaderStops, ReaderDisconnected, ReaderEnded, Killed, Attach,
   HangUp, TaskGone

-----------------------------------------------------------------------------
(* Types.                                                                  *)

LEMMA NoFrameType == NoFrame \in Frame /\ EndOf(NoFrame) = 0
BY EmptySeq DEF NoFrame, OutputFrame, Frame, EndOf

LEMMA PtyTypeStep ==
  ASSUME PtyType, Next
  PROVE  PtyType'
<1> USE DEF PtyType
<1>1. CASE ShellWrites
  BY <1>1 DEF ShellWrites
<1>2. CASE ShellExits
  BY <1>2 DEF ShellExits
<1>3. CASE SlavesClose
  BY <1>3 DEF SlavesClose
<1>4. CASE UNCHANGED ptyVars
  BY <1>4
<1> QED BY <1>1, <1>2, <1>3, <1>4, PtySteps

\* The reader thread's next read.
LEMMA ReaderRead ==
  ASSUME PtyType, SessionType, RetainsTail, ReaderAppends
  PROVE  /\ taken' \in Nat /\ taken < taken'
         /\ ring' = LastBytes(taken')
<1>1. PICK n \in 1..Smaller(MaxRead, written - taken) :
         /\ ring' = AppendTo(ring, Bytes(taken, taken + n))
         /\ taken' = taken + n
  BY DEF ReaderAppends
<1>2. n \in Nat /\ n > 0 /\ taken \in Nat
  BY ReplayAssumption DEF Smaller, PtyType, SessionType
<1>3. AppendTo(LastBytes(taken), Bytes(taken, taken + n)) = LastBytes(taken + n)
  <2>1. taken + n \in Nat /\ taken <= taken + n
    BY <1>2
  <2> QED BY <1>2, <2>1, AppendToLastBytes
<1> QED BY <1>1, <1>2, <1>3 DEF RetainsTail

\* The ring holds the last bytes of what was read, and never drops fewer.
LEMMA RetainsTailStep ==
  ASSUME PtyType, SessionType, RetainsTail, Next
  PROVE  /\ RetainsTail' /\ taken <= taken'
         /\ ring.start <= ring'.start
<1>1. CASE ReaderAppends
  <2>1. taken \in Nat /\ taken' \in Nat /\ taken < taken' /\ ring' = LastBytes(taken')
    BY <1>1, ReaderRead DEF SessionType
  <2>2. Excess(taken) <= Excess(taken')
    BY <2>1, ExcessMonotone
  <2>3. ring.start = Excess(taken) /\ ring'.start = Excess(taken')
    BY <2>1 DEF RetainsTail, LastBytes
  <2> QED BY <2>1, <2>2, <2>3 DEF RetainsTail
<1>2. CASE UNCHANGED <<taken, ring>>
  BY <1>2 DEF RetainsTail, SessionType
<1> QED BY <1>1, <1>2, RingSteps

LEMMA SessionTypeStep ==
  ASSUME PtyType, SessionType, RetainsTail, Next
  PROVE  SessionType'
<1>1. CASE ReaderAppends
  <2>1. taken' \in Nat /\ ring' = LastBytes(taken')
    BY <1>1, ReaderRead
  <2>2. ring' \in [data : Seq(Nat), start : Nat] /\ Len(ring'.data) <= RingBytes
    BY <2>1, LastBytesType
  <2>3. /\ thread' \in [Threads -> {"run", "notify", "tell", "done"}]
        /\ ended' \in BOOLEAN
    BY <1>1 DEF ReaderAppends, SessionType, Threads
  <2> QED BY <2>1, <2>2, <2>3 DEF SessionType
<1>2. CASE ReaderNotifies
  BY <1>2 DEF ReaderNotifies, SessionType, Threads
<1>3. ASSUME NEW t \in Threads, MarkEnded(t) PROVE SessionType'
  <2>1. thread' \in [Threads -> {"run", "notify", "tell", "done"}]
    BY <1>3 DEF MarkEnded, SessionType
  <2> QED BY <1>3, <2>1 DEF MarkEnded, SessionType
<1>4. ASSUME NEW t \in Threads, Tell(t) PROVE SessionType'
  BY <1>4 DEF Tell, SessionType
<1>5. CASE UNCHANGED sessionVars
  BY <1>5 DEF SessionType
<1> QED BY <1>1, <1>2, <1>3, <1>4, <1>5, ThreadSteps

\* What server_writer makes of the ring: the next frame, or nothing to send.
LEMMA NextFrame ==
  ASSUME SessionType, WriterType, RetainsTail, cursor <= taken, WriterRead
  PROVE  \/ /\ srv' = "check" /\ cursor = taken
            /\ UNCHANGED <<cursor, out>>
         \/ \E o \in Nat : \E e \in Nat :
               /\ srv' = "send" /\ cursor' = e
               /\ out' = OutputFrame(o, Bytes(o, e))
               /\ cursor <= o /\ o <= e /\ e <= taken
               /\ o > cursor => o <= ring.start
<1>1. taken \in Nat /\ cursor \in Nat /\ ring = LastBytes(taken)
  BY DEF SessionType, WriterType, RetainsTail
<1>2. PICK o \in Nat : \E e \in Nat :
         /\ ReadFrom(ring, cursor) = [offset |-> o, data |-> Bytes(o, e)]
         /\ cursor <= o /\ o <= e /\ e <= taken
         /\ o > cursor => o <= Excess(taken)
         /\ cursor < taken => cursor < o \/ o < e
  BY <1>1, ReadFromLastBytes
<1>3. PICK e \in Nat :
         /\ ReadFrom(ring, cursor) = [offset |-> o, data |-> Bytes(o, e)]
         /\ cursor <= o /\ o <= e /\ e <= taken
         /\ o > cursor => o <= Excess(taken)
         /\ cursor < taken => cursor < o \/ o < e
  BY <1>2
<1>4. Bytes(o, e) = << >> => o = e
  <2>1. Bytes(o, e) \in Seq(Nat) /\ Len(Bytes(o, e)) = e - o
    BY <1>3, BytesType
  <2>2. Bytes(o, e) = << >> => Len(Bytes(o, e)) = 0
    BY EmptySeq
  <2> QED BY <2>1, <2>2, <1>3
<1>5. ring.start = Excess(taken)
  BY <1>1 DEF LastBytes
<1>6. EndOf(OutputFrame(o, Bytes(o, e))) = e
  BY <1>3, RunFrame
<1>7. CASE Bytes(o, e) # << >> \/ o > cursor
  <2>1. /\ srv' = "send" /\ out' = OutputFrame(o, Bytes(o, e))
        /\ cursor' = EndOf(out')
    BY <1>3, <1>7 DEF WriterRead
  <2> QED BY <2>1, <1>3, <1>5, <1>6
<1>8. CASE ~(Bytes(o, e) # << >> \/ o > cursor)
  <2>1. srv' = "check" /\ UNCHANGED <<cursor, out>>
    BY <1>3, <1>8 DEF WriterRead
  <2>2. cursor = taken
    BY <1>1, <1>3, <1>4, <1>8
  <2> QED BY <2>1, <2>2
<1> QED BY <1>7, <1>8

LEMMA WriterTypeStep ==
  ASSUME SessionType, WriterType, LinkType, RetainsTail, cursor <= taken, Next
  PROVE  WriterType'
<1>1. srv' \in {"none", "hello", "auth", "top", "read", "send", "check", "wait",
                "bye", "closed"} /\ cursor' \in Nat /\ out' \in Frame
  <2> USE DEF WriterType
  <2>1. CASE ServerHello
    BY <2>1 DEF ServerHello
  <2>2. CASE ServerAuth
    BY <2>2 DEF ServerAuth, LinkType
  <2>3. CASE WriterTop \/ WriterCheck \/ WriterBye \/ WriterWakes \/ WriterTicks
    BY <2>3 DEF WriterTop, WriterCheck, WriterBye, WriterWakes, WriterTicks
  <2>4. CASE WriterRead
    <3>1. CASE srv' = "check" /\ UNCHANGED <<cursor, out>>
      BY <3>1
    <3>2. ASSUME NEW o \in Nat, NEW e \in Nat, o <= e, srv' = "send",
                 cursor' = e, out' = OutputFrame(o, Bytes(o, e))
          PROVE  srv' = "send" /\ cursor' \in Nat /\ out' \in Frame
      BY <3>2, RunFrame
    <3> QED BY <2>4, <3>1, <3>2, NextFrame
  <2>5. CASE WriterSend \/ ServerLeaves
    BY <2>5, NoFrameType DEF WriterSend, ServerLeaves
  <2>6. CASE Dial \/ Cut
    BY <2>6, NoFrameType DEF Dial, Cut, TaskGone
  <2>7. CASE Leaves
    BY <2>7, Leaving, NoFrameType
  <2>8. CASE UNCHANGED <<srv, cursor, out>>
    BY <2>8
  <2> QED BY <2>1, <2>2, <2>3, <2>4, <2>5, <2>6, <2>7, <2>8, WriterSteps
<1>2. woken' \in BOOLEAN
  <2>1. CASE ReaderNotifies
    BY <2>1 DEF ReaderNotifies
  <2>2. ASSUME NEW t \in Threads, Tell(t) PROVE woken' \in BOOLEAN
    BY <2>2 DEF Tell
  <2>3. CASE WriterTop \/ Cut
    BY <2>3 DEF WriterTop, Cut, TaskGone
  <2>4. CASE Leaves
    BY <2>4, Leaving
  <2>5. CASE UNCHANGED woken
    BY <2>5 DEF WriterType
  <2> QED BY <2>1, <2>2, <2>3, <2>4, <2>5, WokenSteps
<1> QED BY <1>1, <1>2 DEF WriterType

\* A lost connection leaves the first n frames.
LEMMA WireLeft ==
  ASSUME LinkType, NEW n \in 0..Len(wire)
  PROVE  /\ SubSeq(wire, 1, n) \in Seq(Frame) /\ Len(SubSeq(wire, 1, n)) = n
         /\ \A i \in 1..n : SubSeq(wire, 1, n)[i] = wire[i]
<1>1. wire \in Seq(Frame) /\ Len(wire) \in Nat
  BY LenProperties DEF LinkType
<1>2. n \in Nat /\ n <= Len(wire)
  BY <1>1
<1>3. /\ SubSeq(wire, 1, n) \in Seq(Frame)
      /\ Len(SubSeq(wire, 1, n)) = IF 1 <= n THEN n - 1 + 1 ELSE 0
      /\ \A i \in 1..(n - 1 + 1) : SubSeq(wire, 1, n)[i] = wire[1 + i - 1]
  BY <1>1, <1>2, PartType
<1> QED BY <1>2, <1>3

\* A frame is written.
LEMMA WireGrows ==
  ASSUME LinkType, NEW f \in Frame, Len(wire) < MaxWire
  PROVE  /\ Append(wire, f) \in Seq(Frame) /\ Len(Append(wire, f)) = Len(wire) + 1
         /\ Append(wire, f) # << >>
         /\ Len(Append(wire, f)) <= MaxWire
         /\ \A i \in 1..Len(wire) : Append(wire, f)[i] = wire[i]
         /\ Append(wire, f)[Len(wire) + 1] = f
<1>1. wire \in Seq(Frame) /\ Len(wire) \in Nat
  BY LenProperties DEF LinkType
<1>2. /\ Append(wire, f) \in Seq(Frame) /\ Len(Append(wire, f)) = Len(wire) + 1
      /\ Append(wire, f) # << >>
      /\ \A i \in 1..Len(wire) : Append(wire, f)[i] = wire[i]
      /\ Append(wire, f)[Len(wire) + 1] = f
  BY <1>1, AppendProperties
<1> QED BY <1>1, <1>2, ReplayAssumption

LEMMA LinkTypeStep ==
  ASSUME TypeOK, Next
  PROVE  LinkType'
<1> USE DEF TypeOK
<1>1. wire' \in Seq(Frame) /\ Len(wire') <= MaxWire
  <2>0. wire \in Seq(Frame) /\ Len(wire) \in Nat /\ Len(wire) <= MaxWire
    BY LenProperties DEF LinkType
  <2>00. << >> \in Seq(Frame) /\ Len(<< >>) = 0
    BY EmptySeq
  <2>1. CASE WriterSend
    <3>1. out \in Frame
      BY DEF WriterType
    <3>2. Len(wire) < MaxWire /\ wire' = Append(wire, out)
      BY <2>1 DEF WriterSend
    <3> DEFINE w == Append(wire, out)
    <3>3. w \in Seq(Frame) /\ Len(w) <= MaxWire
      BY <3>1, <3>2, WireGrows
    <3>4. wire' = w
      BY <3>2
    <3> HIDE DEF w
    <3> QED BY <3>3, <3>4
  <2>2. CASE WriterBye
    <3> DEFINE f == EndedFrame(cursor)
    <3>1. f \in Frame
      BY EmptySeq DEF EndedFrame, Frame, WriterType
    <3>2. Len(wire) < MaxWire /\ wire' = Append(wire, f)
      BY <2>2 DEF WriterBye
    <3> HIDE DEF f
    <3> DEFINE w == Append(wire, f)
    <3>3. w \in Seq(Frame) /\ Len(w) <= MaxWire
      BY <3>1, <3>2, WireGrows
    <3>4. wire' = w
      BY <3>2
    <3> HIDE DEF w
    <3> QED BY <3>3, <3>4
  <2>3. CASE Cut
    <3>1. CASE wire' = << >>
      BY <3>1, <2>00, ReplayAssumption
    <3>2. CASE \E n \in 0..Len(wire) : wire' = SubSeq(wire, 1, n)
      <4>1. PICK n \in 0..Len(wire) : wire' = SubSeq(wire, 1, n)
        BY <3>2
      <4>2. SubSeq(wire, 1, n) \in Seq(Frame) /\ Len(SubSeq(wire, 1, n)) = n
        BY WireLeft
      <4> QED BY <4>1, <4>2, <2>0, ReplayAssumption
    <3>3. wire' = << >> \/ \E n \in 0..Len(wire) : wire' = SubSeq(wire, 1, n)
      BY <2>3, Zenon DEF Cut
    <3> QED BY <3>1, <3>2, <3>3, Zenon
  <2>4. CASE Dial \/ Leaves
    <3>1. wire' = << >>
      BY <2>4, Leaving DEF Dial
    <3> QED BY <3>1, <2>00, ReplayAssumption
  <2>5. CASE ClientFrame
    <3>1. wire # << >> /\ wire' = Tail(wire)
      BY <2>5 DEF ClientFrame
    <3>2. wire' \in Seq(Frame) /\ Len(wire') = Len(wire) - 1
      BY <3>1, <2>0, HeadTailProperties
    <3> QED BY <3>2, <2>0, ReplayAssumption
  <2>6. CASE UNCHANGED wire
    BY <2>6, <2>0
  <2> QED BY <2>1, <2>2, <2>3, <2>4, <2>5, <2>6, WireSteps
<1>2. /\ link' \in {"down", "up", "cut"} /\ hello' \in Nat /\ replyTotal' \in Nat
      /\ reply' \in {"none", "ok", "hello", "nosession", "badoffset"}
  <2> USE DEF LinkType
  <2>1. CASE ServerHello
    <3>1. Total(ring) \in Nat
      BY LenProperties DEF SessionType, Total
    <3> QED BY <2>1, <3>1 DEF ServerHello
  <2>2. CASE ServerAuth
    BY <2>2 DEF ServerAuth
  <2>3. CASE Dial
    BY <2>3 DEF Dial, ClientType
  <2>4. CASE Cut
    BY <2>4 DEF Cut
  <2>5. CASE Leaves
    BY <2>5, Leaving
  <2>6. CASE UNCHANGED <<link, hello, reply, replyTotal>>
    BY <2>6
  <2> QED BY <2>1, <2>2, <2>3, <2>4, <2>5, <2>6, HandshakeSteps
<1> QED BY <1>1, <1>2 DEF LinkType

LEMMA EndOfType ==
  ASSUME NEW f \in Frame
  PROVE  EndOf(f) \in Nat /\ f.offset \in Nat /\ f.offset <= EndOf(f)
<1>1. f.offset \in Nat /\ f.data \in Seq(Nat)
  BY DEF Frame
<1> QED BY <1>1, LenProperties DEF EndOf

LEMMA ClientTypeStep ==
  ASSUME TypeOK, Next
  PROVE  ClientType'
<1> USE DEF TypeOK
<1>1. CASE Dial \/ ClientHello \/ ClientEnter
  BY <1>1 DEF Dial, ClientHello, ClientEnter, ClientType, Connected
<1>2. CASE ClientFrame
  <2>1. Head(wire) \in Frame
    BY <1>2, HeadTailProperties DEF ClientFrame, LinkType
  <2>2. cur' = Head(wire) /\ cli' \in Connected
    BY <1>2 DEF ClientFrame, Connected, Accepting
  <2> QED BY <1>2, <2>1, <2>2 DEF ClientFrame, ClientType
<1>3. CASE ClientNotice
  <2>1. cur.offset \in Nat /\ received \in Nat
    BY EndOfType DEF ClientType
  <2>2. received..(cur.offset - 1) \in SUBSET Nat
    BY <2>1
  <2> QED BY <1>3, <2>2 DEF ClientNotice, ClientType, Connected, Accepting
<1>4. CASE ClientWrite
  <2>1. Fresh \in Seq(Nat)
    BY FreshLength DEF ClientType
  <2>2. shown' \in Seq(Nat)
    BY <1>4, <2>1, ConcatProperties DEF ClientWrite, ClientType
  <2> QED BY <1>4, <2>2 DEF ClientWrite, ClientType, Connected, Accepting
<1>5. CASE ClientCommit
  BY <1>5, EndOfType, NoFrameType DEF ClientCommit, ClientType, Connected
<1>6. ASSUME NEW o \in {"detached", "disconnected"}, WriterStops(o) PROVE ClientType'
  BY <1>6 DEF WriterStops, ClientType
<1>7. CASE Leaves
  <2>1. /\ cur' \in Frame /\ stop' = "none" /\ cli' \in Stopped \cup {"dial"}
    BY <1>7, Leaving, NoFrameType
  <2>2. /\ established' \in BOOLEAN /\ received' \in Nat
        /\ shown' \in Seq(Nat) /\ reported' \in SUBSET Nat
    <3> USE DEF ClientType
    <3>1. CASE ClientRejected \/ HandshakeFails \/ DialFails \/ ReaderEnded \/ Killed
      BY <3>1 DEF ClientRejected, HandshakeFails, DialFails, ReaderEnded, Killed
    <3>2. CASE ReaderStops \/ ReaderDisconnected
      BY <3>2 DEF ReaderStops, ReaderDisconnected
    <3>3. CASE Attach
      BY <3>3, EmptySeq DEF Attach
    <3>4. CASE OutputFails
      <4>1. PICK n \in 0..(IF cli = "write" THEN Len(Fresh) ELSE 0) :
              shown' = shown \o SubSeq(Fresh, 1, n)
        BY <3>4 DEF OutputFails
      <4>2. n \in 0..Len(Fresh)
        BY <4>1, FreshLength
      <4>3. SubSeq(Fresh, 1, n) \in Seq(Nat)
        BY <4>2, FreshType
      <4>4. shown' \in Seq(Nat)
        BY <4>1, <4>3, ConcatProperties
      <4> QED BY <3>4, <4>4 DEF OutputFails
    <3> QED BY <1>7, <3>1, <3>2, <3>3, <3>4 DEF Leaves
  <2> QED BY <2>1, <2>2 DEF ClientType
<1>8. CASE UNCHANGED clientVars
  BY <1>8 DEF ClientType
<1> QED BY <1>1, <1>2, <1>3, <1>4, <1>5, <1>6, <1>7, <1>8, ClientSteps

LEMMA TypeStep ==
  ASSUME IInv, Next
  PROVE  TypeOK'
<1>1. PtyType' /\ SessionType' /\ WriterType'
  BY PtyTypeStep, SessionTypeStep, WriterTypeStep DEF IInv, TypeOK, WriterPlace
<1>2. LinkType' /\ ClientType'
  BY LinkTypeStep, ClientTypeStep DEF IInv
<1>3. cuts' \in 0..MaxCuts /\ clients' \in 1..MaxClients
  BY BoundSteps DEF IInv, TypeOK
<1> QED BY <1>1, <1>2, <1>3 DEF TypeOK

\* What every step does to the session's output: it grows, and so does what
\* the ring has dropped of it.
LEMMA Growth ==
  ASSUME IInv, Next
  PROVE  /\ RetainsTail'
         /\ taken \in Nat /\ taken' \in Nat /\ taken <= taken'
         /\ ring.start \in Nat /\ ring'.start \in Nat /\ ring.start <= ring'.start
<1>1. RetainsTail' /\ taken <= taken' /\ ring.start <= ring'.start
  BY RetainsTailStep DEF IInv, TypeOK
<1>2. SessionType'
  BY TypeStep DEF TypeOK
<1> QED BY <1>1, <1>2 DEF IInv, TypeOK, SessionType

-----------------------------------------------------------------------------
(* The frames are genuine.                                                 *)

LEMMA RunFrameGenuine ==
  ASSUME NEW n \in Nat, NEW o \in Nat, NEW e \in Nat, o <= e, e <= n
  PROVE  Genuine(OutputFrame(o, Bytes(o, e)), n)
BY RunFrame DEF Genuine

LEMMA EndedFrameGenuine ==
  ASSUME NEW n \in Nat, NEW o \in Nat, o <= n
  PROVE  Genuine(EndedFrame(o), n) /\ EndOf(EndedFrame(o)) = o
<1>1. EndedFrame(o).offset = o /\ EndedFrame(o).data = << >>
  BY DEF EndedFrame
<1>2. EndOf(EndedFrame(o)) = o
  BY <1>1, EmptySeq DEF EndOf
<1> QED BY <1>1, <1>2, BytesEmpty DEF Genuine

LEMMA NoFrameGenuine ==
  ASSUME NEW n \in Nat
  PROVE  Genuine(NoFrame, n)
<1>1. NoFrame.offset = 0 /\ NoFrame.data = << >>
  BY DEF NoFrame, OutputFrame
<1> QED BY <1>1, NoFrameType, BytesEmpty DEF Genuine

\* The frames on the wire after a step: those that were there, except the
\* first or the last of them, and the one being written.
LEMMA WireFrames ==
  ASSUME IInv, Next, NEW i \in 1..Len(wire')
  PROVE  \/ \E j \in 1..Len(wire) : wire'[i] = wire[j]
         \/ wire'[i] = out
         \/ wire'[i] = EndedFrame(cursor)
<1>0. wire \in Seq(Frame) /\ Len(wire) \in Nat /\ LinkType
  BY LenProperties DEF IInv, TypeOK, LinkType
<1>1. CASE WriterSend
  <2>1. out \in Frame /\ Len(wire) < MaxWire /\ wire' = Append(wire, out)
    BY <1>1 DEF WriterSend, IInv, TypeOK, WriterType
  <2> DEFINE w == Append(wire, out)
  <2>2. /\ Len(w) = Len(wire) + 1 /\ w[Len(wire) + 1] = out
        /\ \A j \in 1..Len(wire) : w[j] = wire[j]
    BY <2>1, <1>0, WireGrows
  <2>3. wire' = w
    BY <2>1
  <2> HIDE DEF w
  <2> QED BY <2>2, <2>3, <1>0
<1>2. CASE WriterBye
  <2> DEFINE f == EndedFrame(cursor)
             w == Append(wire, f)
  <2>1. f \in Frame
    BY EmptySeq DEF EndedFrame, Frame, IInv, TypeOK, WriterType
  <2>2. Len(wire) < MaxWire /\ wire' = w
    BY <1>2 DEF WriterBye
  <2>3. /\ Len(w) = Len(wire) + 1 /\ w[Len(wire) + 1] = f
        /\ \A j \in 1..Len(wire) : w[j] = wire[j]
    <3> HIDE DEF f
    <3> QED BY <2>1, <2>2, <1>0, WireGrows
  <2> HIDE DEF w
  <2> QED BY <2>2, <2>3, <1>0
<1>3. CASE wire' = << >>
  BY <1>3, EmptySeq
<1>4. CASE \E n \in 0..Len(wire) : wire' = SubSeq(wire, 1, n)
  <2>1. PICK n \in 0..Len(wire) : wire' = SubSeq(wire, 1, n)
    BY <1>4
  <2>2. /\ Len(SubSeq(wire, 1, n)) = n
        /\ \A j \in 1..n : SubSeq(wire, 1, n)[j] = wire[j]
    BY <1>0, WireLeft
  <2>3. i \in 1..n /\ wire'[i] = wire[i]
    BY <2>1, <2>2
  <2> QED BY <2>3, <1>0
<1>5. CASE ClientFrame
  <2>1. wire # << >> /\ wire' = Tail(wire)
    BY <1>5 DEF ClientFrame
  <2>2. /\ Len(wire') = Len(wire) - 1
        /\ \A j \in 1..Len(wire') : wire'[j] = wire[j + 1]
    BY <2>1, <1>0, HeadTailProperties
  <2>3. i + 1 \in 1..Len(wire) /\ wire'[i] = wire[i + 1]
    BY <2>2, <1>0
  <2> QED BY <2>3
<1>6. CASE UNCHANGED wire
  BY <1>6
<1>7. Cut => wire' = << >> \/ \E n \in 0..Len(wire) : wire' = SubSeq(wire, 1, n)
  BY Zenon DEF Cut
<1>8. Dial \/ Leaves => wire' = << >>
  BY Leaving DEF Dial
<1> QED BY <1>1, <1>2, <1>3, <1>4, <1>5, <1>6, <1>7, <1>8, WireSteps

LEMMA FramesGenuineStep ==
  ASSUME IInv, Next
  PROVE  FramesGenuine'
<1> DEFINE G(f) == Genuine(f, taken')
<1>1. ASSUME NEW f \in Frame, Genuine(f, taken) PROVE G(f)
  BY <1>1, Growth, EndOfType DEF Genuine
<1>2. /\ G(cur) /\ G(out) /\ G(NoFrame) /\ G(EndedFrame(cursor))
      /\ \A j \in 1..Len(wire) : G(wire[j])
  <2>1. taken' \in Nat /\ cursor \in Nat /\ cursor <= taken'
    BY Growth DEF IInv, TypeOK, WriterType, WriterPlace
  <2>2. G(NoFrame) /\ G(EndedFrame(cursor))
    BY <2>1, NoFrameGenuine, EndedFrameGenuine
  <2>3. cur \in Frame /\ out \in Frame /\ \A j \in 1..Len(wire) : wire[j] \in Frame
    BY ElementOfSeq DEF IInv, TypeOK, WriterType, ClientType, LinkType
  <2>4. /\ Genuine(cur, taken) /\ Genuine(out, taken)
        /\ \A j \in 1..Len(wire) : Genuine(wire[j], taken)
    BY DEF IInv, FramesGenuine
  <2> QED BY <1>1, <2>2, <2>3, <2>4
<1>3. G(cur')
  <2>1. CASE ClientFrame
    <3>1. wire # << >> /\ cur' = Head(wire)
      BY <2>1 DEF ClientFrame
    <3>2. cur' = wire[1] /\ 1 \in 1..Len(wire)
      BY <3>1, EmptySeq DEF IInv, TypeOK, LinkType
    <3> QED BY <3>2, <1>2
  <2>2. CASE ClientCommit \/ Leaves
    <3>1. cur' = NoFrame
      BY <2>2, Leaving DEF ClientCommit
    <3> QED BY <3>1, <1>2
  <2>3. CASE UNCHANGED cur
    BY <2>3, <1>2
  <2>4. ASSUME \/ Dial \/ ClientHello \/ ClientEnter \/ ClientNotice \/ ClientWrite
               \/ \E o \in {"detached", "disconnected"} : WriterStops(o)
               \/ UNCHANGED clientVars
        PROVE  UNCHANGED cur
    BY <2>4 DEF Dial, ClientHello, ClientEnter, ClientNotice, ClientWrite, WriterStops
  <2> QED BY <2>1, <2>2, <2>3, <2>4, ClientSteps
<1>4. G(out')
  <2>1. CASE WriterRead
    <3>1. CASE UNCHANGED out
      BY <3>1, <1>2
    <3>2. ASSUME NEW o \in Nat, NEW e \in Nat, o <= e, e <= taken,
                 out' = OutputFrame(o, Bytes(o, e))
          PROVE  G(out')
      <4>1. e <= taken' /\ taken' \in Nat
        BY <3>2, Growth
      <4> QED BY <4>1, <3>2, RunFrameGenuine
    <3> QED BY <2>1, <3>1, <3>2, NextFrame DEF IInv, TypeOK, WriterPlace
  <2>2. CASE out' = NoFrame
    <3> QED BY <2>2, <1>2
  <2>3. CASE UNCHANGED out
    BY <2>3, <1>2
  <2>4. WriterSend \/ ServerLeaves \/ Cut \/ Leaves => out' = NoFrame
    BY Leaving DEF WriterSend, ServerLeaves, Cut, TaskGone
  <2>5. ASSUME \/ ServerHello \/ ServerAuth \/ WriterTop \/ WriterCheck \/ WriterBye
               \/ WriterWakes \/ WriterTicks \/ Dial
        PROVE  UNCHANGED out
    BY <2>5 DEF ServerHello, ServerAuth, WriterTop, WriterCheck, WriterBye,
           WriterWakes, WriterTicks, Dial
  <2> QED BY <2>1, <2>2, <2>3, <2>4, <2>5, WriterSteps
<1>5. ASSUME NEW i \in 1..Len(wire') PROVE G(wire'[i])
  <2> QED BY <1>2, <1>5, WireFrames
<1> QED BY <1>3, <1>4, <1>5 DEF FramesGenuine

-----------------------------------------------------------------------------
(* The frames follow each other.                                           *)

LEMMA FollowsLater ==
  ASSUME NEW e \in Nat, NEW f \in Frame, NEW s \in Nat, NEW t \in Nat, s <= t,
         Follows(e, f, s)
  PROVE  Follows(e, f, t)
BY EndOfType DEF Follows

\* The types of what Contiguous and WriterPlace speak of.
LEMMA PlaceTypes ==
  ASSUME TypeOK
  PROVE  /\ wire \in Seq(Frame) /\ Len(wire) \in Nat
         /\ wire # << >> => Len(wire) >= 1
         /\ \A i \in 1..Len(wire) : wire[i] \in Frame /\ EndOf(wire[i]) \in Nat
         /\ received \in Nat /\ cursor \in Nat /\ taken \in Nat /\ hello \in Nat
         /\ out \in Frame /\ EndOf(out) \in Nat
         /\ cur \in Frame /\ EndOf(cur) \in Nat
         /\ Ahead \in Nat /\ WireEnd \in Nat
<1>1. /\ wire \in Seq(Frame) /\ received \in Nat /\ cursor \in Nat /\ taken \in Nat
      /\ hello \in Nat /\ out \in Frame /\ cur \in Frame
  BY DEF TypeOK, LinkType, ClientType, WriterType, SessionType
<1>2. EndOf(out) \in Nat /\ EndOf(cur) \in Nat
  BY <1>1, EndOfType
<1>3. Len(wire) \in Nat /\ (wire # << >> => Len(wire) >= 1)
  BY <1>1, EmptySeq
<1>4. \A i \in 1..Len(wire) : wire[i] \in Frame /\ EndOf(wire[i]) \in Nat
  BY <1>1, ElementOfSeq, EndOfType
<1>5. Ahead \in Nat
  BY <1>1, <1>2 DEF Ahead
<1>6. WireEnd \in Nat
  BY <1>3, <1>4, <1>5 DEF WireEnd
<1> QED BY <1>1, <1>2, <1>3, <1>4, <1>5, <1>6

\* Only reading a frame, and leaving or making a connection, move Ahead.
LEMMA AheadStays ==
  ASSUME IInv, Next, ~ClientFrame, ~Leaves
  PROVE  Ahead' = Ahead
<1>1. CASE Dial \/ ClientHello \/ ClientEnter
  BY <1>1 DEF Dial, ClientHello, ClientEnter, Ahead, Accepting
<1>2. CASE ClientNotice \/ ClientWrite
  <2>1. cli \in Accepting /\ cli' \in Accepting /\ UNCHANGED <<cur, received>>
    BY <1>2 DEF ClientNotice, ClientWrite, Accepting
  <2> QED BY <2>1 DEF Ahead, EndOf
<1>3. CASE ClientCommit
  BY <1>3 DEF ClientCommit, Ahead, Accepting
<1>4. CASE \E o \in {"detached", "disconnected"} : WriterStops(o)
  BY <1>4 DEF WriterStops, Ahead, EndOf
<1>5. CASE UNCHANGED clientVars
  BY <1>5 DEF Ahead, EndOf
<1> QED BY <1>1, <1>2, <1>3, <1>4, <1>5, ClientSteps

\* Reading a frame moves it to the end of that frame, whether it is dropped
\* or accepted.
LEMMA AheadReads ==
  ASSUME IInv, ClientFrame
  PROVE  /\ Ahead' = EndOf(wire[1])
         /\ cli' \in Accepting => /\ Follows(received', cur', ring.start)
                                 /\ EndOf(cur') > received'
         /\ cli' = "gap" => cur'.offset > received'
<1>1. /\ wire # << >> /\ cli = "read" /\ cur' = Head(wire)
      /\ cli' = CASE EndOf(cur') <= received -> "read"
                  [] EndOf(cur') > received /\ cur'.offset > received -> "gap"
                  [] OTHER -> "write"
      /\ received' = received
  BY DEF ClientFrame
<1>2. cur' = wire[1] /\ wire[1] \in Frame /\ EndOf(wire[1]) \in Nat /\ received \in Nat
  <2>1. 1 \in 1..Len(wire)
    BY <1>1, PlaceTypes DEF IInv
  <2> QED BY <1>1, <2>1, PlaceTypes DEF IInv
<1>3. Follows(received, wire[1], ring.start)
  BY <1>1 DEF IInv, Contiguous, Ahead, Accepting
<1>4. wire[1].offset >= received /\ EndOf(wire[1]) >= wire[1].offset
      /\ wire[1].offset \in Nat
  BY <1>2, <1>3, EndOfType DEF Follows
<1>5. CASE EndOf(wire[1]) <= received
  <2>1. cli' = "read" /\ EndOf(wire[1]) = received
    BY <1>1, <1>2, <1>4, <1>5
  <2> QED BY <2>1, <1>1 DEF Ahead, Accepting
<1>6. CASE ~(EndOf(wire[1]) <= received)
  <2>1. EndOf(wire[1]) > received
    BY <1>2, <1>6
  <2>2. /\ cli' \in {"gap", "write"}
        /\ cli' = "gap" => wire[1].offset > received
    BY <1>1, <1>2, <1>6, <2>1
  <2>3. Ahead' = EndOf(cur')
    BY <2>2 DEF Ahead, Accepting, EndOf
  <2> QED BY <1>1, <1>2, <1>3, <2>1, <2>2, <2>3
<1> QED BY <1>5, <1>6

\* The frame at the client stays next to the committed offset.
LEMMA AcceptedFollows ==
  ASSUME IInv, Next
  PROVE  /\ cli' \in Accepting => /\ Follows(received', cur', ring'.start)
                                 /\ EndOf(cur') > received'
         /\ cli' = "gap" => cur'.offset > received'
<1>1. /\ TypeOK /\ TypeOK' /\ cur' \in Frame /\ received' \in Nat
      /\ ring.start \in Nat /\ ring'.start \in Nat /\ ring.start <= ring'.start
  BY TypeStep, Growth DEF IInv, TypeOK, ClientType
<1>2. ASSUME Follows(received', cur', ring.start)
      PROVE  Follows(received', cur', ring'.start)
  BY <1>1, <1>2, FollowsLater
<1>3. CASE ClientFrame
  BY <1>2, <1>3, AheadReads
<1>4. CASE ClientNotice \/ ClientWrite
  <2>1. /\ cli \in Accepting /\ cli' # "gap" /\ cur' = cur /\ received' = received
    BY <1>4 DEF ClientNotice, ClientWrite, Accepting
  <2>2. Follows(received', cur', ring.start) /\ EndOf(cur') > received'
    BY <2>1 DEF IInv, Contiguous
  <2> QED BY <1>2, <2>1, <2>2
<1>5. ASSUME \/ \E o \in {"detached", "disconnected"} : WriterStops(o)
             \/ UNCHANGED clientVars
      PROVE  UNCHANGED <<cli, cur, received>>
  BY <1>5 DEF WriterStops
<1>6. CASE UNCHANGED <<cli, cur, received>>
  <2>1. CASE cli \in Accepting
    <3>1. Follows(received', cur', ring.start) /\ EndOf(cur') > received'
      BY <1>6, <2>1 DEF IInv, Contiguous
    <3>2. cli' = "gap" => cur'.offset > received'
      BY <1>6 DEF IInv, Contiguous
    <3> QED BY <1>2, <3>1, <3>2
  <2>2. CASE cli \notin Accepting
    BY <1>6, <2>2 DEF Accepting
  <2> QED BY <2>1, <2>2
<1>7. ASSUME Dial \/ ClientHello \/ ClientEnter \/ ClientCommit \/ Leaves
      PROVE  cli' \notin Accepting
  BY <1>7, Leaving DEF Dial, ClientHello, ClientEnter, ClientCommit, Accepting, Stopped
<1>8. CASE cli' \notin Accepting
  BY <1>8 DEF Accepting
<1> QED BY <1>3, <1>4, <1>5, <1>6, <1>7, <1>8, ClientSteps

\* A frame written at the end of the wire leaves it in order.
LEMMA AppendFollows ==
  ASSUME IInv, NEW f \in Frame, Len(wire) < MaxWire, Follows(WireEnd, f, ring.start)
  PROVE  LET w == Append(wire, f)
         IN  /\ w # << >> /\ Len(w) = Len(wire) + 1 /\ w[Len(w)] = f
             /\ Follows(Ahead, w[1], ring.start)
             /\ \A i \in 2..Len(w) : Follows(EndOf(w[i - 1]), w[i], ring.start)
<1> DEFINE w == Append(wire, f)
<1>1. /\ w # << >> /\ Len(w) = Len(wire) + 1 /\ w[Len(wire) + 1] = f
      /\ \A i \in 1..Len(wire) : w[i] = wire[i]
  BY WireGrows DEF IInv, TypeOK
<1>2. Len(wire) \in Nat /\ (wire # << >> => Len(wire) >= 1)
  BY PlaceTypes DEF IInv
<1> HIDE DEF w
<1>3. Follows(Ahead, w[1], ring.start)
  <2>1. CASE wire = << >>
    <3>1. WireEnd = Ahead /\ Len(wire) = 0
      BY <2>1, EmptySeq DEF WireEnd
    <3>2. w[1] = f
      BY <1>1, <3>1
    <3> QED BY <3>1, <3>2
  <2>2. CASE wire # << >>
    <3>1. w[1] = wire[1]
      BY <1>1, <1>2, <2>2
    <3> QED BY <2>2, <3>1 DEF IInv, Contiguous
  <2> QED BY <2>1, <2>2
<1>4. ASSUME NEW i \in 2..Len(w) PROVE Follows(EndOf(w[i - 1]), w[i], ring.start)
  <2>1. CASE i = Len(wire) + 1
    <3>1. i - 1 = Len(wire) /\ Len(wire) \in 1..Len(wire)
      BY <1>1, <1>2, <2>1
    <3>2. wire # << >>
      BY <3>1, EmptySeq
    <3>3. w[i - 1] = wire[Len(wire)] /\ w[i] = f
      BY <1>1, <2>1, <3>1
    <3>4. WireEnd = EndOf(wire[Len(wire)])
      BY <3>2 DEF WireEnd
    <3> QED BY <3>3, <3>4
  <2>2. CASE i # Len(wire) + 1
    <3>1. i \in 2..Len(wire) /\ i - 1 \in 1..Len(wire) /\ i \in 1..Len(wire)
      BY <1>1, <1>2, <2>2
    <3>2. w[i] = wire[i] /\ w[i - 1] = wire[i - 1]
      BY <1>1, <3>1
    <3> QED BY <3>1, <3>2 DEF IInv, Contiguous
  <2> QED BY <2>1, <2>2
<1> QED BY <1>1, <1>2, <1>3, <1>4 DEF w

\* The frames on the wire after a step are in order.
LEMMA WireFollows ==
  ASSUME IInv, Next
  PROVE  /\ wire' # << >> => Follows(Ahead', wire'[1], ring.start)
         /\ \A i \in 2..Len(wire') : Follows(EndOf(wire'[i - 1]), wire'[i], ring.start)
<1>0. /\ wire \in Seq(Frame) /\ Len(wire) \in Nat /\ (wire # << >> => Len(wire) >= 1)
      /\ out \in Frame /\ cursor \in Nat /\ WireEnd \in Nat /\ Ahead \in Nat
  BY PlaceTypes DEF IInv
<1>1. /\ wire # << >> => Follows(Ahead, wire[1], ring.start)
      /\ \A i \in 2..Len(wire) : Follows(EndOf(wire[i - 1]), wire[i], ring.start)
  BY DEF IInv, Contiguous
<1>2. ASSUME NEW f \in Frame, Len(wire) < MaxWire, wire' = Append(wire, f),
             Follows(WireEnd, f, ring.start), Ahead' = Ahead
      PROVE  /\ wire' # << >> => Follows(Ahead', wire'[1], ring.start)
             /\ \A i \in 2..Len(wire') :
                  Follows(EndOf(wire'[i - 1]), wire'[i], ring.start)
  <2> DEFINE w == Append(wire, f)
  <2>1. /\ Follows(Ahead, w[1], ring.start)
        /\ \A i \in 2..Len(w) : Follows(EndOf(w[i - 1]), w[i], ring.start)
    BY <1>2, AppendFollows
  <2>2. wire' = w
    BY <1>2
  <2> HIDE DEF w
  <2> QED BY <2>1, <2>2, <1>2 DEF EndOf
<1>3. CASE WriterSend
  <2>1. Len(wire) < MaxWire /\ wire' = Append(wire, out) /\ UNCHANGED <<cli, cur, received>>
    BY <1>3 DEF WriterSend
  <2>2. Follows(WireEnd, out, ring.start)
    BY <1>3 DEF WriterSend, IInv, WriterPlace
  <2>3. Ahead' = Ahead
    BY <2>1 DEF Ahead, EndOf
  <2> QED BY <1>0, <1>2, <2>1, <2>2, <2>3
<1>4. CASE WriterBye
  <2> DEFINE f == EndedFrame(cursor)
  <2>1. Len(wire) < MaxWire /\ wire' = Append(wire, f) /\ UNCHANGED <<cli, cur, received>>
    BY <1>4 DEF WriterBye
  <2>2. f \in Frame /\ f.offset = cursor
    BY EmptySeq, <1>0 DEF EndedFrame, Frame
  <2>3. cursor = WireEnd
    BY <1>4 DEF WriterBye, IInv, WriterPlace
  <2>4. Ahead' = Ahead
    BY <2>1 DEF Ahead, EndOf
  <2> HIDE DEF f
  <2>5. Follows(WireEnd, f, ring.start)
    BY <2>2, <2>3, <1>0 DEF Follows
  <2> QED BY <1>2, <2>1, <2>2, <2>4, <2>5
<1>5. CASE wire' = << >>
  BY <1>5, EmptySeq
<1>6. CASE Cut /\ \E n \in 0..Len(wire) : wire' = SubSeq(wire, 1, n)
  <2>1. PICK n \in 0..Len(wire) : wire' = SubSeq(wire, 1, n)
    BY <1>6
  <2>2. /\ Len(SubSeq(wire, 1, n)) = n
        /\ \A j \in 1..n : SubSeq(wire, 1, n)[j] = wire[j]
    BY <1>0, WireLeft DEF IInv, TypeOK
  <2>3. n \in Nat /\ Len(wire') = n /\ \A j \in 1..n : wire'[j] = wire[j]
    BY <2>1, <2>2
  <2>4. Ahead' = Ahead
    BY <1>6 DEF Cut, Ahead, EndOf
  <2>5. wire' # << >> => wire' [1] = wire[1] /\ wire # << >>
    <3>1. wire' # << >> => n # 0
      BY <2>1, EmptySeq, <2>3, <1>0
    <3>2. n # 0 => 1 \in 1..n /\ Len(wire) # 0
      BY <2>1, <1>0
    <3>3. Len(wire) # 0 => wire # << >>
      BY EmptySeq
    <3> QED BY <3>1, <3>2, <3>3, <2>3
  <2>6. ASSUME NEW i \in 2..Len(wire')
        PROVE  Follows(EndOf(wire'[i - 1]), wire'[i], ring.start)
    <3>1. i \in 2..Len(wire) /\ i \in 1..n /\ i - 1 \in 1..n
      BY <2>1, <2>3, <1>0
    <3>2. wire'[i] = wire[i] /\ wire'[i - 1] = wire[i - 1]
      BY <3>1, <2>3
    <3> QED BY <3>1, <3>2, <1>1 DEF EndOf
  <2> QED BY <1>1, <2>4, <2>5, <2>6
<1>7. CASE ClientFrame
  <2>1. wire # << >> /\ wire' = Tail(wire)
    BY <1>7 DEF ClientFrame
  <2>2. /\ Len(wire') = Len(wire) - 1
        /\ \A j \in 1..Len(wire') : wire'[j] = wire[j + 1]
    BY <2>1, <1>0, HeadTailProperties
  <2>3. Ahead' = EndOf(wire[1])
    BY <1>7, AheadReads
  <2>4. wire' # << >> => Follows(Ahead', wire'[1], ring.start)
    <3>1. wire' # << >> => 2 \in 2..Len(wire) /\ wire'[1] = wire[2]
      <4>1. wire' \in Seq(Frame) /\ (wire' # << >> => Len(wire') # 0)
        BY <2>1, <1>0, HeadTailProperties, EmptySeq
      <4> QED BY <4>1, <2>2, <1>0
    <3>2. 2 \in 2..Len(wire) => Follows(EndOf(wire[1]), wire[2], ring.start)
      <4>1. 2 \in 2..Len(wire) => Follows(EndOf(wire[2 - 1]), wire[2], ring.start)
        BY <1>1
      <4>2. 2 - 1 = 1
        OBVIOUS
      <4> QED BY <4>1, <4>2
    <3> QED BY <3>1, <3>2, <2>3
  <2>5. ASSUME NEW i \in 2..Len(wire')
        PROVE  Follows(EndOf(wire'[i - 1]), wire'[i], ring.start)
    <3>1. i + 1 \in 2..Len(wire) /\ i \in 1..Len(wire') /\ i - 1 \in 1..Len(wire')
          /\ (i + 1) - 1 = i /\ (i - 1) + 1 = i
      BY <2>2, <1>0
    <3>2. wire'[i] = wire[i + 1] /\ wire'[i - 1] = wire[i]
      BY <3>1, <2>2
    <3>3. Follows(EndOf(wire[(i + 1) - 1]), wire[i + 1], ring.start)
      BY <3>1, <1>1
    <3> QED BY <3>1, <3>2, <3>3 DEF EndOf
  <2> QED BY <2>4, <2>5
<1>8. CASE UNCHANGED wire /\ Ahead' = Ahead
  BY <1>8, <1>1 DEF EndOf
<1>9. Cut => wire' = << >> \/ \E n \in 0..Len(wire) : wire' = SubSeq(wire, 1, n)
  BY Zenon DEF Cut
<1>10. Dial \/ Leaves => wire' = << >>
  BY Leaving DEF Dial
<1>11. CASE UNCHANGED wire /\ ~ClientFrame /\ ~Leaves
  BY <1>8, <1>11, AheadStays
<1> QED BY <1>3, <1>4, <1>5, <1>6, <1>7, <1>9, <1>10, <1>11, WireSteps

LEMMA ContiguousStep ==
  ASSUME IInv, Next
  PROVE  Contiguous'
<1>1. /\ ring.start \in Nat /\ ring'.start \in Nat /\ ring.start <= ring'.start
      /\ TypeOK'
  BY Growth, TypeStep
<1>2. /\ Ahead' \in Nat
      /\ wire' \in Seq(Frame) /\ (wire' # << >> => 1 \in 1..Len(wire'))
      /\ \A i \in 1..Len(wire') : wire'[i] \in Frame /\ EndOf(wire'[i]) \in Nat
  <2>1. wire' \in Seq(Frame) /\ received' \in Nat /\ cur' \in Frame
    BY <1>1 DEF TypeOK, LinkType, ClientType
  <2>2. EndOf(cur') \in Nat
    BY <2>1, EndOfType
  <2>3. Ahead' \in Nat
    BY <2>1, <2>2 DEF Ahead, EndOf
  <2> QED BY <2>1, <2>3, EmptySeq, ElementOfSeq, EndOfType
<1>3. wire' # << >> => Follows(Ahead', wire'[1], ring'.start)
  BY <1>1, <1>2, FollowsLater, WireFollows
<1>4. ASSUME NEW i \in 2..Len(wire')
      PROVE  Follows(EndOf(wire'[i - 1]), wire'[i], ring'.start)
  <2>1. i \in 1..Len(wire') /\ i - 1 \in 1..Len(wire')
    BY <1>2
  <2>2. wire'[i] \in Frame /\ EndOf(wire'[i - 1]) \in Nat
    BY <2>1, <1>2
  <2>3. Follows(EndOf(wire'[i - 1]), wire'[i], ring.start)
    BY WireFollows
  <2> QED BY <1>1, <2>2, <2>3, FollowsLater
<1> QED BY <1>3, <1>4, AcceptedFollows DEF Contiguous, Ahead, EndOf

\* Only the server's writes, and making, leaving or losing a connection, move
\* the end of the wire.
LEMMA WireEndStays ==
  ASSUME IInv, Next, ~WriterSend, ~WriterBye, ~Cut, ~Dial, ~Leaves
  PROVE  WireEnd' = WireEnd
<1>0. wire \in Seq(Frame) /\ Len(wire) \in Nat /\ (wire # << >> => Len(wire) >= 1)
  BY PlaceTypes DEF IInv
<1>1. CASE ClientFrame
  <2>1. wire # << >> /\ wire' = Tail(wire) /\ Ahead' = EndOf(wire[1])
    BY <1>1, AheadReads DEF ClientFrame
  <2>2. /\ wire' \in Seq(Frame) /\ Len(wire') = Len(wire) - 1
        /\ \A j \in 1..Len(wire') : wire'[j] = wire[j + 1]
    BY <2>1, <1>0, HeadTailProperties
  <2>3. WireEnd = EndOf(wire[Len(wire)])
    BY <2>1 DEF WireEnd
  <2>4. CASE wire' = << >>
    <3>1. Len(wire) = 1
      BY <2>2, <2>4, <1>0, EmptySeq
    <3> QED BY <2>1, <2>3, <2>4, <3>1 DEF WireEnd
  <2>5. CASE wire' # << >>
    <3>1. Len(wire') # 0
      BY <2>2, <2>5, EmptySeq
    <3>2. Len(wire') \in 1..Len(wire') /\ Len(wire') + 1 = Len(wire)
      BY <2>2, <3>1, <1>0
    <3>3. wire'[Len(wire')] = wire[Len(wire)]
      BY <2>2, <3>2
    <3>4. WireEnd' = EndOf(wire'[Len(wire')])
      BY <2>5 DEF WireEnd, EndOf
    <3> QED BY <2>3, <3>3, <3>4 DEF EndOf
  <2> QED BY <2>4, <2>5
<1>2. CASE UNCHANGED wire /\ ~ClientFrame
  <2>1. Ahead' = Ahead
    BY <1>2, AheadStays
  <2> QED BY <1>2, <2>1 DEF WireEnd, EndOf
<1> QED BY <1>1, <1>2, WireSteps

LEMMA WriterPlaceStep ==
  ASSUME IInv, Next
  PROVE  WriterPlace'
<1>0. /\ wire \in Seq(Frame) /\ Len(wire) \in Nat /\ out \in Frame /\ EndOf(out) \in Nat
      /\ received \in Nat /\ cursor \in Nat /\ WireEnd \in Nat
      /\ taken \in Nat /\ taken' \in Nat /\ taken <= taken'
      /\ ring.start \in Nat /\ ring'.start \in Nat /\ ring.start <= ring'.start
      /\ cursor <= taken /\ received <= taken
  BY PlaceTypes, Growth DEF IInv, WriterPlace, Handshake
<1>1. CASE WriterSend
  <2>1. /\ srv' = "top" /\ cursor' = cursor /\ cursor = EndOf(out)
        /\ Len(wire) < MaxWire /\ wire' = Append(wire, out)
    BY <1>1 DEF WriterSend, IInv, WriterPlace
  <2>2. WireEnd' = EndOf(out)
    <3> DEFINE w == Append(wire, out)
    <3>1. w # << >> /\ Len(w) = Len(wire) + 1 /\ w[Len(wire) + 1] = out
      BY <1>0, <2>1, WireGrows DEF IInv, TypeOK
    <3>2. wire' = w
      BY <2>1
    <3> HIDE DEF w
    <3>3. wire' # << >> /\ wire'[Len(wire')] = out
      BY <3>1, <3>2
    <3> QED BY <3>3 DEF WireEnd, EndOf
  <2>3. cursor' <= taken' /\ cursor' = WireEnd'
    BY <1>0, <2>1, <2>2
  <2> QED BY <2>1, <2>3 DEF WriterPlace
<1>2. CASE WriterBye \/ ServerLeaves \/ Dial
  <2>1. srv' \in {"closed", "hello"} /\ cursor' = cursor
    BY <1>2 DEF WriterBye, ServerLeaves, Dial
  <2>2. cursor' <= taken'
    BY <1>0, <2>1
  <2> QED BY <2>1, <2>2 DEF WriterPlace
<1>3. CASE Cut \/ Leaves
  <2>1. srv' \in {"none", "closed"} /\ cursor' = 0
    BY <1>3, Leaving DEF Cut, TaskGone
  <2>2. cursor' <= taken'
    BY <1>0, <2>1
  <2> QED BY <2>1, <2>2 DEF WriterPlace
<1>4. CASE ServerAuth
  <2>1. /\ srv' = "top" /\ cursor' = received /\ wire' = wire /\ wire = << >>
        /\ cli = "auth" /\ UNCHANGED <<cli, cur, received>>
    BY <1>4 DEF ServerAuth, IInv, Handshake
  <2>2. WireEnd' = received
    BY <2>1 DEF WireEnd, Ahead, Accepting
  <2>3. cursor' <= taken' /\ cursor' = WireEnd'
    BY <1>0, <2>1, <2>2
  <2> QED BY <2>1, <2>3 DEF WriterPlace
<1>5. CASE WriterRead
  <2>1. srv = "read" /\ cursor = WireEnd /\ wire' = wire /\ UNCHANGED <<cli, cur, received>>
    BY <1>5 DEF WriterRead, IInv, WriterPlace
  <2>2. WireEnd' = WireEnd
    BY <2>1 DEF WireEnd, Ahead, EndOf
  <2>3. CASE srv' = "check" /\ UNCHANGED <<cursor, out>>
    <3>1. cursor' <= taken' /\ cursor' = WireEnd'
      BY <1>0, <2>1, <2>2, <2>3
    <3> QED BY <2>3, <3>1 DEF WriterPlace
  <2>4. ASSUME NEW o \in Nat, NEW e \in Nat, srv' = "send", cursor' = e,
               out' = OutputFrame(o, Bytes(o, e)), cursor <= o, o <= e, e <= taken,
               o > cursor => o <= ring.start
        PROVE  WriterPlace'
    <3>1. out'.offset = o /\ EndOf(out') = e
      BY <2>4, RunFrame
    <3>2. cursor' <= taken' /\ cursor' = EndOf(out')
      BY <1>0, <2>4, <3>1
    <3>3. Follows(WireEnd', out', ring'.start)
      BY <1>0, <2>1, <2>2, <2>4, <3>1 DEF Follows
    <3> QED BY <2>4, <3>2, <3>3 DEF WriterPlace, EndOf
  <2> QED BY <1>5, <2>3, <2>4, NextFrame DEF IInv, TypeOK, WriterPlace
<1>6. CASE /\ ~WriterSend /\ ~WriterBye /\ ~Cut /\ ~Dial /\ ~Leaves
           /\ \/ WriterTop \/ WriterCheck \/ WriterWakes \/ WriterTicks
              \/ ServerHello \/ UNCHANGED <<srv, cursor, out>>
  <2>1. WireEnd' = WireEnd
    BY <1>6, WireEndStays
  <2>2. UNCHANGED <<cursor, out>>
    BY <1>6 DEF WriterTop, WriterCheck, WriterWakes, WriterTicks, ServerHello
  <2>3. /\ srv' \in {"top", "read", "check", "wait", "bye"}
           => srv \in {"top", "read", "check", "wait", "bye"}
        /\ srv' = "send" => srv = "send"
    BY <1>6 DEF WriterTop, WriterCheck, WriterWakes, WriterTicks, ServerHello
  <2>4. cursor' <= taken'
    BY <1>0, <2>2
  <2>5. srv \in {"top", "read", "check", "wait", "bye"} => cursor' = WireEnd'
    BY <2>1, <2>2 DEF IInv, WriterPlace
  <2>6. srv = "send" => Follows(WireEnd', out', ring'.start) /\ cursor' = EndOf(out')
    <3>1. srv = "send" => Follows(WireEnd, out, ring.start) /\ cursor = EndOf(out)
      BY DEF IInv, WriterPlace
    <3>2. Follows(WireEnd, out, ring.start) => Follows(WireEnd, out, ring'.start)
      BY <1>0, FollowsLater
    <3> QED BY <2>1, <2>2, <3>1, <3>2 DEF EndOf
  <2> QED BY <2>3, <2>4, <2>5, <2>6 DEF WriterPlace, EndOf
<1> QED BY <1>1, <1>2, <1>3, <1>4, <1>5, <1>6, WriterSteps

-----------------------------------------------------------------------------
(* The handshake.                                                          *)

LEMMA HandshakeStep ==
  ASSUME IInv, Next
  PROVE  Handshake'
<1>0. /\ received \in Nat /\ taken \in Nat /\ taken' \in Nat /\ taken <= taken'
      /\ received <= taken /\ hello \in Nat /\ replyTotal \in Nat
      /\ Total(ring) = taken
  <2>1. ring = LastBytes(taken) /\ taken \in Nat
    BY DEF IInv, TypeOK, RetainsTail, SessionType
  <2>2. Total(ring) = taken
    BY <2>1, LastBytesType
  <2> QED BY <2>2, PlaceTypes, Growth DEF IInv, Handshake, TypeOK, LinkType
<1>1. received' <= taken'
  <2>1. CASE ClientCommit
    <3>1. received' = EndOf(cur) /\ EndOf(cur) <= taken
      BY <2>1 DEF ClientCommit, IInv, FramesGenuine, Genuine
    <3> QED BY <3>1, <1>0, PlaceTypes DEF IInv
  <2>2. CASE received' \in {0, received}
    BY <2>2, <1>0
  <2>3. ASSUME Leaves PROVE received' \in {0, received}
    BY <2>3 DEF Leaves, ClientRejected, HandshakeFails, DialFails, OutputFails,
       ReaderStops, ReaderDisconnected, ReaderEnded, Killed, Attach
  <2>4. ASSUME \/ Dial \/ ClientHello \/ ClientEnter \/ ClientFrame \/ ClientNotice
               \/ ClientWrite \/ \E o \in {"detached", "disconnected"} : WriterStops(o)
               \/ UNCHANGED clientVars
        PROVE  received' = received
    BY <2>4 DEF Dial, ClientHello, ClientEnter, ClientFrame, ClientNotice,
       ClientWrite, WriterStops
  <2> QED BY <2>1, <2>2, <2>3, <2>4, ClientSteps
<1>2. ~Leaves /\ ~Dial => \/ cli' \in {"hello", "auth"} /\ cli \in {"hello", "auth"}
                             /\ received' = received
                          \/ cli' \notin {"hello", "auth"} /\ cli \notin {"hello", "auth"}
                          \/ ClientEnter
  BY ClientSteps DEF ClientHello, ClientEnter, ClientFrame, ClientNotice,
     ClientWrite, ClientCommit, WriterStops
<1>3. cli' \in {"hello", "auth"} => hello' = received'
  <2>1. CASE Leaves
    BY <2>1, Leaving DEF Stopped
  <2>2. CASE Dial
    BY <2>2 DEF Dial
  <2>3. CASE ~Leaves /\ ~Dial
    <3>1. hello' = hello
      BY <2>3, HandshakeSteps DEF ServerHello, ServerAuth, Cut
    <3>2. ClientEnter => cli' = "read"
      BY DEF ClientEnter
    <3> QED BY <2>3, <3>1, <3>2, <1>2 DEF IInv, Handshake
  <2> QED BY <2>1, <2>2, <2>3
<1>4. srv' \in {"hello", "auth"} => /\ cli' \in {"hello", "auth"} /\ wire' = << >>
                                    /\ reply' # "hello"
  <2>1. CASE Leaves
    BY <2>1, Leaving
  <2>2. CASE Dial
    BY <2>2 DEF Dial
  <2>3. CASE Cut
    BY <2>3 DEF Cut, TaskGone
  <2>4. CASE ~Leaves /\ ~Dial /\ ~Cut /\ srv \in {"hello", "auth"}
    <3>1. wire = << >> /\ cli \in {"hello", "auth"}
      BY <2>4 DEF IInv, Handshake
    <3>2. wire' = << >>
      BY <2>4, <3>1, WireSteps DEF WriterSend, WriterBye, ClientFrame
    <3>3. ~ClientEnter
      BY <2>4 DEF ClientEnter, IInv, Handshake
    <3>4. srv' \in {"hello", "auth"} => reply' # "hello"
      BY <2>4, HandshakeSteps DEF ServerHello, ServerAuth, IInv, Handshake
    <3> QED BY <2>4, <3>1, <3>2, <3>3, <3>4, <1>2
  <2>5. ~Leaves /\ ~Dial /\ ~Cut /\ srv' \in {"hello", "auth"} => srv \in {"hello", "auth"}
    BY WriterSteps DEF ServerHello, ServerAuth, WriterTop, WriterRead, WriterSend,
       WriterCheck, WriterBye, WriterWakes, WriterTicks, ServerLeaves
  <2> QED BY <2>1, <2>2, <2>3, <2>4, <2>5
<1>5. /\ reply' # "badoffset"
      /\ reply' = "ok" => hello' <= replyTotal'
  <2>1. CASE Leaves
    BY <2>1, Leaving
  <2>2. CASE Dial \/ ServerAuth
    BY <2>2 DEF Dial, ServerAuth
  <2>3. CASE Cut
    BY <2>3 DEF Cut, IInv, Handshake
  <2>4. CASE ServerHello
    <3>1. hello <= taken
      BY <2>4, <1>0 DEF ServerHello, IInv, Handshake
    <3>2. /\ reply' = IF ended THEN "nosession"
                      ELSE IF hello > taken THEN "badoffset" ELSE "ok"
          /\ hello' = hello /\ replyTotal' = taken
      BY <2>4, <1>0 DEF ServerHello
    <3> QED BY <3>1, <3>2, <1>0
  <2>5. CASE UNCHANGED <<link, hello, reply, replyTotal>>
    BY <2>5 DEF IInv, Handshake
  <2> QED BY <2>1, <2>2, <2>3, <2>4, <2>5, HandshakeSteps
<1>6. cli' # "badoffset"
  <2>0. /\ cli # "badoffset" /\ reply # "badoffset"
        /\ ~(reply = "ok" /\ hello > replyTotal)
    BY <1>0 DEF IInv, Handshake
  <2>1. CASE Leaves
    BY <2>0, <2>1 DEF Leaves, ClientRejected, HandshakeFails, DialFails, OutputFails,
       ReaderStops, ReaderDisconnected, ReaderEnded, Killed, Attach, HangUp, AfterError
  <2>2. CASE ClientFrame
    BY <2>2 DEF ClientFrame
  <2>3. CASE ~Leaves /\ ~ClientFrame
    BY <2>0, <2>3, ClientSteps DEF Dial, ClientHello, ClientEnter, ClientNotice,
       ClientWrite, ClientCommit, WriterStops
  <2> QED BY <2>1, <2>2, <2>3
<1> QED BY <1>1, <1>3, <1>4, <1>5, <1>6 DEF Handshake

-----------------------------------------------------------------------------
(* The terminal.                                                           *)

\* The frame being accepted starts where the terminal is, so all of its bytes
\* are written.
LEMMA AcceptedIsFresh ==
  ASSUME IInv, cli = "write"
  PROVE  /\ cur.offset \in Nat /\ EndOf(cur) \in Nat /\ cur.offset <= EndOf(cur)
         /\ received \in Nat /\ received <= cur.offset
         /\ Fresh = Bytes(cur.offset, EndOf(cur))
         /\ Front = cur.offset
<1>1. /\ cur \in Frame /\ received \in Nat
      /\ cur.offset \in Nat /\ EndOf(cur) \in Nat /\ cur.offset <= EndOf(cur)
  BY PlaceTypes, EndOfType DEF IInv
<1>2. received <= cur.offset
  <2>1. Follows(received, cur, ring.start)
    BY DEF IInv, Contiguous, Accepting
  <2> QED BY <1>1, <2>1 DEF Follows
<1>3. cur.data = Bytes(cur.offset, EndOf(cur)) /\ cur.data \in Seq(Nat)
  BY <1>1 DEF IInv, FramesGenuine, Genuine, Frame
<1>4. Fresh = SubSeq(cur.data, 1, Len(cur.data))
  BY <1>1, <1>2 DEF Fresh, From
<1>5. Fresh = cur.data
  <2> DEFINE a == cur.offset
             b == EndOf(cur)
  <2>1. Len(cur.data) = b - a
    BY <1>1, <1>3, BytesType
  <2>2. a \in Nat /\ b \in Nat /\ b - a \in Nat /\ a <= b /\ 0 \in Nat /\ 0 <= b - a
    BY <1>1
  <2>3. SubSeq(Bytes(a, b), 0 + 1, b - a) = Bytes(a + 0, a + (b - a))
    <3> DEFINE k == b - a
    <3> HIDE DEF a, b
    <3>1. k \in Nat /\ k <= b - a /\ 0 <= k
      BY <2>2
    <3> HIDE DEF k
    <3>2. Part(a, b, 0, k) = Bytes(a + 0, a + k)
      BY <2>2, <3>1, BytesSubSeq
    <3> QED BY <3>2 DEF k, Part
  <2>4. 0 + 1 = 1 /\ a + 0 = a /\ a + (b - a) = b
    <3> HIDE DEF a, b
    <3> QED BY <2>2
  <2>5. SubSeq(Bytes(a, b), 1, b - a) = Bytes(a, b)
    BY <2>3, <2>4
  <2> QED BY <2>1, <2>5, <1>3, <1>4
<1>6. Front = cur.offset
  BY DEF Front
<1> QED BY <1>1, <1>2, <1>3, <1>5, <1>6

\* What the terminal holds of it when the write goes through, and when it
\* fails after some of the bytes.
LEMMA Written ==
  ASSUME IInv, cli = "write", NEW e \in Nat, cur.offset <= e,
         shown' = shown \o Bytes(cur.offset, e)
  PROVE  /\ ShownBytes' = ShownBytes \cup cur.offset..(e - 1)
         /\ \A i, j \in 1..Len(shown') : i < j => shown'[i] < shown'[j]
<1>1. /\ shown \in Seq(Nat) /\ cur.offset \in Nat
      /\ \A i, j \in 1..Len(shown) : i < j => shown[i] < shown[j]
  BY AcceptedIsFresh DEF IInv, TypeOK, ClientType, ExactlyOnceInOrder
<1>2. \A i \in 1..Len(shown) : shown[i] < cur.offset
  <2>1. ShownBytes \cup reported = 0..(cur.offset - 1)
    BY AcceptedIsFresh DEF IInv, TerminalPlace, Stopped
  <2>2. ASSUME NEW i \in 1..Len(shown) PROVE shown[i] < cur.offset
    <3>1. shown[i] \in ShownBytes
      BY DEF ShownBytes
    <3> QED BY <2>1, <3>1, <1>1
  <2> QED BY <2>2
<1> DEFINE t == shown \o Bytes(cur.offset, e)
<1>3. /\ {t[i] : i \in 1..Len(t)} = {shown[i] : i \in 1..Len(shown)}
                                     \cup cur.offset..(e - 1)
      /\ \A i, j \in 1..Len(t) : i < j => t[i] < t[j]
  <2> HIDE DEF t
  <2>1. /\ {t[i] : i \in 1..Len(t)} = {shown[i] : i \in 1..Len(shown)}
                                       \cup cur.offset..(e - 1)
        /\ /\ \A i, j \in 1..Len(shown) : i < j => shown[i] < shown[j]
           /\ \A i \in 1..Len(shown) : shown[i] < cur.offset
           => \A i, j \in 1..Len(t) : i < j => t[i] < t[j]
    BY <1>1, ShowRun DEF t
  <2> QED BY <2>1, <1>1, <1>2
<1>4. shown' = t
  OBVIOUS
<1> HIDE DEF t
<1> QED BY <1>3, <1>4 DEF ShownBytes

\* How a failed write leaves the terminal.
LEMMA PartlyWritten ==
  ASSUME IInv, OutputFails
  PROVE  \/ shown' = shown
         \/ /\ cli = "write"
            /\ \E e \in Nat : /\ cur.offset <= e /\ e <= EndOf(cur)
                             /\ shown' = shown \o Bytes(cur.offset, e)
<1>1. PICK n \in 0..(IF cli = "write" THEN Len(Fresh) ELSE 0) :
        shown' = shown \o SubSeq(Fresh, 1, n)
  BY DEF OutputFails
<1>2. shown \in Seq(Nat) /\ cur \in Frame /\ received \in Nat
  BY DEF IInv, TypeOK, ClientType
<1>3. CASE cli = "write"
  <2> DEFINE a == cur.offset
             b == EndOf(cur)
  <2>1. a \in Nat /\ b \in Nat /\ a <= b /\ Fresh = Bytes(a, b)
    BY <1>3, AcceptedIsFresh
  <2>2. n \in 0..Len(Fresh)
    BY <1>3
  <2> HIDE DEF a, b
  <2>3. Len(Fresh) = b - a
    BY <2>1, BytesType
  <2>4. n \in Nat /\ 0 \in Nat /\ 0 <= n /\ n <= b - a
    BY <2>1, <2>2, <2>3
  <2>5. SubSeq(Bytes(a, b), 0 + 1, n) = Bytes(a + 0, a + n)
    <3>1. Part(a, b, 0, n) = Bytes(a + 0, a + n)
      BY <2>1, <2>4, BytesSubSeq
    <3> QED BY <3>1 DEF Part
  <2>6. 0 + 1 = 1 /\ a + 0 = a /\ a + n \in Nat /\ a <= a + n /\ a + n <= b
    BY <2>1, <2>4
  <2>7. shown' = shown \o Bytes(a, a + n)
    BY <1>1, <2>1, <2>5, <2>6
  <2> QED BY <1>3, <2>6, <2>7 DEF a, b
<1>4. CASE cli # "write"
  <2>1. n = 0
    BY <1>4
  <2>2. SubSeq(Fresh, 1, n) \in Seq(Nat) /\ Len(SubSeq(Fresh, 1, n)) = 0
    <3>1. Fresh \in Seq(Nat) /\ Len(Fresh) \in Nat
      BY <1>2, FreshLength
    <3>2. n \in Nat /\ n <= Len(Fresh) /\ 1 \in Nat \ {0}
      BY <2>1, <3>1
    <3>3. /\ SubSeq(Fresh, 1, n) \in Seq(Nat)
          /\ Len(SubSeq(Fresh, 1, n)) = IF 1 <= n THEN n - 1 + 1 ELSE 0
      BY <3>1, <3>2, PartType
    <3> QED BY <3>3, <2>1
  <2>3. SubSeq(Fresh, 1, n) = << >>
    BY <2>2, EmptySeq
  <2> QED BY <1>1, <1>2, <2>3, ConcatEmptySeq
<1> QED BY <1>3, <1>4

\* The steps that touch a terminal.
LEMMA TerminalSteps ==
  ASSUME Next
  PROVE  \/ ClientNotice \/ ClientWrite \/ OutputFails \/ Attach
         \/ UNCHANGED <<shown, reported>>
<1>1. Leaves => OutputFails \/ Attach \/ UNCHANGED <<shown, reported>>
  BY DEF Leaves, ClientRejected, HandshakeFails, DialFails, ReaderStops,
     ReaderDisconnected, ReaderEnded, Killed
<1>2. ASSUME NEW o \in {"detached", "disconnected"}, WriterStops(o)
      PROVE  UNCHANGED <<shown, reported>>
  BY <1>2 DEF WriterStops
<1> QED BY <1>1, <1>2, ClientSteps DEF Dial, ClientHello, ClientEnter, ClientFrame,
            ClientCommit

LEMMA ExactlyOnceInOrderStep ==
  ASSUME IInv, Next
  PROVE  ExactlyOnceInOrder'
<1>0. /\ shown \in Seq(Nat) /\ reported \in SUBSET Nat
      /\ \A i, j \in 1..Len(shown) : i < j => shown[i] < shown[j]
      /\ ShownBytes \cap reported = {}
  BY DEF IInv, TypeOK, ClientType, ExactlyOnceInOrder
<1>1. CASE ClientNotice
  <2>1. /\ cli = "gap" /\ shown' = shown
        /\ reported' = reported \cup received..(cur.offset - 1)
    BY <1>1 DEF ClientNotice
  <2>2. ShownBytes \cup reported = 0..(received - 1) /\ received \in Nat
    BY <2>1 DEF IInv, TerminalPlace, Stopped, Front, TypeOK, ClientType
  <2>3. ShownBytes \cap (received..(cur.offset - 1)) = {}
    BY <2>2
  <2>4. ShownBytes' = ShownBytes
    BY <2>1 DEF ShownBytes
  <2> QED BY <1>0, <2>1, <2>3, <2>4 DEF ExactlyOnceInOrder
<1>2. ASSUME cli = "write", NEW e \in Nat, cur.offset <= e,
             shown' = shown \o Bytes(cur.offset, e), reported' = reported
      PROVE  ExactlyOnceInOrder'
  <2>1. /\ ShownBytes' = ShownBytes \cup cur.offset..(e - 1)
        /\ \A i, j \in 1..Len(shown') : i < j => shown'[i] < shown'[j]
    BY <1>2, Written
  <2>2. ShownBytes \cup reported = 0..(cur.offset - 1) /\ cur.offset \in Nat
    BY <1>2, AcceptedIsFresh DEF IInv, TerminalPlace, Stopped
  <2>3. (cur.offset..(e - 1)) \cap reported = {}
    BY <2>2
  <2>4. ShownBytes' \cap reported' = {}
    BY <2>1, <2>3, <1>0, <1>2
  <2> QED BY <2>1, <2>4 DEF ExactlyOnceInOrder
<1>3. CASE UNCHANGED <<shown, reported>>
  BY <1>3 DEF IInv, ExactlyOnceInOrder, ShownBytes
<1>4. CASE ClientWrite
  <2>1. /\ cli = "write" /\ reported' = reported
        /\ shown' = shown \o Bytes(cur.offset, EndOf(cur))
        /\ EndOf(cur) \in Nat /\ cur.offset <= EndOf(cur)
    BY <1>4, AcceptedIsFresh DEF ClientWrite
  <2> QED BY <1>2, <2>1
<1>5. CASE OutputFails
  <2>1. reported' = reported
    BY <1>5 DEF OutputFails
  <2> QED BY <1>2, <1>3, <1>5, <2>1, PartlyWritten
<1>6. CASE Attach
  <2>1. shown' = << >> /\ reported' = {} /\ Len(<< >>) = 0
    BY <1>6, EmptySeq DEF Attach
  <2>2. Len(shown') = 0
    BY <2>1
  <2> QED BY <2>1, <2>2 DEF ExactlyOnceInOrder
<1> QED BY <1>1, <1>3, <1>4, <1>5, <1>6, TerminalSteps

\* A gap is announced only before a frame that starts where the ring did, or
\* before it.
LEMMA HonestGapStep ==
  ASSUME IInv, Next
  PROVE  HonestGap'
<1>0. /\ ring.start \in Nat /\ ring'.start \in Nat /\ ring.start <= ring'.start
      /\ reported \in SUBSET Nat
      /\ \A p \in reported : p < ring.start
  BY Growth DEF IInv, TypeOK, ClientType, HonestGap
<1>1. CASE ClientNotice
  <2>1. cli = "gap" /\ reported' = reported \cup received..(cur.offset - 1)
    BY <1>1 DEF ClientNotice
  <2>2. cur.offset > received /\ Follows(received, cur, ring.start)
    BY <2>1 DEF IInv, Contiguous, Accepting
  <2>3. cur.offset <= ring.start /\ cur.offset \in Nat /\ received \in Nat
    <3>1. cur \in Frame /\ received \in Nat
      BY PlaceTypes DEF IInv
    <3> QED BY <3>1, <2>2, EndOfType DEF Follows
  <2>4. ASSUME NEW p \in reported' PROVE p < ring'.start
    <3>1. CASE p \in reported
      BY <1>0, <3>1
    <3>2. CASE p \in received..(cur.offset - 1)
      BY <1>0, <2>3, <3>2
    <3> QED BY <2>1, <3>1, <3>2
  <2> QED BY <2>4 DEF HonestGap
<1>2. CASE reported' = reported \/ reported' = {}
  <2>1. ASSUME NEW p \in reported' PROVE p < ring'.start
    <3>1. p \in reported /\ p \in Nat /\ p < ring.start
      BY <1>0, <1>2
    <3> QED BY <1>0, <3>1
  <2> QED BY <2>1 DEF HonestGap
<1>3. ClientWrite \/ OutputFails => reported' = reported
  BY DEF ClientWrite, OutputFails
<1>4. Attach => reported' = {}
  BY DEF Attach
<1> QED BY <1>1, <1>2, <1>3, <1>4, TerminalSteps

\* How far the terminal is, after each step of the client.
LEMMA TerminalPlaceStep ==
  ASSUME IInv, Next
  PROVE  TerminalPlace'
<1>0. /\ shown \in Seq(Nat) /\ reported \in SUBSET Nat /\ received \in Nat
      /\ NoSilentLoss
      /\ cli \notin Stopped => ShownBytes \cup reported = 0..(Front - 1)
  BY DEF IInv, TerminalPlace, TypeOK, ClientType
\* Either the client goes on, and its terminal is where Front says...
<1>1. ASSUME NEW n \in Nat, n >= received', Front' = n,
             ShownBytes' \cup reported' = 0..(n - 1)
      PROVE  TerminalPlace'
  <2>1. received' \in Nat
    BY TypeStep DEF TypeOK, ClientType
  <2> DEFINE m == received'
  <2>2. 0..(m - 1) \subseteq 0..(n - 1)
    <3>1. m \in Nat /\ n \in Nat /\ n >= m
      BY <1>1, <2>1
    <3> HIDE DEF m
    <3> QED BY <3>1
  <2>3. NoSilentLoss'
    BY <1>1, <2>2 DEF NoSilentLoss, ShownBytes
  <2> QED BY <1>1, <2>3 DEF TerminalPlace
\* ... or it stops, and has lost nothing.
<1>2. ASSUME cli' \in Stopped, received' = received, ShownBytes \subseteq ShownBytes',
             reported \subseteq reported'
      PROVE  TerminalPlace'
  <2>1. NoSilentLoss'
    BY <1>0, <1>2 DEF NoSilentLoss
  <2> QED BY <1>2, <2>1 DEF TerminalPlace
<1>3. CASE ClientFrame
  <2>1. /\ cli = "read" /\ cli' \in {"read", "gap", "write"}
        /\ UNCHANGED <<received, shown, reported>>
    BY <1>3 DEF ClientFrame
  <2>2. cli' = "write" => cur'.offset = received
    <3>1. /\ wire # << >> /\ cur' = Head(wire)
          /\ cli' = CASE EndOf(cur') <= received -> "read"
                      [] EndOf(cur') > received /\ cur'.offset > received -> "gap"
                      [] OTHER -> "write"
      BY <1>3 DEF ClientFrame
    <3>2. cur' \in Frame
      BY TypeStep DEF TypeOK, ClientType
    <3>3. EndOf(cur') \in Nat /\ cur'.offset \in Nat
      BY <3>2, EndOfType
    <3>4. cli' = "write" => ~(cur'.offset > received)
      BY <3>1, <3>3, <1>0
    <3>5. cli' = "write" => cur'.offset >= received
      BY <1>3, <2>1, AheadReads DEF Accepting, Follows
    <3> QED BY <3>3, <3>4, <3>5, <1>0
  <2>3. Front' = received /\ Front = received
    BY <2>1, <2>2 DEF Front
  <2>4. ShownBytes' \cup reported' = 0..(received - 1)
    BY <1>0, <2>1, <2>3 DEF Stopped, ShownBytes
  <2> QED BY <1>0, <1>1, <2>1, <2>3, <2>4
<1>4. CASE ClientNotice
  <2>1. /\ cli = "gap" /\ cli' = "write" /\ UNCHANGED <<received, cur, shown>>
        /\ reported' = reported \cup received..(cur.offset - 1)
    BY <1>4 DEF ClientNotice
  <2>2. cur.offset \in Nat /\ cur.offset > received
    <3>1. cur \in Frame
      BY PlaceTypes DEF IInv
    <3> QED BY <2>1, <3>1, EndOfType DEF IInv, Contiguous
  <2>3. Front' = cur.offset /\ Front = received
    BY <2>1 DEF Front
  <2>4. ShownBytes' = ShownBytes
    BY <2>1 DEF ShownBytes
  <2>5. ShownBytes \cup reported = 0..(received - 1)
    BY <1>0, <2>1, <2>3 DEF Stopped
  <2>6. 0..(cur.offset - 1) = (0..(received - 1)) \cup (received..(cur.offset - 1))
    BY <1>0, <2>2
  <2>7. ShownBytes' \cup reported' = 0..(cur.offset - 1)
    BY <2>1, <2>4, <2>5, <2>6
  <2> QED BY <1>0, <1>1, <2>1, <2>2, <2>3, <2>7
<1>5. CASE ClientWrite
  <2>1. /\ cli = "write" /\ cli' = "flush" /\ UNCHANGED <<received, cur, reported>>
        /\ shown' = shown \o Fresh
    BY <1>5 DEF ClientWrite
  <2>2. /\ cur.offset \in Nat /\ EndOf(cur) \in Nat /\ cur.offset <= EndOf(cur)
        /\ received <= cur.offset /\ Front = cur.offset
        /\ shown' = shown \o Bytes(cur.offset, EndOf(cur))
    BY <2>1, AcceptedIsFresh
  <2>3. ShownBytes' = ShownBytes \cup cur.offset..(EndOf(cur) - 1)
    BY <2>1, <2>2, Written
  <2>4. Front' = EndOf(cur)
    BY <2>1 DEF Front, EndOf
  <2>5. ShownBytes \cup reported = 0..(cur.offset - 1)
    BY <1>0, <2>1, <2>2 DEF Stopped
  <2>6. 0..(EndOf(cur) - 1) = (0..(cur.offset - 1)) \cup (cur.offset..(EndOf(cur) - 1))
    BY <2>2
  <2>7. ShownBytes' \cup reported' = 0..(EndOf(cur) - 1)
    BY <2>1, <2>3, <2>5, <2>6
  <2>8. EndOf(cur) >= received'
    BY <1>0, <2>1, <2>2
  <2> QED BY <1>1, <2>2, <2>4, <2>7, <2>8
<1>6. CASE ClientCommit
  <2>1. /\ cli = "flush" /\ cli' = "read" /\ received' = EndOf(cur)
        /\ UNCHANGED <<shown, reported>>
    BY <1>6 DEF ClientCommit
  <2>2. EndOf(cur) \in Nat
    BY PlaceTypes DEF IInv
  <2>3. Front = EndOf(cur) /\ Front' = EndOf(cur)
    BY <2>1 DEF Front
  <2>4. ShownBytes' \cup reported' = 0..(EndOf(cur) - 1)
    BY <1>0, <2>1, <2>3 DEF Stopped, ShownBytes
  <2> QED BY <1>1, <2>1, <2>2, <2>3, <2>4
<1>7. CASE Attach
  <2>1. received' = 0 /\ shown' = << >> /\ reported' = {} /\ cli' = "dial"
    BY <1>7 DEF Attach, HangUp
  <2>2. Len(shown') = 0 /\ Front' = 0
    BY <2>1, EmptySeq DEF Front
  <2> DEFINE n == 0
  <2>3. /\ n \in Nat /\ n >= received' /\ Front' = n
        /\ ShownBytes' \cup reported' = 0..(n - 1)
    BY <2>1, <2>2 DEF ShownBytes
  <2> HIDE DEF n
  <2> QED BY <1>1, <2>3
<1>8. CASE OutputFails
  <2>1. cli' \in Stopped /\ UNCHANGED <<received, reported>>
    BY <1>8 DEF OutputFails, HangUp, Stopped
  <2>2. ASSUME NEW e \in Nat, cli = "write", cur.offset <= e,
               shown' = shown \o Bytes(cur.offset, e)
        PROVE  ShownBytes \subseteq ShownBytes'
    BY <2>2, Written
  <2>3. shown' = shown => ShownBytes \subseteq ShownBytes'
    BY DEF ShownBytes
  <2> QED BY <1>2, <1>8, <2>1, <2>2, <2>3, PartlyWritten
<1>9. ASSUME \/ cli \notin {"write", "flush"} /\ cli' \notin {"write", "flush"}
             \/ cli' = cli /\ cur' = cur,
             received' = received, shown' = shown, reported' = reported,
             cli \in Stopped => cli' \in Stopped
      PROVE  TerminalPlace'
  <2>1. Front' = Front
    BY <1>9 DEF Front, EndOf
  <2>2. ShownBytes' = ShownBytes /\ UNCHANGED <<received, reported>>
    BY <1>9 DEF ShownBytes
  <2>3. NoSilentLoss'
    BY <1>0, <2>2 DEF NoSilentLoss
  <2> QED BY <1>0, <1>9, <2>1, <2>2, <2>3 DEF TerminalPlace
<1>10. CASE Killed \/ ReaderEnded
  <2>1. cli' \in Stopped /\ UNCHANGED <<received, shown, reported>>
    BY <1>10 DEF Killed, ReaderEnded, HangUp, Stopped
  <2>2. ShownBytes' = ShownBytes
    BY <2>1 DEF ShownBytes
  <2> QED BY <1>2, <2>1, <2>2
<1>11. CASE \/ ClientRejected \/ HandshakeFails \/ DialFails
            \/ ReaderStops \/ ReaderDisconnected
  <2>1. /\ cli \in {"hello", "auth", "dial", "read"}
        /\ UNCHANGED <<received, shown, reported>>
    BY <1>11 DEF ClientRejected, HandshakeFails, DialFails, ReaderStops,
       ReaderDisconnected
  <2>2. cli' \notin {"write", "flush"}
    BY <1>11, Leaving DEF Leaves, Stopped
  <2> QED BY <1>9, <2>1, <2>2 DEF Stopped
<1>12. CASE Dial \/ ClientHello \/ ClientEnter
  <2>1. /\ cli \in {"hello", "auth", "dial"} /\ cli' \in {"hello", "auth", "read"}
        /\ UNCHANGED <<received, shown, reported>>
    BY <1>12 DEF Dial, ClientHello, ClientEnter
  <2> QED BY <1>9, <2>1 DEF Stopped
<1>13. ASSUME \/ \E o \in {"detached", "disconnected"} : WriterStops(o)
              \/ UNCHANGED clientVars
       PROVE  UNCHANGED <<cli, cur, received, shown, reported>>
  BY <1>13 DEF WriterStops
<1>14. CASE UNCHANGED <<cli, cur, received, shown, reported>>
  <2>1. /\ cli' = cli /\ cur' = cur
        /\ received' = received /\ shown' = shown /\ reported' = reported
    BY <1>14
  <2>2. cli \in Stopped => cli' \in Stopped
    BY <2>1
  <2> QED BY <1>9, <2>1, <2>2, Zenon
<1> QED BY <1>3, <1>4, <1>5, <1>6, <1>7, <1>8, <1>10, <1>11, <1>12, <1>13, <1>14,
          ClientSteps DEF Leaves

-----------------------------------------------------------------------------
(* The wakeups.                                                            *)

LEMMA WakeupStep ==
  ASSUME IInv, Next
  PROVE  Wakeup'
<1>0. /\ thread \in [Threads -> {"run", "notify", "tell", "done"}]
      /\ "reader" \in Threads
      /\ cursor <= taken /\ TypeOK /\ RetainsTail
      /\ ~woken =>
            /\ srv \in {"check", "wait"} /\ cursor < Total(ring)
                  => thread["reader"] = "notify"
            /\ srv = "wait" /\ ended => \E t \in Threads : thread[t] = "tell"
  BY DEF IInv, TypeOK, SessionType, WriterPlace, Wakeup, Threads
<1>1. CASE woken'
  BY <1>1 DEF Wakeup
<1>2. CASE srv' \notin {"check", "wait"}
  BY <1>2 DEF Wakeup
<1>3. CASE ReaderAppends
  <2>1. /\ UNCHANGED <<srv, ended, woken>> /\ thread["reader"] = "run"
        /\ thread' = [thread EXCEPT !["reader"] = "notify"]
    BY <1>3 DEF ReaderAppends
  <2>2. /\ thread'["reader"] = "notify"
        /\ \A t \in Threads : thread[t] = "tell" => thread'[t] = "tell"
    BY <1>0, <2>1
  <2> QED BY <1>0, <2>1, <2>2 DEF Wakeup
<1>4. ASSUME NEW t \in Threads, MarkEnded(t) PROVE Wakeup'
  <2>1. /\ UNCHANGED <<srv, cursor, woken, ring>> /\ thread[t] = "run"
        /\ thread' = [thread EXCEPT ![t] = IF ended THEN "done" ELSE "tell"]
    BY <1>4 DEF MarkEnded
  <2>2. /\ ~ended => thread'[t] = "tell"
        /\ \A u \in Threads : thread[u] \in {"tell", "notify"} => thread'[u] = thread[u]
    BY <1>0, <2>1
  <2>3. Total(ring') = Total(ring)
    BY <2>1
  <2> QED BY <1>0, <1>4, <2>1, <2>2, <2>3 DEF Wakeup
<1>5. CASE UNCHANGED sessionVars /\ UNCHANGED <<srv, cursor, woken>>
  BY <1>5 DEF IInv, Wakeup, Total
<1>6. CASE WriterRead
  <2>1. srv' # "check" \/ (cursor' = taken /\ UNCHANGED ring)
    <3>1. UNCHANGED ring
      BY <1>6 DEF WriterRead
    <3> QED BY <1>0, <1>6, <3>1, NextFrame DEF TypeOK
  <2>2. srv' # "wait"
    BY <1>6 DEF WriterRead
  <2>3. Total(ring) = taken /\ taken \in Nat
    <3>1. ring = LastBytes(taken) /\ taken \in Nat
      BY <1>0 DEF TypeOK, RetainsTail, SessionType
    <3> QED BY <3>1, LastBytesType
  <2>4. srv' = "check" => ~(cursor' < Total(ring'))
    BY <2>1, <2>3 DEF Total
  <2> QED BY <2>2, <2>4 DEF Wakeup, Total
<1>7. CASE WriterCheck
  <2>1. /\ UNCHANGED <<cursor, woken, sessionVars>> /\ srv = "check"
        /\ srv' = IF ended THEN "bye" ELSE "wait"
    BY <1>7 DEF WriterCheck
  <2> QED BY <1>0, <2>1 DEF Wakeup, Total
<1>8. ReaderNotifies \/ (\E t \in Threads : Tell(t)) => woken'
  BY DEF ReaderNotifies, Tell
<1>9. ASSUME \/ ServerHello \/ ServerAuth \/ WriterTop \/ WriterSend \/ WriterBye
             \/ WriterWakes \/ WriterTicks \/ ServerLeaves \/ Dial \/ Cut \/ Leaves
      PROVE  srv' \notin {"check", "wait"}
  BY <1>9, Leaving DEF ServerHello, ServerAuth, WriterTop, WriterSend, WriterBye,
     WriterWakes, WriterTicks, ServerLeaves, Dial, Cut, TaskGone
<1>10. ASSUME UNCHANGED <<srv, cursor, out>>, UNCHANGED sessionVars
       PROVE  Wakeup'
  <2>1. CASE UNCHANGED woken
    BY <1>5, <1>10, <2>1
  <2> QED BY <1>1, <1>2, <1>8, <1>9, <2>1, WokenSteps
<1>11. CASE UNCHANGED sessionVars
  BY <1>2, <1>6, <1>7, <1>9, <1>10, <1>11, WriterSteps
<1> QED BY <1>1, <1>3, <1>4, <1>8, <1>11, ThreadSteps

-----------------------------------------------------------------------------
(* The invariant.                                                          *)

LEMMA InitIInv == Init => IInv
<1> SUFFICES ASSUME Init PROVE IInv
  OBVIOUS
<1> USE DEF Init
<1>0. /\ << >> \in Seq(Nat) /\ << >> \in Seq(Frame) /\ Len(<< >>) = 0
      /\ NoFrame \in Frame /\ EndOf(NoFrame) = 0
  BY EmptySeq, NoFrameType
<1>1. PtyType /\ WriterType /\ ClientType
  BY <1>0 DEF PtyType, WriterType, ClientType
<1>2. LinkType
  BY <1>0, ReplayAssumption DEF LinkType
<1>3. SessionType
  <2>1. ring = [data |-> << >>, start |-> 0] /\ 0 <= RingBytes
    BY RingAssumption DEF EmptyRing
  <2>2. ring.data = << >> /\ ring \in [data : Seq(Nat), start : Nat]
    BY <1>0, <2>1
  <2>3. thread \in [Threads -> {"run", "notify", "tell", "done"}]
    OBVIOUS
  <2> QED BY <1>0, <2>1, <2>2, <2>3 DEF SessionType
<1>4. cuts \in 0..MaxCuts /\ clients \in 1..MaxClients
  BY ReplayAssumption
<1>5. RetainsTail
  <2>1. Excess(0) = 0
    BY RingAssumption DEF Excess
  <2>2. Bytes(0, 0) = << >>
    BY BytesEmpty
  <2> QED BY <2>1, <2>2 DEF RetainsTail, LastBytes, EmptyRing
<1>6. FramesGenuine
  BY <1>0, NoFrameGenuine DEF FramesGenuine
<1>7. Contiguous /\ WriterPlace
  BY <1>0 DEF Contiguous, WriterPlace, Accepting
<1>8. Handshake
  BY DEF Handshake
<1>9. ShownBytes = {} /\ Front = 0
  BY <1>0 DEF ShownBytes, Front
<1>10. TerminalPlace
  BY <1>9 DEF TerminalPlace, NoSilentLoss
<1>11. ExactlyOnceInOrder /\ HonestGap
  BY <1>0, <1>9 DEF ExactlyOnceInOrder, HonestGap
<1>12. Wakeup
  BY DEF Wakeup
<1> QED BY <1>1, <1>2, <1>3, <1>4, <1>5, <1>6, <1>7, <1>8, <1>10, <1>11, <1>12
        DEF IInv, TypeOK

LEMMA NextIInv == IInv /\ [Next]_vars => IInv'
<1> SUFFICES ASSUME IInv, [Next]_vars PROVE IInv'
  OBVIOUS
<1>1. CASE Next
  <2>1. TypeOK' /\ RetainsTail' /\ FramesGenuine' /\ Contiguous' /\ WriterPlace'
    BY <1>1, TypeStep, Growth, FramesGenuineStep, ContiguousStep, WriterPlaceStep
  <2>2. Handshake' /\ TerminalPlace' /\ ExactlyOnceInOrder' /\ HonestGap' /\ Wakeup'
    BY <1>1, HandshakeStep, TerminalPlaceStep, ExactlyOnceInOrderStep,
       HonestGapStep, WakeupStep
  <2> QED BY <2>1, <2>2 DEF IInv
<1>2. CASE UNCHANGED vars
  <2>1. TypeOK' /\ RetainsTail'
    BY <1>2 DEF IInv, vars, TypeOK, PtyType, SessionType, WriterType, LinkType,
       ClientType, RetainsTail
  <2>2. FramesGenuine' /\ Contiguous' /\ WriterPlace'
    BY <1>2 DEF IInv, vars, FramesGenuine, Genuine, Contiguous, WriterPlace, WireEnd,
       Ahead, EndOf
  <2>3. Handshake' /\ ExactlyOnceInOrder' /\ HonestGap' /\ Wakeup'
    BY <1>2 DEF IInv, vars, Handshake, ExactlyOnceInOrder, ShownBytes, HonestGap,
       Wakeup, Total
  <2>4. TerminalPlace'
    BY <1>2 DEF IInv, vars, TerminalPlace, NoSilentLoss, ShownBytes, Front, EndOf
  <2> QED BY <2>1, <2>2, <2>3, <2>4 DEF IInv
<1> QED BY <1>1, <1>2

\* The inductive invariant holds of every behaviour.
THEOREM Invariance == Spec => []IInv
<1>1. Init => IInv
  BY InitIInv
<1>2. IInv /\ [Next]_vars => IInv'
  BY NextIInv
<1> QED BY <1>1, <1>2, PTL DEF Spec

-----------------------------------------------------------------------------
(* What it means for the user.                                             *)

\* Every variable keeps its type, and the ring and the socket their limits.
THEOREM TypeCorrect == Spec => []TypeOK
<1>1. IInv => TypeOK
  BY DEF IInv
<1> QED BY <1>1, Invariance, PTL

\* RingBuf retains the last RingBytes bytes, whatever the sizes of the reads.
THEOREM RingRetainsTail == Spec => []RetainsTail
<1>1. IInv => RetainsTail
  BY DEF IInv
<1> QED BY <1>1, Invariance, PTL

\* SessionOutput::accept and the resume offset show each byte at most once,
\* in order, across any number of connections lost at any point.
THEOREM ExactlyOnce == Spec => []ExactlyOnceInOrder
<1>1. IInv => ExactlyOnceInOrder
  BY DEF IInv
<1> QED BY <1>1, Invariance, PTL

\* What lies below the committed offset was shown or reported missing.
THEOREM NothingLostSilently == Spec => []NoSilentLoss
<1>1. IInv => NoSilentLoss
  BY DEF IInv, TerminalPlace
<1> QED BY <1>1, Invariance, PTL

\* The notice of a gap is only for bytes the session has dropped.
THEOREM GapsAreReal == Spec => []HonestGap
<1>1. IInv => HonestGap
  BY DEF IInv
<1> QED BY <1>1, Invariance, PTL

\* handle_tcp never answers a client's resume with BadOffset.
THEOREM NeverBadOffset == Spec => []ResumeAccepted
<1>1. IInv => ResumeAccepted
  BY DEF IInv, Handshake, ResumeAccepted
<1> QED BY <1>1, Invariance, PTL

\* Registering the wakeup before the read is enough: server_writer never
\* sleeps over output, or over the end of the session.
THEOREM WakeupsAreKept == Spec => []NoLostWakeup
<1>1. IInv => NoLostWakeup
  BY DEF IInv, Wakeup, NoLostWakeup
<1> QED BY <1>1, Invariance, PTL

-----------------------------------------------------------------------------
(* The pipeline implements OutputStream.                                   *)

LEMMA StreamInit == Init => Stream!Init
BY DEF Init, Stream!Init

\* A frame of genuine bytes at the front of the terminal is a Show.
LEMMA ShowStep ==
  ASSUME IInv, cli = "write", NEW e \in Nat, cur.offset <= e, e <= EndOf(cur),
         shown' = shown \o Bytes(cur.offset, e), UNCHANGED <<taken, reported>>
  PROVE  Stream!Show
<1>1. /\ cur.offset \in Nat /\ EndOf(cur) \in Nat /\ EndOf(cur) <= taken
      /\ taken \in Nat
  BY AcceptedIsFresh DEF IInv, FramesGenuine, Genuine, TypeOK, SessionType
<1>2. cur.offset \in 0..taken /\ e \in cur.offset..taken
  BY <1>1
<1>3. Stream!AccountedTo(cur.offset)
  <2>1. ShownBytes \cup reported = 0..(cur.offset - 1)
    BY AcceptedIsFresh DEF IInv, TerminalPlace, Stopped
  <2> QED BY <2>1 DEF Stream!AccountedTo, Stream!ShownBytes, ShownBytes
<1>4. Bytes(cur.offset, e) = [i \in 1..(e - cur.offset) |-> cur.offset + i - 1]
  BY DEF Bytes
<1> QED BY <1>2, <1>3, <1>4 DEF Stream!Show

LEMMA StreamStep ==
  ASSUME IInv, [Next]_vars
  PROVE  [Stream!Next]_(Stream!streamVars)
<1> USE DEF Stream!streamVars
<1>1. CASE ReaderAppends
  <2>1. taken' > taken
    <3>1. taken \in Nat /\ taken' \in Nat /\ taken < taken'
      BY <1>1, ReaderRead DEF IInv, TypeOK, SessionType
    <3> QED BY <3>1
  <2>2. UNCHANGED <<shown, reported>>
    BY <1>1 DEF ReaderAppends
  <2> QED BY <2>1, <2>2 DEF Stream!Produce, Stream!Next
<1>2. CASE ClientNotice
  <2>1. /\ cli = "gap" /\ UNCHANGED <<shown, taken>>
        /\ reported' = reported \cup received..(cur.offset - 1)
    BY <1>2 DEF ClientNotice
  <2>2. /\ cur.offset > received /\ Follows(received, cur, ring.start)
        /\ cur \in Frame /\ received \in Nat /\ taken \in Nat
    BY <2>1, PlaceTypes DEF IInv, Contiguous, Accepting
  <2>3. cur.offset \in Nat /\ cur.offset <= ring.start
    BY <2>2, EndOfType DEF Follows
  <2>4. ring.start = Stream!Forgotten /\ Stream!Forgotten \in Nat
    <3>1. ring.start = Excess(taken)
      BY DEF IInv, RetainsTail, LastBytes
    <3> QED BY <2>2, <3>1, ExcessType DEF Stream!Forgotten, Excess
  <2>5. received \in 0..Stream!Forgotten /\ cur.offset \in received..Stream!Forgotten
    <3> DEFINE g == Stream!Forgotten
    <3>1. g \in Nat /\ cur.offset <= g
      BY <2>3, <2>4
    <3> HIDE DEF g
    <3>2. received \in 0..g /\ cur.offset \in received..g
      BY <2>2, <2>3, <3>1
    <3> QED BY <3>2 DEF g
  <2>6. Stream!AccountedTo(received)
    <3>1. ShownBytes \cup reported = 0..(received - 1)
      BY <2>1 DEF IInv, TerminalPlace, Stopped, Front
    <3> QED BY <3>1 DEF Stream!AccountedTo, Stream!ShownBytes, ShownBytes
  <2> QED BY <2>1, <2>5, <2>6 DEF Stream!Report, Stream!Next
<1>3. CASE ClientWrite
  <2>1. /\ cli = "write" /\ UNCHANGED <<taken, reported>>
        /\ EndOf(cur) \in Nat /\ cur.offset <= EndOf(cur) /\ EndOf(cur) <= EndOf(cur)
        /\ shown' = shown \o Bytes(cur.offset, EndOf(cur))
    BY <1>3, AcceptedIsFresh DEF ClientWrite
  <2> QED BY <2>1, ShowStep DEF Stream!Next
<1>4. CASE OutputFails
  <2>1. UNCHANGED <<taken, reported>>
    BY <1>4 DEF OutputFails, HangUp
  <2>2. ASSUME NEW e \in Nat, cli = "write", cur.offset <= e, e <= EndOf(cur),
               shown' = shown \o Bytes(cur.offset, e)
        PROVE  Stream!Show
    BY <2>1, <2>2, ShowStep
  <2> QED BY <1>4, <2>1, <2>2, PartlyWritten DEF Stream!Next
<1>5. CASE Attach
  <2>1. shown' = << >> /\ reported' = {} /\ UNCHANGED taken
    BY <1>5 DEF Attach, HangUp
  <2> QED BY <2>1 DEF Stream!NewTerminal, Stream!Next
<1>6. CASE UNCHANGED <<shown, reported>> /\ UNCHANGED taken
  BY <1>6
<1>7. CASE UNCHANGED vars
  BY <1>6, <1>7 DEF vars
<1> QED BY <1>1, <1>2, <1>3, <1>4, <1>5, <1>6, <1>7, TerminalSteps, RingSteps

\* From the shell to the terminal, thther keeps the promise of OutputStream:
\* the bytes in order, each at most once, and what is gone is reported.
THEOREM Implementation == Spec => ImplementsOutputStream
<1>1. Init => Stream!Init
  BY StreamInit
<1>2. IInv /\ [Next]_vars => [Stream!Next]_(Stream!streamVars)
  BY StreamStep
<1> QED BY <1>1, <1>2, Invariance, PTL DEF Spec, ImplementsOutputStream, Stream!Spec
=============================================================================
