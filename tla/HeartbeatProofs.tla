--------------------------- MODULE HeartbeatProofs ---------------------------
(***************************************************************************)
(* Proofs that the four tasks of Heartbeat never wait for one another in a *)
(* circle, for any room in the channels and the socket, if the unanswered  *)
(* Pings fit in a pong channel; and of the types.  Both count the frames   *)
(* of a kind on their way: the Pings, and the keys.                        *)
(***************************************************************************)
EXTENDS Heartbeat, TLAPS

-----------------------------------------------------------------------------
(* How many frames of a kind are on their way in one direction.            *)

One(frame, kind) == IF frame = kind THEN 1 ELSE 0

\* count[i]: from base, what the first i frames of q bring.
Counts(count, q, kind, base, total) ==
  /\ count \in [0..Len(q) -> Nat] /\ count[0] = base /\ count[Len(q)] = total
  /\ \A i \in 1..Len(q) : count[i] = count[i - 1] + One(q[i], kind)
  /\ \A i, j \in 0..Len(q) : i <= j => count[i] <= count[j]

Tally(q, kind, base, total) == \E count : Counts(count, q, kind, base, total)

LEMMA TallyEmpty ==
  ASSUME NEW kind, NEW base \in Nat
  PROVE  Tally(<< >>, kind, base, base)
<1>1. Len(<< >>) = 0  OBVIOUS
<1>2. Counts([i \in 0..0 |-> base], << >>, kind, base, base)  BY <1>1 DEF Counts
<1> QED  BY <1>2 DEF Tally

LEMMA TallyGrows ==
  ASSUME NEW S, NEW q \in Seq(S), NEW kind, NEW base, NEW total, Tally(q, kind, base, total)
  PROVE  base \in Nat /\ total \in Nat /\ base <= total
<1>1. PICK k : Counts(k, q, kind, base, total)  BY DEF Tally
<1>2. Len(q) \in Nat  OBVIOUS
<1> QED  BY <1>1, <1>2 DEF Counts

\* What was counted before the queue may be counted off.
LEMMA TallyLess ==
  ASSUME NEW S, NEW q \in Seq(S), NEW kind, NEW base \in Nat, NEW total,
         Tally(q, kind, base + 1, total)
  PROVE  total - 1 \in Nat /\ Tally(q, kind, base, total - 1)
<1> DEFINE n == Len(q)
<1>1. PICK k : Counts(k, q, kind, base + 1, total)  BY DEF Tally
<1>2. n \in Nat  OBVIOUS
<1>3. /\ k \in [0..n -> Nat] /\ k[0] = base + 1 /\ k[n] = total
      /\ \A i \in 1..n : k[i] = k[i - 1] + One(q[i], kind)
      /\ \A i, j \in 0..n : i <= j => k[i] <= k[j]
  BY <1>1 DEF Counts
<1> HIDE DEF n
<1>4. PICK p : p = [i \in 0..n |-> k[i] - 1]  OBVIOUS
<1>5. \A i \in 0..n : k[i] \in Nat /\ base + 1 <= k[i] /\ p[i] = k[i] - 1
  BY <1>2, <1>3, <1>4
<1>6. /\ p \in [0..n -> Nat] /\ p[0] = base /\ p[n] = total - 1 /\ total - 1 \in Nat
  BY <1>2, <1>3, <1>4, <1>5
<1>7. \A i \in 1..n : p[i] = p[i - 1] + One(q[i], kind)
  <2>1. SUFFICES ASSUME NEW i \in 1..n PROVE p[i] = p[i - 1] + One(q[i], kind)  OBVIOUS
  <2>2. i \in 0..n /\ i - 1 \in 0..n  BY <1>2
  <2>3. One(q[i], kind) \in {0, 1} /\ k[i] = k[i - 1] + One(q[i], kind)  BY <1>3 DEF One
  <2> QED  BY <1>5, <2>2, <2>3
<1>8. \A i, j \in 0..n : i <= j => p[i] <= p[j]  BY <1>3, <1>5
<1>9. Counts(p, q, kind, base, total - 1)  BY <1>6, <1>7, <1>8 DEF Counts, n
<1> QED  BY <1>6, <1>9 DEF Tally

\* A frame joins the queue.
LEMMA TallyAppend ==
  ASSUME NEW S, NEW q \in Seq(S), NEW f \in S, NEW kind, NEW base, NEW total,
         Tally(q, kind, base, total)
  PROVE  Tally(Append(q, f), kind, base, total + One(f, kind))
<1> DEFINE n == Len(q)
           r == Append(q, f)
           last == total + One(f, kind)
<1>1. PICK k : Counts(k, q, kind, base, total)  BY DEF Tally
<1>2. /\ n \in Nat /\ Len(r) = n + 1 /\ r[n + 1] = f
      /\ \A i \in 1..n : r[i] = q[i]
  OBVIOUS
<1>3. /\ k \in [0..n -> Nat] /\ k[0] = base /\ k[n] = total
      /\ \A i \in 1..n : k[i] = k[i - 1] + One(q[i], kind)
      /\ \A i, j \in 0..n : i <= j => k[i] <= k[j]
  BY <1>1 DEF Counts
<1>4. One(f, kind) \in {0, 1}  BY DEF One
<1>5. total \in Nat /\ last \in Nat /\ total <= last  BY <1>2, <1>3, <1>4
<1>6. PICK p : p = [i \in 0..(n + 1) |-> IF i = n + 1 THEN last ELSE k[i]]  OBVIOUS
<1> HIDE DEF n, r, last
<1>7. /\ p \in [0..(n + 1) -> Nat] /\ p[n + 1] = last /\ p[0] = base
      /\ \A i \in 0..n : p[i] = k[i]
  BY <1>2, <1>3, <1>5, <1>6
<1>8. \A i \in 1..(n + 1) : p[i] = p[i - 1] + One(r[i], kind)
  <2>1. \A i \in 1..n : p[i] = p[i - 1] + One(r[i], kind)  BY <1>2, <1>3, <1>7
  <2>2. ASSUME NEW i \in 1..(n + 1), i = n + 1 PROVE p[i] = p[i - 1] + One(r[i], kind)
    <3>1. i - 1 = n /\ n \in 0..n  BY <1>2, <2>2
    <3>2. p[i - 1] = total /\ p[i] = last /\ r[i] = f  BY <1>2, <1>3, <1>7, <2>2, <3>1
    <3> QED  BY <3>2 DEF last
  <2>3. \A i \in 1..(n + 1) : i \in 1..n \/ i = n + 1  BY <1>2
  <2> QED  BY <2>1, <2>2, <2>3
<1>9. \A i, j \in 0..(n + 1) : i <= j => p[i] <= p[j]
  <2>1. ASSUME NEW i \in 0..(n + 1), NEW j \in 0..(n + 1), i <= j PROVE p[i] <= p[j]
    <3>1. CASE j = n + 1 /\ i = n + 1  BY <1>5, <1>7, <3>1
    <3>2. CASE j = n + 1 /\ i # n + 1
      <4>1. i \in 0..n /\ n \in 0..n  BY <1>2, <3>2
      <4>2. p[i] = k[i] /\ p[j] = last /\ k[i] \in Nat /\ k[i] <= total
        BY <1>2, <1>3, <1>7, <3>2, <4>1
      <4> QED  BY <1>5, <4>2
    <3>3. CASE j # n + 1
      <4>1. i \in 0..n /\ j \in 0..n  BY <1>2, <2>1, <3>3
      <4> QED  BY <1>3, <1>7, <2>1, <4>1
    <3> QED  BY <3>1, <3>2, <3>3
  <2> QED  BY <2>1
<1>10. Counts(p, r, kind, base, last)  BY <1>2, <1>7, <1>8, <1>9 DEF Counts
<1> QED  BY <1>10 DEF Tally, r, last

\* The first frame leaves the queue, and is counted as arrived.
LEMMA TallyTail ==
  ASSUME NEW S, NEW q \in Seq(S), q # << >>, NEW kind, NEW base, NEW total,
         Tally(q, kind, base, total)
  PROVE  Tally(Tail(q), kind, base + One(Head(q), kind), total)
<1> DEFINE n == Len(q)
           r == Tail(q)
           next == base + One(Head(q), kind)
<1>1. PICK k : Counts(k, q, kind, base, total)  BY DEF Tally
<1>2. /\ n \in Nat /\ n > 0 /\ Len(r) = n - 1 /\ Head(q) = q[1]
      /\ \A i \in 1..(n - 1) : r[i] = q[i + 1]
  OBVIOUS
<1>3. /\ k \in [0..n -> Nat] /\ k[0] = base /\ k[n] = total
      /\ \A i \in 1..n : k[i] = k[i - 1] + One(q[i], kind)
      /\ \A i, j \in 0..n : i <= j => k[i] <= k[j]
  BY <1>1 DEF Counts
<1>4. PICK p : p = [i \in 0..(n - 1) |-> k[i + 1]]  OBVIOUS
<1> HIDE DEF n, r
<1>5. /\ p \in [0..(n - 1) -> Nat] /\ p[n - 1] = total
      /\ \A i \in 0..(n - 1) : i + 1 \in 1..n /\ i + 1 \in 0..n /\ p[i] = k[i + 1]
  BY <1>2, <1>3, <1>4
<1>6. p[0] = next
  <2>1. p[0] = k[0 + 1] /\ 1 \in 1..n  BY <1>2, <1>5
  <2>2. k[1] = k[1 - 1] + One(q[1], kind)  BY <1>3, <2>1
  <2> QED  BY <1>2, <1>3, <2>1, <2>2
<1>7. \A i \in 1..(n - 1) : p[i] = p[i - 1] + One(r[i], kind)
  <2>1. SUFFICES ASSUME NEW i \in 1..(n - 1) PROVE p[i] = p[i - 1] + One(r[i], kind)  OBVIOUS
  <2>2. i + 1 \in 1..n /\ p[i] = k[i + 1] /\ i - 1 \in 0..(n - 1) /\ r[i] = q[i + 1]
    BY <1>2, <1>5
  <2>3. i - 1 + 1 = i /\ i + 1 - 1 = i  BY <1>2
  <2>4. p[i - 1] = k[i]  BY <1>5, <2>2, <2>3
  <2>5. k[i + 1] = k[i + 1 - 1] + One(q[i + 1], kind)  BY <1>3, <2>2
  <2> QED  BY <2>2, <2>3, <2>4, <2>5
<1>8. \A i, j \in 0..(n - 1) : i <= j => p[i] <= p[j]
  <2>1. SUFFICES ASSUME NEW i \in 0..(n - 1), NEW j \in 0..(n - 1), i <= j PROVE p[i] <= p[j]
    OBVIOUS
  <2>2. i + 1 \in 0..n /\ j + 1 \in 0..n /\ i + 1 <= j + 1  BY <1>2, <2>1
  <2> QED  BY <1>3, <1>5, <2>2
<1>9. Counts(p, r, kind, next, total)  BY <1>2, <1>5, <1>6, <1>7, <1>8 DEF Counts
<1> QED  BY <1>9 DEF Tally, r

-----------------------------------------------------------------------------
(* Every unanswered Ping of the daemon is in one place: with server_writer, *)
(* on its way, with client_reader or in the pong channel.                   *)

FrameKinds == {"output", "pong", "ping"}

Shape ==
  /\ down \in Seq(FrameKinds) /\ sw \in FrameKinds \union {"top", "wait"}
  /\ cr \in {"read", "show", "pong"} /\ cpong \in Nat
  /\ unanswered \in Nat /\ unanswered <= Backlog

Arrived == cpong + One(cr, "pong")

Whereabouts ==
  \E sent \in Nat : /\ Tally(down, "ping", Arrived, sent)
                    /\ unanswered = sent + One(sw, "ping")

PingInv == Shape /\ Whereabouts

LEMMA PingInit == ASSUME Init PROVE PingInv
<1> USE HeartbeatAssumption DEF Init
<1>1. Shape  BY DEF Shape
<1>2. Arrived = 0 /\ One(sw, "ping") = 0  BY DEF Arrived, One
<1>3. Tally(down, "ping", Arrived, 0)  BY <1>2, TallyEmpty
<1> QED  BY <1>1, <1>2, <1>3 DEF PingInv, Whereabouts

\* Steps that leave the daemon's Pings where they are.
LEMMA Elsewhere ==
  ASSUME PingInv, UNCHANGED <<down, cr, cpong, unanswered>>,
         sw' \in FrameKinds \union {"top", "wait"}, One(sw', "ping") = One(sw, "ping")
  PROVE  PingInv'
BY DEF PingInv, Shape, Whereabouts, Arrived

LEMMA PingStep == ASSUME PingInv, [Next]_vars PROVE PingInv'
<1> USE DEF clientVars, serverVars
<1>0. PICK sent \in Nat : /\ Tally(down, "ping", Arrived, sent)
                          /\ unanswered = sent + One(sw, "ping")
  BY DEF PingInv, Whereabouts
<1>1. Shape /\ Arrived \in Nat /\ One(cr, "pong") \in {0, 1} /\ One(sw, "ping") \in {0, 1}
  BY DEF PingInv, Shape, Arrived, One
<1>2. CASE UNCHANGED <<down, cr, cpong, sw, unanswered>>
  BY <1>2, Elsewhere DEF PingInv, Shape
<1>3. CASE Type \/ Ask \/ Produce \/ Take \/ Detach \/ Tick \/ Write \/ Read \/ OwePong
           \/ UNCHANGED vars
  BY <1>2, <1>3 DEF Type, Ask, Produce, Take, Detach, Tick, Write, Read, OwePong, vars
<1>4. CASE AnswerPing
  <2>1. /\ UNCHANGED <<down, cr, sw>> /\ cpong > 0 /\ cpong' = cpong - 1
        /\ unanswered' = unanswered - 1
    BY <1>4 DEF AnswerPing
  <2>2. cpong' \in Nat /\ Arrived' \in Nat /\ Arrived = Arrived' + 1
    BY <1>1, <2>1 DEF Shape, Arrived
  <2>3. sent - 1 \in Nat /\ Tally(down, "ping", Arrived', sent - 1)
    BY <1>0, <1>1, <2>2, TallyLess DEF Shape
  <2>4. unanswered' = (sent - 1) + One(sw', "ping") /\ unanswered' \in Nat
    BY <1>0, <1>1, <2>1, <2>3
  <2>5. Shape'  BY <1>1, <2>1, <2>2, <2>4, HeartbeatAssumption DEF Shape
  <2> QED  BY <2>1, <2>3, <2>4, <2>5 DEF PingInv, Whereabouts
<1>5. CASE Receive
  <2>1. /\ down # << >> /\ down' = Tail(down) /\ cr = "read"
        /\ UNCHANGED <<cpong, sw, unanswered>>
    BY <1>5 DEF Receive
  <2>2. Head(down) \in FrameKinds /\ down' \in Seq(FrameKinds)
    BY <1>1, <2>1 DEF Shape
  <2>3. cr' \in {"read", "show", "pong"} /\ (cr' = "pong" <=> Head(down) = "ping")
    BY <1>5, <2>2 DEF Receive, FrameKinds
  <2>4. Arrived' = Arrived + One(Head(down), "ping")
    BY <1>1, <2>1, <2>3 DEF Arrived, One, Shape
  <2>5. Tally(down', "ping", Arrived', sent)
    BY <1>0, <1>1, <2>1, <2>4, TallyTail DEF Shape
  <2> QED  BY <1>0, <1>1, <2>1, <2>2, <2>3, <2>5 DEF PingInv, Shape, Whereabouts
<1>6. CASE Show
  <2>1. cr = "show" /\ cr' = "read" /\ UNCHANGED <<down, cpong, sw, unanswered>>
    BY <1>6 DEF Show
  <2>2. Arrived' = Arrived  BY <2>1 DEF Arrived, One
  <2> QED  BY <1>0, <1>1, <2>1, <2>2 DEF PingInv, Shape, Whereabouts
<1>7. CASE HandPong
  <2>1. /\ cr = "pong" /\ cpong' = cpong + 1 /\ cr' = "read"
        /\ UNCHANGED <<down, sw, unanswered>>
    BY <1>7 DEF HandPong
  <2>2. Arrived' = Arrived /\ cpong' \in Nat  BY <1>1, <2>1 DEF Arrived, One, Shape
  <2> QED  BY <1>0, <1>1, <2>1, <2>2 DEF PingInv, Shape, Whereabouts
<1>8. CASE Drain \/ LooksEmpty \/ Notified \/ Answer
  <2>1. /\ UNCHANGED <<down, cr, cpong, unanswered>>
        /\ sw # "ping" /\ sw' \in {"output", "wait", "top", "pong"}
    BY <1>8 DEF Drain, LooksEmpty, Notified, Answer
  <2> QED  BY <2>1, Elsewhere DEF One, FrameKinds
<1>9. CASE ServerTick
  <2>1. /\ sw = "wait" /\ sw' = "ping" /\ unanswered < Backlog
        /\ unanswered' = unanswered + 1 /\ UNCHANGED <<down, cr, cpong>>
    BY <1>9 DEF ServerTick
  <2>2. One(sw, "ping") = 0 /\ One(sw', "ping") = 1 /\ Arrived' = Arrived
    BY <2>1 DEF One, Arrived
  <2>3. unanswered' \in Nat /\ unanswered' <= Backlog
    BY <1>1, <2>1, HeartbeatAssumption DEF Shape
  <2>4. Shape'  BY <1>1, <2>1, <2>3 DEF Shape, FrameKinds
  <2> QED  BY <1>0, <2>1, <2>2, <2>4 DEF PingInv, Whereabouts
<1>10. CASE Send
  <2>1. /\ sw \in FrameKinds /\ down' = Append(down, sw) /\ sw' = "top"
        /\ UNCHANGED <<cr, cpong, unanswered>>
    BY <1>10 DEF Send, FrameKinds
  <2>2. /\ down' \in Seq(FrameKinds)
        /\ Tally(down', "ping", Arrived, sent + One(sw, "ping"))
    BY <1>0, <1>1, <2>1, TallyAppend DEF Shape
  <2>3. One(sw', "ping") = 0 /\ Arrived' = Arrived  BY <2>1 DEF One, Arrived
  <2>4. sent + One(sw, "ping") \in Nat
        /\ unanswered' = sent + One(sw, "ping") + One(sw', "ping")
    BY <1>0, <1>1, <2>1, <2>3
  <2>5. Shape'  BY <1>1, <2>1, <2>2 DEF Shape
  <2> QED  BY <2>2, <2>3, <2>4, <2>5 DEF PingInv, Whereabouts
<1> QED
  BY <1>3, <1>4, <1>5, <1>6, <1>7, <1>8, <1>9, <1>10 DEF Next

\* A reader with a pong to hand over finds room in its channel.
LEMMA PingRuns == ASSUME Backlog <= PongRoom, PingInv PROVE NoStandstill
<1>1. cr = "pong" => cpong < PongRoom
  <2>1. ASSUME cr = "pong" PROVE cpong < PongRoom
    <3>1. PICK sent \in Nat : /\ Tally(down, "ping", Arrived, sent)
                              /\ unanswered = sent + One(sw, "ping")
      BY DEF PingInv, Whereabouts
    <3>2. Arrived <= sent  BY <3>1, TallyGrows DEF PingInv, Shape
    <3>3. Arrived = cpong + 1 /\ One(sw, "ping") \in {0, 1}  BY <2>1 DEF Arrived, One
    <3> QED  BY <3>1, <3>2, <3>3, HeartbeatAssumption DEF PingInv, Shape
  <2> QED  BY <2>1
<1> QED  BY <1>1, HeartbeatAssumption DEF NoStandstill, PingInv, Shape

\* While no more of the daemon's Pings are unanswered than the pong channel has
\* room for, client_reader never waits for room in it and the circle of the four
\* tasks never closes, whatever the sizes of the channels and the socket, and
\* however many Pings, answers and frames of output are under way.
THEOREM NeverStuck == ASSUME Backlog <= PongRoom PROVE Spec => []NoStandstill
<1>1. Init => PingInv  BY PingInit
<1>2. PingInv /\ [Next]_vars => PingInv'  BY PingStep
<1>3. PingInv => NoStandstill  BY PingRuns
<1> QED  BY <1>1, <1>2, <1>3, PTL DEF Spec

-----------------------------------------------------------------------------
(* Types: the keys the PTY has been given are among those that were taken, *)
(* since the others are on their way, each in one frame.                   *)

UpKinds == {"key", "pong", "ack", "ping"}

Booleans == asked \in BOOLEAN /\ left \in BOOLEAN /\ data \in BOOLEAN

Numbers ==
  /\ typed \in 0..MaxKeys /\ taken \in 0..typed /\ given \in Nat /\ outs \in 0..MaxOutput
  /\ cpong \in 0..PongRoom /\ spong \in 0..PongRoom

Places ==
  /\ cr \in {"read", "show", "pong"} /\ sr \in {"read", "pong"}
  /\ sw \in FrameKinds \union {"top", "wait"}

Queues ==
  /\ cw \in {<< >>, <<"key">>, <<"pong">>, <<"ack", "ping">>, <<"ping">>}
  /\ up \in Seq(UpKinds) /\ Len(up) <= SocketRoom
  /\ down \in Seq(FrameKinds) /\ Len(down) <= SocketRoom

InTransit ==
  \E sent \in Nat : /\ Tally(up, "key", given, sent)
                    /\ taken = sent + (IF cw = <<"key">> THEN 1 ELSE 0)

KeyInv == Booleans /\ Numbers /\ Places /\ Queues /\ InTransit

LEMMA KeyInit == ASSUME Init PROVE KeyInv
<1> USE HeartbeatAssumption DEF Init
<1>1. Booleans /\ Places  BY DEF Booleans, Places
<1>2. Numbers  BY DEF Numbers
<1>3. Queues  BY DEF Queues
<1>4. Tally(up, "key", given, 0) /\ cw # <<"key">>
  <2>1. cw # <<"key">>  OBVIOUS
  <2> QED  BY <2>1, TallyEmpty
<1>5. InTransit  BY <1>4 DEF InTransit
<1> QED  BY <1>1, <1>2, <1>3, <1>5 DEF KeyInv

LEMMA BooleansStep == ASSUME KeyInv, [Next]_vars PROVE Booleans'
<1> USE DEF KeyInv, Booleans, clientVars, serverVars
<1>1. CASE Type \/ Ask \/ Produce \/ Take \/ Detach \/ AnswerPing \/ Tick \/ Write
  BY <1>1 DEF Type, Ask, Produce, Take, Detach, AnswerPing, Tick, Write
<1>2. CASE Receive \/ Show \/ HandPong \/ Read \/ OwePong \/ UNCHANGED vars
  BY <1>2 DEF Receive, Show, HandPong, Read, OwePong, vars
<1>3. CASE Drain \/ LooksEmpty \/ Notified \/ Answer \/ ServerTick \/ Send
  BY <1>3 DEF Drain, LooksEmpty, Notified, Answer, ServerTick, Send
<1> QED  BY <1>1, <1>2, <1>3 DEF Next

LEMMA NumbersStep == ASSUME KeyInv, [Next]_vars PROVE Numbers'
<1> USE HeartbeatAssumption DEF KeyInv, Numbers, clientVars, serverVars
<1>1. CASE Type  BY <1>1 DEF Type
<1>2. CASE Ask \/ Detach \/ Tick \/ Write  BY <1>2 DEF Ask, Detach, Tick, Write
<1>3. CASE Produce  BY <1>3 DEF Produce
<1>4. CASE Take  BY <1>4 DEF Take
<1>5. CASE AnswerPing  BY <1>5 DEF AnswerPing
<1>6. CASE Receive \/ Show \/ UNCHANGED vars  BY <1>6 DEF Receive, Show, vars
<1>7. CASE HandPong  BY <1>7 DEF HandPong
<1>8. CASE Read
  <2>1. given' \in {given, given + 1}  BY <1>8 DEF Read
  <2> QED  BY <1>8, <2>1 DEF Read
<1>9. CASE OwePong  BY <1>9 DEF OwePong
<1>10. CASE Drain \/ LooksEmpty \/ Notified \/ ServerTick \/ Send
  BY <1>10 DEF Drain, LooksEmpty, Notified, ServerTick, Send
<1>11. CASE Answer  BY <1>11 DEF Answer
<1> QED
  BY <1>1, <1>2, <1>3, <1>4, <1>5, <1>6, <1>7, <1>8, <1>9, <1>10, <1>11 DEF Next

LEMMA PlacesStep == ASSUME KeyInv, [Next]_vars PROVE Places'
<1> USE DEF KeyInv, Places, FrameKinds, clientVars, serverVars
<1>1. CASE Type \/ Ask \/ Produce \/ Take \/ Detach \/ AnswerPing \/ Tick \/ Write
  BY <1>1 DEF Type, Ask, Produce, Take, Detach, AnswerPing, Tick, Write
<1>2. CASE Receive
  <2>1. Head(down) \in FrameKinds
    <3>1. down \in Seq(FrameKinds) /\ down # << >>  BY <1>2 DEF Receive, Queues
    <3> HIDE DEF FrameKinds
    <3> QED  BY <3>1
  <2> QED  BY <1>2, <2>1 DEF Receive
<1>3. CASE Show \/ HandPong \/ Read \/ OwePong \/ UNCHANGED vars
  BY <1>3 DEF Show, HandPong, Read, OwePong, vars
<1>4. CASE Drain \/ LooksEmpty \/ Notified \/ Answer \/ ServerTick \/ Send
  BY <1>4 DEF Drain, LooksEmpty, Notified, Answer, ServerTick, Send
<1> QED  BY <1>1, <1>2, <1>3, <1>4 DEF Next

\* Steps that leave the keys on their way where they are.
LEMMA StillCounted ==
  ASSUME KeyInv, UNCHANGED <<taken, given, up, cw>>
  PROVE  InTransit'
BY DEF KeyInv, InTransit

LEMMA QueuesStep == ASSUME KeyInv, [Next]_vars PROVE Queues' /\ InTransit'
<1> USE DEF clientVars, serverVars
<1>0. PICK sent \in Nat : /\ Tally(up, "key", given, sent)
                          /\ taken = sent + (IF cw = <<"key">> THEN 1 ELSE 0)
  BY DEF KeyInv, InTransit
<1>1. /\ up \in Seq(UpKinds) /\ Len(up) \in Nat /\ Len(up) <= SocketRoom
      /\ down \in Seq(FrameKinds) /\ Len(down) \in Nat /\ Len(down) <= SocketRoom
      /\ SocketRoom \in Nat /\ taken \in Nat /\ given \in Nat
  BY HeartbeatAssumption DEF KeyInv, Queues, Numbers
<1>2. CASE UNCHANGED <<taken, given, up, down, cw>>
  BY <1>2, StillCounted DEF KeyInv, Queues
<1>3. CASE Type \/ Ask \/ Produce \/ Detach \/ Show \/ HandPong \/ OwePong \/ UNCHANGED vars
           \/ Drain \/ LooksEmpty \/ Notified \/ Answer \/ ServerTick
  BY <1>2, <1>3 DEF Type, Ask, Produce, Detach, Show, HandPong, OwePong, Drain, LooksEmpty,
                    Notified, Answer, ServerTick, vars
<1>4. CASE Take
  <2>1. /\ cw = << >> /\ cw' = <<"key">> /\ taken' = taken + 1 /\ UNCHANGED <<given, up, down>>
    BY <1>4 DEF Take, Selecting
  <2>2. cw # <<"key">>  BY <2>1
  <2>3. Queues'  BY <1>1, <2>1 DEF Queues
  <2>4. taken' = sent + 1  BY <1>0, <1>1, <2>1, <2>2
  <2> QED  BY <1>0, <2>1, <2>3, <2>4 DEF InTransit
<1>5. CASE AnswerPing \/ Tick
  <2>1. /\ cw = << >> /\ cw' \in {<<"pong">>, <<"ack", "ping">>}
        /\ UNCHANGED <<taken, given, up, down>>
    BY <1>5 DEF AnswerPing, Tick, Selecting
  <2>2. cw # <<"key">> /\ cw' # <<"key">>  BY <2>1
  <2>3. Queues'  BY <1>1, <2>1 DEF Queues
  <2> QED  BY <1>0, <2>1, <2>2, <2>3 DEF InTransit
<1>6. CASE Receive
  <2>1. /\ down # << >> /\ down' = Tail(down) /\ UNCHANGED <<taken, given, up, cw>>
    BY <1>6 DEF Receive
  <2>2. down' \in Seq(FrameKinds) /\ Len(down') = Len(down) - 1  BY <1>1, <2>1
  <2>3. Queues'  BY <1>1, <2>1, <2>2 DEF KeyInv, Queues
  <2> QED  BY <2>1, <2>3, StillCounted
<1>7. CASE Send
  <2>1. /\ sw \in FrameKinds /\ Len(down) < SocketRoom
        /\ down' = Append(down, sw) /\ UNCHANGED <<taken, given, up, cw>>
    BY <1>7 DEF Send, FrameKinds
  <2>2. down' \in Seq(FrameKinds) /\ Len(down') = Len(down) + 1  BY <1>1, <2>1
  <2>3. Queues'  BY <1>1, <2>1, <2>2 DEF KeyInv, Queues
  <2> QED  BY <2>1, <2>3, StillCounted
<1>8. CASE Write
  <2>0. PICK f : f = Head(cw)  OBVIOUS
  <2>1. /\ cw # << >> /\ Len(up) < SocketRoom /\ up' = Append(up, f) /\ cw' = Tail(cw)
        /\ UNCHANGED <<taken, given, down>>
    BY <1>8, <2>0 DEF Write
  <2>2. /\ f \in UpKinds /\ cw' \in {<< >>, <<"ping">>} /\ (f = "key" <=> cw = <<"key">>)
    <3>1. CASE cw = <<"key">>  BY <2>0, <2>1, <3>1 DEF UpKinds
    <3>2. CASE cw = <<"pong">>  BY <2>0, <2>1, <3>2 DEF UpKinds
    <3>3. CASE cw = <<"ack", "ping">>  BY <2>0, <2>1, <3>3 DEF UpKinds
    <3>4. CASE cw = <<"ping">>  BY <2>0, <2>1, <3>4 DEF UpKinds
    <3> QED  BY <2>1, <3>1, <3>2, <3>3, <3>4 DEF KeyInv, Queues
  <2>3. up' \in Seq(UpKinds) /\ Len(up') = Len(up) + 1  BY <1>1, <2>1, <2>2
  <2>4. Queues'  BY <1>1, <2>1, <2>2, <2>3 DEF Queues
  <2>5. Tally(up', "key", given', sent + One(f, "key"))
    BY <1>0, <1>1, <2>1, <2>2, TallyAppend
  <2>6. cw' # <<"key">>  BY <2>2
  <2>7. taken' = sent + One(f, "key") /\ sent + One(f, "key") \in Nat
    BY <1>0, <2>1, <2>2 DEF One
  <2>8. InTransit'  BY <2>5, <2>6, <2>7 DEF InTransit
  <2> QED  BY <2>4, <2>8
<1>9. CASE Read
  <2>1. /\ up # << >> /\ up' = Tail(up)
        /\ given' = given + One(Head(up), "key")
        /\ UNCHANGED <<taken, cw, down>>
    BY <1>1, <1>9 DEF Read, One
  <2>2. up' \in Seq(UpKinds) /\ Len(up') = Len(up) - 1  BY <1>1, <2>1
  <2>3. Queues'  BY <1>1, <2>1, <2>2 DEF KeyInv, Queues
  <2>4. Tally(up', "key", given', sent)  BY <1>0, <1>1, <2>1, TallyTail
  <2>5. InTransit'  BY <1>0, <2>1, <2>4 DEF InTransit
  <2> QED  BY <2>3, <2>5
<1> QED  BY <1>3, <1>4, <1>5, <1>6, <1>7, <1>8, <1>9 DEF Next

LEMMA KeyTypes == ASSUME KeyInv, PingInv PROVE TypeOK
<1>1. given \in 0..taken
  <2>1. PICK sent \in Nat : /\ Tally(up, "key", given, sent)
                            /\ taken = sent + (IF cw = <<"key">> THEN 1 ELSE 0)
    BY DEF KeyInv, InTransit
  <2>2. given \in Nat /\ given <= sent
    BY <2>1, TallyGrows DEF KeyInv, Queues
  <2>3. taken = sent \/ taken = sent + 1  BY <2>1
  <2> QED  BY <2>1, <2>2, <2>3
<1>2. cw \in Seq(UpKinds) /\ Len(cw) <= 2
  <2>1. CASE cw = << >>  BY <2>1
  <2>2. CASE cw = <<"key">>  BY <2>2 DEF UpKinds
  <2>3. CASE cw = <<"pong">>  BY <2>3 DEF UpKinds
  <2>4. CASE cw = <<"ack", "ping">>  BY <2>4 DEF UpKinds
  <2>5. CASE cw = <<"ping">>  BY <2>5 DEF UpKinds
  <2> QED  BY <2>1, <2>2, <2>3, <2>4, <2>5 DEF KeyInv, Queues
<1>3. unanswered \in 0..Backlog  BY HeartbeatAssumption DEF PingInv, Shape
<1> QED
  BY <1>1, <1>2, <1>3 DEF KeyInv, Booleans, Numbers, Places, Queues, TypeOK, UpKinds, FrameKinds

\* Every state has the specification's types: no channel and no socket holds more
\* than its room, and no key reaches the PTY that was not taken from the terminal.
THEOREM HeartbeatTypes == Spec => []TypeOK
<1>1. KeyInv /\ [Next]_vars => KeyInv'
  BY BooleansStep, NumbersStep, PlacesStep, QueuesStep DEF KeyInv
<1>2. PingInv /\ [Next]_vars => PingInv'  BY PingStep
<1> QED  BY <1>1, <1>2, KeyInit, PingInit, KeyTypes, PTL DEF Spec
=============================================================================
