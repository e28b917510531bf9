----------------------------- MODULE InputProofs -----------------------------
(***************************************************************************)
(* Proofs about Input, for any sizes of chunks, sockets and terminals and  *)
(* any connections: what is typed is conserved up to the daemon, each      *)
(* connection's bytes reach the shell in order, and client_writer's loop   *)
(* comes to what Take and Detach say of a chunk.                           *)
(***************************************************************************)
EXTENDS Input, WellFoundedInduction, TLAPS

\* The client writes on its last connection; those not made are empty.
Current ==
  /\ conn \in {NoConn, made}
  /\ \A c \in Conns : c > made => up[c] = << >>

\* The stdin channel holds what was typed behind taken, a byte at least each time.
Chunks ==
  /\ taken <= Len(typed)
  /\ \A i \in 1..Len(stdin) : taken < stdin[i] /\ stdin[i] <= Len(typed)
  /\ \A i, j \in 1..Len(stdin) : i < j => stdin[i] < stdin[j]

InputInv == TypeOK /\ Current /\ Chunks /\ InputConserved

-----------------------------------------------------------------------------
(* Frames that follow one another.                                         *)

LEMMA FrameBounds ==
  ASSUME NEW f \in FrameType
  PROVE  f.from \in Nat /\ f.to \in Nat /\ f.from <= f.to
BY DEF FrameType, DataType, ResizeType

LEMMA FollowAppend ==
  ASSUME NEW a \in Nat, NEW q \in Seq(FrameType), NEW f \in FrameType,
         Follow(a, q), f.from = EndOf(a, q)
  PROVE  /\ Append(q, f) \in Seq(FrameType)
         /\ Follow(a, Append(q, f)) /\ EndOf(a, Append(q, f)) = f.to
<1> DEFINE p == Append(q, f)
<1>0. /\ p \in Seq(FrameType) /\ Len(p) = Len(q) + 1 /\ p[Len(q) + 1] = f
      /\ \A i \in 1..Len(q) : p[i] = q[i]
  OBVIOUS
<1> HIDE DEF p
<1>1. /\ p \in Seq(FrameType) /\ Len(p) = Len(q) + 1 /\ p[Len(q) + 1] = f /\ p # << >>
      /\ \A i \in 1..Len(q) : p[i] = q[i]
  BY <1>0
<1>2. EndOf(a, p) = f.to  BY <1>1 DEF EndOf
<1>3. p[1].from = a
  <2>1. CASE q = << >>  BY <1>1, <2>1 DEF EndOf
  <2>2. CASE q # << >>  BY <1>1, <2>2 DEF Follow
  <2> QED  BY <2>1, <2>2
<1>4. ASSUME NEW i \in 1..(Len(p) - 1) PROVE p[i].to = p[i + 1].from
  <2>1. CASE i = Len(q)
    <3>1. q # << >> /\ p[i] = q[Len(q)] /\ p[i + 1] = f  BY <1>1, <2>1
    <3> QED  BY <3>1 DEF EndOf
  <2>2. CASE i # Len(q)
    <3>1. i \in 1..(Len(q) - 1) /\ p[i] = q[i] /\ p[i + 1] = q[i + 1]  BY <1>1, <2>2
    <3> QED  BY <3>1 DEF Follow
  <2> QED  BY <2>1, <2>2
<1> QED  BY <1>1, <1>2, <1>3, <1>4 DEF p, Follow

LEMMA FollowTail ==
  ASSUME NEW a \in Nat, NEW q \in Seq(FrameType), q # << >>, Follow(a, q)
  PROVE  /\ Tail(q) \in Seq(FrameType) /\ Head(q) \in FrameType
         /\ Follow(Head(q).to, Tail(q)) /\ EndOf(Head(q).to, Tail(q)) = EndOf(a, q)
<1> DEFINE p == Tail(q)
<1>1. /\ p \in Seq(FrameType) /\ Len(p) = Len(q) - 1 /\ Head(q) = q[1] /\ q[1] \in FrameType
      /\ Len(q) \in Nat \ {0} /\ \A i \in 1..Len(p) : p[i] = q[i + 1]
  OBVIOUS
<1> HIDE DEF p
<1>2. EndOf(q[1].to, p) = EndOf(a, q)
  <2>1. CASE p = << >>
    <3>1. Len(q) = 1  BY <1>1, <2>1
    <3> QED  BY <2>1, <3>1 DEF EndOf
  <2>2. CASE p # << >>
    <3>1. p[Len(p)] = q[Len(q)]  BY <1>1, <2>2
    <3> QED  BY <2>2, <3>1 DEF EndOf
  <2> QED  BY <2>1, <2>2
<1>3. p # << >> => p[1].from = q[1].to
  <2>1. SUFFICES ASSUME p # << >> PROVE p[1].from = q[1].to  OBVIOUS
  <2>2. 1 \in 1..(Len(q) - 1) /\ p[1] = q[2]  BY <1>1, <2>1
  <2> QED  BY <2>2 DEF Follow
<1>4. ASSUME NEW i \in 1..(Len(p) - 1) PROVE p[i].to = p[i + 1].from
  <2>1. i + 1 \in 1..(Len(q) - 1) /\ p[i] = q[i + 1] /\ p[i + 1] = q[i + 1 + 1]  BY <1>1
  <2> QED  BY <2>1 DEF Follow
<1> QED  BY <1>1, <1>2, <1>3, <1>4 DEF p, Follow

LEMMA FollowSub ==
  ASSUME NEW a \in Nat, NEW q \in Seq(FrameType), NEW n \in 0..Len(q), Follow(a, q)
  PROVE  SubSeq(q, 1, n) \in Seq(FrameType) /\ Len(SubSeq(q, 1, n)) = n
         /\ Follow(a, SubSeq(q, 1, n))
<1> DEFINE p == SubSeq(q, 1, n)
<1>1. p \in Seq(FrameType) /\ Len(p) = n /\ \A i \in 1..n : p[i] = q[i]
  OBVIOUS
<1> HIDE DEF p
<1>2. p # << >> => p[1].from = a
  <2>1. SUFFICES ASSUME p # << >> PROVE p[1].from = a  OBVIOUS
  <2>2. 1 \in 1..n /\ q # << >>  BY <1>1, <2>1
  <2> QED  BY <1>1, <2>2 DEF Follow
<1>3. ASSUME NEW i \in 1..(n - 1) PROVE p[i].to = p[i + 1].from
  <2>1. i \in 1..(Len(q) - 1) /\ p[i] = q[i] /\ p[i + 1] = q[i + 1]  BY <1>1
  <2> QED  BY <2>1 DEF Follow
<1> QED  BY <1>1, <1>2, <1>3 DEF p, Follow

LEMMA SingleFrame ==
  ASSUME NEW s \in Seq(FrameType), Len(s) <= 1, s # << >>
  PROVE  Len(s) = 1 /\ s[1] \in FrameType
<1> DEFINE n == Len(s)
<1>1. n \in Nat /\ n # 0 /\ n <= 1 /\ \A i \in 1..n : s[i] \in FrameType
  OBVIOUS
<1> HIDE DEF n
<1>2. n = 1  BY <1>1
<1>3. s[1] \in FrameType  BY <1>1, <1>2
<1> QED  BY <1>2, <1>3 DEF n

LEMMA FollowNone == ASSUME NEW a PROVE Follow(a, << >>) /\ EndOf(a, << >>) = a
BY DEF Follow, EndOf

LEMMA FollowOne ==
  ASSUME NEW a, NEW f, f.from = a
  PROVE  Follow(a, <<f>>) /\ EndOf(a, <<f>>) = f.to
BY DEF Follow, EndOf

-----------------------------------------------------------------------------
(* The invariant, under steps that leave the frames on their way alone.    *)

LEMMA InputInit == ASSUME Init PROVE InputInv
<1> USE InputAssumption DEF Init, Conns, NoConn
<1>1. Resize(0, 0) \in ResizeType  BY DEF Resize, ResizeType
<1>2. TypeOK
  <2>1. /\ typed \in Seq(Kinds) /\ stdin \in Seq(Nat) /\ cout \in Seq(FrameType) /\ Len(cout) <= 1
        /\ toPty \in Seq(FrameType) /\ pty \in Seq(Nat) /\ ptySize \in ResizeType
    BY <1>1
  <2>2. up \in [Conns -> Seq(FrameType)] /\ \A c \in Conns : Len(up[c]) <= SocketRoom
    OBVIOUS
  <2>3. /\ taken \in Nat /\ sent \in Nat /\ size \in Nat
        /\ conn \in Conns \cup {NoConn} /\ ended \in {"no", "asked", "closed"}
        /\ made \in 0..MaxConns
    OBVIOUS
  <2>5. winch \in BOOLEAN /\ late \in BOOLEAN  OBVIOUS
  <2>4. /\ link \in [Conns -> {"none", "open", "cut"}] /\ serving \in [Conns -> BOOLEAN]
        /\ base \in [Conns -> Nat] /\ got \in [Conns -> Nat]
    OBVIOUS
  <2> QED  BY <2>1, <2>2, <2>3, <2>4, <2>5 DEF TypeOK
<1>3. Current /\ Chunks  BY DEF Current, Chunks
<1>4. InputConserved  BY FollowNone DEF InputConserved
<1> QED  BY <1>2, <1>3, <1>4 DEF InputInv

LEMMA TypeStep == ASSUME InputInv, Type PROVE InputInv'
<1> USE DEF InputInv
<1>1. PICK k \in 1..MaxChunk : \E s \in [1..k -> Kinds] :
        typed' = typed \o s /\ stdin' = Append(stdin, Len(typed) + k)
  BY DEF Type
<1>2. PICK s \in [1..k -> Kinds] :
        typed' = typed \o s /\ stdin' = Append(stdin, Len(typed) + k)
  BY <1>1
<1>3. UNCHANGED <<taken, sent, size, winch, conn, ended, cout, connVars, ptyVars>>
  BY DEF Type
<1> USE DEF connVars, ptyVars
<1>4. /\ typed \in Seq(Kinds) /\ s \in Seq(Kinds) /\ Len(s) = k /\ k \in Nat \ {0}
      /\ stdin \in Seq(Nat) /\ taken \in Nat
  BY <1>1, InputAssumption DEF TypeOK
<1>5. /\ typed' \in Seq(Kinds) /\ Len(typed') = Len(typed) + k
      /\ \A i \in 1..Len(typed) : typed'[i] = typed[i]
  <2>1. typed \o s \in Seq(Kinds)  BY <1>4
  <2>2. Len(typed \o s) = Len(typed) + k
    <3>1. typed \in Seq(Kinds) /\ s \in Seq(Kinds)  BY <1>4
    <3>2. Len(typed \o s) = Len(typed) + Len(s)  BY <3>1
    <3> QED  BY <1>4, <3>2
  <2>3. \A i \in 1..Len(typed) : (typed \o s)[i] = typed[i]  BY <1>4
  <2> QED  BY <1>2, <2>1, <2>2, <2>3
<1>6. /\ stdin' \in Seq(Nat) /\ Len(stdin') = Len(stdin) + 1
      /\ stdin'[Len(stdin) + 1] = Len(typed')
      /\ \A i \in 1..Len(stdin) : stdin'[i] = stdin[i]
  <2>1. Len(typed) + k \in Nat  BY <1>4
  <2> QED  BY <1>2, <1>4, <1>5, <2>1
<1>7. TypeOK'  BY <1>3, <1>5, <1>6 DEF TypeOK
<1>8. Current'  BY <1>3 DEF Current
<1>9. Chunks'
  <2>1. Len(typed) \in Nat /\ Len(stdin) \in Nat /\ \A i \in 1..Len(stdin) : stdin[i] \in Nat
    BY <1>4
  <2>2. taken <= Len(typed)  BY DEF Chunks
  <2>3. ASSUME NEW i \in 1..Len(stdin') PROVE taken < stdin'[i] /\ stdin'[i] <= Len(typed')
    <3>1. CASE i = Len(stdin) + 1
      <4>1. stdin'[i] = Len(typed) + k  BY <1>5, <1>6, <3>1
      <4> QED  BY <1>4, <1>5, <2>1, <2>2, <4>1
    <3>2. CASE i \in 1..Len(stdin)
      <4>1. taken < stdin[i] /\ stdin[i] <= Len(typed) /\ stdin'[i] = stdin[i]
        BY <1>6, <3>2 DEF Chunks
      <4> QED  BY <1>4, <1>5, <2>1, <3>2, <4>1
    <3> QED  BY <1>6, <2>1, <3>1, <3>2
  <2>4. ASSUME NEW i \in 1..Len(stdin'), NEW j \in 1..Len(stdin'), i < j
        PROVE  stdin'[i] < stdin'[j]
    <3>1. i \in 1..Len(stdin) /\ stdin'[i] = stdin[i] /\ stdin[i] <= Len(typed)
      BY <1>6, <2>1, <2>4 DEF Chunks
    <3>2. CASE j = Len(stdin) + 1
      <4>1. stdin'[j] = Len(typed) + k  BY <1>5, <1>6, <3>2
      <4> QED  BY <1>4, <2>1, <3>1, <4>1
    <3>3. CASE j \in 1..Len(stdin)  BY <1>6, <2>4, <3>1, <3>3 DEF Chunks
    <3> QED  BY <1>6, <2>1, <3>2, <3>3
  <2>5. taken <= Len(typed')  BY <1>4, <1>5, <2>1, <2>2
  <2> QED  BY <1>3, <2>3, <2>4, <2>5 DEF Chunks
<1>10. InputConserved'
  <2>1. ASSUME sent = taken \/ (sent = taken - 1 /\ typed[taken] = "prefix")
        PROVE  sent = taken \/ (sent = taken - 1 /\ typed'[taken] = "prefix")
    <3>1. CASE sent = taken  BY <3>1
    <3>2. CASE sent = taken - 1 /\ typed[taken] = "prefix"
      <4>1. taken \in 1..Len(typed)  BY <1>4, <3>2 DEF TypeOK, Chunks
      <4> QED  BY <1>5, <3>2, <4>1
    <3> QED  BY <2>1, <3>1, <3>2
  <2> QED  BY <1>3, <2>1 DEF InputConserved
<1> QED  BY <1>7, <1>8, <1>9, <1>10

LEMMA SizeStep == ASSUME InputInv, ChangeSize PROVE InputInv'
<1> USE DEF InputInv, ChangeSize, connVars, ptyVars
<1>1. TypeOK'  BY DEF TypeOK
<1>2. Current' /\ Chunks'  BY DEF Current, Chunks
<1>3. InputConserved'  BY DEF InputConserved
<1> QED  BY <1>1, <1>2, <1>3

\* The chunk at the head of the channel.
LEMMA HeadChunk ==
  ASSUME InputInv, stdin # << >>
  PROVE  /\ Head(stdin) \in Nat /\ taken < Head(stdin) /\ Head(stdin) <= Len(typed)
         /\ Tail(stdin) \in Seq(Nat) /\ Len(Tail(stdin)) = Len(stdin) - 1
         /\ \A i \in 1..Len(Tail(stdin)) : Tail(stdin)[i] = stdin[i + 1]
         /\ \A i \in 1..Len(Tail(stdin)) : Head(stdin) < stdin[i + 1]
<1>1. stdin \in Seq(Nat) /\ Len(stdin) \in Nat \ {0} /\ Head(stdin) = stdin[1]
  BY DEF InputInv, TypeOK
<1>2. 1 \in 1..Len(stdin)  BY <1>1
<1>3. /\ Tail(stdin) \in Seq(Nat) /\ Len(Tail(stdin)) = Len(stdin) - 1
      /\ \A i \in 1..Len(Tail(stdin)) : Tail(stdin)[i] = stdin[i + 1]
  BY <1>1
<1>4. ASSUME NEW i \in 1..Len(Tail(stdin)) PROVE stdin[1] < stdin[i + 1]
  <2>1. i + 1 \in 1..Len(stdin) /\ 1 < i + 1  BY <1>1, <1>3
  <2> QED  BY <1>2, <2>1 DEF InputInv, Chunks
<1>5. taken < stdin[1] /\ stdin[1] <= Len(typed) /\ stdin[1] \in Nat
  BY <1>1, <1>2 DEF InputInv, Chunks
<1> QED  BY <1>1, <1>3, <1>4, <1>5

\* A chunk leaves the channel: the next ones are behind it.
LEMMA ChunksGo ==
  ASSUME InputInv, stdin # << >>, stdin' = Tail(stdin), taken' = Head(stdin), UNCHANGED typed
  PROVE  Chunks'
<1>1. /\ Head(stdin) \in Nat /\ Head(stdin) <= Len(typed) /\ Len(stdin') = Len(stdin) - 1
      /\ \A i \in 1..Len(stdin') : stdin'[i] = stdin[i + 1] /\ Head(stdin) < stdin[i + 1]
      /\ Len(stdin) \in Nat
  <2>1. Len(stdin) \in Nat  BY DEF InputInv, TypeOK
  <2> QED  BY <2>1, HeadChunk
<1>2. ASSUME NEW i \in 1..Len(stdin') PROVE taken' < stdin'[i] /\ stdin'[i] <= Len(typed')
  <2>1. i + 1 \in 1..Len(stdin)  BY <1>1
  <2> QED  BY <1>1, <2>1 DEF InputInv, Chunks
<1>3. ASSUME NEW i \in 1..Len(stdin'), NEW j \in 1..Len(stdin'), i < j
      PROVE  stdin'[i] < stdin'[j]
  <2>1. i + 1 \in 1..Len(stdin) /\ j + 1 \in 1..Len(stdin) /\ i + 1 < j + 1  BY <1>1, <1>3
  <2> QED  BY <1>1, <2>1 DEF InputInv, Chunks
<1> QED  BY <1>1, <1>2, <1>3 DEF Chunks

LEMMA TakeStep == ASSUME InputInv, Take PROVE InputInv'
<1> USE DEF InputInv
<1> DEFINE last == Head(stdin)  to == Passed(last)
<1>1. /\ conn # NoConn /\ cout = << >> /\ stdin # << >>
      /\ stdin' = Tail(stdin) /\ taken' = last /\ sent' = to
      /\ cout' = IF to > sent THEN <<Data(sent, to)>> ELSE << >>
      /\ UNCHANGED <<typed, size, winch, conn, ended, connVars, ptyVars>>
  BY DEF Take, Selecting
<1> USE DEF connVars, ptyVars
<1>2. /\ last \in Nat /\ taken < last /\ Tail(stdin) \in Seq(Nat) /\ taken \in Nat /\ sent \in Nat
  BY <1>1, HeadChunk DEF TypeOK
<1>3. to \in Nat /\ (to = last \/ (to = last - 1 /\ typed[last] = "prefix"))
  BY <1>2 DEF Passed
<1> HIDE DEF last, to
<1>4. to > sent => Data(sent, to) \in FrameType /\ Data(sent, to).from = sent /\ Data(sent, to).to = to
  BY <1>2, <1>3 DEF Data, FrameType, DataType
<1>5. cout' \in Seq(FrameType) /\ Len(cout') <= 1  BY <1>1, <1>4
<1>6. TypeOK'  BY <1>1, <1>2, <1>3, <1>5 DEF TypeOK
<1>7. Current'  BY <1>1 DEF Current
<1>8. Chunks'  BY <1>1, ChunksGo DEF last
<1>9. InputConserved'
  <2>1. SUFFICES ASSUME link[conn] = "open"
                 PROVE  /\ Follow(EndOf(got[conn], up[conn]), cout')
                        /\ EndOf(EndOf(got[conn], up[conn]), cout') = to
    BY <1>1, <1>3 DEF InputConserved
  <2>2. EndOf(got[conn], up[conn]) = sent
    BY <1>1, <2>1, FollowNone DEF InputConserved
  <2>3. sent <= to  BY <1>1, <1>2, <1>3, <2>1 DEF InputConserved
  <2>4. CASE to > sent  BY <1>1, <1>4, <2>2, <2>4, FollowOne
  <2>5. CASE to = sent  BY <1>1, <1>2, <2>2, <2>5, FollowNone
  <2> QED  BY <1>2, <1>3, <2>3, <2>4, <2>5
<1> QED  BY <1>6, <1>7, <1>8, <1>9

\* The client leaves: nothing is said of the frames of a connection that is cut.
LEMMA LeaveStep == ASSUME InputInv, Detach \/ StdinCloses PROVE InputInv'
<1> USE DEF InputInv
<1>1. /\ \E how \in {"asked", "closed"} : ended' = how
      /\ conn' = NoConn /\ conn # NoConn /\ link' = [link EXCEPT ![conn] = "cut"]
      /\ UNCHANGED <<typed, sent, size, winch, cout, made, up, serving, base, got, ptyVars>>
      /\ stdin \in Seq(Nat) /\ taken' \in Nat /\ stdin' \in Seq(Nat) /\ Chunks'
  <2>1. CASE Detach
    <3>1. stdin # << >> /\ stdin' = Tail(stdin) /\ taken' = Head(stdin) /\ UNCHANGED typed
      BY <2>1 DEF Detach, Leaves
    <3>2. Chunks' /\ taken' \in Nat /\ stdin' \in Seq(Nat)  BY <3>1, ChunksGo, HeadChunk
    <3> QED  BY <2>1, <3>2 DEF Detach, Leaves, Selecting, TypeOK
  <2>2. CASE StdinCloses
    <3>1. Chunks'  BY <2>2 DEF StdinCloses, Leaves, Chunks
    <3> QED  BY <2>2, <3>1 DEF StdinCloses, Leaves, Selecting, TypeOK
  <2> QED  BY <2>1, <2>2
<1> USE DEF ptyVars
<1>2. TypeOK'  BY <1>1 DEF TypeOK
<1>3. Current'  BY <1>1 DEF Current
<1>4. InputConserved'  BY <1>1 DEF InputConserved
<1> QED  BY <1>1, <1>2, <1>3, <1>4

LEMMA WinchStep == ASSUME InputInv, Winch PROVE InputInv'
<1> USE DEF InputInv
<1> DEFINE f == Resize(conn, sent)
<1>1. /\ conn # NoConn /\ cout = << >> /\ winch' = FALSE /\ cout' = <<f>>
      /\ UNCHANGED <<typed, stdin, taken, sent, size, conn, ended, connVars, ptyVars>>
  BY DEF Winch, Selecting
<1> USE DEF connVars, ptyVars
<1>2. f \in FrameType /\ f.from = sent /\ f.to = sent
  BY DEF TypeOK, Resize, FrameType, ResizeType, Conns, NoConn
<1> HIDE DEF f
<1>3. cout' \in Seq(FrameType) /\ Len(cout') <= 1  BY <1>1, <1>2
<1>4. TypeOK'  BY <1>1, <1>3 DEF TypeOK
<1>5. Current' /\ Chunks'  BY <1>1 DEF Current, Chunks
<1>6. InputConserved'
  <2>1. SUFFICES ASSUME link[conn] = "open"
                 PROVE  /\ Follow(EndOf(got[conn], up[conn]), cout')
                        /\ EndOf(EndOf(got[conn], up[conn]), cout') = sent
    BY <1>1 DEF InputConserved
  <2>2. EndOf(got[conn], up[conn]) = sent  BY <1>1, <2>1, FollowNone DEF InputConserved
  <2> QED  BY <1>1, <1>2, <2>2, FollowOne
<1> QED  BY <1>4, <1>5, <1>6

LEMMA WriteStep == ASSUME InputInv, Write PROVE InputInv'
<1> USE DEF InputInv
<1> DEFINE f == cout[1]  q == up[conn]
<1>1. /\ conn \in Conns /\ cout # << >> /\ link[conn] = "open" /\ Len(q) < SocketRoom
      /\ up' = [up EXCEPT ![conn] = Append(q, f)] /\ cout' = << >>
      /\ UNCHANGED <<typed, stdin, taken, sent, size, winch, conn, ended, made, link, serving,
                     base, got, ptyVars>>
  BY DEF Write, TypeOK
<1> USE DEF ptyVars
<1>2. /\ q \in Seq(FrameType) /\ cout \in Seq(FrameType) /\ Len(cout) = 1 /\ got[conn] \in Nat
  <2>1. cout \in Seq(FrameType) /\ Len(cout) <= 1 /\ cout # << >>  BY <1>1 DEF TypeOK
  <2>2. Len(cout) = 1  BY <2>1, SingleFrame
  <2> QED  BY <1>1, <2>1, <2>2 DEF TypeOK
<1>3. f \in FrameType  BY <1>1, <1>2, SingleFrame
<1>4. /\ Follow(got[conn], q) /\ f.from = EndOf(got[conn], q) /\ f.to = sent
  <2>1. /\ Follow(got[conn], q) /\ Follow(EndOf(got[conn], q), cout)
        /\ EndOf(EndOf(got[conn], q), cout) = sent
    BY <1>1 DEF InputConserved, Conns, NoConn
  <2> QED  BY <1>1, <1>2, <2>1 DEF Follow, EndOf
<1> HIDE DEF f, q
<1>5. /\ Append(q, f) \in Seq(FrameType)
      /\ Follow(got[conn], Append(q, f)) /\ EndOf(got[conn], Append(q, f)) = sent
  BY <1>2, <1>3, <1>4, FollowAppend
<1>6. /\ up'[conn] = Append(q, f) /\ \A c \in Conns \ {conn} : up'[c] = up[c]
      /\ up' \in [Conns -> Seq(FrameType)]
  BY <1>1, <1>5 DEF TypeOK
<1>7. TypeOK'
  <2>1. Len(Append(q, f)) = Len(q) + 1 /\ Len(q) \in Nat  BY <1>2, <1>3
  <2>2. Len(Append(q, f)) <= SocketRoom  BY <1>1, <2>1, InputAssumption
  <2>3. \A c \in Conns : Len(up'[c]) <= SocketRoom  BY <1>6, <2>2 DEF TypeOK
  <2>4. cout' \in Seq(FrameType) /\ Len(cout') <= 1  BY <1>1
  <2> QED  BY <1>1, <1>6, <2>3, <2>4 DEF TypeOK
<1>8. Current'
  <2>1. ~(conn > made)  BY <1>1 DEF Current, TypeOK, Conns, NoConn
  <2> QED  BY <1>1, <1>6, <2>1 DEF Current
<1>9. Chunks'  BY <1>1 DEF Chunks
<1>10. InputConserved'
  <2>1. \A c \in Conns : Follow(got[c], up'[c])  BY <1>5, <1>6 DEF InputConserved
  <2>2. Follow(EndOf(got[conn], up'[conn]), cout') /\ EndOf(EndOf(got[conn], up'[conn]), cout') = sent
    BY <1>1, <1>5, <1>6, FollowNone
  <2> QED  BY <1>1, <2>1, <2>2 DEF InputConserved, Conns, NoConn
<1> QED  BY <1>7, <1>8, <1>9, <1>10

\* The client's frames are lost with a connection that is cut, or it goes.
LEMMA LostStep == ASSUME InputInv, WriteLost \/ Loses PROVE InputInv'
<1> USE DEF InputInv, connVars, ptyVars
<1>1. /\ link[conn] = "cut" /\ cout' = << >> /\ conn' \in {conn, NoConn}
      /\ UNCHANGED <<typed, stdin, taken, sent, size, winch, ended, connVars, ptyVars>>
  BY DEF WriteLost, Loses
<1>2. cout' \in Seq(FrameType) /\ Len(cout') <= 1  BY <1>1
<1>3. TypeOK'  BY <1>1, <1>2 DEF TypeOK
<1>4. Current' /\ Chunks'  BY <1>1 DEF Current, Chunks
<1>5. InputConserved'  BY <1>1 DEF InputConserved
<1> QED  BY <1>3, <1>4, <1>5

-----------------------------------------------------------------------------
(* Steps of the connections and of the daemon.                             *)

LEMMA ConnectStep == ASSUME InputInv, Connect PROVE InputInv'
<1> USE DEF InputInv
<1> DEFINE c == made + 1  f == Resize(c, taken)
<1>1. /\ c \in Conns /\ made \in Nat /\ made' = c /\ conn' = c /\ link' = [link EXCEPT ![c] = "open"]
      /\ serving' = [serving EXCEPT ![c] = TRUE]
      /\ base' = [base EXCEPT ![c] = taken] /\ got' = [got EXCEPT ![c] = taken]
      /\ sent' = taken /\ cout' = <<f>>
      /\ UNCHANGED <<typed, stdin, taken, size, winch, ended, up, ptyVars>>
  BY InputAssumption DEF Connect, TypeOK, Conns
<1> USE DEF ptyVars
<1>2. f \in FrameType /\ f.from = taken /\ f.to = taken /\ c \in 0..MaxConns /\ taken \in Nat
  BY <1>1 DEF TypeOK, Resize, FrameType, ResizeType, Conns
<1>3. up[c] = << >> /\ \A d \in Conns : d > c => d > made
  BY <1>1 DEF Current, Conns
<1>4. c # NoConn  BY <1>1 DEF NoConn, Conns
<1> HIDE DEF c, f
<1>5. cout' \in Seq(FrameType) /\ Len(cout') <= 1  BY <1>1, <1>2
<1>6. /\ got'[c] = taken /\ \A d \in Conns \ {c} : got'[d] = got[d]
  BY <1>1 DEF TypeOK
<1>7. TypeOK'
  <2>1. /\ link' \in [Conns -> {"none", "open", "cut"}] /\ serving' \in [Conns -> BOOLEAN]
        /\ base' \in [Conns -> Nat] /\ got' \in [Conns -> Nat]
    BY <1>1, <1>2 DEF TypeOK
  <2> QED  BY <1>1, <1>2, <1>5, <2>1 DEF TypeOK
<1>8. Current'  BY <1>1, <1>3 DEF Current
<1>9. Chunks'  BY <1>1 DEF Chunks
<1>10. InputConserved'
  <2>1. \A d \in Conns : Follow(got'[d], up[d])
    BY <1>3, <1>6, FollowNone DEF InputConserved
  <2>2. EndOf(got'[c], up[c]) = taken  BY <1>3, <1>6, FollowNone
  <2>3. Follow(taken, cout') /\ EndOf(taken, cout') = taken  BY <1>1, <1>2, FollowOne
  <2> QED  BY <1>1, <2>1, <2>2, <2>3 DEF InputConserved
<1> QED  BY <1>7, <1>8, <1>9, <1>10

LEMMA CutStep == ASSUME InputInv, Cut PROVE InputInv'
<1> USE DEF InputInv
<1>1. PICK n \in 0..Len(up[conn]) : up' = [up EXCEPT ![conn] = SubSeq(up[conn], 1, n)]
  BY DEF Cut
<1> DEFINE p == SubSeq(up[conn], 1, n)
<1>2. /\ conn \in Conns /\ link' = [link EXCEPT ![conn] = "cut"]
      /\ UNCHANGED <<clientVars, made, serving, base, got, ptyVars>>
  BY DEF Cut, TypeOK
<1> USE DEF clientVars, ptyVars
<1>3. p \in Seq(FrameType) /\ Len(p) = n /\ Follow(got[conn], p)
  BY <1>1, <1>2, FollowSub DEF TypeOK, InputConserved
<1>4. n <= SocketRoom
  <2>1. Len(up[conn]) <= SocketRoom /\ up[conn] \in Seq(FrameType)  BY <1>2 DEF TypeOK
  <2> QED  BY <2>1, InputAssumption
<1> HIDE DEF p
<1>5. /\ up'[conn] = p /\ \A c \in Conns \ {conn} : up'[c] = up[c]
      /\ up' \in [Conns -> Seq(FrameType)]
  BY <1>1, <1>2, <1>3 DEF TypeOK, p
<1>6. TypeOK'
  <2>1. \A c \in Conns : Len(up'[c]) <= SocketRoom  BY <1>3, <1>4, <1>5 DEF TypeOK
  <2> QED  BY <1>2, <1>5, <2>1 DEF TypeOK
<1>7. Current'
  <2>1. ~(conn > made)  BY <1>2 DEF Current, TypeOK, Conns, NoConn
  <2> QED  BY <1>2, <1>5, <2>1 DEF Current
<1>8. Chunks'  BY <1>2 DEF Chunks
<1>9. InputConserved'
  <2>1. link'[conn'] # "open"  BY <1>2 DEF TypeOK
  <2> QED  BY <1>2, <1>3, <1>5, <2>1 DEF InputConserved
<1> QED  BY <1>6, <1>7, <1>8, <1>9

LEMMA ReadStep == ASSUME InputInv, NEW c \in Conns, Read(c) PROVE InputInv'
<1> USE DEF InputInv
<1> DEFINE q == up[c]  p == Tail(q)  f == Head(q)
<1>1. /\ q # << >> /\ up' = [up EXCEPT ![c] = p] /\ toPty' = Append(toPty, f)
      /\ got' = [got EXCEPT ![c] = f.to]
      /\ UNCHANGED <<clientVars, made, link, serving, base, pty, ptySize, late>>
  BY DEF Read
<1> USE DEF clientVars
<1>2. q \in Seq(FrameType) /\ got[c] \in Nat /\ Follow(got[c], q) /\ Len(q) <= SocketRoom
  BY DEF TypeOK, InputConserved
<1>3. /\ p \in Seq(FrameType) /\ f \in FrameType
      /\ Follow(f.to, p) /\ EndOf(f.to, p) = EndOf(got[c], q)
  <2> HIDE DEF q
  <2> QED  BY <1>1, <1>2, FollowTail
<1>4. Len(p) <= SocketRoom
  <2>1. Len(p) = Len(q) - 1 /\ Len(q) \in Nat
    <3> HIDE DEF q
    <3> QED  BY <1>1, <1>2
  <2> QED  BY <1>2, <2>1, InputAssumption
<1>5. f.to \in Nat  BY <1>3, FrameBounds
<1>6. c <= made  BY <1>1 DEF Current, TypeOK, Conns
<1> HIDE DEF p, f
<1>7. /\ up'[c] = p /\ \A d \in Conns \ {c} : up'[d] = up[d]
      /\ got'[c] = f.to /\ \A d \in Conns \ {c} : got'[d] = got[d]
      /\ up' \in [Conns -> Seq(FrameType)] /\ got' \in [Conns -> Nat]
  BY <1>1, <1>3, <1>5 DEF TypeOK
<1>8. TypeOK'
  <2>1. Append(toPty, f) \in Seq(FrameType)  BY <1>3 DEF TypeOK
  <2>2. \A d \in Conns : Len(up'[d]) <= SocketRoom  BY <1>4, <1>7 DEF TypeOK
  <2> QED  BY <1>1, <1>7, <2>1, <2>2 DEF TypeOK
<1>9. Current'
  <2>1. ~(c > made)  BY <1>6 DEF TypeOK, Conns
  <2> QED  BY <1>1, <1>7, <2>1 DEF Current
<1>10. Chunks'  BY <1>1 DEF Chunks
<1>11. InputConserved'
  <2>1. \A d \in Conns : Follow(got'[d], up'[d])  BY <1>3, <1>7 DEF InputConserved
  <2>2. \A d \in Conns : EndOf(got'[d], up'[d]) = EndOf(got[d], up[d])  BY <1>3, <1>7
  <2>3. conn # NoConn => conn \in Conns  BY DEF TypeOK
  <2> QED  BY <1>1, <2>1, <2>2, <2>3 DEF InputConserved
<1> QED  BY <1>8, <1>9, <1>10, <1>11

LEMMA TaskEndsStep == ASSUME InputInv, NEW c \in Conns, TaskEnds(c) PROVE InputInv'
<1> USE DEF InputInv
<1>1. /\ serving' = [serving EXCEPT ![c] = FALSE] /\ link' = [link EXCEPT ![c] = "cut"]
      /\ up' = [up EXCEPT ![c] = << >>]
      /\ UNCHANGED <<clientVars, made, base, got, ptyVars>>
  BY DEF TaskEnds
<1> USE DEF clientVars, ptyVars
<1>2. /\ up'[c] = << >> /\ \A d \in Conns \ {c} : up'[d] = up[d]
      /\ link'[c] = "cut" /\ \A d \in Conns \ {c} : link'[d] = link[d]
      /\ up' \in [Conns -> Seq(FrameType)]
  BY <1>1 DEF TypeOK
<1>3. TypeOK'
  <2>1. Len(up'[c]) <= SocketRoom
    <3>1. Len(up'[c]) = 0  BY <1>2
    <3> QED  BY <3>1, InputAssumption
  <2>2. \A d \in Conns : Len(up'[d]) <= SocketRoom  BY <1>2, <2>1 DEF TypeOK
  <2> QED  BY <1>1, <1>2, <2>2 DEF TypeOK
<1>4. Current'  BY <1>1, <1>2 DEF Current
<1>5. Chunks'  BY <1>1 DEF Chunks
<1>6. InputConserved'
  <2>1. \A d \in Conns : Follow(got[d], up'[d])  BY <1>2, FollowNone DEF InputConserved
  <2>2. conn # NoConn => conn \in Conns  BY DEF TypeOK
  <2> QED  BY <1>1, <1>2, <2>1, <2>2 DEF InputConserved
<1> QED  BY <1>3, <1>4, <1>5, <1>6

LEMMA PtyStep == ASSUME InputInv, PtyTakes PROVE InputInv'
<1> USE DEF InputInv
<1> DEFINE m == Head(toPty)
<1>1. /\ toPty # << >> /\ toPty' = Tail(toPty) /\ UNCHANGED <<clientVars, connVars>>
      /\ \/ m.type = "data" /\ UNCHANGED <<ptySize, late>>
              /\ pty' = pty \o [i \in 1..(m.to - m.from) |-> m.from + i]
         \/ m.type = "resize" /\ ptySize' = m /\ UNCHANGED pty /\ late' \in BOOLEAN
  BY DEF PtyTakes
<1> USE DEF clientVars, connVars
<1>2. m \in FrameType /\ toPty' \in Seq(FrameType)  BY <1>1 DEF TypeOK
<1>3. m.from \in Nat /\ m.to \in Nat /\ m.from <= m.to  BY <1>2, FrameBounds
<1>4. m.type = "resize" => m \in ResizeType  BY <1>2 DEF FrameType, DataType
<1> HIDE DEF m
<1>5. [i \in 1..(m.to - m.from) |-> m.from + i] \in Seq(Nat)
  <2>1. m.to - m.from \in Nat /\ \A i \in 1..(m.to - m.from) : m.from + i \in Nat  BY <1>3
  <2> QED  BY <2>1
<1>6. pty' \in Seq(Nat) /\ ptySize' \in ResizeType /\ late' \in BOOLEAN
  <2>1. CASE m.type = "data" /\ UNCHANGED <<ptySize, late>>
               /\ pty' = pty \o [i \in 1..(m.to - m.from) |-> m.from + i]
    <3>1. pty \in Seq(Nat)  BY DEF TypeOK
    <3>2. pty' \in Seq(Nat)  BY <1>5, <2>1, <3>1
    <3> QED  BY <2>1, <3>2 DEF TypeOK
  <2>2. CASE m.type = "resize" /\ ptySize' = m /\ UNCHANGED pty /\ late' \in BOOLEAN
    BY <1>4, <2>2 DEF TypeOK
  <2> QED  BY <1>1, <2>1, <2>2
<1>7. TypeOK'  BY <1>1, <1>2, <1>6 DEF TypeOK
<1>8. Current' /\ Chunks'  BY <1>1 DEF Current, Chunks
<1>9. InputConserved'  BY <1>1 DEF InputConserved
<1> QED  BY <1>7, <1>8, <1>9

LEMMA InputStep == ASSUME InputInv, [Next]_vars PROVE InputInv'
<1>1. CASE Next
  BY <1>1, TypeStep, SizeStep, CutStep, TakeStep, LeaveStep, WinchStep, WriteStep, LostStep,
     ConnectStep, ReadStep, TaskEndsStep, PtyStep DEF Next, ClientStep
<1>2. CASE UNCHANGED vars
  <2> USE <1>2 DEF vars, clientVars, connVars, ptyVars
  <2>1. TypeOK'  BY DEF InputInv, TypeOK
  <2>2. Current' /\ Chunks' /\ InputConserved'
    BY DEF InputInv, Current, Chunks, InputConserved
  <2> QED  BY <2>1, <2>2 DEF InputInv
<1> QED  BY <1>1, <1>2

-----------------------------------------------------------------------------
(* The order of what the shell is given: each connection's bytes lie in an *)
(* interval of their own, and ahead of every byte on its way to the PTY    *)
(* are just those its connection took before it.                           *)

\* Where the input of a connection ends, and whether a frame lies in it.
Limit(c)      == IF c < made THEN base[c + 1] ELSE taken
Carries(c, f) == base[c] <= f.from /\ f.to <= Limit(c)

\* Whether frame f has byte n, and whether it is ahead of the k-th message.
Holds(f, n)  == f.type = "data" /\ f.from < n /\ n <= f.to
Before(k, n) == \/ \E i \in 1..Len(pty) : pty[i] = n
                \/ \E j \in 1..(k - 1) : Holds(toPty[j], n)

Marks ==
  /\ \A c \in 1..made : base[c] <= got[c] /\ got[c] <= Limit(c) /\ base[c] <= taken
  /\ \A c, d \in 1..made : c < d => Limit(c) <= base[d]
  /\ conn # NoConn => base[conn] <= sent /\ sent <= taken

Carried ==
  /\ \A c \in 1..made : \A i \in 1..Len(up[c]) : Carries(c, up[c][i])
  /\ conn # NoConn => \A i \in 1..Len(cout) : Carries(conn, cout[i])
  /\ \A k \in 1..Len(toPty) : toPty[k].to <= taken
  /\ \A i \in 1..Len(pty) : pty[i] <= taken

InTurn(c, k) ==
  \A n \in Nat : Holds(toPty[k], n) /\ Of(c, n) =>
    \A l \in Nat : Of(c, l) => (Before(k, l) <=> l <= toPty[k].from)

Queued ==
  \A c \in 1..made :
    /\ \A n \in Nat : Of(c, n) => (Before(Len(toPty) + 1, n) <=> n <= got[c])
    /\ \A k \in 1..Len(toPty) : InTurn(c, k)

GivenAfter(c, i) ==
  \A n \in Nat : Of(c, n) => ((\E j \in 1..(i - 1) : pty[j] = n) <=> n < pty[i])

Given == \A c \in 1..made : \A i \in 1..Len(pty) : Of(c, pty[i]) => GivenAfter(c, i)

FlowInv == InputInv /\ Marks /\ Carried /\ Queued /\ Given

LEMMA Marked ==
  ASSUME TypeOK
  PROVE  /\ made \in Nat /\ taken \in Nat
         /\ \A c \in 1..made : /\ c \in Nat /\ c \in Conns /\ base[c] \in Nat /\ got[c] \in Nat
                               /\ up[c] \in Seq(FrameType) /\ Limit(c) \in Nat
                               /\ c < made => c + 1 \in 1..made /\ base[c + 1] \in Nat
<1>1. /\ base \in [Conns -> Nat] /\ got \in [Conns -> Nat] /\ up \in [Conns -> Seq(FrameType)]
      /\ taken \in Nat /\ made \in 0..MaxConns
  BY DEF TypeOK
<1>2. /\ made \in Nat
      /\ \A c \in 1..made : c \in Nat /\ c \in Conns /\ (c < made => c + 1 \in 1..made)
  BY <1>1, InputAssumption DEF Conns
<1>3. \A c \in 1..made : c < made => base[c + 1] \in Nat  BY <1>1, <1>2
<1>4. \A c \in 1..made : Limit(c) \in Nat  BY <1>1, <1>3 DEF Limit
<1> QED  BY <1>1, <1>2, <1>3, <1>4

LEMMA Elements ==
  ASSUME TypeOK
  PROVE  /\ \A i \in 1..Len(pty) : pty[i] \in Nat
         /\ \A k \in 1..Len(toPty) : toPty[k] \in FrameType /\ toPty[k].to \in Nat
<1>1. pty \in Seq(Nat) /\ toPty \in Seq(FrameType)  BY DEF TypeOK
<1>2. \A i \in 1..Len(pty) : pty[i] \in Nat  BY <1>1
<1>3. \A k \in 1..Len(toPty) : toPty[k] \in FrameType  BY <1>1
<1> QED  BY <1>2, <1>3, FrameBounds

LEMMA GivenIsInOrder == ASSUME TypeOK, Given PROVE GivenInOrder
<1> SUFFICES ASSUME NEW c \in 1..made, NEW i \in 1..Len(pty), Of(c, pty[i])
             PROVE  {n \in {pty[j] : j \in 1..(i - 1)} : Of(c, n)}
                      = (base[c] + 1)..(pty[i] - 1)
  BY DEF GivenInOrder
<1>1. /\ c \in Conns /\ base[c] \in Nat /\ i \in Nat /\ pty[i] \in Nat
      /\ \A j \in 1..(i - 1) : pty[j] \in Nat
  <2>1. pty \in Seq(Nat) /\ Len(pty) \in Nat /\ made \in 0..MaxConns  BY DEF TypeOK
  <2>2. c \in Conns  BY <2>1, InputAssumption DEF Conns
  <2>3. base[c] \in Nat  BY <2>2 DEF TypeOK
  <2>4. i \in Nat /\ pty[i] \in Nat /\ \A j \in 1..(i - 1) : j \in 1..Len(pty)  BY <2>1
  <2> QED  BY <2>1, <2>2, <2>3, <2>4
<1>2. \A n \in Nat : Of(c, n) => ((\E j \in 1..(i - 1) : pty[j] = n) <=> n < pty[i])
  BY DEF Given, GivenAfter
<1>3. ASSUME NEW n \in Nat, base[c] < n, n < pty[i] PROVE Of(c, n)
  <2>1. CASE c < made
    <3>1. base[c + 1] \in Nat  BY <2>1, Marked
    <3> QED  BY <1>1, <1>3, <2>1, <3>1 DEF Of
  <2>2. CASE ~(c < made)  BY <1>3, <2>2 DEF Of
  <2> QED  BY <2>1, <2>2
<1>4. ASSUME NEW n \in {pty[j] : j \in 1..(i - 1)}, Of(c, n)
      PROVE  n \in (base[c] + 1)..(pty[i] - 1)
  <2>1. n \in Nat  BY <1>1
  <2>2. n < pty[i] /\ base[c] < n  BY <1>2, <1>4, <2>1 DEF Of
  <2> QED  BY <1>1, <2>1, <2>2
<1>5. ASSUME NEW n \in (base[c] + 1)..(pty[i] - 1)
      PROVE  n \in {pty[j] : j \in 1..(i - 1)} /\ Of(c, n)
  <2>1. n \in Nat /\ base[c] < n /\ n < pty[i]  BY <1>1
  <2> QED  BY <1>2, <1>3, <2>1
<1> QED  BY <1>4, <1>5

\* The intervals of two connections have no byte in common.
LEMMA Apart ==
  ASSUME TypeOK, Marks, NEW c \in 1..made, NEW d \in 1..made, NEW n \in Nat,
         base[c] < n, n <= Limit(c), Of(d, n)
  PROVE  c = d
<1>1. /\ made \in Nat /\ c \in Conns /\ d \in Conns /\ c \in Nat /\ d \in Nat
      /\ base[c] \in Nat /\ base[d] \in Nat /\ taken \in Nat
      /\ \A e \in 1..made : e < made => base[e + 1] \in Nat
  BY Marked
<1>2. CASE c < d
  <2>1. Limit(c) <= base[d] /\ base[d] < n  BY <1>2 DEF Marks, Of
  <2>2. Limit(c) \in Nat  BY <1>1 DEF Limit
  <2> QED  BY <1>1, <2>1, <2>2
<1>3. CASE d < c
  <2>1. d < made  BY <1>1, <1>3
  <2>2. n <= base[d + 1] /\ base[d + 1] <= base[c]  BY <1>3, <2>1 DEF Of, Marks, Limit
  <2> QED  BY <1>1, <2>1, <2>2
<1> QED  BY <1>1, <1>2, <1>3

\* Steps that leave the PTY, its queue and the connections' marks alone.
LEMMA SameFlow ==
  ASSUME Queued, Given, UNCHANGED <<made, base, got, toPty, pty>>
  PROVE  Queued' /\ Given'
<1>1. \A c, n : Of(c, n)' <=> Of(c, n)  BY DEF Of
<1>2. \A k, n : Before(k, n)' <=> Before(k, n)  BY DEF Before, Holds
<1>3. \A c, k : InTurn(c, k) => InTurn(c, k)'  BY <1>1, <1>2 DEF InTurn, Holds
<1>4. Queued'  BY <1>1, <1>2, <1>3 DEF Queued
<1>5. Given'  BY <1>1 DEF Given, GivenAfter
<1> QED  BY <1>4, <1>5

LEMMA LimitGrows ==
  ASSUME TypeOK, Marks, UNCHANGED <<made, base, got>>, taken' \in Nat, taken <= taken'
  PROVE  /\ \A c \in 1..made : base[c] <= got[c] /\ got[c] <= Limit(c)' /\ base[c] <= taken'
         /\ \A c, d \in 1..made : c < d => Limit(c)' <= base[d]
         /\ \A c \in 1..made : \A f \in FrameType : Carries(c, f) => Carries(c, f)'
<1>1. /\ taken \in Nat /\ made \in Nat
      /\ \A c \in 1..made : c \in Nat /\ base[c] \in Nat /\ got[c] \in Nat /\ Limit(c) \in Nat
      /\ \A c \in 1..made : c < made => base[c + 1] \in Nat
  BY Marked
<1>2. \A c \in 1..made : Limit(c) <= Limit(c)' /\ Limit(c)' \in Nat  BY <1>1 DEF Limit
<1>3. ASSUME NEW c \in 1..made
      PROVE  base[c] <= got[c] /\ got[c] <= Limit(c)' /\ base[c] <= taken'
  BY <1>1, <1>2 DEF Marks
<1>4. ASSUME NEW c \in 1..made, NEW d \in 1..made, c < d PROVE Limit(c)' <= base[d]
  <2>1. c < made  BY <1>1, <1>4
  <2> QED  BY <1>4, <2>1 DEF Marks, Limit
<1>5. ASSUME NEW c \in 1..made, NEW f \in FrameType, Carries(c, f) PROVE Carries(c, f)'
  BY <1>1, <1>2, <1>5, FrameBounds DEF Carries
<1> QED  BY <1>3, <1>4, <1>5

LEMMA FlowInit == ASSUME Init PROVE FlowInv
<1>1. InputInv  BY InputInit
<1>2. Marks /\ Carried /\ Queued /\ Given
  BY DEF Init, Marks, Carried, Queued, Given, NoConn
<1> QED  BY <1>1, <1>2 DEF FlowInv

\* Steps of the client and of the network, which move frames no further than
\* the socket.
LEMMA QuietStep ==
  ASSUME FlowInv, InputInv', UNCHANGED <<made, base, got, toPty, pty>>, taken <= taken',
         conn' # NoConn => base'[conn'] <= sent' /\ sent' <= taken',
         \A c \in 1..made : \A i \in 1..Len(up'[c]) : Carries(c, up'[c][i]),
         conn' # NoConn => \A i \in 1..Len(cout') : Carries(conn, cout[i])'
  PROVE  FlowInv'
<1> USE DEF FlowInv
<1>1. taken' \in Nat /\ taken \in Nat /\ TypeOK /\ TypeOK'  BY DEF InputInv, TypeOK
<1>2. /\ \A c \in 1..made : base[c] <= got[c] /\ got[c] <= Limit(c)' /\ base[c] <= taken'
      /\ \A c, d \in 1..made : c < d => Limit(c)' <= base[d]
      /\ \A c \in 1..made : \A f \in FrameType : Carries(c, f) => Carries(c, f)'
  BY <1>1, LimitGrows
<1>3. Marks'  BY <1>2 DEF Marks
<1>4. Carried'
  <2>1. ASSUME NEW c \in 1..made, NEW i \in 1..Len(up'[c]) PROVE Carries(c, up[c][i])'
    <3>1. c \in Conns  BY <1>1, Marked
    <3>2. up'[c][i] \in FrameType
      <4>1. up' \in [Conns -> Seq(FrameType)]  BY <1>1 DEF TypeOK
      <4> QED  BY <3>1, <4>1
    <3>3. Carries(c, up'[c][i])  OBVIOUS
    <3> QED  BY <1>2, <3>2, <3>3
  <2>2. \A k \in 1..Len(toPty) : toPty[k].to <= taken'
    <3>1. SUFFICES ASSUME NEW k \in 1..Len(toPty) PROVE toPty[k].to <= taken'  OBVIOUS
    <3>2. toPty[k].to \in Nat /\ toPty[k].to <= taken  BY <1>1, Elements DEF Carried
    <3> QED  BY <1>1, <3>2
  <2>3. \A i \in 1..Len(pty) : pty[i] <= taken'
    <3>1. SUFFICES ASSUME NEW i \in 1..Len(pty) PROVE pty[i] <= taken'  OBVIOUS
    <3>2. pty[i] \in Nat /\ pty[i] <= taken  BY <1>1, Elements DEF Carried
    <3> QED  BY <1>1, <3>2
  <2> QED  BY <2>1, <2>2, <2>3 DEF Carried
<1>5. Queued' /\ Given'  BY SameFlow
<1> QED  BY <1>3, <1>4, <1>5

LEMMA TerminalFlow ==
  ASSUME FlowInv, InputInv', Type \/ ChangeSize \/ WriteLost \/ Loses \/ UNCHANGED vars
  PROVE  FlowInv'
<1>1. /\ UNCHANGED <<made, base, got, toPty, pty, taken, sent, up>>
      /\ conn' \in {conn, NoConn} /\ cout' \in {cout, << >>}
  BY DEF Type, ChangeSize, WriteLost, Loses, vars, clientVars, connVars, ptyVars
<1>2. taken <= taken'  BY <1>1 DEF FlowInv, InputInv, TypeOK
<1>3. conn' # NoConn => base'[conn'] <= sent' /\ sent' <= taken'
  BY <1>1 DEF FlowInv, Marks
<1>4. \A c \in 1..made : \A i \in 1..Len(up'[c]) : Carries(c, up'[c][i])
  BY <1>1 DEF FlowInv, Carried
<1>5. conn' # NoConn => \A i \in 1..Len(cout') : Carries(conn, cout[i])'
  <2>1. CASE cout' = << >>  BY <2>1
  <2>2. CASE cout' = cout  BY <1>1, <2>2 DEF FlowInv, Carried, Carries, Limit
  <2> QED  BY <1>1, <2>1, <2>2
<1> QED  BY <1>1, <1>2, <1>3, <1>4, <1>5, QuietStep

\* The current connection takes all that is taken.
LEMMA LastLimit ==
  ASSUME InputInv, conn # NoConn
  PROVE  conn = made /\ conn \in 1..made /\ conn \in Conns /\ Limit(conn) = taken
BY InputAssumption DEF InputInv, TypeOK, Current, Limit, Conns, NoConn

LEMMA TakeFlow == ASSUME FlowInv, InputInv', Take PROVE FlowInv'
<1> USE DEF FlowInv
<1> DEFINE last == Head(stdin)  to == Passed(last)
<1>1. /\ conn # NoConn /\ stdin # << >> /\ taken' = last /\ sent' = to
      /\ cout' = IF to > sent THEN <<Data(sent, to)>> ELSE << >>
      /\ UNCHANGED <<conn, made, base, got, toPty, pty, up>>
  BY DEF Take, Selecting, connVars, ptyVars
<1>2. /\ last \in Nat /\ taken < last /\ taken \in Nat /\ sent \in Nat
      /\ conn \in 1..made /\ conn = made /\ base[conn] \in Nat
  BY <1>1, HeadChunk, LastLimit DEF InputInv, TypeOK
<1>3. to \in Nat /\ (to = last \/ to = last - 1)  BY <1>2 DEF Passed
<1> HIDE DEF last, to
<1>4. base[conn] <= sent /\ sent <= taken  BY <1>1 DEF Marks
<1>5. base[conn] <= to /\ to <= last /\ sent <= to  BY <1>2, <1>3, <1>4
<1>6. \A i \in 1..Len(cout') : Carries(conn, cout[i])'
  <2>1. CASE to > sent
    <3>1. cout' = <<Data(sent, to)>>  BY <1>1, <2>1
    <3>2. Len(cout') = 1 /\ cout'[1] = Data(sent, to)  BY <3>1
    <3>3. ~(conn' < made') /\ conn' = conn  BY <1>1, <1>2, InputAssumption DEF InputInv, TypeOK
    <3>4. Limit(conn)' = last  BY <1>1, <3>3 DEF Limit
    <3>5. Carries(conn, cout[1])'  BY <1>1, <1>4, <1>5, <3>2, <3>4 DEF Carries, Data
    <3> QED  BY <3>2, <3>5
  <2>2. CASE ~(to > sent)
    <3>1. cout' = << >>  BY <1>1, <2>2
    <3> QED  BY <3>1
  <2> QED  BY <2>1, <2>2
<1>7. taken <= taken'  BY <1>1, <1>2
<1>8. conn' # NoConn => base'[conn'] <= sent' /\ sent' <= taken'  BY <1>1, <1>5
<1>9. \A c \in 1..made : \A i \in 1..Len(up'[c]) : Carries(c, up'[c][i])
  BY <1>1 DEF Carried
<1> QED  BY <1>1, <1>6, <1>7, <1>8, <1>9, QuietStep

LEMMA LeaveFlow == ASSUME FlowInv, InputInv', Detach \/ StdinCloses PROVE FlowInv'
<1> USE DEF FlowInv
<1>1. /\ conn' = NoConn
      /\ UNCHANGED <<made, base, got, toPty, pty, up>>
  BY DEF Detach, StdinCloses, Leaves, ptyVars
<1>2. taken <= taken'
  <2>1. CASE Detach
    <3>1. stdin # << >> /\ taken' = Head(stdin)  BY <2>1 DEF Detach
    <3>2. taken < Head(stdin) /\ Head(stdin) \in Nat /\ taken \in Nat
      BY <3>1, HeadChunk DEF InputInv, TypeOK
    <3> QED  BY <3>1, <3>2
  <2>2. CASE StdinCloses  BY <2>2 DEF StdinCloses, InputInv, TypeOK
  <2> QED  BY <2>1, <2>2
<1>3. \A c \in 1..made : \A i \in 1..Len(up'[c]) : Carries(c, up'[c][i])
  BY <1>1 DEF Carried
<1> QED  BY <1>1, <1>2, <1>3, QuietStep

LEMMA WinchFlow == ASSUME FlowInv, InputInv', Winch PROVE FlowInv'
<1> USE DEF FlowInv
<1>1. /\ conn # NoConn /\ cout' = <<Resize(conn, sent)>>
      /\ UNCHANGED <<taken, sent, conn, made, base, got, toPty, pty, up>>
  BY DEF Winch, Selecting, connVars, ptyVars
<1>2. taken \in Nat /\ sent \in Nat /\ Limit(conn) = taken  BY <1>1, LastLimit DEF InputInv, TypeOK
<1>3. \A i \in 1..Len(cout') : Carries(conn, cout[i])'
  <2>1. Len(cout') = 1 /\ cout'[1] = Resize(conn, sent)  BY <1>1
  <2>2. Limit(conn)' = taken  BY <1>1, <1>2 DEF Limit
  <2>3. Carries(conn, cout[1])'  BY <1>1, <2>1, <2>2 DEF Carries, Resize, Marks
  <2> QED  BY <2>1, <2>3
<1>4. taken <= taken'  BY <1>1, <1>2
<1>5. conn' # NoConn => base'[conn'] <= sent' /\ sent' <= taken'  BY <1>1 DEF Marks
<1>6. \A c \in 1..made : \A i \in 1..Len(up'[c]) : Carries(c, up'[c][i])
  BY <1>1 DEF Carried
<1> QED  BY <1>1, <1>3, <1>4, <1>5, <1>6, QuietStep

\* What is on its way after these steps was on its way, or being written.
LEMMA SocketFlow ==
  ASSUME FlowInv, InputInv', Write \/ Cut \/ \E c \in Conns : TaskEnds(c)
  PROVE  FlowInv'
<1> USE DEF FlowInv
<1>1. /\ UNCHANGED <<taken, sent, conn, made, base, got, toPty, pty>>
      /\ cout' \in {cout, << >>} /\ taken \in Nat
      /\ up \in [Conns -> Seq(FrameType)] /\ \A c \in 1..made : c \in Conns
  <2>1. \A c \in 1..made : c \in Conns  BY InputAssumption DEF InputInv, TypeOK, Conns
  <2> QED  BY <2>1 DEF Write, Cut, TaskEnds, clientVars, ptyVars, InputInv, TypeOK
<1>2. \A c \in 1..made : \A i \in 1..Len(up'[c]) : Carries(c, up'[c][i])
  <2>1. SUFFICES ASSUME NEW c \in 1..made, NEW i \in 1..Len(up'[c])
                 PROVE  Carries(c, up'[c][i])
    OBVIOUS
  <2>0. up[c] \in Seq(FrameType) /\ c \in Conns /\ \A j \in 1..Len(up[c]) : Carries(c, up[c][j])
    BY <1>1 DEF Carried
  <2>2. CASE up'[c] = up[c]  BY <2>0, <2>2
  <2>3. CASE Write /\ up'[c] # up[c]
    <3>1. c = conn /\ cout # << >> /\ up'[c] = Append(up[c], cout[1])
      BY <1>1, <2>0, <2>3 DEF Write
    <3>2. cout \in Seq(FrameType) /\ Len(cout) <= 1  BY DEF InputInv, TypeOK
    <3>3. Len(cout) = 1 /\ cout[1] \in FrameType  BY <3>1, <3>2, SingleFrame
    <3>4. conn # NoConn  BY <2>3 DEF Write
    <3>5. Carries(conn, cout[1])  BY <3>3, <3>4 DEF Carried
    <3>6. i \in 1..(Len(up[c]) + 1) /\ Len(up[c]) \in Nat
          /\ (i <= Len(up[c]) => up'[c][i] = up[c][i])
          /\ (i = Len(up[c]) + 1 => up'[c][i] = cout[1])
      BY <2>0, <3>1, <3>3
    <3> QED  BY <2>0, <3>1, <3>5, <3>6
  <2>4. CASE Cut /\ up'[c] # up[c]
    <3>1. c = conn  BY <1>1, <2>0, <2>4 DEF Cut
    <3>2. PICK n \in 0..Len(up[c]) : up'[c] = SubSeq(up[c], 1, n)
      BY <1>1, <2>0, <2>4, <3>1 DEF Cut
    <3>3. i \in 1..Len(up[c]) /\ up'[c][i] = up[c][i]  BY <2>0, <3>2
    <3> QED  BY <2>0, <3>3
  <2>5. CASE (\E d \in Conns : TaskEnds(d)) /\ up'[c] # up[c]
    <3>1. up'[c] = << >>  BY <1>1, <2>0, <2>5 DEF TaskEnds
    <3> QED  BY <3>1
  <2> QED  BY <2>2, <2>3, <2>4, <2>5
<1>3. conn' # NoConn => \A i \in 1..Len(cout') : Carries(conn, cout[i])'
  <2>1. CASE cout' = << >>  BY <2>1
  <2>2. CASE cout' = cout  BY <1>1, <2>2 DEF Carried, Carries, Limit
  <2> QED  BY <1>1, <2>1, <2>2
<1>4. taken <= taken'  BY <1>1
<1>5. conn' # NoConn => base'[conn'] <= sent' /\ sent' <= taken'  BY <1>1 DEF Marks
<1> QED  BY <1>1, <1>2, <1>3, <1>4, <1>5, QuietStep

\* A new connection starts where the one before it stopped: no byte that was
\* taken is its own.
LEMMA ConnectFlow == ASSUME FlowInv, InputInv', Connect PROVE FlowInv'
<1> USE DEF FlowInv
<1>0. PICK e \in Nat : e = made + 1  BY DEF InputInv, TypeOK
<1>1. /\ e \in Conns /\ e = made + 1 /\ made \in Nat /\ made' = e /\ conn' = e
      /\ base' = [base EXCEPT ![e] = taken] /\ got' = [got EXCEPT ![e] = taken]
      /\ sent' = taken /\ cout' = <<Resize(e, taken)>> /\ taken \in Nat
      /\ UNCHANGED <<taken, up, toPty, pty>>
  BY <1>0, InputAssumption DEF Connect, InputInv, TypeOK, Conns, ptyVars
<1>2. /\ base'[e] = taken /\ got'[e] = taken
      /\ \A c \in 1..made : c \in Nat /\ c # e /\ base'[c] = base[c] /\ got'[c] = got[c]
                            /\ base[c] \in Nat /\ got[c] \in Nat /\ c \in Conns
      /\ \A c \in 1..made : c + 1 \in 1..made' /\ (c < made <=> c + 1 \in 1..made)
      /\ \A c \in 1..made' : c \in 1..made \/ c = e
  <2>0. base \in [Conns -> Nat] /\ got \in [Conns -> Nat]  BY DEF InputInv, TypeOK
  <2>1. \A c \in 1..made : c \in Nat /\ c # e /\ c \in Conns
    BY <1>1, InputAssumption DEF Conns
  <2>2. /\ \A c \in 1..made : c + 1 \in 1..made' /\ (c < made <=> c + 1 \in 1..made)
        /\ \A c \in 1..made' : c \in 1..made \/ c = e
    BY <1>1
  <2> QED  BY <1>1, <2>0, <2>1, <2>2
<1>3. /\ Limit(e)' = taken /\ \A c \in 1..made : Limit(c)' = Limit(c)
  <2>1. Limit(e)' = taken  BY <1>1 DEF Limit
  <2>2. ASSUME NEW c \in 1..made PROVE Limit(c)' = Limit(c)
    <3>1. CASE c < made
      <4>1. c + 1 \in 1..made  BY <1>2, <3>1
      <4>2. base'[c + 1] = base[c + 1] /\ c < made'  BY <1>1, <1>2, <3>1, <4>1
      <4> QED  BY <3>1, <4>2 DEF Limit
    <3>2. CASE ~(c < made)
      <4>1. c = made /\ c < made' /\ c + 1 = e  BY <1>1, <3>2
      <4> QED  BY <1>2, <3>2, <4>1 DEF Limit
    <3> QED  BY <3>1, <3>2
  <2> QED  BY <2>1, <2>2
<1>4. ASSUME NEW n \in Nat PROVE /\ Of(e, n)' => taken < n
                                 /\ \A c \in 1..made : Of(c, n)' <=> Of(c, n) /\ n <= Limit(c)
  <2>1. Of(e, n)' => taken < n  BY <1>2 DEF Of
  <2>2. ASSUME NEW c \in 1..made PROVE Of(c, n)' <=> Of(c, n) /\ n <= Limit(c)
    <3>1. CASE c < made
      <4>1. c + 1 \in 1..made  BY <1>2, <3>1
      <4>2. base'[c + 1] = base[c + 1] /\ c < made'  BY <1>1, <1>2, <3>1, <4>1
      <4> QED  BY <1>2, <3>1, <4>2 DEF Of, Limit
    <3>2. CASE ~(c < made)
      <4>1. c = made /\ c < made' /\ c + 1 = e  BY <1>1, <3>2
      <4> QED  BY <1>2, <3>2, <4>1 DEF Of, Limit
    <3> QED  BY <3>1, <3>2
  <2> QED  BY <2>1, <2>2
<1>5. Marks'
  <2>1. \A c \in 1..made' : base'[c] <= got'[c] /\ got'[c] <= Limit(c)' /\ base'[c] <= taken'
    BY <1>1, <1>2, <1>3 DEF Marks
  <2>2. ASSUME NEW c \in 1..made', NEW d \in 1..made', c < d PROVE Limit(c)' <= base'[d]
    <3>1. c \in 1..made  BY <1>1, <1>2, <2>2
    <3>2. CASE d \in 1..made  BY <1>2, <1>3, <2>2, <3>1, <3>2 DEF Marks
    <3>3. CASE d = e
      <4>1. CASE c < made
        <5>1. c + 1 \in 1..made  BY <1>2, <3>1, <4>1
        <5>2. Limit(c) <= taken  BY <4>1, <5>1 DEF Limit, Marks
        <5> QED  BY <1>2, <1>3, <3>1, <3>3, <5>2
      <4>2. CASE ~(c < made)
        <5>1. Limit(c) = taken  BY <4>2 DEF Limit
        <5> QED  BY <1>1, <1>2, <1>3, <3>1, <3>3, <5>1
      <4> QED  BY <4>1, <4>2
    <3> QED  BY <1>2, <3>2, <3>3
  <2>3. base'[conn'] <= sent' /\ sent' <= taken'  BY <1>1, <1>2
  <2> QED  BY <2>1, <2>2, <2>3 DEF Marks
<1>6. Carried'
  <2>1. ASSUME NEW c \in 1..made', NEW i \in 1..Len(up'[c]) PROVE Carries(c, up[c][i])'
    <3>1. CASE c \in 1..made
      <4>1. i \in 1..Len(up[c]) /\ up'[c][i] = up[c][i]  BY <1>1
      <4>2. Carries(c, up[c][i])  BY <3>1, <4>1 DEF Carried
      <4> QED  BY <1>2, <1>3, <3>1, <4>1, <4>2 DEF Carries
    <3>2. CASE c = e
      <4>1. up[c] = << >>  BY <1>1, <3>2 DEF InputInv, Current
      <4> QED  BY <1>1, <4>1
    <3> QED  BY <1>2, <3>1, <3>2
  <2>2. ASSUME NEW i \in 1..Len(cout') PROVE Carries(conn, cout[i])'
    <3>1. cout'[i] = Resize(e, taken)  BY <1>1
    <3> QED  BY <1>1, <1>2, <1>3, <3>1 DEF Carries, Resize
  <2> QED  BY <1>1, <2>1, <2>2 DEF Carried
<1>7. \A i \in 1..Len(pty) : pty[i] \in Nat /\ pty[i] <= taken
  BY Elements DEF Carried, InputInv
<1>8. \A k \in 1..Len(toPty) : toPty[k].to \in Nat /\ toPty[k].to <= taken
  BY Elements DEF Carried, InputInv
<1>9. /\ Len(toPty) \in Nat
      /\ \A n \in Nat : \A k \in 1..(Len(toPty) + 1) : Before(k, n)' <=> Before(k, n)
      /\ \A n \in Nat : \A k \in 1..(Len(toPty) + 1) : Before(k, n) => n <= taken
  <2>1. Len(toPty) \in Nat  BY DEF InputInv, TypeOK
  <2>2. ASSUME NEW n \in Nat, NEW k \in 1..(Len(toPty) + 1), Before(k, n) PROVE n <= taken
    <3>1. CASE \E i \in 1..Len(pty) : pty[i] = n  BY <1>7, <3>1
    <3>2. CASE \E j \in 1..(k - 1) : Holds(toPty[j], n)
      <4>1. PICK j \in 1..(k - 1) : Holds(toPty[j], n)  BY <3>2
      <4>2. j \in 1..Len(toPty)  BY <2>1
      <4> QED  BY <1>1, <1>8, <4>1, <4>2 DEF Holds
    <3> QED  BY <2>2, <3>1, <3>2 DEF Before
  <2>3. \A n \in Nat : \A k \in 1..(Len(toPty) + 1) : Before(k, n)' <=> Before(k, n)
    BY <1>1 DEF Before, Holds
  <2> QED  BY <2>1, <2>2, <2>3
<1>10. Queued'
  <2>1. ASSUME NEW c \in 1..made'
        PROVE  /\ \A n \in Nat : Of(c, n)' => (Before(Len(toPty) + 1, n) <=> n <= got'[c])
               /\ \A k \in 1..Len(toPty) : InTurn(c, k)'
    <3>1. CASE c \in 1..made
      <4>1. \A n \in Nat : Of(c, n)' => (Before(Len(toPty) + 1, n) <=> n <= got'[c])
        BY <1>2, <1>4, <3>1 DEF Queued
      <4>2. ASSUME NEW k \in 1..Len(toPty) PROVE InTurn(c, k)'
        <5>1. InTurn(c, k)  BY <3>1 DEF Queued
        <5>2. k \in 1..(Len(toPty) + 1) /\ toPty' = toPty  BY <1>1, <1>9
        <5> QED  BY <1>4, <1>9, <3>1, <5>1, <5>2 DEF InTurn, Holds
      <4> QED  BY <4>1, <4>2
    <3>2. CASE c = e
      <4>1. \A n \in Nat : Of(c, n)' => (Before(Len(toPty) + 1, n) <=> n <= got'[c])
        <5>1. SUFFICES ASSUME NEW n \in Nat, Of(c, n)'
                       PROVE  ~Before(Len(toPty) + 1, n) /\ ~(n <= got'[c])
          OBVIOUS
        <5>2. taken < n  BY <1>4, <3>2, <5>1
        <5>3. Len(toPty) + 1 \in 1..(Len(toPty) + 1)  BY <1>9
        <5> QED  BY <1>1, <1>2, <1>9, <3>2, <5>2, <5>3
      <4>2. ASSUME NEW k \in 1..Len(toPty), NEW n \in Nat, Holds(toPty[k], n), Of(c, n)'
            PROVE  FALSE
        <5>1. taken < n  BY <1>4, <3>2, <4>2
        <5> QED  BY <1>1, <1>8, <4>2, <5>1 DEF Holds
      <4>3. ASSUME NEW k \in 1..Len(toPty) PROVE InTurn(c, k)'
        BY <1>1, <4>2 DEF InTurn, Holds
      <4> QED  BY <4>1, <4>3
    <3> QED  BY <1>2, <3>1, <3>2
  <2>2. Len(toPty) + 1 \in 1..(Len(toPty) + 1)  BY <1>9
  <2> QED  BY <1>1, <1>9, <2>1, <2>2 DEF Queued
<1>11. Given'
  <2>1. SUFFICES ASSUME NEW c \in 1..made', NEW i \in 1..Len(pty), Of(c, pty[i])'
                 PROVE  GivenAfter(c, i)'
    BY <1>1 DEF Given
  <2>2. pty[i] \in Nat /\ pty[i] <= taken /\ pty' = pty  BY <1>1, <1>7
  <2>3. Of(c, pty[i])'  BY <2>1
  <2>4. c \in 1..made
    <3>1. c # e  BY <1>1, <1>4, <2>2, <2>3
    <3> QED  BY <1>2, <3>1
  <2>5. Of(c, pty[i])  BY <1>4, <2>2, <2>3, <2>4
  <2>6. GivenAfter(c, i)  BY <2>4, <2>5 DEF Given
  <2> QED  BY <1>4, <2>2, <2>4, <2>6 DEF GivenAfter
<1> QED  BY <1>5, <1>6, <1>10, <1>11

\* The frame that is read comes next for its own connection, and holds no byte of
\* another.
LEMMA ReadFlow == ASSUME FlowInv, InputInv', NEW c \in Conns, Read(c) PROVE FlowInv'
<1> USE DEF FlowInv
<1> DEFINE q == up[c]
<1>0. PICK f : f = Head(q)  OBVIOUS
<1>L. PICK L \in Nat : L = Len(toPty)  BY DEF InputInv, TypeOK
<1>1. /\ q # << >> /\ up' = [up EXCEPT ![c] = Tail(q)] /\ toPty' = Append(toPty, f)
      /\ got' = [got EXCEPT ![c] = f.to]
      /\ UNCHANGED <<clientVars, made, base, pty>>
  BY <1>0 DEF Read
<1> USE DEF clientVars
<1>2. q \in Seq(FrameType) /\ toPty \in Seq(FrameType)
  BY DEF InputInv, TypeOK
<1>3. /\ f \in FrameType /\ f = q[1] /\ 1 \in 1..Len(q)
      /\ \A i \in 1..Len(Tail(q)) : i + 1 \in 1..Len(q) /\ Tail(q)[i] = q[i + 1]
  <2> HIDE DEF q
  <2> QED  BY <1>0, <1>1, <1>2
<1>4. /\ made \in Nat /\ taken \in Nat /\ base[c] \in Nat /\ got[c] \in Nat
      /\ c \in 1..made /\ \A d \in 1..made : d \in Conns
  <2>1. base[c] \in Nat /\ got[c] \in Nat /\ taken \in Nat /\ made \in 0..MaxConns
    BY DEF InputInv, TypeOK
  <2>2. ~(c > made)  BY <1>1 DEF InputInv, Current
  <2> QED  BY <2>1, <2>2, InputAssumption DEF Conns
<1>5. f.from = got[c] /\ Carries(c, f)
  <2>1. Follow(got[c], q)  BY DEF InputInv, InputConserved
  <2> QED  BY <1>1, <1>3, <1>4, <2>1 DEF Follow, Carried
<1>6. f.from \in Nat /\ f.to \in Nat /\ f.from <= f.to /\ (f.type # "data" => f.from = f.to)
  BY <1>3, FrameBounds DEF FrameType, DataType, ResizeType
<1> HIDE DEF q
<1>7. /\ Len(toPty') = L + 1 /\ toPty'[L + 1] = f
      /\ \A k \in 1..L : toPty'[k] = toPty[k]
  BY <1>1, <1>2, <1>3, <1>L
<1>8. /\ \A n \in Nat : \A k \in 1..(L + 1) : Before(k, n)' <=> Before(k, n)
      /\ \A n \in Nat : Before(L + 1 + 1, n)' <=> Before(L + 1, n) \/ Holds(f, n)
  <2>1. ASSUME NEW n \in Nat, NEW k \in 1..(L + 1) PROVE Before(k, n)' <=> Before(k, n)
    <3>1. \A j \in 1..(k - 1) : toPty'[j] = toPty[j]  BY <1>2, <1>7
    <3> QED  BY <1>1, <3>1 DEF Before, Holds
  <2>2. ASSUME NEW n \in Nat
        PROVE  (\E j \in 1..(L + 1) : Holds(toPty'[j], n))
                 <=> (\E j \in 1..L : Holds(toPty[j], n)) \/ Holds(f, n)
    <3>1. \A j \in 1..(L + 1) : j \in 1..L \/ j = L + 1  BY <1>2
    <3>2. L + 1 \in 1..(L + 1) /\ \A j \in 1..L : j \in 1..(L + 1)  BY <1>2
    <3> QED  BY <1>7, <3>1, <3>2
  <2>3. ASSUME NEW n \in Nat
        PROVE  Before(L + 1 + 1, n)' <=> Before(L + 1, n) \/ Holds(f, n)
    <3>1. L + 1 - 1 = L  BY <1>2
    <3>2. \A x : x = L + 1 + 1 => x - 1 = L + 1  BY <1>2
    <3>3. (\E j \in 1..(L + 1) : Holds(toPty'[j], n))
            <=> (\E j \in 1..L : Holds(toPty[j], n)) \/ Holds(f, n)
      BY <2>2
    <3> QED  BY <1>1, <1>7, <3>1, <3>2, <3>3 DEF Before, Holds
  <2> QED  BY <2>1, <2>3
<1>9. ASSUME NEW d \in 1..made, NEW n \in Nat, Holds(f, n), Of(d, n) PROVE c = d
  <2>1. Limit(c) \in Nat  BY <1>4, Marked DEF InputInv
  <2>2. base[c] < n /\ n <= Limit(c)  BY <1>4, <1>5, <1>6, <1>9, <2>1 DEF Holds, Carries
  <2> QED  BY <1>4, <1>9, <2>2, Apart DEF InputInv
<1>10. /\ got'[c] = f.to /\ \A d \in 1..made : d # c => got'[d] = got[d]
       /\ \A d \in 1..made : \A n \in Nat : Of(d, n)' <=> Of(d, n)
       /\ \A d \in 1..made : Limit(d)' = Limit(d)
  <2>1. got \in [Conns -> Nat]  BY DEF InputInv, TypeOK
  <2> QED  BY <1>1, <1>4, <2>1 DEF Of, Limit
<1>11. Limit(c) <= taken
  BY <1>4, InputAssumption DEF Limit, Marks
<1>12. Marks'
  <2>1. base[c] <= f.to /\ f.to <= Limit(c)  BY <1>4, <1>5, <1>6 DEF Carries
  <2> QED  BY <1>1, <1>10, <2>1 DEF Marks
<1>13. Carried'
  <2>1. ASSUME NEW d \in 1..made, NEW i \in 1..Len(up'[d]) PROVE Carries(d, up[d][i])'
    <3>1. CASE d = c
      <4>1. up'[d] = Tail(q)  BY <1>1, <3>1 DEF InputInv, TypeOK
      <4>2. i + 1 \in 1..Len(q) /\ up'[d][i] = q[i + 1]  BY <1>3, <4>1
      <4>3. Carries(c, q[i + 1])  BY <1>4, <4>2 DEF q, Carried
      <4> QED  BY <1>1, <1>10, <3>1, <4>2, <4>3 DEF Carries
    <3>2. CASE d # c
      <4>1. up'[d] = up[d]  BY <1>1, <1>4, <3>2 DEF InputInv, TypeOK
      <4>2. Carries(d, up[d][i])  BY <4>1 DEF Carried
      <4> QED  BY <1>1, <1>10, <4>1, <4>2 DEF Carries
    <3> QED  BY <3>1, <3>2
  <2>2. conn # NoConn => \A i \in 1..Len(cout) : Carries(conn, cout[i])'
    BY <1>1 DEF Carried, Carries, Limit
  <2>3. ASSUME NEW k \in 1..Len(toPty') PROVE toPty'[k].to <= taken
    <3>1. CASE k \in 1..L  BY <1>7, <1>L, <3>1 DEF Carried
    <3>2. CASE k = L + 1
      <4>1. Limit(c) \in Nat  BY <1>4, Marked DEF InputInv
      <4> QED  BY <1>4, <1>5, <1>6, <1>7, <1>11, <3>2, <4>1 DEF Carries
    <3> QED  BY <1>2, <1>7, <3>1, <3>2
  <2> QED  BY <1>1, <2>1, <2>2, <2>3 DEF Carried
<1>14. L + 1 \in 1..(L + 1)  BY <1>2
<1>15. ASSUME NEW d \in 1..made, NEW n \in Nat, Of(d, n)
       PROVE  Before(L + 1 + 1, n)' <=> n <= got'[d]
  <2>1. Before(L + 1, n) <=> n <= got[d]  BY <1>15, <1>L DEF Queued
  <2>2. CASE d = c
    <3>1. n <= f.to <=> n <= f.from \/ Holds(f, n)  BY <1>6 DEF Holds
    <3> QED  BY <1>5, <1>8, <1>10, <2>1, <2>2, <3>1
  <2>3. CASE d # c
    <3>1. ~Holds(f, n)  BY <1>9, <1>15, <2>3
    <3> QED  BY <1>8, <1>10, <2>1, <2>3, <3>1
  <2> QED  BY <2>2, <2>3
<1>16. ASSUME NEW d \in 1..made, NEW k \in 1..(L + 1) PROVE InTurn(d, k)'
  <2>1. CASE k \in 1..L
    <3>1. InTurn(d, k)  BY <2>1, <1>L DEF Queued
    <3> QED  BY <1>7, <1>8, <1>10, <2>1, <3>1 DEF InTurn, Holds
  <2>2. CASE k = L + 1
    <3>1. SUFFICES ASSUME NEW n \in Nat, Holds(f, n), Of(d, n), NEW l \in Nat, Of(d, l)
                   PROVE  Before(L + 1, l) <=> l <= f.from
      BY <1>7, <1>8, <1>10, <1>14, <2>2 DEF InTurn, Holds
    <3>2. d = c  BY <1>9, <3>1
    <3> QED  BY <1>5, <1>L, <3>1, <3>2 DEF Queued
  <2> QED  BY <1>2, <2>1, <2>2
<1>17. Queued'  BY <1>1, <1>7, <1>10, <1>15, <1>16 DEF Queued
<1>18. Given'  BY <1>1 DEF Given, GivenAfter, Of
<1> QED  BY <1>12, <1>13, <1>17, <1>18

\* The bytes the shell gets stand behind just those its connection took before.
LEMMA PtyFlow == ASSUME FlowInv, InputInv', PtyTakes PROVE FlowInv'
<1> USE DEF FlowInv
<1>0. PICK m : m = Head(toPty)  OBVIOUS
<1>L. PICK L \in Nat : L = Len(toPty)  BY DEF InputInv, TypeOK
<1>P. PICK P \in Nat : P = Len(pty)  BY DEF InputInv, TypeOK
<1>1. /\ toPty # << >> /\ toPty' = Tail(toPty) /\ UNCHANGED <<clientVars, connVars>>
      /\ \/ m.type = "data" /\ pty' = pty \o [i \in 1..(m.to - m.from) |-> m.from + i]
         \/ m.type # "data" /\ UNCHANGED pty
  BY <1>0 DEF PtyTakes
<1> USE DEF clientVars, connVars
<1>2. /\ L > 0 /\ m = toPty[1] /\ m \in FrameType /\ Len(toPty') = L - 1
      /\ \A k \in 1..(L - 1) : toPty'[k] = toPty[k + 1]
  <2>1. toPty \in Seq(FrameType)  BY DEF InputInv, TypeOK
  <2> QED  BY <1>0, <1>1, <1>L, <2>1
<1>3. m.from \in Nat /\ m.to \in Nat /\ m.from <= m.to  BY <1>2, FrameBounds
<1>4. m.to <= taken /\ taken \in Nat  BY <1>2, <1>L DEF Carried, InputInv, TypeOK
<1>5. PICK w \in Nat : /\ m.type = "data" => w = m.to - m.from
                       /\ m.type # "data" => w = 0
                       /\ Len(pty') = P + w
                       /\ \A i \in 1..P : pty'[i] = pty[i]
                       /\ \A i \in 1..w : pty'[P + i] = m.from + i
  <2>1. CASE m.type = "data"
    <3> DEFINE w == m.to - m.from  s == [i \in 1..w |-> m.from + i]
    <3>1. w \in Nat  BY <1>3
    <3>2. s \in Seq(Nat) /\ Len(s) = w /\ \A i \in 1..w : s[i] = m.from + i
      <4>1. \A i \in 1..w : m.from + i \in Nat  BY <1>3, <3>1
      <4> HIDE DEF w
      <4> QED  BY <3>1, <4>1
    <3>3. pty \in Seq(Nat) /\ pty' = pty \o s  BY <1>1, <2>1 DEF InputInv, TypeOK
    <3> HIDE DEF w, s
    <3>4. /\ Len(pty') = P + w /\ \A i \in 1..P : pty'[i] = pty[i]
          /\ \A i \in 1..w : pty'[P + i] = s[i]
      <4>0. pty \in Seq(Nat) /\ s \in Seq(Nat)  BY <3>2, <3>3
      <4>1. Len(pty \o s) = Len(pty) + Len(s)  BY <4>0
      <4>2. \A i \in 1..Len(pty) : (pty \o s)[i] = pty[i]  BY <3>2, <3>3
      <4>3. \A i \in 1..Len(s) : (pty \o s)[Len(pty) + i] = s[i]  BY <3>2, <3>3
      <4> QED  BY <1>P, <3>2, <3>3, <4>1, <4>2, <4>3
    <3> QED  BY <2>1, <3>1, <3>2, <3>4 DEF w
  <2>2. CASE m.type # "data"  BY <1>1, <1>P, <2>2
  <2> QED  BY <2>1, <2>2
<1>6. /\ \A i \in 1..Len(pty') : i \in 1..P \/ \E p \in 1..w : i = P + p
      /\ \A i \in 1..P : i \in 1..Len(pty')
      /\ \A i \in 1..w : P + i \in 1..Len(pty')
  <2>1. ASSUME NEW i \in 1..Len(pty'), i \notin 1..P PROVE \E p \in 1..w : i = P + p
    <3>1. i - P \in 1..w /\ i = P + (i - P)  BY <1>5, <2>1
    <3> QED  BY <3>1
  <2> QED  BY <1>5, <2>1
<1>w. w \in Nat /\ (m.type = "data" => m.to = m.from + w) /\ (m.type # "data" => w = 0)
  BY <1>3, <1>5
<1>7. \A n \in Nat : Holds(m, n) <=> \E p \in 1..w : m.from + p = n
  <2>1. ASSUME NEW n \in Nat, Holds(m, n) PROVE \E p \in 1..w : m.from + p = n
    <3>1. n - m.from \in 1..w /\ m.from + (n - m.from) = n  BY <1>3, <1>w, <2>1 DEF Holds
    <3> QED  BY <3>1
  <2>2. ASSUME NEW p \in 1..w PROVE Holds(m, m.from + p)
    BY <1>3, <1>w DEF Holds
  <2> QED  BY <2>1, <2>2
<1>8. \A n \in Nat : (\E i \in 1..Len(pty') : pty'[i] = n)
                       <=> (\E i \in 1..Len(pty) : pty[i] = n) \/ Holds(m, n)
  <2>1. ASSUME NEW n \in Nat, NEW i \in 1..Len(pty'), pty'[i] = n
        PROVE  (\E j \in 1..Len(pty) : pty[j] = n) \/ Holds(m, n)
    <3>1. CASE i \in 1..P  BY <1>5, <1>P, <2>1, <3>1
    <3>2. ASSUME NEW p \in 1..w, i = P + p PROVE Holds(m, n)  BY <1>5, <1>7, <2>1, <3>2
    <3> QED  BY <1>6, <3>1, <3>2
  <2>2. ASSUME NEW n \in Nat, NEW i \in 1..Len(pty), pty[i] = n
        PROVE  \E j \in 1..Len(pty') : pty'[j] = n
    BY <1>5, <1>6, <1>P, <2>2
  <2>3. ASSUME NEW n \in Nat, Holds(m, n) PROVE \E j \in 1..Len(pty') : pty'[j] = n
    <3>1. PICK p \in 1..w : m.from + p = n  BY <1>7, <2>3
    <3> QED  BY <1>5, <1>6, <3>1
  <2> QED  BY <2>1, <2>2, <2>3
<1>9. ASSUME NEW n \in Nat, NEW k \in 1..L PROVE Before(k, n)' <=> Before(k + 1, n)
  <2>1. (\E j \in 1..k : Holds(toPty[j], n))
          <=> Holds(m, n) \/ \E j \in 1..(k - 1) : Holds(toPty'[j], n)
    <3>1. ASSUME NEW j \in 1..k, Holds(toPty[j], n)
          PROVE  Holds(m, n) \/ \E i \in 1..(k - 1) : Holds(toPty'[i], n)
      <4>1. CASE j = 1  BY <1>2, <3>1, <4>1
      <4>2. CASE j # 1
        <5>1. j - 1 \in 1..(k - 1) /\ toPty'[j - 1] = toPty[j]  BY <1>2, <4>2
        <5> QED  BY <3>1, <5>1
      <4> QED  BY <4>1, <4>2
    <3>2. ASSUME NEW j \in 1..(k - 1), Holds(toPty'[j], n)
          PROVE  \E i \in 1..k : Holds(toPty[i], n)
      <4>1. j + 1 \in 1..k /\ toPty'[j] = toPty[j + 1]  BY <1>2
      <4> QED  BY <3>2, <4>1
    <3>3. Holds(m, n) => \E i \in 1..k : Holds(toPty[i], n)  BY <1>2
    <3> QED  BY <3>1, <3>2, <3>3
  <2>2. k + 1 - 1 = k  OBVIOUS
  <2>3. Before(k, n)' <=> \/ \E i \in 1..Len(pty') : pty'[i] = n
                          \/ \E j \in 1..(k - 1) : Holds(toPty'[j], n)
    BY DEF Before, Holds
  <2>4. Before(k + 1, n) <=> \/ \E i \in 1..Len(pty) : pty[i] = n
                            \/ \E j \in 1..k : Holds(toPty[j], n)
    BY <2>2 DEF Before
  <2> QED  BY <1>8, <2>1, <2>3, <2>4
<1>10. /\ \A d \in 1..made : \A n \in Nat : Of(d, n)' <=> Of(d, n)
       /\ made' = made /\ got' = got
  BY <1>1 DEF Of
<1>11. Marks'  BY <1>1 DEF Marks, Limit
<1>12. Carried'
  <2>1. \A c \in 1..made : \A i \in 1..Len(up[c]) : Carries(c, up[c][i])'
    BY <1>1 DEF Carried, Carries, Limit
  <2>2. conn # NoConn => \A i \in 1..Len(cout) : Carries(conn, cout[i])'
    BY <1>1 DEF Carried, Carries, Limit
  <2>3. \A k \in 1..Len(toPty') : toPty'[k].to <= taken
    <3>1. \A k \in 1..Len(toPty') : k + 1 \in 1..Len(toPty) /\ toPty'[k] = toPty[k + 1]
      BY <1>2, <1>L
    <3> QED  BY <3>1 DEF Carried
  <2>4. ASSUME NEW i \in 1..Len(pty') PROVE pty'[i] <= taken
    <3>1. CASE i \in 1..P  BY <1>5, <1>P, <3>1 DEF Carried
    <3>2. ASSUME NEW p \in 1..w, i = P + p PROVE pty'[i] <= taken
      <4>1. pty'[i] = m.from + p /\ m.from + p \in Nat  BY <1>3, <1>5, <3>2
      <4>2. Holds(m, m.from + p)  BY <1>7, <4>1
      <4> QED  BY <1>3, <1>4, <4>1, <4>2 DEF Holds
    <3> QED  BY <1>6, <3>1, <3>2
  <2> QED  BY <1>1, <2>1, <2>2, <2>3, <2>4 DEF Carried
<1>13. Queued'
  <2>1. L \in 1..L /\ Len(toPty') + 1 = L /\ \A k \in 1..Len(toPty') : k \in 1..L /\ k + 1 \in 1..L
    BY <1>2
  <2>2. ASSUME NEW d \in 1..made, NEW n \in Nat, Of(d, n) PROVE Before(L, n)' <=> n <= got[d]
    BY <1>9, <1>L, <2>1, <2>2 DEF Queued
  <2>3. ASSUME NEW d \in 1..made, NEW k \in 1..Len(toPty') PROVE InTurn(d, k)'
    <3>1. InTurn(d, k + 1)  BY <1>L, <2>1 DEF Queued
    <3>2. toPty'[k] = toPty[k + 1]  BY <1>2
    <3> QED  BY <1>9, <1>10, <2>1, <3>1, <3>2 DEF InTurn, Holds
  <2> QED  BY <1>10, <2>1, <2>2, <2>3 DEF Queued
<1>14. Given'
  <2>1. SUFFICES ASSUME NEW c \in 1..made, NEW i \in 1..Len(pty'), Of(c, pty'[i])
                 PROVE  \A n \in Nat : Of(c, n) =>
                          ((\E j \in 1..(i - 1) : pty'[j] = n) <=> n < pty'[i])
    BY <1>1 DEF Given, GivenAfter, Of
  <2>2. CASE i \in 1..P
    <3>1. pty'[i] = pty[i] /\ i \in 1..Len(pty) /\ \A j \in 1..(i - 1) : pty'[j] = pty[j]
      BY <1>5, <1>P, <2>2
    <3> QED  BY <2>1, <3>1 DEF Given, GivenAfter
  <2>3. ASSUME NEW p \in 1..w, i = P + p, NEW n \in Nat, Of(c, n)
        PROVE  (\E j \in 1..(i - 1) : pty'[j] = n) <=> n < pty'[i]
    <3>1. pty'[i] = m.from + p /\ m.from + p \in Nat
      <4>1. pty'[i] = m.from + p  BY <1>5, <2>3
      <4> QED  BY <1>3, <1>w, <4>1
    <3>2. Holds(m, m.from + p)  BY <1>7, <3>1
    <3>3. InTurn(c, 1)  BY <1>2, <1>L DEF Queued
    <3>4. Before(1, n) <=> n <= m.from  BY <1>2, <2>1, <2>3, <3>1, <3>2, <3>3 DEF InTurn
    <3>5. (\E j \in 1..P : pty[j] = n) <=> n <= m.from
      <4>1. \A j : j \notin 1..(1 - 1)  OBVIOUS
      <4> QED  BY <1>P, <3>4, <4>1 DEF Before
    <3>6. (\E j \in 1..(i - 1) : pty'[j] = n)
            <=> (\E j \in 1..P : pty[j] = n) \/ \E r \in 1..(p - 1) : m.from + r = n
      <4>1. ASSUME NEW j \in 1..(i - 1), pty'[j] = n
            PROVE  (\E h \in 1..P : pty[h] = n) \/ \E r \in 1..(p - 1) : m.from + r = n
        <5>1. CASE j \in 1..P  BY <1>5, <4>1, <5>1
        <5>2. CASE j \notin 1..P
          <6>1. j - P \in 1..(p - 1) /\ j - P \in 1..w /\ P + (j - P) = j  BY <2>3, <5>2
          <6> QED  BY <1>5, <4>1, <6>1
        <5> QED  BY <5>1, <5>2
      <4>2. ASSUME NEW h \in 1..P, pty[h] = n PROVE \E j \in 1..(i - 1) : pty'[j] = n
        <5>1. h \in 1..(i - 1)  BY <2>3
        <5> QED  BY <1>5, <4>2, <5>1
      <4>3. ASSUME NEW r \in 1..(p - 1), m.from + r = n
            PROVE  \E j \in 1..(i - 1) : pty'[j] = n
        <5>1. P + r \in 1..(i - 1) /\ r \in 1..w  BY <2>3
        <5> QED  BY <1>5, <4>3, <5>1
      <4> QED  BY <4>1, <4>2, <4>3
    <3>7. (\E r \in 1..(p - 1) : m.from + r = n) <=> m.from < n /\ n < m.from + p
      <4>1. ASSUME m.from < n, n < m.from + p PROVE \E r \in 1..(p - 1) : m.from + r = n
        <5>1. n - m.from \in 1..(p - 1) /\ m.from + (n - m.from) = n  BY <1>3, <4>1
        <5> QED  BY <5>1
      <4> QED  BY <1>3, <4>1
    <3> QED  BY <1>3, <3>1, <3>5, <3>6, <3>7
  <2> QED  BY <1>6, <2>2, <2>3
<1> QED  BY <1>11, <1>12, <1>13, <1>14

LEMMA FlowStep == ASSUME FlowInv, [Next]_vars PROVE FlowInv'
<1>1. InputInv'  BY InputStep DEF FlowInv
<1> QED  BY <1>1, TerminalFlow, SocketFlow, TakeFlow, LeaveFlow, WinchFlow, ConnectFlow,
            ReadFlow, PtyFlow DEF Next, ClientStep

-----------------------------------------------------------------------------
(* client_writer's loop over a chunk, of any length and with any prefix    *)
(* held back from the chunk before.                                        *)

\* A set of numbers has a least one: what induction over the bytes rests on.
LEMMA Least ==
  ASSUME NEW T \in SUBSET Nat, T # {}
  PROVE  \E m \in T : \A k \in T : m <= k
<1> DEFINE R == OpToRel(<, Nat)
<1>1. IsWellFoundedOn(R, Nat)  BY NatLessThanWellFounded
<1>2. R = {ss \in Nat \X Nat : ss[1] < ss[2]}  BY DEF OpToRel
<1> HIDE DEF R
<1>3. \E m \in T : \A k \in T : ~ (<<k, m>> \in R)
  BY <1>1, WFMin
<1>4. PICK m \in T : \A k \in T : ~ (<<k, m>> \in R)  BY <1>3
<1>5. ASSUME NEW k \in T PROVE m <= k
  <2>1. m \in Nat /\ k \in Nat  OBVIOUS
  <2>2. ~ (<<k, m>> \in R)  BY <1>4
  <2>3. k < m => <<k, m>> \in R  BY <1>2, <2>1
  <2> QED  BY <2>1, <2>2, <2>3
<1> QED  BY <1>5

\* client_writer before it has looked at a byte of the chunk.
Start(pending) == [pending |-> pending, out |-> << >>, detach |-> FALSE]

\* Its loop over the bytes from first to last, as an equation...
Runs(g, pending, first, last) ==
  g = [n \in (first - 1)..last |-> IF n < first THEN Start(pending) ELSE Step(g[n - 1], typed[n])]

\* ... which has a solution, and Loop gives it.
LEMMA LoopRuns ==
  ASSUME NEW pending, NEW first \in Nat \ {0}, NEW last \in Nat, first <= last
  PROVE  \E g : Runs(g, pending, first, last) /\ Loop(pending, first, last) = g[last]
<1> DEFINE T == {k \in (first - 1)..last : ~ \E g : Runs(g, pending, first, k)}
<1>1. T = {}
  <2>1. SUFFICES ASSUME T # {} PROVE FALSE  OBVIOUS
  <2>2. PICK k \in T : \A j \in T : k <= j
    <3>1. T \in SUBSET Nat  OBVIOUS
    <3> QED  BY <2>1, <3>1, Least
  <2>3. k # first - 1
    <3> DEFINE g == [n \in (first - 1)..(first - 1) |-> Start(pending)]
    <3>1. Runs(g, pending, first, first - 1)  BY DEF Runs
    <3> QED  BY <3>1, <2>2
  <2>4. k - 1 \in (first - 1)..last /\ k - 1 \notin T  BY <2>2, <2>3
  <2>5. PICK g : Runs(g, pending, first, k - 1)  BY <2>4
  <2> DEFINE h == [n \in (first - 1)..k |-> IF n < k THEN g[n] ELSE Step(g[k - 1], typed[k])]
  <2>6. Runs(h, pending, first, k)
    <3>1. k \in Nat /\ k >= first  BY <2>2, <2>3
    <3>2. ASSUME NEW n \in (first - 1)..k
          PROVE  h[n] = IF n < first THEN Start(pending) ELSE Step(h[n - 1], typed[n])
      <4>1. CASE n = k
        <5>1. k - 1 \in (first - 1)..k /\ k - 1 < k /\ ~(k < first)  BY <3>1
        <5>2. h[k - 1] = g[k - 1]  BY <5>1
        <5>3. h[k] = Step(g[k - 1], typed[k])  BY <3>1
        <5> HIDE DEF h
        <5> QED  BY <4>1, <5>1, <5>2, <5>3
      <4>2. CASE n < k
        <5>1. n \in (first - 1)..(k - 1) /\ h[n] = g[n]  BY <3>1, <4>2
        <5>2. g[n] = IF n < first THEN Start(pending) ELSE Step(g[n - 1], typed[n])
          BY <2>5, <5>1 DEF Runs
        <5>3. ~(n < first) => h[n - 1] = g[n - 1]  BY <3>1, <4>2
        <5> HIDE DEF h
        <5> QED  BY <5>1, <5>2, <5>3
      <4> QED  BY <3>1, <4>1, <4>2
    <3>3. h = [n \in (first - 1)..k |-> h[n]]  OBVIOUS
    <3> HIDE DEF h
    <3> QED  BY <3>2, <3>3 DEF Runs
  <2> QED  BY <2>2, <2>6
<1>2. \E g : Runs(g, pending, first, last)
  BY <1>1
<1> DEFINE l == CHOOSE g : Runs(g, pending, first, last)
<1>3. Runs(l, pending, first, last)  BY <1>2
<1>4. Loop(pending, first, last) = l[last]
  BY DEF Loop, Runs, Start
<1> QED  BY <1>3, <1>4

\* What the client holds back is the last byte it has taken, a prefix.
HeldBack ==
  ended = "no" =>
    \/ sent = taken
    \/ sent + 1 = taken /\ taken <= Len(typed) /\ typed[taken] = "prefix"

\* What the loop has come to at byte n.
Reached(n) == IF n = taken THEN sent ELSE Passed(n)
Agrees(l, n) ==
  \/ Detaches(n) /\ l.detach
  \/ /\ ~Detaches(n) /\ ~l.detach
     /\ l.pending = (Reached(n) < n)
     /\ l.out = SubSeq(typed, sent + 1, Reached(n))

\* An interval of a sequence and the element after it.
LEMMA Grows ==
  ASSUME NEW S, NEW s \in Seq(S), NEW a \in Nat, NEW m \in Nat, a <= m, m < Len(s)
  PROVE  SubSeq(s, a + 1, m + 1) = SubSeq(s, a + 1, m) \o <<s[m + 1]>>
<1> DEFINE t == SubSeq(s, a + 1, m)  u == SubSeq(s, a + 1, m + 1)
<1>1. /\ t \in Seq(S) /\ Len(t) = m - a /\ \A i \in 1..(m - a) : t[i] = s[a + i]
      /\ u \in Seq(S) /\ Len(u) = m + 1 - a /\ \A i \in 1..(m + 1 - a) : u[i] = s[a + i]
      /\ s[m + 1] \in S
  OBVIOUS
<1> HIDE DEF t, u
<1>2. m - a \in Nat /\ m + 1 - a = (m - a) + 1  OBVIOUS
<1> DEFINE x == s[m + 1]  v == t \o <<x>>
<1>3. x \in S  BY <1>1
<1> HIDE DEF x
<1>4. v \in Seq(S) /\ Len(v) = Len(t) + 1 /\ v[Len(t) + 1] = x /\ \A i \in 1..Len(t) : v[i] = t[i]
  <2>1. t \in Seq(S)  BY <1>1
  <2>2. <<x>> \in Seq(S) /\ Len(<<x>>) = 1 /\ <<x>>[1] = x  BY <1>3
  <2> QED  BY <2>1, <2>2
<1>5. /\ v \in Seq(S) /\ Len(v) = (m - a) + 1 /\ v[(m - a) + 1] = x
      /\ \A i \in 1..(m - a) : v[i] = t[i]
  <2> HIDE DEF v
  <2> QED  BY <1>1, <1>2, <1>4
<1> HIDE DEF v
<1>6. u = v
  <2>1. \A i \in 1..((m - a) + 1) : u[i] = v[i]
    <3>1. u[(m - a) + 1] = x  BY <1>1, <1>2 DEF x
    <3>2. \A i \in 1..(m - a) : u[i] = v[i]  BY <1>1, <1>2, <1>5
    <3> QED  BY <1>2, <1>5, <3>1, <3>2
  <2> QED  BY <1>1, <1>2, <1>5, <2>1
<1> QED  BY <1>6 DEF u, v, t, x

\* One byte more.
LEMMA StepAgrees ==
  ASSUME TypeOK, HeldBack, ended = "no", NEW l, NEW n \in taken..(Len(typed) - 1), Agrees(l, n)
  PROVE  Agrees(Step(l, typed[n + 1]), n + 1)
<1> DEFINE key == typed[n + 1]  r == Reached(n)
<1>1. /\ typed \in Seq(Kinds) /\ taken \in Nat /\ sent \in Nat /\ n \in Nat
      /\ sent <= n /\ n + 1 \in 1..Len(typed) /\ n + 1 # taken
  BY DEF TypeOK, HeldBack
<1>2. /\ r \in Nat /\ sent <= r
      /\ r = n \/ (r = n - 1 /\ n \in 1..Len(typed) /\ typed[n] = "prefix")
      /\ r = n => n = sent \/ typed[n] # "prefix"
  BY <1>1 DEF Reached, Passed, HeldBack
<1>3. Detaches(n + 1) <=> Detaches(n) \/ (r < n /\ key = "d")
  <2>1. Detaches(n + 1) <=> \/ Detaches(n)
                            \/ n \in (sent + 1)..n /\ typed[n] = "prefix" /\ key = "d"
    BY <1>1 DEF Detaches
  <2>2. r < n <=> n \in (sent + 1)..n /\ typed[n] = "prefix"
    BY <1>1, <1>2
  <2> QED  BY <2>1, <2>2
<1>4. Reached(n + 1) = IF key = "prefix" THEN n ELSE n + 1
  BY <1>1 DEF Reached, Passed
<1>5. CASE Detaches(n) /\ l.detach
  BY <1>3, <1>5 DEF Agrees, Step
<1>6. CASE /\ ~Detaches(n) /\ ~l.detach
           /\ l.pending = (r < n) /\ l.out = SubSeq(typed, sent + 1, r)
  <2> DEFINE a == SubSeq(typed, sent + 1, r)  b == IF r < n THEN <<"prefix">> ELSE << >>
             c == IF key = "prefix" THEN << >> ELSE <<key>>
  <2>1. Step(l, key) = [pending |-> key = "prefix", out |-> a \o b \o c,
                        detach |-> r < n /\ key = "d"]
    BY <1>6 DEF Step
  <2>2. a \o b = SubSeq(typed, sent + 1, n)
    <3>1. CASE r = n
      <4>1. a \in Seq(Kinds)  BY <1>1, <1>2
      <4>2. a \o << >> = a
        <5> HIDE DEF a
        <5> QED  BY <4>1
      <4> QED  BY <1>1, <3>1, <4>2
    <3>2. CASE r = n - 1 /\ n \in 1..Len(typed) /\ typed[n] = "prefix"
      <4>1. SubSeq(typed, sent + 1, (n - 1) + 1) = SubSeq(typed, sent + 1, n - 1) \o <<typed[n]>>
        BY <1>1, <1>2, <3>2, Grows
      <4> QED  BY <1>1, <3>2, <4>1
    <3> QED  BY <1>2, <3>1, <3>2
  <2>3. (a \o b) \o c = SubSeq(typed, sent + 1, Reached(n + 1))
    <3> DEFINE t == SubSeq(typed, sent + 1, n)
    <3>1. CASE key = "prefix"
      <4>1. t \in Seq(Kinds)  BY <1>1
      <4>2. t \o << >> = t
        <5> HIDE DEF t
        <5> QED  BY <4>1
      <4> QED  BY <1>4, <2>2, <3>1, <4>2
    <3>2. CASE key # "prefix"
      <4>1. SubSeq(typed, sent + 1, n + 1) = t \o <<typed[n + 1]>>  BY <1>1, Grows
      <4> QED  BY <1>4, <2>2, <3>2, <4>1
    <3> QED  BY <3>1, <3>2
  <2> DEFINE o == (a \o b) \o c  m == Step(l, key)
  <2>4. m = [pending |-> key = "prefix", out |-> o, detach |-> r < n /\ key = "d"]  BY <2>1
  <2> HIDE DEF o
  <2>5. m.pending = (key = "prefix") /\ m.out = o /\ m.detach = (r < n /\ key = "d")
    <3> HIDE DEF m
    <3> QED  BY <2>4
  <2>6. o = SubSeq(typed, sent + 1, Reached(n + 1))  BY <2>3 DEF o
  <2> HIDE DEF a, b, c, m
  <2>7. Agrees(m, n + 1) => Agrees(Step(l, typed[n + 1]), n + 1)  BY DEF m
  <2>8. CASE r < n /\ key = "d"
    <3>1. Detaches(n + 1)  BY <1>3, <2>8
    <3>2. m.detach  BY <2>5, <2>8
    <3> QED  BY <3>1, <3>2, <2>7 DEF Agrees
  <2>9. CASE ~(r < n /\ key = "d")
    <3>1. ~Detaches(n + 1)  BY <1>3, <1>6, <2>9
    <3>2. (key = "prefix") = (Reached(n + 1) < n + 1)  BY <1>1, <1>4
    <3>3. ~m.detach  BY <2>5, <2>9
    <3>4. m.pending = (Reached(n + 1) < n + 1)  BY <2>5, <3>2
    <3>5. m.out = SubSeq(typed, sent + 1, Reached(n + 1))  BY <2>5, <2>6
    <3> QED  BY <3>1, <3>3, <3>4, <3>5, <2>7 DEF Agrees
  <2> QED  BY <2>8, <2>9
<1> QED  BY <1>5, <1>6 DEF Agrees

\* By induction over the bytes of the chunk.
LEMMA LoopIsRight == ASSUME TypeOK, HeldBack PROVE LoopAgrees
<1> SUFFICES ASSUME ended = "no", NEW last \in (taken + 1)..Len(typed)
             PROVE  Agrees(Loop(sent < taken, taken + 1, last), last)
  <2>1. \A m \in (taken + 1)..Len(typed) : m # taken  BY DEF TypeOK
  <2> QED  BY <2>1 DEF LoopAgrees, Agrees, Reached
<1>1. /\ taken \in Nat /\ taken + 1 \in Nat \ {0} /\ last \in Nat /\ taken + 1 <= last
      /\ sent \in Nat /\ typed \in Seq(Kinds) /\ (taken + 1) - 1 = taken
  BY DEF TypeOK
<1>2. PICK g : /\ Runs(g, sent < taken, taken + 1, last)
               /\ Loop(sent < taken, taken + 1, last) = g[last]
  BY <1>1, LoopRuns
<1> DEFINE T == {n \in taken..last : ~Agrees(g[n], n)}
<1>3. T = {}
  <2>1. SUFFICES ASSUME T # {} PROVE FALSE  OBVIOUS
  <2>2. PICK k \in T : \A j \in T : k <= j
    <3>1. T \in SUBSET Nat  BY <1>1
    <3> QED  BY <2>1, <3>1, Least
  <2>3. k # taken
    <3>1. g[taken] = Start(sent < taken)  BY <1>1, <1>2 DEF Runs
    <3>2. ~Detaches(taken)
      <4>1. sent = taken \/ sent + 1 = taken  BY DEF HeldBack
      <4> QED  BY <1>1, <4>1 DEF Detaches
    <3>3. SubSeq(typed, sent + 1, sent) = << >>  BY <1>1
    <3>4. g[taken].pending = (sent < taken) /\ g[taken].out = << >> /\ g[taken].detach = FALSE
      BY <3>1 DEF Start
    <3>5. Reached(taken) = sent  BY DEF Reached
    <3>6. Agrees(g[taken], taken)  BY <3>2, <3>3, <3>4, <3>5 DEF Agrees
    <3> QED  BY <2>2, <3>6
  <2>4. k - 1 \in taken..last /\ k - 1 \notin T /\ k \in (taken + 1)..last  BY <1>1, <2>2, <2>3
  <2>5. Agrees(g[k - 1], k - 1)  BY <2>4
  <2>6. g[k] = Step(g[k - 1], typed[k])  BY <1>1, <1>2, <2>4 DEF Runs
  <2>7. k - 1 \in taken..(Len(typed) - 1) /\ (k - 1) + 1 = k  BY <1>1, <2>4
  <2>8. Agrees(Step(g[k - 1], typed[k]), k)
    <3> DEFINE n == k - 1
    <3>1. n \in taken..(Len(typed) - 1) /\ Agrees(g[n], n) /\ n + 1 = k  BY <2>5, <2>7
    <3> HIDE DEF n
    <3>2. Agrees(Step(g[n], typed[n + 1]), n + 1)  BY <3>1, StepAgrees
    <3> QED  BY <3>1, <3>2 DEF n
  <2> QED  BY <2>2, <2>6, <2>8
<1>4. last \in taken..last  BY <1>1
<1> QED  BY <1>2, <1>3, <1>4

\* Take holds back a prefix only, Connect none.
LEMMA HeldStep == ASSUME InputInv, HeldBack, [Next]_vars PROVE HeldBack'
<1>1. typed \in Seq(Kinds) /\ taken \in Nat /\ sent \in Nat /\ taken <= Len(typed)
  BY DEF InputInv, TypeOK, Chunks
<1>2. ASSUME UNCHANGED <<typed, taken, sent, ended>> PROVE HeldBack'
  BY <1>2 DEF HeldBack
<1>3. CASE Type
  <2>1. PICK k \in 1..MaxChunk : \E s \in [1..k -> Kinds] : typed' = typed \o s
    BY <1>3 DEF Type
  <2>2. PICK s \in [1..k -> Kinds] : typed' = typed \o s  BY <2>1
  <2>3. UNCHANGED <<taken, sent, ended>>  BY <1>3 DEF Type
  <2>4. s \in Seq(Kinds)  BY <2>2, InputAssumption
  <2>5. Len(typed') >= Len(typed) /\ \A i \in 1..Len(typed) : typed'[i] = typed[i]
    BY <1>1, <2>2, <2>4
  <2>6. Len(typed') \in Nat /\ Len(typed) \in Nat
    <3>1. typed' \in Seq(Kinds)  BY <1>1, <2>2, <2>4
    <3> QED  BY <1>1, <3>1
  <2> QED  BY <1>1, <2>3, <2>5, <2>6 DEF HeldBack
<1>4. CASE Take
  <2> DEFINE last == Head(stdin)
  <2>1. taken' = last /\ sent' = Passed(last) /\ UNCHANGED typed  BY <1>4 DEF Take
  <2>2. last \in Nat /\ taken < last /\ last <= Len(typed)
    BY <1>4, HeadChunk DEF Take, InputInv
  <2> HIDE DEF last
  <2> QED  BY <1>1, <2>1, <2>2 DEF HeldBack, Passed
<1>5. CASE Connect  BY <1>5 DEF Connect, HeldBack
<1>6. CASE Detach \/ StdinCloses  BY <1>6 DEF Detach, StdinCloses, Leaves, HeldBack
<1>7. CASE ChangeSize \/ Cut \/ Winch \/ Write \/ WriteLost \/ Loses
  BY <1>2, <1>7 DEF ChangeSize, Cut, Winch, Write, WriteLost, Loses, clientVars
<1>8. ASSUME NEW c \in Conns, Read(c) \/ TaskEnds(c) PROVE HeldBack'
  BY <1>2, <1>8 DEF Read, TaskEnds, clientVars
<1>9. CASE PtyTakes  BY <1>2, <1>9 DEF PtyTakes, clientVars
<1>10. CASE UNCHANGED vars  BY <1>2, <1>10 DEF vars, clientVars
<1> QED  BY <1>3, <1>4, <1>5, <1>6, <1>7, <1>8, <1>9, <1>10 DEF Next, ClientStep

-----------------------------------------------------------------------------
(* Results.                                                                *)

THEOREM InputInvariant == Spec => []InputInv
BY InputInit, InputStep, PTL DEF Spec

\* Every state has the specification's types, and no socket more than its room.
THEOREM InputTypes == Spec => []TypeOK
BY InputInvariant, PTL DEF InputInv

\* While a connection lasts, nothing that was taken from stdin is lost, repeated or
\* reordered before the daemon has read it.
THEOREM InputIsConserved == Spec => []InputConserved
BY InputInvariant, PTL DEF InputInv

\* What the shell is given by one connection is what was typed there, from the start,
\* in order and once, however the daemon's tasks read their connections by turns.
THEOREM InputIsInOrder == Spec => []GivenInOrder
<1>1. FlowInv => GivenInOrder  BY GivenIsInOrder DEF FlowInv, InputInv
<1> QED  BY <1>1, FlowInit, FlowStep, PTL DEF Spec

\* client_writer's loop holds back, passes on and ends as Take and Detach say, for
\* any chunk, wherever the chunk before it ended.
THEOREM LoopIsTake == Spec => []LoopAgrees
<1>1. Init => HeldBack  BY DEF Init, HeldBack
<1>2. InputInv => TypeOK  BY DEF InputInv
<1> QED  BY <1>1, <1>2, HeldStep, LoopIsRight, InputInvariant, PTL DEF Spec
=============================================================================
