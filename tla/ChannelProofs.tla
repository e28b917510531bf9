---------------------------- MODULE ChannelProofs ----------------------------
(***************************************************************************)
(* Proofs about Channel, for any number of connections, any limit of the   *)
(* counters, any keys and any frames, and about the codec under it: what   *)
(* is decoded is what was encoded, for any base and any limits.            *)
(***************************************************************************)
EXTENDS Channel, TLAPS

Answered(c) == hs[c] \in {"answered", "keyed"}
Decoded     == {Decode(Encode(f)) : f \in AllFrames}

\* TypeOK, with what was decoded for what was opened; the server has the client's
\* own nonce, or none.
Typed ==
  /\ hs \in [Conns -> {"none", "hello", "answered", "keyed", "told", "refused"}]
  /\ version \in [Conns -> Versions] /\ psk \in [Conns -> Psks]
  /\ heard \in [Conns -> {NoNonce} \cup {ClientNonce(c) : c \in Conns}]
  /\ \A c \in Conns : heard[c] \in {ClientNonce(c), NoNonce}
  /\ seen \in [Conns -> {NoNonce} \cup {ServerNonce(c) : c \in Conns}]
  /\ counter \in [Conns -> [Dirs -> 0..CounterMax]] /\ next \in [Conns -> [Dirs -> Nat]]
  /\ sealed \in [Conns -> [Dirs -> Seq(RecordType)]]
  /\ said \in [Conns -> [Dirs -> Seq(AllFrames)]]
  /\ opened \in [Conns -> [Dirs -> Seq(Decoded)]]
  /\ failed \in [Conns -> [Dirs -> {"no", "length", "record", "frame"}]]

\* Nothing is sealed under a key that may still change, nothing read before it.
Quiet ==
  \A c \in Conns : /\ hs[c] # "keyed" => counter[c][0] = 0
                   /\ ~Answered(c) => counter[c][1] = 0
                   /\ ~Answered(c) => \A d \in Dirs : opened[c][d] = << >>

\* Each record was sealed with its end's key, its place is its nonce, and it holds
\* the frame said there.
Placed ==
  \A c \in Conns, d \in Dirs :
    /\ Len(sealed[c][d]) = counter[c][d] /\ Len(said[c][d]) = counter[c][d]
    /\ \A i \in 1..Len(sealed[c][d]) :
         /\ sealed[c][d][i].key = Key(c, d = 0)
         /\ sealed[c][d][i].nonce = nonce_for(d, i - 1)
         /\ sealed[c][d][i].body = Encode(said[c][d][i])

\* The opener counts what it opened, and that is the first of what was said.
ReadOff ==
  \A c \in Conns, d \in Dirs :
    /\ failed[c][d] = "no" => next[c][d] = Len(opened[c][d])
    /\ Len(opened[c][d]) <= Len(said[c][d])
    /\ \A i \in 1..Len(opened[c][d]) : opened[c][d][i] = Decode(Encode(said[c][d][i]))

ChannelInv == Typed /\ Quiet /\ Placed /\ ReadOff /\ WrongKeyOpensNothing

-----------------------------------------------------------------------------
(* Keys and nonces.                                                        *)

\* A key belongs to one connection: each of its ends has a nonce of its own in it.
LEMMA KeyOwner ==
  ASSUME Typed, NEW c \in Conns, NEW e \in Conns, NEW x \in BOOLEAN, NEW y \in BOOLEAN,
         Key(c, x) = Key(e, y)
  PROVE  c = e
<1>1. CASE x /\ y
  <2>1. ClientNonce(c) = ClientNonce(e)  BY <1>1 DEF Key
  <2> QED  BY <2>1 DEF ClientNonce
<1>2. CASE ~x /\ ~y
  <2>1. ServerNonce(c) = ServerNonce(e)  BY <1>2 DEF Key
  <2> QED  BY <2>1 DEF ServerNonce
<1>3. CASE x /\ ~y
  <2>1. ClientNonce(c) = heard[e] /\ heard[e] \in {ClientNonce(e), NoNonce}
    BY <1>3 DEF Key, Typed
  <2> QED  BY <2>1 DEF ClientNonce, NoNonce
<1>4. CASE ~x /\ y
  <2>1. heard[c] = ClientNonce(e) /\ heard[c] \in {ClientNonce(c), NoNonce}
    BY <1>4 DEF Key, Typed
  <2> QED  BY <2>1 DEF ClientNonce, NoNonce
<1> QED  BY <1>1, <1>2, <1>3, <1>4

\* derive_key of the two ends agrees only if the client has the session's key.
LEMMA KeyShared ==
  ASSUME NEW c, Key(c, TRUE) = Key(c, FALSE)
  PROVE  psk[c] = Psk
BY DEF Key

\* nonce_for tells directions and counters apart.
LEMMA NonceApart ==
  ASSUME NEW d, NEW h, NEW m, NEW n, nonce_for(d, m) = nonce_for(h, n)
  PROVE  d = h /\ m = n
BY DEF nonce_for

\* Garbage opens under no key.
LEMMA GarbageShut ==
  ASSUME NEW c, NEW x
  PROVE  Garbage.key # Key(c, x)
BY DEF Garbage, Key

\* What opens is the record whose turn it is, of this connection and direction, and
\* the client has the session's key.
LEMMA OpensNext ==
  ASSUME Typed, Placed, NEW c \in Conns, NEW d \in Dirs,
         NEW record \in Records \cup {Garbage}, Opens(c, d, record)
  PROVE  /\ next[c][d] + 1 \in 1..Len(said[c][d])
         /\ record.body = Encode(said[c][d][next[c][d] + 1])
         /\ psk[c] = Psk
<1>1. record \in Records
  BY GarbageShut DEF Opens
<1>2. PICK e \in Conns, h \in Dirs : record \in ToSet(sealed[e][h])
  BY <1>1 DEF Records
<1>3. sealed[e][h] \in Seq(RecordType)
  BY <1>2 DEF Typed
<1>4. PICK i \in 1..Len(sealed[e][h]) : record = sealed[e][h][i]
  BY <1>2, <1>3 DEF ToSet
<1>5. /\ record.key = Key(e, h = 0) /\ record.nonce = nonce_for(h, i - 1)
      /\ record.body = Encode(said[e][h][i])
      /\ Len(said[e][h]) = Len(sealed[e][h])
  BY <1>4, <1>2 DEF Placed
<1>6. e = c
  <2>1. Key(e, h = 0) = Key(c, d = 1)  BY <1>5 DEF Opens
  <2> QED  BY <2>1, KeyOwner
<1>7. h = d /\ i - 1 = next[c][d]
  <2>1. nonce_for(h, i - 1) = nonce_for(d, next[c][d])  BY <1>5 DEF Opens
  <2> QED  BY <2>1, NonceApart
<1>8. next[c][d] \in Nat  BY DEF Typed
<1>9. i = next[c][d] + 1  BY <1>7, <1>8, <1>4
<1>10. psk[c] = Psk
  <2>1. Key(c, d = 0) = Key(c, d = 1)  BY <1>5, <1>6, <1>7 DEF Opens
  <2>2. d = 0 \/ d = 1  BY DEF Dirs
  <2>3. CASE d = 0  BY <2>1, <2>3 DEF Key
  <2>4. CASE d = 1  BY <2>1, <2>4 DEF Key
  <2> QED  BY <2>2, <2>3, <2>4
<1> QED  BY <1>4, <1>5, <1>6, <1>7, <1>9, <1>10

\* What opens was sealed by one of the two ends, so what is decoded is Decoded.
LEMMA OpensDecoded ==
  ASSUME Typed, Placed, NEW c \in Conns, NEW d \in Dirs,
         NEW record \in Records \cup {Garbage}, Opens(c, d, record)
  PROVE  Decode(record.body) \in Decoded
<1>1. said[c][d] \in Seq(AllFrames)  BY DEF Typed
<1>2. said[c][d][next[c][d] + 1] \in AllFrames  BY <1>1, OpensNext
<1> QED  BY <1>2, OpensNext DEF Decoded

-----------------------------------------------------------------------------
(* The invariant.                                                          *)

LEMMA ChannelInit == ASSUME Init PROVE ChannelInv
<1> USE ChannelAssumption DEF Init, Each
<1>1. Typed  BY DEF Typed
<1>2. Quiet  BY DEF Quiet, Answered, Dirs
<1>3. Placed  BY DEF Placed
<1>4. ReadOff  BY DEF ReadOff
<1>5. WrongKeyOpensNothing  BY DEF WrongKeyOpensNothing
<1> QED  BY <1>1, <1>2, <1>3, <1>4, <1>5 DEF ChannelInv

\* Hello, ClientHandshake: nothing is sealed yet, or read.
LEMMA SendStep ==
  ASSUME ChannelInv, NEW c \in Conns, client_send(c)
  PROVE  ChannelInv'
<1> USE DEF ChannelInv
<1>1. /\ hs[c] = "none" /\ hs' = [hs EXCEPT ![c] = "hello"]
      /\ UNCHANGED <<heard, seen, counter, next, sealed, said, opened, failed>>
  BY DEF client_send
<1>2. PICK v \in Versions, k \in Psks :
        version' = [version EXCEPT ![c] = v] /\ psk' = [psk EXCEPT ![c] = k]
  BY DEF client_send
<1>3. Typed'  BY <1>1, <1>2 DEF Typed
<1>4. Quiet'  BY <1>1 DEF Quiet, Answered, Typed
<1>5. Placed'
  <2> SUFFICES ASSUME NEW e \in Conns, NEW d \in Dirs, NEW i \in 1..Len(sealed[e][d])
               PROVE  sealed[e][d][i].key = Key(e, d = 0)'
    BY <1>1 DEF Placed
  <2>1. sealed[e][d][i].key = Key(e, d = 0)  BY DEF Placed
  <2>2. d = 1 \/ e # c
    <3>1. counter[c][0] = 0  BY <1>1 DEF Quiet
    <3>2. Len(sealed[e][d]) = counter[e][d]  BY DEF Placed
    <3> QED  BY <3>1, <3>2 DEF Dirs
  <2>3. CASE d = 1  BY <2>1, <2>3, <1>1 DEF Key
  <2>4. CASE e # c
    <3>1. psk'[e] = psk[e]  BY <1>2, <2>4 DEF Typed
    <3> QED  BY <2>1, <3>1, <1>1 DEF Key
  <2> QED  BY <2>2, <2>3, <2>4
<1>6. ReadOff'  BY <1>1 DEF ReadOff
<1>7. WrongKeyOpensNothing'
  <2> SUFFICES ASSUME NEW e \in Conns, psk'[e] # Psk, NEW d \in Dirs
               PROVE  opened[e][d] = << >>
    BY <1>1 DEF WrongKeyOpensNothing
  <2>1. CASE e = c  BY <2>1, <1>1 DEF Quiet, Answered
  <2>2. CASE e # c  BY <2>2, <1>2 DEF WrongKeyOpensNothing, Typed
  <2> QED  BY <2>1, <2>2
<1> QED  BY <1>3, <1>4, <1>5, <1>6, <1>7

\* The daemon has the client's nonce now: it has sealed nothing before.
LEMMA AnswerStep ==
  ASSUME ChannelInv, NEW c \in Conns, Answer(c)
  PROVE  ChannelInv'
<1> USE DEF ChannelInv
<1>1. /\ ~Answered(c) /\ UNCHANGED <<version, psk, seen, counter, next, sealed, said, opened, failed>>
      /\ hs' = [hs EXCEPT ![c] = "answered"] \/ hs' = [hs EXCEPT ![c] = "told"]
      /\ hs[c] # "keyed"
      /\ \E n \in {ClientNonce(c), NoNonce} : heard' = [heard EXCEPT ![c] = n]
  <2>1. CASE version[c] = VERSION  BY <2>1 DEF Answer, Answered
  <2>2. CASE version[c] # VERSION
    <3>1. heard' = [heard EXCEPT ![c] = heard[c]]  BY <2>2 DEF Answer, Typed
    <3>2. heard[c] \in {ClientNonce(c), NoNonce}  BY DEF Typed
    <3> QED  BY <2>2, <3>1, <3>2 DEF Answer, Answered
  <2> QED  BY <2>1, <2>2
<1>2. PICK n \in {ClientNonce(c), NoNonce} : heard' = [heard EXCEPT ![c] = n]
  BY <1>1
<1>3. Typed'
  <2>1. heard' \in [Conns -> {NoNonce} \cup {ClientNonce(e) : e \in Conns}]
    BY <1>2 DEF Typed
  <2>2. \A e \in Conns : heard'[e] \in {ClientNonce(e), NoNonce}
    BY <1>2 DEF Typed
  <2> QED  BY <1>1, <2>1, <2>2 DEF Typed
<1>4. Quiet'  BY <1>1 DEF Quiet, Answered, Typed
<1>5. Placed'
  <2> SUFFICES ASSUME NEW e \in Conns, NEW d \in Dirs, NEW i \in 1..Len(sealed[e][d])
               PROVE  sealed[e][d][i].key = Key(e, d = 0)'
    BY <1>1 DEF Placed
  <2>1. sealed[e][d][i].key = Key(e, d = 0)  BY DEF Placed
  <2>2. d = 0 \/ e # c
    <3>1. counter[c][1] = 0  BY <1>1 DEF Quiet
    <3>2. Len(sealed[e][d]) = counter[e][d]  BY DEF Placed
    <3> QED  BY <3>1, <3>2 DEF Dirs
  <2>3. CASE d = 0  BY <2>1, <2>3, <1>1 DEF Key
  <2>4. CASE e # c
    <3>1. heard'[e] = heard[e]  BY <1>2, <2>4 DEF Typed
    <3> QED  BY <2>1, <3>1, <1>1 DEF Key
  <2> QED  BY <2>2, <2>3, <2>4
<1>6. ReadOff'  BY <1>1 DEF ReadOff
<1>7. WrongKeyOpensNothing'  BY <1>1 DEF WrongKeyOpensNothing
<1> QED  BY <1>3, <1>4, <1>5, <1>6, <1>7

\* The client has its key now: it has sealed nothing before.
LEMMA RecvStep ==
  ASSUME ChannelInv, NEW c \in Conns, client_recv(c)
  PROVE  ChannelInv'
<1> USE DEF ChannelInv
<1>1. /\ hs[c] # "keyed" /\ UNCHANGED <<version, psk, heard, counter, next, sealed, said, opened, failed>>
      /\ \/ hs[c] = "answered" /\ hs' = [hs EXCEPT ![c] = "keyed"]
         \/ hs[c] = "told" /\ hs' = [hs EXCEPT ![c] = "refused"]
      /\ \E n \in {NoNonce} \cup {ServerNonce(e) : e \in Conns} : seen' = [seen EXCEPT ![c] = n]
  <2>1. CASE hs[c] = "answered"  BY <2>1 DEF client_recv
  <2>2. CASE hs[c] = "told"
    <3>1. seen' = [seen EXCEPT ![c] = seen[c]]  BY <2>2 DEF client_recv, Typed
    <3>2. seen[c] \in {NoNonce} \cup {ServerNonce(e) : e \in Conns}  BY DEF Typed
    <3> QED  BY <2>2, <3>1, <3>2 DEF client_recv
  <2> QED  BY <2>1, <2>2 DEF client_recv
<1>2. PICK n \in {NoNonce} \cup {ServerNonce(e) : e \in Conns} : seen' = [seen EXCEPT ![c] = n]
  BY <1>1
<1>3. Typed'  BY <1>1, <1>2 DEF Typed
<1>4. Quiet'  BY <1>1 DEF Quiet, Answered, Typed
<1>5. Placed'
  <2> SUFFICES ASSUME NEW e \in Conns, NEW d \in Dirs, NEW i \in 1..Len(sealed[e][d])
               PROVE  sealed[e][d][i].key = Key(e, d = 0)'
    BY <1>1 DEF Placed
  <2>1. sealed[e][d][i].key = Key(e, d = 0)  BY DEF Placed
  <2>2. d = 1 \/ e # c
    <3>1. counter[c][0] = 0  BY <1>1 DEF Quiet
    <3>2. Len(sealed[e][d]) = counter[e][d]  BY DEF Placed
    <3> QED  BY <3>1, <3>2 DEF Dirs
  <2>3. CASE d = 1  BY <2>1, <2>3, <1>1 DEF Key
  <2>4. CASE e # c
    <3>1. seen'[e] = seen[e]  BY <1>2, <2>4 DEF Typed
    <3> QED  BY <2>1, <3>1, <1>1 DEF Key
  <2> QED  BY <2>2, <2>3, <2>4
<1>6. ReadOff'  BY <1>1 DEF ReadOff
<1>7. WrongKeyOpensNothing'  BY <1>1 DEF WrongKeyOpensNothing
<1> QED  BY <1>3, <1>4, <1>5, <1>6, <1>7

\* A record more, at the end of its direction.
LEMMA WriteStep ==
  ASSUME ChannelInv, NEW c \in Conns, NEW d \in Dirs, Write(c, d)
  PROVE  ChannelInv'
<1> USE DEF ChannelInv
<1>1. /\ counter[c][d] < CounterMax /\ counter' = [counter EXCEPT ![c][d] = @ + 1]
      /\ UNCHANGED <<hs, version, psk, heard, seen, next, opened, failed>>
      /\ (d = 0 => hs[c] = "keyed") /\ Answered(c)
  BY DEF Write, Ready, Answered
<1> DEFINE r(f) == [key |-> Key(c, d = 0), nonce |-> nonce_for(d, counter[c][d]),
                    body |-> Encode(f)]
<1>2. PICK f \in AllFrames : /\ sealed' = [sealed EXCEPT ![c][d] = Append(@, r(f))]
                             /\ said' = [said EXCEPT ![c][d] = Append(@, f)]
  <2>1. Speaks(c, d) \subseteq AllFrames  BY DEF Speaks, AllFrames, Frames
  <2>2. PICK f \in Speaks(c, d) : /\ sealed' = [sealed EXCEPT ![c][d] = Append(@, r(f))]
                                  /\ said' = [said EXCEPT ![c][d] = Append(@, f)]
    BY DEF Write
  <2> QED  BY <2>1, <2>2
<1>3. r(f) \in RecordType
  <2>1. Key(c, d = 0) \in Keys
    <3>1. CASE d = 0  BY <3>1 DEF Key, Keys, Typed
    <3>2. CASE d = 1  BY <3>2, ChannelAssumption DEF Key, Keys, Typed
    <3> QED  BY <3>1, <3>2 DEF Dirs
  <2>2. nonce_for(d, counter[c][d]) \in Dirs \X (0..CounterMax)  BY DEF nonce_for, Typed
  <2> QED  BY <2>1, <2>2 DEF RecordType
<1>4. Typed'
  <2>1. counter[c][d] + 1 \in 0..CounterMax  BY <1>1, ChannelAssumption DEF Typed
  <2>2. counter' \in [Conns -> [Dirs -> 0..CounterMax]]  BY <1>1, <2>1 DEF Typed
  <2>3. Append(sealed[c][d], r(f)) \in Seq(RecordType)  BY <1>3 DEF Typed
  <2>4. sealed' \in [Conns -> [Dirs -> Seq(RecordType)]]
    <3> HIDE DEF r
    <3> QED  BY <1>2, <2>3 DEF Typed
  <2>5. said' \in [Conns -> [Dirs -> Seq(AllFrames)]]  BY <1>2 DEF Typed
  <2> QED  BY <1>1, <2>2, <2>4, <2>5 DEF Typed
<1>5. Quiet'
  <2>1. ASSUME NEW e \in Conns, hs[e] # "keyed" PROVE counter'[e][0] = 0
    <3>1. counter[e][0] = 0 /\ (e = c => d # 0)  BY <1>1, <2>1 DEF Quiet
    <3> QED  BY <1>1, <3>1 DEF Typed, Dirs
  <2>2. ASSUME NEW e \in Conns, ~Answered(e) PROVE counter'[e][1] = 0
    <3>1. counter[e][1] = 0 /\ e # c  BY <1>1, <2>2 DEF Quiet
    <3> QED  BY <1>1, <3>1 DEF Typed, Dirs
  <2> QED  BY <1>1, <2>1, <2>2 DEF Quiet, Answered
<1>6. Placed'
  <2> SUFFICES ASSUME NEW e \in Conns, NEW h \in Dirs
               PROVE  /\ Len(sealed'[e][h]) = counter'[e][h] /\ Len(said'[e][h]) = counter'[e][h]
                      /\ \A i \in 1..Len(sealed'[e][h]) :
                           /\ sealed'[e][h][i].key = Key(e, h = 0)
                           /\ sealed'[e][h][i].nonce = nonce_for(h, i - 1)
                           /\ sealed'[e][h][i].body = Encode(said'[e][h][i])
    BY <1>1 DEF Placed, Key
  <2>1. CASE e = c /\ h = d
    <3> DEFINE n == counter[c][d]
    <3>1. /\ sealed[c][d] \in Seq(RecordType) /\ said[c][d] \in Seq(AllFrames) /\ n \in Nat
          /\ Len(sealed[c][d]) = n /\ Len(said[c][d]) = n
      BY DEF Typed, Placed
    <3>2. /\ sealed'[c][d] = Append(sealed[c][d], r(f)) /\ said'[c][d] = Append(said[c][d], f)
          /\ counter'[c][d] = n + 1
      <4> HIDE DEF r
      <4> QED  BY <1>1, <1>2 DEF Typed
    <3>3. /\ r(f).key = Key(c, d = 0) /\ r(f).nonce = nonce_for(d, n)
          /\ r(f).body = Encode(f)
      OBVIOUS
    <3> HIDE DEF r
    <3>4. Len(sealed'[c][d]) = n + 1 /\ Len(said'[c][d]) = n + 1  BY <3>1, <3>2, <1>3
    <3>5. ASSUME NEW i \in 1..(n + 1)
          PROVE  /\ sealed'[c][d][i].key = Key(c, d = 0)
                 /\ sealed'[c][d][i].nonce = nonce_for(d, i - 1)
                 /\ sealed'[c][d][i].body = Encode(said'[c][d][i])
      <4>1. CASE i = n + 1
        <5>1. sealed'[c][d][n + 1] = r(f)  BY <3>1, <3>2, <1>3
        <5>2. said'[c][d][n + 1] = f  BY <3>1, <3>2
        <5>3. i - 1 = n  BY <3>1, <4>1
        <5> QED  BY <4>1, <5>1, <5>2, <5>3, <3>3
      <4>2. CASE i # n + 1
        <5>1. i \in 1..n  BY <3>1, <4>2
        <5>2. sealed'[c][d][i] = sealed[c][d][i] /\ said'[c][d][i] = said[c][d][i]
          BY <3>1, <3>2, <5>1
        <5> QED  BY <3>1, <5>1, <5>2 DEF Placed
      <4> QED  BY <4>1, <4>2
    <3> QED  BY <2>1, <3>2, <3>4, <3>5
  <2>2. CASE ~(e = c /\ h = d)
    <3>1. /\ sealed'[e][h] = sealed[e][h] /\ said'[e][h] = said[e][h]
          /\ counter'[e][h] = counter[e][h]
      <4> HIDE DEF r
      <4> QED  BY <1>1, <1>2, <2>2 DEF Typed
    <3> QED  BY <3>1 DEF Placed
  <2> QED  BY <2>1, <2>2
<1>7. ReadOff'
  <2> SUFFICES ASSUME NEW e \in Conns, NEW h \in Dirs
               PROVE  /\ Len(opened[e][h]) <= Len(said'[e][h])
                      /\ \A i \in 1..Len(opened[e][h]) :
                           opened[e][h][i] = Decode(Encode(said'[e][h][i]))
    BY <1>1 DEF ReadOff
  <2>1. /\ said[e][h] \in Seq(AllFrames) /\ opened[e][h] \in Seq(Decoded)
        /\ Len(opened[e][h]) <= Len(said[e][h])
    BY DEF Typed, ReadOff
  <2>2. said'[e][h] = said[e][h] \/ said'[e][h] = Append(said[e][h], f)  BY <1>2 DEF Typed
  <2>3. /\ Len(said'[e][h]) >= Len(said[e][h])
        /\ \A i \in 1..Len(said[e][h]) : said'[e][h][i] = said[e][h][i]
    BY <2>1, <2>2
  <2>4. Len(said'[e][h]) \in Nat /\ Len(said[e][h]) \in Nat /\ Len(opened[e][h]) \in Nat
    BY <2>1, <2>2
  <2>5. \A i \in 1..Len(opened[e][h]) : i \in 1..Len(said[e][h])
    BY <2>1, <2>4
  <2>6. \A i \in 1..Len(opened[e][h]) : opened[e][h][i] = Decode(Encode(said[e][h][i]))
    BY DEF ReadOff
  <2>7. Len(opened[e][h]) <= Len(said'[e][h])
    <3>1. Len(opened[e][h]) <= Len(said[e][h]) /\ Len(said[e][h]) <= Len(said'[e][h])
      BY <2>1, <2>3
    <3> QED  BY <2>4, <3>1
  <2> QED  BY <2>3, <2>5, <2>6, <2>7
<1>8. WrongKeyOpensNothing'  BY <1>1 DEF WrongKeyOpensNothing
<1> QED  BY <1>4, <1>5, <1>6, <1>7, <1>8

\* A frame more is opened, or reading ends.
LEMMA ReadStep ==
  ASSUME ChannelInv, NEW c \in Conns, NEW d \in Dirs, Read(c, d)
  PROVE  ChannelInv'
<1> USE DEF ChannelInv
<1>1. /\ UNCHANGED <<hs, version, psk, heard, seen, counter, sealed, said>>
      /\ Answered(c) /\ failed[c][d] = "no"
  BY DEF Read, Answered
<1>2. Placed'  BY <1>1 DEF Placed, Key
<1>3. next[c][d] = Len(opened[c][d]) /\ next[c][d] \in Nat /\ opened[c][d] \in Seq(Decoded)
  BY <1>1 DEF ReadOff, Typed
<1>4. CASE UNCHANGED opened /\ \E x \in {"length", "record", "frame"} : failed' = [failed EXCEPT ![c][d] = x]
           /\ next' \in {next, [next EXCEPT ![c][d] = @ + 1]}
  <2>1. PICK x \in {"length", "record", "frame"} : failed' = [failed EXCEPT ![c][d] = x]  BY <1>4
  <2>2. next' \in [Conns -> [Dirs -> Nat]]
    <3>1. CASE next' = next  BY <3>1 DEF Typed
    <3>2. CASE next' = [next EXCEPT ![c][d] = @ + 1]  BY <3>2 DEF Typed
    <3> QED  BY <1>4, <3>1, <3>2
  <2>3. Typed'  BY <1>1, <1>4, <2>1, <2>2 DEF Typed
  <2>4. Quiet'  BY <1>1, <1>4 DEF Quiet, Answered
  <2>5. ASSUME NEW e \in Conns, NEW h \in Dirs, failed'[e][h] = "no"
        PROVE  next'[e][h] = Len(opened[e][h])
    <3>1. ~(e = c /\ h = d) /\ failed[e][h] = "no"  BY <2>1, <2>5 DEF Typed
    <3>2. next'[e][h] = next[e][h]
      <4>1. CASE next' = next  BY <4>1
      <4>2. CASE next' = [next EXCEPT ![c][d] = @ + 1]
        <5>1. next \in [Conns -> [Dirs -> Nat]]  BY DEF Typed
        <5> QED  BY <3>1, <4>2, <5>1
      <4> QED  BY <1>4, <4>1, <4>2
    <3> QED  BY <3>1, <3>2 DEF ReadOff
  <2>6. ReadOff'  BY <1>1, <1>4, <2>5 DEF ReadOff
  <2>7. WrongKeyOpensNothing'  BY <1>1, <1>4 DEF WrongKeyOpensNothing
  <2> QED  BY <1>2, <2>3, <2>4, <2>6, <2>7
<1>5. CASE \E record \in Records \cup {Garbage} :
             /\ Opens(c, d, record) /\ UNCHANGED failed
             /\ next' = [next EXCEPT ![c][d] = @ + 1]
             /\ opened' = [opened EXCEPT ![c][d] = Append(@, Decode(record.body))]
  <2> DEFINE n == next[c][d]
  <2>1. PICK record \in Records \cup {Garbage} :
          /\ Opens(c, d, record) /\ UNCHANGED failed
          /\ next' = [next EXCEPT ![c][d] = @ + 1]
          /\ opened' = [opened EXCEPT ![c][d] = Append(@, Decode(record.body))]
    BY <1>5
  <2>2. /\ n + 1 \in 1..Len(said[c][d]) /\ record.body = Encode(said[c][d][n + 1])
        /\ psk[c] = Psk /\ Decode(record.body) \in Decoded
    BY <2>1, OpensNext, OpensDecoded
  <2> DEFINE f == Decode(record.body)
  <2>3. f = Decode(Encode(said[c][d][n + 1])) /\ f \in Decoded  BY <2>2
  <2> HIDE DEF f
  <2>4. opened' = [opened EXCEPT ![c][d] = Append(@, f)]  BY <2>1 DEF f
  <2>5. /\ opened'[c][d] = Append(opened[c][d], f) /\ next'[c][d] = n + 1
        /\ \A e \in Conns, h \in Dirs : ~(e = c /\ h = d) =>
             opened'[e][h] = opened[e][h] /\ next'[e][h] = next[e][h]
    <3>1. /\ opened'[c][d] = Append(opened[c][d], f)
          /\ \A e \in Conns, h \in Dirs : ~(e = c /\ h = d) => opened'[e][h] = opened[e][h]
      BY <2>4 DEF Typed
    <3>2. /\ next'[c][d] = next[c][d] + 1
          /\ \A e \in Conns, h \in Dirs : ~(e = c /\ h = d) => next'[e][h] = next[e][h]
      BY <2>1 DEF Typed
    <3> QED  BY <3>1, <3>2
  <2>6. Typed'
    <3>1. Append(opened[c][d], f) \in Seq(Decoded)  BY <1>3, <2>3
    <3>2. opened' \in [Conns -> [Dirs -> Seq(Decoded)]]  BY <2>4, <3>1 DEF Typed
    <3>3. next' \in [Conns -> [Dirs -> Nat]]  BY <2>1 DEF Typed
    <3> QED  BY <1>1, <2>1, <3>2, <3>3 DEF Typed
  <2>7. Quiet'  BY <1>1, <2>5 DEF Quiet, Answered
  <2>8. ReadOff'
    <3>1. /\ Len(opened'[c][d]) = n + 1 /\ n + 1 <= Len(said[c][d])
          /\ \A i \in 1..(n + 1) : opened'[c][d][i] = Decode(Encode(said[c][d][i]))
      <4>1. Len(opened'[c][d]) = n + 1 /\ opened'[c][d][n + 1] = f
        BY <1>3, <2>3, <2>5
      <4>2. ASSUME NEW i \in 1..(n + 1), i # n + 1
            PROVE  opened'[c][d][i] = Decode(Encode(said[c][d][i]))
        <5>1. i \in 1..Len(opened[c][d])  BY <1>3, <4>2
        <5>2. opened'[c][d][i] = opened[c][d][i]  BY <1>3, <2>5, <5>1
        <5> QED  BY <5>1, <5>2 DEF ReadOff
      <4>3. n + 1 <= Len(said[c][d])
        <5>1. said[c][d] \in Seq(AllFrames)  BY DEF Typed
        <5> QED  BY <2>2, <5>1
      <4> QED  BY <2>3, <4>1, <4>2, <4>3
    <3> HIDE DEF n
    <3> QED  BY <1>1, <2>1, <2>5, <3>1 DEF ReadOff
  <2>9. WrongKeyOpensNothing'  BY <1>1, <2>2, <2>5 DEF WrongKeyOpensNothing
  <2> QED  BY <1>2, <2>6, <2>7, <2>8, <2>9
<1> QED  BY <1>4, <1>5 DEF Read

\* The invariant holds throughout.
LEMMA ChannelStep == ASSUME ChannelInv, [Next]_vars PROVE ChannelInv'
<1>1. CASE Next
  <2>1. PICK c \in Conns : \/ client_send(c) \/ Answer(c) \/ client_recv(c)
                           \/ \E d \in Dirs : Write(c, d) \/ Read(c, d)
    BY <1>1 DEF Next
  <2> QED  BY <2>1, SendStep, AnswerStep, RecvStep, WriteStep, ReadStep
<1>2. CASE UNCHANGED vars
  BY <1>2 DEF vars, ChannelInv, Typed, Quiet, Answered, Placed, Key, ReadOff, WrongKeyOpensNothing
<1> QED  BY <1>1, <1>2

THEOREM ChannelInvariant == Spec => []ChannelInv
BY ChannelInit, ChannelStep, PTL DEF Spec

-----------------------------------------------------------------------------
(* Frames as bytes.                                                        *)

\* A number is its quotient and its remainder.
LEMMA Halves ==
  ASSUME NEW b \in Nat \ {0}, NEW n \in 0..(b * b - 1)
  PROVE  /\ n \div b \in 0..(b - 1) /\ n % b \in 0..(b - 1)
         /\ (n \div b) * b + (n % b) = n
<1> DEFINE q == n \div b  r == n % b
<1>1. q \in Nat /\ r \in 0..(b - 1) /\ n = b * q + r  OBVIOUS
<1> HIDE DEF q, r
<1>2. q * b = b * q  BY <1>1
<1>3. q < b
  <2>1. SUFFICES ASSUME q >= b PROVE FALSE  BY <1>1
  <2>2. PICK k \in Nat : q = b + k  BY <1>1, <2>1
  <2>3. b * q = b * b + b * k  BY <2>2
  <2>4. b * k \in Nat /\ b * b \in Nat  BY <2>2
  <2> QED  BY <1>1, <2>3, <2>4
<1> QED  BY <1>1, <1>2, <1>3 DEF q, r

\* The bases are numbers.
LEMMA Bases == Base \in Nat \ {0} /\ Base2 \in Nat \ {0} /\ Base4 \in Nat \ {0}
<1>1. Base \in Nat \ {0}  BY CodecAssumption
<1>2. \A b \in Nat \ {0} : b * b \in Nat \ {0}  OBVIOUS
<1> QED  BY <1>1, <1>2 DEF Base2, Base4

\* Two bytes hold what is below Base2...
LEMMA Bytes2 ==
  ASSUME NEW n \in 0..(Base2 - 1)
  PROVE  BE2(n) \in Seq(Byte) /\ Len(BE2(n)) = 2 /\ FromBE2(BE2(n)) = n
<1>1. /\ n \div Base \in Byte /\ n % Base \in Byte
      /\ (n \div Base) * Base + (n % Base) = n
  BY Halves, Bases DEF Byte, Base2
<1> DEFINE q == n \div Base  r == n % Base
<1> HIDE DEF q, r
<1>2. q \in Byte /\ r \in Byte /\ q * Base + r = n  BY <1>1 DEF q, r
<1>3. BE2(n) = <<q, r>>  BY DEF BE2, q, r
<1> QED  BY <1>2, <1>3 DEF FromBE2

\* The two parts of a whole are found where they were put.
LEMMA Parts ==
  ASSUME NEW s \in Seq(Byte), NEW t \in Seq(Byte), NEW u, u = s \o t
  PROVE  /\ u \in Seq(Byte) /\ Len(u) = Len(s) + Len(t)
         /\ SubSeq(u, 1, Len(s)) = s
         /\ SubSeq(u, Len(s) + 1, Len(s) + Len(t)) = t
<1>1. s \o t \in Seq(Byte) /\ Len(s \o t) = Len(s) + Len(t)  OBVIOUS
<1>2. SubSeq(s \o t, 1, Len(s)) = s  OBVIOUS
<1>3. SubSeq(s \o t, Len(s) + 1, Len(s) + Len(t)) = t  OBVIOUS
<1> QED  BY <1>1, <1>2, <1>3

\* ... four what is below Base4...
LEMMA Bytes4 ==
  ASSUME NEW n \in 0..(Base4 - 1)
  PROVE  BE4(n) \in Seq(Byte) /\ Len(BE4(n)) = 4 /\ FromBE4(BE4(n)) = n
<1> DEFINE q == n \div Base2  r == n % Base2
<1>1. q \in 0..(Base2 - 1) /\ r \in 0..(Base2 - 1) /\ q * Base2 + r = n
  BY Halves, Bases DEF Base4
<1>2. BE4(n) = BE2(q) \o BE2(r)  BY DEF BE4
<1> HIDE DEF q, r
<1>3. /\ BE2(q) \in Seq(Byte) /\ Len(BE2(q)) = 2 /\ FromBE2(BE2(q)) = q
      /\ BE2(r) \in Seq(Byte) /\ Len(BE2(r)) = 2 /\ FromBE2(BE2(r)) = r
  BY <1>1, Bytes2
<1>4. /\ BE4(n) \in Seq(Byte) /\ Len(BE4(n)) = Len(BE2(q)) + Len(BE2(r))
      /\ SubSeq(BE4(n), 1, Len(BE2(q))) = BE2(q)
      /\ SubSeq(BE4(n), Len(BE2(q)) + 1, Len(BE2(q)) + Len(BE2(r))) = BE2(r)
  <2>1. BE2(q) \in Seq(Byte) /\ BE2(r) \in Seq(Byte)  BY <1>3
  <2> QED  BY <1>2, <2>1, Parts, Zenon
<1>5. /\ Len(BE4(n)) = 4 /\ SubSeq(BE4(n), 1, 2) = BE2(q)
      /\ SubSeq(BE4(n), 3, 4) = BE2(r)
  BY <1>3, <1>4
<1>6. FromBE4(BE4(n)) = q * Base2 + r  BY <1>3, <1>4, <1>5 DEF FromBE4
<1> QED  BY <1>1, <1>4, <1>5, <1>6

\* ... and eight every number up to U64Max.
LEMMA Bytes8 ==
  ASSUME NEW n \in 0..U64Max
  PROVE  BE8(n) \in Seq(Byte) /\ Len(BE8(n)) = 8 /\ FromBE8(BE8(n)) = n
<1> DEFINE q == n \div Base4  r == n % Base4
<1>1. q \in 0..(Base4 - 1) /\ r \in 0..(Base4 - 1) /\ q * Base4 + r = n
  BY Halves, Bases DEF U64Max
<1>2. BE8(n) = BE4(q) \o BE4(r)  BY DEF BE8
<1> HIDE DEF q, r
<1>3. /\ BE4(q) \in Seq(Byte) /\ Len(BE4(q)) = 4 /\ FromBE4(BE4(q)) = q
      /\ BE4(r) \in Seq(Byte) /\ Len(BE4(r)) = 4 /\ FromBE4(BE4(r)) = r
  BY <1>1, Bytes4
<1>4. /\ BE8(n) \in Seq(Byte) /\ Len(BE8(n)) = Len(BE4(q)) + Len(BE4(r))
      /\ SubSeq(BE8(n), 1, Len(BE4(q))) = BE4(q)
      /\ SubSeq(BE8(n), Len(BE4(q)) + 1, Len(BE4(q)) + Len(BE4(r))) = BE4(r)
  <2>1. BE4(q) \in Seq(Byte) /\ BE4(r) \in Seq(Byte)  BY <1>3
  <2> QED  BY <1>2, <2>1, Parts, Zenon
<1>5. /\ Len(BE8(n)) = 8 /\ SubSeq(BE8(n), 1, 4) = BE4(q)
      /\ SubSeq(BE8(n), 5, 8) = BE4(r)
  BY <1>3, <1>4
<1>6. FromBE8(BE8(n)) = q * Base4 + r  BY <1>3, <1>4, <1>5 DEF FromBE8
<1> QED  BY <1>1, <1>4, <1>5, <1>6

\* The type byte comes off.
LEMMA Untagged ==
  ASSUME NEW t, NEW S, NEW s \in Seq(S)
  PROVE  /\ (<<t>> \o s)[1] = t /\ <<t>> \o s # << >> /\ Tail(<<t>> \o s) = s
<1> DEFINE u == <<t>> \o s
<1>1. <<t>> \in Seq(S \cup {t}) /\ s \in Seq(S \cup {t})  OBVIOUS
<1>2. /\ u \in Seq(S \cup {t}) /\ Len(u) = Len(s) + 1 /\ u[1] = t
      /\ \A i \in 1..Len(s) : u[i + 1] = s[i]
  BY <1>1
<1> HIDE DEF u
<1>3. u # << >>  BY <1>2
<1>4. Tail(u) = s  BY <1>2
<1> QED  BY <1>2, <1>3, <1>4 DEF u

\* Bytes that tell the types apart.
LEMMA Tags ==
  /\ Tag.data = 0 /\ Tag.resize = 1 /\ Tag.ping = 2 /\ Tag.pong = 3
  /\ Tag.ack = 4 /\ Tag.hello = 5 /\ Tag.ended = 6 /\ Tag.output = 7
BY DEF Tag

\* decode goes by the first byte.
LEMMA Decoding ==
  ASSUME NEW b, b # << >>
  PROVE  /\ b[1] = Tag.data => Decode(b) = Data(Tail(b))
         /\ b[1] = Tag.output => Decode(b) = DecodeOutput(Tail(b))
         /\ b[1] = Tag.resize /\ Len(Tail(b)) = 4 =>
              Decode(b) = Resize(FromBE2(SubSeq(Tail(b), 1, 2)), FromBE2(SubSeq(Tail(b), 3, 4)))
         /\ b[1] = Tag.ack /\ Len(Tail(b)) = 8 => Decode(b) = Ack(FromBE8(Tail(b)))
BY Tags DEF Decode

\* Each type comes back.
LEMMA DataBack == ASSUME NEW s \in Chunks PROVE Decode(Encode(Data(s))) = Data(s)
<1>1. Encode(Data(s)) = <<Tag.data>> \o s  BY DEF Encode, Data
<1>2. s \in Seq(Byte)  BY ChannelAssumption
<1> DEFINE b == <<Tag.data>> \o s
<1>3. b[1] = Tag.data /\ b # << >> /\ Tail(b) = s  BY <1>2, Untagged
<1> HIDE DEF b
<1>4. Decode(b) = Data(s)  BY <1>3, Decoding, Zenon
<1> QED  BY <1>1, <1>4 DEF b

LEMMA AckBack == ASSUME NEW o \in Offsets PROVE Decode(Encode(Ack(o))) = Ack(o)
<1>1. Encode(Ack(o)) = <<Tag.ack>> \o BE8(o)  BY DEF Encode, Ack
<1>2. BE8(o) \in Seq(Byte) /\ Len(BE8(o)) = 8 /\ FromBE8(BE8(o)) = o
  BY Bytes8, ChannelAssumption
<1> DEFINE b == <<Tag.ack>> \o BE8(o)
<1>3. b[1] = Tag.ack /\ b # << >> /\ Tail(b) = BE8(o)  BY <1>2, Untagged
<1> HIDE DEF b
<1>4. Decode(b) = Ack(o)  BY <1>2, <1>3, Decoding, Zenon
<1> QED  BY <1>1, <1>4 DEF b

LEMMA ResizeBack ==
  ASSUME NEW x \in Sizes, NEW y \in Sizes
  PROVE  Decode(Encode(Resize(x, y))) = Resize(x, y)
<1>1. Encode(Resize(x, y)) = <<Tag.resize>> \o (BE2(x) \o BE2(y))  BY DEF Encode, Resize
<1>2. /\ BE2(x) \in Seq(Byte) /\ Len(BE2(x)) = 2 /\ FromBE2(BE2(x)) = x
      /\ BE2(y) \in Seq(Byte) /\ Len(BE2(y)) = 2 /\ FromBE2(BE2(y)) = y
  BY Bytes2, ChannelAssumption
<1> DEFINE rest == BE2(x) \o BE2(y)
<1>3. /\ rest \in Seq(Byte) /\ Len(rest) = Len(BE2(x)) + Len(BE2(y))
      /\ SubSeq(rest, 1, Len(BE2(x))) = BE2(x)
      /\ SubSeq(rest, Len(BE2(x)) + 1, Len(BE2(x)) + Len(BE2(y))) = BE2(y)
  <2>1. BE2(x) \in Seq(Byte) /\ BE2(y) \in Seq(Byte)  BY <1>2
  <2> QED  BY <2>1, Parts, Zenon
<1> HIDE DEF rest
<1> DEFINE b == <<Tag.resize>> \o rest
<1>4. b[1] = Tag.resize /\ b # << >> /\ Tail(b) = rest  BY <1>3, Untagged
<1> HIDE DEF b
<1>5. /\ Len(rest) = 4 /\ SubSeq(rest, 1, 2) = BE2(x)
      /\ SubSeq(rest, 3, 4) = BE2(y)
  BY <1>2, <1>3
<1>6. Decode(b) = Resize(x, y)  BY <1>2, <1>4, <1>5, Decoding, Zenon
<1> QED  BY <1>1, <1>6 DEF b, rest

LEMMA OutputBack == ASSUME NEW f \in Outputs PROVE Decode(Encode(f)) = f
<1>1. PICK o \in Offsets, s \in Chunks : f = Output(o, s)  BY DEF Outputs
<1>2. Len(s) <= MaxOutput /\ o + Len(s) <= U64Max  BY <1>1 DEF Outputs, Output
<1>3. Encode(f) = <<Tag.output>> \o (BE8(o) \o s)  BY <1>1 DEF Encode, Output
<1>4. BE8(o) \in Seq(Byte) /\ Len(BE8(o)) = 8 /\ FromBE8(BE8(o)) = o /\ s \in Seq(Byte)
  BY Bytes8, ChannelAssumption
<1> DEFINE rest == BE8(o) \o s
<1>5. /\ rest \in Seq(Byte) /\ Len(rest) = Len(BE8(o)) + Len(s)
      /\ SubSeq(rest, 1, Len(BE8(o))) = BE8(o)
      /\ SubSeq(rest, Len(BE8(o)) + 1, Len(BE8(o)) + Len(s)) = s
  <2>1. BE8(o) \in Seq(Byte) /\ s \in Seq(Byte)  BY <1>4
  <2> QED  BY <2>1, Parts, Zenon
<1> HIDE DEF rest
<1>6. DecodeOutput(rest) = f
  <2>1. Len(s) \in Nat /\ MaxOutput \in Nat /\ o \in Nat
    BY <1>4, CodecAssumption, ChannelAssumption
  <2>2. U64Max \in Nat  BY Bases DEF U64Max
  <2>3. /\ Len(rest) = 8 + Len(s) /\ SubSeq(rest, 1, 8) = BE8(o)
        /\ SubSeq(rest, 9, Len(rest)) = s
    BY <1>4, <1>5
  <2>4. ~(Len(rest) < 8 \/ Len(rest) - 8 > MaxOutput) /\ ~(o + Len(s) > U64Max)
    BY <1>2, <2>1, <2>2, <2>3
  <2> QED  BY <1>1, <1>4, <2>3, <2>4 DEF DecodeOutput
<1> DEFINE b == <<Tag.output>> \o rest
<1>7. b[1] = Tag.output /\ b # << >> /\ Tail(b) = rest  BY <1>5, Untagged
<1> HIDE DEF b
<1>8. Decode(b) = f  BY <1>6, <1>7, Decoding, Zenon
<1> QED  BY <1>3, <1>8 DEF b, rest

LEMMA BareBack ==
  ASSUME NEW t \in {"ping", "pong", "hello", "ended"}
  PROVE  Decode(Encode(Bare(t))) = Bare(t)
<1> DEFINE rest == IF t = "hello" THEN Magic ELSE << >>
           b == <<Tag[t]>> \o rest
<1>1. Encode(Bare(t)) = b  BY DEF Encode, Bare
<1>2. rest \in Seq(Byte)  BY CodecAssumption
<1> HIDE DEF rest
<1>3. b[1] = Tag[t] /\ b # << >> /\ Tail(b) = rest  BY <1>2, Untagged
<1> HIDE DEF b
<1>4. t = "hello" => rest = Magic  BY DEF rest
<1>5. Decode(b) = Bare(t)  BY <1>3, <1>4, Tags DEF Decode
<1> QED  BY <1>1, <1>5

\* decode undoes encode on every frame an end writes.
CodecRight == \A f \in AllFrames : Decode(Encode(f)) = f

\* Frame::encode and Frame::decode, for any base and any magic: integers of two and
\* eight bytes, the offset before the data, the limit on the data alone.
THEOREM FramesComeBack == CodecRight
BY DataBack, AckBack, ResizeBack, OutputBack, BareBack
   DEF CodecRight, AllFrames, ClientFrames, ServerFrames

-----------------------------------------------------------------------------
(* Results.                                                                *)

\* No key seals two records with one nonce: not in two directions, not on two
\* connections of a session, not at the limit of the counter.
THEOREM NoncesOnce == Spec => []NonceOnce
<1>1. ASSUME Typed, Placed PROVE NonceOnce
  <2> SUFFICES ASSUME NEW c \in Conns, NEW e \in Conns, NEW d \in Dirs, NEW h \in Dirs,
                      NEW i \in DOMAIN sealed[c][d], NEW j \in DOMAIN sealed[e][h],
                      sealed[c][d][i].key = sealed[e][h][j].key,
                      sealed[c][d][i].nonce = sealed[e][h][j].nonce
               PROVE  c = e /\ d = h /\ i = j
    BY DEF NonceOnce
  <2>1. i \in 1..Len(sealed[c][d]) /\ j \in 1..Len(sealed[e][h])
    <3>1. sealed[c][d] \in Seq(RecordType) /\ sealed[e][h] \in Seq(RecordType)
      BY <1>1 DEF Typed
    <3> QED  BY <3>1
  <2>2. Key(c, d = 0) = Key(e, h = 0) /\ nonce_for(d, i - 1) = nonce_for(h, j - 1)
    <3>1. /\ sealed[c][d][i].key = Key(c, d = 0)
          /\ sealed[c][d][i].nonce = nonce_for(d, i - 1)
      BY <1>1, <2>1 DEF Placed
    <3>2. /\ sealed[e][h][j].key = Key(e, h = 0)
          /\ sealed[e][h][j].nonce = nonce_for(h, j - 1)
      BY <1>1, <2>1 DEF Placed
    <3> QED  BY <3>1, <3>2
  <2>3. c = e  BY <1>1, <2>2, KeyOwner
  <2>4. d = h /\ i - 1 = j - 1  BY <2>2, NonceApart
  <2> QED  BY <2>1, <2>3, <2>4
<1> QED  BY <1>1, ChannelInvariant, PTL DEF ChannelInv

\* Who has not the session's key reads nothing, and nothing of his is read.
THEOREM WrongKeyShut == Spec => []WrongKeyOpensNothing
BY ChannelInvariant, PTL DEF ChannelInv

\* Frames come out as they went in, in their order, whatever the network does.
THEOREM ReadInOrder == Spec => []InOrder
<1>1. ASSUME Typed, ReadOff PROVE InOrder
  <2> SUFFICES ASSUME NEW c \in Conns, NEW d \in Dirs PROVE IsPrefix(opened[c][d], said[c][d])
    BY DEF InOrder
  <2> DEFINE s == opened[c][d]  t == said[c][d]
  <2>1. s \in Seq(Decoded) /\ t \in Seq(AllFrames)  BY <1>1 DEF Typed
  <2>2. Len(s) <= Len(t) /\ \A i \in 1..Len(s) : s[i] = t[i]
    <3>1. Len(s) <= Len(t) /\ \A i \in 1..Len(s) : s[i] = Decode(Encode(t[i]))
      BY <1>1 DEF ReadOff
    <3>2. \A i \in 1..Len(s) : t[i] \in AllFrames  BY <2>1, <3>1
    <3> QED  BY <3>1, <3>2, FramesComeBack DEF CodecRight
  <2> HIDE DEF s, t
  <2>3. SubSeq(s, 1, Len(s)) = SubSeq(t, 1, Len(s))  BY <2>1, <2>2
  <2>4. IsPrefix(s, t)  BY <2>1, <2>2, <2>3 DEF IsPrefix
  <2> QED  BY <2>4 DEF s, t
<1> QED  BY <1>1, ChannelInvariant, PTL DEF ChannelInv

\* The specification's types: nothing that is opened is Bad.
THEOREM ChannelTypes == Spec => []TypeOK
<1>1. Decoded \subseteq AllFrames  BY FramesComeBack DEF Decoded, CodecRight
<1>2. ASSUME Typed PROVE TypeOK
  <2>1. \A s \in Seq(Decoded) : s \in Seq(AllFrames)  BY <1>1
  <2>2. opened \in [Conns -> [Dirs -> Seq(AllFrames)]]
    <3>1. \A c \in Conns : opened[c] \in [Dirs -> Seq(AllFrames)]
      BY <1>2, <2>1 DEF Typed
    <3> QED  BY <1>2, <3>1 DEF Typed
  <2> QED  BY <1>2, <2>2 DEF Typed, TypeOK
<1> QED  BY <1>2, ChannelInvariant, PTL DEF ChannelInv

\* Hello comes first, and then what its end writes.
Framed ==
  \A c \in Conns, d \in Dirs : \A i \in 1..Len(said[c][d]) :
    said[c][d][i] \in IF i = 1 THEN {Bare("hello")} ELSE Frames(d)

LEMMA FramedStep ==
  ASSUME ChannelInv, Framed, NEW c \in Conns, NEW d \in Dirs, Write(c, d)
  PROVE  Framed'
<1>1. PICK f \in Speaks(c, d) : said' = [said EXCEPT ![c][d] = Append(@, f)]
  BY DEF Write
<1>2. f \in IF said[c][d] = << >> THEN {Bare("hello")} ELSE Frames(d)
  BY DEF Speaks
<1>3. SUFFICES ASSUME NEW e \in Conns, NEW h \in Dirs, NEW i \in 1..Len(said'[e][h])
               PROVE  said'[e][h][i] \in IF i = 1 THEN {Bare("hello")} ELSE Frames(h)
  BY DEF Framed
<1>4. CASE e = c /\ h = d
  <2> DEFINE s == said[c][d]
  <2>1. s \in Seq(AllFrames) /\ said'[e][h] = Append(s, f)
    BY <1>1, <1>4 DEF ChannelInv, Typed
  <2>2. \A k \in 1..Len(s) : s[k] \in IF k = 1 THEN {Bare("hello")} ELSE Frames(d)
    BY DEF Framed
  <2>3. f \in IF s = << >> THEN {Bare("hello")} ELSE Frames(d)  BY <1>2
  <2> HIDE DEF s
  <2>4. CASE i \in 1..Len(s)
    <3>1. said'[e][h][i] = s[i]  BY <2>1, <2>4
    <3> QED  BY <1>4, <2>2, <2>4, <3>1
  <2>5. CASE i = Len(s) + 1
    <3>1. said'[e][h][i] = f  BY <2>1, <2>5
    <3>2. i = 1 <=> s = << >>  BY <2>1, <2>5
    <3> QED  BY <1>4, <2>3, <3>1, <3>2
  <2> QED  BY <2>1, <2>4, <2>5
<1>5. CASE ~(e = c /\ h = d)
  <2>1. said'[e][h] = said[e][h]  BY <1>1, <1>5 DEF ChannelInv, Typed
  <2> QED  BY <2>1 DEF Framed
<1> QED  BY <1>4, <1>5

\* A frame is a byte for its type and the bytes of its contents.
LEMMA FrameBytes == ASSUME NEW f \in AllFrames PROVE Encode(f) \in Seq(Nat)
<1> USE ChannelAssumption
<1>1. Byte \subseteq Nat /\ \A s \in Seq(Byte) : s \in Seq(Nat)  BY Bases DEF Byte
<1>2. ASSUME NEW t \in {"data", "resize", "ping", "pong", "ack", "hello", "ended", "output"},
             NEW s \in Seq(Nat)
      PROVE  <<Tag[t]>> \o s \in Seq(Nat)
  <2>1. Tag[t] \in Nat  BY DEF Tag
  <2> HIDE DEF Tag
  <2> QED  BY <2>1
<1>3. CASE \E s \in Chunks : f = Data(s)
  <2>1. PICK s \in Chunks : f = Data(s)  BY <1>3
  <2>2. Encode(f) = <<Tag["data"]>> \o s  BY <2>1 DEF Encode, Data
  <2> QED  BY <1>1, <1>2, <2>1, <2>2
<1>4. CASE \E x, y \in Sizes : f = Resize(x, y)
  <2>1. PICK x \in Sizes, y \in Sizes : f = Resize(x, y)  BY <1>4
  <2>2. BE2(x) \in Seq(Byte) /\ BE2(y) \in Seq(Byte)  BY <2>1, Bytes2
  <2>3. BE2(x) \o BE2(y) \in Seq(Nat)  BY <1>1, <2>2
  <2>4. Encode(f) = <<Tag["resize"]>> \o (BE2(x) \o BE2(y))  BY <2>1 DEF Encode, Resize
  <2> QED  BY <1>2, <2>3, <2>4
<1>5. CASE \E o \in Offsets : f = Ack(o)
  <2>1. PICK o \in Offsets : f = Ack(o)  BY <1>5
  <2>2. BE8(o) \in Seq(Nat)  BY <1>1, <2>1, Bytes8
  <2>3. Encode(f) = <<Tag["ack"]>> \o BE8(o)  BY <2>1 DEF Encode, Ack
  <2> QED  BY <1>2, <2>2, <2>3
<1>6. CASE f \in Outputs
  <2>1. PICK o \in Offsets, s \in Chunks : f = Output(o, s)  BY <1>6 DEF Outputs
  <2>2. BE8(o) \in Seq(Nat) /\ s \in Seq(Nat)  BY <1>1, <2>1, Bytes8
  <2>3. BE8(o) \o s \in Seq(Nat)  BY <2>2
  <2>4. Encode(f) = <<Tag["output"]>> \o (BE8(o) \o s)  BY <2>1 DEF Encode, Output
  <2> QED  BY <1>2, <2>3, <2>4
<1>7. CASE f \in {Bare("ping"), Bare("pong"), Bare("ended")}
  <2>1. PICK t \in {"ping", "pong", "ended"} : f = Bare(t)  BY <1>7
  <2>2. Encode(f) = <<Tag[t]>> \o << >>  BY <2>1 DEF Encode, Bare
  <2>3. << >> \in Seq(Nat)  OBVIOUS
  <2> QED  BY <1>2, <2>2, <2>3
<1>8. CASE f = Bare("hello")
  <2>1. Encode(f) = <<Tag["hello"]>> \o Magic  BY <1>8 DEF Encode, Bare
  <2>2. Magic \in Seq(Nat)  BY <1>1, CodecAssumption
  <2> QED  BY <1>2, <2>1, <2>2
<1> QED  BY <1>3, <1>4, <1>5, <1>6, <1>7, <1>8 DEF AllFrames, ClientFrames, ServerFrames

\* The writer's limit is the reader's.
AllFit ==
  \A c \in Conns, d \in Dirs : \A i \in 1..Len(sealed[c][d]) : LengthFits(sealed[c][d][i])

LEMMA FitStep ==
  ASSUME ChannelInv, AllFit, NEW c \in Conns, NEW d \in Dirs, Write(c, d)
  PROVE  AllFit'
<1> DEFINE r(f) == [key |-> Key(c, d = 0), nonce |-> nonce_for(d, counter[c][d]),
                    body |-> Encode(f)]
<1>1. PICK f \in Speaks(c, d) : /\ sealed' = [sealed EXCEPT ![c][d] = Append(@, r(f))]
                                /\ Len(Encode(f)) + 16 <= MaxRecord
  BY DEF Write
<1>2. r(f) \in RecordType /\ LengthFits(r(f))
  <2>1. f \in AllFrames  BY DEF Speaks, AllFrames, Frames
  <2>2. Len(Encode(f)) \in Nat  BY <2>1, FrameBytes
  <2>3. Len(Encode(f)) + 16 \in 1..MaxRecord  BY <1>1, <2>2, CodecAssumption
  <2>4. LengthFits(r(f))  BY <2>3 DEF LengthFits
  <2>5. Key(c, d = 0) \in Keys
    <3>1. CASE d = 0  BY <3>1 DEF Key, Keys, ChannelInv, Typed
    <3>2. CASE d = 1  BY <3>2, ChannelAssumption DEF Key, Keys, ChannelInv, Typed
    <3> QED  BY <3>1, <3>2 DEF Dirs
  <2>6. nonce_for(d, counter[c][d]) \in Dirs \X (0..CounterMax)
    BY DEF nonce_for, ChannelInv, Typed
  <2> QED  BY <2>1, <2>4, <2>5, <2>6 DEF RecordType
<1>3. SUFFICES ASSUME NEW e \in Conns, NEW h \in Dirs, NEW i \in 1..Len(sealed'[e][h])
               PROVE  LengthFits(sealed'[e][h][i])
  BY DEF AllFit
<1> HIDE DEF r
<1>4. sealed[c][d] \in Seq(RecordType) /\ sealed[e][h] \in Seq(RecordType)
  BY DEF ChannelInv, Typed
<1>5. CASE e = c /\ h = d
  <2>1. sealed'[e][h] = Append(sealed[c][d], r(f))
    BY <1>1, <1>5 DEF ChannelInv, Typed
  <2>2. CASE i = Len(sealed[c][d]) + 1
    <3>1. sealed'[e][h][i] = r(f)  BY <1>2, <1>4, <2>1, <2>2
    <3> QED  BY <1>2, <3>1
  <2>3. CASE i # Len(sealed[c][d]) + 1
    <3>1. i \in 1..Len(sealed[c][d]) /\ sealed'[e][h][i] = sealed[c][d][i]
      BY <1>2, <1>4, <2>1, <2>3
    <3> QED  BY <3>1 DEF AllFit
  <2> QED  BY <2>2, <2>3
<1>6. CASE ~(e = c /\ h = d)
  <2>1. sealed'[e][h] = sealed[e][h]  BY <1>1, <1>6 DEF ChannelInv, Typed
  <2> QED  BY <2>1 DEF AllFit
<1> QED  BY <1>5, <1>6

\* Whatever the network hands over has a length that fits.
LEMMA FitsAll ==
  ASSUME ChannelInv, AllFit, NEW record \in Records \cup {Garbage}
  PROVE  LengthFits(record)
<1>1. CASE record = Garbage
  <2>1. Len(<< >>) + 16 \in 1..MaxRecord  BY ChannelAssumption, CodecAssumption
  <2> QED  BY <1>1, <2>1 DEF Garbage, LengthFits
<1>2. CASE record \in Records
  <2>1. PICK e \in Conns, h \in Dirs : record \in ToSet(sealed[e][h])
    BY <1>2 DEF Records
  <2>2. sealed[e][h] \in Seq(RecordType)  BY DEF ChannelInv, Typed
  <2>3. PICK i \in 1..Len(sealed[e][h]) : record = sealed[e][h][i]
    BY <2>1, <2>2 DEF ToSet
  <2> QED  BY <2>3 DEF AllFit
<1> QED  BY <1>1, <1>2

LEMMA TakenStep ==
  ASSUME ChannelInv, Framed, AllFit, FramesTaken, NEW c \in Conns, NEW d \in Dirs, Read(c, d)
  PROVE  FramesTaken'
<1>1. PICK record \in Records \cup {Garbage} :
        LET f == Decode(record.body)
            expected == IF opened[c][d] = << >> THEN {"hello"} ELSE Takes(d)
        IN  \/ failed' = [failed EXCEPT ![c][d] = "record"]
            \/ Opens(c, d, record) /\ (f.type \in expected => UNCHANGED failed)
  BY FitsAll DEF Read
<1>2. CASE failed' = [failed EXCEPT ![c][d] = "record"]
  BY <1>2 DEF FramesTaken, ChannelInv, Typed
<1>3. CASE Opens(c, d, record) /\
            (Decode(record.body).type \in (IF opened[c][d] = << >> THEN {"hello"} ELSE Takes(d))
               => UNCHANGED failed)
  <2> DEFINE n == next[c][d]  f == said[c][d][n + 1]
  <2>1. n + 1 \in 1..Len(said[c][d]) /\ record.body = Encode(f)
    BY <1>3, OpensNext DEF ChannelInv
  <2>2. f \in IF n + 1 = 1 THEN {Bare("hello")} ELSE Frames(d)  BY <2>1 DEF Framed
  <2>3. f \in AllFrames
    <3>1. said[c][d] \in Seq(AllFrames)  BY DEF ChannelInv, Typed
    <3> QED  BY <2>1, <3>1
  <2>4. Decode(record.body) = f  BY <2>1, <2>3, FramesComeBack DEF CodecRight
  <2>5. n = Len(opened[c][d]) /\ opened[c][d] \in Seq(Decoded)
    BY DEF ChannelInv, ReadOff, Typed, Read
  <2>6. opened[c][d] = << >> <=> n + 1 = 1  BY <2>5
  <2>7. f.type \in IF opened[c][d] = << >> THEN {"hello"} ELSE Takes(d)
    <3>1. Bare("hello").type = "hello"  BY DEF Bare
    <3>2. \A g \in Frames(d) : g.type \in Takes(d)
      BY DEF Frames, ClientFrames, ServerFrames, Outputs, Takes, Data, Output, Resize, Ack, Bare, Dirs
    <3> HIDE DEF f, n
    <3> QED  BY <2>2, <2>6, <3>1, <3>2
  <2> QED  BY <1>3, <2>4, <2>7 DEF FramesTaken
<1> QED  BY <1>1, <1>2, <1>3

\* An end takes every frame the other writes: its record is none too long for the
\* reader's limit, it decodes, and it is of a type the reader takes.
THEOREM FramesAreTaken == Spec => []FramesTaken
<1>1. Init => Framed /\ AllFit /\ FramesTaken
  BY DEF Init, Each, Framed, AllFit, FramesTaken
<1>2. ASSUME ChannelInv, Framed, AllFit, FramesTaken, [Next]_vars
      PROVE  Framed' /\ AllFit' /\ FramesTaken'
  <2>1. ASSUME NEW c \in Conns, client_send(c) \/ Answer(c) \/ client_recv(c)
        PROVE  Framed' /\ AllFit' /\ FramesTaken'
    <3>1. UNCHANGED <<said, sealed, failed>>  BY <2>1 DEF client_send, Answer, client_recv
    <3> QED  BY <1>2, <3>1 DEF Framed, AllFit, FramesTaken
  <2>2. ASSUME NEW c \in Conns, NEW d \in Dirs, Write(c, d)
        PROVE  Framed' /\ AllFit' /\ FramesTaken'
    <3>1. Framed' /\ AllFit'  BY <1>2, <2>2, FramedStep, FitStep
    <3>2. UNCHANGED failed  BY <2>2 DEF Write
    <3> QED  BY <1>2, <3>1, <3>2 DEF FramesTaken
  <2>3. ASSUME NEW c \in Conns, NEW d \in Dirs, Read(c, d)
        PROVE  Framed' /\ AllFit' /\ FramesTaken'
    <3>1. FramesTaken'  BY <1>2, <2>3, TakenStep
    <3>2. UNCHANGED <<said, sealed>>  BY <2>3 DEF Read
    <3> QED  BY <1>2, <3>1, <3>2 DEF Framed, AllFit
  <2>4. CASE UNCHANGED vars  BY <1>2, <2>4 DEF vars, Framed, AllFit, FramesTaken
  <2>5. CASE Next  BY <2>1, <2>2, <2>3, <2>5 DEF Next
  <2> QED  BY <1>2, <2>4, <2>5
<1> QED  BY <1>1, <1>2, ChannelInvariant, PTL DEF Spec

-----------------------------------------------------------------------------
(* The channel implements Pipes.                                           *)

\* The daemon says nothing before it has opened the client's Hello.
Answering == \A c \in Conns : said[c][1] # << >> => opened[c][0] # << >>

LEMMA AnsweringStep == ASSUME ChannelInv, Answering, [Next]_vars PROVE Answering'
<1>1. ASSUME UNCHANGED <<said, opened>> PROVE Answering'  BY <1>1 DEF Answering
<1>2. ASSUME NEW c \in Conns, client_send(c) \/ Answer(c) \/ client_recv(c) PROVE Answering'
  BY <1>1, <1>2 DEF client_send, Answer, client_recv
<1>3. ASSUME NEW c \in Conns, NEW d \in Dirs, Write(c, d) PROVE Answering'
  <2>1. PICK f \in Speaks(c, d) : said' = [said EXCEPT ![c][d] = Append(@, f)]
    BY <1>3 DEF Write
  <2>2. UNCHANGED opened  BY <1>3 DEF Write
  <2>3. d = 1 => opened[c][0] # << >>  BY <2>1 DEF Speaks
  <2>4. \A e \in Conns : ~(e = c /\ d = 1) => said'[e][1] = said[e][1]
    BY <2>1 DEF ChannelInv, Typed, Dirs
  <2> QED  BY <2>2, <2>3, <2>4 DEF Answering
<1>4. ASSUME NEW c \in Conns, NEW d \in Dirs, Read(c, d) PROVE Answering'
  <2>1. UNCHANGED said  BY <1>4 DEF Read
  <2>2. CASE UNCHANGED opened  BY <1>1, <2>1, <2>2
  <2>3. CASE \E f \in Decoded : opened' = [opened EXCEPT ![c][d] = Append(@, f)]
    <3>1. PICK f \in Decoded : opened' = [opened EXCEPT ![c][d] = Append(@, f)]  BY <2>3
    <3>2. \A e \in Conns : opened'[e][0] \in {opened[e][0], Append(opened[e][0], f)}
      BY <3>1 DEF ChannelInv, Typed, Dirs
    <3>3. \A e \in Conns : opened[e][0] \in Seq(Decoded)  BY DEF ChannelInv, Typed, Dirs
    <3>4. \A e \in Conns : Append(opened[e][0], f) # << >>  BY <3>3
    <3> QED  BY <2>1, <3>2, <3>4 DEF Answering
  <2> QED  BY <1>4, <2>2, <2>3, OpensDecoded DEF Read, ChannelInv
<1>5. CASE UNCHANGED vars  BY <1>1, <1>5 DEF vars
<1> QED  BY <1>2, <1>3, <1>4, <1>5 DEF Next

LEMMA PipeInit == ASSUME Init PROVE Pipe!Init
<1>1. {Pipe!Up, Pipe!Down} = Dirs  BY DEF Pipe!Up, Pipe!Down, Dirs
<1>2. said = [c \in Conns |-> [d \in Dirs |-> << >>]] /\ opened = [c \in Conns |-> [d \in Dirs |-> << >>]]
  BY DEF Init, Each
<1>3. [c \in Conns |-> psk[c] = Psk] \in [Conns -> BOOLEAN]  OBVIOUS
<1> QED  BY <1>1, <1>2, <1>3 DEF Pipe!Init

\* A client comes with a key; nothing has gone into its pipes.
LEMMA OpenStep ==
  ASSUME ChannelInv, Answering, NEW c \in Conns, client_send(c)
  PROVE  Pipe!Next
<1>1. PICK k \in Psks : psk' = [psk EXCEPT ![c] = k]  BY DEF client_send
<1>2. UNCHANGED <<said, opened>> /\ hs[c] = "none"  BY DEF client_send
<1>3. said[c][0] = << >> /\ said[c][1] = << >>
  <2>1. counter[c][0] = 0 /\ opened[c][0] = << >>
    BY <1>2 DEF ChannelInv, Quiet, Answered, Dirs
  <2>2. said[c][0] \in Seq(AllFrames) /\ Len(said[c][0]) = 0
    BY <2>1 DEF ChannelInv, Typed, Placed, Dirs
  <2> QED  BY <2>1, <2>2 DEF Answering
<1> DEFINE old == [e \in Conns |-> psk[e] = Psk]  new == [e \in Conns |-> psk'[e] = Psk]
<1>4. new = [old EXCEPT ![c] = (k = Psk)]
  <2>1. psk'[c] = k /\ \A e \in Conns : e # c => psk'[e] = psk[e]
    BY <1>1 DEF ChannelInv, Typed
  <2> QED  BY <2>1, Zenon
<1>5. (k = Psk) \in BOOLEAN  OBVIOUS
<1>6. Pipe!Open(c)
  BY <1>2, <1>3, <1>4, <1>5 DEF Pipe!Open, Pipe!Up, Pipe!Down
<1> QED  BY <1>6 DEF Pipe!Next

\* A frame goes in.
LEMMA PutStep ==
  ASSUME ChannelInv, NEW c \in Conns, NEW d \in Dirs, Write(c, d)
  PROVE  Pipe!Next
<1>1. PICK f \in Speaks(c, d) : said' = [said EXCEPT ![c][d] = Append(@, f)]
  BY DEF Write
<1>2. UNCHANGED <<psk, opened>>  BY DEF Write
<1>3. f \in AllFrames  BY DEF Speaks, AllFrames, Frames
<1>4. opened[c][1 - d] # << >> \/ (d = 0 /\ said[c][d] = << >>)
  BY DEF Speaks, Dirs
<1>5. Pipe!Put(c, d)
  BY <1>1, <1>2, <1>3, <1>4 DEF Pipe!Put, Pipe!Up
<1> QED  BY <1>5 DEF Pipe!Next, Pipe!Up, Pipe!Down, Dirs

\* The next frame comes out, or nothing does.
LEMMA GetStep ==
  ASSUME ChannelInv, NEW c \in Conns, NEW d \in Dirs, Read(c, d)
  PROVE  Pipe!Next \/ UNCHANGED <<psk, said, opened>>
<1>1. UNCHANGED <<psk, said>> /\ failed[c][d] = "no"  BY DEF Read
<1>2. CASE UNCHANGED opened  BY <1>1, <1>2
<1>3. CASE \E record \in Records \cup {Garbage} :
             /\ Opens(c, d, record)
             /\ opened' = [opened EXCEPT ![c][d] = Append(@, Decode(record.body))]
  <2>1. PICK record \in Records \cup {Garbage} :
          /\ Opens(c, d, record)
          /\ opened' = [opened EXCEPT ![c][d] = Append(@, Decode(record.body))]
    BY <1>3
  <2>2. /\ next[c][d] + 1 \in 1..Len(said[c][d])
        /\ record.body = Encode(said[c][d][next[c][d] + 1]) /\ psk[c] = Psk
    BY <2>1, OpensNext DEF ChannelInv
  <2>3. next[c][d] = Len(opened[c][d]) /\ said[c][d] \in Seq(AllFrames)
        /\ opened[c][d] \in Seq(Decoded)
    BY <1>1 DEF ChannelInv, ReadOff, Typed
  <2> DEFINE n == Len(opened[c][d])  f == said[c][d][n + 1]
  <2>4. n + 1 \in 1..Len(said[c][d]) /\ f \in AllFrames  BY <2>2, <2>3
  <2>5. Decode(record.body) = f  BY <2>2, <2>3, <2>4, FramesComeBack DEF CodecRight
  <2>6. n < Len(said[c][d])  BY <2>3, <2>4
  <2>7. [e \in Conns |-> psk[e] = Psk][c]  BY <2>2
  <2>8. opened' = [opened EXCEPT ![c][d] = Append(@, f)]  BY <2>1, <2>5
  <2>9. Pipe!Get(c, d)  BY <1>1, <2>6, <2>7, <2>8 DEF Pipe!Get
  <2> QED  BY <2>9 DEF Pipe!Next, Pipe!Up, Pipe!Down, Dirs
<1> QED  BY <1>2, <1>3 DEF Read

LEMMA PipeStep ==
  ASSUME ChannelInv, Answering, [Next]_vars
  PROVE  [Pipe!Next]_(Pipe!pipeVars)
<1>1. ASSUME UNCHANGED <<psk, said, opened>> PROVE [Pipe!Next]_(Pipe!pipeVars)
  BY <1>1 DEF Pipe!pipeVars
<1>2. ASSUME NEW c \in Conns, client_send(c) \/ Answer(c) \/ client_recv(c)
      PROVE  [Pipe!Next]_(Pipe!pipeVars)
  <2>1. CASE client_send(c)  BY <2>1, OpenStep
  <2>2. CASE Answer(c) \/ client_recv(c)  BY <1>1, <2>2 DEF Answer, client_recv
  <2> QED  BY <1>2, <2>1, <2>2
<1>3. ASSUME NEW c \in Conns, NEW d \in Dirs, Write(c, d) \/ Read(c, d)
      PROVE  [Pipe!Next]_(Pipe!pipeVars)
  BY <1>1, <1>3, PutStep, GetStep
<1>4. CASE UNCHANGED vars  BY <1>1, <1>4 DEF vars
<1> QED  BY <1>2, <1>3, <1>4 DEF Next

\* Sealed records on a network that may do anything come to pipes in order, which
\* only ends with the session's key share.
THEOREM PipesImplemented == Spec => ImplementsPipes
<1>1. Init => Pipe!Init /\ Answering  BY PipeInit DEF Init, Each, Answering, Dirs
<1>2. ChannelInv /\ Answering /\ [Next]_vars => Answering'  BY AnsweringStep
<1>3. ChannelInv /\ Answering /\ [Next]_vars => [Pipe!Next]_(Pipe!pipeVars)  BY PipeStep
<1> QED  BY <1>1, <1>2, <1>3, ChannelInvariant, PTL DEF Spec, ImplementsPipes, Pipe!Spec
=============================================================================
