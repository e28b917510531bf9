------------------------------- MODULE Channel -------------------------------
(***************************************************************************)
(* The encrypted connections: the exchange of versions and nonces          *)
(* (proto/handshake.rs), the key of a connection and the nonce of a record *)
(* (proto/crypto.rs), and frames written and read as records               *)
(* (proto/frame.rs).                                                       *)
(*                                                                         *)
(* A record is the key and the nonce it was sealed with and the frame's    *)
(* bytes; it opens with the same key and nonce only.  The network may      *)
(* hand over any record that was ever sealed, or garbage: that a TCP       *)
(* stream does not is nothing the records rely on.  Nonces of the          *)
(* handshake are drawn once each (32 random bytes).                        *)
(***************************************************************************)
EXTENDS Codec

CONSTANTS MaxConns,    \* bound: connections
          CounterMax,  \* the last value of a record counter (2^64 - 1)
          Versions,    \* of clients
          VERSION,     \* the daemon's
          Psks,        \* keys a client may have been given
          Psk,         \* the session's
          Chunks,      \* bound: contents of Data and Output
          Sizes,       \* bound: terminal sizes
          Offsets      \* bound: offsets

Conns == 1..MaxConns
Dirs  == {0, 1}  \* DIR_CLIENT_TO_SERVER, DIR_SERVER_TO_CLIENT

ASSUME ChannelAssumption ==
  /\ MaxConns \in Nat /\ CounterMax \in Nat /\ Psk \in Psks /\ VERSION \in Versions
  /\ MaxRecord >= 16  \* room for the tag
  /\ Chunks \subseteq Seq(Byte) /\ Sizes \subseteq 0..(Base2 - 1) /\ Offsets \subseteq 0..U64Max

VARIABLES
  hs,       \* the handshake: "none", "hello", "answered", "keyed"; "told" of a mismatch, "refused"
  version,  \* the client's version...
  psk,      \* ... and key
  heard,    \* the client's nonce as the server has it...
  seen,     \* ... and the server's as the client has it
  counter,  \* counter of the sealer for each direction...
  next,     \* ... and of the opener
  sealed,   \* the records sealed...
  said,     \* ... and their frames
  opened,   \* the frames opened
  failed    \* why reading stopped: "no", "length", "record" or "frame"

vars == <<hs, version, psk, heard, seen, counter, next, sealed, said, opened, failed>>

\* The nonces a connection's ends draw; what garbles one makes it NoNonce.
ClientNonce(c) == <<"client", c>>
ServerNonce(c) == <<"server", c>>
NoNonce        == <<"garbled", 0>>

\* A bug: the key is derived from the nonces alone.
KeyOfNonces(c, client) == IF client THEN <<Psk, ClientNonce(c), seen[c]>>
                          ELSE <<Psk, heard[c], ServerNonce(c)>>

\* derive_key, without the hash: the key of the sealer or opener at one end.
Key(c, client) == IF client THEN <<psk[c], ClientNonce(c), seen[c]>>
                  ELSE <<Psk, heard[c], ServerNonce(c)>>

\* A bug: both directions count from the same nonce.
NonceOf(d, n)  == <<0, n>>
nonce_for(d, n) == <<d, n>>

-----------------------------------------------------------------------------
(* The handshake.                                                          *)

client_send(c) ==
  /\ hs[c] = "none" /\ hs' = [hs EXCEPT ![c] = "hello"]
  /\ \E v \in Versions, k \in Psks :
       version' = [version EXCEPT ![c] = v] /\ psk' = [psk EXCEPT ![c] = k]
  /\ UNCHANGED <<heard, seen, counter, next, sealed, said, opened, failed>>

\* server_recv, and server_send_ok or server_send_err.
Answer(c) ==
  /\ hs[c] = "hello"
  /\ \/ /\ version[c] = VERSION /\ hs' = [hs EXCEPT ![c] = "answered"]
        /\ \E n \in {ClientNonce(c), NoNonce} : heard' = [heard EXCEPT ![c] = n]
     \/ /\ version[c] # VERSION /\ hs' = [hs EXCEPT ![c] = "told"]
        /\ UNCHANGED heard
  /\ UNCHANGED <<version, psk, seen, counter, next, sealed, said, opened, failed>>

client_recv(c) ==
  /\ \/ /\ hs[c] = "answered" /\ hs' = [hs EXCEPT ![c] = "keyed"]
        /\ \E n \in {ServerNonce(c), NoNonce} : seen' = [seen EXCEPT ![c] = n]
     \/ /\ hs[c] = "told" /\ hs' = [hs EXCEPT ![c] = "refused"]
        /\ UNCHANGED seen
  /\ UNCHANGED <<version, psk, heard, counter, next, sealed, said, opened, failed>>

-----------------------------------------------------------------------------
(* Records.                                                                *)

\* What each end writes after its Hello, and what it takes.
ClientFrames == {Data(s) : s \in Chunks} \cup {Resize(x, y) : x \in Sizes, y \in Sizes}
                  \cup {Ack(o) : o \in Offsets} \cup {Bare("ping"), Bare("pong")}
Outputs      == {f \in {Output(o, s) : o \in Offsets, s \in Chunks} :
                   Len(f.data) <= MaxOutput /\ f.offset + Len(f.data) <= U64Max}
ServerFrames == Outputs \cup {Bare("ping"), Bare("pong"), Bare("ended")}
Frames(d)    == IF d = 0 THEN ClientFrames ELSE ServerFrames
AllFrames    == {Bare("hello")} \cup ClientFrames \cup ServerFrames
Takes(d)     == IF d = 0 THEN {"data", "resize", "ack", "ping", "pong", "hello", "ended", "output"}
                ELSE {"output", "ping", "pong", "ended"}

\* An end has its key, and its own reading goes on.  The client says Hello first,
\* the daemon when it has opened it.
Ready(c, d) == failed[c][1 - d] = "no"
            /\ IF d = 0 THEN hs[c] = "keyed" ELSE hs[c] \in {"answered", "keyed"}
Speaks(c, d) == IF said[c][d] = << >> THEN IF d = 0 THEN {Bare("hello")}
                                          ELSE IF opened[c][0] # << >> THEN {Bare("hello")} ELSE {}
                ELSE IF opened[c][1 - d] # << >> THEN Frames(d) ELSE {}

\* A bug: the counter goes on past its limit.
WriteOn(c, d) ==
  /\ Ready(c, d) /\ counter[c][d] < CounterMax + 1
  /\ \E f \in Speaks(c, d) :
       /\ sealed' = [sealed EXCEPT ![c][d] =
                       Append(@, [key |-> Key(c, d = 0), nonce |-> nonce_for(d, counter[c][d]),
                                  body |-> Encode(f)])]
       /\ said' = [said EXCEPT ![c][d] = Append(@, f)]
  /\ counter' = [counter EXCEPT ![c][d] = @ + 1]
  /\ UNCHANGED <<hs, version, psk, heard, seen, next, opened, failed>>

\* write_frame.  With a frame too long for a record, or a sealer whose counter is
\* used up, it fails, and with it the end's writer and the connection.
Write(c, d) ==
  /\ Ready(c, d) /\ counter[c][d] < CounterMax
  /\ \E f \in Speaks(c, d) :
       /\ Len(Encode(f)) + 16 <= MaxRecord
       /\ sealed' = [sealed EXCEPT ![c][d] =
                       Append(@, [key |-> Key(c, d = 0), nonce |-> nonce_for(d, counter[c][d]),
                                  body |-> Encode(f)])]
       /\ said' = [said EXCEPT ![c][d] = Append(@, f)]
  /\ counter' = [counter EXCEPT ![c][d] = @ + 1]
  /\ UNCHANGED <<hs, version, psk, heard, seen, next, opened, failed>>

Records == UNION {ToSet(sealed[c][d]) : c \in Conns, d \in Dirs}
Garbage == [key |-> << >>, nonce |-> << >>, body |-> << >>]

\* A bug: the longest record is one too long.
LengthFitsShort(record) == Len(record.body) + 16 < MaxRecord

\* The reader's limit, on the length a record comes with (the tag is 16 bytes).
LengthFits(record) == Len(record.body) + 16 \in 1..MaxRecord

\* A bug: any record of the connection opens.
OpensAny(c, d, record) == record.key = Key(c, d = 1)
Opens(c, d, record) == /\ record.key = Key(c, d = 1)
                       /\ record.nonce = nonce_for(d, next[c][d])

\* read_frame, on whatever the network hands over.  (Garbage may have a length
\* that does not fit, too: it is no record either way.)
Read(c, d) ==
  /\ IF d = 0 THEN hs[c] \in {"answered", "keyed"} ELSE hs[c] = "keyed"
  /\ failed[c][d] = "no"
  /\ \E record \in Records \cup {Garbage} :
       LET f == Decode(record.body)
           expected == IF opened[c][d] = << >> THEN {"hello"} ELSE Takes(d)
       IN  IF ~LengthFits(record)
           THEN failed' = [failed EXCEPT ![c][d] = "length"] /\ UNCHANGED <<next, opened>>
           ELSE IF ~Opens(c, d, record)
           THEN failed' = [failed EXCEPT ![c][d] = "record"] /\ UNCHANGED <<next, opened>>
           ELSE /\ next' = [next EXCEPT ![c][d] = @ + 1]
                /\ IF f.type \in expected
                   THEN /\ opened' = [opened EXCEPT ![c][d] = Append(@, f)]
                        /\ UNCHANGED failed
                   ELSE failed' = [failed EXCEPT ![c][d] = "frame"] /\ UNCHANGED opened
  /\ UNCHANGED <<hs, version, psk, heard, seen, counter, sealed, said>>

-----------------------------------------------------------------------------
Each(x) == [c \in Conns |-> [d \in Dirs |-> x]]

Init ==
  /\ hs = [c \in Conns |-> "none"] /\ version = [c \in Conns |-> VERSION]
  /\ psk = [c \in Conns |-> Psk] /\ heard = [c \in Conns |-> NoNonce]
  /\ seen = [c \in Conns |-> NoNonce]
  /\ counter = Each(0) /\ next = Each(0)
  /\ sealed = Each(<< >>) /\ said = Each(<< >>) /\ opened = Each(<< >>) /\ failed = Each("no")

Next == \E c \in Conns : \/ client_send(c) \/ Answer(c) \/ client_recv(c)
                         \/ \E d \in Dirs : Write(c, d) \/ Read(c, d)

Spec == Init /\ [][Next]_vars

-----------------------------------------------------------------------------
(* Correctness.                                                            *)

Keys == Psks \X ({NoNonce} \cup {ClientNonce(c) : c \in Conns})
             \X ({NoNonce} \cup {ServerNonce(c) : c \in Conns})
RecordType == [key : Keys, nonce : Dirs \X (0..CounterMax),
               body : {Encode(f) : f \in AllFrames}]

TypeOK ==
  /\ hs \in [Conns -> {"none", "hello", "answered", "keyed", "told", "refused"}]
  /\ version \in [Conns -> Versions] /\ psk \in [Conns -> Psks]
  /\ heard \in [Conns -> {NoNonce} \cup {ClientNonce(c) : c \in Conns}]
  /\ seen \in [Conns -> {NoNonce} \cup {ServerNonce(c) : c \in Conns}]
  /\ counter \in [Conns -> [Dirs -> 0..CounterMax]] /\ next \in [Conns -> [Dirs -> Nat]]
  /\ sealed \in [Conns -> [Dirs -> Seq(RecordType)]]
  /\ said \in [Conns -> [Dirs -> Seq(AllFrames)]]
  /\ opened \in [Conns -> [Dirs -> Seq(AllFrames)]]
  /\ failed \in [Conns -> [Dirs -> {"no", "length", "record", "frame"}]]

\* crypto.rs: "reconnects never reuse a (key, nonce) pair".  Nor do the two
\* directions, nor a counter at its limit.
NonceOnce ==
  \A c, e \in Conns, d, h \in Dirs : \A i \in DOMAIN sealed[c][d], j \in DOMAIN sealed[e][h] :
    /\ sealed[c][d][i].key = sealed[e][h][j].key
    /\ sealed[c][d][i].nonce = sealed[e][h][j].nonce
    => c = e /\ d = h /\ i = j

\* Whatever the network does, what is read in a direction is the first of what
\* was written in it, frame for frame.
InOrder == \A c \in Conns, d \in Dirs : IsPrefix(opened[c][d], said[c][d])

\* Records under keys and nonces, on a network that may hand over any of them at any
\* time, come to pipes between ends that share the session's key.
Pipe == INSTANCE Pipes WITH Contents <- AllFrames, put <- said, got <- opened,
                            shared <- [c \in Conns |-> psk[c] = Psk]

ImplementsPipes == Pipe!Spec

\* An end never writes what the other end does not take: no record is too long for
\* its reader, and no frame decodes to none or is a surprise.
FramesTaken == \A c \in Conns, d \in Dirs : failed[c][d] \notin {"frame", "length"}

\* An old or wrong key gets no further than the first record.
WrongKeyOpensNothing ==
  \A c \in Conns : psk[c] # Psk => \A d \in Dirs : opened[c][d] = << >>
=============================================================================
