------------------------------ MODULE Heartbeat ------------------------------
(***************************************************************************)
(* The pings of one connection, and everything they can hold up: the four  *)
(* tasks client_reader, client_writer (client/session.rs), server_reader   *)
(* and server_writer (server/daemon.rs), the pong channel between each     *)
(* reader and its writer, and the socket in both directions.  Each of the  *)
(* four waits somewhere for another of them, in a circle.                  *)
(*                                                                         *)
(* A frame is its kind; Input has the bytes that are typed and Replay      *)
(* those of the output.                                                    *)
(***************************************************************************)
EXTENDS Naturals, Sequences

CONSTANTS PongRoom,    \* room in a pong channel (8)
          SocketRoom,  \* bound: frames on their way in one direction
          MaxKeys,     \* bound: keys typed
          MaxOutput,   \* bound: times the shell writes, unless...
          Endless,     \* ... it never stops
          Backlog      \* assumption: the daemon's Pings that may be unanswered at once

ASSUME HeartbeatAssumption ==
  /\ PongRoom \in Nat \ {0} /\ SocketRoom \in Nat \ {0}
  /\ MaxKeys \in Nat /\ MaxOutput \in Nat /\ Endless \in BOOLEAN /\ Backlog \in Nat

VARIABLES
  \* client
  typed,   \* keys typed
  taken,   \* those client_writer has taken
  asked,   \* whether the detach keys follow them
  left,    \* whether the client has detached
  cw,      \* the frames client_writer is writing; in its select! if none
  cr,      \* client_reader: "read", "show" or "pong" (a pong to hand over)
  cpong,   \* pongs in the client's channel
  \* socket
  up, down,
  \* daemon
  given,   \* keys handed to the PTY
  sr,      \* server_reader: "read" or "pong"
  spong,   \* pongs in the daemon's channel
  sw,      \* server_writer: "top", "wait", or the frame it is writing
  data,    \* whether there is output past its cursor
  outs,    \* times the shell has written
  unanswered \* history: its Pings to which client_writer has not turned yet

clientVars == <<typed, taken, asked, left, cw, cr, cpong>>
serverVars == <<given, sr, spong, sw, data, outs, unanswered>>
vars == <<clientVars, up, down, serverVars>>

-----------------------------------------------------------------------------
(* The terminal and the shell.                                             *)

Type ==
  /\ ~asked /\ typed < MaxKeys
  /\ typed' = typed + 1
  /\ UNCHANGED <<taken, asked, left, cw, cr, cpong, up, down, serverVars>>

Ask ==
  /\ ~asked /\ asked' = TRUE
  /\ UNCHANGED <<typed, taken, left, cw, cr, cpong, up, down, serverVars>>

Produce ==
  /\ ~data /\ data' = TRUE
  /\ \/ Endless /\ UNCHANGED outs
     \/ ~Endless /\ outs < MaxOutput /\ outs' = outs + 1
  /\ UNCHANGED <<clientVars, up, down, given, sr, spong, sw, unanswered>>

-----------------------------------------------------------------------------
(* client_writer.                                                          *)

Selecting == ~left /\ cw = << >>

Take ==
  /\ Selecting /\ taken < typed
  /\ taken' = taken + 1 /\ cw' = <<"key">>
  /\ UNCHANGED <<typed, asked, left, cr, cpong, up, down, serverVars>>

Detach ==
  /\ Selecting /\ taken = typed /\ asked
  /\ left' = TRUE
  /\ UNCHANGED <<typed, taken, asked, cw, cr, cpong, up, down, serverVars>>

AnswerPing ==
  /\ Selecting /\ cpong > 0
  /\ cpong' = cpong - 1 /\ cw' = <<"pong">>
  /\ unanswered' = unanswered - 1
  /\ UNCHANGED <<typed, taken, asked, left, cr, up, down, given, sr, spong, sw, data, outs>>

\* Every 3 s, the next one counted from this one.
Tick ==
  /\ Selecting
  /\ cw' = <<"ack", "ping">>
  /\ UNCHANGED <<typed, taken, asked, left, cr, cpong, up, down, serverVars>>

Write ==
  /\ ~left /\ cw # << >> /\ Len(up) < SocketRoom
  /\ up' = Append(up, Head(cw)) /\ cw' = Tail(cw)
  /\ UNCHANGED <<typed, taken, asked, left, cr, cpong, down, serverVars>>

-----------------------------------------------------------------------------
(* client_reader.                                                          *)

\* A bug: a Pong is answered like a Ping.
ReceiveEchoes ==
  /\ ~left /\ cr = "read" /\ down # << >>
  /\ down' = Tail(down)
  /\ cr' = IF Head(down) = "output" THEN "show" ELSE "pong"
  /\ UNCHANGED <<typed, taken, asked, left, cw, cpong, up, serverVars>>

Receive ==
  /\ ~left /\ cr = "read" /\ down # << >>
  /\ down' = Tail(down)
  /\ cr' = CASE Head(down) = "output" -> "show"
             [] Head(down) = "ping"   -> "pong"
             [] Head(down) = "pong"   -> "read"
  /\ UNCHANGED <<typed, taken, asked, left, cw, cpong, up, serverVars>>

Show ==
  /\ ~left /\ cr = "show" /\ cr' = "read"
  /\ UNCHANGED <<typed, taken, asked, left, cw, cpong, up, down, serverVars>>

HandPong ==
  /\ ~left /\ cr = "pong" /\ cpong < PongRoom
  /\ cpong' = cpong + 1 /\ cr' = "read"
  /\ UNCHANGED <<typed, taken, asked, left, cw, up, down, serverVars>>

-----------------------------------------------------------------------------
(* server_reader.                                                          *)

Read ==
  /\ sr = "read" /\ up # << >>
  /\ up' = Tail(up)
  /\ given' = IF Head(up) = "key" THEN given + 1 ELSE given
  /\ sr' = IF Head(up) = "ping" THEN "pong" ELSE "read"
  /\ UNCHANGED <<clientVars, down, spong, sw, data, outs, unanswered>>

\* A bug: pong_tx.send does not wait for room.
OweAnyway ==
  /\ sr = "pong"
  /\ spong' = spong + 1 /\ sr' = "read"
  /\ UNCHANGED <<clientVars, up, down, given, sw, data, outs, unanswered>>

\* pong_tx.send, which waits for room.
OwePong ==
  /\ sr = "pong" /\ spong < PongRoom
  /\ spong' = spong + 1 /\ sr' = "read"
  /\ UNCHANGED <<clientVars, up, down, given, sw, data, outs, unanswered>>

-----------------------------------------------------------------------------
(* server_writer.                                                          *)

\* Its loop writes output for as long as there is some...
Drain ==
  /\ sw = "top" /\ data
  /\ data' = FALSE /\ sw' = "output"
  /\ UNCHANGED <<clientVars, up, down, given, sr, spong, outs, unanswered>>

\* ... and comes to its select! only when there is none.
LooksEmpty ==
  /\ sw = "top" /\ ~data
  /\ sw' = "wait"
  /\ UNCHANGED <<clientVars, up, down, given, sr, spong, data, outs, unanswered>>

Notified ==
  /\ sw = "wait" /\ data
  /\ sw' = "top"
  /\ UNCHANGED <<clientVars, up, down, given, sr, spong, data, outs, unanswered>>

\* A bug: pongs go out with the next output.
AnswerLater ==
  /\ sw = "wait" /\ spong > 0 /\ data
  /\ spong' = spong - 1 /\ sw' = "pong"
  /\ UNCHANGED <<clientVars, up, down, given, sr, data, outs, unanswered>>

Answer ==
  /\ sw = "wait" /\ spong > 0
  /\ spong' = spong - 1 /\ sw' = "pong"
  /\ UNCHANGED <<clientVars, up, down, given, sr, data, outs, unanswered>>

\* WRITER_TICK, 5 s counted afresh at every select!.  It does not ask what has
\* become of earlier Pings: they may be held up by the network, by a terminal
\* that does not take the output before them, or by a client that is suspended.
ServerTick ==
  /\ sw = "wait" /\ unanswered < Backlog
  /\ sw' = "ping" /\ unanswered' = unanswered + 1
  /\ UNCHANGED <<clientVars, up, down, given, sr, spong, data, outs>>

Send ==
  /\ sw \in {"output", "pong", "ping"} /\ Len(down) < SocketRoom
  /\ down' = Append(down, sw) /\ sw' = "top"
  /\ UNCHANGED <<clientVars, up, given, sr, spong, data, outs, unanswered>>

-----------------------------------------------------------------------------
Init ==
  /\ typed = 0 /\ taken = 0 /\ asked = FALSE /\ left = FALSE
  /\ cw = << >> /\ cr = "read" /\ cpong = 0
  /\ up = << >> /\ down = << >>
  /\ given = 0 /\ sr = "read" /\ spong = 0 /\ sw = "top" /\ data = FALSE /\ outs = 0
  /\ unanswered = 0

Next == \/ Type \/ Ask \/ Produce
        \/ Take \/ Detach \/ AnswerPing \/ Tick \/ Write
        \/ Receive \/ Show \/ HandPong
        \/ Read \/ OwePong
        \/ Drain \/ LooksEmpty \/ Notified \/ Answer \/ ServerTick \/ Send

Spec == Init /\ [][Next]_vars

\* Tasks go on, and a select! draws among the branches that are ready.  Nothing
\* makes the user type or the shell write or pause.
FairSpec ==
  /\ Spec
  /\ SF_vars(Take \/ Detach) /\ SF_vars(AnswerPing) /\ SF_vars(Tick) /\ WF_vars(Write)
  /\ WF_vars(Receive) /\ WF_vars(Show) /\ WF_vars(HandPong)
  /\ WF_vars(Read) /\ WF_vars(OwePong)
  /\ WF_vars(Drain) /\ WF_vars(LooksEmpty) /\ WF_vars(Notified) /\ SF_vars(Answer)
  /\ WF_vars(ServerTick) /\ WF_vars(Send)

-----------------------------------------------------------------------------
(* Correctness.                                                            *)

TypeOK ==
  /\ typed \in 0..MaxKeys /\ taken \in 0..typed /\ asked \in BOOLEAN /\ left \in BOOLEAN
  /\ cw \in Seq({"key", "pong", "ack", "ping"}) /\ Len(cw) <= 2
  /\ cr \in {"read", "show", "pong"} /\ cpong \in 0..PongRoom
  /\ up \in Seq({"key", "pong", "ack", "ping"}) /\ Len(up) <= SocketRoom
  /\ down \in Seq({"output", "pong", "ping"}) /\ Len(down) <= SocketRoom
  /\ given \in 0..taken /\ sr \in {"read", "pong"} /\ spong \in 0..PongRoom
  /\ sw \in {"top", "wait", "output", "pong", "ping"} /\ data \in BOOLEAN /\ outs \in 0..MaxOutput
  /\ unanswered \in 0..Backlog

\* The four tasks never all wait for one another: client_reader for room in its
\* pong channel, client_writer and server_writer for room in the socket,
\* server_reader for room in its pong channel.
NoStandstill ==
  ~ /\ cr = "pong" /\ cpong = PongRoom
    /\ cw # << >> /\ Len(up) = SocketRoom
    /\ sr = "pong" /\ spong = PongRoom
    /\ sw \in {"output", "pong", "ping"} /\ Len(down) = SocketRoom

\* README: "press `Ctrl-\` then `d` to detach".
DetachWorks == asked ~> left

\* Pings, whatever comes between, hold up neither the detach keys nor any other
\* key, which reaches the PTY unless the client leaves.
NothingHeldUp == DetachWorks /\ \A n \in 1..MaxKeys : typed >= n ~> left \/ given >= n
=============================================================================
