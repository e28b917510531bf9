-------------------------------- MODULE Replay --------------------------------
(***************************************************************************)
(* One session's output on its way from the shell to the user's terminal:  *)
(*                                                                         *)
(*   shell -> PTY -> reader thread -> replay ring -> server_writer task    *)
(*         -> TCP -> client_reader -> SessionOutput::accept -> terminal    *)
(*                                                                         *)
(* with the threads of server/session.rs, the handshake and the writer of  *)
(* server/daemon.rs and the client of client/session.rs, over a network    *)
(* that drops the connection at any moment and loses what is in flight.    *)
(*                                                                         *)
(* A byte of output is its offset in the PTY's output.  The client has one *)
(* connection at a time; the server task of a connection the client has    *)
(* given up writes to a dead socket, so it is dropped from this model (its *)
(* effect on the session's epoch, busy flag and input is in SessionState). *)
(* Input, Resize, Ping, Pong and Ack frames carry no output and are left   *)
(* out, the wakeups they cause are WriterTicks.                            *)
(***************************************************************************)
EXTENDS RingBuf

CONSTANTS MaxRead,       \* the most one read of the PTY returns (8192)
          MaxWire,       \* frames the socket buffers hold before a write waits
          MaxWritten,    \* bound: bytes the shell writes
          MaxCuts,       \* bound: connections lost, refused or left by the server
          MaxClients     \* bound: client processes, the first included

ASSUME ReplayAssumption == /\ MaxRead \in Nat \ {0}
                           /\ MaxWire \in Nat \ {0}
                           /\ MaxWritten \in Nat
                           /\ MaxCuts \in Nat
                           /\ MaxClients \in Nat \ {0}

VARIABLES
  \* the PTY
  written,      \* bytes the shell side has written to the PTY
  slaves,       \* whether some process still has the PTY's slave side open
  child,        \* whether the shell process runs
  owed,         \* history: how much it had written when it exited, 0 before
  \* the session (SessionShared) and its threads
  taken,        \* bytes the reader thread has read, all appended to the ring
  ring,
  ended,
  thread,       \* where the reader and the reaper thread are
  \* the connection's task on the server
  srv,          \* where handle_tcp / server_writer is
  cursor,
  out,          \* the frame server_writer is writing
  woken,        \* whether its registered wakeup has fired
  \* the connection
  link,
  hello,        \* the offset in the client's hello
  reply,        \* the server's answer
  replyTotal,   \* the total in an accepting answer
  wire,         \* frames the server has written and the client not read
  \* the client process
  cli,          \* where drive / connect_once / client_reader is
  received,     \* the committed offset, the one state kept across connections
  cur,          \* the Output frame SessionOutput::accept is working on
  stop,         \* the outcome client_writer has returned with
  established,  \* established_once
  shown,        \* bytes written to this client's terminal
  reported,     \* offsets its terminal was told are unavailable
  \* bounds
  cuts, clients

ptyVars     == <<written, slaves, child, owed>>
sessionVars == <<taken, ring, ended, thread>>
writerVars  == <<srv, cursor, out, woken>>
linkVars    == <<link, hello, reply, replyTotal, wire>>
clientVars  == <<cli, received, cur, stop, established, shown, reported>>
boundVars   == <<cuts, clients>>
vars == <<ptyVars, sessionVars, writerVars, linkVars, clientVars, boundVars>>

Threads == {"reader", "reaper"}

\* The terminal states of a client process: what drive returned with.
Stopped == {"ended", "detached", "failed", "gone", "badoffset"}
Accepting == {"gap", "write", "flush"}     \* inside SessionOutput::accept
Connected == {"read"} \cup Accepting       \* inside client_reader

OutputFrame(offset, data) == [kind |-> "output", offset |-> offset, data |-> data]
\* The offset of an Ended frame is not sent: it is where the writer's cursor was.
EndedFrame(offset) == [kind |-> "ended", offset |-> offset, data |-> << >>]
EndOf(f) == f.offset + Len(f.data)
NoFrame == OutputFrame(0, << >>)

\* Bytes lo..hi-1 of the output.
Bytes(lo, hi) == [i \in 1..(hi - lo) |-> lo + i - 1]
From(s, n) == SubSeq(s, n, Len(s))

-----------------------------------------------------------------------------
(* The shell and the session's threads.                                    *)

ShellWrites ==
  /\ slaves /\ written < MaxWritten
  /\ written' = written + 1
  /\ UNCHANGED <<slaves, child, owed, sessionVars, writerVars, linkVars,
                 clientVars, boundVars>>

ShellExits ==
  /\ child
  /\ child' = FALSE
  /\ owed' = written
  /\ UNCHANGED <<written, slaves, sessionVars, writerVars, linkVars,
                 clientVars, boundVars>>

\* The shell's descriptors close with it; a process it left behind may hold
\* the PTY longer, and go on writing.
SlavesClose ==
  /\ ~child /\ slaves
  /\ slaves' = FALSE
  /\ UNCHANGED <<written, child, owed, sessionVars, writerVars, linkVars,
                 clientVars, boundVars>>

\* The reader thread: one read of the PTY is appended under the ring's lock...
ReaderAppends ==
  /\ thread["reader"] = "run"
  /\ \E n \in 1..Smaller(MaxRead, written - taken) :
        /\ ring' = AppendTo(ring, Bytes(taken, taken + n))
        /\ taken' = taken + n
  /\ thread' = [thread EXCEPT !["reader"] = "notify"]
  /\ UNCHANGED <<ended, ptyVars, writerVars, linkVars, clientVars, boundVars>>

\* A bug: output is buffered and nobody is told.
ReaderSilent ==
  /\ thread["reader"] = "notify"
  /\ thread' = [thread EXCEPT !["reader"] = "run"]
  /\ UNCHANGED <<taken, ring, ended, ptyVars, srv, cursor, out, woken, linkVars,
                 clientVars, boundVars>>

\* ... and the connection's task is woken afterwards.
ReaderNotifies ==
  /\ thread["reader"] = "notify"
  /\ woken' = TRUE
  /\ thread' = [thread EXCEPT !["reader"] = "run"]
  /\ UNCHANGED <<taken, ring, ended, ptyVars, srv, cursor, out, linkVars,
                 clientVars, boundVars>>

\* The reader thread at end of file, the reaper when the shell has exited.
Finished(t) == IF t = "reader" THEN taken = written /\ ~slaves ELSE ~child

\* mark_ended: the first thread to swap the flag...
MarkEnded(t) ==
  /\ thread[t] = "run" /\ Finished(t)
  /\ ended' = TRUE
  /\ thread' = [thread EXCEPT ![t] = IF ended THEN "done" ELSE "tell"]
  /\ UNCHANGED <<taken, ring, ptyVars, writerVars, linkVars, clientVars, boundVars>>

\* A bug: the session ends and the connection's task is not told.
TellNobody(t) ==
  /\ thread[t] = "tell"
  /\ thread' = [thread EXCEPT ![t] = "done"]
  /\ UNCHANGED <<taken, ring, ended, ptyVars, writerVars, linkVars, clientVars,
                 boundVars>>

\* ... goes on to wake the connection's task and to leave the registry.
Tell(t) ==
  /\ thread[t] = "tell"
  /\ woken' = TRUE
  /\ thread' = [thread EXCEPT ![t] = "done"]
  /\ UNCHANGED <<taken, ring, ended, ptyVars, srv, cursor, out, linkVars,
                 clientVars, boundVars>>

-----------------------------------------------------------------------------
(* Connecting: connect_once on the client, handle_tcp on the server.       *)

\* drive, after its backoff delay: connect and send the hello with the
\* committed offset.
Dial ==
  /\ cli = "dial"
  /\ cli' = "hello"
  /\ link' = "up" /\ hello' = received /\ reply' = "none" /\ wire' = << >>
  /\ srv' = "hello"
  /\ UNCHANGED <<ptyVars, sessionVars, cursor, out, woken, replyTotal,
                 received, cur, stop, established, shown, reported, boundVars>>

\* A bug: an offset equal to the total is taken for one beyond it.
ServerHelloStrict ==
  /\ srv = "hello"
  /\ reply' = IF ended THEN "nosession"
              ELSE IF hello >= Total(ring) THEN "badoffset" ELSE "ok"
  /\ srv' = IF reply' = "ok" THEN "auth" ELSE "closed"
  /\ replyTotal' = Total(ring)
  /\ UNCHANGED <<ptyVars, sessionVars, cursor, out, woken, link, hello, wire,
                 clientVars, boundVars>>

\* handle_tcp up to its answer.  An ended session has left the registry.
ServerHello ==
  /\ srv = "hello"
  /\ reply' = IF ended THEN "nosession"
              ELSE IF hello > Total(ring) THEN "badoffset" ELSE "ok"
  /\ srv' = IF reply' = "ok" THEN "auth" ELSE "closed"
  /\ replyTotal' = Total(ring)
  /\ UNCHANGED <<ptyVars, sessionVars, cursor, out, woken, link, hello, wire,
                 clientVars, boundVars>>

\* The client reads an accepting answer, and sends its Hello frame.
ClientHello ==
  /\ cli = "hello" /\ reply = "ok" /\ hello <= replyTotal
  /\ cli' = "auth"
  /\ UNCHANGED <<ptyVars, sessionVars, writerVars, linkVars, received, cur,
                 stop, established, shown, reported, boundVars>>

\* The server opens the client's Hello frame, answers it, becomes the active
\* connection and starts its writer at the offset of the hello.
ServerAuth ==
  /\ srv = "auth" /\ cli = "auth"
  /\ reply' = "hello"
  /\ srv' = "top" /\ cursor' = hello
  /\ UNCHANGED <<ptyVars, sessionVars, out, woken, link, hello, replyTotal,
                 wire, clientVars, boundVars>>

ClientEnter ==
  /\ cli = "auth" /\ reply = "hello"
  /\ cli' = "read"
  /\ UNCHANGED <<ptyVars, sessionVars, writerVars, linkVars, received, cur,
                 stop, established, shown, reported, boundVars>>

\* drive on an error: final before the first connection, a blip after it.
AfterError == IF established THEN "dial" ELSE "failed"

\* handle_tcp's task is over, or has nobody left to talk to.
TaskGone == srv' = "none" /\ cursor' = 0 /\ out' = NoFrame /\ woken' = FALSE

\* The client is done with this connection, and with the locals of connect_once.
HangUp(next) ==
  /\ cli' = next /\ cur' = NoFrame /\ stop' = "none"
  /\ link' = "down" /\ wire' = << >>
  /\ hello' = 0 /\ reply' = "none" /\ replyTotal' = 0
  /\ TaskGone
  /\ UNCHANGED <<ptyVars, sessionVars>>

\* A Rejection, by the server or of the server's total, is final.
ClientRejected ==
  /\ cli = "hello"
  /\ \/ reply = "nosession" /\ HangUp("gone")
     \/ reply = "badoffset" /\ HangUp("badoffset")
     \/ reply = "ok" /\ hello > replyTotal /\ HangUp("badoffset")
  /\ UNCHANGED <<received, established, shown, reported, boundVars>>

\* The connection is lost before connect_once has entered its two loops.
HandshakeFails ==
  /\ cli \in {"hello", "auth"}
  /\ link = "cut" \/ (srv = "closed" /\ reply = "hello")
  /\ HangUp(AfterError)
  /\ UNCHANGED <<received, established, shown, reported, boundVars>>

\* The server cannot be reached.
DialFails ==
  /\ cli = "dial" /\ cuts < MaxCuts
  /\ cuts' = cuts + 1
  /\ HangUp(AfterError)
  /\ UNCHANGED <<received, established, shown, reported, clients>>

-----------------------------------------------------------------------------
(* server_writer.                                                          *)

writerFrame == UNCHANGED <<ptyVars, sessionVars, link, hello, reply, replyTotal,
                           clientVars, boundVars>>

\* The wakeup is registered before the ring is read.
WriterTop ==
  /\ srv = "top"
  /\ woken' = FALSE /\ srv' = "read"
  /\ UNCHANGED <<cursor, out, wire>> /\ writerFrame

\* The task ends early: is_current fails at the top of the loop, since another
\* connection became active, or server_reader has ended (no frame for READ_IDLE,
\* an unreadable one) while the writer awaits, in the middle of a frame or not.
ServerLeaves ==
  /\ srv \in {"top", "send", "bye", "wait"} /\ cuts < MaxCuts
  /\ cuts' = cuts + 1
  /\ srv' = "closed" /\ out' = NoFrame
  /\ UNCHANGED <<ptyVars, sessionVars, cursor, woken, linkVars, clientVars,
                 clients>>

\* The cursor moves past the chunk before the chunk is written.
WriterRead ==
  /\ srv = "read"
  /\ LET chunk == ReadFrom(ring, cursor)
     IN  IF chunk.data # << >> \/ chunk.offset > cursor
         THEN /\ out' = OutputFrame(chunk.offset, chunk.data)
              /\ cursor' = EndOf(out')
              /\ srv' = "send"
         ELSE srv' = "check" /\ UNCHANGED <<cursor, out>>
  /\ UNCHANGED <<woken, wire>> /\ writerFrame

\* A bug: nothing holds the writer back when the socket's buffers are full.
WriterSendsAhead ==
  /\ srv = "send" /\ Len(wire) <= MaxWire
  /\ wire' = Append(wire, out) /\ srv' = "top" /\ out' = NoFrame
  /\ UNCHANGED <<cursor, woken>> /\ writerFrame

\* write_frame waits while the socket's buffers are full.
WriterSend ==
  /\ srv = "send" /\ Len(wire) < MaxWire
  /\ wire' = Append(wire, out) /\ srv' = "top" /\ out' = NoFrame
  /\ UNCHANGED <<cursor, woken>> /\ writerFrame

\* A bug: the wakeup is registered only when the writer is about to wait.
WriterRegistersLate ==
  /\ srv = "check"
  /\ srv' = (IF ended THEN "bye" ELSE "wait") /\ woken' = FALSE
  /\ UNCHANGED <<cursor, out, wire>> /\ writerFrame

\* Nothing to send: say so if the session has ended, or wait.
WriterCheck ==
  /\ srv = "check"
  /\ srv' = IF ended THEN "bye" ELSE "wait"
  /\ UNCHANGED <<cursor, out, woken, wire>> /\ writerFrame

WriterBye ==
  /\ srv = "bye" /\ Len(wire) < MaxWire
  /\ wire' = Append(wire, EndedFrame(cursor)) /\ srv' = "closed"
  /\ UNCHANGED <<cursor, out, woken>> /\ writerFrame

WriterWakes ==
  /\ srv = "wait" /\ woken
  /\ srv' = "top"
  /\ UNCHANGED <<cursor, out, woken, wire>> /\ writerFrame

\* The tick, and a pong to send, also go round the loop.
WriterTicks ==
  /\ srv = "wait"
  /\ srv' = "top"
  /\ UNCHANGED <<cursor, out, woken, wire>> /\ writerFrame

-----------------------------------------------------------------------------
(* The network.                                                            *)

\* The connection is lost, with a part of what was in flight.
Cut ==
  /\ link = "up" /\ cuts < MaxCuts
  /\ cuts' = cuts + 1
  /\ link' = "cut" /\ TaskGone
  /\ \/ \E n \in 0..Len(wire) : wire' = SubSeq(wire, 1, n) /\ UNCHANGED reply
     \/ cli \in {"hello", "auth"} /\ reply' = "none" /\ wire' = << >>
  /\ UNCHANGED <<ptyVars, sessionVars, hello, replyTotal, clientVars, clients>>

-----------------------------------------------------------------------------
(* The client: client_reader, SessionOutput::accept, and drive around them. *)

clientFrame == UNCHANGED <<ptyVars, sessionVars, writerVars, link, hello, reply,
                           replyTotal, boundVars>>

\* A bug: a gap is skipped over without the notice.
ClientFrameMute ==
  /\ cli = "read" /\ stop = "none" /\ wire # << >>
  /\ LET f == Head(wire)
     IN  /\ f.kind = "output"
         /\ cur' = f
         /\ cli' = IF EndOf(f) <= received THEN "read" ELSE "write"
  /\ wire' = Tail(wire)
  /\ UNCHANGED <<received, stop, established, shown, reported>> /\ clientFrame

\* An Output frame: dropped when nothing in it is new, announced when it
\* starts beyond the committed offset.
ClientFrame ==
  /\ cli = "read" /\ stop = "none" /\ wire # << >>
  /\ LET f == Head(wire)
     IN  /\ f.kind = "output"
         /\ cur' = f
         /\ cli' = CASE EndOf(f) <= received -> "read"
                     [] EndOf(f) > received /\ f.offset > received -> "gap"
                     [] OTHER -> "write"
  /\ wire' = Tail(wire)
  /\ UNCHANGED <<received, stop, established, shown, reported>> /\ clientFrame

ClientNotice ==
  /\ cli = "gap"
  /\ reported' = reported \cup received..(cur.offset - 1)
  /\ cli' = "write"
  /\ UNCHANGED <<wire, received, cur, stop, established, shown>> /\ clientFrame

\* The bytes of the frame that the terminal has not had.
Fresh == From(cur.data, (IF received > cur.offset THEN received - cur.offset ELSE 0) + 1)

ClientWrite ==
  /\ cli = "write"
  /\ shown' = shown \o Fresh
  /\ cli' = "flush"
  /\ UNCHANGED <<wire, received, cur, stop, established, reported>> /\ clientFrame

ClientCommit ==
  /\ cli = "flush"
  /\ received' = EndOf(cur)
  /\ cli' = "read" /\ cur' = NoFrame
  /\ UNCHANGED <<wire, stop, established, shown, reported>> /\ clientFrame

\* The terminal cannot be written: some of the bytes may have reached it.
OutputFails ==
  /\ cli \in Accepting
  /\ \E n \in 0..(IF cli = "write" THEN Len(Fresh) ELSE 0) :
        shown' = shown \o SubSeq(Fresh, 1, n)
  /\ HangUp("failed")
  /\ UNCHANGED <<received, established, reported, boundVars>>

\* client_writer returns: the user detaches or closes stdin, or a write fails.
WriterStops(outcome) ==
  /\ cli \in Connected /\ stop = "none"
  /\ outcome = "disconnected" => link = "cut" \/ srv = "closed"
  /\ stop' = outcome
  /\ UNCHANGED <<wire, cli, received, cur, established, shown, reported>>
  /\ clientFrame

\* A bug: the reader is dropped between the write and the commit of its offset.
ReaderStopsAnywhere ==
  /\ cli \in {"read", "flush"} /\ stop # "none"
  /\ established' = (established \/ stop = "disconnected")
  /\ HangUp(IF stop = "detached" THEN "detached" ELSE "dial")
  /\ UNCHANGED <<received, shown, reported, boundVars>>

\* The reader sees the stop only where it waits for a frame, and there first.
ReaderStops ==
  /\ cli = "read" /\ stop # "none"
  /\ established' = (established \/ stop = "disconnected")
  /\ HangUp(IF stop = "detached" THEN "detached" ELSE "dial")
  /\ UNCHANGED <<received, shown, reported, boundVars>>

\* The reader meets the end of the connection.
ReaderDisconnected ==
  /\ cli = "read" /\ stop = "none" /\ wire = << >>
  /\ link = "cut" \/ srv = "closed"
  /\ established' = TRUE
  /\ HangUp("dial")
  /\ UNCHANGED <<received, shown, reported, boundVars>>

\* The reader meets the Ended frame.
ReaderEnded ==
  /\ cli = "read" /\ stop = "none" /\ wire # << >> /\ Head(wire).kind = "ended"
  /\ HangUp("ended")
  /\ UNCHANGED <<received, established, shown, reported, boundVars>>

\* The client process is killed.
Killed ==
  /\ cli \notin Stopped
  /\ HangUp("failed")
  /\ UNCHANGED <<received, established, shown, reported, boundVars>>

\* thther attach: a new client process, whose offset starts at 0.
Attach ==
  /\ cli \in Stopped /\ ~ended /\ clients < MaxClients
  /\ clients' = clients + 1
  /\ HangUp("dial")
  /\ received' = 0 /\ established' = FALSE /\ shown' = << >> /\ reported' = {}
  /\ UNCHANGED cuts

-----------------------------------------------------------------------------
Init ==
  /\ written = 0 /\ slaves = TRUE /\ child = TRUE /\ owed = 0
  /\ taken = 0 /\ ring = EmptyRing /\ ended = FALSE
  /\ thread = [t \in Threads |-> "run"]
  /\ srv = "none" /\ cursor = 0 /\ out = NoFrame /\ woken = FALSE
  /\ link = "down" /\ hello = 0 /\ reply = "none" /\ replyTotal = 0 /\ wire = << >>
  /\ cli = "dial" /\ received = 0 /\ cur = NoFrame /\ stop = "none"
  /\ established = FALSE /\ shown = << >> /\ reported = {}
  /\ cuts = 0 /\ clients = 1

Shell == ShellWrites \/ ShellExits \/ SlavesClose

ThreadStep(t) == \/ t = "reader" /\ (ReaderAppends \/ ReaderNotifies)
                 \/ MarkEnded(t)
                 \/ Tell(t)

ServerStep == \/ ServerHello \/ ServerAuth
              \/ WriterTop \/ WriterRead \/ WriterSend \/ WriterCheck
              \/ WriterBye \/ WriterWakes

ClientStep == \/ Dial \/ ClientHello \/ ClientRejected \/ ClientEnter
              \/ HandshakeFails
              \/ ClientFrame \/ ClientNotice \/ ClientWrite \/ ClientCommit
              \/ ReaderStops \/ ReaderDisconnected \/ ReaderEnded

\* What the environment may do and need not: the user, the network, the tick.
Environment == \/ WriterTicks \/ ServerLeaves \/ Cut \/ DialFails
               \/ OutputFails \/ Killed \/ Attach
               \/ \E o \in {"detached", "disconnected"} : WriterStops(o)

Next == \/ Shell
        \/ \E t \in Threads : ThreadStep(t)
        \/ ServerStep
        \/ ClientStep
        \/ Environment

Spec == Init /\ [][Next]_vars

\* Every thread and task takes its next step; nothing makes the user, the
\* shell, the network or the tick do anything.
FairSpec == /\ Spec
            /\ \A t \in Threads : WF_vars(ThreadStep(t))
            /\ WF_vars(ServerStep)
            /\ WF_vars(ClientStep)

-----------------------------------------------------------------------------
(* Correctness.                                                            *)

Frame == [kind : {"output", "ended"}, offset : Nat, data : Seq(Nat)]

PtyType == written \in Nat /\ owed \in Nat /\ slaves \in BOOLEAN /\ child \in BOOLEAN

SessionType ==
  /\ taken \in Nat /\ ended \in BOOLEAN
  /\ ring \in [data : Seq(Nat), start : Nat] /\ Len(ring.data) <= RingBytes
  /\ thread \in [Threads -> {"run", "notify", "tell", "done"}]

WriterType ==
  /\ srv \in {"none", "hello", "auth", "top", "read", "send", "check", "wait",
              "bye", "closed"}
  /\ cursor \in Nat /\ woken \in BOOLEAN /\ out \in Frame

LinkType ==
  /\ link \in {"down", "up", "cut"} /\ hello \in Nat /\ replyTotal \in Nat
  /\ reply \in {"none", "ok", "hello", "nosession", "badoffset"}
  /\ wire \in Seq(Frame) /\ Len(wire) <= MaxWire

ClientType ==
  /\ cli \in {"dial", "hello", "auth"} \cup Connected \cup Stopped
  /\ stop \in {"none", "detached", "disconnected"} /\ established \in BOOLEAN
  /\ received \in Nat /\ cur \in Frame
  /\ shown \in Seq(Nat) /\ reported \in SUBSET Nat

\* The types of the variables, and the limits on what is buffered: the ring
\* holds RingBytes bytes, the socket MaxWire frames.
TypeOK == /\ PtyType /\ SessionType /\ WriterType /\ LinkType /\ ClientType
          /\ cuts \in 0..MaxCuts /\ clients \in 1..MaxClients

\* The ring that retains the last RingBytes of n bytes of output.
LastBytes(n) == [data |-> Bytes(Excess(n), n), start |-> Excess(n)]

\* RingBuf: whatever the sizes of the reads, the ring is the last RingBytes
\* bytes of the output, and its start is the offset of the first of them.
RetainsTail == ring = LastBytes(taken)

ShownBytes == {shown[i] : i \in 1..Len(shown)}

\* README: "every output line arrives exactly once".  Across reconnects at any
\* point, interrupted accepts and evictions, the terminal shows each byte at
\* most once and in order, and none that it was told is unavailable.
ExactlyOnceInOrder ==
  /\ \A i, j \in 1..Len(shown) : i < j => shown[i] < shown[j]
  /\ ShownBytes \cap reported = {}

\* README: "Missing history is reported".  Below the committed offset, which
\* the next connection resumes from, every byte is shown or reported.
NoSilentLoss ==
  \A p \in 0..(received - 1) : p \in ShownBytes \/ p \in reported

\* A byte is reported unavailable only if the session no longer retains it.
HonestGap == \A p \in reported : p < ring.start

\* A resume is never refused: the offset a client commits is never beyond the
\* total its server holds, nor beyond the total the server announces to it.
ResumeAccepted == reply # "badoffset" /\ cli # "badoffset"

\* server_writer never sleeps over output or over the end of the session: when
\* it waits unwoken, whoever made the change has still to notify it.
NoLostWakeup ==
  srv = "wait" /\ ~woken =>
     /\ cursor < Total(ring) => thread["reader"] = "notify"
     /\ ended => \E t \in Threads : thread[t] = "tell"

\* The whole pipeline implements the output stream the README promises.
Stream == INSTANCE OutputStream WITH Retained <- RingBytes, produced <- taken

ImplementsOutputStream == Stream!Spec

\* What the session has read of the PTY reaches a connected client, once the
\* network stops failing, unless that client stops.  (No tick is needed.)
OutputArrives ==
  \A k \in 1..MaxWritten : taken >= k ~> received >= k \/ cli \in Stopped

\* A client does not outlive its session: it is told of the end, or finds the
\* session gone when it reconnects.
EndReachesClient == ended ~> cli \in Stopped

\* README: "Missing history is reported" and "no loss": a client that is told
\* the session ended has accounted for all the shell wrote before it exited.
EndedAfterAllOutput == cli = "ended" => received >= owed
=============================================================================
