-------------------------------- MODULE Input --------------------------------
(***************************************************************************)
(* The way of what is typed, from stdin to the shell, over connections     *)
(* that break: the stdin thread and client_writer of client/session.rs,    *)
(* server_reader of server/daemon.rs, and the thread that writes the PTY   *)
(* (server/session.rs).                                                    *)
(*                                                                         *)
(* A typed byte is its position, and what was typed there is a plain key,  *)
(* the detach prefix or the detach key; a Data frame is an interval of     *)
(* positions.  The handshake is one step; Replay takes it apart, and has   *)
(* the output.  Heartbeat has the pings, and the channels they can fill.   *)
(* A superseded connection stays: the daemon reads on what was sent on it  *)
(* until its task ends.                                                    *)
(***************************************************************************)
EXTENDS Naturals, Sequences

CONSTANTS MaxTyped,    \* bound: bytes typed
          MaxChunk,    \* bound: bytes in one read of stdin (4096)
          MaxResizes,  \* bound: changes of the terminal's size
          MaxConns,    \* bound: connections
          SocketRoom   \* bound: frames on their way

ASSUME InputAssumption ==
  /\ MaxTyped \in Nat /\ MaxResizes \in Nat /\ MaxConns \in Nat
  /\ MaxChunk \in Nat \ {0} /\ SocketRoom \in Nat \ {0}

Conns == 1..MaxConns
NoConn == 0
Kinds == {"key", "prefix", "d"}

VARIABLES
  \* client process
  typed,   \* what has been typed
  stdin,   \* stdin channel: for each chunk, the position of its last byte
  taken,   \* position up to which client_writer has taken bytes...
  sent,    \* ... and put them in frames; one less while it holds a prefix back
  size,    \* the terminal's size, as the number of times it has changed
  winch,   \* whether a SIGWINCH waits to be received
  conn,    \* its connection, NoConn between two of them
  ended,   \* how it left: "no", "asked" by the detach keys, "closed" stdin
  cout,    \* the frame client_writer is writing, or none
  \* connections
  made,    \* how many there have been
  link,    \* "none", "open" or "cut"
  up,      \* frames on their way to the daemon
  serving, \* whether the task of the connection runs
  \* session
  toPty,   \* messages to the thread that writes the PTY
  pty,     \* the bytes the shell has been given...
  ptySize, \* ... the Resize that set its terminal's size last...
  late,    \* ... and whether a later connection's had been there before it
  \* history
  base,    \* where the input of a connection starts...
  got      \* ... and up to where the daemon has read it

clientVars == <<typed, stdin, taken, sent, size, winch, conn, ended, cout>>
connVars   == <<made, link, up, serving, base, got>>
ptyVars    == <<toPty, pty, ptySize, late>>
vars == <<clientVars, connVars, ptyVars>>

\* A frame; a Resize stands between the bytes it was sent between.
Data(a, b)   == [type |-> "data", from |-> a, to |-> b]
Resize(c, a) == [type |-> "resize", from |-> a, to |-> a, size |-> size, by |-> c]

-----------------------------------------------------------------------------
(* The terminal.                                                           *)

\* The stdin thread reads a chunk and hands it over.
Type ==
  /\ ended = "no"
  /\ \E k \in 1..MaxChunk : \E s \in [1..k -> Kinds] :
       /\ Len(typed) + k <= MaxTyped
       /\ typed' = typed \o s
       /\ stdin' = Append(stdin, Len(typed) + k)
  /\ UNCHANGED <<taken, sent, size, winch, conn, ended, cout, connVars, ptyVars>>

ChangeSize ==
  /\ ended = "no" /\ size < MaxResizes
  /\ size' = size + 1 /\ winch' = TRUE
  /\ UNCHANGED <<typed, stdin, taken, sent, conn, ended, cout, connVars, ptyVars>>

-----------------------------------------------------------------------------
(* client_writer.  Its loop over the bytes of a chunk, as it is written...  *)

\* A bug: a prefix after a prefix is not held back.
StepReleases(was, key) ==
  IF was.detach THEN was
  ELSE [pending |-> key = "prefix" /\ ~was.pending,
        out |-> was.out \o (IF was.pending THEN <<"prefix">> ELSE << >>)
                        \o (IF key = "prefix" THEN << >> ELSE <<key>>),
        detach |-> was.pending /\ key = "d"]

Step(was, key) ==
  IF was.detach THEN was
  ELSE [pending |-> key = "prefix",
        out |-> was.out \o (IF was.pending THEN <<"prefix">> ELSE << >>)
                        \o (IF key = "prefix" THEN << >> ELSE <<key>>),
        detach |-> was.pending /\ key = "d"]

Loop(pending, first, last) ==
  LET l[n \in (first - 1)..last] ==
        IF n < first THEN [pending |-> pending, out |-> << >>, detach |-> FALSE]
        ELSE Step(l[n - 1], typed[n])
  IN  l[last]

\* ... and what it comes to: a prefix and the d that follows it end the session,
\* a prefix that comes last is held back, and all else is passed on.

\* A bug: a prefix held back from the chunk before is not seen.
DetachesInChunk(last) ==
  \E n \in (taken + 1)..(last - 1) : typed[n] = "prefix" /\ typed[n + 1] = "d"

Detaches(last) == \E n \in (sent + 1)..(last - 1) : typed[n] = "prefix" /\ typed[n + 1] = "d"
Passed(last)   == IF typed[last] = "prefix" THEN last - 1 ELSE last

\* In its select!.
Selecting == conn # NoConn /\ cout = << >>

\* A bug: the prefix that was held back is forgotten by the next chunk.
TakeForgets ==
  /\ Selecting /\ stdin # << >> /\ ~ Detaches(Head(stdin))
  /\ stdin' = Tail(stdin)
  /\ taken' = Head(stdin) /\ sent' = Passed(Head(stdin))
  /\ cout' = IF sent' > taken THEN <<Data(taken, sent')>> ELSE << >>
  /\ UNCHANGED <<typed, size, winch, conn, ended, connVars, ptyVars>>

\* A bug: a chunk that ends in a prefix is held back as a whole.
TakeHolds ==
  /\ Selecting /\ stdin # << >> /\ ~ Detaches(Head(stdin))
  /\ stdin' = Tail(stdin)
  /\ taken' = Head(stdin) /\ sent' = Passed(Head(stdin))
  /\ cout' = IF sent' = taken' THEN <<Data(sent, sent')>> ELSE << >>
  /\ UNCHANGED <<typed, size, winch, conn, ended, connVars, ptyVars>>

Take ==
  /\ Selecting /\ stdin # << >> /\ ~ Detaches(Head(stdin))
  /\ stdin' = Tail(stdin)
  /\ taken' = Head(stdin) /\ sent' = Passed(Head(stdin))
  /\ cout' = IF sent' > sent THEN <<Data(sent, sent')>> ELSE << >>
  /\ UNCHANGED <<typed, size, winch, conn, ended, connVars, ptyVars>>

Leaves(how) ==
  /\ ended' = how
  /\ conn' = NoConn /\ link' = [link EXCEPT ![conn] = "cut"]
  /\ UNCHANGED <<typed, sent, size, winch, cout, made, up, serving, base, got, ptyVars>>

\* What precedes the detach keys in their chunk is dropped with them.
Detach ==
  /\ Selecting /\ stdin # << >> /\ Detaches(Head(stdin))
  /\ stdin' = Tail(stdin) /\ taken' = Head(stdin)
  /\ Leaves("asked")

\* The stdin thread has come to the end of its file.
StdinCloses ==
  /\ Selecting /\ stdin = << >>
  /\ UNCHANGED <<stdin, taken>> /\ Leaves("closed")

\* The size is the one the terminal has when the signal is received.
Winch ==
  /\ Selecting /\ winch
  /\ winch' = FALSE /\ cout' = <<Resize(conn, sent)>>
  /\ UNCHANGED <<typed, stdin, taken, sent, size, conn, ended, connVars, ptyVars>>

\* A bug: write_frame does not wait for room.
WriteAnyway ==
  /\ conn # NoConn /\ cout # << >>
  /\ link[conn] = "open"
  /\ up' = [up EXCEPT ![conn] = Append(@, cout[1])] /\ cout' = << >>
  /\ UNCHANGED <<typed, stdin, taken, sent, size, winch, conn, ended, made, link, serving,
                 base, got, ptyVars>>

\* write_frame, which waits for room.
Write ==
  /\ conn # NoConn /\ cout # << >>
  /\ link[conn] = "open" /\ Len(up[conn]) < SocketRoom
  /\ up' = [up EXCEPT ![conn] = Append(@, cout[1])] /\ cout' = << >>
  /\ UNCHANGED <<typed, stdin, taken, sent, size, winch, conn, ended, made, link, serving,
                 base, got, ptyVars>>

-----------------------------------------------------------------------------
(* Connections.                                                            *)

\* A bug: no size to start with.
ConnectSilent ==
  /\ conn = NoConn /\ ended = "no" /\ made < MaxConns
  /\ made' = made + 1 /\ conn' = made + 1
  /\ link' = [link EXCEPT ![made + 1] = "open"]
  /\ serving' = [serving EXCEPT ![made + 1] = TRUE]
  /\ base' = [base EXCEPT ![made + 1] = taken]
  /\ got'  = [got EXCEPT ![made + 1] = taken]
  /\ sent' = taken
  /\ UNCHANGED <<typed, stdin, taken, size, winch, ended, cout, up, ptyVars>>

\* connect_once starts by sending the terminal's size; a prefix that was held
\* back is lost with the connection before.
Connect ==
  /\ conn = NoConn /\ ended = "no" /\ made < MaxConns
  /\ made' = made + 1 /\ conn' = made + 1
  /\ link' = [link EXCEPT ![made + 1] = "open"]
  /\ serving' = [serving EXCEPT ![made + 1] = TRUE]
  /\ base' = [base EXCEPT ![made + 1] = taken]
  /\ got'  = [got EXCEPT ![made + 1] = taken]
  /\ sent' = taken /\ cout' = <<Resize(made + 1, taken)>>
  /\ UNCHANGED <<typed, stdin, taken, size, winch, ended, up, ptyVars>>

\* The network breaks it: what is on its way arrives up to some point.
Cut ==
  /\ conn # NoConn /\ link[conn] = "open" /\ made < MaxConns
  /\ link' = [link EXCEPT ![conn] = "cut"]
  /\ \E n \in 0..Len(up[conn]) : up' = [up EXCEPT ![conn] = SubSeq(@, 1, n)]
  /\ UNCHANGED <<clientVars, made, serving, base, got, ptyVars>>

\* Frames may still be written to a broken connection, and are lost...
WriteLost ==
  /\ conn # NoConn /\ cout # << >> /\ link[conn] = "cut"
  /\ cout' = << >>
  /\ UNCHANGED <<typed, stdin, taken, sent, size, winch, conn, ended, connVars, ptyVars>>

\* ... until the client notices, at a read or a write.
Loses ==
  /\ conn # NoConn /\ link[conn] = "cut"
  /\ conn' = NoConn /\ cout' = << >>
  /\ UNCHANGED <<typed, stdin, taken, sent, size, winch, ended, connVars, ptyVars>>

-----------------------------------------------------------------------------
(* The daemon and the PTY.                                                 *)

\* A bug: server_reader reads on behind a frame that is still to be read.
ReadAhead(c) ==
  /\ serving[c] /\ up[c] # << >>
  /\ \E i \in 1..Len(up[c]) :
       /\ up' = [up EXCEPT ![c] = SubSeq(@, 1, i - 1) \o SubSeq(@, i + 1, Len(@))]
       /\ toPty' = Append(toPty, up[c][i])
       /\ got' = [got EXCEPT ![c] = up[c][i].to]
  /\ UNCHANGED <<clientVars, made, link, serving, base, pty, ptySize, late>>

\* server_reader hands Data and Resize frames to the PTY's thread.
Read(c) ==
  /\ serving[c] /\ up[c] # << >>
  /\ up' = [up EXCEPT ![c] = Tail(@)]
  /\ toPty' = Append(toPty, Head(up[c]))
  /\ got' = [got EXCEPT ![c] = Head(up[c]).to]
  /\ UNCHANGED <<clientVars, made, link, serving, base, pty, ptySize, late>>

\* The task ends: server_reader at the end of file or after READ_IDLE,
\* server_writer when it is superseded or cannot write.  What has not been
\* read is lost.
TaskEnds(c) ==
  /\ serving[c] /\ (link[c] = "cut" \/ c < made)
  /\ serving' = [serving EXCEPT ![c] = FALSE]
  /\ link' = [link EXCEPT ![c] = "cut"] /\ up' = [up EXCEPT ![c] = << >>]
  /\ UNCHANGED <<clientVars, made, base, got, ptyVars>>

\* The thread that owns the PTY.
PtyTakes ==
  /\ toPty # << >> /\ toPty' = Tail(toPty)
  /\ LET m == Head(toPty)
     IN  \/ /\ m.type = "data"
            /\ pty' = pty \o [i \in 1..(m.to - m.from) |-> m.from + i]
            /\ UNCHANGED <<ptySize, late>>
         \/ /\ m.type = "resize"
            /\ ptySize' = m /\ late' = (m.by < ptySize.by \/ (late /\ m.by = ptySize.by))
            /\ UNCHANGED pty
  /\ UNCHANGED <<clientVars, connVars>>

-----------------------------------------------------------------------------
Init ==
  /\ typed = << >> /\ stdin = << >> /\ taken = 0 /\ sent = 0
  /\ size = 0 /\ winch = FALSE /\ conn = NoConn /\ ended = "no" /\ cout = << >>
  /\ made = 0 /\ link = [c \in Conns |-> "none"] /\ up = [c \in Conns |-> << >>]
  /\ serving = [c \in Conns |-> FALSE]
  /\ base = [c \in Conns |-> 0] /\ got = [c \in Conns |-> 0]
  /\ toPty = << >> /\ pty = << >> /\ ptySize = Resize(0, 0) /\ late = FALSE

ClientStep == \/ Take \/ Detach \/ StdinCloses \/ Winch \/ Write \/ WriteLost
              \/ Connect \/ Loses

Next == \/ Type \/ ChangeSize \/ Cut \/ ClientStep
        \/ \E c \in Conns : Read(c) \/ TaskEnds(c)
        \/ PtyTakes

Spec == Init /\ [][Next]_vars

\* Threads and tasks go on; select! draws among the branches that are ready, so
\* that none is passed over for ever.
FairSpec ==
  /\ Spec
  /\ SF_vars(Take \/ Detach) /\ SF_vars(Winch) /\ WF_vars(Write)
  /\ WF_vars(Connect) /\ WF_vars(Loses) /\ WF_vars(PtyTakes)
  /\ \A c \in Conns : WF_vars(Read(c)) /\ WF_vars(TaskEnds(c))

-----------------------------------------------------------------------------
(* Correctness.                                                            *)

DataType   == {f \in [type : {"data"}, from : Nat, to : Nat] : f.from <= f.to}
ResizeType == {f \in [type : {"resize"}, from : Nat, to : Nat, size : Nat, by : Nat] :
                 f.from = f.to}
FrameType  == DataType \cup ResizeType

TypeOK ==
  /\ typed \in Seq(Kinds) /\ stdin \in Seq(Nat) /\ taken \in Nat /\ sent \in Nat
  /\ size \in Nat /\ winch \in BOOLEAN
  /\ conn \in Conns \cup {NoConn} /\ ended \in {"no", "asked", "closed"}
  /\ cout \in Seq(FrameType) /\ Len(cout) <= 1
  /\ made \in 0..MaxConns /\ link \in [Conns -> {"none", "open", "cut"}]
  /\ up \in [Conns -> Seq(FrameType)] /\ \A c \in Conns : Len(up[c]) <= SocketRoom
  /\ serving \in [Conns -> BOOLEAN]
  /\ toPty \in Seq(FrameType) /\ pty \in Seq(Nat) /\ ptySize \in ResizeType
  /\ late \in BOOLEAN
  /\ base \in [Conns -> Nat] /\ got \in [Conns -> Nat]

\* Frames follow one another from position a, without a gap or an overlap.
Follow(a, q) == /\ q # << >> => q[1].from = a
                /\ \A i \in 1..(Len(q) - 1) : q[i].to = q[i + 1].from
EndOf(a, q)  == IF q = << >> THEN a ELSE q[Len(q)].to

\* client_writer and server_reader neither lose, nor repeat, nor reorder input
\* while the connection lasts: after what the daemon has read come the frames
\* on their way and the one being written, and these end where client_writer
\* is, but for a prefix it holds back.
InputConserved ==
  /\ \A c \in Conns : Follow(got[c], up[c])
  /\ conn # NoConn /\ link[conn] = "open" =>
       /\ Follow(EndOf(got[conn], up[conn]), cout)
       /\ EndOf(EndOf(got[conn], up[conn]), cout) = sent
       /\ sent = taken \/ (sent = taken - 1 /\ typed[taken] = "prefix")

\* The bytes taken for a connection.
Of(c, n) == base[c] < n /\ (c < made => n <= base[c + 1])

\* What the shell is given by one connection is what was typed there, from the
\* start, in order and once, whatever connections before and after it deliver
\* in between: ahead of each byte it was given just those typed before it.
GivenInOrder ==
  \A c \in 1..made : \A i \in 1..Len(pty) :
    Of(c, pty[i]) =>
      {n \in {pty[j] : j \in 1..(i - 1)} : Of(c, n)} = (base[c] + 1)..(pty[i] - 1)

\* client_writer's loop over a chunk holds back, passes and ends as Take and
\* Detach say, wherever the chunk ends.
LoopAgrees ==
  ended = "no" => \A last \in (taken + 1)..Len(typed) :
    LET l == Loop(sent < taken, taken + 1, last)
    IN  \/ Detaches(last) /\ l.detach
        \/ /\ ~Detaches(last) /\ ~l.detach
           /\ l.pending = (Passed(last) < last)
           /\ l.out = SubSeq(typed, sent + 1, Passed(last))

\* README: "press `Ctrl-\` then `d` to detach".  The client leaves, unless it
\* changed connections between the two keys.
DetachWorks ==
  \A n \in 1..MaxTyped :
    n < Len(typed) /\ typed[n] = "prefix" /\ typed[n + 1] = "d"
      ~> ended # "no" \/ \E c \in 2..made : base[c] = n

\* Every byte typed arrives, unless its connection was lost, it is a prefix that
\* is held back, or the client leaves.
InputArrives ==
  \A n \in 1..MaxTyped :
    n <= Len(typed)
      ~> \/ ended # "no" \/ \E i \in 1..Len(pty) : pty[i] = n
         \/ \E c \in 1..made : link[c] = "cut" /\ Of(c, n)
         \/ n = taken /\ sent < taken

\* README: "`SIGWINCH` resize propagates to the remote PTY".  It ends up with the
\* terminal's size, unless a superseded connection has the last word.
SizeArrives == <>[](ended # "no" \/ ptySize.size = size \/ late)
=============================================================================
