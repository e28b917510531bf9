----------------------------- MODULE SessionState -----------------------------
(***************************************************************************)
(* Who may use a session: its key, its active epoch, its busy flag, its    *)
(* end and its place in the registry (SessionShared of server/session.rs,  *)
(* server/registry.rs), as the tasks and threads of the daemon change them *)
(* one atomic operation or one lock at a time:                             *)
(*                                                                         *)
(*   - spawn_session, and the answer to the Create request;                *)
(*   - the reader and the reaper thread, which end the session;            *)
(*   - one task per Attach request (execute_control);                      *)
(*   - one task per TCP connection (handle_tcp, with server_writer).       *)
(*                                                                         *)
(* The daemon's runtime has several threads, so the tasks interleave       *)
(* between any two of these operations, not only at an await.              *)
(*                                                                         *)
(* A key is its version.  A client process holds one key for its life and  *)
(* makes one connection after another with it; the task of a connection    *)
(* it has given up goes on until it finds out.  What the connections carry *)
(* is the subject of Replay.                                               *)
(***************************************************************************)
EXTENDS Naturals

CONSTANTS Clients,       \* client processes
          Creator,       \* the one that asked for the session
          MaxConns       \* bound: TCP connections, over all clients

ASSUME SessionAssumption == Creator \in Clients /\ MaxConns \in Nat

Conns == 1..MaxConns
NoConn == 0
Threads == {"reader", "reaper"}

VARIABLES
  \* SessionShared, and whether the registry holds it
  psk, epoch, connected, ended, registered,
  child,       \* whether the shell runs
  spawn,       \* where spawn_session and the Create request are
  thread,      \* where the reader and the reaper thread are in mark_ended
  \* client processes
  user,        \* what the client process is doing
  key,         \* the key it was given
  line,        \* its connection, NoConn between two of them
  established, \* established_once
  \* connections, numbered in the order they are made
  made,        \* how many there have been
  task,        \* where handle_tcp is
  theirs,      \* the key the connection's client holds
  since,       \* history: the session's key when the connection was made
  seen,        \* the key handle_tcp has read
  mine,        \* the epoch it captured, 0 before
  peer,        \* whether its client still holds the connection
  hello,       \* whether the client has sent its Hello frame
  late         \* frames written since it was superseded

sharedVars == <<psk, epoch, connected, ended, registered>>
lifeVars   == <<child, spawn, thread>>
userVars   == <<user, key, line, established>>
connVars   == <<made, task, theirs, since, seen, mine, peer, hello, late>>
vars == <<sharedVars, lifeVars, userVars, connVars>>

\* Inside the select of handle_tcp.
Serving == {"top", "look", "send", "bye", "wait", "beat"}

\* A connection's task takes a step from one place to another.
Goes(c, from, to) == task[c] = from /\ task' = [task EXCEPT ![c] = to]

Superseded(c) == mine[c] > 0 /\ mine[c] # epoch

-----------------------------------------------------------------------------
(* The life of the session.                                                *)

\* spawn_session registers the session after it has started the threads.
Insert ==
  /\ spawn = "threads"
  /\ registered' = TRUE /\ spawn' = "inserted"
  /\ UNCHANGED <<psk, epoch, connected, ended, child, thread, userVars, connVars>>

\* The Create request is answered with the key of that moment.
Created ==
  /\ spawn = "inserted"
  /\ spawn' = "answered"
  /\ user' = [user EXCEPT ![Creator] = "ready"]
  /\ key' = [key EXCEPT ![Creator] = psk]
  /\ UNCHANGED <<sharedVars, child, thread, line, established, connVars>>

\* The shell exits, of itself or by a Kill request for a registered session.
ShellExits ==
  /\ child
  /\ child' = FALSE
  /\ UNCHANGED <<sharedVars, spawn, thread, userVars, connVars>>

\* mark_ended, by either thread: the first to swap the flag...
MarkEnded(t) ==
  /\ thread[t] = "run" /\ ~child
  /\ ended' = TRUE
  /\ thread' = [thread EXCEPT ![t] = IF ended THEN "done" ELSE "remove"]
  /\ UNCHANGED <<psk, epoch, connected, registered, child, spawn, userVars, connVars>>

\* ... removes the session from the registry.
Remove(t) ==
  /\ thread[t] = "remove"
  /\ registered' = FALSE
  /\ thread' = [thread EXCEPT ![t] = "done"]
  /\ UNCHANGED <<psk, epoch, connected, ended, child, spawn, userVars, connVars>>

-----------------------------------------------------------------------------
(* Attach requests.                                                        *)

attachFrame == UNCHANGED <<epoch, connected, ended, registered, lifeVars, line,
                           established, connVars>>

\* The session is found and has not ended.
AttachFinds(u) ==
  /\ user[u] = "idle" /\ registered /\ ~ended
  /\ user' = [user EXCEPT ![u] = "busy?"]
  /\ UNCHANGED <<psk, key>> /\ attachFrame

\* is_busy: the request is refused, and the user may try again.
AttachRefused(u) ==
  /\ user[u] = "busy?" /\ connected /\ ~ended
  /\ user' = [user EXCEPT ![u] = "idle"]
  /\ UNCHANGED <<psk, key>> /\ attachFrame

AttachFree(u) ==
  /\ user[u] = "busy?" /\ (~connected \/ ended)
  /\ user' = [user EXCEPT ![u] = "rotate"]
  /\ UNCHANGED <<psk, key>> /\ attachFrame

\* rotate_psk, and the client starts with the new key.
AttachRotates(u) ==
  /\ user[u] = "rotate"
  /\ psk' = psk + 1
  /\ key' = [key EXCEPT ![u] = psk + 1]
  /\ user' = [user EXCEPT ![u] = "ready"]
  /\ attachFrame

-----------------------------------------------------------------------------
(* The client's side of a connection.                                      *)

clientFrame == UNCHANGED <<sharedVars, lifeVars, key, theirs, since, seen, mine, late>>

Dial(u) ==
  /\ user[u] = "ready" /\ line[u] = NoConn /\ made < MaxConns
  /\ made' = made + 1
  /\ line' = [line EXCEPT ![u] = made + 1]
  /\ task' = [task EXCEPT ![made + 1] = "lookup"]
  /\ theirs' = [theirs EXCEPT ![made + 1] = key[u]]
  /\ since' = [since EXCEPT ![made + 1] = psk]
  /\ peer' = [peer EXCEPT ![made + 1] = TRUE]
  /\ UNCHANGED <<sharedVars, lifeVars, user, key, established, seen, mine, hello, late>>

\* The client answers an accepting reply with its Hello frame.
ClientHello(u) ==
  /\ line[u] # NoConn /\ task[line[u]] = "auth"
  /\ hello' = [hello EXCEPT ![line[u]] = TRUE]
  /\ UNCHANGED <<user, line, established, made, task, peer>> /\ clientFrame

\* Whether the server's Hello is on its way to the client, or has arrived.
Answered(c) == task[c] \in {"raise", "flag"} \/ mine[c] > 0

\* The client loses its connection, or gives it up.  It goes on if it was
\* established before or by this connection, and was not told there is no such
\* session.
Loses(u) ==
  /\ line[u] # NoConn
  /\ peer' = [peer EXCEPT ![line[u]] = FALSE]
  /\ line' = [line EXCEPT ![u] = NoConn]
  /\ \/ /\ established[u] \/ Answered(line[u])
        /\ established' = [established EXCEPT ![u] = TRUE]
        /\ UNCHANGED user
     \/ /\ ~established[u] \/ task[line[u]] = "refused"
        /\ user' = [user EXCEPT ![u] = "over"]
        /\ UNCHANGED established
  /\ UNCHANGED <<made, task, hello>> /\ clientFrame

\* The user detaches, or the process is killed, or it was told of the end.
Quits(u) ==
  /\ user[u] = "ready"
  /\ user' = [user EXCEPT ![u] = "over"]
  /\ line' = [line EXCEPT ![u] = NoConn]
  /\ peer' = [c \in Conns |-> IF c = line[u] THEN FALSE ELSE peer[c]]
  /\ UNCHANGED <<established, made, task, hello>> /\ clientFrame

-----------------------------------------------------------------------------
(* The server's side: handle_tcp.                                          *)

taskFrame == UNCHANGED <<psk, ended, registered, lifeVars, userVars, made, theirs,
                         since, peer, hello>>

\* The registry's session, unless it has ended.
Lookup(c) ==
  /\ \/ Goes(c, "lookup", "psk") /\ registered /\ ~ended
     \/ Goes(c, "lookup", "refused") /\ ~(registered /\ ~ended)
  /\ UNCHANGED <<epoch, connected, seen, mine, late>> /\ taskFrame

ReadKey(c) ==
  /\ Goes(c, "psk", "auth")
  /\ seen' = [seen EXCEPT ![c] = psk]
  /\ UNCHANGED <<epoch, connected, mine, late>> /\ taskFrame

\* A bug: a key the session has had before opens the Hello frame too.
AuthOldKey(c) ==
  /\ \/ hello[c] /\ theirs[c] <= seen[c] /\ Goes(c, "auth", "raise")
     \/ ~peer[c] /\ Goes(c, "auth", "done")
  /\ UNCHANGED <<epoch, connected, seen, mine, late>> /\ taskFrame

\* The client's Hello frame opens with the key that was read, or with none.
Auth(c) ==
  /\ \/ hello[c] /\ theirs[c] = seen[c] /\ Goes(c, "auth", "raise")
     \/ hello[c] /\ theirs[c] # seen[c] /\ Goes(c, "auth", "done")
     \/ ~peer[c] /\ Goes(c, "auth", "done")
  /\ UNCHANGED <<epoch, connected, seen, mine, late>> /\ taskFrame

\* A bug: a connection that finds the session free does not take a new epoch.
RaiseIfBusy(c) ==
  /\ Goes(c, "raise", "flag")
  /\ epoch' = IF connected \/ epoch = 0 THEN epoch + 1 ELSE epoch
  /\ mine' = [mine EXCEPT ![c] = epoch']
  /\ UNCHANGED <<connected, seen, late>> /\ taskFrame

\* become_active takes the next epoch...
Raise(c) ==
  /\ Goes(c, "raise", "flag")
  /\ epoch' = epoch + 1
  /\ mine' = [mine EXCEPT ![c] = epoch + 1]
  /\ UNCHANGED <<connected, seen, late>> /\ taskFrame

\* ... and then sets the busy flag.
Flag(c) ==
  /\ Goes(c, "flag", "top")
  /\ connected' = TRUE
  /\ UNCHANGED <<epoch, seen, mine, late>> /\ taskFrame

\* A bug: server_writer does not ask whether it is current.
TopAnyway(c) ==
  /\ Goes(c, "top", "look")
  /\ UNCHANGED <<epoch, connected, seen, mine, late>> /\ taskFrame

\* server_writer stops at the top of its loop when it is superseded.
Top(c) ==
  /\ \/ Goes(c, "top", "look") /\ ~Superseded(c)
     \/ Goes(c, "top", "leave") /\ Superseded(c)
  /\ UNCHANGED <<epoch, connected, seen, mine, late>> /\ taskFrame

\* There may be output to send; if not, the session may have ended.
Look(c) ==
  /\ \/ Goes(c, "look", "send")
     \/ Goes(c, "look", "bye") /\ ended
     \/ Goes(c, "look", "wait") /\ ~ended
  /\ UNCHANGED <<epoch, connected, seen, mine, late>> /\ taskFrame

\* A frame is written: Output, Pong or Ping, or Ended.
Send(c) ==
  /\ Goes(c, "send", "top") \/ Goes(c, "beat", "top") \/ Goes(c, "bye", "leave")
  /\ late' = [late EXCEPT ![c] = IF Superseded(c) THEN @ + 1 ELSE @]
  /\ UNCHANGED <<epoch, connected, seen, mine>> /\ taskFrame

\* A notification; or a pong that is owed or the tick, and then there is a Pong
\* or a Ping frame to write, before it asks again whether it is current.
Wakes(c) ==
  /\ Goes(c, "wait", "top") \/ Goes(c, "wait", "beat")
  /\ UNCHANGED <<epoch, connected, seen, mine, late>> /\ taskFrame

\* A bug: server_reader has no READ_IDLE, and a silent peer is never missed.
PeerForgotten(c) ==
  /\ ~peer[c] /\ Goes(c, "send", "leave")
  /\ UNCHANGED <<epoch, connected, seen, mine, late>> /\ taskFrame

\* server_reader ends (end of file, or READ_IDLE) while the writer awaits.
PeerGone(c) ==
  /\ ~peer[c]
  /\ \E await \in {"send", "bye", "wait", "beat"} : Goes(c, await, "leave")
  /\ UNCHANGED <<epoch, connected, seen, mine, late>> /\ taskFrame

\* leave looks whether it is current...
Leave(c) ==
  /\ \/ Goes(c, "leave", "clear") /\ ~Superseded(c)
     \/ Goes(c, "leave", "done") /\ Superseded(c)
  /\ UNCHANGED <<epoch, connected, seen, mine, late>> /\ taskFrame

\* A bug: leave gives its epoch back with the busy flag.
ClearRewinds(c) ==
  /\ Goes(c, "clear", "done")
  /\ connected' = FALSE /\ epoch' = epoch - 1
  /\ UNCHANGED <<seen, mine, late>> /\ taskFrame

\* ... and then clears the busy flag.
Clear(c) ==
  /\ Goes(c, "clear", "done")
  /\ connected' = FALSE
  /\ UNCHANGED <<epoch, seen, mine, late>> /\ taskFrame

-----------------------------------------------------------------------------
Init ==
  /\ psk = 0 /\ epoch = 0 /\ connected = FALSE /\ ended = FALSE /\ registered = FALSE
  /\ child = TRUE /\ spawn = "threads" /\ thread = [t \in Threads |-> "run"]
  /\ user = [u \in Clients |-> IF u = Creator THEN "create" ELSE "idle"]
  /\ key = [u \in Clients |-> 0]
  /\ line = [u \in Clients |-> NoConn] /\ established = [u \in Clients |-> FALSE]
  /\ made = 0 /\ task = [c \in Conns |-> "none"]
  /\ theirs = [c \in Conns |-> 0] /\ since = [c \in Conns |-> 0]
  /\ seen = [c \in Conns |-> 0]
  /\ mine = [c \in Conns |-> 0] /\ peer = [c \in Conns |-> FALSE]
  /\ hello = [c \in Conns |-> FALSE] /\ late = [c \in Conns |-> 0]

ThreadStep(t) == MarkEnded(t) \/ Remove(t)

AttachStep(u) == AttachFinds(u) \/ AttachRefused(u) \/ AttachFree(u) \/ AttachRotates(u)

ClientStep(u) == Dial(u) \/ ClientHello(u) \/ Loses(u) \/ Quits(u)

TaskStep(c) == \/ Lookup(c) \/ ReadKey(c) \/ Auth(c) \/ Raise(c) \/ Flag(c)
               \/ Top(c) \/ Look(c) \/ Send(c) \/ Wakes(c) \/ PeerGone(c)
               \/ Leave(c) \/ Clear(c)

Next == \/ Insert \/ Created \/ ShellExits
        \/ \E t \in Threads : ThreadStep(t)
        \/ \E u \in Clients : AttachStep(u) \/ ClientStep(u)
        \/ \E c \in Conns : TaskStep(c)

Spec == Init /\ [][Next]_vars

\* Every task takes its next step (server_writer's tick wakes it if nothing
\* else does), and one whose peer is gone finds out at some await: once
\* server_reader has ended, the select of handle_tcp sees it there.
FairSpec == /\ Spec
            /\ \A c \in Conns : WF_vars(TaskStep(c)) /\ SF_vars(PeerGone(c))

-----------------------------------------------------------------------------
(* Correctness.                                                            *)

\* The types; no key is newer than the session's, no epoch than the last.
SharedType ==
  /\ psk \in Nat /\ epoch \in Nat
  /\ connected \in BOOLEAN /\ ended \in BOOLEAN /\ registered \in BOOLEAN
  /\ child \in BOOLEAN /\ spawn \in {"threads", "inserted", "answered"}
  /\ thread \in [Threads -> {"run", "remove", "done"}]

UserType ==
  /\ user \in [Clients -> {"create", "idle", "busy?", "rotate", "ready", "over"}]
  /\ key \in [Clients -> Nat] /\ \A u \in Clients : key[u] <= psk
  /\ line \in [Clients -> Conns \cup {NoConn}]
  /\ established \in [Clients -> BOOLEAN]

ConnType ==
  /\ made \in 0..MaxConns
  /\ task \in [Conns -> {"none", "lookup", "refused", "psk", "auth", "raise", "flag",
                         "leave", "clear", "done"} \cup Serving]
  /\ theirs \in [Conns -> Nat] /\ since \in [Conns -> Nat] /\ seen \in [Conns -> Nat]
  /\ \A c \in Conns : theirs[c] <= psk /\ since[c] <= psk /\ seen[c] <= psk
  /\ mine \in [Conns -> Nat] /\ \A c \in Conns : mine[c] <= epoch
  /\ peer \in [Conns -> BOOLEAN] /\ hello \in [Conns -> BOOLEAN]
  /\ late \in [Conns -> Nat]

TypeOK == SharedType /\ UserType /\ ConnType

\* session.rs: "exactly one TCP connection [is] active at a time".  Of all the
\* connections that ever became active, the one that did so last, and no
\* other, is current.
OneCurrent ==
  epoch > 0 => \E c \in Conns : mine[c] = epoch
                              /\ \A d \in Conns \ {c} : mine[d] < epoch

\* README: "attach after detach rotates the PSK; old PSK and wrong PSK are
\* rejected".  Whatever the attaches do while the handshake is under way, a
\* connection made after a rotation with the key it replaced never becomes
\* active.
ReplacedKeyIsOut == \A c \in Conns : mine[c] > 0 => theirs[c] >= since[c]

\* The takeover is not announced to the old connection's server_writer, which
\* asks only at the top of its loop: it writes at most one more frame, be it
\* output, the end of the session, a pong or a ping.
SupersededQuiet == \A c \in Conns : late[c] <= 1

\* The task of a connection that was superseded, or whose client is gone, ends,
\* output or not.
UselessTaskEnds ==
  \A c \in Conns :
    task[c] \in Serving /\ (Superseded(c) \/ ~peer[c]) ~> task[c] = "done"

\* README: "shell exit reaps it".  When the threads are done, and the session
\* was published, the registry no longer holds it.
EndedReaped ==
  spawn = "answered" /\ (\A t \in Threads : thread[t] = "done") => ~registered

\* README: "A second attach is rejected only while a connection is *active*";
\* leave: "clears the busy flag only if it was the current one (so a
\* blip-takeover doesn't get its flag cleared by the old connection tearing
\* down)".  The busy flag is up only while some connection is active (has an
\* epoch, and has not left), and as long as the current one serves.
BusyAsServed ==
  /\ connected => \E c \in Conns : task[c] \in {"flag", "leave", "clear"} \cup Serving
  /\ \A c \in Conns : mine[c] = epoch /\ task[c] \in Serving => connected
=============================================================================
