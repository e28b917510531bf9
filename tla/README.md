# thther-tty in TLA+

thther keeps a shell on a server alive across lost connections.  SSH is used
once, to ask a per-user daemon for a session; from then on client and daemon
talk over TCP, and when the connection breaks the client reconnects and resumes
where its terminal left off.  This directory specifies the parts of it that
tests hardly reach, checks them with TLC on small instances, and proves the
ones that matter most for every instance with TLAPS.

Source paths below are relative to `src/src/`; `README.md:n` is the
repository's own README.

## 1. Inventory

| Part | State | Operations | Interacts by |
|---|---|---|---|
| Output ring (`server/session.rs`, RingBuf) | the last `ring_bytes` bytes, the offset of the first | append, read_from, total | a mutex shared by the reader thread and every connection |
| Session threads (`server/session.rs`) | `ended`, the PTY, the child | read PTY and append and notify; wait for the child; write the PTY; mark_ended | `data_ready` (a Notify), the ring's mutex, atomics, the registry |
| Session access (`server/session.rs`, `registry.rs`) | key, active epoch, busy flag, registry entry | become_active, is_current, leave, is_busy, rotate_psk, insert, remove, get | atomics and mutexes, one at a time |
| Connection task (`server/daemon.rs`) | cursor, sealer and opener, epoch | handle_tcp, server_reader, server_writer | the socket, the session, a pong channel of 8 |
| Client connection (`client/session.rs`) | committed offset, established_once, detach prefix, chunks of stdin | stdin thread, drive, connect_once, client_reader, client_writer, SessionOutput::accept | the socket, stdin channel, stop and pong channels |
| Daemon startup (`server/daemon.rs`) | startup lock, control socket path, TCP port | lock, check, bind_tcp, unlink, bind, serve | files, the lock, sockets |
| Agent (`server/agent.rs`) | its tries | try_request_at, start_and_request, exchange | the control socket, its child process |
| Control requests (`server/agent.rs`, `server/daemon.rs`, `proto/control.rs`) | the registry | create, attach, ls, kill, with port and protocol constraints | the registry, spawn_session |
| Handshake, frames, records (`proto/`) | nonces, keys, counters | send and receive, seal and open | the socket |
| Configuration and command line (`config.rs`, `main.rs`) | a file | overrides, the host to dial | the other parts read it |
| Bootstrap (`client/bootstrap.rs`, `remote_bootstrap.sh`) | the installed binary | install, run the agent over SSH | ssh, the server's file system |
| Reconnect delay (`client/reconnect.rs`) | - | - | - |

What is hard in it: the daemon's runtime has several threads and each session
three more, and they share state through single atomics and short locks; the
connection can break between any two bytes; a client and the daemon can each
believe in different connections; each connection has four tasks that wait for
one another through bounded channels; a daemon can die between any two steps of
its startup; several agents can start daemons at once.

What makes each part correct:

- output: a terminal shows every byte of the session once and in order; what
  the ring has dropped is reported and nothing else is; a waiting writer is
  always woken;
- input: what is typed reaches the shell in order, but for what a lost
  connection took with it; the detach keys work however reads split them; the
  terminal's size arrives;
- heartbeats: they never hold up what they are to keep alive;
- session access: at most one connection is current; the flag that refuses a
  second attach is up exactly while a connection is active; a session leaves
  the registry when its shell exits; a key that was replaced opens no connection;
- requests: none is served that does not fit port and protocol, whatever it is
  wrapped in; a live session can be found; a key is given to one client;
- channel: no nonce is used twice under a key; what is read is what was written,
  in order; a wrong key opens nothing;
- startup: one listener, which owns the path; no request executed twice;
  nothing an earlier daemon left prevents the next.

`PROJECT.json` lists every hazard at its line, with the properties that cover
it or the reason none does.

## 2. Modules

```
RingBuf        <- Replay <- ReplayInv <- MCReplay
OutputStream   <- Replay    ReplayInv <- ReplayLemmas <- ReplayProofs
Input          <- MCInput       Input        <- InputProofs
Heartbeat      <- MCHeartbeat   Heartbeat    <- HeartbeatProofs
SessionState   <- MCSession     SessionState <- SessionProofs
Control        <- MCControl     Control      <- ControlProofs
Codec <- Channel <- MCChannel   Channel      <- ChannelProofs
Pipes <- Channel
Startup        <- MCStartup     Startup      <- StartupProofs
```

### RingBuf, Replay, OutputStream: a session's output

`OutputStream` is the promise: bytes are produced; the next bytes are shown, or
reported missing if they are no longer among the last `Retained`; a new client
process has a blank terminal.

`Replay` is the implementation from the PTY to the terminal: the reader thread
(append, then notify: two steps), the reaper thread, `mark_ended` (the flag,
then the notification), the handshake message by message, `server_writer` split
at the registration of its wakeup, the read of the ring, the write, the test of
`ended` and the wait, the socket as a bounded sequence of frames, `client_reader`,
and `SessionOutput::accept` split at every await (notice, data, commit).  The
actions are named for the code they stand for, and `map` gives their lines.
A byte is its offset, so that "the right byte" is a statement about numbers;
encryption is left out (a frame arrives as it was sent or the connection ends).

A connection ends by `Cut` (the network), `ServerLeaves` (supersession or a
failed read), the client's user, or a failing terminal.  At most one connection
exists at a time: a superseded connection has its own cursor and writes to a
socket its client no longer reads, so it shares nothing with the one that
replaced it but what SessionState models.

### Input: keystrokes and sizes

From the stdin thread to the shell: chunks of any division, `client_writer` with
its detach prefix held back between chunks, SIGWINCH, the socket, server_reader,
and the thread that owns the PTY.  A connection may break with frames on their
way; the client notices later, and connects again; the daemon's task for the old
connection lives on until it notices too, and until then reads what was sent.
A typed byte is its position, and a Data frame an interval of positions; that
this is what the loop over bytes does is `LoopAgrees`, against `Loop`, its
translation byte by byte.

### Heartbeat: four tasks and what they wait for

client_reader, client_writer, server_reader and server_writer of one
connection, with both pong channels and the socket bounded, so that each task
blocks where the code awaits.  Frames are kinds.  Both ticks may come whenever
their `select!` waits, whatever has become of earlier Pings: the network, a
terminal that does not take output, or a suspended client may hold any number of
them up.  `Backlog` bounds the daemon's Pings that are unanswered at once (in its
writer, on the socket, with client_reader or in the client's pong channel), and it
is the one assumption: up to `PongRoom` of them (8 in the code) the four tasks never
close a circle, one more and they can (with `Backlog` 3 and `PongRoom` 2 TLC finds
`NoStandstill` violated).  The client ends a connection on which it hears nothing
for 20 s, which is four ticks; but a terminal that holds output up for more than 40 s
keeps client_reader from noticing, and lets a ninth Ping be sent.  `Endless` gives
the shell output that never pauses.

### Control: requests and the registry

The agent's wrapping of a request, in any further wrappers (`Outer`: the format
allows any nesting, and the daemon's tests use it), `execute_control`'s unwrapping
of it, wrapper by wrapper in one step (the loop awaits nothing, and touches nothing
that is shared), and then Create, Attach, Ls and Kill lock by lock, each request a
task of its own; sessions that exit at any time, with `mark_ended` in two
steps; ids that are drawn again.  `fits` remembers of each request whether all of
what it came in fits the daemon, which the code never asks as one question;
`ServedIfFit` compares with it each step that makes a session, changes its key or
kills it.  Where Create draws the id that another Create has drawn and not yet
inserted (one chance in 2^32) is left out, by `Pending`.  So is what a spawn leaves
that fails after the shell was started (session.rs:210): the shell is hung up with
its terminal, and nothing waits for it.

### Codec, Channel, Pipes: bytes and records

`Pipes` is the promise of a connection: a pipe in each direction, out of which comes
the next thing that went in, and only if the two ends share the session's key; an
end says no more than one word before it has heard the other.  It is what Replay,
Input and Heartbeat take their sockets to be, but for where they break.

`Codec` is `encode` and `decode` over bytes that are digits to `Base`.  `Channel`
has the exchange of versions and nonces, the key each end derives, counters that
stop at `CounterMax`, and records: a record is the key and nonce it was sealed
with and its bytes, and opens only with the same; a reader takes a record only if
its length, tag included, is within its limit (`LengthFits`, frame.rs:160).  The
client's nonce can be changed on its way to the server, and the server's on its way
back (`heard` is what the server has of it).  The network may hand over any record ever sealed on any connection, or garbage.  The daemon's frames are those
that `read_from` can make (at most `MaxOutput` bytes).

### SessionState: who may use the session

The key, epoch, busy flag, `ended` and registry entry of one session, changed by
one atomic operation or lock per action: spawn_session and the Create answer,
both threads' mark_ended, each Attach request (found, busy or free, rotate), and
each connection's task from look-up to `leave`.  A key is its version number.
Clients dial with the key they were given, lose connections, and quit.  The
output is reduced to "there is some, or there is not".  Every frame that
server_writer writes is a step of its own and counts for a superseded connection:
output and Ended after the look at the ring, Pong and Ping after the wait.  `since`
remembers the key a connection was dialled under.

### Startup: one daemon

Agents try the control socket, start a daemon, try again, and give up; daemons
lock, check, bind TCP, unlink, name and listen on the control socket, drop the
lock and serve.  A daemon can die at any point; its lock goes and its path
stays.  A daemon is named for the agent that started it.  Its configuration is any
of `Configs`: a port, or none, and a range that may be invalid.  It binds the port
it was started with, else the configured one, else the lowest free one of the
range, or fails (`Eligible`).  `Taken` are ports of other programs.  `BacklogFills` says whether the daemon's own connect to a live
listener can fail, as it does with EAGAIN when the backlog is full: the daemon
takes any error for the absence of a daemon and unlinks the path (daemon.rs:71,
78), where the agent only takes two of them so (agent.rs:102-108).  It is FALSE
in the run; with TRUE, LiveSocketKept does not hold.

## 3. Runs

| Run | Shows | States |
|---|---|---|
| `replay` | every safety property of the output path, its inductive invariant, and that it implements OutputStream | 4.1 million |
| `replay_live` | output and the end of the session reach the client, without relying on the tick | 172 thousand |
| `replay_tail` | violated: Ended can overtake the shell's last output | - |
| `input` | input is conserved and in order while a connection lasts; it arrives, detaching works, the last size wins | 182 thousand |
| `heartbeat` | the four tasks never stand still; keys and detaching are not held up | 181 thousand |
| `heartbeat_starved` | violated: under output that never pauses the client cannot detach | - |
| `session` | one current connection; a superseded one writes at most one more frame of any kind; it ends, as do those of lost clients; a replaced key is out | 258 thousand |
| `session_reaped` | violated: a shell that exits at once stays registered | - |
| `session_busy` | violated: the busy flag and the epoch come apart | - |
| `control` | sessions are made, rekeyed and killed only for requests that fit, in whatever wrappers; live sessions stay listed; fresh keys; killed sessions leave | 267 thousand |
| `channel` | no nonce twice; no frame refused by its reader, for its length or its bytes; a wrong key opens nothing; the records implement Pipes | 464 thousand |
| `startup` | a live socket is never unlinked; requests execute once; starts fail only if every port they may bind is taken, or the range is invalid; agents are served | 451 thousand |

Bounds.

- `Replay`: three bytes through a ring of two, in reads of up to two and frames of
  one, so that a read can overflow the ring, a client can fall behind by less or
  more than the ring holds, and a frame can be on the wire while another is being
  accepted; two cuts, so that a resumed connection can fail too; two clients, so
  that a second terminal starts at offset 0 with history gone.
- `Input`: two keys, each plain, prefix or d, in one chunk or two: every way in
  which a pair can be detach keys, split between chunks or between connections,
  two prefixes, or neither.  Two connections: the first can break with up to two
  frames on their way and be read late, beside the second.
- `Heartbeat`: a socket of one frame and channels of two make every await block;
  two Pings are unanswered at once, as many as fit; one key, and the shell writes
  twice, so that the drain loop goes round.  `heartbeat_starved` needs no key and no
  bound on output, and one Ping.
- `SessionState`: two connections, enough for every race between a connection and
  the one that supersedes it, and two clients for those between a client and an
  attach; a third connection was checked once without finding anything else (11
  million states).
- `Control`: three requests, so that two attaches overlap on the session of a
  create; two ids for two sessions, so that an id comes back while its last
  session is still ending; agents of the daemon's version, of another and from before versions,
  with its port, another or none, in a further wrapper of either kind, right or wrong,
  or in none: a right one can stand outside, between and inside wrong ones.
- `Channel`: base 2, so that two and eight byte integers are whole; chunks of no
  byte and of as many as the limit allows, an offset two below 2^64, so that sums
  end at the limit; two records in each direction use the counter up.
- `Startup`: three agents of which two start daemons, one death, and three ports
  of which one is taken, so that two daemons could run side by side; five
  configurations: a free port, the taken one, a range, one that is all taken, and one
  that is invalid.
- `Channel` records are at most 27 bytes, tag included: what the longest frame takes,
  so that a limit lower by one would show.

Fairness.

- `Replay`: every thread, task and client step is weakly fair; the shell, the
  network, the user and the tick are not, so delivery does not rest on the 5 s
  tick.
- `Input`, `Heartbeat`: tasks and threads go on; a branch of a `select!` is strongly
  fair, because tokio draws at random among the branches that are ready.  Nobody
  has to type, and the shell need neither write nor pause.
- `SessionState`: tasks take their next step (the writer's tick is what wakes it
  when nothing else does), and `PeerGone` is strongly fair for every connection:
  server_reader ends at the client's end of file or after `READ_IDLE`, and the
  select in handle_tcp sees it at whichever await of the writer comes next; the
  runtime makes a task that never blocks yield, so such an await does come.
- `Control`: requests and threads go on, and a shell exits on kill's signal.
- `Startup`: processes proceed; giving up and dying are never forced.

Every property of a passing run has a mutant in `PROJECT.json`: a change to one
mapped definition of the kind a programmer might make, under which the same
run fails.  The mutated forms stand next to the definitions, as "A bug: ...".

## 4. Findings

1. `replay_tail`: the reaper marks the session ended when the shell exits,
   though the reader thread may still hold output: the client is told Ended and
   leaves without the last bytes, which are neither shown nor reported.
2. `heartbeat_starved`: server_writer answers pings only when there is no output.
   Under output that never pauses (`yes`), the pong channel is full after about
   27 s; then no key reaches the shell, not even the Ctrl-C that would stop the
   output, and once the socket is full the client no longer sees its detach keys.
3. `session_reaped`: spawn_session inserts the session after starting the
   threads that remove it.
4. `session_busy`: `become_active` and `leave` change the epoch and the busy flag
   one after the other.  The flag can be down while a connection serves, and up
   with nobody attached, which refuses every later attach.

Besides, the models show limits of the code that no document denies, and that
the properties except by name: a detach prefix held back is forgotten when the
connection changes between the two keys (`Input!DetachWorks`); a superseded
connection's Resize can have the last word (`late`); a Create that an attach
overtakes is answered with the attacher's key (`FreshKeys`).

## 5. Proofs

All theorems hold for every value of the constants that satisfies the modules'
assumptions.

`ReplayLemmas` and `ReplayProofs` prove:

- `Invariance`: `Spec => []IInv`;
- from it `TypeCorrect`, `RingRetainsTail`, `ExactlyOnce`,
  `NothingLostSilently`, `GapsAreReal`, `NeverBadOffset` and `WakeupsAreKept`,
  each an invariant of the `replay` run or a conjunct of `IInv`, which is one;
- `Implementation`: `Spec => ImplementsOutputStream`, by the refinement mapping
  `produced <- taken`, `Retained <- RingBytes`.

The properties are not inductive by themselves: that the terminal shows each
byte once depends on where every frame on the way came from.  `IInv`
(`ReplayInv`) adds three things.  `Contiguous` and `WriterPlace`: the frame being
accepted, those on the wire and the one being written follow one another from
the committed offset to the writer's cursor, and leave a hole only below the
ring's start, which only grows.  `FramesGenuine`: a frame holds the bytes its
offset says.  `Handshake`: while a resume offset is on its way the client's
committed offset stays what it was, and no more than the session's total.
`TerminalPlace` then says how far the terminal is at each await of `accept`,
and `Wakeup` that a writer about to wait over something has a notification
coming.

The proof has one step per action of Next, and lemmas for each conjunct that
several actions disturb (`ContiguousStep`, `WriterPlaceStep`, `AcceptedIsFresh`,
`Written`, `PartlyWritten`, ...).  `ReplayLemmas` holds the facts about byte
intervals and sequences that they share.

`SessionProofs` proves, for any clients and any number of connections, the
invariants of the `session` run: `SessionTypes`, `OneIsCurrent`,
`SupersededIsQuiet` and `ReplacedKeyIsRejected`.  `SupersededIsQuiet` is not
inductive by itself: `LateIsLast` adds that a task which has written since it was
superseded stands where it asks next, or stops, and that it stays superseded, since
no epoch is taken twice; and `Unmade` that a connection's task starts with it.
`ReplacedKeyIsRejected` rests on a task's key being read after its connection was
dialled, and so no older than the session's key of that moment (`KeyRead`).

`StartupProofs` proves, for any agents, ports and deaths, `StartupTypes`,
`NeverReplayed` and `BoundBeforePublished`, and, under the assumption `~BacklogFills`, `SocketKept`
and `OnlyForeignPortsFail`.  The invariant of the latter two (`SocketInv`): at most
one daemon is between the grant and the drop of the lock; one past its check
has no listener beside it, because a listener owns the path and the check
would have reached it; and a daemon has a port only from bind_tcp on, so that
the one that binds competes with none, and finds every port it may bind
(`EligiblePorts`) free but for other programs.

`InputProofs` proves `InputTypes` and `InputIsConserved`.  Besides, the invariant
(`InputInv`) says that the client writes on its last connection and that those not
yet made are empty, and that the chunks in the stdin channel follow `taken`.  The
argument is a lemma about frames that follow one another (`FollowAppend`,
`FollowTail`), applied on both sides of the socket.

`InputIsInOrder` needs more, because a superseded connection's task goes on reading
what was sent on it beside its successor's.  `FlowInv` adds that each connection's
bytes lie in an interval of their own, from its `base` to its `Limit`, and do not
overlap (`Marks`); that every frame on a connection lies in that interval
(`Carried`); that the bytes of a connection that are ahead of a message on its way
to the PTY's thread are just those before that message (`Queued`), and the same of
what the shell has been given (`Given`).  With it a connection's frames may be
interleaved with another's at will and keep their own order.

`LoopIsTake` proves `LoopAgrees` by induction over the bytes of a chunk.  The loop
is a recursive function: `LoopRuns` shows by a least counterexample (`Least`, from
the well-foundedness of the naturals) that its equation has a solution, and
`LoopIsRight` by another that at each byte it has come to what `Detaches` and
`Passed` say, from what was held back before (`HeldBack`, an invariant).

`HeartbeatProofs` proves, if `Backlog <= PongRoom`, `NeverStuck`: `PingInv` says that
each unanswered Ping of the daemon is in one place (its writer, the socket,
client_reader or the client's pong channel), so that client_reader never finds that
channel full, and the circle of the four tasks never closes.  The Pings on the socket
are counted by a function of its positions (`Tally`).  `HeartbeatTypes` needs no
assumption: that no more keys are read than were taken (`given \in 0..taken`) rests
on a count of those on their way (`Counts`), which with the rest of the types is
inductive (`KeyInv`).

`ControlProofs` proves `ControlTypes`, `LiveAreListed` and `KeysAreFresh`.  Its
invariant says that ids drawn and not yet inserted are apart (`DrawnApart`), that a
session has one Create (`OneMaker`), that the registry and the sessions agree
(`Agree`), and that a key given is no newer than its session's (`Given`).
`ServedOnlyIfFit` is proved for any nesting of wrappers: `VerdictIs` says what the
loop has found when all of them are off, `RefusesUnfit` that it refuses exactly the
requests that do not fit, and `Asked` that one that has gone on fits.

`ChannelProofs` proves every property of the `channel` run.  The codec comes first:
`FramesComeBack`, that decoding undoes encoding on every frame an end may write,
for any base; the integers are halved down to bytes (`BE8`, `BE4`, `BE2`), and each
half comes back by `Halves` and `Parts`.  The invariant (`ChannelInv`) ties the i-th
record sealed to counter i - 1 and to the i-th frame written, so that the one record
that opens next is the next one written (`OpensNext`).  From it follow `NoncesOnce`,
`WrongKeyShut`, `ReadInOrder`, `ChannelTypes` and `FramesAreTaken`; and
`PipesImplemented`, that every step of the handshake and of the records is a step of
Pipes or a stutter, with what was said for what was put in, what was opened for what
came out, and "the client has the session's key" for `shared`.

Assumptions on constants are the types of the code: offsets below 2^64, sizes below
2^16, bytes below `Base`, bounds that are natural numbers.  Three theorems have a
hypothesis of their own: `NeverStuck` (`Backlog <= PongRoom`), `SocketKept` and
`OnlyForeignPortsFail` (`~BacklogFills`).

Model-checked only: the liveness properties, because TLAPS does not reach liveness
under fairness, nor ENABLED.  All safety properties of the passing runs are
theorems.  No module declares a RECURSIVE operator.

## 6. Not modelled

- Time: delays, the 20 s idle limit, the ticks and the agent's 5 s appear as
  steps that may happen, never as durations; `Backlog` stands for one.
  The reconnect delay is left out; so is a bound on a handshake that goes silent.
- JSON, and the layout of the handshake's bytes.
- The configuration file and the command line but for the port and the range:
  overrides, the host that is dialled, and what ssh makes of an alias.
- The cryptographic primitives, which are taken to be sound.
- ssh, the download and installation script.

## 7. Plan

Done, with their proofs: RingBuf, Replay, OutputStream, SessionState, Startup,
Input, Heartbeat, Control, Codec, Channel and Pipes.

What could follow:

1. An abstract specification of exclusive access that SessionState implements in
   its epoch, though not in its flag (finding 4).
2. `LiveSocketKept` and `Control` in one composition, so that the requests of an
   agent that found no daemon meet those of one that did.
3. Installation by several clients at once (remote_bootstrap.sh:58).
