------------------------------- MODULE Control -------------------------------
(***************************************************************************)
(* The requests made of a daemon, and the sessions they make and end: the  *)
(* wrapping of a request by the agent (server/agent.rs, proto/control.rs), *)
(* handle_control and execute_control (server/daemon.rs), the registry     *)
(* (server/registry.rs), spawn_session and mark_ended (server/session.rs). *)
(*                                                                         *)
(* Every request is a task of its own, and tasks and threads interleave at *)
(* single locks.  Startup has the agent's way to a daemon; SessionState    *)
(* has what connections do to the busy flag, which here changes on its     *)
(* own.  A key is its version.                                             *)
(***************************************************************************)
EXTENDS Naturals, Sequences

CONSTANTS Requests,     \* who makes requests, each one
          Ids,          \* session ids (2^32)
          MaxSessions,  \* bound: sessions spawned
          Port,         \* the daemon's port
          Ports,        \* ports asked for, None for none
          Versions,     \* protocol versions of agents
          VERSION,      \* the daemon's
          Outer,        \* what a request may be wrapped in besides, outermost
          None

Wrappers == [what : {"port"}, is : Ports \ {None}] \cup [what : {"protocol"}, is : Versions]

ASSUME ControlAssumption ==
  /\ MaxSessions \in Nat /\ VERSION \in Versions /\ None \notin {Port} \cup Ids
  /\ Outer \subseteq Seq(Wrappers)

Sessions == 1..MaxSessions
NoSession == 0
Ops == {"create", "attach", "ls", "kill"}

VARIABLES
  \* requests
  pc,        \* how far each is
  name,      \* the id it names, or drew
  on,        \* the session it works on
  answer,    \* the answer, and its key if it is a Bootstrap (of either kind)
  fits,      \* history: whether all that it was wrapped in fits the daemon
  \* sessions
  spawned,   \* how many there have been
  id,        \* their ids
  shell,     \* "runs", "killed" or "exited"
  ended,     \* ended
  removing,  \* whether mark_ended has still to remove it
  psk,       \* its key
  busy,      \* is_busy, but for ended
  listed,    \* whether Create has come to the insertion
  registry   \* Registry: the session of each id

requestVars == <<pc, name, on, answer, fits>>
sessionVars == <<spawned, id, shell, ended, removing, psk, busy, listed, registry>>
vars == <<requestVars, sessionVars>>

-----------------------------------------------------------------------------
(* Asking.                                                                 *)

OnPort(p)     == [what |-> "port", is |-> p]
OnProtocol(v) == [what |-> "protocol", is |-> v]

\* An agent names its protocol with create and attach, and the port it was given
\* with any operation; one from before these wrappers sends the bare request.
Wrap(op, p, v) ==
  (IF p = None THEN << >> ELSE <<OnPort(p)>>)
    \o (IF op \in {"create", "attach"} THEN <<OnProtocol(v)>> ELSE << >>)

\* The format nests wrappers as one likes, and the daemon's tests do.
Wrappings(op) ==
  LET agents == {Wrap(op, p, v) : p \in Ports, v \in Versions} \cup {<< >>}
  IN  {outer \o wraps : outer \in Outer, wraps \in agents}

Fits(w) == IF w.what = "port" THEN w.is = Port ELSE w.is = VERSION

\* Whether a request is for this daemon: everything it is wrapped in fits, and that
\* includes a protocol if it is a create or an attach.
Entitled(op, wraps) ==
  /\ \A i \in 1..Len(wraps) : Fits(wraps[i])
  /\ op \in {"create", "attach"} => \E i \in 1..Len(wraps) : wraps[i].what = "protocol"

\* A bug: a protocol that fits settles the matter.
UnwrapOuter(v, w) ==
  IF v # "unchecked" THEN v
  ELSE IF ~Fits(w) THEN "refused" ELSE IF w.what = "protocol" THEN "checked" ELSE v

\* execute_control takes a wrapper off: refuses what does not fit, notes a protocol.
Unwrap(v, w) ==
  IF v = "refused" \/ ~Fits(w) THEN "refused" ELSE IF w.what = "protocol" THEN "checked" ELSE v

\* Its verdict when all are off.
Verdict(wraps) ==
  LET after[n \in 0..Len(wraps)] ==
        IF n = 0 THEN "unchecked" ELSE Unwrap(after[n - 1], wraps[n])
  IN  after[Len(wraps)]

Refuses(op, verdict) ==
  verdict = "refused" \/ (op \in {"create", "attach"} /\ verdict # "checked")

Answer(r, kind, key) == /\ pc' = [pc EXCEPT ![r] = "answered"]
                        /\ answer' = [answer EXCEPT ![r] = [kind |-> kind, key |-> key]]

\* handle_control reads a request, and execute_control unwraps it, without a pause and
\* with nothing locked; create and attach go on only if a protocol was checked.
Ask(r) ==
  /\ pc[r] = "new" /\ UNCHANGED <<on, sessionVars>>
  /\ \E op \in Ops : \E wraps \in Wrappings(op) :
       /\ fits' = [fits EXCEPT ![r] = Entitled(op, wraps)]
       /\ IF Refuses(op, Verdict(wraps)) THEN Answer(r, "refused", 0) /\ UNCHANGED name
          ELSE /\ pc' = [pc EXCEPT ![r] = op] /\ UNCHANGED answer
               /\ \E i \in IF op \in {"attach", "kill"} THEN Ids ELSE {None} :
                    name' = [name EXCEPT ![r] = i]

-----------------------------------------------------------------------------
(* Create.                                                                 *)

\* Draws that have passed the look-up and are not in the registry yet.
Pending(r) == {name[q] : q \in {q \in Requests \ {r} : pc[q] \in {"spawn", "insert"}}}

\* A bug: new_session_id takes the first draw.
DrawAny(r) ==
  /\ pc[r] = "create"
  /\ \E i \in Ids \ Pending(r) : name' = [name EXCEPT ![r] = i]
  /\ pc' = [pc EXCEPT ![r] = "spawn"]
  /\ UNCHANGED <<on, answer, fits, sessionVars>>

\* new_session_id.  That two requests draw the same id between their look-ups and
\* their insertions is left out: one chance in 2^32.
Draw(r) ==
  /\ pc[r] = "create"
  /\ \E i \in Ids \ Pending(r) : registry[i] = NoSession /\ name' = [name EXCEPT ![r] = i]
  /\ pc' = [pc EXCEPT ![r] = "spawn"]
  /\ UNCHANGED <<on, answer, fits, sessionVars>>

\* A bug: a session starts without a key.
SpawnBare(r) ==
  /\ pc[r] = "spawn" /\ spawned < MaxSessions
  /\ spawned' = spawned + 1
  /\ id' = [id EXCEPT ![spawned + 1] = name[r]]
  /\ shell' = [shell EXCEPT ![spawned + 1] = "runs"]
  /\ on' = [on EXCEPT ![r] = spawned + 1] /\ pc' = [pc EXCEPT ![r] = "insert"]
  /\ UNCHANGED <<name, answer, fits, ended, removing, psk, busy, listed, registry>>

\* spawn_session starts the shell and the threads...
Spawn(r) ==
  /\ pc[r] = "spawn" /\ spawned < MaxSessions
  /\ spawned' = spawned + 1
  /\ id' = [id EXCEPT ![spawned + 1] = name[r]]
  /\ shell' = [shell EXCEPT ![spawned + 1] = "runs"]
  /\ psk' = [psk EXCEPT ![spawned + 1] = 1]
  /\ on' = [on EXCEPT ![r] = spawned + 1] /\ pc' = [pc EXCEPT ![r] = "insert"]
  /\ UNCHANGED <<name, answer, fits, ended, removing, busy, listed, registry>>

\* ... or fails, and publishes nothing: a shell that was started before the failure
\* is hung up with its terminal.
SpawnFails(r) ==
  /\ pc[r] = "spawn" /\ Answer(r, "failed", 0)
  /\ UNCHANGED <<name, on, fits, sessionVars>>

Insert(r) ==
  /\ pc[r] = "insert"
  /\ registry' = [registry EXCEPT ![id[on[r]]] = on[r]]
  /\ listed' = [listed EXCEPT ![on[r]] = TRUE] /\ pc' = [pc EXCEPT ![r] = "key"]
  /\ UNCHANGED <<name, on, answer, fits, spawned, id, shell, ended, removing, psk, busy>>

\* The answer has the key of that moment.
Created(r) ==
  /\ pc[r] = "key" /\ Answer(r, "created", psk[on[r]])
  /\ UNCHANGED <<name, on, fits, sessionVars>>

-----------------------------------------------------------------------------
(* Attach, ls and kill.                                                    *)

\* registry.get, or "no such session".
Find(r) ==
  /\ pc[r] \in {"attach", "kill"} /\ UNCHANGED <<name, fits, sessionVars>>
  /\ LET s == registry[name[r]]
     IN  IF s = NoSession THEN Answer(r, "failed", 0) /\ UNCHANGED on
         ELSE /\ on' = [on EXCEPT ![r] = s] /\ UNCHANGED answer
              /\ pc' = [pc EXCEPT ![r] = IF @ = "attach" THEN "ended?" ELSE "kill!"]

IsEnded(r) ==
  /\ pc[r] = "ended?" /\ UNCHANGED <<name, on, fits, sessionVars>>
  /\ IF ended[on[r]] \/ busy[on[r]] THEN Answer(r, "failed", 0)
     ELSE pc' = [pc EXCEPT ![r] = "rotate"] /\ UNCHANGED answer

\* A bug: a key nobody may have used yet is handed out again.
RotateOnce(r) ==
  /\ pc[r] = "rotate"
  /\ psk' = [psk EXCEPT ![on[r]] = 2] /\ Answer(r, "attached", 2)
  /\ UNCHANGED <<name, on, fits, spawned, id, shell, ended, removing, busy, listed, registry>>

Rotate(r) ==
  /\ pc[r] = "rotate"
  /\ psk' = [psk EXCEPT ![on[r]] = @ + 1] /\ Answer(r, "attached", psk[on[r]] + 1)
  /\ UNCHANGED <<name, on, fits, spawned, id, shell, ended, removing, busy, listed, registry>>

Ls(r) ==
  /\ pc[r] = "ls" /\ Answer(r, "ls", 0)
  /\ UNCHANGED <<name, on, fits, sessionVars>>

\* A signal: the shell goes when it takes it.
Kill(r) ==
  /\ pc[r] = "kill!" /\ Answer(r, "ok", 0)
  /\ shell' = [shell EXCEPT ![on[r]] = IF @ = "runs" THEN "killed" ELSE @]
  /\ UNCHANGED <<name, on, fits, spawned, id, ended, removing, psk, busy, listed, registry>>

-----------------------------------------------------------------------------
(* Sessions.                                                               *)

Exits(s) ==
  /\ shell[s] \in {"runs", "killed"} /\ shell' = [shell EXCEPT ![s] = "exited"]
  /\ UNCHANGED <<requestVars, spawned, id, ended, removing, psk, busy, listed, registry>>

\* A bug: the flag is set, and the registry forgotten.
EndsListed(s) ==
  /\ shell[s] = "exited" /\ ~ended[s]
  /\ ended' = [ended EXCEPT ![s] = TRUE] /\ UNCHANGED removing
  /\ UNCHANGED <<requestVars, spawned, id, shell, psk, busy, listed, registry>>

\* The first of the two threads' mark_ended sets the flag...
Ends(s) ==
  /\ shell[s] = "exited" /\ ~ended[s]
  /\ ended' = [ended EXCEPT ![s] = TRUE] /\ removing' = [removing EXCEPT ![s] = TRUE]
  /\ UNCHANGED <<requestVars, spawned, id, shell, psk, busy, listed, registry>>

\* ... and removes what the registry has under its id.
Removes(s) ==
  /\ removing[s] /\ removing' = [removing EXCEPT ![s] = FALSE]
  /\ registry' = [registry EXCEPT ![id[s]] = NoSession]
  /\ UNCHANGED <<requestVars, spawned, id, shell, ended, psk, busy, listed>>

\* A connection becomes active, or leaves.
Connects(s) ==
  /\ s <= spawned /\ busy' = [busy EXCEPT ![s] = ~@]
  /\ UNCHANGED <<requestVars, spawned, id, shell, ended, removing, psk, listed, registry>>

-----------------------------------------------------------------------------
Init ==
  /\ pc = [r \in Requests |-> "new"] /\ name = [r \in Requests |-> None]
  /\ on = [r \in Requests |-> NoSession]
  /\ answer = [r \in Requests |-> [kind |-> "none", key |-> 0]]
  /\ fits = [r \in Requests |-> FALSE]
  /\ spawned = 0 /\ id = [s \in Sessions |-> None]
  /\ shell = [s \in Sessions |-> "none"]
  /\ ended = [s \in Sessions |-> FALSE] /\ removing = [s \in Sessions |-> FALSE]
  /\ psk = [s \in Sessions |-> 0] /\ busy = [s \in Sessions |-> FALSE]
  /\ listed = [s \in Sessions |-> FALSE]
  /\ registry = [i \in Ids |-> NoSession]

RequestStep(r) == \/ Draw(r) \/ Spawn(r) \/ SpawnFails(r) \/ Insert(r)
                  \/ Created(r) \/ Find(r) \/ IsEnded(r) \/ Rotate(r) \/ Ls(r) \/ Kill(r)

Next == \/ \E r \in Requests : Ask(r) \/ RequestStep(r)
        \/ \E s \in Sessions : Exits(s) \/ Ends(s) \/ Removes(s) \/ Connects(s)

Spec == Init /\ [][Next]_vars

\* Tasks and threads go on, and a shell exits on the signal.
FairSpec == /\ Spec
            /\ \A r \in Requests : WF_vars(RequestStep(r))
            /\ \A s \in Sessions : /\ WF_vars(shell[s] = "killed" /\ Exits(s))
                                   /\ WF_vars(Ends(s)) /\ WF_vars(Removes(s))

-----------------------------------------------------------------------------
(* Correctness.                                                            *)

TypeOK ==
  /\ pc \in [Requests -> Ops \cup {"new", "spawn", "insert", "key", "ended?", "rotate",
                                  "kill!", "answered"}]
  /\ name \in [Requests -> Ids \cup {None}] /\ on \in [Requests -> Sessions \cup {NoSession}]
  /\ answer \in [Requests -> [kind : {"none", "refused", "failed", "created", "attached", "ls", "ok"},
                               key : Nat]]
  /\ fits \in [Requests -> BOOLEAN]
  /\ spawned \in 0..MaxSessions /\ id \in [Sessions -> Ids \cup {None}]
  /\ shell \in [Sessions -> {"none", "runs", "killed", "exited"}]
  /\ ended \in [Sessions -> BOOLEAN] /\ removing \in [Sessions -> BOOLEAN]
  /\ psk \in [Sessions -> Nat] /\ \A s \in Sessions : psk[s] > 0 <=> s <= spawned
  /\ busy \in [Sessions -> BOOLEAN]
  /\ listed \in [Sessions -> BOOLEAN] /\ registry \in [Ids -> Sessions \cup {NoSession}]

\* daemon.rs: "Validate every wrapper before creating a PTY, rotating a key, or
\* touching a session", and "A correct outer wrapper must not hide an incorrect inner
\* one".  A session is made, given a new key or killed only in a step of a request
\* that works on it and fits the daemon, and a request is refused if, and only if,
\* it does not fit.
Touched(s) == psk'[s] # psk[s] \/ (shell[s] # "killed" /\ shell'[s] = "killed")

ServedIfFit ==
  [][/\ \A s \in Sessions : Touched(s) =>
          \E r \in Requests : pc'[r] # pc[r] /\ on'[r] = s /\ fits[r]
     /\ \A r \in Requests : answer'[r].kind # "none" =>
          (answer'[r].kind = "refused" <=> ~fits'[r])]_vars

\* A session that Create has published and that has not ended is in the registry
\* under its id: it can be attached to, listed and killed, and no other session's
\* end takes it out.
LiveListed == \A s \in Sessions : listed[s] /\ ~ended[s] => registry[id[s]] = s

\* control.rs: attach "mints a fresh psk".  No two requests, however they
\* overlap, are given the same key of a session, but for a Create that an attach
\* overtook before it was answered.
FreshKeys ==
  \A q, r \in Requests :
    LET given == {answer[q].kind, answer[r].kind}
    IN  /\ q # r /\ on[q] = on[r] /\ given \subseteq {"created", "attached"}
        /\ answer[q].key = answer[r].key
        => "created" \in given /\ answer[q].key > 1

\* README: "terminate a session".  A session that was killed leaves the registry.
KilledLeaves == \A s \in Sessions : shell[s] = "killed" ~> \A i \in Ids : registry[i] # s
=============================================================================
