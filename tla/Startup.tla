------------------------------- MODULE Startup -------------------------------
(***************************************************************************)
(* How the one daemon of a user comes to be: the agents (`thther __serve`, *)
(* server/agent.rs), the daemons they start (server/daemon.rs, run), the   *)
(* startup lock, and the path of the control socket, which may be missing, *)
(* dead, or owned by a listener.                                           *)
(*                                                                         *)
(* An agent starts at most one daemon, which bears the agent's name.  A    *)
(* daemon may die at any point: its lock and its listener go with it, its  *)
(* socket's path stays.                                                    *)
(***************************************************************************)
EXTENDS Naturals

CONSTANTS Agents,        \* agents, and the daemons they start
          Creators,      \* those of them that ask for a new session
          NoOne,         \* the owner of a missing socket
          Stale,         \* the owner of a socket left by an earlier daemon
          LastPort,      \* the TCP ports are 1..LastPort
          Taken,         \* the ports other programs have bound
          Wants,         \* what agents are given as a port, AnyPort included
          Configs,       \* what the user's config.toml may say of ports
          MaxDeaths,     \* bound: daemons that die
          BacklogFills   \* whether a daemon's connect to a listener can fail

Ports == 1..LastPort
AnyPort == 0

ASSUME StartupAssumption ==
  /\ Creators \subseteq Agents /\ {NoOne, Stale} \cap Agents = {} /\ NoOne # Stale
  /\ LastPort \in Nat /\ Taken \subseteq Ports
  /\ Wants \subseteq Ports \cup {AnyPort}
  /\ Configs \subseteq [port : Ports \cup {AnyPort}, lo : 0..LastPort, hi : 0..LastPort]
  /\ MaxDeaths \in Nat /\ BacklogFills \in BOOLEAN

VARIABLES
  config,   \* the configuration: a port or AnyPort, and the range from lo to hi
  path,     \* whose control socket the path names
  daemon,   \* what each daemon is doing
  port,     \* the TCP port it has bound, AnyPort before
  deaths,
  agent,    \* what each agent is doing
  want,     \* the TCP port it was given on its command line, or AnyPort
  conn,     \* the daemon it is, or was, connected to
  request,  \* what has become of its request
  done      \* how many times a daemon has executed it

daemonVars == <<config, path, daemon, port, deaths>>
agentVars  == <<agent, want, conn, request, done>>
vars == <<daemonVars, agentVars>>

-----------------------------------------------------------------------------
(* Daemons.                                                                *)

\* From the lock's grant to its drop.
Locked == {"locked", "alone", "bound", "cleared", "named", "ready"}
Alive  == Locked \cup {"starting", "serving"}

Listening(d) == daemon[d] \in {"ready", "serving"}

\* Whom a connect to the path would reach.
Reached == IF path \in Agents /\ Listening(path) THEN path ELSE NoOne

Moves(d, from, to) == daemon[d] = from /\ daemon' = [daemon EXCEPT ![d] = to]

\* A bug: startup is not serialized.
LockAnyway(d) ==
  /\ Moves(d, "starting", "locked")
  /\ UNCHANGED <<config, path, port, deaths, agentVars>>

\* flock
Lock(d) ==
  /\ \A e \in Agents : daemon[e] \notin Locked
  /\ Moves(d, "starting", "locked")
  /\ UNCHANGED <<config, path, port, deaths, agentVars>>

\* A bug: a socket's path is taken for a live daemon.
CheckPath(d) ==
  /\ \/ path # NoOne /\ Moves(d, "locked", "aside")
     \/ path = NoOne /\ Moves(d, "locked", "alone")
  /\ UNCHANGED <<config, path, port, deaths, agentVars>>

\* A live daemon makes this one step aside.  Whatever error the connect
\* meets counts as nobody alive.
Check(d) ==
  /\ \/ Reached # NoOne /\ Moves(d, "locked", "aside")
     \/ (Reached = NoOne \/ BacklogFills) /\ Moves(d, "locked", "alone")
  /\ UNCHANGED <<config, path, port, deaths, agentVars>>

FreePorts == {p \in Ports \ Taken : \A e \in Agents : daemon[e] \in Alive => port[e] # p}

\* The ports a daemon may bind: the one of its command line, else the one of
\* the configuration, else those of the range (an invalid one has none).
Eligible(d) ==
  CASE want[d] # AnyPort      -> {want[d]}
    [] want[d] = AnyPort /\ config.port # AnyPort -> {config.port}
    [] OTHER -> {p \in Ports : config.lo # 0 /\ config.lo <= p /\ p <= config.hi}

\* A bug: only the first of them is tried.
BindTcpFirst(d) ==
  LET first == {p \in Eligible(d) : \A q \in Eligible(d) : p <= q}
      fits  == first \cap FreePorts
  IN /\ \/ /\ fits = {} /\ Moves(d, "alone", "failed")
           /\ UNCHANGED port
        \/ /\ Moves(d, "alone", "bound")
           /\ \E p \in fits : port' = [port EXCEPT ![d] = p]
     /\ UNCHANGED <<config, path, deaths, agentVars>>

\* bind_tcp: the lowest free one; if there is none, the daemon fails.
BindTcp(d) ==
  LET fits == Eligible(d) \cap FreePorts
  IN /\ \/ /\ fits = {} /\ Moves(d, "alone", "failed")
           /\ UNCHANGED port
        \/ /\ Moves(d, "alone", "bound")
           /\ \E p \in fits : /\ \A q \in fits : p <= q
                              /\ port' = [port EXCEPT ![d] = p]
     /\ UNCHANGED <<config, path, deaths, agentVars>>

\* A bug: the control socket is published before the TCP port is bound.
UnlinkEarly(d) ==
  /\ Moves(d, "alone", "cleared")
  /\ path' = NoOne
  /\ UNCHANGED <<config, port, deaths, agentVars>>

\* remove_file
Unlink(d) ==
  /\ Moves(d, "bound", "cleared")
  /\ path' = NoOne
  /\ UNCHANGED <<config, port, deaths, agentVars>>

\* UnixListener::bind makes the path, which may not exist...
Name(d) ==
  /\ path = NoOne /\ Moves(d, "cleared", "named")
  /\ path' = d
  /\ UNCHANGED <<config, port, deaths, agentVars>>

\* ... and then listens.
Listen(d) ==
  /\ Moves(d, "named", "ready")
  /\ UNCHANGED <<config, path, port, deaths, agentVars>>

\* The lock is dropped and the accept loops start.
Serve(d) ==
  /\ Moves(d, "ready", "serving")
  /\ UNCHANGED <<config, path, port, deaths, agentVars>>

\* A signal, an I/O error in any step, or a failing accept on the control
\* socket.
Dies(d) ==
  /\ daemon[d] \in Alive /\ deaths < MaxDeaths
  /\ daemon' = [daemon EXCEPT ![d] = "dead"]
  /\ deaths' = deaths + 1
  /\ UNCHANGED <<config, path, port, agentVars>>

\* handle_control executes the one request of a connection.  A request for
\* another TCP port than the daemon's is refused.
Executes(d, a) ==
  /\ daemon[d] = "serving" /\ conn[a] = d /\ request[a] = "sent"
  /\ \/ /\ want[a] \in {AnyPort, port[d]}
        /\ request' = [request EXCEPT ![a] = "executed"]
        /\ done' = [done EXCEPT ![a] = @ + 1]
     \/ /\ want[a] \notin {AnyPort, port[d]}
        /\ request' = [request EXCEPT ![a] = "refused"]
        /\ UNCHANGED done
  /\ UNCHANGED <<daemonVars, agent, want, conn>>

-----------------------------------------------------------------------------
(* Agents.                                                                 *)

Asking(a) == agent[a] \in {"first", "poll"}

Ends(a, how) == agent' = [agent EXCEPT ![a] = how]

\* try_request_at reaches a listener and writes the request.
Connects(a) ==
  /\ Asking(a) /\ Reached # NoOne
  /\ agent' = [agent EXCEPT ![a] = "wait"]
  /\ conn' = [conn EXCEPT ![a] = Reached]
  /\ request' = [request EXCEPT ![a] = "sent"]
  /\ UNCHANGED <<daemonVars, want, done>>

\* Any error but a missing or a refusing socket is final: no descriptor, a
\* full backlog; or the configuration cannot be read, or no daemon spawned.
ConnectFails(a) ==
  /\ Asking(a)
  /\ Ends(a, "error")
  /\ UNCHANGED <<daemonVars, want, conn, request, done>>

\* Nobody listens.  Only a Create request starts a daemon.
FindsNone(a) ==
  /\ agent[a] = "first" /\ Reached = NoOne
  /\ \/ /\ a \in Creators
        /\ daemon' = [daemon EXCEPT ![a] = "starting"]
        /\ Ends(a, "poll")
     \/ /\ a \notin Creators /\ Ends(a, "none")
        /\ UNCHANGED daemon
  /\ UNCHANGED <<config, path, port, deaths, want, conn, request, done>>

\* The daemon this agent started has failed; to step aside is no failure.
ChildFailed(a) ==
  /\ agent[a] = "poll" /\ daemon[a] \in {"failed", "dead"}
  /\ Ends(a, "error")
  /\ UNCHANGED <<daemonVars, want, conn, request, done>>

\* The tries are used up.
GivesUp(a) ==
  /\ agent[a] = "poll"
  /\ Ends(a, "error")
  /\ UNCHANGED <<daemonVars, want, conn, request, done>>

\* The response arrives.
Hears(a) ==
  /\ agent[a] = "wait" /\ request[a] \in {"executed", "refused"}
  /\ Ends(a, request[a])
  /\ UNCHANGED <<daemonVars, want, conn, request, done>>

\* A bug: a request without a response is tried again.
Retries(a) ==
  /\ agent[a] = "wait"
  /\ Ends(a, "poll")
  /\ UNCHANGED <<daemonVars, want, conn, request, done>>

\* No response in time, or the daemon has gone: the request may have been
\* executed, or be executed later, and is not tried again.
NoResponse(a) ==
  /\ agent[a] = "wait"
  /\ Ends(a, "error")
  /\ UNCHANGED <<daemonVars, want, conn, request, done>>

-----------------------------------------------------------------------------
Init ==
  /\ config \in Configs /\ path \in {NoOne, Stale} /\ deaths = 0
  /\ daemon = [d \in Agents |-> "none"] /\ port = [d \in Agents |-> AnyPort]
  /\ agent = [a \in Agents |-> "first"] /\ want \in [Agents -> Wants]
  /\ conn = [a \in Agents |-> NoOne]
  /\ request = [a \in Agents |-> "none"] /\ done = [a \in Agents |-> 0]

DaemonStep(d) == \/ Lock(d) \/ Check(d) \/ BindTcp(d) \/ Unlink(d) \/ Name(d)
                 \/ Listen(d) \/ Serve(d)

AgentStep(a) == Connects(a) \/ FindsNone(a) \/ ChildFailed(a) \/ Hears(a)

Next == \E a \in Agents : \/ DaemonStep(a) \/ Dies(a)
                          \/ AgentStep(a) \/ ConnectFails(a) \/ GivesUp(a)
                          \/ NoResponse(a)
                          \/ \E d \in Agents : Executes(d, a)

Spec == Init /\ [][Next]_vars

\* Processes go on.  Nothing makes an agent give up.
FairSpec == Spec /\ \A a \in Agents : /\ WF_vars(DaemonStep(a))
                                      /\ WF_vars(AgentStep(a))
                                      /\ WF_vars(\E d \in Agents : Executes(d, a))

-----------------------------------------------------------------------------
(* Correctness.                                                            *)

\* The types; a daemon past bind_tcp has a port.
TypeOK ==
  /\ config \in Configs /\ path \in {NoOne, Stale} \cup Agents
  /\ daemon \in [Agents -> Alive \cup {"none", "aside", "failed", "dead"}]
  /\ port \in [Agents -> Ports \cup {AnyPort}] /\ deaths \in 0..MaxDeaths
  /\ \A d \in Agents :
       daemon[d] \in {"bound", "cleared", "named", "ready", "serving"} => port[d] \in Ports
  /\ agent \in [Agents -> {"first", "poll", "wait", "executed", "refused", "none", "error"}]
  /\ want \in [Agents -> Wants] /\ conn \in [Agents -> Agents \cup {NoOne}]
  /\ request \in [Agents -> {"none", "sent", "executed", "refused"}]
  /\ done \in [Agents -> Nat]

\* daemon.rs, of the startup lock: "Otherwise a second daemon can unlink the
\* first one's control socket".  A daemon that listens owns the path, so that
\* its sessions can be reached; there is then at most one.
LiveSocketKept == \A d \in Agents : Listening(d) => path = d

\* agent.rs: "Protocol failures must never replay an operation": no request is
\* executed twice, by the same daemon or by two.
ExecutedOnce == \A a \in Agents : done[a] <= 1

\* daemon.rs: "Publish the control socket only after TCP binding succeeds".
\* Nobody is connected to a daemon without a TCP port.
PublishedBound == \A a \in Agents : conn[a] # NoOne => port[conn[a]] # AnyPort

\* README: "the priority is: client `--port`, client config `port`, server config
\* `port`, then server config `port_range`".  Neither concurrent starts nor what
\* earlier daemons left, path or port, make a start fail: only that another
\* program has the port of the command line, or else the configured one, or else
\* every port of the range, or that the range is invalid.
FailsForPort ==
  \A d \in Agents :
    daemon[d] = "failed" =>
      \/ want[d] \in Taken
      \/ want[d] = AnyPort /\ config.port \in Taken
      \/ /\ want[d] = AnyPort /\ config.port = AnyPort
         /\ \/ config.lo = 0
            \/ \A p \in config.lo..config.hi : p \in Taken

\* An agent that has started a daemon reaches it, or another, or learns of its
\* failure, without giving up, unless some daemon dies meanwhile.
DaemonComesUp ==
  \A a \in Agents : agent[a] = "poll" ~> agent[a] # "poll" \/ deaths > 0
=============================================================================
