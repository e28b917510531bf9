---------------------------- MODULE StartupProofs ----------------------------
(***************************************************************************)
(* Proofs about Startup, for any agents, ports and deaths.  What the       *)
(* agents' requests do holds without condition; that a live daemon keeps   *)
(* its socket needs a connect to it never to fail.                         *)
(***************************************************************************)
EXTENDS Startup, TLAPS

\* An agent that has not been connected has sent nothing; a request that was
\* not executed yet was never executed.
RequestPlace ==
  \A a \in Agents : /\ Asking(a) => request[a] = "none"
                    /\ request[a] # "executed" => done[a] = 0
                    /\ done[a] <= 1

RequestInv == TypeOK /\ RequestPlace /\ PublishedBound

\* Ports are bound in their turn.
PortPlace ==
  \A d \in Agents :
     daemon[d] \in {"none", "starting", "locked", "alone"} => port[d] = AnyPort

\* The lock excludes; behind it, a daemon past its check is alone.
OneLocked ==
  \A d, e \in Agents : daemon[d] \in Locked /\ daemon[e] \in Locked => d = e

Alone ==
  \A d, e \in Agents :
     daemon[d] \in {"alone", "bound", "cleared", "named"} => ~Listening(e)

PathPlace ==
  \A d \in Agents : /\ daemon[d] = "cleared" => path = NoOne
                    /\ daemon[d] = "named" => path = d

Unstarted == \A a \in Agents : agent[a] = "first" => daemon[a] = "none"

SocketInv == /\ TypeOK /\ Unstarted /\ PortPlace /\ OneLocked /\ Alone /\ PathPlace
             /\ LiveSocketKept /\ FailsForPort

-----------------------------------------------------------------------------
\* A step is a daemon's, an agent's, an execution or a death.
LEMMA Steps ==
  ASSUME [Next]_vars
  PROVE  \/ UNCHANGED vars
         \/ \E a \in Agents :
              \/ DaemonStep(a) \/ Dies(a) \/ AgentStep(a) \/ ConnectFails(a)
              \/ GivesUp(a) \/ NoResponse(a) \/ \E d \in Agents : Executes(d, a)
BY DEF Next

\* Agents' steps, but for the start of a daemon, leave daemons alone.
LEMMA AgentLeaves ==
  ASSUME NEW a \in Agents,
         AgentStep(a) \/ ConnectFails(a) \/ GivesUp(a) \/ NoResponse(a)
  PROVE  /\ UNCHANGED <<config, path, port, deaths, want, done>>
         /\ \/ UNCHANGED daemon
            \/ agent[a] = "first" /\ daemon' = [daemon EXCEPT ![a] = "starting"]
BY DEF AgentStep, Connects, ConnectFails, FindsNone, ChildFailed, GivesUp, Hears,
       NoResponse, daemonVars

LEMMA TypeStep ==
  ASSUME TypeOK, [Next]_vars
  PROVE  TypeOK'
<1> USE StartupAssumption DEF TypeOK, Alive, Locked
<1>1. CASE UNCHANGED vars
  BY <1>1 DEF vars, daemonVars, agentVars
<1>2. ASSUME NEW d \in Agents, DaemonStep(d)
      PROVE  TypeOK'
  <2>1. CASE BindTcp(d)
    <3>1. CASE Moves(d, "alone", "failed") /\ UNCHANGED port
      BY <2>1, <3>1 DEF BindTcp, Moves, agentVars
    <3>2. ASSUME NEW p \in Ports, Moves(d, "alone", "bound"),
                 port' = [port EXCEPT ![d] = p]
          PROVE  TypeOK'
      BY <2>1, <3>2 DEF BindTcp, Moves, agentVars
    <3>3. \A p \in FreePorts : p \in Ports
      BY DEF FreePorts
    <3> QED BY <2>1, <3>1, <3>2, <3>3 DEF BindTcp
  <2>2. CASE Lock(d) \/ Check(d) \/ Unlink(d) \/ Name(d) \/ Listen(d) \/ Serve(d)
    BY <2>2 DEF Lock, Check, Unlink, Name, Listen, Serve, Moves, agentVars
  <2> QED BY <1>2, <2>1, <2>2 DEF DaemonStep
<1>3. ASSUME NEW d \in Agents, Dies(d)
      PROVE  TypeOK'
  BY <1>3 DEF Dies, agentVars
<1>4. ASSUME NEW a \in Agents,
             AgentStep(a) \/ ConnectFails(a) \/ GivesUp(a) \/ NoResponse(a)
      PROVE  TypeOK'
  BY <1>4 DEF AgentStep, Connects, ConnectFails, FindsNone, ChildFailed, GivesUp,
              Hears, NoResponse, Ends, Reached, daemonVars
<1>5. ASSUME NEW d \in Agents, NEW a \in Agents, Executes(d, a)
      PROVE  TypeOK'
  BY <1>5 DEF Executes, daemonVars
<1> QED BY Steps, <1>1, <1>2, <1>3, <1>4, <1>5

\* A daemon may bind only ports there are; if others have all of them, the port
\* it is told or the range is to blame.
LEMMA EligiblePorts ==
  ASSUME TypeOK, NEW d \in Agents
  PROVE  /\ Eligible(d) \subseteq Ports
         /\ Eligible(d) \subseteq Taken =>
              \/ want[d] \in Taken
              \/ want[d] = AnyPort /\ config.port \in Taken
              \/ /\ want[d] = AnyPort /\ config.port = AnyPort
                 /\ config.lo = 0 \/ \A p \in config.lo..config.hi : p \in Taken
<1> USE StartupAssumption DEF TypeOK, Ports, AnyPort
<1>1. /\ want[d] \in Ports \cup {AnyPort} /\ config.port \in Ports \cup {AnyPort}
      /\ config.lo \in 0..LastPort /\ config.hi \in 0..LastPort
  OBVIOUS
<1>2. CASE want[d] # AnyPort
  <2>1. Eligible(d) = {want[d]}
    BY <1>2 DEF Eligible
  <2> QED BY <1>1, <1>2, <2>1
<1>3. CASE want[d] = AnyPort /\ config.port # AnyPort
  <2>1. Eligible(d) = {config.port}
    BY <1>3 DEF Eligible
  <2> QED BY <1>1, <1>3, <2>1
<1>4. CASE want[d] = AnyPort /\ config.port = AnyPort
  <2>1. Eligible(d) = {p \in Ports : config.lo # 0 /\ config.lo <= p /\ p <= config.hi}
    BY <1>4 DEF Eligible
  <2>2. ASSUME config.lo # 0, NEW p \in config.lo..config.hi
        PROVE  p \in Eligible(d)
    BY <1>1, <2>1, <2>2
  <2> QED BY <1>4, <2>1, <2>2
<1> QED BY <1>2, <1>3, <1>4

-----------------------------------------------------------------------------
LEMMA RequestStep ==
  ASSUME RequestInv, [Next]_vars
  PROVE  RequestInv'
<1> USE StartupAssumption DEF RequestInv
<1> TypeOK' BY TypeStep
<1>1. RequestPlace'
  <2> USE DEF RequestPlace, Asking, TypeOK
  <2>1. ASSUME UNCHANGED agentVars
        PROVE  RequestPlace'
    BY <2>1 DEF agentVars
  <2>2. ASSUME NEW a \in Agents,
               AgentStep(a) \/ ConnectFails(a) \/ GivesUp(a) \/ NoResponse(a)
        PROVE  RequestPlace'
    BY <2>2 DEF AgentStep, Connects, ConnectFails, FindsNone, ChildFailed, GivesUp,
                Hears, NoResponse, Ends
  <2>3. ASSUME NEW d \in Agents, NEW a \in Agents, Executes(d, a)
        PROVE  RequestPlace'
    BY <2>3 DEF Executes
  <2>4. ASSUME NEW d \in Agents, DaemonStep(d) \/ Dies(d)
        PROVE  UNCHANGED agentVars
    BY <2>4 DEF DaemonStep, Lock, Check, BindTcp, Unlink, Name, Listen, Serve, Dies
  <2> QED BY Steps, <2>1, <2>2, <2>3, <2>4 DEF vars
<1>2. PublishedBound'
  <2> USE DEF PublishedBound, TypeOK
  <2>1. ASSUME UNCHANGED <<conn, port>>
        PROVE  PublishedBound'
    BY <2>1
  <2>2. ASSUME NEW d \in Agents, BindTcp(d)
        PROVE  PublishedBound'
    BY <2>2 DEF BindTcp, FreePorts, Ports, AnyPort, agentVars
  <2>3. ASSUME NEW a \in Agents, Connects(a)
        PROVE  PublishedBound'
    BY <2>3 DEF Connects, Reached, Listening, Ports, AnyPort, daemonVars
  <2>4. CASE \/ UNCHANGED vars
             \/ \E a \in Agents :
                  \/ Lock(a) \/ Check(a) \/ Unlink(a) \/ Name(a) \/ Listen(a)
                  \/ Serve(a) \/ Dies(a) \/ FindsNone(a) \/ ChildFailed(a)
                  \/ Hears(a) \/ ConnectFails(a) \/ GivesUp(a) \/ NoResponse(a)
                  \/ \E d \in Agents : Executes(d, a)
    <3>1. UNCHANGED <<conn, port>>
      BY <2>4 DEF vars, daemonVars, agentVars, Lock, Check, Unlink, Name, Listen,
                  Serve, Dies, FindsNone, ChildFailed, Hears, ConnectFails, GivesUp,
                  NoResponse, Executes
    <3> QED BY <2>1, <3>1
  <2> QED BY Steps, <2>2, <2>3, <2>4 DEF DaemonStep, AgentStep
<1> QED BY <1>1, <1>2

-----------------------------------------------------------------------------
(* The sockets.  Each of the seven conjuncts of SocketInv is disturbed by   *)
(* daemons' steps only.                                                     *)

\* What a lock holder's step needs of the others.
LEMMA LockHolder ==
  ASSUME SocketInv, NEW d \in Agents, daemon[d] \in Locked
  PROVE  \A e \in Agents \ {d} : daemon[e] \notin Locked
BY DEF SocketInv, OneLocked

LEMMA OneLockedStep ==
  ASSUME SocketInv, NEW d \in Agents, DaemonStep(d)
  PROVE  OneLocked'
<1> USE DEF SocketInv, OneLocked, Locked, TypeOK, Moves
<1>1. CASE Lock(d)
  BY <1>1 DEF Lock
<1>2. CASE Check(d) \/ BindTcp(d) \/ Unlink(d) \/ Name(d) \/ Listen(d) \/ Serve(d)
  BY <1>2 DEF Check, BindTcp, Unlink, Name, Listen, Serve
<1> QED BY <1>1, <1>2 DEF DaemonStep

\* A lock holder past its check is alone: the check found no listener, and a
\* listener would have owned the path.
LEMMA AloneStep ==
  ASSUME SocketInv, ~BacklogFills, NEW d \in Agents, DaemonStep(d)
  PROVE  Alone'
<1> USE DEF SocketInv, Alone, Listening, TypeOK, Moves
<1>1. CASE Check(d)
  <2>1. ASSUME Reached = NoOne, NEW e \in Agents
        PROVE  ~Listening(e)
    BY <2>1, StartupAssumption DEF Reached, LiveSocketKept
  <2> QED BY <1>1, <2>1, LockHolder DEF Check, Locked
<1>2. CASE Listen(d)
  BY <1>2, LockHolder DEF Listen, Locked
<1>3. CASE Serve(d)
  BY <1>3, LockHolder DEF Serve, Locked
<1>4. CASE Lock(d) \/ BindTcp(d) \/ Unlink(d) \/ Name(d)
  BY <1>4 DEF Lock, BindTcp, Unlink, Name
<1> QED BY <1>1, <1>2, <1>3, <1>4 DEF DaemonStep

LEMMA PathStep ==
  ASSUME SocketInv, NEW d \in Agents, DaemonStep(d)
  PROVE  PathPlace' /\ LiveSocketKept'
<1> USE DEF SocketInv, PathPlace, LiveSocketKept, Listening, TypeOK, Moves
<1>1. CASE Unlink(d)
  BY <1>1, LockHolder DEF Unlink, Alone, Listening, Locked
<1>2. CASE Name(d)
  BY <1>2, LockHolder DEF Name, Alone, Listening, Locked
<1>3. CASE Lock(d) \/ Check(d) \/ BindTcp(d) \/ Listen(d) \/ Serve(d)
  BY <1>3 DEF Lock, Check, BindTcp, Listen, Serve
<1> QED BY <1>1, <1>2, <1>3 DEF DaemonStep

\* A daemon that binds its port finds it free but for other programs: it is
\* alone, and the daemons that wait for the lock have none.
LEMMA PortStep ==
  ASSUME SocketInv, NEW d \in Agents, DaemonStep(d)
  PROVE  PortPlace' /\ FailsForPort'
<1> USE StartupAssumption
     DEF SocketInv, PortPlace, FailsForPort, TypeOK, Moves, agentVars
<1>1. CASE BindTcp(d)
  <2>1. FreePorts = Ports \ Taken
    <3>1. ASSUME NEW e \in Agents, daemon[e] \in Alive
          PROVE  port[e] = AnyPort
      BY <1>1, <3>1, LockHolder DEF BindTcp, Alive, Alone, Listening, Locked
    <3> QED BY <3>1 DEF FreePorts, Ports, AnyPort
  <2>2. ASSUME Eligible(d) \cap FreePorts = {}, Moves(d, "alone", "failed"),
               UNCHANGED port
        PROVE  PortPlace' /\ FailsForPort'
    <3>1. Eligible(d) \subseteq Taken
      BY <2>1, <2>2, EligiblePorts
    <3>2. UNCHANGED <<config, want>>
      BY <1>1 DEF BindTcp
    <3> QED BY <2>2, <3>1, <3>2, EligiblePorts
  <2>3. ASSUME NEW p \in Ports, Moves(d, "alone", "bound"),
               port' = [port EXCEPT ![d] = p]
        PROVE  PortPlace' /\ FailsForPort'
    BY <1>1, <2>3 DEF BindTcp
  <2> QED BY <1>1, <2>1, <2>2, <2>3 DEF BindTcp
<1>2. CASE Lock(d) \/ Check(d) \/ Unlink(d) \/ Name(d) \/ Listen(d) \/ Serve(d)
  BY <1>2 DEF Lock, Check, Unlink, Name, Listen, Serve
<1> QED BY <1>1, <1>2 DEF DaemonStep

\* A death, and the start of a daemon, disturb nothing.
LEMMA CalmStep ==
  ASSUME SocketInv, UNCHANGED <<config, path, port, want>>,
         \/ UNCHANGED daemon
         \/ \E d \in Agents : Dies(d)
         \/ \E d \in Agents : /\ daemon[d] = "none"
                             /\ daemon' = [daemon EXCEPT ![d] = "starting"]
  PROVE  /\ PortPlace' /\ OneLocked' /\ Alone' /\ PathPlace'
         /\ LiveSocketKept' /\ FailsForPort'
BY DEF SocketInv, PortPlace, OneLocked, Alone, PathPlace, LiveSocketKept, FailsForPort,
       Locked, Listening, TypeOK, Dies

LEMMA SocketStep ==
  ASSUME SocketInv, ~BacklogFills, [Next]_vars
  PROVE  SocketInv'
<1>1. TypeOK'
  BY TypeStep DEF SocketInv
<1>2. ASSUME NEW d \in Agents, DaemonStep(d)
      PROVE  SocketInv'
  <2>1. Unstarted'
    BY <1>2 DEF SocketInv, Unstarted, TypeOK, DaemonStep, Lock, Check, BindTcp, Unlink,
                Name, Listen, Serve, Moves, agentVars
  <2> QED BY <1>1, <1>2, <2>1, OneLockedStep, AloneStep, PathStep, PortStep DEF SocketInv
<1>3. ASSUME NEW d \in Agents, Dies(d)
      PROVE  SocketInv'
  <2>1. Unstarted'
    BY <1>3 DEF Dies, SocketInv, Unstarted, TypeOK, Alive, Locked, agentVars
  <2> QED BY <1>1, <1>3, <2>1, CalmStep DEF SocketInv, Dies, agentVars
<1>4. ASSUME NEW a \in Agents,
             AgentStep(a) \/ ConnectFails(a) \/ GivesUp(a) \/ NoResponse(a)
      PROVE  SocketInv'
  <2>1. Unstarted'
    BY <1>4 DEF AgentStep, Connects, ConnectFails, FindsNone, ChildFailed, GivesUp,
                Hears, NoResponse, Ends, SocketInv, Unstarted, TypeOK, daemonVars
  <2>2. \/ UNCHANGED daemon
        \/ daemon[a] = "none" /\ daemon' = [daemon EXCEPT ![a] = "starting"]
    BY <1>4, AgentLeaves DEF SocketInv, Unstarted
  <2> QED BY <1>1, <1>4, <2>1, <2>2, AgentLeaves, CalmStep DEF SocketInv
<1>5. ASSUME \/ UNCHANGED vars
             \/ \E d, a \in Agents : Executes(d, a)
      PROVE  SocketInv'
  <2>1. UNCHANGED <<daemonVars, agent, want>>
    BY <1>5 DEF vars, agentVars, Executes
  <2>2. Unstarted'
    BY <2>1 DEF SocketInv, Unstarted, daemonVars
  <2> QED BY <1>1, <2>1, <2>2, CalmStep DEF SocketInv, daemonVars
<1> QED BY Steps, <1>2, <1>3, <1>4, <1>5

-----------------------------------------------------------------------------
LEMMA InitStartup == Init => RequestInv /\ SocketInv
<1> SUFFICES ASSUME Init PROVE RequestInv /\ SocketInv
  OBVIOUS
<1> USE StartupAssumption DEF Init
<1>1. TypeOK
  BY DEF TypeOK, Alive, Locked
<1>2. RequestPlace /\ PublishedBound
  BY DEF RequestPlace, PublishedBound, Asking
<1>3. /\ Unstarted /\ PortPlace /\ OneLocked /\ Alone /\ PathPlace
      /\ LiveSocketKept /\ FailsForPort
  BY DEF Unstarted, PortPlace, OneLocked, Alone, PathPlace, LiveSocketKept,
         FailsForPort, Locked, Listening
<1> QED BY <1>1, <1>2, <1>3 DEF RequestInv, SocketInv

\* No request is executed twice, whatever dies and whoever answers late
\* (try_request_at).
THEOREM NeverReplayed == Spec => []ExecutedOnce
<1>1. Init => RequestInv
  BY InitStartup
<1>2. RequestInv /\ [Next]_vars => RequestInv'
  BY RequestStep
<1>3. RequestInv => ExecutedOnce
  BY DEF RequestInv, RequestPlace, ExecutedOnce
<1> QED BY <1>1, <1>2, <1>3, PTL DEF Spec

\* The state of agents and daemons stays within its types (Startup).
THEOREM StartupTypes == Spec => []TypeOK
<1>1. Init => RequestInv
  BY InitStartup
<1>2. RequestInv /\ [Next]_vars => RequestInv'
  BY RequestStep
<1>3. RequestInv => TypeOK
  BY DEF RequestInv
<1> QED BY <1>1, <1>2, <1>3, PTL DEF Spec

\* Nobody reaches a daemon before its TCP port is bound (run).
THEOREM BoundBeforePublished == Spec => []PublishedBound
<1>1. Init => RequestInv
  BY InitStartup
<1>2. RequestInv /\ [Next]_vars => RequestInv'
  BY RequestStep
<1>3. RequestInv => PublishedBound
  BY DEF RequestInv
<1> QED BY <1>1, <1>2, <1>3, PTL DEF Spec

\* Concurrent starts never unlink a live daemon's socket (run), provided that
\* a connect to a listener succeeds.
THEOREM SocketKept ==
  ASSUME ~BacklogFills
  PROVE  Spec => []LiveSocketKept
<1>1. Init => SocketInv
  BY InitStartup
<1>2. SocketInv /\ [Next]_vars => SocketInv'
  BY SocketStep
<1>3. SocketInv => LiveSocketKept
  BY DEF SocketInv
<1> QED BY <1>1, <1>2, <1>3, PTL DEF Spec

\* Nor does one start make another fail at its port (bind_tcp).
THEOREM OnlyForeignPortsFail ==
  ASSUME ~BacklogFills
  PROVE  Spec => []FailsForPort
<1>1. Init => SocketInv
  BY InitStartup
<1>2. SocketInv /\ [Next]_vars => SocketInv'
  BY SocketStep
<1>3. SocketInv => FailsForPort
  BY DEF SocketInv
<1> QED BY <1>1, <1>2, <1>3, PTL DEF Spec
=============================================================================
