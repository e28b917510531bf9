---------------------------- MODULE SessionProofs ----------------------------
(***************************************************************************)
(* Proofs about SessionState, for any clients and any number of            *)
(* connections: its types, that takeovers leave one connection current and *)
(* the others quiet, and that a key that was replaced is of no more use.   *)
(***************************************************************************)
EXTENDS SessionState, TLAPS

\* A frame written after the takeover is the last one but Ended: its writer
\* asks next, or stops; and a superseded connection never becomes current.
LateIsLast ==
  \A c \in Conns :
     late[c] > 0 => late[c] = 1 /\ Superseded(c) /\ task[c] \in {"top", "leave", "done"}

Unmade == \A c \in Conns : c > made => task[c] = "none"

\* A task that has gone past its reading of the key found its client's the same,
\* and the key it read is none that was replaced before the connection was made.
Keyless == {"none", "lookup", "refused", "psk"}

KeyRead ==
  \A c \in Conns :
    /\ task[c] \in Keyless => mine[c] = 0
    /\ task[c] \notin Keyless => seen[c] >= since[c]
    /\ mine[c] > 0 \/ task[c] = "raise" => theirs[c] = seen[c]

\* The inductive invariant.
SInv == TypeOK /\ OneCurrent /\ Unmade /\ LateIsLast /\ KeyRead

-----------------------------------------------------------------------------
\* The session's own actions touch neither keys in use nor connections.
LEMMA LifeStep ==
  ASSUME TypeOK, Insert \/ Created \/ ShellExits \/ \E t \in Threads : ThreadStep(t)
  PROVE  TypeOK'
<1> USE SessionAssumption
<1>1. CASE Insert
  BY <1>1 DEF Insert, TypeOK, SharedType, UserType, ConnType, userVars, connVars
<1>2. CASE Created
  <2>1. SharedType'
    BY <1>2 DEF Created, TypeOK, SharedType, sharedVars
  <2>2. UserType'
    BY <1>2 DEF Created, TypeOK, SharedType, UserType, sharedVars
  <2>3. ConnType'
    BY <1>2 DEF Created, TypeOK, ConnType, sharedVars, connVars
  <2> QED BY <2>1, <2>2, <2>3 DEF TypeOK
<1>3. CASE ShellExits
  BY <1>3 DEF ShellExits, TypeOK, SharedType, UserType, ConnType, sharedVars,
              userVars, connVars
<1>4. ASSUME NEW t \in Threads, ThreadStep(t)
      PROVE  TypeOK'
  <2>1. SharedType'
    BY <1>4 DEF ThreadStep, MarkEnded, Remove, TypeOK, SharedType
  <2>2. UserType' /\ ConnType'
    BY <1>4 DEF ThreadStep, MarkEnded, Remove, TypeOK, UserType, ConnType,
                userVars, connVars
  <2> QED BY <2>1, <2>2 DEF TypeOK
<1> QED BY <1>1, <1>2, <1>3, <1>4

\* Attach requests and clients: keys grow, and connections are made.
LEMMA UserStep ==
  ASSUME TypeOK, NEW u \in Clients, AttachStep(u) \/ ClientStep(u)
  PROVE  TypeOK'
<1> USE SessionAssumption
<1>1. CASE AttachStep(u)
  <2> USE DEF AttachStep, AttachFinds, AttachRefused, AttachFree, AttachRotates,
              attachFrame, TypeOK
  <2>1. SharedType' BY <1>1 DEF SharedType, lifeVars
  <2>2. UserType'
    <3>1. CASE AttachRotates(u)
      BY <3>1 DEF SharedType, UserType
    <3> QED BY <1>1, <3>1 DEF UserType
  <2>3. ConnType'
    <3>1. psk \in Nat /\ psk' \in Nat /\ psk <= psk'
      BY <1>1 DEF SharedType
    <3> QED BY <1>1, <3>1 DEF ConnType, connVars
  <2> QED BY <2>1, <2>2, <2>3
<1>2. CASE ClientStep(u)
  <2>1. CASE Dial(u)
    <3>1. made + 1 \in Conns
      BY <2>1 DEF Dial, TypeOK, ConnType, Conns
    <3>2. SharedType' /\ UserType'
      BY <2>1, <3>1 DEF Dial, TypeOK, SharedType, UserType, sharedVars, lifeVars
    <3>3. made' \in 0..MaxConns
      BY <2>1, SessionAssumption DEF Dial, TypeOK, ConnType
    <3>4. /\ key[u] \in Nat /\ key[u] <= psk /\ psk \in Nat
          /\ psk' = psk /\ epoch' = epoch
          /\ UNCHANGED <<seen, mine, hello, late>>
      BY <2>1 DEF Dial, TypeOK, SharedType, UserType, sharedVars
    <3>5. task' = [task EXCEPT ![made + 1] = "lookup"]
          /\ theirs' = [theirs EXCEPT ![made + 1] = key[u]]
          /\ since' = [since EXCEPT ![made + 1] = psk]
          /\ peer' = [peer EXCEPT ![made + 1] = TRUE]
      BY <2>1 DEF Dial
    <3>6. ConnType'
      BY <3>1, <3>3, <3>4, <3>5 DEF TypeOK, ConnType
    <3> QED BY <3>2, <3>6 DEF TypeOK
  <2>2. CASE ClientHello(u)
    BY <2>2 DEF ClientHello, clientFrame, TypeOK, SharedType, UserType, ConnType,
                sharedVars, lifeVars
  <2>3. CASE Loses(u)
    BY <2>3 DEF Loses, clientFrame, TypeOK, SharedType, UserType, ConnType,
                sharedVars, lifeVars
  <2>4. CASE Quits(u)
    BY <2>4 DEF Quits, clientFrame, TypeOK, SharedType, UserType, ConnType,
                sharedVars, lifeVars
  <2> QED BY <1>2, <2>1, <2>2, <2>3, <2>4 DEF ClientStep
<1> QED BY <1>1, <1>2

-----------------------------------------------------------------------------
\* What a task's step leaves: the key, the clients, and every other task.
LEMMA TaskTypes ==
  ASSUME TypeOK, NEW c \in Conns, TaskStep(c)
  PROVE  /\ TypeOK'
         /\ epoch <= epoch'
         /\ \A d \in Conns \ {c} : /\ task'[d] = task[d] /\ late'[d] = late[d]
                                   /\ mine'[d] = mine[d]
<1> USE SessionAssumption DEF TypeOK, taskFrame, Goes
<1>1. CASE Raise(c)
  BY <1>1 DEF Raise, SharedType, UserType, ConnType, lifeVars, userVars
<1>2. CASE Flag(c)
  BY <1>2 DEF Flag, SharedType, UserType, ConnType, lifeVars, userVars, Serving
<1>3. CASE Clear(c)
  <2>1. SharedType' /\ UserType'
    BY <1>3 DEF Clear, SharedType, UserType, lifeVars, userVars
  <2>2. ConnType'
    BY <1>3 DEF Clear, SharedType, ConnType
  <2> QED BY <1>3, <2>1, <2>2 DEF Clear, SharedType, ConnType
<1>4. CASE ReadKey(c)
  BY <1>4 DEF ReadKey, SharedType, UserType, ConnType, lifeVars, userVars
<1>5. CASE Send(c)
  BY <1>5 DEF Send, SharedType, UserType, ConnType, lifeVars, userVars, Serving
<1>6. CASE Lookup(c) \/ Auth(c) \/ Top(c) \/ Look(c) \/ Wakes(c) \/ PeerGone(c) \/ Leave(c)
  BY <1>6 DEF Lookup, Auth, Top, Look, Wakes, PeerGone, Leave,
              SharedType, UserType, ConnType, lifeVars, userVars, Serving
<1> QED BY <1>1, <1>2, <1>3, <1>4, <1>5, <1>6 DEF TaskStep

\* A connection has no task before it is made, and its task starts with it.
LEMMA UnmadeStep ==
  ASSUME SInv, [Next]_vars
  PROVE  Unmade'
<1> USE SessionAssumption DEF SInv, TypeOK, ConnType, Unmade
<1>1. ASSUME NEW c \in Conns, TaskStep(c)
      PROVE  Unmade'
  <2>1. task[c] # "none" /\ made' = made
    BY <1>1 DEF TaskStep, Lookup, ReadKey, Auth, Raise, Flag, Top, Look, Send, Wakes,
                PeerGone, Leave, Clear, Goes, taskFrame
  <2>2. \A d \in Conns \ {c} : task'[d] = task[d]
    BY <1>1, TaskTypes
  <2> QED BY <2>1, <2>2
<1>2. ASSUME NEW u \in Clients, Dial(u)
      PROVE  Unmade'
  BY <1>2 DEF Dial, Conns
<1>3. ASSUME ~ \E c \in Conns : TaskStep(c), ~ \E u \in Clients : Dial(u)
      PROVE  UNCHANGED <<made, task>>
  BY <1>3 DEF Next, Insert, Created, ShellExits, ThreadStep, MarkEnded, Remove,
              AttachStep, AttachFinds, AttachRefused, AttachFree, AttachRotates,
              attachFrame, ClientStep, ClientHello, Loses, Quits, clientFrame,
              vars, sharedVars, connVars
<1> QED BY <1>1, <1>2, <1>3

\* Only Raise touches an epoch.
LEMMA OneCurrentStep ==
  ASSUME SInv, [Next]_vars
  PROVE  OneCurrent'
<1> USE DEF SInv, OneCurrent
<1>1. ASSUME NEW c \in Conns, Raise(c)
      PROVE  OneCurrent'
  BY <1>1 DEF Raise, TypeOK, SharedType, ConnType
<1>2. ASSUME UNCHANGED <<epoch, mine>>
      PROVE  OneCurrent'
  BY <1>2
<1>3. ASSUME NEW c \in Conns, TaskStep(c)
      PROVE  Raise(c) \/ UNCHANGED <<epoch, mine>>
  BY <1>3 DEF TaskStep, Lookup, ReadKey, Auth, Flag, Top, Look, Send, Wakes,
              PeerGone, Leave, Clear
<1>4. ASSUME ~ \E c \in Conns : TaskStep(c)
      PROVE  UNCHANGED <<epoch, mine>>
  BY <1>4 DEF Next, Insert, Created, ShellExits, ThreadStep, MarkEnded, Remove,
              AttachStep, AttachFinds, AttachRefused, AttachFree, AttachRotates,
              attachFrame, ClientStep, Dial, ClientHello, Loses, Quits, clientFrame,
              vars, sharedVars, connVars
<1> QED BY <1>1, <1>2, <1>3, <1>4

\* A connection that is superseded, and past its last frame, stays so.
LEMMA LateStep ==
  ASSUME SInv, [Next]_vars
  PROVE  LateIsLast'
<1> USE DEF SInv, LateIsLast, Superseded
<1>1. ASSUME NEW c \in Conns, TaskStep(c)
      PROVE  LateIsLast'
  <2> SUFFICES ASSUME NEW d \in Conns, late'[d] > 0
               PROVE  /\ late'[d] = 1 /\ Superseded(d)'
                      /\ task'[d] \in {"top", "leave", "done"}
    OBVIOUS
  <2> USE DEF TypeOK, SharedType, ConnType
  <2>1. CASE d # c
    BY <1>1, <2>1, TaskTypes
  <2>2. CASE d = c /\ Send(c)
    BY <2>2 DEF Send, Goes, taskFrame
  <2>3. CASE d = c /\ (Top(c) \/ Leave(c))
    BY <2>3 DEF Top, Leave, Goes, taskFrame
  <2>4. CASE d = c /\ ~Send(c) /\ ~Top(c) /\ ~Leave(c)
    <3>1. late' = late /\ task[c] \notin {"top", "leave", "done"}
      BY <1>1, <2>4 DEF TaskStep, Lookup, ReadKey, Auth, Raise, Flag, Look, Wakes,
                        PeerGone, Clear, Goes
    <3> QED BY <2>4, <3>1
  <2> QED BY <1>1, <2>1, <2>2, <2>3, <2>4
<1>2. ASSUME UNCHANGED <<epoch, mine, late>>,
             \A c \in Conns : late[c] > 0 => task'[c] = task[c]
      PROVE  LateIsLast'
  BY <1>2
<1>3. ASSUME NEW u \in Clients, Dial(u)
      PROVE  LateIsLast'
  <2>1. UNCHANGED <<epoch, mine, late>>
    BY <1>3 DEF Dial, sharedVars
  <2>2. made + 1 \in Conns /\ task[made + 1] = "none"
    BY <1>3, SessionAssumption DEF Dial, Unmade, TypeOK, ConnType, Conns
  <2>3. \A c \in Conns : late[c] > 0 => c # made + 1
    BY <2>2 DEF LateIsLast
  <2>4. \A c \in Conns : c # made + 1 => task'[c] = task[c]
    BY <1>3 DEF Dial, TypeOK, ConnType
  <2> QED BY <1>2, <2>1, <2>3, <2>4
<1>4. ASSUME ~ \E c \in Conns : TaskStep(c), ~ \E u \in Clients : Dial(u)
      PROVE  UNCHANGED <<epoch, mine, late, task>>
  BY <1>4 DEF Next, Insert, Created, ShellExits, ThreadStep, MarkEnded, Remove,
              AttachStep, AttachFinds, AttachRefused, AttachFree, AttachRotates,
              attachFrame, ClientStep, ClientHello, Loses, Quits, clientFrame,
              vars, sharedVars, connVars
<1> QED BY <1>1, <1>2, <1>3, <1>4

\* Only its own task changes what is known of a connection once it is made; the
\* key it reads is the session's, which only grows.
LEMMA KeyReadStep ==
  ASSUME SInv, [Next]_vars
  PROVE  KeyRead'
<1> USE DEF SInv, KeyRead, Keyless
<1>1. ASSUME NEW c \in Conns, TaskStep(c)
      PROVE  KeyRead'
  <2> SUFFICES ASSUME NEW d \in Conns
               PROVE  /\ task'[d] \in Keyless => mine'[d] = 0
                      /\ task'[d] \notin Keyless => seen'[d] >= since'[d]
                      /\ mine'[d] > 0 \/ task'[d] = "raise" => theirs'[d] = seen'[d]
    BY DEF KeyRead
  <2> USE DEF TypeOK, SharedType, ConnType
  <2>1. UNCHANGED <<theirs, since>>
    BY <1>1 DEF TaskStep, Lookup, ReadKey, Auth, Raise, Flag, Top, Look, Send, Wakes,
                PeerGone, Leave, Clear, taskFrame
  <2>2. CASE ReadKey(c)
    BY <2>1, <2>2 DEF ReadKey, Goes, taskFrame
  <2>3. CASE Auth(c)
    BY <2>1, <2>3 DEF Auth, Goes
  <2>4. CASE Raise(c)
    BY <2>1, <2>4 DEF Raise, Goes
  <2>5. CASE Lookup(c)
    BY <2>1, <2>5 DEF Lookup, Goes
  <2>6. CASE Flag(c) \/ Top(c) \/ Look(c) \/ Send(c) \/ Wakes(c)
    BY <2>1, <2>6 DEF Flag, Top, Look, Send, Wakes, Goes, Serving
  <2>7. CASE PeerGone(c) \/ Leave(c) \/ Clear(c)
    BY <2>1, <2>7 DEF PeerGone, Leave, Clear, Goes, Serving
  <2> QED BY <1>1, <2>2, <2>3, <2>4, <2>5, <2>6, <2>7 DEF TaskStep
<1>2. ASSUME NEW u \in Clients, Dial(u)
      PROVE  KeyRead'
  <2>1. made + 1 \in Conns /\ task[made + 1] = "none"
    BY <1>2, SessionAssumption DEF Dial, Unmade, TypeOK, ConnType, Conns
  <2>2. /\ task' = [task EXCEPT ![made + 1] = "lookup"]
        /\ theirs' = [theirs EXCEPT ![made + 1] = key[u]]
        /\ since' = [since EXCEPT ![made + 1] = psk]
        /\ UNCHANGED <<mine, seen>>
    BY <1>2 DEF Dial
  <2> QED BY <2>1, <2>2 DEF TypeOK, ConnType
<1>3. ASSUME ~ \E c \in Conns : TaskStep(c), ~ \E u \in Clients : Dial(u)
      PROVE  UNCHANGED <<task, theirs, since, seen, mine>>
  BY <1>3 DEF Next, Insert, Created, ShellExits, ThreadStep, MarkEnded, Remove,
              AttachStep, AttachFinds, AttachRefused, AttachFree, AttachRotates,
              attachFrame, ClientStep, ClientHello, Loses, Quits, clientFrame,
              vars, sharedVars, connVars
<1> QED BY <1>1, <1>2, <1>3

-----------------------------------------------------------------------------
LEMMA InitSInv == Init => SInv
<1> SUFFICES ASSUME Init PROVE SInv
  OBVIOUS
<1> USE SessionAssumption DEF Init
<1>1. TypeOK
  <2>1. SharedType
    BY DEF SharedType
  <2>2. UserType
    BY DEF UserType, NoConn
  <2>3. ConnType
    BY DEF ConnType
  <2> QED BY <2>1, <2>2, <2>3 DEF TypeOK
<1>2. OneCurrent /\ Unmade /\ LateIsLast /\ KeyRead
  BY DEF OneCurrent, Unmade, LateIsLast, KeyRead, Keyless
<1> QED BY <1>1, <1>2 DEF SInv

LEMMA NextSInv == SInv /\ [Next]_vars => SInv'
<1> SUFFICES ASSUME SInv, [Next]_vars PROVE SInv'
  OBVIOUS
<1>1. TypeOK'
  <2>1. CASE UNCHANGED vars
    BY <2>1 DEF SInv, TypeOK, SharedType, UserType, ConnType, vars, sharedVars,
                lifeVars, userVars, connVars
  <2>2. CASE Next
    BY <2>2, LifeStep, UserStep, TaskTypes DEF Next, SInv
  <2> QED BY <2>1, <2>2
<1> QED BY <1>1, OneCurrentStep, UnmadeStep, LateStep, KeyReadStep DEF SInv

\* The session's state stays well-formed: no client or task holds a key newer
\* than the session's (rotate_psk), and no task an epoch it was not given
\* (become_active).
THEOREM SessionTypes == Spec => []TypeOK
<1>1. SInv => TypeOK
  BY DEF SInv
<1> QED BY <1>1, InitSInv, NextSInv, PTL DEF Spec

\* Whatever the interleaving of takeovers, the connection that became active
\* last is current, and no other (become_active, is_current).
THEOREM OneIsCurrent == Spec => []OneCurrent
<1>1. SInv => OneCurrent
  BY DEF SInv
<1> QED BY <1>1, InitSInv, NextSInv, PTL DEF Spec

\* A client that dials after a rotation with the key that was replaced is never
\* let in (rotate_psk, handle_tcp's current_psk and its opening of the Hello).
THEOREM ReplacedKeyIsRejected == Spec => []ReplacedKeyIsOut
<1>1. SInv => ReplacedKeyIsOut
  BY DEF SInv, TypeOK, ConnType, KeyRead, Keyless, ReplacedKeyIsOut
<1> QED BY <1>1, InitSInv, NextSInv, PTL DEF Spec

\* server_writer writes at most one frame after its connection is superseded:
\* of output, pongs, pings and the end of the session together.
THEOREM SupersededIsQuiet == Spec => []SupersededQuiet
<1>1. SInv => SupersededQuiet
  BY DEF SInv, TypeOK, ConnType, LateIsLast, SupersededQuiet
<1> QED BY <1>1, InitSInv, NextSInv, PTL DEF Spec
=============================================================================
