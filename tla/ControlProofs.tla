---------------------------- MODULE ControlProofs ----------------------------
(***************************************************************************)
(* Proofs about Control, for any number of requests, ids and sessions, and *)
(* any nesting of wrappers.                                                *)
(***************************************************************************)
EXTENDS Control, WellFoundedInduction, TLAPS

Pcs   == Ops \cup {"new", "spawn", "insert", "key", "ended?", "rotate", "kill!", "answered"}
Kinds == {"none", "refused", "failed", "created", "attached", "ls", "ok"}

\* Requests with a drawn id that is not in the registry, and those that made a session.
Drawn(r) == pc[r] \in {"spawn", "insert"}
Makes(r) == pc[r] \in {"insert", "key"} \/ answer[r].kind = "created"

\* What a request knows at each step of it.
Requested ==
  \A r \in Requests :
    /\ pc[r] \in {"attach", "kill"} \cup {"spawn", "insert"} => name[r] \in Ids
    /\ pc[r] \in {"insert", "key", "ended?", "rotate", "kill!"} => on[r] \in 1..spawned
    /\ answer[r].kind \in {"created", "attached"} => on[r] \in 1..spawned
    /\ pc[r] # "answered" => answer[r].kind = "none"
    /\ pc[r] = "insert" => id[on[r]] = name[r] /\ ~listed[on[r]]

\* A drawn id is one request's, and free in the registry.
DrawnApart ==
  \A r \in Requests : Drawn(r) =>
    /\ registry[name[r]] = NoSession
    /\ \A q \in Requests \ {r} : Drawn(q) => name[q] # name[r]

\* A session has one maker, who lists it.
OneMaker ==
  /\ \A q, r \in Requests : Makes(q) /\ Makes(r) /\ on[q] = on[r] => q = r
  /\ \A s \in 1..spawned : ~listed[s] => \E r \in Requests : pc[r] = "insert" /\ on[r] = s

\* The registry and the sessions agree.
Agree ==
  /\ \A s \in Sessions : s > spawned <=> shell[s] = "none"
  /\ \A s \in Sessions : shell[s] # "none" => id[s] \in Ids
  /\ \A s \in Sessions : ended[s] \/ listed[s] => shell[s] # "none"
  /\ \A s \in Sessions : removing[s] => ended[s]
  /\ \A i \in Ids : registry[i] # NoSession => id[registry[i]] = i /\ listed[registry[i]]
  /\ \A s \in Sessions : listed[s] /\ (ended[s] => removing[s]) => registry[id[s]] = s

\* Keys given are keys the session has had, and those of attaches are apart.
Given ==
  \A r \in Requests :
    /\ answer[r].kind = "created" => answer[r].key <= psk[on[r]]
    /\ answer[r].kind = "attached" => answer[r].key \in 2..psk[on[r]]
    /\ \A q \in Requests \ {r} :
         answer[q].kind = "attached" /\ answer[r].kind = "attached" /\ on[q] = on[r]
           => answer[q].key # answer[r].key

ControlInv == TypeOK /\ Requested /\ DrawnApart /\ OneMaker /\ Agree /\ Given

-----------------------------------------------------------------------------
LEMMA ControlInit == ASSUME Init PROVE ControlInv
<1> USE ControlAssumption DEF Init, Sessions, NoSession
<1>1. TypeOK  BY DEF TypeOK, Ops
<1>2. Requested  BY DEF Requested
<1>3. DrawnApart  BY DEF DrawnApart, Drawn
<1>4. OneMaker  BY DEF OneMaker, Makes
<1>5. Agree  BY DEF Agree
<1>6. Given  BY DEF Given
<1> QED  BY <1>1, <1>2, <1>3, <1>4, <1>5, <1>6 DEF ControlInv

\* A request that goes on with neither a draw nor a session made, listed or rotated.
LEMMA GoesOn ==
  ASSUME ControlInv, UNCHANGED sessionVars, fits' \in [Requests -> BOOLEAN],
         NEW r \in Requests, NEW p \in Pcs \ {"spawn", "insert"}, NEW n \in Ids \cup {None},
         NEW s \in Sessions \cup {NoSession}, NEW k \in Kinds, NEW j \in Nat,
         pc[r] # "insert", pc[r] # "answered",
         pc' = [pc EXCEPT ![r] = p], name' = [name EXCEPT ![r] = n], on' = [on EXCEPT ![r] = s],
         answer' = [answer EXCEPT ![r] = [kind |-> k, key |-> j]],
         p \in {"attach", "kill"} => n \in Ids,
         p \in {"key", "ended?", "rotate", "kill!"} \/ k = "created" => s \in 1..spawned,
         p # "answered" => k = "none", p # "key", k # "attached",
         k = "created" => Makes(r) /\ s = on[r] /\ j <= psk[s]
  PROVE  ControlInv'
<1> USE DEF ControlInv, sessionVars
<1>1. TypeOK'
  <2>1. [kind |-> k, key |-> j] \in [kind : Kinds, key : Nat]  OBVIOUS
  <2>2. answer' \in [Requests -> [kind : Kinds, key : Nat]]  BY <2>1 DEF TypeOK, Kinds
  <2>3. pc' \in [Requests -> Pcs]  BY DEF TypeOK, Pcs
  <2>4. name' \in [Requests -> Ids \cup {None}] /\ on' \in [Requests -> Sessions \cup {NoSession}]
    BY DEF TypeOK
  <2> QED  BY <2>2, <2>3, <2>4 DEF TypeOK, Kinds, Pcs
<1>2. /\ pc'[r] = p /\ name'[r] = n /\ on'[r] = s /\ answer'[r].kind = k /\ answer'[r].key = j
      /\ \A q \in Requests \ {r} : /\ pc'[q] = pc[q] /\ name'[q] = name[q] /\ on'[q] = on[q]
                                   /\ answer'[q] = answer[q]
  BY DEF TypeOK
<1>3. Requested'  BY <1>2 DEF Requested
<1>4. DrawnApart'  BY <1>2 DEF DrawnApart, Drawn
<1>5. OneMaker'
  <2>1. \A q \in Requests : Makes(q)' => Makes(q) /\ on'[q] = on[q]
    BY <1>2 DEF Makes
  <2> QED  BY <1>2, <2>1 DEF OneMaker
<1>6. Agree'  BY DEF Agree
<1>7. Given'  BY <1>2 DEF Given
<1> QED  BY <1>1, <1>3, <1>4, <1>5, <1>6, <1>7

\* All a request may be wrapped in is a sequence of wrappers.
LEMMA WrapsAreWrappers ==
  ASSUME NEW op \in Ops, NEW wraps \in Wrappings(op) PROVE wraps \in Seq(Wrappers)
<1>1. ASSUME NEW p \in Ports, NEW v \in Versions PROVE Wrap(op, p, v) \in Seq(Wrappers)
  <2>1. p # None => OnPort(p) \in Wrappers  BY DEF OnPort, Wrappers
  <2>2. OnProtocol(v) \in Wrappers  BY DEF OnProtocol, Wrappers
  <2> DEFINE s == IF p = None THEN << >> ELSE <<OnPort(p)>>
             t == IF op \in {"create", "attach"} THEN <<OnProtocol(v)>> ELSE << >>
  <2>3. s \in Seq(Wrappers) /\ t \in Seq(Wrappers)  BY <2>1, <2>2
  <2> HIDE DEF s, t
  <2>4. s \o t \in Seq(Wrappers)  BY <2>3
  <2> QED  BY <2>4 DEF Wrap, s, t
<1>2. PICK outer \in Outer,
           inner \in {Wrap(op, p, v) : p \in Ports, v \in Versions} \cup {<< >>} :
        wraps = outer \o inner
  BY DEF Wrappings
<1>3. outer \in Seq(Wrappers)  BY ControlAssumption
<1>4. inner \in Seq(Wrappers)
  <2>1. CASE inner = << >>  BY <2>1
  <2>2. CASE \E p \in Ports, v \in Versions : inner = Wrap(op, p, v)  BY <1>1, <2>2
  <2> QED  BY <2>1, <2>2
<1> QED  BY <1>2, <1>3, <1>4

\* A request that is asked works on nothing yet.
LEMMA StillAsked ==
  ASSUME ControlInv, UNCHANGED <<on, sessionVars>>, fits' \in [Requests -> BOOLEAN],
         NEW r \in Requests, NEW n \in Ids \cup {None},
         NEW p \in Ops \cup {"answered"}, pc[r] = "new",
         pc' = [pc EXCEPT ![r] = p], name' = [name EXCEPT ![r] = n],
         p \in {"attach", "kill"} => n \in Ids,
         \/ UNCHANGED answer /\ p # "answered"
         \/ answer' = [answer EXCEPT ![r] = [kind |-> "refused", key |-> 0]] /\ p = "answered"
  PROVE  ControlInv'
<1> DEFINE s == on[r]  k == answer[r].key
<1>1. answer[r] \in [kind : Kinds, key : Nat] /\ answer[r].kind = "none"
  BY DEF ControlInv, TypeOK, Kinds, Requested
<1>2. answer[r] = [kind |-> "none", key |-> k] /\ k \in Nat  BY <1>1
<1>3. /\ on' = [on EXCEPT ![r] = s] /\ s \in Sessions \cup {NoSession}
      /\ answer = [answer EXCEPT ![r] = [kind |-> "none", key |-> k]]
      /\ UNCHANGED sessionVars
  BY <1>2 DEF ControlInv, TypeOK
<1>4. /\ p \in Pcs \ {"spawn", "insert", "key", "ended?", "rotate", "kill!"}
      /\ "none" \in Kinds /\ "refused" \in Kinds
  BY DEF Ops, Pcs, Kinds
<1> HIDE DEF s, k
<1>5. CASE UNCHANGED answer /\ p # "answered"
  <2>1. answer' = [answer EXCEPT ![r] = [kind |-> "none", key |-> k]]  BY <1>3, <1>5
  <2> QED  BY <1>2, <1>3, <1>4, <1>5, <2>1, GoesOn
<1>6. CASE answer' = [answer EXCEPT ![r] = [kind |-> "refused", key |-> 0]] /\ p = "answered"
  BY <1>3, <1>4, <1>6, GoesOn
<1> QED  BY <1>5, <1>6

LEMMA FitsKept == ASSUME ControlInv, UNCHANGED fits PROVE fits' \in [Requests -> BOOLEAN]
BY DEF ControlInv, TypeOK

\* Steps of a request that change nothing of the sessions.
LEMMA AskStep == ASSUME ControlInv, NEW r \in Requests, Ask(r) PROVE ControlInv'
<1> DEFINE Asks(op, wraps) ==
             /\ fits' = [fits EXCEPT ![r] = Entitled(op, wraps)]
             /\ \/ Answer(r, "refused", 0) /\ UNCHANGED name
                \/ /\ pc' = [pc EXCEPT ![r] = op] /\ UNCHANGED answer
                   /\ \E i \in IF op \in {"attach", "kill"} THEN Ids ELSE {None} :
                        name' = [name EXCEPT ![r] = i]
<1>0. PICK op \in Ops : \E wraps \in Wrappings(op) : Asks(op, wraps)  BY DEF Ask
<1>1. PICK wraps \in Wrappings(op) : Asks(op, wraps)  BY <1>0
<1>2. pc[r] = "new" /\ UNCHANGED <<on, sessionVars>>  BY DEF Ask
<1>3. fits' \in [Requests -> BOOLEAN]
  <2>1. Entitled(op, wraps) \in BOOLEAN  BY DEF Entitled
  <2> QED  BY <1>1, <2>1 DEF ControlInv, TypeOK
<1>4. CASE Answer(r, "refused", 0) /\ UNCHANGED name
  <2>1. name' = [name EXCEPT ![r] = name[r]] /\ name[r] \in Ids \cup {None}
    BY <1>4 DEF ControlInv, TypeOK
  <2> QED  BY <1>2, <1>3, <1>4, <2>1, StillAsked DEF Answer
<1>5. CASE /\ pc' = [pc EXCEPT ![r] = op] /\ UNCHANGED answer
           /\ \E i \in IF op \in {"attach", "kill"} THEN Ids ELSE {None} :
                name' = [name EXCEPT ![r] = i]
  <2>1. PICK i \in IF op \in {"attach", "kill"} THEN Ids ELSE {None} :
          name' = [name EXCEPT ![r] = i]
    BY <1>5
  <2>2. /\ i \in Ids \cup {None} /\ (op \in {"attach", "kill"} => i \in Ids)
        /\ op \in Ops \cup {"answered"} /\ op # "answered"
    BY DEF Ops
  <2> QED  BY <1>2, <1>3, <1>5, <2>1, <2>2, StillAsked
<1> QED  BY <1>1, <1>4, <1>5

LEMMA FailStep == ASSUME ControlInv, NEW r \in Requests, SpawnFails(r) PROVE ControlInv'
<1>1. on[r] \in Sessions \cup {NoSession} /\ name[r] \in Ids \cup {None}
  BY DEF ControlInv, TypeOK
<1>2. /\ on' = [on EXCEPT ![r] = on[r]] /\ name' = [name EXCEPT ![r] = name[r]]
  BY DEF SpawnFails, ControlInv, TypeOK
<1> QED  BY <1>1, <1>2, FitsKept, GoesOn DEF SpawnFails, Answer, Kinds, Pcs

LEMMA CreatedStep == ASSUME ControlInv, NEW r \in Requests, Created(r) PROVE ControlInv'
<1> DEFINE s == on[r]  j == psk[s]
<1>1. name[r] \in Ids \cup {None} /\ s \in 1..spawned /\ s \in Sessions /\ Makes(r)
  BY ControlAssumption DEF ControlInv, TypeOK, Requested, Created, Sessions, Makes
<1>2. /\ on' = [on EXCEPT ![r] = s] /\ name' = [name EXCEPT ![r] = name[r]]
      /\ pc[r] = "key" /\ UNCHANGED sessionVars /\ fits' \in [Requests -> BOOLEAN]
  BY FitsKept DEF Created, ControlInv, TypeOK
<1>3. /\ pc' = [pc EXCEPT ![r] = "answered"]
      /\ answer' = [answer EXCEPT ![r] = [kind |-> "created", key |-> j]]
  BY DEF Created, Answer
<1>4. j \in Nat /\ j <= psk[s] /\ s = on[r]  BY <1>1 DEF ControlInv, TypeOK
<1> HIDE DEF s, j
<1> QED  BY <1>1, <1>2, <1>3, <1>4, GoesOn DEF Kinds, Pcs

LEMMA LsStep == ASSUME ControlInv, NEW r \in Requests, Ls(r) PROVE ControlInv'
<1>1. on[r] \in Sessions \cup {NoSession} /\ name[r] \in Ids \cup {None}
  BY DEF ControlInv, TypeOK
<1>2. /\ on' = [on EXCEPT ![r] = on[r]] /\ name' = [name EXCEPT ![r] = name[r]]
  BY DEF Ls, ControlInv, TypeOK
<1> QED  BY <1>1, <1>2, FitsKept, GoesOn DEF Ls, Answer, Kinds, Pcs

LEMMA FindStep == ASSUME ControlInv, NEW r \in Requests, Find(r) PROVE ControlInv'
<1> USE DEF ControlInv
<1>1. /\ pc[r] \in {"attach", "kill"} /\ name[r] \in Ids /\ on[r] \in Sessions \cup {NoSession}
      /\ name' = [name EXCEPT ![r] = name[r]] /\ UNCHANGED sessionVars /\ fits' \in [Requests -> BOOLEAN]
      /\ answer[r].kind = "none" /\ answer[r].key \in Nat
      /\ answer = [answer EXCEPT ![r] = [kind |-> "none", key |-> answer[r].key]]
  <2>1. answer[r] \in [kind : Kinds, key : Nat] /\ answer[r].kind = "none" /\ name[r] \in Ids
    BY DEF TypeOK, Kinds, Requested, Find
  <2>2. answer[r] = [kind |-> "none", key |-> answer[r].key]  BY <2>1
  <2> QED  BY <2>1, <2>2, FitsKept DEF TypeOK, Find
<1>2. CASE registry[name[r]] = NoSession
  <2>1. Answer(r, "failed", 0) /\ on' = [on EXCEPT ![r] = on[r]]
    BY <1>2 DEF Find, TypeOK
  <2> QED  BY <1>1, <2>1, GoesOn DEF Answer, Kinds, Pcs
<1>3. CASE registry[name[r]] # NoSession
  <2> DEFINE s == registry[name[r]]
  <2>1. s \in 1..spawned /\ s \in Sessions
    <3>1. s \in Sessions /\ listed[s]  BY <1>1, <1>3 DEF Agree, TypeOK
    <3>2. spawned \in Nat  BY DEF TypeOK
    <3> QED  BY <3>1, <3>2, ControlAssumption DEF Agree, Sessions
  <2>2. on' = [on EXCEPT ![r] = s] /\ UNCHANGED answer
    BY <1>3 DEF Find
  <2>3. PICK p \in {"ended?", "kill!"} : pc' = [pc EXCEPT ![r] = p]
    BY <1>1, <1>3 DEF Find, TypeOK
  <2> HIDE DEF s
  <2>4. CASE p = "ended?"  BY <1>1, <2>1, <2>2, <2>3, <2>4, GoesOn DEF Kinds, Pcs
  <2>5. CASE p = "kill!"  BY <1>1, <2>1, <2>2, <2>3, <2>5, GoesOn DEF Kinds, Pcs
  <2> QED  BY <2>3, <2>4, <2>5
<1> QED  BY <1>2, <1>3

LEMMA IsEndedStep == ASSUME ControlInv, NEW r \in Requests, IsEnded(r) PROVE ControlInv'
<1> USE DEF ControlInv
<1>1. /\ pc[r] = "ended?" /\ name[r] \in Ids \cup {None} /\ on[r] \in 1..spawned
      /\ on[r] \in Sessions
      /\ name' = [name EXCEPT ![r] = name[r]] /\ on' = [on EXCEPT ![r] = on[r]]
      /\ UNCHANGED sessionVars /\ fits' \in [Requests -> BOOLEAN] /\ answer[r].key \in Nat
      /\ answer = [answer EXCEPT ![r] = [kind |-> "none", key |-> answer[r].key]]
  <2>1. answer[r] \in [kind : Kinds, key : Nat] /\ answer[r].kind = "none" /\ on[r] \in 1..spawned
    BY DEF TypeOK, Kinds, Requested, IsEnded
  <2>2. answer[r] = [kind |-> "none", key |-> answer[r].key]  BY <2>1
  <2>3. fits' \in [Requests -> BOOLEAN]  BY FitsKept DEF IsEnded
  <2> QED  BY <2>1, <2>2, <2>3, ControlAssumption DEF TypeOK, IsEnded, Sessions
<1>2. CASE Answer(r, "failed", 0)
  BY <1>1, <1>2, GoesOn DEF Answer, Kinds, Pcs
<1>3. CASE pc' = [pc EXCEPT ![r] = "rotate"] /\ UNCHANGED answer
  BY <1>1, <1>3, GoesOn DEF Kinds, Pcs
<1> QED  BY <1>2, <1>3 DEF IsEnded

-----------------------------------------------------------------------------
(* Steps that draw an id, make a session, list it or rotate its key.       *)

LEMMA DrawStep == ASSUME ControlInv, NEW r \in Requests, Draw(r) PROVE ControlInv'
<1> USE DEF ControlInv
<1>1. PICK i \in Ids \ Pending(r) : registry[i] = NoSession /\ name' = [name EXCEPT ![r] = i]
  BY DEF Draw
<1>2. /\ pc[r] = "create" /\ pc' = [pc EXCEPT ![r] = "spawn"]
      /\ UNCHANGED <<on, answer, fits>> /\ UNCHANGED sessionVars
  BY DEF Draw
<1> USE DEF sessionVars
<1>3. /\ pc'[r] = "spawn" /\ name'[r] = i
      /\ \A q \in Requests \ {r} : pc'[q] = pc[q] /\ name'[q] = name[q]
  BY <1>1, <1>2 DEF TypeOK
<1>4. TypeOK'  BY <1>1, <1>2 DEF TypeOK
<1>5. Requested'  BY <1>2, <1>3 DEF Requested
<1>6. DrawnApart'
  <2>1. \A q \in Requests \ {r} : Drawn(q) => name[q] # i  BY <1>1 DEF Pending, Drawn
  <2> QED  BY <1>1, <1>2, <1>3, <2>1 DEF DrawnApart, Drawn
<1>7. OneMaker'
  <2>1. \A q \in Requests : Makes(q)' => Makes(q)  BY <1>2, <1>3 DEF Makes
  <2> QED  BY <1>2, <1>3, <2>1 DEF OneMaker
<1>8. Agree'  BY <1>2 DEF Agree
<1>9. Given'  BY <1>2 DEF Given
<1> QED  BY <1>4, <1>5, <1>6, <1>7, <1>8, <1>9

LEMMA SpawnStep == ASSUME ControlInv, NEW r \in Requests, Spawn(r) PROVE ControlInv'
<1> USE DEF ControlInv
<1> DEFINE s == spawned + 1
<1>1. /\ pc[r] = "spawn" /\ spawned' = s /\ s \in Sessions /\ spawned \in Nat /\ s > spawned
      /\ id' = [id EXCEPT ![s] = name[r]] /\ shell' = [shell EXCEPT ![s] = "runs"]
      /\ psk' = [psk EXCEPT ![s] = 1] /\ on' = [on EXCEPT ![r] = s]
      /\ pc' = [pc EXCEPT ![r] = "insert"]
      /\ UNCHANGED <<name, answer, fits, ended, removing, busy, listed, registry>>
  BY ControlAssumption DEF Spawn, TypeOK, Sessions
<1>2. \A t \in Sessions \ {s} : t > spawned' <=> t > spawned
  BY <1>1 DEF Sessions
<1>3. \A t \in 1..spawned : t \in Sessions \ {s}
  BY <1>1, ControlAssumption DEF Sessions
<1>4. \A t \in 1..spawned' : t = s \/ t \in 1..spawned
  BY <1>1
<1>5. s \in 1..spawned' /\ \A t \in 1..spawned : t \in 1..spawned'
  BY <1>1
<1>6. \A t \in Sessions : t > spawned' => t # s /\ t > spawned
  BY <1>1 DEF Sessions
<1>7. s \in 0..MaxSessions  BY <1>1 DEF Sessions
<1>8. psk[s] = 0 /\ \A t \in Sessions \ {s} : t <= spawned' <=> t <= spawned
  <2>1. psk[s] \in Nat /\ (psk[s] > 0 <=> s <= spawned)  BY <1>1 DEF TypeOK
  <2>2. psk[s] = 0  BY <1>1, <2>1
  <2>3. \A t \in Sessions : t \in Nat  BY DEF Sessions
  <2> QED  BY <1>1, <2>2, <2>3
<1>9. s # NoSession /\ s \notin 1..spawned /\ s <= spawned'
  BY <1>1 DEF NoSession
<1> HIDE DEF s
<1>10. /\ shell[s] = "none" /\ ~listed[s] /\ ~ended[s] /\ ~removing[s] /\ name[r] \in Ids
       /\ registry[name[r]] = NoSession
  BY <1>1 DEF Agree, Requested, DrawnApart, Drawn, s
<1>11. /\ pc'[r] = "insert" /\ on'[r] = s /\ id'[s] = name[r] /\ shell'[s] = "runs" /\ psk'[s] = 1
       /\ \A q \in Requests \ {r} : pc'[q] = pc[q] /\ on'[q] = on[q]
       /\ \A t \in Sessions \ {s} : id'[t] = id[t] /\ shell'[t] = shell[t] /\ psk'[t] = psk[t]
  BY <1>1 DEF TypeOK
<1>12. TypeOK'
  <2>1. \A t \in Sessions : psk'[t] > 0 <=> t <= spawned'
    BY <1>8, <1>9, <1>11 DEF TypeOK
  <2>2. spawned' \in 0..MaxSessions  BY <1>1, <1>7
  <2> QED  BY <1>1, <1>10, <2>1, <2>2 DEF TypeOK
<1>13. Requested'
  <2>1. answer[r].kind = "none" /\ \A q \in Requests \ {r} : on[q] = s => on[q] \notin 1..spawned
    BY <1>1, <1>9 DEF Requested
  <2> QED  BY <1>1, <1>3, <1>5, <1>10, <1>11, <2>1 DEF Requested
<1>14. DrawnApart'  BY <1>1, <1>11 DEF DrawnApart, Drawn
<1>15. OneMaker'
  <2>1. answer[r].kind = "none"  BY <1>1 DEF Requested
  <2>2. \A q \in Requests \ {r} : Makes(q)' => Makes(q) /\ on'[q] = on[q] /\ on[q] \in 1..spawned
    BY <1>1, <1>11 DEF Makes, Requested
  <2>3. \A q \in Requests \ {r} : Makes(q)' => on'[q] # s  BY <2>2, <1>9
  <2>4. ASSUME NEW t \in 1..spawned', ~listed[t]
        PROVE  \E q \in Requests : pc'[q] = "insert" /\ on'[q] = t
    <3>1. CASE t = s  BY <3>1, <1>11
    <3>2. CASE t \in 1..spawned
      <4>1. PICK q \in Requests : pc[q] = "insert" /\ on[q] = t  BY <2>4, <3>2 DEF OneMaker
      <4> QED  BY <4>1, <1>1, <1>11
    <3> QED  BY <3>1, <3>2, <1>4
  <2> QED  BY <1>1, <1>11, <2>2, <2>3, <2>4 DEF OneMaker
<1>16. Agree'
  <2>1. \A t \in Sessions : shell'[t] # "none" => id'[t] \in Ids
    BY <1>10, <1>11 DEF Agree
  <2>2. \A t \in Sessions : t > spawned' <=> shell'[t] = "none"
    <3>1. ~(s > spawned')  BY <1>1, <1>6
    <3> QED  BY <1>2, <1>11, <3>1 DEF Agree
  <2>3. \A t \in Sessions : ended[t] \/ listed[t] => shell'[t] # "none"
    BY <1>10, <1>11 DEF Agree
  <2>4. \A i \in Ids : registry[i] # NoSession => registry[i] \in Sessions \ {s}
    BY <1>10 DEF Agree, TypeOK
  <2> QED  BY <1>1, <1>10, <1>11, <2>1, <2>2, <2>3, <2>4 DEF Agree
<1>17. Given'
  <2>1. \A q \in Requests : answer[q].kind \in {"created", "attached"} =>
          on[q] \in 1..spawned /\ q # r
    BY <1>1 DEF Requested
  <2>2. \A q \in Requests : answer[q].kind \in {"created", "attached"} =>
          on'[q] = on[q] /\ psk'[on[q]] = psk[on[q]]
    BY <1>3, <1>11, <2>1
  <2> QED  BY <1>1, <2>2 DEF Given
<1> QED  BY <1>12, <1>13, <1>14, <1>15, <1>16, <1>17

LEMMA InsertStep == ASSUME ControlInv, NEW r \in Requests, Insert(r) PROVE ControlInv'
<1> USE DEF ControlInv
<1> DEFINE s == on[r]
<1>1. /\ pc[r] = "insert" /\ s \in 1..spawned /\ s \in Sessions /\ id[s] = name[r] /\ ~listed[s]
      /\ name[r] \in Ids /\ registry[name[r]] = NoSession /\ answer[r].kind = "none"
  BY ControlAssumption DEF Insert, Requested, DrawnApart, Drawn, TypeOK, Sessions
<1>2. /\ registry' = [registry EXCEPT ![name[r]] = s] /\ listed' = [listed EXCEPT ![s] = TRUE]
      /\ pc' = [pc EXCEPT ![r] = "key"]
      /\ UNCHANGED <<name, on, answer, fits, spawned, id, shell, ended, removing, psk, busy>>
  BY <1>1 DEF Insert
<1>3. /\ shell[s] # "none" /\ \A q \in Requests \ {r} : Makes(q) => on[q] # s
      /\ s # NoSession
  <2>1. s # 0  BY <1>1 DEF TypeOK
  <2>2. \A q \in Requests \ {r} : Makes(q) => on[q] # s  BY <1>1 DEF OneMaker, Makes
  <2>3. shell[s] # "none"
    <3>1. ~(s > spawned)  BY <1>1 DEF TypeOK
    <3> QED  BY <1>1, <3>1 DEF Agree
  <2> QED  BY <2>1, <2>2, <2>3 DEF NoSession
<1> HIDE DEF s
<1>4. /\ pc'[r] = "key" /\ listed'[s] /\ registry'[name[r]] = s
      /\ \A q \in Requests \ {r} : pc'[q] = pc[q]
      /\ \A t \in Sessions \ {s} : listed'[t] = listed[t]
      /\ \A i \in Ids \ {name[r]} : registry'[i] = registry[i]
  BY <1>1, <1>2 DEF TypeOK
<1>5. TypeOK'  BY <1>1, <1>2 DEF TypeOK
<1>6. Requested'
  <2>1. \A q \in Requests \ {r} : pc[q] = "insert" => on[q] # s  BY <1>3 DEF Makes
  <2>2. s = on[r]  BY DEF s
  <2> QED  BY <1>1, <1>2, <1>4, <2>1, <2>2 DEF Requested, TypeOK
<1>7. DrawnApart'
  <2>1. \A q \in Requests \ {r} : Drawn(q) => name[q] # name[r]
    BY <1>1 DEF DrawnApart, Drawn
  <2>2. \A q \in Requests \ {r} : Drawn(q) => name[q] \in Ids  BY DEF Requested, Drawn
  <2> QED  BY <1>2, <1>4, <2>1, <2>2 DEF DrawnApart, Drawn
<1>8. OneMaker'
  <2>1. \A q \in Requests : Makes(q)' => Makes(q)  BY <1>1, <1>2, <1>4 DEF Makes
  <2>2. ASSUME NEW t \in 1..spawned, ~listed'[t]
        PROVE  \E q \in Requests : pc'[q] = "insert" /\ on[q] = t
    <3>1. t \in Sessions  BY <2>2, ControlAssumption DEF TypeOK, Sessions
    <3>2. t # s /\ ~listed[t]  BY <2>2, <1>4, <3>1
    <3>3. PICK q \in Requests : pc[q] = "insert" /\ on[q] = t  BY <2>2, <3>2 DEF OneMaker
    <3>4. q # r  BY <3>2, <3>3 DEF s
    <3> QED  BY <3>3, <3>4, <1>4
  <2> QED  BY <1>2, <2>1, <2>2 DEF OneMaker
<1>9. Agree'
  <2>1. \A t \in Sessions \ {s} : listed[t] /\ (ended[t] => removing[t]) =>
          registry'[id[t]] = t
    <3> SUFFICES ASSUME NEW t \in Sessions \ {s}, listed[t], ended[t] => removing[t]
                 PROVE  registry'[id[t]] = t
      OBVIOUS
    <3>1. registry[id[t]] = t /\ id[t] \in Ids  BY DEF Agree
    <3>2. t # NoSession  BY DEF NoSession, Sessions
    <3> QED  BY <1>1, <1>4, <3>1, <3>2
  <2>2. \A i \in Ids : registry'[i] # NoSession => id[registry'[i]] = i /\ listed'[registry'[i]]
    <3> SUFFICES ASSUME NEW i \in Ids \ {name[r]}, registry[i] # NoSession
                 PROVE  id[registry[i]] = i /\ listed'[registry[i]]
      BY <1>1, <1>4
    <3>1. registry[i] \in Sessions /\ id[registry[i]] = i /\ listed[registry[i]]
      BY DEF Agree, TypeOK
    <3> QED  BY <1>4, <3>1
  <2>3. \A t \in Sessions : ended[t] \/ listed'[t] => shell[t] # "none"
    BY <1>3, <1>4 DEF Agree
  <2>4. registry'[id[s]] = s  BY <1>1, <1>4
  <2> QED  BY <1>2, <2>1, <2>2, <2>3, <2>4 DEF Agree
<1>10. Given'  BY <1>2 DEF Given
<1> QED  BY <1>5, <1>6, <1>7, <1>8, <1>9, <1>10

LEMMA RotateStep == ASSUME ControlInv, NEW r \in Requests, Rotate(r) PROVE ControlInv'
<1> USE DEF ControlInv
<1> DEFINE s == on[r]  k == psk[s] + 1
<1>1. /\ pc[r] = "rotate" /\ s \in 1..spawned /\ s \in Sessions /\ k \in Nat /\ k > 1
      /\ psk[s] \in Nat /\ k > psk[s] /\ answer[r].kind = "none"
  <2>1. pc[r] = "rotate" /\ s \in 1..spawned /\ s \in Sessions /\ answer[r].kind = "none"
    BY ControlAssumption DEF Rotate, Requested, TypeOK, Sessions
  <2>2. psk[s] \in Nat /\ psk[s] > 0  BY <2>1 DEF TypeOK
  <2> QED  BY <2>1, <2>2
<1>2. /\ psk' = [psk EXCEPT ![s] = k] /\ pc' = [pc EXCEPT ![r] = "answered"]
      /\ answer' = [answer EXCEPT ![r] = [kind |-> "attached", key |-> k]]
      /\ UNCHANGED <<name, on, fits, spawned, id, shell, ended, removing, busy, listed,
                  registry>>
  BY DEF Rotate, Answer
<1>3. s = on[r]  OBVIOUS
<1> HIDE DEF s, k
<1>4. /\ pc'[r] = "answered" /\ answer'[r].kind = "attached" /\ answer'[r].key = k
      /\ \A q \in Requests \ {r} : pc'[q] = pc[q] /\ answer'[q] = answer[q]
      /\ psk'[s] = k /\ \A t \in Sessions \ {s} : psk'[t] = psk[t]
  BY <1>1, <1>2 DEF TypeOK
<1>5. TypeOK'
  <2>1. answer' \in [Requests -> [kind : Kinds, key : Nat]]
    <3>1. [kind |-> "attached", key |-> k] \in [kind : Kinds, key : Nat]
      BY <1>1 DEF Kinds
    <3> QED  BY <1>2, <3>1 DEF TypeOK, Kinds
  <2>2. \A t \in Sessions : psk'[t] > 0 <=> t <= spawned'
    <3>1. psk'[s] > 0 /\ s <= spawned'  BY <1>1, <1>2, <1>4 DEF TypeOK
    <3> QED  BY <1>2, <1>4, <3>1 DEF TypeOK
  <2> QED  BY <1>1, <1>2, <2>1, <2>2 DEF TypeOK, Kinds
<1>6. Requested'  BY <1>1, <1>2, <1>3, <1>4 DEF Requested
<1>7. DrawnApart'  BY <1>2, <1>4 DEF DrawnApart, Drawn
<1>8. OneMaker'
  <2>1. \A q \in Requests : Makes(q)' => Makes(q)  BY <1>4 DEF Makes
  <2>2. \A q \in Requests : pc[q] = "insert" => pc'[q] = "insert"  BY <1>1, <1>4
  <2> QED  BY <1>2, <2>1, <2>2 DEF OneMaker
<1>9. Agree'  BY <1>2 DEF Agree
<1>10. Given'
  <2>1. ASSUME NEW q \in Requests \ {r}, answer[q].kind \in {"created", "attached"}
        PROVE  on[q] \in Sessions /\ psk[on[q]] \in Nat /\ psk'[on[q]] \in Nat
               /\ psk[on[q]] <= psk'[on[q]]
    <3>1. on[q] \in 1..spawned  BY <2>1 DEF Requested
    <3>2. on[q] \in Sessions  BY <3>1, ControlAssumption DEF TypeOK, Sessions
    <3>3. psk[on[q]] \in Nat  BY <3>2 DEF TypeOK
    <3>4. psk'[on[q]] = psk[on[q]] \/ on[q] = s  BY <1>4, <3>2
    <3> QED  BY <1>1, <1>4, <3>2, <3>3, <3>4
  <2>2. \A q \in Requests : answer[q].key \in Nat  BY DEF TypeOK
  <2>3. ASSUME NEW q \in Requests \ {r}, answer[q].kind = "created"
        PROVE  answer[q].key <= psk'[on[q]]
    <3>1. answer[q].key <= psk[on[q]]  BY <2>3 DEF Given
    <3> QED  BY <2>1, <2>2, <2>3, <3>1
  <2>4. ASSUME NEW q \in Requests \ {r}, answer[q].kind = "attached"
        PROVE  answer[q].key \in 2..psk'[on[q]] /\ (on[q] = s => answer[q].key # k)
    <3>1. answer[q].key \in 2..psk[on[q]]  BY <2>4 DEF Given
    <3>2. psk[on[q]] \in Nat /\ psk'[on[q]] \in Nat /\ psk[on[q]] <= psk'[on[q]]
      BY <2>1, <2>4
    <3> QED  BY <1>1, <3>1, <3>2
  <2>5. k \in 2..psk'[s]  BY <1>1, <1>4
  <2> QED  BY <1>2, <1>3, <1>4, <2>3, <2>4, <2>5 DEF Given
<1> QED  BY <1>5, <1>6, <1>7, <1>8, <1>9, <1>10

-----------------------------------------------------------------------------
(* Steps of the sessions.                                                  *)

\* Steps that change no request, and of the sessions neither ids nor what is listed.
LEMMA SessionKeeps ==
  ASSUME ControlInv, UNCHANGED requestVars, UNCHANGED <<spawned, id, psk, listed>>, TypeOK', Agree',
         \A i \in Ids : registry'[i] = registry[i] \/ registry'[i] = NoSession
  PROVE  ControlInv'
<1> USE DEF ControlInv, requestVars
<1>1. Requested'  BY DEF Requested
<1>2. DrawnApart'
  <2>1. \A r \in Requests : Drawn(r) => name[r] \in Ids  BY DEF Requested, Drawn
  <2> QED  BY <2>1 DEF DrawnApart, Drawn
<1>3. OneMaker'  BY DEF OneMaker, Makes
<1>4. Given'  BY DEF Given
<1> QED  BY <1>1, <1>2, <1>3, <1>4

LEMMA KillStep == ASSUME ControlInv, NEW r \in Requests, Kill(r) PROVE ControlInv'
<1> USE DEF ControlInv
<1> DEFINE s == on[r]
<1>1. /\ pc[r] = "kill!" /\ s \in 1..spawned /\ s \in Sessions /\ answer[r].kind = "none"
  BY ControlAssumption DEF Kill, Requested, TypeOK, Sessions
<1>2. /\ pc' = [pc EXCEPT ![r] = "answered"]
      /\ answer' = [answer EXCEPT ![r] = [kind |-> "ok", key |-> 0]]
      /\ shell' = [shell EXCEPT ![s] = IF @ = "runs" THEN "killed" ELSE @]
      /\ UNCHANGED <<name, on, fits, spawned, id, ended, removing, psk, busy, listed,
                  registry>>
  BY DEF Kill, Answer
<1> HIDE DEF s
<1>3. /\ pc'[r] = "answered" /\ answer'[r].kind = "ok"
      /\ \A q \in Requests \ {r} : pc'[q] = pc[q] /\ answer'[q] = answer[q]
  BY <1>1, <1>2 DEF TypeOK
<1>4. TypeOK'
  <2>1. [kind |-> "ok", key |-> 0] \in [kind : Kinds, key : Nat]  BY DEF Kinds
  <2>2. answer' \in [Requests -> [kind : Kinds, key : Nat]]  BY <1>2, <2>1 DEF TypeOK, Kinds
  <2>3. shell' \in [Sessions -> {"none", "runs", "killed", "exited"}]  BY <1>2 DEF TypeOK
  <2> QED  BY <1>2, <2>2, <2>3 DEF TypeOK, Kinds
<1>5. Requested'  BY <1>1, <1>2, <1>3 DEF Requested
<1>6. DrawnApart'  BY <1>1, <1>2, <1>3 DEF DrawnApart, Drawn
<1>7. OneMaker'
  <2>1. \A q \in Requests : Makes(q)' => Makes(q)  BY <1>3 DEF Makes
  <2>2. \A q \in Requests : pc[q] = "insert" => pc'[q] = "insert"  BY <1>1, <1>3
  <2> QED  BY <1>2, <2>1, <2>2 DEF OneMaker
<1>8. Agree'
  <2>1. \A t \in Sessions : shell'[t] = "none" <=> shell[t] = "none"  BY <1>2 DEF TypeOK
  <2> QED  BY <1>2, <2>1 DEF Agree
<1>9. Given'  BY <1>2, <1>3 DEF Given
<1> QED  BY <1>4, <1>5, <1>6, <1>7, <1>8, <1>9

LEMMA ExitsStep == ASSUME ControlInv, NEW s \in Sessions, Exits(s) PROVE ControlInv'
<1>1. \A t \in Sessions : shell'[t] = "none" <=> shell[t] = "none"
  BY DEF Exits, ControlInv, TypeOK
<1>2. TypeOK'  BY DEF Exits, ControlInv, TypeOK, requestVars
<1>3. Agree'  BY <1>1 DEF Exits, ControlInv, Agree
<1> QED  BY <1>2, <1>3, SessionKeeps DEF Exits

LEMMA EndsStep == ASSUME ControlInv, NEW s \in Sessions, Ends(s) PROVE ControlInv'
<1>1. TypeOK'  BY DEF Ends, ControlInv, TypeOK, requestVars
<1>2. /\ shell[s] = "exited" /\ ~ended[s] /\ ended'[s] /\ removing'[s]
      /\ \A t \in Sessions \ {s} : ended'[t] = ended[t] /\ removing'[t] = removing[t]
  BY DEF Ends, ControlInv, TypeOK
<1>3. Agree'  BY <1>2 DEF Ends, ControlInv, Agree
<1> QED  BY <1>1, <1>3, SessionKeeps DEF Ends

LEMMA RemovesStep == ASSUME ControlInv, NEW s \in Sessions, Removes(s) PROVE ControlInv'
<1>1. TypeOK'  BY DEF Removes, ControlInv, TypeOK, requestVars
<1>2. removing[s] /\ ended[s] /\ shell[s] # "none" /\ id[s] \in Ids
  BY DEF Removes, ControlInv, Agree
<1>3. /\ ~removing'[s] /\ \A t \in Sessions \ {s} : removing'[t] = removing[t]
      /\ registry'[id[s]] = NoSession
      /\ \A i \in Ids \ {id[s]} : registry'[i] = registry[i]
  BY <1>2 DEF Removes, ControlInv, TypeOK
\* What the registry has under the id is the session, or nothing.
<1>4. registry[id[s]] \in {s, NoSession}
  <2>1. CASE listed[s]  BY <1>2, <2>1 DEF ControlInv, Agree
  <2>2. CASE ~listed[s]
    <3>1. s \in 1..spawned  BY <1>2, ControlAssumption DEF ControlInv, Agree, TypeOK, Sessions
    <3>2. PICK r \in Requests : pc[r] = "insert" /\ on[r] = s
      BY <2>2, <3>1 DEF ControlInv, OneMaker
    <3> QED  BY <3>2 DEF ControlInv, Requested, DrawnApart, Drawn
  <2> QED  BY <2>1, <2>2
<1>5. Agree'
  <2>1. ASSUME NEW t \in Sessions, listed[t], ended[t] => removing'[t]
        PROVE  registry'[id[t]] = t
    <3>1. t # s  BY <1>2, <1>3, <2>1
    <3>2. registry[id[t]] = t /\ id[t] \in Ids  BY <1>3, <2>1, <3>1 DEF ControlInv, Agree
    <3>3. t # NoSession  BY DEF Sessions, NoSession
    <3> QED  BY <1>3, <1>4, <3>1, <3>2, <3>3
  <2>2. \A t \in Sessions : removing'[t] => ended[t]  BY <1>3 DEF ControlInv, Agree
  <2>3. \A i \in Ids : registry'[i] # NoSession => registry'[i] = registry[i]  BY <1>3
  <2> QED  BY <2>1, <2>2, <2>3 DEF Removes, ControlInv, Agree
<1> QED  BY <1>1, <1>3, <1>5, SessionKeeps DEF Removes

LEMMA ConnectsStep == ASSUME ControlInv, NEW s \in Sessions, Connects(s) PROVE ControlInv'
<1>1. TypeOK'  BY DEF Connects, ControlInv, TypeOK, requestVars
<1>2. Agree'  BY DEF Connects, ControlInv, Agree
<1> QED  BY <1>1, <1>2, SessionKeeps DEF Connects

-----------------------------------------------------------------------------
(* Results.                                                                *)

LEMMA ControlStep == ASSUME ControlInv, [Next]_vars PROVE ControlInv'
<1>1. CASE Next
  <2>1. ASSUME NEW r \in Requests, Ask(r) \/ RequestStep(r) PROVE ControlInv'
    BY <2>1, AskStep, DrawStep, SpawnStep, FailStep, InsertStep, CreatedStep, FindStep,
       IsEndedStep, RotateStep, LsStep, KillStep DEF RequestStep
  <2>2. ASSUME NEW s \in Sessions, Exits(s) \/ Ends(s) \/ Removes(s) \/ Connects(s)
        PROVE  ControlInv'
    BY <2>2, ExitsStep, EndsStep, RemovesStep, ConnectsStep
  <2> QED  BY <1>1, <2>1, <2>2 DEF Next
<1>2. CASE UNCHANGED vars
  <2> USE <1>2 DEF vars, requestVars, sessionVars
  <2>1. TypeOK' /\ Agree'  BY DEF ControlInv, TypeOK, Agree
  <2> QED  BY <2>1, SessionKeeps
<1> QED  BY <1>1, <1>2

THEOREM ControlInvariant == Spec => []ControlInv
BY ControlInit, ControlStep, PTL DEF Spec

\* Every state has the specification's types.
THEOREM ControlTypes == Spec => []TypeOK
BY ControlInvariant, PTL DEF ControlInv

\* A session that lives and was published is in the registry, however creates, ends
\* and removals overlap.
THEOREM LiveAreListed == Spec => []LiveListed
<1>1. Agree => LiveListed  BY DEF Agree, LiveListed
<1> QED  BY <1>1, ControlInvariant, PTL DEF ControlInv

\* No two requests are given the same key of a session, but for the overtaken Create.
THEOREM KeysAreFresh == Spec => []FreshKeys
<1>1. ASSUME ControlInv PROVE FreshKeys
  <2> SUFFICES ASSUME NEW q \in Requests, NEW r \in Requests, q # r, on[q] = on[r],
                      answer[q].kind \in {"created", "attached"},
                      answer[r].kind \in {"created", "attached"},
                      answer[q].key = answer[r].key
               PROVE  "created" \in {answer[q].kind, answer[r].kind} /\ answer[q].key > 1
    BY DEF FreshKeys
  <2>1. ~(answer[q].kind = "created" /\ answer[r].kind = "created")
    BY <1>1 DEF ControlInv, OneMaker, Makes
  <2>2. ~(answer[q].kind = "attached" /\ answer[r].kind = "attached")
    BY <1>1 DEF ControlInv, Given
  <2>3. ASSUME NEW p \in Requests, answer[p].kind = "attached" PROVE answer[p].key > 1
    <3>1. answer[p].key \in 2..psk[on[p]]  BY <1>1, <2>3 DEF ControlInv, Given
    <3> QED  BY <3>1
  <2> QED  BY <2>1, <2>2, <2>3
<1> QED  BY <1>1, ControlInvariant, PTL

-----------------------------------------------------------------------------
(* Which requests are served, whatever they are wrapped in.                *)

\* A request that has gone on fits, and one that was refused does not.
Asked ==
  \A r \in Requests :
    /\ pc[r] \notin {"new", "answered"} => fits[r]
    /\ answer[r].kind # "none" => (answer[r].kind = "refused" <=> ~fits[r])

\* A set of numbers has a least one: what induction over the wrappers rests on.
LEMMA LeastWrapper == ASSUME NEW T \in SUBSET Nat, T # {} PROVE \E m \in T : \A k \in T : m <= k
<1>1. PICK m \in T : \A k \in T : <<k, m>> \notin OpToRel(<, Nat)
  <2>1. IsWellFoundedOn(OpToRel(<, Nat), Nat)  BY NatLessThanWellFounded
  <2> QED  BY <2>1, WFMin
<1>2. ASSUME NEW k \in T, k < m PROVE FALSE
  BY <1>1, <1>2 DEF OpToRel
<1> QED  BY <1>2

\* execute_control's loop, over wrappers nested to any depth: it refuses if one of them
\* does not fit, and has checked a protocol if one of them is a protocol.
LEMMA VerdictIs ==
  ASSUME NEW s \in Seq(Wrappers)
  PROVE  Verdict(s) = IF \E i \in 1..Len(s) : ~Fits(s[i]) THEN "refused"
                      ELSE IF \E i \in 1..Len(s) : s[i].what = "protocol" THEN "checked"
                      ELSE "unchecked"
<1> DEFINE N == 0..Len(s)
           bad(n)  == \E i \in 1..n : ~Fits(s[i])
           prot(n) == \E i \in 1..n : s[i].what = "protocol"
           is(n) == IF bad(n) THEN "refused" ELSE IF prot(n) THEN "checked" ELSE "unchecked"
           Solves(f) == f = [n \in N |-> IF n = 0 THEN "unchecked" ELSE Unwrap(f[n - 1], s[n])]
           g == [n \in N |-> is(n)]
           after == CHOOSE f : Solves(f)
<1>1. Len(s) \in Nat  OBVIOUS
<1>2. is(0) = "unchecked"  BY Z3
<1>3. ASSUME NEW n \in N, n # 0 PROVE is(n) = Unwrap(is(n - 1), s[n])
  <2>1. n \in Nat /\ n - 1 \in Nat /\ \A i : i \in 1..n <=> i \in 1..(n - 1) \/ i = n
    BY <1>1, <1>3
  <2>2. bad(n) <=> bad(n - 1) \/ ~Fits(s[n])  BY <2>1, Zenon
  <2>3. prot(n) <=> prot(n - 1) \/ s[n].what = "protocol"  BY <2>1, Zenon
  <2> HIDE DEF bad, prot
  <2> QED  BY <2>2, <2>3 DEF Unwrap
<1> HIDE DEF is
<1>4. Solves(g)
  <2>1. ASSUME NEW n \in N
        PROVE  is(n) = IF n = 0 THEN "unchecked" ELSE Unwrap(g[n - 1], s[n])
    <3>1. CASE n = 0  BY <1>2, <3>1
    <3>2. CASE n # 0
      <4>1. n - 1 \in N  BY <1>1, <3>2
      <4> QED  BY <1>3, <3>2, <4>1
    <3> QED  BY <3>1, <3>2
  <2> QED  BY <2>1
<1>5. Solves(after)  BY <1>4, Zenon
<1> HIDE DEF after
<1>6. after[Len(s)] = is(Len(s))
  <2> DEFINE T == {n \in N : after[n] # is(n)}
  <2>1. SUFFICES ASSUME T # {} PROVE FALSE  BY <1>1
  <2>2. T \in SUBSET Nat  BY <1>1
  <2>3. PICK n \in T : \A k \in T : n <= k  BY <2>1, <2>2, LeastWrapper
  <2>4. after[n] = IF n = 0 THEN "unchecked" ELSE Unwrap(after[n - 1], s[n])  BY <1>5, <2>3
  <2>5. n # 0  BY <1>2, <2>3, <2>4
  <2>6. n - 1 \in N /\ n - 1 \notin T  BY <1>1, <2>3, <2>5
  <2>7. after[n - 1] = is(n - 1)  BY <2>6
  <2> QED  BY <1>3, <2>3, <2>4, <2>5, <2>7
<1>7. Verdict(s) = after[Len(s)]  BY DEF Verdict, after
<1> QED  BY <1>6, <1>7 DEF is

\* A request is refused if, and only if, it does not fit.
LEMMA RefusesUnfit ==
  ASSUME NEW op \in Ops, NEW wraps \in Wrappings(op)
  PROVE  Refuses(op, Verdict(wraps)) <=> ~Entitled(op, wraps)
<1>1. wraps \in Seq(Wrappers)  BY WrapsAreWrappers
<1> DEFINE bad == \E i \in 1..Len(wraps) : ~Fits(wraps[i])
           prot == \E i \in 1..Len(wraps) : wraps[i].what = "protocol"
<1>2. Verdict(wraps) = IF bad THEN "refused" ELSE IF prot THEN "checked" ELSE "unchecked"
  BY <1>1, VerdictIs, Zenon
<1>3. Entitled(op, wraps) <=> ~bad /\ (op \in {"create", "attach"} => prot)
  BY Zenon DEF Entitled
<1> HIDE DEF bad, prot
<1> QED  BY <1>2, <1>3 DEF Refuses

LEMMA AskedStep == ASSUME ControlInv, Asked, [Next]_vars PROVE Asked'
<1> SUFFICES ASSUME NEW r \in Requests, Ask(r) \/ RequestStep(r) PROVE Asked'
  <2>1. CASE UNCHANGED requestVars  BY <2>1 DEF Asked, requestVars
  <2>2. CASE \E s \in Sessions : Exits(s) \/ Ends(s) \/ Removes(s) \/ Connects(s)
    BY <2>1, <2>2 DEF Exits, Ends, Removes, Connects
  <2> QED  BY <2>1, <2>2 DEF Next, vars
<1>1. ASSUME UNCHANGED fits, pc[r] \notin {"new", "answered"},
             NEW p \in Pcs \ {"new"}, pc' = [pc EXCEPT ![r] = p],
             \/ UNCHANGED answer
             \/ \E k \in Kinds \ {"none", "refused"}, j \in Nat :
                  p = "answered" /\ answer' = [answer EXCEPT ![r] = [kind |-> k, key |-> j]]
      PROVE  Asked'
  <2>1. /\ pc'[r] = p /\ fits[r] /\ answer[r].kind = "none"
        /\ \A q \in Requests \ {r} : pc'[q] = pc[q] /\ answer'[q] = answer[q]
        /\ answer'[r].kind = "none" \/ answer'[r].kind \in Kinds \ {"none", "refused"}
    BY <1>1 DEF Asked, ControlInv, TypeOK, Requested
  <2> QED  BY <1>1, <2>1 DEF Asked
<1>2. CASE Ask(r)
  <2> DEFINE Asks(op, wraps) ==
               /\ fits' = [fits EXCEPT ![r] = Entitled(op, wraps)]
               /\ IF Refuses(op, Verdict(wraps)) THEN Answer(r, "refused", 0)
                  ELSE pc' = [pc EXCEPT ![r] = op] /\ UNCHANGED answer
  <2>0. PICK op \in Ops : \E wraps \in Wrappings(op) : Asks(op, wraps)  BY <1>2 DEF Ask
  <2>1. PICK wraps \in Wrappings(op) : Asks(op, wraps)  BY <2>0
  <2>2. /\ answer[r].kind = "none" /\ fits'[r] = Entitled(op, wraps)
        /\ \A q \in Requests \ {r} : fits'[q] = fits[q]
    BY <1>2, <2>1 DEF Ask, ControlInv, TypeOK, Requested
  <2>3. Refuses(op, Verdict(wraps)) <=> ~fits'[r]  BY <2>2, RefusesUnfit, Zenon
  <2>4. CASE Refuses(op, Verdict(wraps))
    <3>1. /\ pc'[r] = "answered" /\ answer'[r].kind = "refused"
          /\ \A q \in Requests \ {r} : pc'[q] = pc[q] /\ answer'[q] = answer[q]
      BY <2>1, <2>4 DEF Answer, ControlInv, TypeOK
    <3> QED  BY <2>2, <2>3, <2>4, <3>1 DEF Asked
  <2>5. CASE ~Refuses(op, Verdict(wraps))
    <3>1. UNCHANGED answer /\ \A q \in Requests \ {r} : pc'[q] = pc[q]
      BY <2>1, <2>5 DEF ControlInv, TypeOK
    <3> QED  BY <2>2, <2>3, <2>5, <3>1 DEF Asked
  <2> QED  BY <2>4, <2>5
<1>3. CASE Draw(r) \/ Spawn(r) \/ Insert(r)
  BY <1>1, <1>3 DEF Draw, Spawn, Insert, Pcs
<1>4. CASE SpawnFails(r)  BY <1>1, <1>4 DEF SpawnFails, Answer, Pcs, Kinds
<1>5. CASE Created(r)
  <2>1. on[r] \in Sessions
    BY <1>5, ControlAssumption DEF Created, ControlInv, Requested, TypeOK, Sessions
  <2>2. psk[on[r]] \in Nat  BY <2>1 DEF ControlInv, TypeOK
  <2> QED  BY <1>1, <1>5, <2>2 DEF Created, Answer, Pcs, Kinds
<1>6. CASE Find(r)
  <2>1. CASE Answer(r, "failed", 0)
    BY <1>1, <1>6, <2>1 DEF Find, Answer, Pcs, Kinds
  <2>2. CASE UNCHANGED answer /\ \E p \in {"ended?", "kill!"} : pc' = [pc EXCEPT ![r] = p]
    BY <1>1, <1>6, <2>2 DEF Find, Pcs
  <2> QED  BY <1>6, <2>1, <2>2 DEF Find, ControlInv, TypeOK
<1>7. CASE IsEnded(r)
  <2>1. CASE Answer(r, "failed", 0)
    BY <1>1, <1>7, <2>1 DEF IsEnded, Answer, Pcs, Kinds
  <2>2. CASE pc' = [pc EXCEPT ![r] = "rotate"] /\ UNCHANGED answer
    BY <1>1, <1>7, <2>2 DEF IsEnded, Pcs
  <2> QED  BY <1>7, <2>1, <2>2 DEF IsEnded
<1>8. CASE Rotate(r)
  <2>1. on[r] \in Sessions
    BY <1>8, ControlAssumption DEF Rotate, ControlInv, Requested, TypeOK, Sessions
  <2>2. psk[on[r]] + 1 \in Nat  BY <2>1 DEF ControlInv, TypeOK
  <2> QED  BY <1>1, <1>8, <2>2 DEF Rotate, Answer, Pcs, Kinds
<1>9. CASE Ls(r)  BY <1>1, <1>9 DEF Ls, Answer, Pcs, Kinds
<1>10. CASE Kill(r)  BY <1>1, <1>10 DEF Kill, Answer, Pcs, Kinds
<1> QED
  BY <1>2, <1>3, <1>4, <1>5, <1>6, <1>7, <1>8, <1>9, <1>10 DEF RequestStep

\* Whatever a request is wrapped in, to any depth, a session is made, given a new key or
\* killed only for a request that fits the daemon, and only the others are refused.
THEOREM ServedOnlyIfFit == Spec => ServedIfFit
<1>1. Init => Asked
  <2> SUFFICES ASSUME Init PROVE Asked  OBVIOUS
  <2>1. /\ pc = [r \in Requests |-> "new"]
        /\ answer = [r \in Requests |-> [kind |-> "none", key |-> 0]]
    BY DEF Init
  <2>2. \A r \in Requests : pc[r] = "new" /\ answer[r].kind = "none"  BY <2>1
  <2> QED  BY <2>2 DEF Asked
<1>2. ASSUME ControlInv, Asked, ControlInv', Asked', [Next]_vars
      PROVE  [/\ \A s \in Sessions : Touched(s) =>
                   \E r \in Requests : pc'[r] # pc[r] /\ on'[r] = s /\ fits[r]
              /\ \A r \in Requests : answer'[r].kind # "none" =>
                   (answer'[r].kind = "refused" <=> ~fits'[r])]_vars
  <2> SUFFICES ASSUME Next
               PROVE  /\ \A s \in Sessions : Touched(s) =>
                           \E r \in Requests : pc'[r] # pc[r] /\ on'[r] = s /\ fits[r]
                      /\ \A r \in Requests : answer'[r].kind # "none" =>
                           (answer'[r].kind = "refused" <=> ~fits'[r])
    BY <1>2
  <2>1. ASSUME NEW s \in Sessions, Touched(s)
        PROVE  \E r \in Requests : pc'[r] # pc[r] /\ on'[r] = s /\ fits[r]
    <3>1. PICK r \in Requests : Spawn(r) \/ Rotate(r) \/ Kill(r)
      BY <1>2, <2>1 DEF Touched, Next, RequestStep, Ask, Draw, SpawnFails, Insert,
         Created, Find, IsEnded, Ls, Exits, Ends, Removes, Connects, sessionVars,
         ControlInv, TypeOK
    <3>2. fits[r]  BY <1>2, <3>1 DEF Asked, Spawn, Rotate, Kill
    <3>3. pc'[r] # pc[r]  BY <1>2, <3>1 DEF Spawn, Rotate, Kill, Answer, ControlInv, TypeOK
    <3>4. on'[r] = s
      <4>1. CASE Spawn(r)
        BY <1>2, <2>1, <4>1 DEF Touched, Spawn, ControlInv, TypeOK
      <4>2. CASE Rotate(r)
        BY <1>2, <2>1, <4>2 DEF Touched, Rotate, ControlInv, TypeOK
      <4>3. CASE Kill(r)
        BY <1>2, <2>1, <4>3 DEF Touched, Kill, ControlInv, TypeOK
      <4> QED  BY <3>1, <4>1, <4>2, <4>3
    <3> QED  BY <3>2, <3>3, <3>4
  <2> QED  BY <1>2, <2>1 DEF Asked
<1> QED  BY <1>1, <1>2, AskedStep, ControlInvariant, PTL DEF Spec, ServedIfFit
=============================================================================
