-------------------------------- MODULE Pipes --------------------------------
(***************************************************************************)
(* What a connection promises, with no records, keys or nonces in it: a    *)
(* pipe in each direction, for ends that share the session's key.          *)
(*                                                                         *)
(*   - what comes out of a pipe is the next thing that went in, so that    *)
(*     nothing is skipped, repeated, moved to another pipe or made up;     *)
(*   - an end that does not share the key gets nothing out, and nothing    *)
(*     it has put in comes out;                                            *)
(*   - no end says more than its first word before it has heard the other, *)
(*     and the daemon does not speak before it has heard its client.       *)
(*                                                                         *)
(* A pipe may stand still at any time: the network breaks connections.     *)
(* Replay, Input and Heartbeat take their connections to be like this.     *)
(***************************************************************************)
EXTENDS Naturals, Sequences

CONSTANTS Conns,     \* connections
          Contents   \* what may be put in a pipe

Up   == 0  \* from client to daemon
Down == 1

VARIABLES shared,  \* whether the ends of a connection share the key
          put,     \* what each pipe was given, in order
          got      \* what came out of it

pipeVars == <<shared, put, got>>

Init ==
  /\ shared \in [Conns -> BOOLEAN]
  /\ put = [c \in Conns |-> [d \in {Up, Down} |-> << >>]]
  /\ got = [c \in Conns |-> [d \in {Up, Down} |-> << >>]]

\* A client comes, with a key or without.
Open(c) ==
  /\ \A d \in {Up, Down} : put[c][d] = << >>
  /\ \E b \in BOOLEAN : shared' = [shared EXCEPT ![c] = b]
  /\ UNCHANGED <<put, got>>

Put(c, d) ==
  /\ got[c][1 - d] # << >> \/ (d = Up /\ put[c][d] = << >>)
  /\ \E x \in Contents : put' = [put EXCEPT ![c][d] = Append(@, x)]
  /\ UNCHANGED <<shared, got>>

Get(c, d) ==
  /\ shared[c]
  /\ Len(got[c][d]) < Len(put[c][d])
  /\ got' = [got EXCEPT ![c][d] = Append(@, put[c][d][Len(got[c][d]) + 1])]
  /\ UNCHANGED <<shared, put>>

Next == \E c \in Conns : Open(c) \/ \E d \in {Up, Down} : Put(c, d) \/ Get(c, d)

Spec == Init /\ [][Next]_pipeVars
=============================================================================
