------------------------------- MODULE Mailbox -------------------------------
(***************************************************************************)
(* The queue policy of the relay's session store, on queues seen as sets   *)
(* of messages whose ids grow with age.  There are two kinds of queue: a   *)
(* sandbox's lets steer messages pass normal ones, the orchestrator's does *)
(* not.                                                                    *)
(***************************************************************************)
EXTENDS Naturals, FiniteSets

CONSTANT MaxQueue  \* maxQueueSize

ASSUME MaxQueueAssumption == MaxQueue \in Nat \ {0}

Priority == {"steer", "normal"}
Message  == [id : Nat, priority : Priority]

\* The relay reads any other priority a client asks for as normal.
\* Mutant: it stores what the client sent.
AsRequested(requested) == requested

PriorityOf(requested) == IF requested = "steer" THEN "steer" ELSE "normal"

Oldest(S)  == CHOOSE m \in S : \A k \in S : m.id <= k.id
Normals(S) == {m \in S : m.priority = "normal"}

\* The order in which a queue is drained.
Ahead(bySteer, a, b) ==
  IF bySteer /\ a.priority # b.priority THEN a.priority = "steer" ELSE a.id < b.id

\* What splice(0, limit) takes from a queue in that order.
Batch(bySteer, Q, limit) ==
  {m \in Q : Cardinality({k \in Q : Ahead(bySteer, k, m)}) < limit}

\* Mutants: room is made one message late; the oldest goes whatever it is.
TrimmedLate(bySteer, Q) ==
  IF Cardinality(Q) <= MaxQueue THEN Q
  ELSE Q \ {Oldest(IF bySteer /\ Normals(Q) # {} THEN Normals(Q) ELSE Q)}
TrimmedOldest(bySteer, Q) ==
  IF Cardinality(Q) < MaxQueue THEN Q ELSE Q \ {Oldest(Q)}

\* A full queue makes room for a message: the oldest normal one goes if steer
\* messages are privileged and there is one, else the oldest.
Trimmed(bySteer, Q) ==
  IF Cardinality(Q) < MaxQueue THEN Q
  ELSE Q \ {Oldest(IF bySteer /\ Normals(Q) # {} THEN Normals(Q) ELSE Q)}
=============================================================================
