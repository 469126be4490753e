---------------------------- MODULE MailboxArray ----------------------------
(***************************************************************************)
(* The queues of session-store.ts as the arrays they are: enqueueMessage   *)
(* and drainQueue on a sandbox's queue, pushToOrchestrator and             *)
(* drainOrchestratorQueue on the orchestrator's, with the splices, shifts  *)
(* and the partition the code performs.  It implements MailboxSpec.        *)
(***************************************************************************)
EXTENDS Mailbox, SequencesExt

CONSTANTS Limits,   \* limits of drains
          MaxMsgs   \* bound: messages sent

ASSUME LimitsAssumption == Limits \subseteq Nat

VARIABLES bySteer,  \* TRUE for a sandbox's queue, FALSE for the orchestrator's
          array,    \* the queue
          out,      \* the messages the last handler returned or pushed, in order
          sent      \* messages sent so far

vars == <<bySteer, array, out, sent>>

IsNormal(m) == m.priority = "normal"
IsSteer(m)  == m.priority = "steer"

Init == bySteer \in BOOLEAN /\ array = <<>> /\ out = <<>> /\ sent = 0

New(priority) == [id |-> sent + 1, priority |-> priority]

-----------------------------------------------------------------------------
(* enqueueMessage: findIndex of the first normal message, or shift, then push *)

\* Mutant: a full queue loses its oldest message, steer or not.
ShiftFirst(a) == IF Len(a) < MaxQueue THEN a ELSE Tail(a)

MakeRoom(a) ==
  IF Len(a) < MaxQueue THEN a
  ELSE IF \E i \in DOMAIN a : IsNormal(a[i]) THEN RemoveFirstMatch(a, IsNormal)
  ELSE Tail(a)

\* pushToOrchestrator: push, then shift if the queue has become too long.
ShiftIfTooLong(a) == IF Len(a) > MaxQueue THEN Tail(a) ELSE a

Push(a, m) ==
  IF bySteer THEN Append(MakeRoom(a), m) ELSE ShiftIfTooLong(Append(a, m))

Queued(priority) ==
  /\ sent < MaxMsgs
  /\ sent' = sent + 1
  /\ array' = Push(array, New(priority))
  /\ out' = <<>>

\* With an open socket the message is written and spliced out again.
Pushed(priority) ==
  /\ sent < MaxMsgs
  /\ sent' = sent + 1
  /\ array' = RemoveFirst(Push(array, New(priority)), New(priority))
  /\ out' = <<New(priority)>>

-----------------------------------------------------------------------------
(* drainQueue and drainOrchestratorQueue *)

\* What the loop over the queue pushes to steer, or to normal.
OfPriority(a, priority) ==
  LET pushed[n \in 0 .. Len(a)] ==
        IF n = 0 THEN <<>>
        ELSE IF a[n].priority = priority THEN Append(pushed[n - 1], a[n])
        ELSE pushed[n - 1]
  IN pushed[Len(a)]

\* Mutant: the partition puts the normal messages first.
NormalFirst(a) == OfPriority(a, "normal") \o OfPriority(a, "steer")

SteerFirst(a) == OfPriority(a, "steer") \o OfPriority(a, "normal")

DrainOrder(a) == IF bySteer THEN SteerFirst(a) ELSE a

FirstOnes(a, limit) == IF Len(a) <= limit THEN a ELSE SubSeq(a, 1, limit)

Drained(limit) ==
  LET a == DrainOrder(array) IN
  /\ out' = FirstOnes(a, limit)
  /\ array' = SubSeq(a, Len(out') + 1, Len(a))
  /\ sent' = sent

Next ==
  \/ \E priority \in {"steer", "normal"} : Queued(priority) \/ Pushed(priority)
  \/ \E limit \in Limits : Drained(limit)

Spec == Init /\ [][Next /\ UNCHANGED bySteer]_vars

-----------------------------------------------------------------------------
\* The array behaves as the set of its elements does under the queue policy:
\* what is dropped, pushed and drained is the same for every sequence of calls,
\* although a drain with a small limit leaves the array reordered.
Abstract == INSTANCE MailboxSpec WITH content <- ToSet(array), out <- ToSet(out)

ImplementsMailbox == Abstract!Spec

\* A reply lists steer messages before normal ones and otherwise keeps the
\* order of sending, also after earlier partial drains reordered the array.
RepliesInOrder ==
  \A i, j \in DOMAIN out : i < j =>
    \/ bySteer /\ IsSteer(out[i]) /\ IsNormal(out[j])
    \/ out[i].id < out[j].id /\ (bySteer => out[i].priority = out[j].priority)
=============================================================================
