----------------------------- MODULE MailboxSpec -----------------------------
(***************************************************************************)
(* What one queue of the relay promises, without saying how it is stored:  *)
(* sends make room by the drop policy, a push takes the message just sent, *)
(* a drain takes the first messages in drain order.                        *)
(***************************************************************************)
EXTENDS Mailbox

CONSTANTS Limits,   \* limits of drains
          MaxMsgs   \* bound: messages sent

VARIABLES bySteer,  \* TRUE for a sandbox's queue, FALSE for the orchestrator's
          content,  \* the queued messages
          out,      \* what the last step handed out
          sent      \* messages sent so far

Init == bySteer \in BOOLEAN /\ content = {} /\ out = {} /\ sent = 0

New(priority) == [id |-> sent + 1, priority |-> priority]

\* A message is queued.
Queued(priority) ==
  /\ sent < MaxMsgs
  /\ sent' = sent + 1
  /\ content' = Trimmed(bySteer, content) \cup {New(priority)}
  /\ out' = {}

\* A message is written to an open socket at once.
Pushed(priority) ==
  /\ sent < MaxMsgs
  /\ sent' = sent + 1
  /\ content' = Trimmed(bySteer, content)
  /\ out' = {New(priority)}

Drained(limit) ==
  /\ out' = Batch(bySteer, content, limit)
  /\ content' = content \ out'
  /\ sent' = sent

Next ==
  \/ \E priority \in Priority : Queued(priority) \/ Pushed(priority)
  \/ \E limit \in Limits : Drained(limit)

Spec == Init /\ [][Next /\ UNCHANGED bySteer]_<<bySteer, content, out, sent>>
=============================================================================
