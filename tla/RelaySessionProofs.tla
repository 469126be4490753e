------------------------- MODULE RelaySessionProofs -------------------------
(***************************************************************************)
(* Proofs about one relay session, for any sets of names, connections and  *)
(* polls and any limits.                                                   *)
(***************************************************************************)
EXTENDS RelaySession, MailboxProofs, SequenceTheorems

LEMMA BatchSubset ==
  ASSUME NEW bySteer, NEW Q, NEW limit
  PROVE  Batch(bySteer, Q, limit) \subseteq Q
BY DEF Batch

LEMMA NewMessageType ==
  ASSUME TypeOK, NEW requested
  PROVE  NewMessage(requested) \in Message
BY DEF TypeOK, NewMessage, PriorityOf, Message, Priority

(* What leaves a mailbox on a send was in it or is the message sent. *)
LEMMA TakenType ==
  ASSUME TypeOK, NEW mb \in Mailboxes, NEW m \in Message
  PROVE  /\ Enqueued(mb, m) \in SUBSET Message
         /\ Enqueued(mb, m) \subseteq queue[mb] \cup {m}
         /\ Taken(mb, m) \subseteq Enqueued(mb, m)
<1>1. /\ Enqueued(mb, m) \subseteq queue[mb] \cup {m}
      /\ m \in Enqueued(mb, m)
  BY TrimmedSubset DEF Enqueued, BySteer
<1>2. queue[mb] \in SUBSET Message
  BY DEF TypeOK
<1>3. Taken(mb, m) \subseteq Enqueued(mb, m)
  <2>1. CASE HasWaiter(mb)
    BY <2>1, BatchSubset DEF Taken
  <2>2. CASE ~HasWaiter(mb) /\ Reachable(mb) # {}
    BY <2>2, <1>1 DEF Taken
  <2>3. CASE ~HasWaiter(mb) /\ Reachable(mb) = {}
    BY <2>3 DEF Taken
  <2> QED BY <2>1, <2>2, <2>3
<1> QED BY <1>1, <1>2, <1>3

(* Removing a poll from a waiter list leaves a waiter list. *)
LEMMA WithoutType ==
  ASSUME NEW s \in Seq(Polls), NEW p
  PROVE  Without(s, p) \in Seq(Polls)
<1>1. CASE \E j \in DOMAIN s : s[j] = p
  <2> DEFINE i == CHOOSE j \in DOMAIN s : s[j] = p
  <2>1. i \in 1 .. Len(s)
    BY <1>1
  <2> HIDE DEF i
  <2>2. /\ SubSeq(s, 1, i - 1) \in Seq(Polls)
        /\ SubSeq(s, i + 1, Len(s)) \in Seq(Polls)
    BY <2>1, SubSeqProperties, ElementOfSeq
  <2>3. Without(s, p) = SubSeq(s, 1, i - 1) \o SubSeq(s, i + 1, Len(s))
    BY <1>1 DEF Without, i
  <2> QED BY <2>2, <2>3, ConcatProperties
<1>2. CASE ~\E j \in DOMAIN s : s[j] = p
  BY <1>2 DEF Without
<1> QED BY <1>1, <1>2

LEMMA EnqueueType ==
  ASSUME TypeOK, NEW T \in SUBSET Mailboxes, NEW m \in Message,
         sent' \in Nat, Enqueue(T, m)
  PROVE  TypeOK'
<1>1. queue' \in [Mailboxes -> SUBSET Message]
  BY TakenType DEF Enqueue, Remaining, TypeOK
<1>2. handed' \in [Mailboxes -> SUBSET Message]
  BY TakenType DEF Enqueue, TypeOK
<1>3. pollWaiters' \in [Names -> Seq(Polls)]
  <2>1. ASSUME NEW n \in Names, pollWaiters[n] # <<>>
        PROVE  Tail(pollWaiters[n]) \in Seq(Polls)
    BY <2>1, HeadTailProperties DEF TypeOK
  <2> QED BY <2>1 DEF Enqueue, HasWaiter, TypeOK
<1>4. pollTimers' \in SUBSET Polls
  BY DEF Enqueue, TypeOK
<1>5. polls' \in [Polls -> Poll \cup {Idle}]
  BY DEF Enqueue, TypeOK
<1>6. wire' \in [Conns -> SUBSET (Message \cup Notice)]
  <2>1. \A c \in Conns : mailbox[c] \in Mailboxes /\ wire[c] \in SUBSET (Message \cup Notice)
    BY DEF TypeOK
  <2>2. \A mb \in Mailboxes : Taken(mb, m) \in SUBSET Message
    BY TakenType
  <2>3. ASSUME NEW c \in Conns PROVE Written(T, m, c) \in SUBSET Message
    BY <2>1, <2>2 DEF Written
  <2> QED BY <2>1, <2>3 DEF Enqueue
<1>7. received' \in [Mailboxes -> SUBSET (Message \cup Notice)]
  <2>1. \A mb \in Mailboxes : Taken(mb, m) \in SUBSET Message
    BY TakenType
  <2> QED BY <2>1 DEF Enqueue, TypeOK
<1> QED
  BY <1>1, <1>2, <1>3, <1>4, <1>5, <1>6, <1>7 DEF Enqueue, TypeOK

LEMMA HandOutType ==
  ASSUME TypeOK, NEW mb \in Mailboxes, NEW batch \in SUBSET Message, NEW via,
         HandOut(mb, batch, via)
  PROVE  TypeOK'
BY DEF HandOut, TypeOK

LEMMA TypeOKStep == TypeOK /\ [Next]_vars => TypeOK'
<1> SUFFICES ASSUME TypeOK, [Next]_vars PROVE TypeOK'
  OBVIOUS
<1> USE DEF Mailboxes, net, store
<1>1. ASSUME NEW n \in Names, Register(n) PROVE TypeOK'
  BY <1>1 DEF Register, TypeOK
<1>2. ASSUME NEW n \in Names, Unregister(n) PROVE TypeOK'
  <2>1. <<>> \in Seq(Polls)
    OBVIOUS
  <2> QED BY <1>2, <2>1 DEF Unregister, TypeOK
<1>3. ASSUME NEW n \in Names, NEW via \in Transports, Complete(n, via) PROVE TypeOK'
  BY <1>3 DEF Complete, TypeOK, Notice
<1>4. ASSUME NEW to \in Mailboxes, NEW priority \in Requested, Send(to, priority)
      PROVE  TypeOK'
  <2> DEFINE T == {IF to \in Registered THEN to ELSE Orch}
  <2>1. T \in SUBSET Mailboxes
    BY DEF Registered
  <2>2. sent' \in Nat /\ Enqueue(T, NewMessage(priority))
    BY <1>4 DEF Send, TypeOK
  <2> QED BY <2>1, <2>2, NewMessageType, EnqueueType
<1>5. ASSUME NEW from \in Mailboxes, NEW via \in Transports, NEW priority \in Requested,
             Broadcast(from, via, priority)
      PROVE  TypeOK'
  <2> DEFINE T == IF from = Orch THEN Registered ELSE (Registered \ {from}) \cup {Orch}
  <2>1. T \in SUBSET Mailboxes
    BY DEF Registered
  <2>2. sent' \in Nat /\ Enqueue(T, NewMessage(priority))
    BY <1>5 DEF Broadcast, TypeOK
  <2> HIDE DEF T
  <2> QED BY <2>1, <2>2, NewMessageType, EnqueueType
<1>6. ASSUME NEW mb \in Mailboxes, NEW via \in Transports, NEW limit \in Limits,
             Recv(mb, via, limit)
      PROVE  TypeOK'
  <2>1. Batch(BySteer(mb), queue[mb], limit) \in SUBSET Message
    BY BatchSubset DEF TypeOK
  <2> QED BY <1>6, <2>1, HandOutType DEF Recv
<1>7. ASSUME NEW p \in Polls, NEW n \in Names, NEW via \in Transports, NEW limit \in Limits,
             LongPoll(p, n, via, limit)
      PROVE  TypeOK'
  <2> DEFINE batch == Batch(BySteer(n), queue[n], limit)
  <2>1. batch \in SUBSET Message
    BY BatchSubset DEF TypeOK
  <2>2. CASE HandOut(n, batch, via)
    BY <2>1, <2>2, HandOutType
  <2>3. CASE Park(p, n, via)
    <3>1. Append(pollWaiters[n], p) \in Seq(Polls)
      BY DEF TypeOK
    <3>2. [name |-> n, via |-> via, alive |-> TRUE] \in Poll
      BY DEF Poll, Transports
    <3> QED BY <2>3, <3>1, <3>2 DEF Park, TypeOK
  <2> QED BY <1>7, <2>2, <2>3 DEF LongPoll
<1>8. ASSUME NEW p \in Polls, PollTimeout(p) PROVE TypeOK'
  BY <1>8, WithoutType DEF PollTimeout, TypeOK
<1>9. ASSUME NEW p \in Polls, GiveUp(p) PROVE TypeOK'
  <2>1. polls[p] \in Poll
    BY <1>9 DEF GiveUp, TypeOK
  <2>2. [polls[p] EXCEPT !.alive = FALSE] \in Poll
    BY <2>1 DEF Poll
  <2> QED BY <1>9, <2>2 DEF GiveUp, TypeOK
<1>10. ASSUME NEW c \in Conns, NEW mb \in Mailboxes, Authenticate(c, mb) PROVE TypeOK'
  BY <1>10 DEF Authenticate, TypeOK
<1>11. ASSUME NEW c \in Conns, PeerCloses(c) PROVE TypeOK'
  BY <1>11 DEF PeerCloses, TypeOK
<1>12. ASSUME NEW c \in Conns, Closed(c) PROVE TypeOK'
  BY <1>12 DEF Closed, TypeOK
<1>13. ASSUME NEW c \in Conns, Deliver(c) PROVE TypeOK'
  <2>1. PICK m \in wire[c] :
          /\ wire' = [wire EXCEPT ![c] = @ \ {m}]
          /\ received' = [received EXCEPT ![mailbox[c]] = @ \cup {m}]
          /\ UNCHANGED <<store, clients, readyState, mailbox, sent, handed>>
    BY <1>13 DEF Deliver
  <2>2. m \in Message \cup Notice /\ mailbox[c] \in Mailboxes
    BY DEF TypeOK
  <2> QED BY <2>1, <2>2 DEF TypeOK
<1>14. CASE UNCHANGED vars
  BY <1>14 DEF vars, TypeOK
<1> QED
  BY <1>1, <1>2, <1>3, <1>4, <1>5, <1>6, <1>7, <1>8, <1>9, <1>10, <1>11, <1>12,
     <1>13, <1>14
  DEF Next, Requests, Events

(* In every behaviour of a session, whatever the interleaving of requests,
   timers and socket events, its state has the shape TypeOK says. *)
THEOREM TypeCorrect == Spec => []TypeOK
<1>1. Init => TypeOK
  BY DEF Init, TypeOK, Mailboxes
<1> QED BY <1>1, TypeOKStep, PTL DEF Spec

-----------------------------------------------------------------------------
(* The steps, by what they do to the mailboxes. *)

MailboxStep ==
  \/ \E T \in SUBSET (Registered \cup {Orch}), m \in Message :
        m.id = sent + 1 /\ sent' = sent + 1 /\ Enqueue(T, m)
  \/ \E n \in Names : Register(n) \/ Unregister(n)
  \/ \E mb \in Mailboxes, via \in Transports :
        \E batch \in SUBSET queue[mb] : MaySpeak(mb, via) /\ HandOut(mb, batch, via)
  \/ \E p \in Polls, n \in Names, via \in Transports :
        queue[n] = {} /\ MaySpeak(n, via) /\ Park(p, n, via)
  \/ \E p \in Polls : PollTimeout(p) \/ GiveUp(p)
  \/ \E n \in Names, via \in Transports : Complete(n, via)
  \/ \E c \in Conns, mb \in Mailboxes : Authenticate(c, mb)
  \/ \E c \in Conns : PeerCloses(c) \/ Closed(c) \/ Deliver(c)

(* A long poll is parked only at an empty mailbox. *)
LEMMA NextIsMailboxStep == TypeOK /\ Next => MailboxStep
<1> SUFFICES ASSUME TypeOK, Next PROVE MailboxStep
  OBVIOUS
<1>1. \A requested : NewMessage(requested) \in Message /\ NewMessage(requested).id = sent + 1
  BY NewMessageType DEF NewMessage
<1>2. ASSUME NEW to \in Mailboxes, NEW priority \in Requested, Send(to, priority)
      PROVE  MailboxStep
  <2>1. {IF to \in Registered THEN to ELSE Orch} \in SUBSET (Registered \cup {Orch})
    OBVIOUS
  <2> QED BY <1>1, <1>2, <2>1 DEF Send, MailboxStep
<1>3. ASSUME NEW from \in Mailboxes, NEW via \in Transports, NEW priority \in Requested,
             Broadcast(from, via, priority)
      PROVE  MailboxStep
  <2> DEFINE T == IF from = Orch THEN Registered ELSE (Registered \ {from}) \cup {Orch}
  <2>1. T \in SUBSET (Registered \cup {Orch})
    OBVIOUS
  <2>2. Enqueue(T, NewMessage(priority)) /\ sent' = sent + 1
    BY <1>3 DEF Broadcast
  <2> HIDE DEF T
  <2> QED BY <1>1, <2>1, <2>2 DEF MailboxStep
<1>4. ASSUME NEW mb \in Mailboxes, NEW via \in Transports, NEW limit \in Limits,
             Recv(mb, via, limit)
      PROVE  MailboxStep
  <2>1. Batch(BySteer(mb), queue[mb], limit) \in SUBSET queue[mb]
    BY BatchSubset
  <2> QED BY <1>4, <2>1 DEF Recv, MailboxStep
<1>5. ASSUME NEW p \in Polls, NEW n \in Names, NEW via \in Transports, NEW limit \in Limits,
             LongPoll(p, n, via, limit)
      PROVE  MailboxStep
  <2> DEFINE batch == Batch(BySteer(n), queue[n], limit)
  <2>1. n \in Mailboxes /\ queue[n] \in SUBSET Message /\ BySteer(n) \in BOOLEAN
    BY DEF TypeOK, Mailboxes, BySteer
  <2>2. limit \in Nat \ {0}
    BY RelayConstants
  <2>3. CASE batch # {} /\ HandOut(n, batch, via)
    <3>1. batch \in SUBSET queue[n]
      BY BatchSubset
    <3> QED BY <1>5, <2>1, <2>3, <3>1 DEF LongPoll, MailboxStep
  <2>4. CASE batch = {} /\ Park(p, n, via)
    <3>1. queue[n] = {}
      BY <2>1, <2>2, <2>4, BatchEmpty
    <3> QED BY <1>5, <2>4, <3>1 DEF LongPoll, MailboxStep
  <2> QED BY <1>5, <2>3, <2>4 DEF LongPoll
<1> QED
  BY <1>2, <1>3, <1>4, <1>5 DEF Next, Requests, Events, MailboxStep

-----------------------------------------------------------------------------
(* Queues *)

QueueInv ==
  /\ IdsUsed
  /\ NoDoubleDelivery
  /\ NoLostWakeup
  /\ QueuesBounded
  /\ \A n \in Names \ Registered : queue[n] = {}

LEMMA EnqueueKeepsQueueInv ==
  ASSUME TypeOK, QueueInv, NEW T \in SUBSET (Registered \cup {Orch}), NEW m \in Message,
         m.id = sent + 1, sent' = sent + 1, Enqueue(T, m)
  PROVE  QueueInv'
<1>1. T \subseteq Mailboxes /\ sent \in Nat
  BY DEF Registered, Mailboxes, TypeOK
<1>2. ASSUME NEW mb \in Mailboxes
      PROVE  /\ queue'[mb] = IF mb \in T THEN Enqueued(mb, m) \ Taken(mb, m) ELSE queue[mb]
             /\ handed'[mb] = IF mb \in T THEN handed[mb] \cup Taken(mb, m) ELSE handed[mb]
             /\ Enqueued(mb, m) \subseteq queue[mb] \cup {m}
             /\ Taken(mb, m) \subseteq queue[mb] \cup {m}
             /\ queue[mb] \in SUBSET Message /\ handed[mb] \in SUBSET Message
  BY TakenType DEF Enqueue, Remaining, TypeOK
<1>3. IdsUsed'
  <2> SUFFICES ASSUME NEW mb \in Mailboxes, NEW k \in queue'[mb] \cup handed'[mb]
               PROVE  k.id <= sent'
    BY DEF IdsUsed
  <2>1. k \in queue[mb] \cup handed[mb] \/ k = m
    BY <1>2
  <2>2. CASE k = m
    BY <2>2, <1>1
  <2>3. CASE k \in queue[mb] \cup handed[mb]
    <3>1. k.id <= sent /\ k.id \in Nat
      BY <1>2, <2>3 DEF QueueInv, IdsUsed, Message
    <3> QED BY <1>1, <3>1
  <2> QED BY <2>1, <2>2, <2>3
<1>4. NoDoubleDelivery'
  <2> SUFFICES ASSUME NEW mb \in Mailboxes
               PROVE  queue'[mb] \cap handed'[mb] = {}
    BY DEF NoDoubleDelivery
  <2>1. m \notin handed[mb]
    <3> SUFFICES ASSUME m \in handed[mb] PROVE FALSE
      OBVIOUS
    <3>1. m.id <= sent
      BY DEF QueueInv, IdsUsed
    <3> QED BY <1>1, <3>1
  <2>2. queue[mb] \cap handed[mb] = {}
    BY DEF QueueInv, NoDoubleDelivery
  <2> QED BY <1>2, <2>1, <2>2
<1>5. NoLostWakeup'
  <2> SUFFICES ASSUME NEW n \in Names, pollWaiters'[n] # <<>>
               PROVE  queue'[n] = {}
    BY DEF NoLostWakeup
  <2>1. n \in Mailboxes /\ BySteer(n) \in BOOLEAN
    BY DEF Mailboxes, BySteer
  <2>2. pollWaiters[n] # <<>>
    BY DEF Enqueue, HasWaiter, TypeOK
  <2>3. queue[n] = {}
    BY <2>2 DEF QueueInv, NoLostWakeup
  <2>4. HasWaiter(n)
    BY <2>2 DEF HasWaiter
  <2>5. Enqueued(n, m) = {m}
    BY <2>1, <2>3, TrimmedEmpty, MaxQueueAssumption, FS_EmptySet DEF Enqueued
  <2>6. Taken(n, m) = Batch(BySteer(n), {m}, DrainLimit)
    BY <2>4, <2>5 DEF Taken
  <2>7. Batch(BySteer(n), {m}, DrainLimit) = {m}
    BY <2>1, BatchSingleton, RelayConstants
  <2> QED BY <1>2, <2>1, <2>3, <2>5, <2>6, <2>7
<1>6. QueuesBounded'
  <2> SUFFICES ASSUME NEW mb \in Mailboxes
               PROVE  IsFiniteSet(queue'[mb]) /\ Cardinality(queue'[mb]) <= MaxQueue
    BY DEF QueuesBounded
  <2>1. IsFiniteSet(queue[mb]) /\ Cardinality(queue[mb]) <= MaxQueue
    BY DEF QueueInv, QueuesBounded
  <2>2. IsFiniteSet(Enqueued(mb, m)) /\ Cardinality(Enqueued(mb, m)) <= MaxQueue
    <3>1. BySteer(mb) \in BOOLEAN
      BY DEF BySteer
    <3> QED BY <1>2, <2>1, <3>1, RoomForOne DEF Enqueued
  <2>3. queue'[mb] \subseteq Enqueued(mb, m) \/ queue'[mb] = queue[mb]
    BY <1>2
  <2>4. CASE queue'[mb] \subseteq Enqueued(mb, m)
    <3>1. IsFiniteSet(queue'[mb]) /\ Cardinality(queue'[mb]) <= Cardinality(Enqueued(mb, m))
      BY <2>2, <2>4, FS_Subset
    <3>2. Cardinality(queue'[mb]) \in Nat /\ Cardinality(Enqueued(mb, m)) \in Nat
      BY <2>2, <3>1, FS_CardinalityType
    <3> QED BY <2>2, <3>1, <3>2, MaxQueueAssumption
  <2> QED BY <2>1, <2>3, <2>4
<1>7. \A n \in Names \ Registered' : queue'[n] = {}
  <2> TAKE n \in Names \ Registered'
  <2>1. n \in Names \ Registered /\ n \notin T /\ n \in Mailboxes
    BY RelayConstants DEF Enqueue, Registered, Mailboxes
  <2> QED BY <1>2, <2>1 DEF QueueInv
<1> QED BY <1>3, <1>4, <1>5, <1>6, <1>7 DEF QueueInv

LEMMA QueueInvStep == TypeOK /\ QueueInv /\ [Next]_vars => QueueInv'
<1> SUFFICES ASSUME TypeOK, QueueInv, [Next]_vars PROVE QueueInv'
  OBVIOUS
<1>1. ASSUME NEW T \in SUBSET (Registered \cup {Orch}), NEW m \in Message,
             m.id = sent + 1, sent' = sent + 1, Enqueue(T, m)
      PROVE  QueueInv'
  BY <1>1, EnqueueKeepsQueueInv
<1>2. ASSUME NEW n \in Names, Register(n) \/ Unregister(n) PROVE QueueInv'
  <2>1. /\ \A mb \in Mailboxes : queue'[mb] \in {queue[mb], {}}
        /\ handed' = handed /\ sent' = sent
    BY <1>2 DEF Register, Unregister, TypeOK
  <2>2. IdsUsed' /\ NoDoubleDelivery'
    BY <2>1 DEF QueueInv, IdsUsed, NoDoubleDelivery
  <2>3. QueuesBounded'
    BY <2>1, FS_EmptySet, MaxQueueAssumption DEF QueueInv, QueuesBounded
  <2>4. NoLostWakeup'
    <3>1. \A k \in Names : pollWaiters'[k] # <<>> => pollWaiters[k] # <<>>
      BY <1>2 DEF Register, Unregister, TypeOK
    <3>2. Names \subseteq Mailboxes
      BY DEF Mailboxes
    <3> QED BY <2>1, <3>1, <3>2 DEF QueueInv, NoLostWakeup
  <2>5. \A k \in Names \ Registered' : queue'[k] = {}
    <3> TAKE k \in Names \ Registered'
    <3>1. k \in Mailboxes
      BY DEF Mailboxes
    <3>2. k \in Names \ Registered \/ queue'[k] = {}
      BY <1>2, <3>1 DEF Register, Unregister, Registered, TypeOK
    <3> QED BY <2>1, <3>1, <3>2 DEF QueueInv
  <2> QED BY <2>2, <2>3, <2>4, <2>5 DEF QueueInv
<1>3. ASSUME NEW mb \in Mailboxes, NEW via \in Transports, NEW batch \in SUBSET queue[mb],
             HandOut(mb, batch, via)
      PROVE  QueueInv'
  <2>1. /\ \A b \in Mailboxes : queue'[b] = IF b = mb THEN queue[b] \ batch ELSE queue[b]
        /\ \A b \in Mailboxes : handed'[b] = IF b = mb THEN handed[b] \cup batch ELSE handed[b]
        /\ UNCHANGED <<sandboxes, pollWaiters, sent>>
    BY <1>3 DEF HandOut, TypeOK
  <2>2. IdsUsed'
    BY <2>1 DEF QueueInv, IdsUsed
  <2>3. NoDoubleDelivery'
    BY <2>1 DEF QueueInv, NoDoubleDelivery
  <2>4. NoLostWakeup' /\ \A n \in Names \ Registered' : queue'[n] = {}
    BY <2>1 DEF QueueInv, NoLostWakeup, Registered, Mailboxes
  <2>5. QueuesBounded'
    <3> SUFFICES ASSUME NEW b \in Mailboxes
                 PROVE  IsFiniteSet(queue'[b]) /\ Cardinality(queue'[b]) <= MaxQueue
      BY DEF QueuesBounded
    <3>1. IsFiniteSet(queue[b]) /\ Cardinality(queue[b]) <= MaxQueue
      BY DEF QueueInv, QueuesBounded
    <3>2. queue'[b] \subseteq queue[b]
      BY <2>1
    <3>3. IsFiniteSet(queue'[b]) /\ Cardinality(queue'[b]) <= Cardinality(queue[b])
      BY <3>1, <3>2, FS_Subset
    <3>4. Cardinality(queue'[b]) \in Nat /\ Cardinality(queue[b]) \in Nat
      BY <3>1, <3>3, FS_CardinalityType
    <3> QED BY <3>1, <3>3, <3>4, MaxQueueAssumption
  <2> QED BY <2>2, <2>3, <2>4, <2>5 DEF QueueInv
<1>4. ASSUME UNCHANGED <<queue, handed, sent>>, Registered' = Registered,
             \A n \in Names : pollWaiters'[n] # <<>> => pollWaiters[n] # <<>> \/ queue[n] = {}
      PROVE  QueueInv'
  BY <1>4 DEF QueueInv, IdsUsed, NoDoubleDelivery, NoLostWakeup, QueuesBounded
<1>5. ASSUME NEW p \in Polls, NEW n \in Names, NEW via \in Transports,
             queue[n] = {}, Park(p, n, via)
      PROVE  QueueInv'
  BY <1>4, <1>5 DEF Park, Registered, TypeOK
<1>6. ASSUME NEW p \in Polls, PollTimeout(p) \/ GiveUp(p) PROVE QueueInv'
  <2>1. \A n \in Names : pollWaiters'[n] # <<>> => pollWaiters[n] # <<>>
    BY <1>6 DEF PollTimeout, GiveUp, Without, TypeOK
  <2> QED BY <1>4, <1>6, <2>1 DEF PollTimeout, GiveUp, Registered
<1>7. ASSUME NEW n \in Names, NEW via \in Transports, Complete(n, via) PROVE QueueInv'
  <2>1. Registered' = Registered
    BY <1>7 DEF Complete, Registered, TypeOK
  <2> QED BY <1>4, <1>7, <2>1 DEF Complete
<1>8. ASSUME NEW c \in Conns, NEW mb \in Mailboxes, Authenticate(c, mb) PROVE QueueInv'
  BY <1>4, <1>8 DEF Authenticate, store, Registered
<1>9. ASSUME NEW c \in Conns, PeerCloses(c) \/ Closed(c) \/ Deliver(c) PROVE QueueInv'
  BY <1>4, <1>9 DEF PeerCloses, Closed, Deliver, store, Registered
<1>10. CASE UNCHANGED vars
  BY <1>4, <1>10 DEF vars, store, Registered
<1> QED
  BY <1>1, <1>2, <1>3, <1>5, <1>6, <1>7, <1>8, <1>9, <1>10, NextIsMailboxStep
  DEF MailboxStep

LEMMA QueueInvInit == Init => QueueInv
<1> SUFFICES ASSUME Init PROVE QueueInv
  OBVIOUS
<1>1. \A mb \in Mailboxes : queue[mb] = {} /\ handed[mb] = {}
  BY DEF Init
<1>2. \A n \in Names : queue[n] = {}
  BY <1>1 DEF Mailboxes
<1>3. IdsUsed /\ NoDoubleDelivery
  BY <1>1 DEF IdsUsed, NoDoubleDelivery
<1>4. QueuesBounded
  <2>1. IsFiniteSet({}) /\ Cardinality({}) = 0
    BY FS_EmptySet
  <2> QED BY <1>1, <2>1, MaxQueueAssumption DEF QueuesBounded
<1> QED BY <1>2, <1>3, <1>4 DEF QueueInv, NoLostWakeup

LEMMA QueueInvAlways == Spec => [](TypeOK /\ QueueInv)
BY QueueInvInit, QueueInvStep, TypeCorrect, PTL DEF Spec

(* No message is given out twice by a mailbox: not by a drain and a push, nor
   by two of either. *)
THEOREM QueuesSafe == Spec => []NoDoubleDelivery
<1>1. QueueInv => NoDoubleDelivery
  BY DEF QueueInv
<1> QED BY <1>1, QueueInvAlways, PTL

(* No long poll sleeps while a message waits for it. *)
THEOREM PollsAwake == Spec => []NoLostWakeup
<1>1. QueueInv => NoLostWakeup
  BY DEF QueueInv
<1> QED BY <1>1, QueueInvAlways, PTL

(* No queue outgrows maxQueueSize. *)
THEOREM QueuesFit == Spec => []QueuesBounded
<1>1. QueueInv => QueuesBounded
  BY DEF QueueInv
<1> QED BY <1>1, QueueInvAlways, PTL

-----------------------------------------------------------------------------
(* What a step may never do to a queue *)

\* The ids of the messages in a queue are different.
IdsDistinct ==
  \A mb \in Mailboxes : \A a, b \in queue[mb] : a.id = b.id => a = b

LEMMA IdsDistinctStep == TypeOK /\ QueueInv /\ IdsDistinct /\ [Next]_vars => IdsDistinct'
<1> SUFFICES ASSUME TypeOK, QueueInv, IdsDistinct, [Next]_vars PROVE IdsDistinct'
  OBVIOUS
<1>1. ASSUME NEW T \in SUBSET (Registered \cup {Orch}), NEW m \in Message,
             m.id = sent + 1, Enqueue(T, m)
      PROVE  IdsDistinct'
  <2> SUFFICES ASSUME NEW mb \in Mailboxes, NEW a \in queue'[mb], NEW b \in queue'[mb],
                      a.id = b.id
               PROVE  a = b
    BY DEF IdsDistinct
  <2>1. queue'[mb] \subseteq queue[mb] \cup {m}
    BY <1>1, TakenType DEF Enqueue, Remaining
  <2>2. \A k \in queue[mb] : k.id # m.id
    <3> TAKE k \in queue[mb]
    <3>1. k.id \in Nat /\ sent \in Nat /\ k.id <= sent
      BY DEF QueueInv, IdsUsed, TypeOK, Message
    <3> QED BY <1>1, <3>1
  <2> QED BY <2>1, <2>2 DEF IdsDistinct
<1>2. ASSUME \A mb \in Mailboxes : queue'[mb] \subseteq queue[mb]
      PROVE  IdsDistinct'
  BY <1>2 DEF IdsDistinct
<1>3. ASSUME NEW n \in Names, Register(n) \/ Unregister(n) PROVE IdsDistinct'
  BY <1>2, <1>3 DEF Register, Unregister, TypeOK
<1>4. ASSUME NEW mb \in Mailboxes, NEW via \in Transports, NEW batch \in SUBSET queue[mb],
             HandOut(mb, batch, via)
      PROVE  IdsDistinct'
  BY <1>2, <1>4 DEF HandOut, TypeOK
<1>5. ASSUME UNCHANGED queue PROVE IdsDistinct'
  BY <1>2, <1>5
<1>6. ASSUME NEW n \in Names, NEW via \in Transports,
             Complete(n, via) \/ \E p \in Polls : Park(p, n, via)
      PROVE  IdsDistinct'
  BY <1>5, <1>6 DEF Park, Complete
<1>7. ASSUME NEW p \in Polls, PollTimeout(p) \/ GiveUp(p) PROVE IdsDistinct'
  BY <1>5, <1>7 DEF PollTimeout, GiveUp
<1>8. ASSUME NEW c \in Conns,
             \/ PeerCloses(c) \/ Closed(c) \/ Deliver(c)
             \/ \E mb \in Mailboxes : Authenticate(c, mb)
      PROVE  IdsDistinct'
  BY <1>5, <1>8 DEF Authenticate, PeerCloses, Closed, Deliver, store
<1>9. CASE UNCHANGED vars
  BY <1>5, <1>9 DEF vars, store
<1> QED
  BY <1>1, <1>3, <1>4, <1>6, <1>7, <1>8, <1>9, NextIsMailboxStep DEF MailboxStep

LEMMA IdsDistinctAlways == Spec => [](TypeOK /\ QueueInv /\ IdsDistinct)
<1>1. Init => IdsDistinct
  BY DEF Init, IdsDistinct
<1> QED BY <1>1, IdsDistinctStep, QueueInvAlways, PTL DEF Spec

(* A drain takes messages that none of those it leaves should precede. *)
LEMMA BatchInOrder ==
  ASSUME TypeOK, QueueInv, IdsDistinct, NEW n \in Names, NEW limit \in Limits,
         NEW m \in Batch(BySteer(n), queue[n], limit),
         NEW k \in queue[n] \ Batch(BySteer(n), queue[n], limit)
  PROVE  /\ m.priority = "normal" => k.priority = "normal"
         /\ m.priority = k.priority => m.id < k.id
<1>1. n \in Mailboxes /\ BySteer(n)
  BY RelayConstants DEF Mailboxes, BySteer
<1>2. queue[n] \in SUBSET Message /\ IsFiniteSet(queue[n]) /\ limit \in Nat
  BY <1>1, RelayConstants DEF TypeOK, QueueInv, QueuesBounded
<1>3. ~Ahead(BySteer(n), k, m)
  BY <1>1, <1>2, BatchAhead
<1>4. m \in queue[n] /\ m # k
  BY BatchSubset
<1>5. m.id \in Nat /\ k.id \in Nat /\ m.priority \in Priority /\ k.priority \in Priority
  BY <1>2, <1>4 DEF Message
<1>6. m.id # k.id
  BY <1>1, <1>4 DEF IdsDistinct
<1> QED BY <1>1, <1>3, <1>5, <1>6 DEF Ahead, Priority

(* What a send hands out is the message sent: with a poll waiting the mailbox
   was empty, and a push carries that message alone. *)
LEMMA SendHandsOutNew ==
  ASSUME TypeOK, QueueInv, NEW T \in SUBSET (Registered \cup {Orch}),
         NEW m \in Message, Enqueue(T, m), NEW mb \in Mailboxes
  PROVE  handed'[mb] \subseteq handed[mb] \cup {m}
<1>1. CASE mb \notin T
  BY <1>1 DEF Enqueue
<1>2. CASE mb \in T /\ HasWaiter(mb)
  <2>1. mb \in Names /\ queue[mb] = {}
    BY <1>2 DEF HasWaiter, QueueInv, NoLostWakeup
  <2> QED BY <1>2, <2>1, TakenType DEF Enqueue
<1>3. CASE mb \in T /\ ~HasWaiter(mb)
  BY <1>3 DEF Enqueue, Taken
<1> QED BY <1>1, <1>2, <1>3

(* A drain never overtakes: no steer message is left behind a normal one that
   is handed to a poll, and no older message behind a newer one of its priority. *)
THEOREM DrainsRightly == Spec => DrainsInOrder
<1> DEFINE InOrder == \A n \in Names : \A m \in handed'[n] \ handed[n], k \in queue'[n] :
        m.id <= sent =>
          /\ m.priority = "normal" => k.priority = "normal"
          /\ m.priority = k.priority => m.id < k.id
<1>1. TypeOK /\ QueueInv /\ IdsDistinct /\ [Next]_vars => [InOrder]_vars
  <2> SUFFICES ASSUME TypeOK, QueueInv, IdsDistinct, Next, NEW n \in Names,
                      NEW m \in handed'[n] \ handed[n], NEW k \in queue'[n], m.id <= sent
               PROVE  /\ m.priority = "normal" => k.priority = "normal"
                      /\ m.priority = k.priority => m.id < k.id
    OBVIOUS
  <2> DEFINE Goal == /\ m.priority = "normal" => k.priority = "normal"
                     /\ m.priority = k.priority => m.id < k.id
  <2> HIDE DEF Goal
  <2>0. n \in Mailboxes /\ sent \in Nat
    BY DEF Mailboxes, TypeOK
  <2>1. ASSUME NEW T \in SUBSET (Registered \cup {Orch}), NEW new \in Message,
               new.id = sent + 1, Enqueue(T, new)
        PROVE  Goal
    <3>1. m = new
      BY <2>0, <2>1, SendHandsOutNew
    <3> QED BY <2>0, <2>1, <3>1
  <2>2. ASSUME NEW to \in Mailboxes, NEW priority \in Requested, Send(to, priority)
        PROVE  Goal
    <3>1. {IF to \in Registered THEN to ELSE Orch} \in SUBSET (Registered \cup {Orch})
      OBVIOUS
    <3> QED BY <2>1, <2>2, <3>1, NewMessageType DEF Send, NewMessage
  <2>3. ASSUME NEW from \in Mailboxes, NEW via \in Transports, NEW priority \in Requested,
               Broadcast(from, via, priority)
        PROVE  Goal
    <3> DEFINE T == IF from = Orch THEN Registered ELSE (Registered \ {from}) \cup {Orch}
    <3>1. T \in SUBSET (Registered \cup {Orch})
      OBVIOUS
    <3>2. Enqueue(T, NewMessage(priority)) /\ NewMessage(priority).id = sent + 1
      BY <2>3 DEF Broadcast, NewMessage
    <3> HIDE DEF T
    <3> QED BY <2>1, <3>1, <3>2, NewMessageType
  <2>4. ASSUME NEW mb \in Mailboxes, NEW via \in Transports, NEW limit \in Limits,
               HandOut(mb, Batch(BySteer(mb), queue[mb], limit), via)
        PROVE  Goal
    <3> DEFINE batch == Batch(BySteer(mb), queue[mb], limit)
    <3> HIDE DEF batch
    <3>1. /\ handed'[n] = IF n = mb THEN handed[n] \cup batch ELSE handed[n]
          /\ queue'[n] = IF n = mb THEN queue[n] \ batch ELSE queue[n]
      BY <2>0, <2>4 DEF HandOut, TypeOK, batch
    <3>2. n = mb /\ m \in batch /\ k \in queue[n] \ batch
      BY <3>1
    <3> QED BY <3>2, BatchInOrder DEF batch, Goal
  <2>5. ASSUME UNCHANGED handed PROVE Goal
    BY <2>5
  <2>6. ASSUME NEW p \in Polls, NEW x \in Names, NEW via \in Transports, NEW limit \in Limits,
               LongPoll(p, x, via, limit)
        PROVE  Goal
    BY <2>4, <2>5, <2>6 DEF LongPoll, Park, Mailboxes
  <2>7. ASSUME NEW mb \in Mailboxes, NEW via \in Transports, NEW limit \in Limits,
               Recv(mb, via, limit)
        PROVE  Goal
    BY <2>4, <2>7 DEF Recv
  <2>8. ASSUME NEW x \in Names, Register(x) \/ Unregister(x) PROVE Goal
    BY <2>5, <2>8 DEF Register, Unregister
  <2>9. ASSUME NEW x \in Names, NEW via \in Transports, Complete(x, via) PROVE Goal
    BY <2>5, <2>9 DEF Complete
  <2>10. CASE Events
    BY <2>5, <2>10 DEF Events, PollTimeout, GiveUp, Authenticate, PeerCloses, Closed, Deliver
  <2> QED
    BY <2>2, <2>3, <2>6, <2>7, <2>8, <2>9, <2>10 DEF Next, Requests, Goal
<1> QED BY <1>1, IdsDistinctAlways, PTL DEF Spec, DrainsInOrder

(* What wakes a poll goes to that poll alone: while one waits the mailbox is    *)
(* empty, so that only the handler of a send hands anything out, and that one   *)
(* writes to no socket but the one the poll came over.                          *)
THEOREM OneWaySafe == Spec => OneWay
<1> DEFINE Alone == \A n \in Names, c \in Conns :
        /\ pollWaiters[n] # <<>> /\ mailbox[c] = n
        /\ (wire'[c] \ wire[c]) \cap (handed'[n] \ handed[n]) # {}
        => polls[Head(pollWaiters[n])].via = c
<1>1. TypeOK /\ QueueInv /\ [Next]_vars => [Alone]_vars
  <2> SUFFICES ASSUME TypeOK, QueueInv, Next, NEW n \in Names, NEW c \in Conns,
                      pollWaiters[n] # <<>>, mailbox[c] = n,
                      NEW m \in wire'[c], m \notin wire[c], m \in handed'[n], m \notin handed[n]
               PROVE  polls[Head(pollWaiters[n])].via = c
    OBVIOUS
  <2> DEFINE Goal == polls[Head(pollWaiters[n])].via = c
  <2> HIDE DEF Goal
  <2>0. n \in Mailboxes /\ queue[n] = {} /\ HasWaiter(n)
    BY DEF Mailboxes, QueueInv, NoLostWakeup, HasWaiter
  <2>1. ASSUME NEW T, NEW new, Enqueue(T, new) PROVE Goal
    <3>1. m \in Written(T, new, c)
      BY <2>1 DEF Enqueue
    <3>2. n \in T
      BY <2>0, <2>1 DEF Enqueue
    <3> QED BY <2>0, <3>1, <3>2 DEF Written, WrittenToSocket, Goal
  <2>2. ASSUME NEW mb \in Mailboxes, NEW via \in Transports, NEW limit \in Limits,
               HandOut(mb, Batch(BySteer(mb), queue[mb], limit), via)
        PROVE  Goal
    <3> DEFINE batch == Batch(BySteer(mb), queue[mb], limit)
    <3>1. batch \subseteq queue[mb]
      BY BatchSubset
    <3> HIDE DEF batch
    <3>2. handed'[n] = IF n = mb THEN handed[n] \cup batch ELSE handed[n]
      BY <2>0, <2>2 DEF HandOut, TypeOK, batch
    <3> QED BY <2>0, <3>1, <3>2
  <2>3. ASSUME UNCHANGED handed PROVE Goal
    BY <2>3
  <2>4. ASSUME NEW to \in Mailboxes, NEW priority \in Requested, Send(to, priority)
        PROVE  Goal
    BY <2>1, <2>4 DEF Send
  <2>5. ASSUME NEW from \in Mailboxes, NEW via \in Transports, NEW priority \in Requested,
               Broadcast(from, via, priority)
        PROVE  Goal
    BY <2>1, <2>5 DEF Broadcast
  <2>6. ASSUME NEW p \in Polls, NEW x \in Names, NEW via \in Transports, NEW limit \in Limits,
               LongPoll(p, x, via, limit)
        PROVE  Goal
    BY <2>2, <2>3, <2>6 DEF LongPoll, Park, Mailboxes
  <2>7. ASSUME NEW mb \in Mailboxes, NEW via \in Transports, NEW limit \in Limits,
               Recv(mb, via, limit)
        PROVE  Goal
    BY <2>2, <2>7 DEF Recv
  <2>8. ASSUME NEW x \in Names, Register(x) \/ Unregister(x) PROVE Goal
    BY <2>3, <2>8 DEF Register, Unregister
  <2>9. ASSUME NEW x \in Names, NEW via \in Transports, Complete(x, via) PROVE Goal
    BY <2>3, <2>9 DEF Complete
  <2>10. CASE Events
    BY <2>3, <2>10 DEF Events, PollTimeout, GiveUp, Authenticate, PeerCloses, Closed, Deliver
  <2> QED
    BY <2>4, <2>5, <2>6, <2>7, <2>8, <2>9, <2>10 DEF Next, Requests, Goal
<1> QED BY <1>1, QueueInvAlways, PTL DEF Spec, OneWay

(* A message that is lost made room: a queue loses one only to a send that finds
   it full, and of a sandbox's queue the oldest normal one while there is one. *)
THEOREM DropsRightly == Spec => DropPolicy
<1> DEFINE Gone(mb) == (queue[mb] \ queue'[mb]) \ handed'[mb]
           Lost(mb) ==
             /\ sent' = sent + 1
             /\ Cardinality(queue[mb]) = MaxQueue
             /\ \E m \in Gone(mb) :
                  /\ Gone(mb) = {m}
                  /\ \A k \in queue[mb] :
                       \/ m.id <= k.id
                       \/ mb # Orch /\ m.priority = "normal" /\ k.priority = "steer"
                  /\ mb # Orch /\ m.priority = "steer" =>
                       \A k \in queue[mb] : k.priority = "steer"
           Policy == \A mb \in Mailboxes :
             Gone(mb) # {} /\ (mb \in Names => sandboxes'[mb] # "absent") => Lost(mb)
<1>1. TypeOK /\ QueueInv /\ [Next]_vars => [Policy]_vars
  <2> SUFFICES ASSUME TypeOK, QueueInv, Next, NEW mb \in Mailboxes, Gone(mb) # {},
                      mb \in Names => sandboxes'[mb] # "absent"
               PROVE  Lost(mb)
    OBVIOUS
  <2>1. ASSUME NEW T \in SUBSET (Registered \cup {Orch}), NEW new \in Message,
               sent' = sent + 1, Enqueue(T, new)
        PROVE  Lost(mb)
    <3> DEFINE Q == queue[mb]
               Kept == Trimmed(BySteer(mb), Q)
    <3>1. Q \in SUBSET Message /\ IsFiniteSet(Q) /\ Cardinality(Q) <= MaxQueue
      BY DEF TypeOK, QueueInv, QueuesBounded
    <3>2. Cardinality(Q) \in Nat
      BY <3>1, FS_CardinalityType
    <3>3. /\ queue'[mb] = IF mb \in T THEN (Kept \cup {new}) \ Taken(mb, new) ELSE Q
          /\ handed'[mb] = IF mb \in T THEN handed[mb] \cup Taken(mb, new) ELSE handed[mb]
      BY <2>1 DEF Enqueue, Remaining, Enqueued
    <3>4. mb \in T /\ Gone(mb) \subseteq Q \ Kept
      BY <3>3
    <3>5. PICK m \in Gone(mb) : m \in Q \ Kept
      BY <3>4
    <3>6. BySteer(mb) \in BOOLEAN /\ (BySteer(mb) <=> mb # Orch)
      BY DEF BySteer
    <3> HIDE DEF Q
    <3>7. /\ Cardinality(Q) >= MaxQueue
          /\ Q \ Kept = {m}
          /\ \A k \in Q : \/ m.id <= k.id
                          \/ BySteer(mb) /\ m.priority = "normal" /\ k.priority = "steer"
          /\ BySteer(mb) /\ m.priority = "steer" => \A k \in Q : k.priority = "steer"
      BY <3>1, <3>2, <3>5, <3>6, TrimmedLoses
    <3>8. Cardinality(Q) = MaxQueue
      BY <3>1, <3>2, <3>7, MaxQueueAssumption
    <3> HIDE DEF Kept, Gone
    <3>9. Gone(mb) = {m}
      BY <3>4, <3>5, <3>7
    <3> QED BY <2>1, <3>5, <3>6, <3>7, <3>8, <3>9 DEF Q
  <2>2. ASSUME NEW n \in Names, Register(n) PROVE FALSE
    <3>1. mb = n /\ n \notin Registered
      BY <2>2 DEF Register, TypeOK
    <3> QED BY <3>1 DEF QueueInv
  <2>3. ASSUME NEW n \in Names, Unregister(n) PROVE FALSE
    <3>1. queue'[mb] = IF mb = n THEN {} ELSE queue[mb]
      BY <2>3 DEF Unregister, TypeOK
    <3>2. mb # n
      BY <2>3 DEF Unregister, TypeOK
    <3> QED BY <3>1, <3>2
  <2>4. ASSUME NEW x \in Mailboxes, NEW via \in Transports, NEW batch \in SUBSET queue[x],
               HandOut(x, batch, via)
        PROVE  FALSE
    BY <2>4 DEF HandOut, TypeOK
  <2>5. queue' # queue
    OBVIOUS
  <2> QED
    <3> HIDE DEF Gone, Lost
    <3> QED
      BY <2>1, <2>2, <2>3, <2>4, <2>5, NextIsMailboxStep
      DEF MailboxStep, Park, PollTimeout, GiveUp, Complete, Authenticate, PeerCloses,
          Closed, Deliver, store
<1> QED BY <1>1, QueueInvAlways, PTL DEF Spec, DropPolicy

-----------------------------------------------------------------------------
(* Sockets *)

LEMMA SocketsStep ==
  TypeOK /\ OpenSocketsRegistered /\ [Next]_vars => OpenSocketsRegistered'
<1> SUFFICES ASSUME TypeOK, OpenSocketsRegistered, [Next]_vars
             PROVE  OpenSocketsRegistered'
  OBVIOUS
<1>1. ASSUME UNCHANGED <<clients, readyState, mailbox>>, Registered \subseteq Registered'
      PROVE  OpenSocketsRegistered'
  BY <1>1 DEF OpenSocketsRegistered
<1>2. ASSUME NEW n \in Names, Register(n) PROVE OpenSocketsRegistered'
  BY <1>1, <1>2 DEF Register, net, Registered, TypeOK
<1>3. ASSUME NEW n \in Names, Unregister(n) PROVE OpenSocketsRegistered'
  <2> SUFFICES ASSUME NEW c \in Conns, readyState'[c] = "OPEN"
               PROVE  c \in clients' /\ (mailbox'[c] = Orch \/ mailbox'[c] \in Registered')
    BY DEF OpenSocketsRegistered
  <2>1. readyState[c] = "OPEN" /\ c \notin Reachable(n)
    BY <1>3 DEF Unregister
  <2>2. c \in clients /\ (mailbox[c] = Orch \/ mailbox[c] \in Registered)
    BY <2>1 DEF OpenSocketsRegistered
  <2>3. mailbox[c] # n
    BY <2>1, <2>2 DEF Reachable
  <2>4. Registered \ {n} \subseteq Registered'
    BY <1>3 DEF Unregister, Registered, TypeOK
  <2> QED BY <1>3, <2>2, <2>3, <2>4 DEF Unregister
<1>4. ASSUME NEW T, NEW m, Enqueue(T, m) PROVE OpenSocketsRegistered'
  BY <1>1, <1>4 DEF Enqueue, Registered
<1>5. ASSUME NEW mb, NEW batch, NEW via, HandOut(mb, batch, via) PROVE OpenSocketsRegistered'
  BY <1>1, <1>5 DEF HandOut, Registered
<1>6. ASSUME NEW p, NEW n, NEW via, Park(p, n, via) PROVE OpenSocketsRegistered'
  BY <1>1, <1>6 DEF Park, net, Registered
<1>7. ASSUME NEW p, PollTimeout(p) \/ GiveUp(p) PROVE OpenSocketsRegistered'
  BY <1>1, <1>7 DEF PollTimeout, GiveUp, net, Registered
<1>8. ASSUME NEW n \in Names, NEW via, Complete(n, via) PROVE OpenSocketsRegistered'
  BY <1>1, <1>8 DEF Complete, Registered, TypeOK
<1>9. ASSUME NEW c \in Conns, NEW mb \in Mailboxes, Authenticate(c, mb)
      PROVE  OpenSocketsRegistered'
  BY <1>9 DEF Authenticate, MayClaim, store, Registered, OpenSocketsRegistered, TypeOK
<1>10. ASSUME NEW c \in Conns, PeerCloses(c) \/ Closed(c) \/ Deliver(c)
       PROVE  OpenSocketsRegistered'
  BY <1>10 DEF PeerCloses, Closed, Deliver, store, Registered, OpenSocketsRegistered, TypeOK
<1>11. CASE UNCHANGED vars
  BY <1>1, <1>11 DEF vars, store, net, Registered
<1> QED
  BY <1>2, <1>3, <1>4, <1>5, <1>6, <1>7, <1>8, <1>9, <1>10, <1>11, NextIsMailboxStep
  DEF MailboxStep

(* An open socket's name is registered, although it is checked only once. *)
THEOREM SocketsSafe == Spec => []OpenSocketsRegistered
<1>1. Init => OpenSocketsRegistered
  BY DEF Init, OpenSocketsRegistered
<1> QED BY <1>1, SocketsStep, TypeCorrect, PTL DEF Spec

-----------------------------------------------------------------------------
(* Long polls *)

Positions(s, p) == {i \in DOMAIN s : s[i] = p}

(* What the list operations of the waiters do to the place of a poll. *)
LEMMA PositionsTail ==
  ASSUME NEW s \in Seq(Polls), s # <<>>, NEW p
  PROVE  /\ Positions(s, p) = {} => Positions(Tail(s), p) = {}
         /\ \A i : Positions(s, p) = {i} =>
              IF p = Head(s) THEN Positions(Tail(s), p) = {}
              ELSE Positions(Tail(s), p) = {i - 1}
         /\ 1 \in Positions(s, Head(s))
<1>1. /\ Tail(s) \in Seq(Polls) /\ Len(s) \in Nat /\ Len(s) > 0
      /\ Len(Tail(s)) = Len(s) - 1
      /\ \A i \in 1 .. Len(Tail(s)) : Tail(s)[i] = s[i + 1]
      /\ DOMAIN s = 1 .. Len(s) /\ DOMAIN Tail(s) = 1 .. Len(Tail(s))
      /\ Head(s) = s[1]
  BY HeadTailProperties, LenProperties, EmptySeq
<1>2. \A j \in Positions(Tail(s), p) : j + 1 \in Positions(s, p) /\ j \in Nat /\ j >= 1
  BY <1>1 DEF Positions
<1>3. Positions(s, p) = {} => Positions(Tail(s), p) = {}
  BY <1>2
<1>4. 1 \in Positions(s, Head(s))
  BY <1>1 DEF Positions
<1>5. ASSUME NEW i, Positions(s, p) = {i}
      PROVE  IF p = Head(s) THEN Positions(Tail(s), p) = {}
             ELSE Positions(Tail(s), p) = {i - 1}
  <2>1. i \in 1 .. Len(s) /\ s[i] = p /\ \A j \in 1 .. Len(s) : s[j] = p => j = i
    BY <1>1, <1>5 DEF Positions
  <2>2. CASE p = Head(s)
    <3>1. i = 1
      BY <1>4, <1>5, <2>2
    <3>2. ASSUME NEW j \in Positions(Tail(s), p) PROVE FALSE
      <4>1. j + 1 = 1 /\ j \in Nat /\ j >= 1
        BY <1>2, <1>5, <3>1
      <4> QED BY <4>1
    <3> QED BY <2>2, <3>2
  <2>3. CASE p # Head(s)
    <3>1. i # 1
      BY <1>1, <2>1, <2>3
    <3>2. i - 1 \in Positions(Tail(s), p)
      BY <1>1, <2>1, <3>1 DEF Positions
    <3>3. ASSUME NEW j \in Positions(Tail(s), p) PROVE j = i - 1
      BY <1>2, <1>5
    <3> QED BY <2>3, <3>2, <3>3
  <2> QED BY <2>2, <2>3
<1> QED BY <1>3, <1>4, <1>5

LEMMA PositionsAppend ==
  ASSUME NEW s \in Seq(Polls), NEW q \in Polls, NEW p
  PROVE  /\ p # q => Positions(Append(s, q), p) = Positions(s, p)
         /\ Positions(s, q) = {} => Positions(Append(s, q), q) = {Len(s) + 1}
<1>1. /\ Len(s) \in Nat /\ DOMAIN s = 1 .. Len(s)
      /\ DOMAIN Append(s, q) = 1 .. Len(s) + 1
      /\ \A i \in 1 .. Len(s) : Append(s, q)[i] = s[i]
      /\ Append(s, q)[Len(s) + 1] = q
  BY AppendProperties, LenProperties
<1> QED BY <1>1 DEF Positions

(* A sequence with its i-th element taken out. *)
LEMMA ElementOut ==
  ASSUME NEW s \in Seq(Polls), NEW i \in 1 .. Len(s)
  PROVE  LET w == SubSeq(s, 1, i - 1) \o SubSeq(s, i + 1, Len(s)) IN
         /\ w \in Seq(Polls) /\ Len(w) = Len(s) - 1
         /\ \A k \in 1 .. Len(s) - 1 : w[k] = IF k < i THEN s[k] ELSE s[k + 1]
<1> DEFINE a == SubSeq(s, 1, i - 1)
           b == SubSeq(s, i + 1, Len(s))
           w == a \o b
<1>1. Len(s) \in Nat /\ i \in Nat /\ i >= 1 /\ i <= Len(s)
  BY LenProperties
<1>2. \A k \in 1 .. Len(s) : s[k] \in Polls
  BY ElementOfSeq
<1>3. /\ a \in Seq(Polls)
      /\ Len(a) = IF 1 <= i - 1 THEN (i - 1) - 1 + 1 ELSE 0
      /\ \A k \in 1 .. (i - 1) - 1 + 1 : a[k] = s[1 + k - 1]
  <2>1. \A k \in 1 .. i - 1 : s[k] \in Polls
    BY <1>1, <1>2
  <2> QED BY <1>1, <2>1, SubSeqProperties
<1>4. /\ b \in Seq(Polls)
      /\ Len(b) = IF i + 1 <= Len(s) THEN Len(s) - (i + 1) + 1 ELSE 0
      /\ \A k \in 1 .. Len(s) - (i + 1) + 1 : b[k] = s[(i + 1) + k - 1]
  <2>1. \A k \in i + 1 .. Len(s) : s[k] \in Polls
    BY <1>1, <1>2
  <2> QED BY <1>1, <2>1, SubSeqProperties
<1> HIDE DEF a, b
<1>5. /\ w \in Seq(Polls) /\ Len(w) = Len(a) + Len(b)
      /\ \A k \in 1 .. Len(a) + Len(b) : w[k] = IF k <= Len(a) THEN a[k] ELSE b[k - Len(a)]
  BY <1>3, <1>4, ConcatProperties
<1> HIDE DEF w
<1>6. Len(a) = i - 1 /\ Len(b) = Len(s) - i
  BY <1>1, <1>3, <1>4
<1>7. Len(w) = Len(s) - 1
  BY <1>1, <1>5, <1>6
<1>8. ASSUME NEW k \in 1 .. Len(s) - 1
      PROVE  w[k] = IF k < i THEN s[k] ELSE s[k + 1]
  <2>1. CASE k < i
    <3>1. k \in 1 .. (i - 1) - 1 + 1 /\ k <= i - 1 /\ k \in 1 .. (i - 1) + (Len(s) - i)
      BY <1>1, <2>1
    <3>2. w[k] = a[k]
      BY <1>5, <1>6, <3>1
    <3>3. a[k] = s[k]
      BY <1>3, <3>1
    <3> QED BY <2>1, <3>2, <3>3
  <2>2. CASE ~(k < i)
    <3>1. /\ k - (i - 1) \in 1 .. Len(s) - (i + 1) + 1
          /\ (i + 1) + (k - (i - 1)) - 1 = k + 1
          /\ ~(k <= i - 1) /\ k \in 1 .. (i - 1) + (Len(s) - i)
      BY <1>1, <2>2
    <3>2. b[k - (i - 1)] = s[k + 1]
      BY <1>4, <3>1
    <3>3. w[k] = b[k - (i - 1)]
      BY <1>5, <1>6, <3>1
    <3> QED BY <2>2, <3>2, <3>3
  <2> QED BY <2>1, <2>2
<1> QED BY <1>5, <1>7, <1>8 DEF w, a, b

(* The same, as a correspondence of places. *)
Shifted(n, i, s, w) ==
  \A k \in 1 .. n - 1 : w[k] = IF k < i THEN s[k] ELSE s[k + 1]

Places(n, i, s, w) ==
  /\ \A k \in 1 .. n - 1 : \E l \in 1 .. n :
        l # i /\ w[k] = s[l] /\ k = (IF l < i THEN l ELSE l - 1)
  /\ \A l \in 1 .. n : l # i => \E k \in 1 .. n - 1 : w[k] = s[l]

LEMMA PlacesOut ==
  ASSUME NEW n \in Nat, NEW i \in 1 .. n, NEW s, NEW w, Shifted(n, i, s, w)
  PROVE  Places(n, i, s, w)
<1> USE DEF Shifted
<1>1. ASSUME NEW k \in 1 .. n - 1
      PROVE  \E l \in 1 .. n :
               l # i /\ w[k] = s[l] /\ k = (IF l < i THEN l ELSE l - 1)
  <2>1. CASE k < i
    <3>1. k \in 1 .. n /\ k # i /\ w[k] = s[k]
      BY <2>1
    <3> QED BY <2>1, <3>1
  <2>2. CASE ~(k < i)
    <3>1. k + 1 \in 1 .. n /\ k + 1 # i /\ w[k] = s[k + 1]
      BY <2>2
    <3>2. ~(k + 1 < i) /\ k = (k + 1) - 1
      BY <2>2
    <3> QED BY <3>1, <3>2
  <2> QED BY <2>1, <2>2
<1>2. ASSUME NEW l \in 1 .. n, l # i
      PROVE  \E k \in 1 .. n - 1 : w[k] = s[l]
  <2>1. CASE l < i
    <3>1. l \in 1 .. n - 1
      BY <2>1
    <3> QED BY <2>1, <3>1
  <2>2. CASE ~(l < i)
    <3>1. l - 1 \in 1 .. n - 1 /\ ~(l - 1 < i) /\ (l - 1) + 1 = l
      BY <1>2, <2>2
    <3>2. w[l - 1] = s[(l - 1) + 1]
      BY <3>1
    <3> QED BY <3>1, <3>2
  <2> QED BY <2>1, <2>2
<1> QED BY <1>1, <1>2 DEF Places

LEMMA PositionsWithout ==
  ASSUME NEW s \in Seq(Polls), NEW q \in Polls, NEW p \in Polls
  PROVE  /\ \A i : Positions(s, q) = {i} => Positions(Without(s, q), q) = {}
         /\ Positions(s, p) = {} => Positions(Without(s, q), p) = {}
         /\ \A j : p # q /\ Positions(s, p) = {j} => \E k : Positions(Without(s, q), p) = {k}
<1>1. CASE ~\E j \in DOMAIN s : s[j] = q
  BY <1>1 DEF Without, Positions
<1>2. CASE \E j \in DOMAIN s : s[j] = q
  <2> DEFINE w == Without(s, q)
  <2>1. PICK i \in 1 .. Len(s) :
          s[i] = q /\ w = SubSeq(s, 1, i - 1) \o SubSeq(s, i + 1, Len(s))
    BY <1>2, LenProperties DEF Without
  <2> HIDE DEF w
  <2>2. /\ \A k \in DOMAIN w : \E l \in DOMAIN s :
              l # i /\ w[k] = s[l] /\ k = (IF l < i THEN l ELSE l - 1)
        /\ \A l \in DOMAIN s : l # i => \E k \in DOMAIN w : w[k] = s[l]
    <3>1. /\ DOMAIN s = 1 .. Len(s) /\ Len(s) \in Nat
          /\ DOMAIN w = 1 .. Len(s) - 1
          /\ \A k \in 1 .. Len(s) - 1 : w[k] = IF k < i THEN s[k] ELSE s[k + 1]
      BY <2>1, ElementOut, LenProperties
    <3>2. PICK n \in Nat : n = Len(s)
      BY <3>1
    <3>3. i \in 1 .. n /\ Shifted(n, i, s, w)
      BY <3>1, <3>2 DEF Shifted
    <3>4. Places(n, i, s, w)
      BY <3>3, PlacesOut
    <3> QED BY <3>1, <3>2, <3>4 DEF Places
  <2>3. i \in Positions(s, q)
    BY <2>1, LenProperties DEF Positions
  <2>4. Positions(s, p) = {} => Positions(w, p) = {}
    BY <2>2 DEF Positions
  <2>5. ASSUME NEW j, Positions(s, q) = {j} PROVE Positions(w, q) = {}
    BY <2>2, <2>3, <2>5 DEF Positions
  <2>6. ASSUME NEW j, p # q, Positions(s, p) = {j}
        PROVE  \E k : Positions(w, p) = {k}
    <3>1. j \in DOMAIN s /\ s[j] = p /\ j # i
      BY <2>1, <2>6 DEF Positions
    <3>2. PICK k \in DOMAIN w : w[k] = p
      BY <2>2, <3>1
    <3>3. \A h \in Positions(w, p) : h = (IF j < i THEN j ELSE j - 1)
      BY <2>2, <2>6 DEF Positions
    <3>4. k \in Positions(w, p)
      BY <3>2 DEF Positions
    <3>5. Positions(w, p) = {k}
      BY <3>3, <3>4
    <3> QED BY <3>5
  <2> QED BY <2>4, <2>5, <2>6 DEF w
<1> QED BY <1>1, <1>2

LEMMA HoldsPositions ==
  ASSUME NEW n \in Names, NEW p
  PROVE  /\ Holds(n, p) = Positions(pollWaiters[n], p)
         /\ Holds(n, p)' = Positions(pollWaiters'[n], p)
BY DEF Holds, Positions

(* WaitersAccounted for one poll, with the lists and timers as parameters. *)
Accounted(timers, ps, waiters, p) ==
  /\ p \in timers <=> ps[p] # Idle
  /\ ps[p] # Idle => \E i : Positions(waiters[ps[p].name], p) = {i}
  /\ \A n \in Names : (ps[p] = Idle \/ ps[p].name # n) => Positions(waiters[n], p) = {}

LEMMA AccountedEach ==
  /\ TypeOK  => (WaitersAccounted  <=> \A p \in Polls : Accounted(pollTimers, polls, pollWaiters, p))
  /\ TypeOK' => (WaitersAccounted' <=> \A p \in Polls : Accounted(pollTimers', polls', pollWaiters', p))
<1>1. ASSUME NEW s, NEW p, NEW i, Positions(s, p) = {i} PROVE i \in DOMAIN s
  BY <1>1 DEF Positions
<1>2. ASSUME NEW ps \in [Polls -> Poll \cup {Idle}], NEW p \in Polls, ps[p] # Idle
      PROVE  ps[p].name \in Names
  BY <1>2 DEF Poll
<1>3. ASSUME TypeOK, NEW p \in Polls
      PROVE  Accounted(pollTimers, polls, pollWaiters, p) <=>
               /\ p \in pollTimers <=> polls[p] # Idle
               /\ polls[p] # Idle => \E i \in DOMAIN pollWaiters[polls[p].name] :
                                        Holds(polls[p].name, p) = {i}
               /\ \A n \in Names : (polls[p] = Idle \/ polls[p].name # n) => Holds(n, p) = {}
  <2>1. polls[p] # Idle => polls[p].name \in Names
    BY <1>2, <1>3 DEF TypeOK
  <2>2. \A n \in Names : Holds(n, p) = Positions(pollWaiters[n], p)
    BY HoldsPositions
  <2> QED BY <1>1, <2>1, <2>2 DEF Accounted
<1>4. ASSUME TypeOK', NEW p \in Polls
      PROVE  Accounted(pollTimers', polls', pollWaiters', p) <=>
               /\ p \in pollTimers' <=> polls'[p] # Idle
               /\ polls'[p] # Idle => \E i \in DOMAIN pollWaiters'[polls'[p].name] :
                                        Positions(pollWaiters'[polls'[p].name], p) = {i}
               /\ \A n \in Names : (polls'[p] = Idle \/ polls'[p].name # n)
                                      => Positions(pollWaiters'[n], p) = {}
  <2>1. polls'[p] # Idle => polls'[p].name \in Names
    BY <1>2, <1>4 DEF TypeOK
  <2> QED BY <1>1, <2>1 DEF Accounted
<1>5. TypeOK => (WaitersAccounted <=> \A p \in Polls : Accounted(pollTimers, polls, pollWaiters, p))
  BY <1>3 DEF WaitersAccounted
<1>6. TypeOK' => (WaitersAccounted' <=> \A p \in Polls : Accounted(pollTimers', polls', pollWaiters', p))
  BY <1>4 DEF WaitersAccounted, Holds, Positions
<1> QED BY <1>5, <1>6

LEMMA EnqueueAccounted ==
  ASSUME TypeOK, WaitersAccounted, NEW T \in SUBSET (Registered \cup {Orch}),
         NEW m, Enqueue(T, m), NEW p \in Polls
  PROVE  Accounted(pollTimers', polls', pollWaiters', p)
<1> DEFINE served == {n \in T \cap Names : HasWaiter(n)}
           first(n) == Head(pollWaiters[n])
           answered == {first(n) : n \in served}
<1>1. Accounted(pollTimers, polls, pollWaiters, p)
  BY AccountedEach
<1>2. /\ pollTimers' = pollTimers \ answered
      /\ polls'[p] = IF p \in answered THEN Idle ELSE polls[p]
      /\ \A n \in Names : pollWaiters'[n] = IF n \in served THEN Tail(pollWaiters[n])
                                                          ELSE pollWaiters[n]
  BY DEF Enqueue
<1>3. \A n \in served : n \in Names /\ pollWaiters[n] \in Seq(Polls) /\ pollWaiters[n] # <<>>
  BY DEF HasWaiter, TypeOK
<1>4. \A n \in served : p = first(n) => polls[p] # Idle /\ polls[p].name = n
  <2> TAKE n \in served
  <2> HAVE p = first(n)
  <2>1. 1 \in Positions(pollWaiters[n], p)
    BY <1>3, PositionsTail
  <2> QED BY <1>1, <1>3, <2>1 DEF Accounted
<1> HIDE DEF served
<1>5. ASSUME NEW n \in Names, polls[p] = Idle \/ polls[p].name # n
      PROVE  Positions(pollWaiters'[n], p) = {}
  <2>1. Positions(pollWaiters[n], p) = {}
    BY <1>1, <1>5 DEF Accounted
  <2>2. CASE n \in served
    BY <1>2, <1>3, <2>1, <2>2, PositionsTail
  <2>3. CASE n \notin served
    BY <1>2, <2>1, <2>3
  <2> QED BY <2>2, <2>3
<1>6. CASE p \in answered
  <2>1. PICK n \in served : p = first(n)
    BY <1>6
  <2>2. n \in Names /\ polls[p] # Idle /\ polls[p].name = n
    BY <1>3, <1>4, <2>1
  <2>3. PICK i : Positions(pollWaiters[n], p) = {i}
    BY <1>1, <2>2 DEF Accounted
  <2>4. Positions(pollWaiters'[n], p) = {}
    BY <1>2, <1>3, <2>1, <2>2, <2>3, PositionsTail
  <2> QED BY <1>2, <1>5, <1>6, <2>2, <2>4 DEF Accounted
<1>7. CASE p \notin answered
  <2>1. ASSUME polls[p] # Idle
        PROVE  \E i : Positions(pollWaiters'[polls[p].name], p) = {i}
    <3> DEFINE n == polls[p].name
    <3>1. n \in Names
      BY <2>1 DEF TypeOK, Poll
    <3>2. PICK i : Positions(pollWaiters[n], p) = {i}
      BY <1>1, <2>1 DEF Accounted
    <3>3. CASE n \in served
      <4>1. p # Head(pollWaiters[n])
        BY <1>7, <3>3
      <4>2. Positions(Tail(pollWaiters[n]), p) = {i - 1}
        BY <1>3, <3>2, <3>3, <4>1, PositionsTail
      <4> QED BY <1>2, <3>1, <3>3, <4>2
    <3>4. CASE n \notin served
      BY <1>2, <3>1, <3>2, <3>4
    <3> QED BY <3>3, <3>4
  <2> QED BY <1>1, <1>2, <1>5, <1>7, <2>1 DEF Accounted
<1> QED BY <1>6, <1>7

LEMMA WaitersStep == TypeOK /\ WaitersAccounted /\ [Next]_vars => WaitersAccounted'
<1> SUFFICES ASSUME TypeOK, WaitersAccounted, [Next]_vars,
                    NEW p \in Polls
             PROVE  Accounted(pollTimers', polls', pollWaiters', p)
  BY TypeOKStep, AccountedEach
<1>0. Accounted(pollTimers, polls, pollWaiters, p)
  BY AccountedEach
<1>1. ASSUME UNCHANGED <<pollTimers, polls, pollWaiters>>
      PROVE  Accounted(pollTimers', polls', pollWaiters', p)
  BY <1>0, <1>1
<1>2. ASSUME NEW T \in SUBSET (Registered \cup {Orch}), NEW m \in Message, Enqueue(T, m)
      PROVE  Accounted(pollTimers', polls', pollWaiters', p)
  BY <1>2, EnqueueAccounted
<1>3. ASSUME NEW n \in Names, Unregister(n)
      PROVE  Accounted(pollTimers', polls', pollWaiters', p)
  <2> DEFINE waiting == {q \in Polls : Positions(pollWaiters[n], q) # {}}
  <2>1. /\ pollTimers' = pollTimers \ waiting
        /\ polls'[p] = IF p \in waiting THEN Idle ELSE polls[p]
        /\ \A k \in Names : pollWaiters'[k] = IF k = n THEN <<>> ELSE pollWaiters[k]
    BY <1>3, HoldsPositions DEF Unregister, TypeOK
  <2>2. p \in waiting <=> polls[p] # Idle /\ polls[p].name = n
    BY <1>0 DEF Accounted
  <2>3. Positions(<<>>, p) = {}
    BY DEF Positions
  <2>4. polls[p] # Idle => polls[p].name \in Names
    BY DEF TypeOK, Poll
  <2> HIDE DEF waiting
  <2>5. CASE p \in waiting
    BY <1>0, <2>1, <2>2, <2>3, <2>5 DEF Accounted
  <2>6. CASE p \notin waiting
    BY <1>0, <2>1, <2>2, <2>3, <2>4, <2>6 DEF Accounted
  <2> QED BY <2>5, <2>6
<1>4. ASSUME NEW q \in Polls, NEW n \in Names, NEW via \in Transports, Park(q, n, via)
      PROVE  Accounted(pollTimers', polls', pollWaiters', p)
  <2> DEFINE r == [name |-> n, via |-> via, alive |-> TRUE]
  <2>1. /\ pollTimers' = pollTimers \cup {q}
        /\ polls' = [polls EXCEPT ![q] = r]
        /\ \A k \in Names : pollWaiters'[k] = IF k = n THEN Append(pollWaiters[n], q)
                                                      ELSE pollWaiters[k]
        /\ polls[q] = Idle /\ pollWaiters[n] \in Seq(Polls)
    BY <1>4 DEF Park, TypeOK
  <2>2. r # Idle /\ r.name = n
    <3>1. r \in [name : Names, via : Conns \cup {Http}, alive : BOOLEAN]
      BY DEF Transports
    <3> QED BY <3>1, RelayConstants
  <2>3. polls'[p] = IF p = q THEN r ELSE polls[p]
    BY <2>1 DEF TypeOK
  <2> HIDE DEF r
  <2>4. CASE p = q
    <3>1. \A k \in Names : Positions(pollWaiters[k], q) = {}
      BY <1>0, <2>1, <2>4 DEF Accounted
    <3>2. Positions(Append(pollWaiters[n], q), q) = {Len(pollWaiters[n]) + 1}
      BY <2>1, <3>1, PositionsAppend
    <3> QED BY <2>1, <2>2, <2>3, <2>4, <3>1, <3>2 DEF Accounted
  <2>5. CASE p # q
    <3>1. Positions(Append(pollWaiters[n], q), p) = Positions(pollWaiters[n], p)
      BY <2>1, <2>5, PositionsAppend
    <3>2. \A k \in Names : Positions(pollWaiters'[k], p) = Positions(pollWaiters[k], p)
      BY <2>1, <3>1
    <3>3. polls[p] # Idle => polls[p].name \in Names
      BY DEF TypeOK, Poll
    <3> QED BY <1>0, <2>1, <2>3, <2>5, <3>2, <3>3 DEF Accounted
  <2> QED BY <2>4, <2>5
<1>5. ASSUME NEW q \in Polls, PollTimeout(q)
      PROVE  Accounted(pollTimers', polls', pollWaiters', p)
  <2>1. /\ pollTimers' = pollTimers \ {q}
        /\ polls'[p] = IF p = q THEN Idle ELSE polls[p]
        /\ \A k \in Names : pollWaiters'[k] = IF k = polls[q].name
                                              THEN Without(pollWaiters[k], q)
                                              ELSE pollWaiters[k]
        /\ \A k \in Names : pollWaiters[k] \in Seq(Polls)
    BY <1>5 DEF PollTimeout, TypeOK
  <2>2. polls[q] # Idle
    BY <1>5, AccountedEach DEF PollTimeout, Accounted
  <2>3. ASSUME NEW k \in Names, Positions(pollWaiters[k], p) = {}
        PROVE  Positions(pollWaiters'[k], p) = {}
    BY <2>1, <2>3, PositionsWithout
  <2>4. CASE p = q
    <3>1. polls[p].name \in Names
      BY <2>2, <2>4 DEF TypeOK, Poll
    <3>2. PICK i : Positions(pollWaiters[polls[p].name], p) = {i}
      BY <1>0, <2>2, <2>4 DEF Accounted
    <3>3. Positions(pollWaiters'[polls[p].name], p) = {}
      <4>1. pollWaiters[polls[p].name] \in Seq(Polls)
        BY <2>1, <3>1
      <4>2. Positions(Without(pollWaiters[polls[p].name], p), p) = {}
        BY <3>2, <4>1, PositionsWithout
      <4> QED BY <2>1, <2>4, <3>1, <4>2
    <3>4. \A k \in Names : k # polls[p].name => Positions(pollWaiters'[k], p) = {}
      BY <1>0, <2>3 DEF Accounted
    <3> QED BY <2>1, <2>4, <3>3, <3>4 DEF Accounted
  <2>5. CASE p # q
    <3>1. ASSUME polls[p] # Idle
          PROVE  \E i : Positions(pollWaiters'[polls[p].name], p) = {i}
      <4>1. polls[p].name \in Names
        BY <3>1 DEF TypeOK, Poll
      <4>2. PICK i : Positions(pollWaiters[polls[p].name], p) = {i}
        BY <1>0, <3>1 DEF Accounted
      <4>3. CASE polls[p].name = polls[q].name
        <5>1. pollWaiters[polls[p].name] \in Seq(Polls)
          BY <2>1, <4>1
        <5>2. PICK s \in Seq(Polls) : s = pollWaiters[polls[p].name]
          BY <5>1
        <5>3. p # q /\ Positions(s, p) = {i}
          BY <2>5, <4>2, <5>2
        <5>4. \E k : Positions(Without(s, q), p) = {k}
          <6>1. \A j : p # q /\ Positions(s, p) = {j}
                        => \E k : Positions(Without(s, q), p) = {k}
            BY PositionsWithout
          <6> QED BY <5>3, <6>1
        <5> QED BY <2>1, <4>1, <4>3, <5>2, <5>4
      <4>4. CASE polls[p].name # polls[q].name
        BY <2>1, <4>1, <4>2, <4>4
      <4> QED BY <4>3, <4>4
    <3>2. \A k \in Names : polls[p] = Idle \/ polls[p].name # k
                              => Positions(pollWaiters'[k], p) = {}
      BY <1>0, <2>3 DEF Accounted
    <3> QED BY <1>0, <2>1, <2>5, <3>1, <3>2 DEF Accounted
  <2> QED BY <2>4, <2>5
<1>6. ASSUME NEW q \in Polls, GiveUp(q)
      PROVE  Accounted(pollTimers', polls', pollWaiters', p)
  <2>1. UNCHANGED <<pollTimers, pollWaiters>>
    BY <1>6 DEF GiveUp
  <2>2. CASE p # q
    <3>1. polls'[p] = polls[p]
      BY <1>6, <2>2 DEF GiveUp, TypeOK
    <3> QED BY <1>0, <2>1, <3>1 DEF Accounted
  <2>3. CASE p = q
    <3>1. polls[p] # Idle /\ polls[p] \in Poll
      BY <1>6, <2>3 DEF GiveUp, TypeOK
    <3>2. polls'[p] = [polls[p] EXCEPT !.alive = FALSE]
      BY <1>6, <2>3 DEF GiveUp, TypeOK
    <3>3. polls'[p] \in Poll /\ polls'[p].name = polls[p].name
      BY <3>1, <3>2 DEF Poll
    <3>4. polls'[p] # Idle
      BY <3>3, RelayConstants DEF Poll
    <3> QED BY <1>0, <2>1, <3>1, <3>3, <3>4 DEF Accounted
  <2> QED BY <2>2, <2>3
<1>7. ASSUME NEW n \in Names, NEW via \in Transports, Register(n) \/ Complete(n, via)
      PROVE  Accounted(pollTimers', polls', pollWaiters', p)
  BY <1>1, <1>7 DEF Register, Complete
<1>8. ASSUME NEW mb, NEW via, NEW batch, HandOut(mb, batch, via)
      PROVE  Accounted(pollTimers', polls', pollWaiters', p)
  BY <1>1, <1>8 DEF HandOut
<1>9. ASSUME NEW c \in Conns, NEW mb \in Mailboxes, Authenticate(c, mb)
      PROVE  Accounted(pollTimers', polls', pollWaiters', p)
  BY <1>1, <1>9 DEF Authenticate, store
<1>10. ASSUME NEW c \in Conns, PeerCloses(c) \/ Closed(c) \/ Deliver(c)
       PROVE  Accounted(pollTimers', polls', pollWaiters', p)
  BY <1>1, <1>10 DEF PeerCloses, Closed, Deliver, store
<1>11. CASE UNCHANGED vars
  BY <1>1, <1>11 DEF vars, store
<1>12. CASE Next
  <2>1. MailboxStep
    BY <1>12, NextIsMailboxStep
  <2>2. CASE \E n \in Names : Register(n)
    BY <1>7, <2>2, RelayConstants DEF Transports
  <2> QED BY <1>2, <1>3, <1>4, <1>5, <1>6, <1>7, <1>8, <1>9, <1>10, <2>1, <2>2
          DEF MailboxStep
<1> QED BY <1>11, <1>12

(* An unanswered long poll is armed and stands once in its own waiter list. *)
THEOREM WaitersSafe == Spec => []WaitersAccounted
<1>1. Init => WaitersAccounted
  BY DEF Init, WaitersAccounted, Holds
<1> QED BY <1>1, WaitersStep, TypeCorrect, PTL DEF Spec

-----------------------------------------------------------------------------
(* Unregistered names *)

(* A poll of an unregistered name belongs to a socket that is being closed. *)
Orphan(ps, names, states, p) ==
  ps[p] # Idle /\ ps[p].via # Http =>
    /\ states[ps[p].via] # "NEW"
    /\ ps[p].name \notin names => states[ps[p].via] # "OPEN"

OverHttp(ps, names, p) == ps[p] # Idle /\ ps[p].name \notin names => ps[p].via # Http

PollsInv ==
  \A p \in Polls : Orphan(polls, Registered, readyState, p) /\ OverHttp(polls, Registered, p)

LEMMA PollsInvStep ==
  TypeOK /\ WaitersAccounted /\ OpenSocketsRegistered /\ PollsInv /\ [Next]_vars => PollsInv'
<1> SUFFICES ASSUME TypeOK, WaitersAccounted, OpenSocketsRegistered, PollsInv, [Next]_vars,
                    NEW p \in Polls
             PROVE  Orphan(polls', Registered', readyState', p) /\ OverHttp(polls', Registered', p)
  BY DEF PollsInv
<1> DEFINE Goal == Orphan(polls', Registered', readyState', p) /\ OverHttp(polls', Registered', p)
<1>0. /\ Orphan(polls, Registered, readyState, p) /\ OverHttp(polls, Registered, p)
      /\ polls[p] # Idle => polls[p] \in Poll
  BY DEF PollsInv, TypeOK
\* The poll is answered or as it was, names are only added, sockets only close.
<1>1. ASSUME polls'[p] \in {polls[p], Idle},
             Registered \subseteq Registered',
             \A c \in Conns : readyState'[c] \in {readyState[c], "CLOSING", "CLOSED"}
      PROVE  Goal
  BY <1>0, <1>1 DEF Orphan, OverHttp, Poll
<1>2. ASSUME NEW T \in SUBSET (Registered \cup {Orch}), NEW m \in Message, Enqueue(T, m)
      PROVE  Goal
  <2>1. polls'[p] \in {polls[p], Idle} /\ Registered' = Registered /\ readyState' = readyState
    BY <1>2 DEF Enqueue, Registered
  <2> QED BY <1>1, <2>1
<1>3. ASSUME NEW n \in Names, Register(n) PROVE Goal
  <2>1. Registered \subseteq Registered' /\ polls' = polls /\ readyState' = readyState
    BY <1>3 DEF Register, Registered, net, TypeOK
  <2> QED BY <1>1, <2>1
<1>4. ASSUME NEW n \in Names, Unregister(n) PROVE Goal
  <2>1. /\ Registered' = Registered \ {n}
        /\ \A c \in Conns : readyState'[c] \in {readyState[c], "CLOSING"}
    BY <1>4 DEF Unregister, Registered, TypeOK
  <2>2. polls'[p] = IF Holds(n, p) # {} THEN Idle ELSE polls[p]
    BY <1>4 DEF Unregister
  <2>3. CASE Holds(n, p) # {}
    BY <2>2, <2>3 DEF Orphan, OverHttp
  <2>4. CASE Holds(n, p) = {} /\ polls[p] = Idle
    BY <2>2, <2>4 DEF Orphan, OverHttp
  <2>5. CASE Holds(n, p) = {} /\ polls[p] # Idle
    <3>1. polls[p].name # n
      BY <2>5 DEF WaitersAccounted
    <3> QED BY <1>0, <2>1, <2>2, <2>5, <3>1 DEF Orphan, OverHttp, Poll
  <2> QED BY <2>3, <2>4, <2>5
<1>5. ASSUME NEW mb, NEW via, NEW batch, HandOut(mb, batch, via) PROVE Goal
  BY <1>1, <1>5 DEF HandOut, Registered
<1>6. ASSUME NEW q \in Polls, NEW n \in Names, NEW via \in Transports,
             MaySpeak(n, via), Park(q, n, via)
      PROVE  Goal
  <2> DEFINE r == [name |-> n, via |-> via, alive |-> TRUE]
  <2>1. /\ polls'[p] = IF p = q THEN r ELSE polls[p]
        /\ Registered' = Registered /\ readyState' = readyState
    BY <1>6 DEF Park, Registered, net, TypeOK
  <2>2. n # Orch
    BY RelayConstants
  <2>3. CASE p = q /\ via = Http
    BY <1>6, <2>1, <2>2, <2>3 DEF MaySpeak, Orphan, OverHttp
  <2>4. CASE p = q /\ via # Http
    <3>1. via \in Conns /\ mailbox[via] = n /\ readyState[via] \in {"OPEN", "CLOSING"}
      BY <1>6, <2>4 DEF MaySpeak, Transports
    <3>2. readyState[via] = "OPEN" => n \in Registered
      BY <2>2, <3>1 DEF OpenSocketsRegistered
    <3> QED BY <2>1, <2>4, <3>1, <3>2 DEF Orphan, OverHttp
  <2>5. CASE p # q
    BY <1>1, <2>1, <2>5
  <2> QED BY <2>3, <2>4, <2>5
<1>7. ASSUME NEW q \in Polls, PollTimeout(q) PROVE Goal
  <2>1. polls'[p] \in {polls[p], Idle} /\ Registered' = Registered /\ readyState' = readyState
    BY <1>7 DEF PollTimeout, Registered, net, TypeOK
  <2> QED BY <1>1, <2>1
<1>8. ASSUME NEW q \in Polls, GiveUp(q) PROVE Goal
  <2>1. Registered' = Registered /\ readyState' = readyState
    BY <1>8 DEF GiveUp, Registered, net
  <2>2. CASE p # q
    <3>1. polls'[p] = polls[p]
      BY <1>8, <2>2 DEF GiveUp, TypeOK
    <3> QED BY <1>1, <2>1, <3>1
  <2>3. CASE p = q
    <3>1. polls[p] # Idle /\ polls[p] \in Poll
      BY <1>8, <2>3 DEF GiveUp, TypeOK
    <3>2. polls'[p] = [polls[p] EXCEPT !.alive = FALSE]
      BY <1>8, <2>3 DEF GiveUp, TypeOK
    <3>3. polls'[p].via = polls[p].via /\ polls'[p].name = polls[p].name
      BY <3>1, <3>2 DEF Poll
    <3> QED BY <1>0, <2>1, <3>1, <3>3 DEF Orphan, OverHttp
  <2> QED BY <2>2, <2>3
<1>9. ASSUME NEW n \in Names, NEW via \in Transports, Complete(n, via) PROVE Goal
  <2>1. Registered' = Registered /\ polls' = polls /\ readyState' = readyState
    BY <1>9 DEF Complete, Registered, TypeOK
  <2> QED BY <1>1, <2>1
<1>10. ASSUME NEW c \in Conns, NEW mb \in Mailboxes, Authenticate(c, mb) PROVE Goal
  <2>1. /\ Registered' = Registered /\ polls' = polls
        /\ \A d \in Conns : d # c => readyState'[d] = readyState[d]
        /\ readyState[c] = "NEW"
    BY <1>10 DEF Authenticate, store, Registered, TypeOK
  <2> QED BY <1>0, <2>1 DEF Orphan, OverHttp, Poll
<1>11. ASSUME NEW c \in Conns, PeerCloses(c) \/ Closed(c) \/ Deliver(c) PROVE Goal
  <2>1. /\ Registered' = Registered /\ polls' = polls
        /\ \A d \in Conns : readyState'[d] \in {readyState[d], "CLOSING", "CLOSED"}
    BY <1>11 DEF PeerCloses, Closed, Deliver, store, Registered, TypeOK
  <2> QED BY <1>1, <2>1
<1>12. CASE UNCHANGED vars
  <2>1. Registered' = Registered /\ polls' = polls /\ readyState' = readyState
    BY <1>12 DEF vars, store, net, Registered
  <2> QED BY <1>1, <2>1
<1>13. CASE Next
  <2>1. MailboxStep
    BY <1>13, NextIsMailboxStep
  <2> HIDE DEF Goal
  <2>2. Goal
    BY <1>2, <1>3, <1>4, <1>5, <1>6, <1>7, <1>8, <1>9, <1>10, <1>11, <2>1
    DEF MailboxStep
  <2> QED BY <2>2 DEF Goal
<1> QED BY <1>12, <1>13

(* Nothing waits at an unregistered name but a request of a closing socket. *)
THEOREM UnregisteredSafe == Spec => []UnregisteredKeepsNothing
<1>1. Init => PollsInv
  BY DEF Init, PollsInv, Orphan, OverHttp
<1>2. TypeOK /\ QueueInv /\ PollsInv => UnregisteredKeepsNothing
  <2> SUFFICES ASSUME TypeOK, QueueInv, PollsInv, NEW n \in Names \ Registered
               PROVE  /\ queue[n] = {}
                      /\ \A p \in Polls : polls[p] # Idle /\ polls[p].name = n =>
                           polls[p].via # Http /\ readyState[polls[p].via] # "OPEN"
    BY DEF UnregisteredKeepsNothing
  <2>1. queue[n] = {}
    BY DEF QueueInv
  <2> QED BY <2>1 DEF PollsInv, Orphan, OverHttp
<1> QED
  BY <1>1, <1>2, QueueInvInit, QueueInvStep, PollsInvStep, TypeCorrect, WaitersSafe,
     SocketsSafe, PTL DEF Spec
=============================================================================
