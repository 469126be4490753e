---------------------------- MODULE RelaySession ----------------------------
(***************************************************************************)
(* One session of the relay: packages/relay/src/session-store.ts, with the *)
(* handlers of protocol.ts that call it and the connection rules of        *)
(* server.ts.  Every action is one run of a handler (an RPC, a timer or a  *)
(* WebSocket event); Node runs each to completion, so they are atomic.     *)
(*                                                                         *)
(* A mailbox is a sandbox name or the orchestrator.  A queue is the set of *)
(* the messages it holds: the array in the code is only ever read by       *)
(* priority and age, and ids grow with age (MailboxArray checks the array  *)
(* operations against this reading); the queue policy is in Mailbox.        *)
(***************************************************************************)
EXTENDS Mailbox, Sequences

CONSTANTS
  Names,           \* sandbox names
  Orch,            \* the orchestrator's mailbox ('orchestrator' is reserved)
  Conns,           \* WebSocket connections, each used once
  Polls,           \* slots for outstanding long polls
  Http,            \* the transport of a request that came over POST /rpc
  Idle,            \* value of a poll slot that is not in use
  MaxSandboxes,    \* maxSandboxesPerSession
  MaxPollWaiters,  \* MAX_POLL_WAITERS
  DrainLimit,      \* default limit of drainQueue
  Limits,          \* the limits clients ask for
  MaxMsgs          \* bound: messages sent in a behaviour

Mailboxes == Names \cup {Orch}
Notice    == [completed : Names]

ASSUME RelayConstants ==
  /\ Orch \notin Names
  /\ Http \notin Conns
  /\ Idle \notin [name : Names, via : Conns \cup {Http}, alive : BOOLEAN]
  /\ IsFiniteSet(Names)
  /\ MaxSandboxes \in Nat
  /\ MaxPollWaiters \in Nat
  /\ DrainLimit \in Nat \ {0}
  /\ Limits \subseteq Nat \ {0}
  /\ MaxMsgs \in Nat

VARIABLES
  sandboxes,    \* session.sandboxes: the state of each name, "absent" if no entry
  queue,        \* session.messageQueues and session.orchestratorQueue
  pollWaiters,  \* session.pollWaiters: parked long polls, first come first served
  pollTimers,   \* the polls whose setTimeout is armed
  polls,        \* the unanswered long polls: mailbox, transport, requester listening
  clients,      \* session.clients
  readyState,   \* ws.readyState
  mailbox,      \* the identity a connection authenticated as
  wire,         \* what was written to a socket and not yet read by the peer
  sent,         \* number of messages sent so far (history: message ids)
  handed,       \* what each mailbox gave to a poll or a socket (history)
  received      \* what a client of each mailbox got to see (history)

store == <<sandboxes, queue, pollWaiters, pollTimers, polls>>
net   == <<clients, readyState, mailbox, wire>>
vars  == <<store, net, sent, handed, received>>

Poll == [name : Names, via : Conns \cup {Http}, alive : BOOLEAN]

TypeOK ==
  /\ sandboxes   \in [Names -> {"absent", "running", "completed"}]
  /\ queue       \in [Mailboxes -> SUBSET Message]
  /\ pollWaiters \in [Names -> Seq(Polls)]
  /\ pollTimers  \in SUBSET Polls
  /\ polls       \in [Polls -> Poll \cup {Idle}]
  /\ clients     \in SUBSET Conns
  /\ readyState  \in [Conns -> {"NEW", "OPEN", "CLOSING", "CLOSED"}]
  /\ mailbox     \in [Conns -> Mailboxes]
  /\ wire        \in [Conns -> SUBSET (Message \cup Notice)]
  /\ sent        \in Nat
  /\ handed      \in [Mailboxes -> SUBSET Message]
  /\ received    \in [Mailboxes -> SUBSET (Message \cup Notice)]

Init ==
  /\ sandboxes   = [n \in Names |-> "absent"]
  /\ queue       = [mb \in Mailboxes |-> {}]
  /\ pollWaiters = [n \in Names |-> <<>>]
  /\ pollTimers  = {}
  /\ polls       = [p \in Polls |-> Idle]
  /\ clients     = {}
  /\ readyState  = [c \in Conns |-> "NEW"]
  /\ mailbox     = [c \in Conns |-> Orch]
  /\ wire        = [c \in Conns |-> {}]
  /\ sent        = 0
  /\ handed      = [mb \in Mailboxes |-> {}]
  /\ received    = [mb \in Mailboxes |-> {}]

-----------------------------------------------------------------------------
(* Queues *)

Registered == {n \in Names : sandboxes[n] # "absent"}

\* A sandbox's queue serves steer messages first, the orchestrator's does not.
BySteer(mb) == mb # Orch

\* The sockets the relay would write to for a mailbox.
Reachable(mb) ==
  {c \in clients : readyState[c] = "OPEN" /\ mailbox[c] = mb}

\* Mutant: a send does not look at the parked polls.
WaitersForgotten(mb) == FALSE

HasWaiter(mb)   == mb \in Names /\ pollWaiters[mb] # <<>>
Enqueued(mb, m) == Trimmed(BySteer(mb), queue[mb]) \cup {m}

\* What leaves the mailbox in the handler that put m in: everything, up to the
\* default limit, to the first waiter; else m alone to the open sockets.
Taken(mb, m) ==
  CASE HasWaiter(mb)       -> Batch(BySteer(mb), Enqueued(mb, m), DrainLimit)
    [] ~HasWaiter(mb) /\ Reachable(mb) # {} -> {m}
    [] OTHER               -> {}

\* Mutant: a message that was pushed to a socket stays queued for the next recv.
PushedStays(mb, m) ==
  IF HasWaiter(mb) THEN Enqueued(mb, m) \ Taken(mb, m) ELSE Enqueued(mb, m)

Remaining(mb, m) == Enqueued(mb, m) \ Taken(mb, m)

\* Whether the reply to poll r is read by anyone: over a socket it is written
\* only while the socket is open, and the client must still be waiting for it.
ReadOverHttp(r)      == r.alive /\ r.via = Http
WrittenToSocket(r,c) == r.alive /\ r.via = c /\ readyState[c] = "OPEN"

\* Mutant: the open sockets are written to as well when a poll was served.
WrittenBoth(T, m, c) ==
  LET mb == mailbox[c] IN
  CASE mb \in T /\ c \in Reachable(mb) -> {m}
    [] mb \in T /\ c \notin Reachable(mb) /\ HasWaiter(mb) ->
         IF WrittenToSocket(polls[Head(pollWaiters[mb])], c) THEN Taken(mb, m) ELSE {}
    [] OTHER -> {}

\* What enqueueMessage for m in the mailboxes of T writes to socket c: the reply
\* to a poll that c made, or, when no poll waits, m.
Written(T, m, c) ==
  LET mb == mailbox[c] IN
  CASE mb \in T /\ HasWaiter(mb) ->
         IF WrittenToSocket(polls[Head(pollWaiters[mb])], c) THEN Taken(mb, m) ELSE {}
    [] mb \in T /\ ~HasWaiter(mb) /\ c \in Reachable(mb) -> {m}
    [] OTHER -> {}

\* enqueueMessage for m in every mailbox of T, in one handler.
Enqueue(T, m) ==
  LET served   == {n \in T \cap Names : HasWaiter(n)}
      first(n) == Head(pollWaiters[n])
      answered == {first(n) : n \in served}
      read(mb) ==
        IF mb \in served /\ ReadOverHttp(polls[first(mb)]) THEN Taken(mb, m) ELSE {}
  IN
  /\ queue' = [mb \in Mailboxes |->
                 IF mb \in T THEN Remaining(mb, m) ELSE queue[mb]]
  /\ handed' = [mb \in Mailboxes |->
                 IF mb \in T THEN handed[mb] \cup Taken(mb, m) ELSE handed[mb]]
  /\ pollWaiters' = [n \in Names |->
                 IF n \in served THEN Tail(pollWaiters[n]) ELSE pollWaiters[n]]
  /\ pollTimers' = pollTimers \ answered
  /\ polls' = [p \in Polls |-> IF p \in answered THEN Idle ELSE polls[p]]
  /\ wire' = [c \in Conns |-> wire[c] \cup Written(T, m, c)]
  /\ received' = [mb \in Mailboxes |-> received[mb] \cup read(mb)]
  /\ UNCHANGED <<sandboxes, clients, readyState, mailbox>>

-----------------------------------------------------------------------------
(* session.register, session.unregister, sandbox.complete *)

Register(n) ==
  /\ n \notin Registered
  /\ Cardinality(Registered) < MaxSandboxes
  /\ sandboxes' = [sandboxes EXCEPT ![n] = "running"]
  /\ queue' = [queue EXCEPT ![n] = {}]
  /\ UNCHANGED <<pollWaiters, pollTimers, polls, net, sent, handed, received>>

\* The positions at which poll p stands among the waiters of n.
Holds(n, p) == {i \in DOMAIN pollWaiters[n] : pollWaiters[n][i] = p}

Unregister(n) ==
  LET waiting == {p \in Polls : Holds(n, p) # {}}
  IN
  /\ sandboxes' = [sandboxes EXCEPT ![n] = "absent"]
  /\ queue' = [queue EXCEPT ![n] = {}]
  /\ pollWaiters' = [pollWaiters EXCEPT ![n] = <<>>]
  /\ pollTimers' = pollTimers \ waiting
  /\ polls' = [p \in Polls |-> IF p \in waiting THEN Idle ELSE polls[p]]
  /\ readyState' = [c \in Conns |->
                      IF c \in Reachable(n) THEN "CLOSING" ELSE readyState[c]]
  /\ UNCHANGED <<clients, mailbox, wire, sent, handed, received>>

\* Who may speak for a mailbox.  An HTTP request is checked against the
\* registered names each time; a socket only when it authenticates, and its
\* messages are still handled while it is closing.
\* Mutant: an HTTP request may name any mailbox.
MaySpeakUnchecked(mb, via) ==
  IF via = Http THEN TRUE
  ELSE /\ via \in clients
       /\ mailbox[via] = mb
       /\ readyState[via] \in {"OPEN", "CLOSING"}

MaySpeak(mb, via) ==
  IF via = Http
  THEN mb = Orch \/ mb \in Registered
  ELSE /\ via \in clients
       /\ mailbox[via] = mb
       /\ readyState[via] \in {"OPEN", "CLOSING"}

Complete(n, via) ==
  /\ MaySpeak(n, via)
  /\ n \in Registered
  /\ sandboxes' = [sandboxes EXCEPT ![n] = "completed"]
  /\ wire' = [c \in Conns |->
                IF c \in Reachable(Orch) THEN wire[c] \cup {[completed |-> n]}
                                         ELSE wire[c]]
  /\ UNCHANGED <<queue, pollWaiters, pollTimers, polls,
                 clients, readyState, mailbox, sent, handed, received>>

-----------------------------------------------------------------------------
(* message.send, message.broadcast *)

NewMessage(requested) == [id |-> sent + 1, priority |-> PriorityOf(requested)]

Requested == Priority \cup {"other"}

\* A name that is not registered falls through to the orchestrator's queue.
Send(to, priority) ==
  /\ sent < MaxMsgs
  /\ sent' = sent + 1
  /\ Enqueue({IF to \in Registered THEN to ELSE Orch}, NewMessage(priority))

Broadcast(from, via, priority) ==
  /\ sent < MaxMsgs
  /\ MaySpeak(from, via)
  /\ sent' = sent + 1
  /\ Enqueue(IF from = Orch THEN Registered ELSE (Registered \ {from}) \cup {Orch},
             NewMessage(priority))

-----------------------------------------------------------------------------
(* message.recv *)

\* The mailbox gives batch to the request r at once.
HandOut(mb, batch, via) ==
  LET r == [alive |-> TRUE, via |-> via] IN
  /\ queue' = [queue EXCEPT ![mb] = @ \ batch]
  /\ handed' = [handed EXCEPT ![mb] = @ \cup batch]
  /\ wire' = [c \in Conns |->
                IF WrittenToSocket(r, c) THEN wire[c] \cup batch ELSE wire[c]]
  /\ received' = IF ReadOverHttp(r)
                 THEN [received EXCEPT ![mb] = @ \cup batch] ELSE received
  /\ UNCHANGED <<sandboxes, pollWaiters, pollTimers, polls,
                 clients, readyState, mailbox, sent>>

\* wait <= 0, and every pull of the orchestrator.
Recv(mb, via, limit) ==
  /\ MaySpeak(mb, via)
  /\ HandOut(mb, Batch(BySteer(mb), queue[mb], limit), via)

\* The request is parked and its timer armed, unless too many are parked: then
\* the reply is empty and nothing changes.
Park(p, n, via) ==
  /\ polls[p] = Idle
  /\ Len(pollWaiters[n]) < MaxPollWaiters
  /\ pollWaiters' = [pollWaiters EXCEPT ![n] = Append(@, p)]
  /\ pollTimers' = pollTimers \cup {p}
  /\ polls' = [polls EXCEPT ![p] = [name |-> n, via |-> via, alive |-> TRUE]]
  /\ UNCHANGED <<sandboxes, queue, net, sent, handed, received>>

\* wait > 0: what is queued is given at once, else the request waits.
LongPoll(p, n, via, limit) ==
  /\ MaySpeak(n, via)
  /\ LET batch == Batch(BySteer(n), queue[n], limit) IN
     \/ batch # {} /\ HandOut(n, batch, via)
     \/ batch = {} /\ Park(p, n, via)

\* Mutant: the timer removes whichever poll is first in line.
WithoutFirst(s, p) == IF s = <<>> THEN s ELSE Tail(s)

Without(s, p) ==
  LET i == CHOOSE j \in DOMAIN s : s[j] = p
  IN  IF \E j \in DOMAIN s : s[j] = p
      THEN SubSeq(s, 1, i - 1) \o SubSeq(s, i + 1, Len(s)) ELSE s

\* Mutant: the timer takes the poll off the list but does not answer it.
PollTimeoutSilent(p) ==
  /\ p \in pollTimers
  /\ pollTimers' = pollTimers \ {p}
  /\ pollWaiters' = [pollWaiters EXCEPT ![polls[p].name] = Without(@, p)]
  /\ UNCHANGED <<sandboxes, queue, polls, net, sent, handed, received>>

PollTimeout(p) ==
  /\ p \in pollTimers
  /\ pollTimers' = pollTimers \ {p}
  /\ pollWaiters' = [pollWaiters EXCEPT ![polls[p].name] = Without(@, p)]
  /\ polls' = [polls EXCEPT ![p] = Idle]
  /\ UNCHANGED <<sandboxes, queue, net, sent, handed, received>>

\* The requester stops listening: its own call timed out or its process died.
\* The relay does not notice.
GiveUp(p) ==
  /\ polls[p] # Idle
  /\ polls[p].alive
  /\ polls' = [polls EXCEPT ![p].alive = FALSE]
  /\ UNCHANGED <<sandboxes, queue, pollWaiters, pollTimers, net, sent, handed, received>>

-----------------------------------------------------------------------------
(* WebSocket connections *)

\* Mutant: any name will do.
MayClaimAny(mb) == TRUE

\* An agent must claim a registered name.
MayClaim(mb) == mb = Orch \/ mb \in Registered

\* session.auth
Authenticate(c, mb) ==
  /\ readyState[c] = "NEW"
  /\ MayClaim(mb)
  /\ readyState' = [readyState EXCEPT ![c] = "OPEN"]
  /\ mailbox' = [mailbox EXCEPT ![c] = mb]
  /\ clients' = clients \cup {c}
  /\ UNCHANGED <<store, wire, sent, handed, received>>

\* The peer starts the closing handshake.
PeerCloses(c) ==
  /\ readyState[c] = "OPEN"
  /\ readyState' = [readyState EXCEPT ![c] = "CLOSING"]
  /\ UNCHANGED <<store, clients, mailbox, wire, sent, handed, received>>

\* The 'close' event, after a handshake or without one.  What the peer had not
\* read is gone.
Closed(c) ==
  /\ readyState[c] \in {"OPEN", "CLOSING"}
  /\ readyState' = [readyState EXCEPT ![c] = "CLOSED"]
  /\ clients' = clients \ {c}
  /\ wire' = [wire EXCEPT ![c] = {}]
  /\ UNCHANGED <<store, mailbox, sent, handed, received>>

\* The peer reads something that was written to its socket.
Deliver(c) ==
  \E m \in wire[c] :
    /\ wire' = [wire EXCEPT ![c] = @ \ {m}]
    /\ received' = [received EXCEPT ![mailbox[c]] = @ \cup {m}]
    /\ UNCHANGED <<store, clients, readyState, mailbox, sent, handed>>

-----------------------------------------------------------------------------
Transports == Conns \cup {Http}

Requests ==
  \/ \E n \in Names : Register(n) \/ Unregister(n)
  \/ \E n \in Names, via \in Transports : Complete(n, via)
  \/ \E to \in Mailboxes, priority \in Requested : Send(to, priority)
  \/ \E from \in Mailboxes, via \in Transports, priority \in Requested :
        Broadcast(from, via, priority)
  \/ \E mb \in Mailboxes, via \in Transports, limit \in Limits : Recv(mb, via, limit)
  \/ \E p \in Polls, n \in Names, via \in Transports, limit \in Limits :
        LongPoll(p, n, via, limit)

Events ==
  \/ \E p \in Polls : PollTimeout(p) \/ GiveUp(p)
  \/ \E c \in Conns, mb \in Mailboxes : Authenticate(c, mb)
  \/ \E c \in Conns : PeerCloses(c) \/ Closed(c) \/ Deliver(c)

Next == Requests \/ Events

Spec == Init /\ [][Next]_vars

\* setTimeout fires.
FairSpec == Spec /\ \A p \in Polls : WF_vars(PollTimeout(p))

-----------------------------------------------------------------------------
(* Safety *)

\* A message the relay has given to a poll or a socket is no longer queued, so
\* no later recv gets it again: the reason given for serving a waiter before
\* the sockets and for taking a pushed message out of the queue.
NoDoubleDelivery == \A mb \in Mailboxes : queue[mb] \cap handed[mb] = {}

\* No lost wake-up: a long poll is parked only at an empty mailbox, however
\* sends, drains, timeouts and re-registrations interleave.
NoLostWakeup == \A n \in Names : pollWaiters[n] # <<>> => queue[n] = {}

\* Queues stay within maxQueueSize on every path into them.
QueuesBounded ==
  \A mb \in Mailboxes : IsFiniteSet(queue[mb]) /\ Cardinality(queue[mb]) <= MaxQueue

\* An unanswered long poll has its timer armed and stands exactly once in the
\* waiter list of its own mailbox, and nothing else is armed or listed: no
\* request hangs and none is answered twice.
WaitersAccounted ==
  \A p \in Polls :
    /\ p \in pollTimers <=> polls[p] # Idle
    /\ polls[p] # Idle => \E i \in DOMAIN pollWaiters[polls[p].name] :
                              Holds(polls[p].name, p) = {i}
    /\ \A n \in Names : (polls[p] = Idle \/ polls[p].name # n) => Holds(n, p) = {}

\* A socket's name is checked only when it authenticates; still no open socket
\* ever speaks for, or is written the messages of, a name that was unregistered
\* since.
OpenSocketsRegistered ==
  \A c \in Conns : readyState[c] = "OPEN" =>
    c \in clients /\ (mailbox[c] = Orch \/ mailbox[c] \in Registered)

\* Nothing is kept for an unregistered name: no message waits for the next
\* sandbox to use the name, and a poll can only be parked there by a socket the
\* relay is already closing.
UnregisteredKeepsNothing ==
  \A n \in Names \ Registered :
    /\ queue[n] = {}
    /\ \A p \in Polls :
         polls[p] # Idle /\ polls[p].name = n =>
           polls[p].via # Http /\ readyState[polls[p].via] # "OPEN"

\* Facts the invariants above rest on: ids are never reused, and a long poll
\* is never parked for a connection that has not authenticated.
IdsUsed ==
  \A mb \in Mailboxes : \A m \in queue[mb] \cup handed[mb] : m.id <= sent

PollsFromClients ==
  \A p \in Polls : polls[p] # Idle /\ polls[p].via # Http => readyState[polls[p].via] # "NEW"

-----------------------------------------------------------------------------
(* What a step may never do *)

\* A drain never overtakes: when a sandbox hands a message to a poll, no steer
\* message stays behind a normal one and no older message behind a newer one of
\* its priority.  A push to a socket is exempt: it carries the message just
\* sent past the backlog.
DrainsInOrder ==
  [][\A n \in Names : \A m \in handed'[n] \ handed[n], k \in queue'[n] :
        m.id <= sent =>
          /\ m.priority = "normal" => k.priority = "normal"
          /\ m.priority = k.priority => m.id < k.id]_vars

\* What wakes a poll goes to that poll alone: whoever sends, drains or connects,
\* no other socket of the name is written a message that the mailbox hands out
\* while a poll waits there (the comment at session-store.ts:208: waiters come
\* before the sockets, so that nothing is delivered twice).
OneWay ==
  [][\A n \in Names, c \in Conns :
        /\ pollWaiters[n] # <<>> /\ mailbox[c] = n
        /\ (wire'[c] \ wire[c]) \cap (handed'[n] \ handed[n]) # {}
        => polls[Head(pollWaiters[n])].via = c]_vars

\* A queued message disappears without being handed out only when its sandbox
\* is unregistered or a send finds the queue full, and then one message goes:
\* of a sandbox the oldest normal one while there is one.
DropPolicy ==
  [][\A mb \in Mailboxes :
       LET gone == (queue[mb] \ queue'[mb]) \ handed'[mb] IN
       gone # {} /\ (mb \in Names => sandboxes'[mb] # "absent") =>
         /\ sent' = sent + 1
         /\ Cardinality(queue[mb]) = MaxQueue
         /\ \E m \in gone :
              /\ gone = {m}
              /\ \A k \in queue[mb] :
                   \/ m.id <= k.id
                   \/ mb # Orch /\ m.priority = "normal" /\ k.priority = "steer"
              /\ mb # Orch /\ m.priority = "steer" =>
                   \A k \in queue[mb] : k.priority = "steer"]_vars

-----------------------------------------------------------------------------
(* Liveness *)

\* Every long poll is answered: by a message, an unregister or its timer.
PollsAnswered == \A p \in Polls : (polls[p] # Idle) ~> (polls[p] = Idle)

-----------------------------------------------------------------------------
(* What the code says of the orchestrator's queue (session-store.ts, "durable
   queue", no message is lost while the orchestrator is disconnected): a
   message for the orchestrator is queued, on its way to it, or was read. *)
DurableOrchestrator ==
  \A m \in handed[Orch] : m \in received[Orch] \/ \E c \in Conns : m \in wire[c]

=============================================================================
