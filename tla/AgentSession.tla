---------------------------- MODULE AgentSession ----------------------------
(***************************************************************************)
(* The session of one agent, over a WebSocket (packages/agent/src), and    *)
(* the context store it shares with the other members (packages/relay/src/ *)
(* context-store.ts and the context handlers of protocol.ts).  The others  *)
(* are its environment: they may change the context at any time, over a    *)
(* socket or HTTP, under a name of their own or under the agent's; the     *)
(* relay treats each client by itself, so theirs need not be modelled.     *)
(*                                                                         *)
(* A value is the number of the change that wrote it; a deletion is a      *)
(* change like another, also when the key is absent: it is stored and told *)
(* to the clients in the same handler.  Calls that leave the context alone *)
(* (keys, send, broadcast, complete, recv) differ only in when the relay   *)
(* answers: at once, or, for a recv that waits, when it is woken; what     *)
(* they do to the mailboxes is in RelaySession.  The relay's and the       *)
(* agent's handlers run to completion: each is one action.                 *)
(***************************************************************************)
EXTENDS Naturals, Sequences

CONSTANTS
  Keys,         \* context keys
  NoKey,        \* the key of a call that has none
  Calls,        \* slots for calls under way (their ids are random, never reused:
                \* a slot is taken again when nothing refers to it)
  Idle,         \* value of a slot that is not in use
  MaxChanges    \* bound: changes of the context

Ops == {"auth", "get", "change", "other"}

Call    == [op : Ops, key : Keys \cup {NoKey}, awaited : BOOLEAN]
Request == [id : Calls, op : Ops, key : Keys \cup {NoKey}]
Change  == [key : Keys, own : BOOLEAN]
Answer  == [at : {"answer"}, id : Calls, ok : BOOLEAN, change : 0..MaxChanges]
Notice  == [at : {"changed"}, key : Keys, change : 1..MaxChanges]
NeverWatched == MaxChanges + 1

ASSUME AgentConstants ==
  /\ NoKey \notin Keys
  /\ Idle \notin Call
  /\ MaxChanges \in Nat

VARIABLES
  stage,     \* of connect() and of the session it returns
  link,      \* the agent's WebSocket
  calls,     \* RpcPendingMap: the entries, each with its timer, and whether the
             \* caller awaits the entry's promise
  since,     \* number of changes made when the agent began to watch
  picture,   \* last change the agent has learned of, per key (history)
  sock,      \* the relay's end of the connection
  admitted,  \* the agent is one of session.clients
  log,       \* the changes of the context, in order, and whether each was made
             \* under the agent's name (history)
  parked,    \* recv requests that wait at the relay
  toRelay,   \* what the agent has written and the relay has not read
  fromRelay  \* what the relay has written and the agent has not read

relay == <<sock, admitted, log>>
wires == <<toRelay, parked, fromRelay>>
vars  == <<stage, link, calls, since, picture, relay, wires>>

TypeOK ==
  /\ stage     \in {"new", "auth", "ready", "closed", "failed", "down"}
  /\ link      \in {"none", "open", "closing", "closed"}
  /\ calls     \in [Calls -> Call \cup {Idle}]
  /\ since     \in 0..NeverWatched
  /\ picture   \in [Keys -> 0..MaxChanges]
  /\ sock      \in {"none", "open", "gone"}
  /\ admitted  \in BOOLEAN
  /\ log       \in Seq(Change) /\ Len(log) <= MaxChanges
  /\ parked    \in SUBSET Calls
  /\ toRelay   \in Seq(Request)
  /\ fromRelay \in Seq(Answer \cup Notice)

Init ==
  /\ stage     = "new"
  /\ link      = "none"
  /\ calls     = [c \in Calls |-> Idle]
  /\ since     = NeverWatched
  /\ picture   = [k \in Keys |-> 0]
  /\ sock      = "none"
  /\ admitted  = FALSE
  /\ log       = <<>>
  /\ parked    = {}
  /\ toRelay   = <<>>
  /\ fromRelay = <<>>

-----------------------------------------------------------------------------
(* The context store *)

\* The last change of k: what ctx.get returns.
LastChange(k) ==
  LET of == {i \in DOMAIN log : log[i].key = k}
  IN  IF of = {} THEN 0 ELSE CHOOSE i \in of : \A j \in of : j <= i

\* Mutant: an answer is written ahead of the notices that wait.
WrittenAhead(message) ==
  IF message.at = "answer" THEN <<message>> \o fromRelay ELSE Append(fromRelay, message)

\* ws.send keeps the order of what is written.
Written(message) == Append(fromRelay, message)

\* The relay writes to the agent: lost unless its socket is open, as it reads
\* nothing once it is closing.
Write(message) == IF link = "open" THEN Written(message) ELSE fromRelay

\* Mutant: the test on the name is the wrong way round.
ToldToOwn(own) == admitted /\ own /\ sock = "open"

\* notifyClients tells every client of another name whose socket is open.
Told(own) == admitted /\ ~own /\ sock = "open"

Changed(k, own) ==
  /\ Len(log) < MaxChanges
  /\ log' = Append(log, [key |-> k, own |-> own])

\* context.set or context.delete by another member: an agent or orchestrator
\* with a socket, or a command line over HTTP, in the agent's sandbox even.
ChangeByOther(k, own) ==
  /\ Changed(k, own)
  /\ fromRelay' = IF Told(own)
                  THEN Write([at |-> "changed", key |-> k, change |-> Len(log) + 1])
                  ELSE fromRelay
  /\ UNCHANGED <<stage, link, calls, since, picture, sock, admitted, toRelay, parked>>

-----------------------------------------------------------------------------
(* Calls *)

\* No entry, request or answer bears the slot's id.
Free(c) ==
  /\ calls[c] = Idle
  /\ c \notin parked
  /\ \A i \in DOMAIN toRelay : toRelay[i].id # c
  /\ \A i \in DOMAIN fromRelay : fromRelay[i].at = "answer" => fromRelay[i].id # c

Entry(op, k, awaited) == [op |-> op, key |-> k, awaited |-> awaited]

\* transport.send: a WebSocket that is closing drops what it is given, and so
\* does the network once the relay's end is gone.
Sent(request) ==
  IF link = "open" /\ sock = "open" THEN Append(toRelay, request) ELSE toRelay

\* Every call adds its entry before it sends.  When the transport is closed,
\* send throws: the caller learns it, the entry and its timer stay.
CallRelay(c, op, k) ==
  /\ stage \in {"ready", "closed"}
  /\ Free(c)
  /\ op = "other" <=> k = NoKey
  /\ calls' = [calls EXCEPT ![c] = Entry(op, k, link # "closed")]
  /\ toRelay' = Sent([id |-> c, op |-> op, key |-> k])
  /\ UNCHANGED <<stage, link, since, picture, relay, parked, fromRelay>>

\* context.watch or watchAll
Watch ==
  /\ stage = "ready"
  /\ since = NeverWatched
  /\ since' = Len(log)
  /\ UNCHANGED <<stage, link, calls, picture, relay, wires>>

\* Nobody awaits the promise of an entry whose call has thrown: its rejection
\* is unhandled and ends the process.
Unhandled(C) == \E c \in C : calls[c] # Idle /\ ~calls[c].awaited

\* Removing entries from the map: their promises are settled.
Without(C) == [c \in Calls |-> IF c \in C THEN Idle ELSE calls[c]]

\* The connection is lost with what was under way on it.  (What the relay may
\* still read of it, it may as well have read before.)
Cut ==
  /\ link' = "closed"
  /\ toRelay' = <<>>
  /\ parked' = {}
  /\ fromRelay' = <<>>

\* The agent's process ends, and its connection with it.
Down ==
  /\ stage' = "down"
  /\ calls' = Without(Calls)
  /\ Cut

\* transport.close: the closing handshake starts, behind what was sent.
CloseTransport ==
  /\ link' = IF link = "open" THEN "closing" ELSE link
  /\ fromRelay' = <<>>

\* session.close: pending.rejectAll, then transport.close.
Close ==
  /\ stage \in {"ready", "closed"}
  /\ \/ /\ Unhandled(Calls)
        /\ Down
     \/ /\ ~Unhandled(Calls)
        /\ stage' = "closed"
        /\ calls' = Without(Calls)
        /\ CloseTransport
        /\ UNCHANGED <<toRelay, parked>>
  /\ UNCHANGED <<since, picture, relay>>

\* Mutant: the timers are cleared when the connection is lost.
TimedWhileOpen(c) == calls[c] # Idle /\ link # "closed"

Timed(c) == calls[c] # Idle

\* The 30 s timer of an entry.  connect() closes the transport when its
\* session.auth fails.
Timeout(c) ==
  /\ Timed(c)
  /\ \/ /\ Unhandled({c})
        /\ Down
     \/ /\ ~Unhandled({c})
        /\ calls' = Without({c})
        /\ IF calls[c].op = "auth"
           THEN stage' = "failed" /\ CloseTransport
           ELSE UNCHANGED <<stage, link, fromRelay>>
        /\ UNCHANGED <<toRelay, parked>>
  /\ UNCHANGED <<since, picture, relay>>

-----------------------------------------------------------------------------
(* Connecting and losing the connection *)

\* The socket opens and connect() sends session.auth.
Connect(c) ==
  /\ stage = "new"
  /\ stage' = "auth"
  /\ link' = "open"
  /\ sock' = "open"
  /\ calls' = [calls EXCEPT ![c] = Entry("auth", NoKey, TRUE)]
  /\ toRelay' = <<[id |-> c, op |-> "auth", key |-> NoKey]>>
  /\ UNCHANGED <<since, picture, admitted, log, parked, fromRelay>>

\* 'error' before 'open': connect() throws.
ConnectFails ==
  /\ stage = "new"
  /\ stage' = "failed"
  /\ link' = "closed"
  /\ UNCHANGED <<calls, since, picture, relay, wires>>

\* 'close' or 'error' at the agent, whoever closed or cut the connection: the
\* transport notes it, and the pending calls are left to their timers.
LinkCloses ==
  /\ link \in {"open", "closing"}
  /\ Cut
  /\ UNCHANGED <<stage, calls, since, picture, relay>>

\* 'close' at the relay.
SockCloses ==
  /\ sock = "open"
  /\ sock' = "gone"
  /\ admitted' = FALSE
  /\ toRelay' = <<>>
  /\ parked' = {}
  /\ UNCHANGED <<stage, link, calls, since, picture, log, fromRelay>>

-----------------------------------------------------------------------------
(* The relay answers *)

Reply(c, ok, n) ==
  fromRelay' = Write([at |-> "answer", id |-> c, ok |-> ok, change |-> n])

\* session.auth, refused when the token is wrong or the name not registered.
ServeAuth(r) ==
  /\ r.op = "auth"
  /\ \E ok \in BOOLEAN : admitted' = ok /\ Reply(r.id, ok, 0)
  /\ UNCHANGED <<log, parked>>

\* Mutant: for an absent key the answer holds no null.
ServeGetUndefined(r) ==
  LET n == LastChange(r.key) IN
  /\ r.op = "get"
  /\ Reply(r.id, TRUE, IF n = 0 THEN NeverWatched ELSE n)
  /\ UNCHANGED <<admitted, log, parked>>

ServeGet(r) ==
  /\ r.op = "get"
  /\ Reply(r.id, TRUE, LastChange(r.key))
  /\ UNCHANGED <<admitted, log, parked>>

\* context.set or context.delete; the agent itself is not told.
ServeChange(r) ==
  /\ r.op = "change"
  /\ Changed(r.key, TRUE)
  /\ Reply(r.id, TRUE, Len(log) + 1)
  /\ UNCHANGED <<admitted, parked>>

\* Any other call: answered, refused, or, a recv that waits, answered later.
ServeOther(r) ==
  /\ r.op = "other"
  /\ \/ /\ \E ok \in BOOLEAN : Reply(r.id, ok, 0)
        /\ UNCHANGED parked
     \/ /\ parked' = parked \cup {r.id}
        /\ UNCHANGED fromRelay
  /\ UNCHANGED <<admitted, log>>

Serve ==
  /\ sock = "open"
  /\ toRelay # <<>>
  /\ LET r == Head(toRelay) IN
     ServeAuth(r) \/ ServeGet(r) \/ ServeChange(r) \/ ServeOther(r)
  /\ toRelay' = Tail(toRelay)
  /\ UNCHANGED <<stage, link, calls, since, picture, sock>>

\* A message comes for a parked recv, or its time is up.
Wake(c) ==
  /\ c \in parked
  /\ parked' = parked \ {c}
  /\ Reply(c, TRUE, 0)
  /\ UNCHANGED <<stage, link, calls, since, picture, relay, toRelay>>

-----------------------------------------------------------------------------
(* The agent reads: only while its socket is open *)

\* The answer settles its call; one that comes late finds no entry.
ReceiveAnswer(m) ==
  LET q == calls[m.id]
      authenticates == q # Idle /\ q.op = "auth"
  IN
  /\ m.at = "answer"
  /\ calls' = Without({m.id})
  /\ picture' = IF q # Idle /\ q.op \in {"get", "change"}
                THEN [picture EXCEPT ![q.key] = m.change] ELSE picture
  /\ stage' = IF authenticates THEN IF m.ok THEN "ready" ELSE "failed" ELSE stage
  /\ IF authenticates /\ ~m.ok
     THEN CloseTransport
     ELSE fromRelay' = Tail(fromRelay) /\ UNCHANGED link

\* The watchers are told; there are none before the agent watches.
ReceiveNotice(m) ==
  /\ m.at = "changed"
  /\ picture' = IF since = NeverWatched THEN picture
                ELSE [picture EXCEPT ![m.key] = m.change]
  /\ fromRelay' = Tail(fromRelay)
  /\ UNCHANGED <<stage, link, calls>>

Receive ==
  /\ link = "open"
  /\ fromRelay # <<>>
  /\ ReceiveAnswer(Head(fromRelay)) \/ ReceiveNotice(Head(fromRelay))
  /\ UNCHANGED <<since, relay, toRelay, parked>>

-----------------------------------------------------------------------------
Next ==
  \/ \E k \in Keys, own \in BOOLEAN : ChangeByOther(k, own)
  \/ \E c \in Calls, op \in Ops \ {"auth"}, k \in Keys \cup {NoKey} : CallRelay(c, op, k)
  \/ \E c \in Calls : Connect(c) \/ Timeout(c) \/ Wake(c)
  \/ ConnectFails \/ Watch \/ Close \/ LinkCloses \/ SockCloses \/ Serve \/ Receive

Spec == Init /\ [][Next]_vars

\* setTimeout fires.  Nothing is assumed of the network or the relay.
FairSpec == Spec /\ \A c \in Calls : WF_vars(Timeout(c))

-----------------------------------------------------------------------------
(* Properties *)

\* A watcher's picture of a key that was last changed under another name is
\* that change, or the change is on its way, while both ends of the connection
\* stand.  (Who changes the context under the agent's own name, over another
\* socket or HTTP, is taken for the agent itself, and not told of.)
PictureTrue ==
  \A k \in Keys :
    LET n == LastChange(k) IN
    link = "open" /\ admitted /\ since < n /\ ~log[n].own =>
      \/ picture[k] = n
      \/ \E i \in DOMAIN fromRelay :
           fromRelay[i].at = "changed" /\ fromRelay[i].change = n

\* What a watcher knows is a consistent cut: when it knows of a change, by a
\* notice, a get or the answer to its own set, it knows of every earlier one
\* that others made since it began to watch, whatever the key.  (One member may
\* set a result and then a flag; who sees the flag sees the result.)
PictureConsistent ==
  \A k \in Keys :
    \A i \in (since + 1)..picture[k] : ~log[i].own => picture[log[i].key] >= i

\* Every call settles, whatever happens to the connection, the relay or the
\* session: by its answer, by close or by its timer.
EveryCallSettles == \A c \in Calls : (calls[c] # Idle) ~> (calls[c] = Idle)

=============================================================================
