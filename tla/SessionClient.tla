--------------------------- MODULE SessionClient ---------------------------
(***************************************************************************)
(* The orchestrator's session (packages/core/src/session.ts): its calls to *)
(* the relay over one WebSocket, the sandboxes it spawns with the provider,*)
(* its waiters for completions, and close().  A handler runs to its first  *)
(* await; what awaited continues in a step of its own, before any other    *)
(* event.  The relay and the provider are as much as the session sees.     *)
(***************************************************************************)
EXTENDS Naturals, Sequences, FiniteSets

CONSTANTS
  Names,         \* sandbox names
  Spawns,        \* calls of spawn; also the sandbox each of them creates
  Waits,         \* calls of waitFor
  Sends,         \* calls of send, broadcast or the context
  None,
  MaxSandboxes,  \* config.maxSandboxes
  MaxInFlight    \* bound: messages from the relay under way when one completes

ASSUME SessionConstants ==
  /\ None \notin Names
  /\ None \notin Spawns
  /\ "reserved" \notin Spawns \cup {None}
  /\ IsFiniteSet(Spawns)
  /\ IsFiniteSet(Names)
  /\ MaxSandboxes \in Nat
  /\ MaxInFlight \in Nat

VARIABLES
  ws,          \* ws.readyState
  outcome,     \* of each call; "waiting": in pending, its 30 s timer armed
  toRelay,     \* requests on their way
  fromRelay,   \* responses and notifications on their way
  registered,  \* the names the relay has
  cloud,       \* sandboxes the provider runs
  sandboxes,   \* the map of sandboxes; "reserved": null, a spawn in flight
  spawn,       \* where each call of spawn is
  nameOf,      \* its name
  waiters,     \* completionWaiters
  wait,        \* where each call of waitFor is
  waitTimers,  \* armed timers of waitFor
  completions, \* names that have completed
  phase,       \* where close() is
  doomed,      \* sandboxes close() is destroying
  ready        \* sandboxes in the map when close() was called (history)

connection == <<ws, toRelay, fromRelay, registered>>
spawning   == <<sandboxes, spawn, nameOf, cloud>>
waiting    == <<waiters, wait, waitTimers, completions>>
closing    == <<phase, doomed, ready>>
vars       == <<connection, outcome, spawning, waiting, closing>>

Register(p)   == [method |-> "session.register", of |-> p]
Unregister(n) == [method |-> "session.unregister", of |-> n]
Calls == {Register(p) : p \in Spawns} \cup {Unregister(n) : n \in Names}
           \cup {[method |-> "message.send", of |-> m] : m \in Sends}

FromRelay == [response : Calls, ok : BOOLEAN] \cup [completed : Names]

InFlight == {"creating", "registering", "destroying"}

TypeOK ==
  /\ ws          \in {"OPEN", "CLOSING", "CLOSED"}
  /\ outcome     \in [Calls -> {"none", "waiting", "ok", "error"}]
  /\ toRelay     \in Seq(Calls)
  /\ fromRelay   \in Seq(FromRelay)
  /\ registered  \subseteq Names
  /\ cloud       \subseteq Spawns
  /\ sandboxes   \in [Names -> Spawns \cup {None, "reserved"}]
  /\ spawn       \in [Spawns -> InFlight \cup {"none", "live", "failed", "leaked", "destroyed"}]
  /\ nameOf      \in [Spawns -> Names \cup {None}]
  /\ waiters     \in [Names -> SUBSET Waits]
  /\ wait        \in [Waits -> {"none", "waiting", "completed", "timeout", "rejected"}]
  /\ waitTimers  \subseteq Waits
  /\ completions \subseteq Names
  /\ phase       \in {"open", "unregistering", "destroying", "disconnecting", "closed"}
  /\ doomed      \subseteq Spawns
  /\ ready       \subseteq Spawns

\* Connected and authenticated.
Init ==
  /\ ws = "OPEN"
  /\ outcome = [c \in Calls |-> "none"]
  /\ toRelay = <<>> /\ fromRelay = <<>>
  /\ registered = {} /\ cloud = {}
  /\ sandboxes = [n \in Names |-> None]
  /\ spawn = [p \in Spawns |-> "none"]
  /\ nameOf = [p \in Spawns |-> None]
  /\ waiters = [n \in Names |-> {}]
  /\ wait = [w \in Waits |-> "none"]
  /\ waitTimers = {}
  /\ completions = {}
  /\ phase = "open"
  /\ doomed = {} /\ ready = {}

-----------------------------------------------------------------------------
(* Calls *)

Pending == {c \in Calls : outcome[c] = "waiting"}

Settle(c, result) == outcome' = [outcome EXCEPT ![c] = result]

\* A closed socket takes the message and drops it.
Transmit(calls) ==
  IF ws = "OPEN" THEN toRelay \o calls ELSE toRelay

Rejected == [c \in Calls |-> IF c \in Pending THEN "error" ELSE outcome[c]]

\* The waiters of some names are told and forgotten; a promise settles once.
SettleWaiters(names, result) ==
  LET told == UNION {waiters[n] : n \in names} IN
  /\ wait' = [w \in Waits |-> IF w \in told /\ wait[w] = "waiting" THEN result ELSE wait[w]]
  /\ waitTimers' = waitTimers \ told
  /\ waiters' = [n \in Names |-> IF n \in names THEN {} ELSE waiters[n]]

-----------------------------------------------------------------------------
(* Continuations *)

RegisterSettled(p) == spawn[p] = "registering" /\ outcome[Register(p)] \in {"ok", "error"}

AllUnregistered == phase = "unregistering" /\ \A n \in Names : Unregister(n) \notin Pending

AllDestroyed == phase = "destroying" /\ doomed = {}

\* Nothing is due to continue: the next event can be taken.
Idle == ~AllUnregistered /\ ~AllDestroyed /\ \A p \in Spawns : ~RegisterSettled(p)

\* Mutant: the name is free again before the sandbox is destroyed.
RegisteredReleasing(p) ==
  /\ RegisterSettled(p)
  /\ IF outcome[Register(p)] = "ok"
     THEN /\ sandboxes' = [sandboxes EXCEPT ![nameOf[p]] = p]
          /\ spawn' = [spawn EXCEPT ![p] = "live"]
     ELSE /\ spawn' = [spawn EXCEPT ![p] = "destroying"]
          /\ sandboxes' = [sandboxes EXCEPT ![nameOf[p]] = None]
  /\ UNCHANGED <<connection, outcome, nameOf, cloud, waiting, closing>>

\* spawn returns its sandbox, or destroys what the relay would not register.
Registered(p) ==
  /\ RegisterSettled(p)
  /\ IF outcome[Register(p)] = "ok"
     THEN /\ sandboxes' = [sandboxes EXCEPT ![nameOf[p]] = p]
          /\ spawn' = [spawn EXCEPT ![p] = "live"]
     ELSE /\ spawn' = [spawn EXCEPT ![p] = "destroying"]
          /\ UNCHANGED sandboxes
  /\ UNCHANGED <<connection, outcome, nameOf, cloud, waiting, closing>>

\* Mutant: the map is cleared before the sandboxes are collected.
LiveCleared == {}
Live        == {p \in Spawns : \E n \in Names : sandboxes[n] = p}

DestroyAll ==
  /\ AllUnregistered
  /\ phase' = "destroying"
  /\ doomed' = Live
  /\ UNCHANGED <<connection, outcome, spawning, waiting, ready>>

Disconnect ==
  /\ AllDestroyed
  /\ sandboxes' = [n \in Names |-> None]
  /\ ws' = IF ws = "OPEN" THEN "CLOSING" ELSE ws
  /\ phase' = "disconnecting"
  /\ UNCHANGED <<toRelay, fromRelay, registered, outcome, spawn, nameOf, cloud,
                 waiting, doomed, ready>>

-----------------------------------------------------------------------------
(* spawn *)

Taken == {n \in Names : sandboxes[n] # None}

\* Mutant: sandboxes that are still being created do not count.
HasRoomLive == Cardinality({n \in Taken : sandboxes[n] # "reserved"}) < MaxSandboxes
HasRoom     == Cardinality(Taken) < MaxSandboxes

Spawn(p, n) ==
  /\ Idle
  /\ spawn[p] = "none"
  /\ sandboxes[n] = None
  /\ HasRoom
  /\ sandboxes' = [sandboxes EXCEPT ![n] = "reserved"]
  /\ spawn' = [spawn EXCEPT ![p] = "creating"]
  /\ nameOf' = [nameOf EXCEPT ![p] = n]
  /\ UNCHANGED <<connection, outcome, cloud, waiting, closing>>

Created(p) ==
  /\ Idle
  /\ spawn[p] = "creating"
  /\ cloud' = cloud \cup {p}
  /\ spawn' = [spawn EXCEPT ![p] = "registering"]
  /\ Settle(Register(p), "waiting")
  /\ toRelay' = Transmit(<<Register(p)>>)
  /\ UNCHANGED <<ws, fromRelay, registered, sandboxes, nameOf, waiting, closing>>

CreateFails(p) ==
  /\ Idle
  /\ spawn[p] = "creating"
  /\ spawn' = [spawn EXCEPT ![p] = "failed"]
  /\ sandboxes' = [sandboxes EXCEPT ![nameOf[p]] = None]
  /\ UNCHANGED <<connection, outcome, nameOf, cloud, waiting, closing>>

\* The answer to the destroy after a failed registration, whose error is dropped.
Undone(p, ok) ==
  /\ Idle
  /\ spawn[p] = "destroying"
  /\ spawn' = [spawn EXCEPT ![p] = IF ok THEN "failed" ELSE "leaked"]
  /\ cloud' = IF ok THEN cloud \ {p} ELSE cloud
  /\ sandboxes' = [sandboxes EXCEPT ![nameOf[p]] = None]
  /\ UNCHANGED <<connection, outcome, nameOf, waiting, closing>>

-----------------------------------------------------------------------------
(* The socket *)

Send(m) ==
  LET c == [method |-> "message.send", of |-> m] IN
  /\ Idle
  /\ outcome[c] = "none"
  /\ Settle(c, "waiting")
  /\ toRelay' = Transmit(<<c>>)
  /\ UNCHANGED <<ws, fromRelay, registered, spawning, waiting, closing>>

\* Mutant: the id of the sandbox in place of its name.
IdIn(c)   == c.of
NameIn(c) == nameOf[c.of]

\* The relay handles a request; it answers while the socket is open.
Answer ==
  /\ toRelay # <<>>
  /\ LET c  == Head(toRelay)
         ok == c.method = "session.register" => NameIn(c) \notin registered
     IN /\ registered' = CASE c.method = "session.register"   -> registered \cup {NameIn(c)}
                           [] c.method = "session.unregister" -> registered \ {c.of}
                           [] OTHER -> registered
        /\ fromRelay' = IF ws = "OPEN" THEN Append(fromRelay, [response |-> c, ok |-> ok])
                        ELSE fromRelay
  /\ toRelay' = Tail(toRelay)
  /\ UNCHANGED <<ws, outcome, spawning, waiting, closing>>

\* sandbox.complete of an agent, as the relay passes it on.
Complete(n) ==
  /\ n \in registered
  /\ ws = "OPEN"
  /\ Len(fromRelay) < MaxInFlight
  /\ fromRelay' = Append(fromRelay, [completed |-> n])
  /\ UNCHANGED <<ws, toRelay, registered, outcome, spawning, waiting, closing>>

\* A response settles the call if that still waits.
ReceiveResponse ==
  /\ Idle
  /\ ws = "OPEN"
  /\ fromRelay # <<>> /\ "response" \in DOMAIN Head(fromRelay)
  /\ LET m == Head(fromRelay) IN
     IF m.response \in Pending
     THEN Settle(m.response, IF m.ok THEN "ok" ELSE "error")
     ELSE UNCHANGED outcome
  /\ fromRelay' = Tail(fromRelay)
  /\ UNCHANGED <<ws, toRelay, registered, spawning, waiting, closing>>

\* sandbox.state wakes everybody who waits for the name.
ReceiveState ==
  /\ Idle
  /\ ws = "OPEN"
  /\ fromRelay # <<>> /\ "completed" \in DOMAIN Head(fromRelay)
  /\ LET n == Head(fromRelay).completed IN
     /\ completions' = completions \cup {n}
     /\ SettleWaiters({n}, "completed")
  /\ fromRelay' = Tail(fromRelay)
  /\ UNCHANGED <<ws, toRelay, registered, outcome, spawning, closing>>

\* Mutant: the timer only forgets the call.
RpcTimeoutSilent(c) ==
  /\ Idle
  /\ c \in Pending
  /\ Settle(c, "none")
  /\ UNCHANGED <<connection, spawning, waiting, closing>>

RpcTimeout(c) ==
  /\ Idle
  /\ c \in Pending
  /\ Settle(c, "error")
  /\ UNCHANGED <<connection, spawning, waiting, closing>>

\* close() listens once it has asked for the socket to be closed.
\* Mutant: it listens to something else.
AfterCloseUnheard == phase
AfterClose        == IF phase = "disconnecting" THEN "closed" ELSE phase

\* The 'close' event: by close(), or unexpected, with requests lost on the way.
SocketClosed(survive) ==
  /\ Idle
  /\ ws # "CLOSED"
  /\ ws' = "CLOSED"
  /\ toRelay' = SubSeq(toRelay, 1, survive)
  /\ fromRelay' = <<>>
  /\ outcome' = Rejected
  /\ SettleWaiters(Names, "rejected")
  /\ phase' = AfterClose
  /\ UNCHANGED <<registered, spawning, completions, doomed, ready>>

-----------------------------------------------------------------------------
(* waitFor *)

\* Mutant: completions of the past are not looked at.
NeverCompleted(n)   == FALSE
AlreadyCompleted(n) == n \in completions

WaitFor(w, n, timed) ==
  /\ Idle
  /\ wait[w] = "none"
  /\ IF AlreadyCompleted(n)
     THEN wait' = [wait EXCEPT ![w] = "completed"] /\ UNCHANGED <<waiters, waitTimers>>
     ELSE /\ wait' = [wait EXCEPT ![w] = "waiting"]
          /\ waiters' = [waiters EXCEPT ![n] = @ \cup {w}]
          /\ waitTimers' = IF timed THEN waitTimers \cup {w} ELSE waitTimers
  /\ UNCHANGED <<connection, outcome, spawning, completions, closing>>

\* Mutant: the timer only takes the waiter off the list.
WaitTimeoutSilent(w) ==
  /\ Idle
  /\ w \in waitTimers
  /\ waitTimers' = waitTimers \ {w}
  /\ waiters' = [n \in Names |-> waiters[n] \ {w}]
  /\ UNCHANGED <<connection, outcome, spawning, wait, completions, closing>>

WaitTimeout(w) ==
  /\ Idle
  /\ w \in waitTimers
  /\ waitTimers' = waitTimers \ {w}
  /\ waiters' = [n \in Names |-> waiters[n] \ {w}]
  /\ wait' = [wait EXCEPT ![w] = "timeout"]
  /\ UNCHANGED <<connection, outcome, spawning, completions, closing>>

-----------------------------------------------------------------------------
(* close *)

\* Rejects what is pending, then unregisters every sandbox in the map.
Close ==
  LET live == {n \in Names : sandboxes[n] \in Spawns} IN
  /\ Idle
  /\ phase = "open"
  /\ phase' = "unregistering"
  /\ ready' = {p \in Spawns : \E n \in Names : sandboxes[n] = p}
  /\ outcome' = [c \in Calls |-> IF c \in {Unregister(n) : n \in live} THEN "waiting"
                                 ELSE Rejected[c]]
  /\ \E calls \in [1 .. Cardinality(live) -> {Unregister(n) : n \in live}] :
       /\ \A n \in live : \E i \in DOMAIN calls : calls[i] = Unregister(n)
       /\ toRelay' = Transmit(calls)
  /\ SettleWaiters(Names, "rejected")
  /\ UNCHANGED <<ws, fromRelay, registered, spawning, completions, doomed>>

\* The provider answers one destroy of close().
Torn(p, ok) ==
  /\ Idle
  /\ p \in doomed
  /\ doomed' = doomed \ {p}
  /\ cloud' = IF ok THEN cloud \ {p} ELSE cloud
  /\ spawn' = [spawn EXCEPT ![p] = IF ok THEN "destroyed" ELSE "leaked"]
  /\ UNCHANGED <<connection, outcome, sandboxes, nameOf, waiting, phase, ready>>

Next ==
  \/ \E p \in Spawns : Registered(p)
  \/ DestroyAll
  \/ Disconnect
  \/ \E p \in Spawns, n \in Names : Spawn(p, n)
  \/ \E p \in Spawns : Created(p) \/ CreateFails(p)
  \/ \E p \in Spawns, ok \in BOOLEAN : Undone(p, ok) \/ Torn(p, ok)
  \/ \E m \in Sends : Send(m)
  \/ Answer
  \/ \E n \in Names : Complete(n)
  \/ ReceiveResponse
  \/ ReceiveState
  \/ \E c \in Calls : RpcTimeout(c)
  \/ \E survive \in 0 .. Len(toRelay) : SocketClosed(survive)
  \/ \E w \in Waits, n \in Names, timed \in BOOLEAN : WaitFor(w, n, timed)
  \/ \E w \in Waits : WaitTimeout(w)
  \/ Close

Spec == Init /\ [][Next]_vars

\* What is due continues, timers fire, the provider answers, and a socket that
\* is closing closes.  Nothing is assumed of the relay.
FairSpec ==
  /\ Spec
  /\ \A p \in Spawns : /\ WF_vars(Registered(p))
                       /\ WF_vars(Created(p) \/ CreateFails(p))
                       /\ WF_vars(\E ok \in BOOLEAN : Undone(p, ok))
                       /\ WF_vars(\E ok \in BOOLEAN : Torn(p, ok))
  /\ WF_vars(DestroyAll) /\ WF_vars(Disconnect)
  /\ \A c \in Calls : WF_vars(RpcTimeout(c))
  /\ \A w \in Waits : WF_vars(WaitTimeout(w))
  /\ WF_vars(ws = "CLOSING" /\ SocketClosed(0))

-----------------------------------------------------------------------------
(* Safety *)

\* Until close() empties the map, a name is reserved exactly while one spawn of
\* it is in flight, and otherwise leads to a sandbox that was registered under it.
NamesHeld ==
  phase \in {"open", "unregistering", "destroying"} =>
    \A n \in Names :
      LET flying == {p \in Spawns : spawn[p] \in InFlight /\ nameOf[p] = n} IN
      /\ sandboxes[n] = "reserved" <=> flying # {}
      /\ Cardinality(flying) <= 1
      /\ \A p \in Spawns : sandboxes[n] = p =>
           nameOf[p] = n /\ spawn[p] \in {"live", "destroyed", "leaked"}

\* The provider runs at most maxSandboxes sandboxes for a session that is not
\* closed, apart from those it failed to destroy.
InstancesBounded ==
  phase \in {"open", "unregistering", "destroying"} =>
    Cardinality({p \in cloud : spawn[p] # "leaked"}) <= MaxSandboxes

\* Nobody waits for a completion that has been reported, and whoever waits is on
\* the list of one name.
NoSleeper ==
  /\ \A n \in completions : waiters[n] = {}
  /\ \A w \in Waits : wait[w] = "waiting" <=> \E n \in Names : w \in waiters[n]

\* A sandbox that was there when close() was called is gone when close() is
\* done, unless the provider failed to destroy it.
ReadyDestroyed ==
  phase \in {"disconnecting", "closed"} =>
    \A p \in ready : p \in cloud => spawn[p] = "leaked"

-----------------------------------------------------------------------------
(* Liveness *)

\* Nothing hangs: every call is settled and every spawn returns its sandbox or
\* fails, whatever the relay does; whoever waits with a time-out is told something;
\* close() runs to its end if the connection holds until it closes it.
NothingHangs ==
  /\ \A c \in Calls : outcome[c] = "waiting" ~> outcome[c] \in {"ok", "error"}
  /\ \A p \in Spawns : spawn[p] = "creating" ~> spawn[p] \notin InFlight
  /\ \A w \in Waits : w \in waitTimers ~> wait[w] # "waiting"
  /\ phase = "unregistering"
       ~> \/ phase = "closed"
          \/ ws = "CLOSED" /\ phase \in {"unregistering", "destroying"}

-----------------------------------------------------------------------------
(* What the interface promises of close() *)

\* session-types.ts:76, close() destroys all the sandboxes: once it is done and
\* no spawn is in flight, none is left that the provider could have destroyed.
AllDestroyedWhenClosed ==
  phase = "closed" /\ (\A p \in Spawns : spawn[p] \notin InFlight)
    => \A p \in cloud : spawn[p] = "leaked"

\* session-types.ts:76, close() closes the relay, its last step.
CloseClosesRelay == phase = "unregistering" ~> phase = "closed"

=============================================================================
