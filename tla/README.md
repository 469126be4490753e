# Sandbank in TLA+

Sandbank (the TypeScript monorepo under `src/packages`) gives AI agents one
interface to cloud sandboxes, and a relay through which the agents of one
session talk to each other and to their orchestrator. This directory holds TLA+
models of its stateful parts, TLC configurations that check them on small
instances, and TLAPS proofs of the main invariants for instances of any size.

## 1. The system

| component | state it keeps | operations | talks to |
|---|---|---|---|
| relay session (`relay/src/session-store.ts`, `protocol.ts`, `server.ts`) | registered names, one queue per name, the orchestrator's queue, parked long polls with their timers, authenticated sockets | `session.register/unregister`, `message.send/broadcast/recv`, `sandbox.complete`, `session.auth`, socket close, poll timer | agents and the core client, over HTTP `POST /rpc` and WebSocket |
| relay lifecycle (same files) | the map of sessions with token and last activity, the sweep timer | create (auth, HTTP register), token check, touch, sweep, delete, shutdown | relay session, context store |
| context store (`relay/src/context-store.ts`) | key/value map, watchers | get, set, delete, keys, `context.changed` to the other sockets | relay session's sockets |
| core session client (`core/src/session.ts`) | pending RPCs, state listeners, waiters for completion, spawned sandboxes | createSession, spawn, send, broadcast, waitFor, waitForAll, close | provider, relay, an in-memory relay it may start |
| agent client (`agent/src/rpc.ts`, `connect.ts`, `transport.ts`, `http-client.ts`) | pending RPCs with 30 s timers, listeners and watchers | connect, send, recv, context calls, close | relay |
| provider facade (`core/src/provider.ts`, `sandbox-user.ts`, `skill-inject.ts`) | none of its own | create (user set-up, skills, hooks), get, list, destroy | an adapter |
| BoxLite local client (`boxlite/src/local-client.ts`) | a child process, its ready promise, pending requests | ensureBridge, send, exit/error events, dispose | Python bridge, over stdin/stdout |
| BoxLite Python bridge (string in the same file) | boxes, cached handles, snapshots | create, destroy, exec, stop, start, snapshots, clone | BoxLite runtime |
| BoxLite remote client, adapter (`boxlite/src/client.ts`, `adapter.ts`) | cached token, port maps | ensureToken, exec polling, create, destroy | BoxRun REST API |
| Fly.io, AIO, Cloudflare, Daytona, E2B, microsandbox, cloud adapters | a few in-memory maps (ports, clients, volumes) | create, exec, destroy, volumes, streams | each provider's API |
| db9 (`db9/src`) | cached skill promise, tables | brain set-up, observer, convenience calls | db9.ai over HTTP |
| x402 payments (`cloud/src/x402-fetch.ts`) | none | pay-and-retry of one request | facilitator, cloud API |
| terminal (`core/src/terminal.ts`) | socket, reconnect state | connect, write, resize, close | ttyd in the sandbox |
| skills registry (`skills/src`) | list of sources | resolve, list | file system |
| CLIs (`agent/src/cli.ts`, `sandbank/src/cli`) | none beyond one command | argument parsing, output | the packages above |

Node runs every handler (an RPC, a timer, a socket event) to completion, so
handlers interleave but never overlap; code between two `await`s is likewise
atomic. The Python bridge handles one request at a time. What makes the system
hard:

- *Relay.* Sends, drains, long polls, timers, closing sockets and
  re-registrations of the same name interleave in any order. A message can go
  three ways (to a parked poll, to open sockets, to the queue), and must go
  exactly one. A name is checked when a socket authenticates and never again.
- *Clients.* A reply may come after its time-out, a socket may close with calls
  in flight, `close()` may race a `spawn`.
- *Adapters.* Creation is a sequence of remote steps, any of which can fail and
  leave a sandbox that somebody pays for.

The correctness of each part:

- relay session: no message is handed out twice; none sleeps behind a parked
  poll; queues are bounded and lose messages only by the documented policy;
  every poll is answered once; no message is kept for a name that is not
  registered, and of an earlier user of a name only a poll can outlive it, one
  that was parked by a socket that is being closed;
- relay lifecycle: capacity holds, a session with sockets is never swept, a
  token admits only to the incarnation of the session it was issued for;
- clients: every call is settled exactly once, by its reply, its timer or the
  loss of the connection, and no late reply settles another call;
- bridge: every request is settled, the events of an old process never touch a
  new one;
- adapters: a failed creation leaves a box behind only where the code has no
  clean-up or the clean-up failed; a box that was reported gone is gone, and a
  destroy of one that is gone does not fail; what was created has been ready, and is in its adapter's books; every call ends.

## 2. What is modelled

### Queues: `Mailbox`, `MailboxSpec`, `MailboxArray`

`Mailbox` is the queue policy as pure operators on *sets* of messages whose ids
grow with age: which message a full queue drops (`Trimmed`), and which messages
a drain takes (`Batch`, by the order `Ahead`). `MailboxSpec` is one queue as a
state machine over these operators. `MailboxArray` is the same queue with the
array operations of `session-store.ts` (findIndex/splice, shift, push, the
stable partition of `drainQueue` as the loop it is, `splice(0, limit)`), and is
checked and proved to implement `MailboxSpec` under `content <- ToSet(array)`.
That refinement is what licenses the set-valued queues of `RelaySession`.

### One relay session: `RelaySession`

| variable | code |
|---|---|
| `sandboxes` | `session.sandboxes` (state per name, "absent" without an entry) |
| `queue` | `session.messageQueues` and `session.orchestratorQueue` |
| `pollWaiters`, `pollTimers`, `polls` | `session.pollWaiters`, the armed `setTimeout`s, the unanswered requests themselves |
| `clients` | `session.clients` |
| `readyState`, `mailbox`, `wire` | `ws.readyState`, the identity of a connection, what was written and not yet read |
| `sent`, `handed`, `received` | history: ids, what the relay gave away, what somebody saw |

Actions are handlers. `Enqueue` is `enqueueMessage` / `pushToOrchestrator` for
all the addressees of a send or broadcast, with everything these calls do in the
same handler: making room, waking the first waiter with a whole default-sized
drain, pushing to the open sockets, and taking the pushed message out again;
`Written` is what it writes to a socket: the reply to a poll or the message.
`LongPoll` is `waitForMessages` with its drain first; `PollTimeout` its timer;
`GiveUp` the caller that goes away unnoticed. A socket goes NEW, OPEN (having
authenticated), CLOSING (the relay or the peer closes), CLOSED (the event that
takes it out of `clients`); what it still sends while CLOSING is handled, what
the relay would write then is not.

Modelling choices:

- A connection is an agent with a name or an orchestrator without one. The
  protocol also admits agents without a name and named orchestrators; their
  messages follow the same two paths.
- The reply to an HTTP request that is answered at once is taken as read; a
  parked request may lose its caller (`GiveUp`).
- `limit` is at least 1, as every caller in the repository sends it. With limit
  0 a poll would park at a non-empty mailbox.
- Handlers answer through resolved promises; their replies are written in the
  microtasks right after the handler, before any other event, so they are part
  of the same action.
- Opening the session, tokens and sweeping belong to `RelayLifecycle`; here the
  session simply exists.

### The sessions of a relay: `RelayLifecycle`

| variable | code |
|---|---|
| `sessions` | the map of `session-store.ts`: per id, when it was born (a counter in place of the object's identity), its token, ticks since `lastActivityAt`, whether any sandbox is registered, `session.clients` |
| `readyState`, `member` | `ws.readyState`, `client.sessionId` of `server.ts` |
| `joined` | history: the session a client was admitted to |
| `up` | whether the process still runs |

`Join` and `Found` are `handleAuth` for a session that exists and for one that
does not; `HttpCall` and `HttpRegister` are requests over HTTP, whose token is
checked every time; `SocketCall` is a request of an authenticated socket, which
is looked up by id alone. `Create` makes room first (`MakeRoom` is the sweep
that `createSession` runs at capacity). `Overflow` is the exception that
`createSession` throws when there is still no room: nothing between it and the
event loop catches it, so the process ends, and every session with it. That is
why this instance may stop (`CHECK_DEADLOCK FALSE`). Time is `Tick`; a session
older than `Ttl` by one tick is as old as it can be told to be.

The two relay modules meet in two facts only: `RelaySession` is what happens in
one live session of `RelayLifecycle`, and `named` there abstracts `sandboxes`
here.

### The orchestrator's session: `SessionClient`

| variable | code (`core/src/session.ts`) |
|---|---|
| `ws`, `toRelay`, `fromRelay`, `registered` | the socket, what is under way in both directions, what the relay has registered |
| `outcome` | the map `pending` and its timers: a call is "waiting" while it is in the map |
| `sandboxes`, `spawn`, `nameOf` | the map (`null` is "reserved"), how far each call of `spawn` is |
| `cloud` | what the provider runs |
| `waiters`, `waitTimers`, `wait`, `completions` | `completionWaiters`, their timers, each call of `waitFor`, the names that have completed |
| `phase`, `doomed`, `ready` | how far `close()` is, what it is destroying, and (history) what was ready when it was called |

A JavaScript function is split at its `await`s: `Spawn`, `Created`,
`Registered`, `Undone` are the pieces of `spawn`; `Close`, `DestroyAll`,
`Disconnect`, `SocketClosed` those of `close`. What follows an `await` runs as a
microtask before the next event: every action for an event requires `Idle`, that
no continuation is due. The relay is as much as the session sees of it: it
answers in order, refuses a name that is registered, may never answer, and
reports completions. Requests written before the socket closes may or may not
arrive (`survive`). Listeners given by the caller are taken not to throw;
connecting, message and context listeners and a second `close()` are left out.
All calls can be used up, so the instance may stop.

### The BoxLite client and its bridge: `BoxLiteBridge`, `BridgeClient`

`BoxLiteBridge` is the Python script: processes that boot, take one line at a
time, do what it asks to boxes that all processes share, answer, and end at the
end of input, by an exception or by a signal. `BridgeClient` extends it with
`local-client.ts`.

| variable | code |
|---|---|
| `bridge`, `ready`, `starters` | `process`, `readline` and `readyPromise`, which are set and cleared together; what became of the promise; the calls that await it, in order |
| `req` | each call of `send`: awaiting a process, in `pending` (with the process it was written to), settled |
| `disposing` | the process whose exit `dispose()` awaits |
| `child`, `job`, `cached`, `simple`, `stale` | a process and what it knows: `_boxes`, `_simple_boxes`, and which handles are worth nothing since the box was stopped through them |
| `stdin`, `stdout`, `ended`, `killed` | the pipes, `stdin.end()`, SIGTERM |
| `vm` | the runtime's boxes |

A request is one step of the bridge, except a snapshot, which is three (stop,
snapshot, start again): it is the one that leaves something half done. The SDK
may raise an exception at each of them (`ok = FALSE`), with whatever the script
has done by then. `Exit` is the listener of `'exit'`, which cleans up whichever
process the event is of; it comes some time after the process is gone, and what
was written to the pipe meanwhile is lost. Not modelled: what an answer says,
the names of snapshots, the fallback for an SDK without a runtime, the EPIPE of
a write to a process that is gone, an exception while the process is being set
up, a second `dispose()` during the first. Requests and processes are used up,
so the instance may stop.

### An agent's session and the context: `AgentSession`

One agent that has connected over a WebSocket, and the context store it shares
with the rest of its session.

| variable | code |
|---|---|
| `stage` | how far `connect()` is (`connect.ts`), and whether the session it returns is closed |
| `calls` | `RpcPendingMap.pending` (`rpc.ts`): an entry per call, with its timer, and whether a caller awaits its promise |
| `since`, `picture` | when the agent began to watch; history: the last change of each key that it has learned of |
| `link`, `sock`, `admitted` | the two ends of the connection, and whether the relay has the agent among `session.clients` |
| `log` | the store's data (`context-store.ts`): `LastChange(k)` is the value of `k`, named by the number of the change that wrote it |
| `parked`, `toRelay`, `fromRelay` | polls that wait at the relay, and what is under way in both directions |

`CallRelay` is any method of the session: it adds its entry first and sends
second, so that a call after the loss of the connection throws and leaves an
entry nobody awaits, whose time-out or rejection by `close()` is an unhandled
rejection, which ends the process (`Down`). `ServeGet`, `ServeChange`,
`ServeAuth` and `ServeOther` are the relay's handlers, one request at a time in
the order they come; `ChangeByOther` is a change by anyone else, over a socket
or HTTP, with the notices it sends. `ReceiveAnswer`, `ReceiveNotice`, `Timeout`,
`LinkCloses` and `Close` are the agent's events.

Modelling choices:

- The other members are the environment. The relay deals with each client by
  itself (it writes to each socket in turn and keeps nothing between two of
  them), so one agent against every possible sequence of changes is enough. A
  change is under the agent's own name or another: `notifyClients` skips clients
  by *name*, not by connection.
- A slot of `Calls` is a random id; it is taken again only when nothing refers
  to it, since ids never come back.
- Losing a connection drops what is under way on it in both directions. That the
  relay reads some of it first is another behaviour of the model, in which the
  relay reads before the loss.
- Left out: the message listeners (they only call back), the watchers of the
  relay's own process, and what `keys`, `send` and `recv` do to the relay's
  state, which is in `RelaySession`.

### Providers and their adapters: `Cloud`, `Provider`

`createProvider` over each of the adapters, one of which `Init` chooses, with
several calls of `create`, `destroy` and `get` at once. `Cloud` is the remote
side as seen from the adapters, `Provider` the code.

| variable | code |
|---|---|
| `adapter` | which adapter is in use (AIO with and without a readiness probe, Daytona through its SDK or REST, its volumes, db9's brains count as adapters) |
| `calls` | each call: what it is (`op`), the function it is in (`program`), what it awaits (`at`) and of which box, the answer that has come, the attempts of a polling loop, what `create` was asked for (`wants`), the skill it awaits, and, when it has failed, where (`fault`) |
| `cloud` | the box that each `create` makes, at the provider |
| `known` | `portMaps` of BoxLite, `sandboxes` of Cloudflare |
| `client` | `clientPromise` of Daytona |
| `skill` | `cachedSkill` / `inflight` of db9's `skill.ts` |
| `ran` | history: boxes that have run |

An adapter's function is a *program*: a set of rows, each of which says of an
awaited step with which answers it goes on to which next step, or returns. Any
other answer throws, as a rejected `await` outside a `try` does; a row of a
polling loop has a second exit for when the attempts are used up. So
`FlyioCreate` reads: make, wait, look, return. `Following` takes the row for the
answer; `After` is the caller in `provider.ts`: after the adapter's create the
user and the skills, after a failure of the skills a destroy, whose own failure
is swallowed. One `Resume` is the code between two awaits. Programs differ where
the adapters do: which errors count as "not found" (a status, or words in a
message), whether an empty body is accepted, what is polled and what is cleaned
up. The server's side of a request is `Perform`: it takes effect or not, and the
answer may be an error either way. Boxes boot, stop and vanish when they like.

Modelling choices:

- A request of an SDK or a client that is several HTTP requests (a BoxLite
  execution with its polling, a token that must be fetched first, the two
  statements of a brain's schema, the commands that set up one user) is one
  step, which may fail with or without its effect.
- Answers are classes: a success with a state, with no body ("empty": for a
  client that parses JSON an error), a non-zero exit code, a 404 ("absent"), an
  error that merely mentions one ("rumour"), "busy" for a state transition, 402,
  all other errors. A rumour matters, and occurs, in get and destroy only.
- A box is named by the call that makes it. `Visible` is what a caller can know:
  what a create has returned, and what `list` shows.
- AIO's containers all ask for one port. `allocPort` takes the first that no
  container it can see has; two creations may choose the same and only one
  starts. Docker removes a container that does not start (`AutoRemove`), and the
  readiness probe is answered by whichever container holds the port.
- Cloudflare has no object to create: a container starts when it is used, even
  one that was destroyed, and the adapter's own record is all there is.
- Volumes are Daytona's REST client's. The SDK's `deleteVolume`
  (`sdk-client.ts:120`) lists the volumes once more and deletes only what it
  finds; that second list is not modelled.
- microsandbox reports a 404 as `SandboxNotFoundError`, also from destroy
  (`MicrosandboxAdapter.ts:91`); the models tell a destroy that throws it from
  other failures only by the answer the call keeps.
- E2B's request is aborted by a timer, db9's creation abandoned when the skill
  cannot be fetched: both may take effect later (`late`).
- 402 without a wallet is an ordinary error; with one, a request is paid for
  once, by the same fetch (`Pay`).

## 3. What is checked

| run | instance | what it shows |
|---|---|---|
| `MailboxArray` | queue of 3, 6 messages, limits 1-3, both kinds of queue | the arrays implement the set policy (`ImplementsMailbox`), and replies list messages in the promised order (`RepliesInOrder`) although partial drains reorder the array |
| `RelaySession` | one name, 1 socket, 2 polls, queue of 2, 3 messages, limits 1 and 2, `FairSpec` | `TypeOK`, `QueuesBounded`, `NoLostWakeup`, `WaitersAccounted`, `NoDoubleDelivery`, `OpenSocketsRegistered`, `UnregisteredKeepsNothing`, `OneWay`, `DropPolicy`, `PollsAnswered` |
| `RelayDurable` | one name, 1 socket, 1 message | expected violation of `DurableOrchestrator` |
| `Lifecycle` | 2 session ids, 2 tokens, 2 sockets, room for 1 session, 3 births, `FairSpec` | `CapacityRespected`, `SocketsInTheirSession`, `ClientsExact`, `EndsOnlyWhenAbandoned`, `AbandonedSwept` |
| `SessionClient` | 2 names, 2 spawns, room for 1 sandbox, 1 waiter, `FairSpec` | `NamesHeld`, `InstancesBounded`, `ReadyDestroyed`, `NoSleeper`, `NothingHangs` |
| `SessionCloseDestroys` | 2 names, 2 spawns, room for both | expected violation of `AllDestroyedWhenClosed` |
| `SessionCloseEnds` | 1 name, 1 spawn, `FairSpec` | expected violation of `CloseClosesRelay` |
| `BoxLite` | 2 processes, 2 boxes (one from earlier), 2 requests of any kind, `FairSpec` | `OneBridge`, `NothingLost`, `SnapshotQuiet`, `HandlesValid`, `NothingHangs` |
| `BoxLiteDispose` | 2 processes, 1 box, 2 requests | expected violation of `DisposeCleansUp` |
| `AgentSession` | 2 keys, 2 calls under way, 2 changes, `FairSpec` | `TypeOK`, `PictureTrue`, `PictureConsistent`, `EveryCallSettles` |
| `Provider` | 12 adapters, 2 calls of any kind, 2 attempts in a loop, `FairSpec` | `TypeOK`, `LeftOnlyWhere`, `GoneIsGone`, `ReadyMeansRan`, `BooksKept`, `CallsSettle` |
| `DestroyTwice` | microsandbox and db9, 3 calls | expected violation of `DestroyIdempotent` |

`NothingHangs` is one formula for all that must end: of the session client, that
calls, spawns and timed waits end and that `close()` does; of the BoxLite
client, that requests with a timer and `dispose()` do.

`OneWay` says that what wakes a poll goes to that poll alone, and
`NoDoubleDelivery` that what was handed out is no longer queued: together, that
a message goes one way. `OpenSocketsRegistered` is about open sockets; what one
that is being closed may leave behind is in `UnregisteredKeepsNothing`.

Bounds of the relay: overflow needs a queue of 2 and 3 messages (one of each
priority must be able to be the oldest); re-registration needs one name used
twice; the overtaking of one poll by another needs 2 polls of a name, and a
message that could go two ways needs a socket beside a poll. `RelaySession` tells
states apart without `wire` and `received` (`View` of `MCRelaySession`): no
guard of an action that changes anything else reads them, only the type
invariant reads `received`, and `OneWay` reads only what a step adds to `wire`,
which is the same whatever was there, since a message that is handed out now is
in no `wire` yet. A socket of an earlier registration of a name beside one of
the next needs 2 sockets; confusion between the waiters of different names needs
2 names. Both are left to the proofs, which are for any number of either:
`SocketsSafe`, `UnregisteredSafe` and `WaitersSafe`. `MaxMsgs` bounds the
messages of a behaviour, `MaxPollWaiters` stands for 10, `DrainLimit` for 100,
`MaxQueue` for 10 000. Of sessions, one that must go for another, a third birth
under an id used before, and two sockets that disagree about
the session are within reach;
`Ttl = 1` tells a session used in the last tick from one that was not.

Bounds of the clients: 2 spawns of one name, of two, and a spawn during
`close()` need 2 spawns; `MaxInFlight` bounds what the relay has under way when
an agent completes. An old process and its successor are 2 processes, a request
behind another is 2 requests, a clone or a created box beside a reacquired one
is 2 boxes. No run uses symmetry. Of the context, the order of
a result and the flag that announces it takes 2 keys and 2 changes; an answer
that could overtake a notice takes a call beside them, and a late answer beside
a call that has taken its place takes 2 calls. Slots are reused, so a behaviour
makes any number of calls. The session may be closed, failed or down: the
instance may stop.

Bounds of the providers: the hazards are between two calls (a destroy or a get
during a create, two containers that want one port, two that await one client or
one skill), so 2 calls; 2 attempts are a poll that succeeds late and one that
gives up. In `DestroyTwice` a third call creates the box that the other two
destroy. What `create` is asked for is one of nothing, skills, a user and
skills, and for Cloudflare a set-up (environment or volumes) with and without
skills. The calls can be used up, so the instance may stop.

Fairness, in each case what a timer, the event loop or the operating system
gives: armed poll timers fire (`RelaySession`); time passes and the sweep
interval fires (`RelayLifecycle`); continuations run, timers fire, the provider
answers a create or destroy, and a closing socket closes (`SessionClient`);
timers fire, lines are read and exits noticed, a script boots and SIGTERM ends a
process (`BridgeClient`); the 30-second timer of each call fires
(`AgentSession`); every request is answered or its connection breaks, which
settles the promise, and what follows an `await` runs (`Provider`). Nothing is
assumed of the relay as seen by the client, of callers, senders and peers, or of
the SDK: a request to the bridge may hang.

The BoxLite invariants are qualified by `killed = {}`: once `dispose()` has
given up on a process, the next call starts another beside it, by design of the
3-second limit, and two bridges may then work on one box.

What `Provider` says of the adapters, in its two conditional properties:

- `Unguarded` (for `LeftOnlyWhere`) lists where a failed `create` leaves a box
  that its caller has no id of: when the answer to the creation is lost; when
  the sandbox user cannot be set up (`provider.ts` destroys the box only when
  the *skills* fail); Fly.io's wait and second look; AIO's start and probe;
  Cloudflare's environment and volumes; BoxLite's start and each look that
  throws (only the loop's own time-out cleans up); a Daytona volume that is not
  ready in time; a brain whose skill cannot be fetched. Everywhere else a box
  that is left is one whose clean-up failed (`fault = "cleanup"`).
- `GoneIsGone` has two directions. It lists when a box is reported gone and is
  not: on Cloudflare after any error of destroy, where an error only mentions
  "404" or "not found" (Fly.io, BoxLite, Daytona, Sandbank Cloud), and on Daytona
  when the sandbox is changing its state. What these destroys hide is a box that
  runs on. And it says that a destroy whose request was answered with a success
  or with "no such box" does not throw, whatever other destroys have done
  before, but for `Complains`: a 404 on microsandbox and db9, which is the
  finding below, and a success without a body where the body is parsed all the
  same. That is so on microsandbox, in Daytona's REST client and, once it was
  paid for, on Sandbank Cloud: the box is gone and the destroy throws. The
  comment at `x402-fetch.ts:100` counts on an empty body of a DELETE, in the
  request that was not paid for.
- `DestroyIdempotent` is what `core/src/types.ts:19` promises: no destroy fails
  because another destroy has removed the box. It is violated on microsandbox
  and db9 (`DestroyTwice`) and proved for every other adapter
  (`IdempotentElsewhere`).

**Findings.**

- `session-store.ts:359` calls the orchestrator's queue durable ("no message is
  lost on disconnect"; `plan.md:310` adds that they can be pulled after
  reconnecting). The code removes a message from that queue as soon as `ws.send`
  was called on an open socket, so a message in flight when the socket is cut is
  neither queued nor received (`RelayDurable`).
- `core/src/session.ts:356`: `close()` collects the sandboxes to destroy once,
  and clears the map when the destroys have been answered. A spawn that
  registers in between puts its sandbox into the map after the first and before
  the second: nobody destroys it (`SessionCloseDestroys`).
- `core/src/session.ts:362`: after an unexpected loss of the connection
  `close()` waits for a `close` event that has already been, never resolves and
  never closes the relay (`SessionCloseEnds`).
- `boxlite/src/local-client.ts:700`: the late exit of a process that `dispose()`
  gave up on makes the client forget the process that a later call has started.
  It runs on, and the next `dispose()` finds nothing to end (`BoxLiteDispose`).
- `core/src/types.ts:19` calls destroy idempotent, and so do `db9/src/client.ts:34`
  of `deleteDatabase`, `sandbank/README.md:224` and the test at
  `test/conformance/conformance.test.ts:183`. On microsandbox
  (`MicrosandboxAdapter.ts:140`) and db9 (`adapter.ts:63`) the second destroy is
  answered 404, which `request` throws and nobody catches (`DestroyTwice`).

## 4. What is proved

All theorems hold for every value of the constants that satisfies the named
assumptions (`MaxQueueAssumption`, `LimitsAssumption`, `RelayConstants`,
`LifecycleConstants`, `SessionConstants`, `BridgeConstants`, `AgentConstants`,
`CloudConstants`, `ProviderConstants`: finite sets where something is counted,
positive bounds, natural limits, sentinels outside the sets they are told from).
Every safety property of the passing runs of section 3, invariant, action
property or refinement, is proved; what is only model-checked is liveness.

`MailboxArrayProofs`:

- `ArraysImplement`: `Spec => ImplementsMailbox`, the refinement, and
  `RepliesOrdered`: `[]RepliesInOrder`. Inductive is `ArrayInv`: the ids in an
  orchestrator's array grow, in a sandbox's array those of each priority do,
  which is all that is left of the order after a partial drain. From it follow,
  call by call, that the array has no message twice (`NoTwice`), so that its
  length is the size of its set (`QueueSize`); that `findIndex` and `shift` find
  the message the policy calls oldest (`RoomMade`, `ShiftedLater`; the
  orchestrator's queue is trimmed after the push and a sandbox's before, with
  the same result: `PushTrims`); that `indexOf` and `splice` undo the push
  (`TakenBack`); that the partition has the same messages and sorts them by
  `Ahead` (`Partitioned`); and that of a sorted array the first `limit` messages
  are the batch (`DrainTakesBatch`: `i - 1` messages are ahead of the i-th). The
  loop of the partition is a recursive function, whose existence
  (`LoopExists`) and meaning (`HalfOrdered`) are shown by looking at the first
  step that would go wrong (`LeastExists`).

`MailboxProofs`, `RelaySessionProofs`:

- `RoomForOne`: making room leaves a queue that, with the next message, fits
  `maxQueueSize`;
- `TypeCorrect`: `[]TypeOK`;
- `QueuesSafe`: `[]NoDoubleDelivery`, `PollsAwake`: `[]NoLostWakeup`,
  `QueuesFit`: `[]QueuesBounded`. The common inductive invariant `QueueInv` adds
  that ids in use are at most `sent` (a new message cannot be one already handed
  out) and that unregistered names have empty queues (a send to them goes to the
  orchestrator, not to a parked poll);
- `SocketsSafe`: `[]OpenSocketsRegistered`;
- `WaitersSafe`: `[]WaitersAccounted`, by lemmas about the place of a poll in a
  list under `Tail`, `Append` and `Without`;
- `UnregisteredSafe`: `[]UnregisteredKeepsNothing`, from the three above and the
  fact that a poll's socket has authenticated;
- `DrainsRightly`: the action property `DrainsInOrder`, the policy's side of what
  `RepliesInOrder` checks of the arrays (no run checks it), from `BatchAhead` (no
  message left behind is ahead of one that is taken) and `SendHandsOutNew` (what
  a send hands out is the new message, or the batch of a waiting poll);
- `OneWaySafe`: the action property `OneWay`, by cases of what a step writes: a
  reply goes to the socket of its request, and a message is pushed only where no
  poll waits;
- `DropsRightly`: the action property `DropPolicy`, from `TrimmedLoses` (which
  message makes room) and the further invariant `IdsDistinct`: no two messages
  of a queue have the same id, so that the one a queue lost can be told.

`NextIsMailboxStep` condenses the next-state relation by what a step does to
mailboxes, and every invariant is shown preserved by one step per disjunct.

`RelayLifecycleProofs`:

- `TypeCorrect`; `CapacitySafe`: `[]CapacityRespected`, by counting: a session
  is added to the live ones only where `HasRoom` saw fewer than `maxSessions`;
- `SocketsSafe`: `[]SocketsInTheirSession`, `ClientsSafe`: `[]ClientsExact`.
  Neither is inductive alone: that a socket finds its session needs that the
  sweep leaves alone a session with clients, hence that the clients are exact,
  and these need that a connected socket's session is there. Together they are;
- `EndsRightly`: the action property `EndsOnlyWhenAbandoned`, from the same.

`SessionClientProofs`:

- `TypeCorrect`, with the fact that a request to register belongs to a spawn
  that has a name;
- `WaitersSafe`: `[]NoSleeper`, strengthened by: a waiter is on one list;
- `NamesSafe`: `[]NamesHeld`, and `CloseSafe`: `[]ReadyDestroyed`, from an
  invariant that follows a sandbox: what the provider runs is in flight, live,
  being destroyed or leaked; a live one is in the map under its name until
  `close()` collects it;
- `InstancesSafe`: `[]InstancesBounded`, by an injection of the sandboxes that
  run into the names that are taken, of which `HasRoom` allows so many.

`BridgeClientProofs`:

- `TypeCorrect`; `OneBridgeSafe`: `[]OneBridge`. Inductive is `Single`: a
  process whose exit was not reported yet, dead or alive, is the client's. With
  "alive" alone, the exit of a dead process could still clear the next one;
- `HandlesSafe`: `[]HandlesValid`, `SnapshotsSafe`: `[]SnapshotQuiet`. Inductive
  is that a box with an invalid handle, or half-way through a snapshot, *is
  stopped* (not merely "does not run"); that other processes have no handles and
  no requests comes from `Single`;
- `RequestsSafe`: `[]NothingLost`. Inductive is `PlaceInv`, which follows a
  request before it is written, too: one that was not written is nowhere
  (`Nowhere`: no process has a line of it, works on it or has answered it); one
  that awaits the bridge stands once in the list of those who do (`StartersInv`)
  and will be written once; one that was written is in one place (`InOnePlace`).
  `Where` and `Once` say at which places of a pipe a request stands, and
  `WhereAppend`, `WhereConcat` and `WhereTail` what writing and reading do to
  them. A request that timed out needs nothing further: its line, its work or
  its answer may still be there, which is why an answer nobody waits for says
  nothing of the others.

`AgentSessionProofs`:

- `TypeCorrect`, with the shape of every entry and message;
- `PictureIsTrue`: `[]PictureTrue`, a key's last change by another is in the
  agent's picture or on its way; `PictureIsConsistent`: `[]PictureConsistent`,
  who knows of a change knows of every earlier one by others. Inductive is what
  is *under way*: of each key the agent learns in the order of its changes
  (`InOrder`); all that others have changed is known or on its way (`Coming`);
  and whatever a message tells, the messages up to it tell of what was before
  (`Cuts`), a statement about every prefix of the messages, which is what
  survives when one is received or appended. That the messages are about this
  connection and were written after its admission is `ProtocolInv`: an entry
  that is still there is of the request that carries its slot (`SameCall`: a
  slot is not taken again while a request of it is under way), nothing is
  answered before the authentication (`AuthFirst`), and only a member is
  notified (`Admitted`).

`ProviderProofs`, over all adapters at once:

- `TypeCorrect`; `LeftSafe`: `[]LeftOnlyWhere`; `GoneSafe`: `[]GoneIsGone`;
  `ReadySafe`: `[]ReadyMeansRan`. They are one induction, because each needs to
  know how a call and its box go together (`CallInv`): before the creation is
  answered there is no box, afterwards there is or was one (`BoxThere`, without
  which a destroyed box could come back, by a make); an answer that a box is
  deleted stays true, and a destroy that had it failed only where it `Complains`
  (`AnswerTrue`, `ToldTrue`); a step behind a wait is reached
  only with a box that has run (`HasRun`); a failed create failed at one of the
  steps it may fail at (`FailedWhere`). One lemma per program says where it may
  go from which step (`CreateFollows`, `SetUpFollows`, `DestroyFollows`,
  `GetFollows`: the only places where the adapters are told apart), one says
  what a request may do to a box (`OutcomeIs`), and one per action puts these
  together;
- `IdempotentElsewhere`: `DestroyIdempotent` with every adapter but microsandbox
  and db9, from `ToldTrue`;
- `BooksSafe`: `[]BooksKept`, by an induction of its own over the first: a box
  is entered when it is made, and struck out only by a deletion that was
  answered (BoxLite) or by a destroy that then resolves (Cloudflare).

Only model-checked: liveness (`PollsAnswered`, `AbandonedSwept`, `NothingHangs`
of both clients, `EveryCallSettles`, `CallsSettle`), which is beyond the prover.
The five findings are counterexamples and have nothing to prove.

## 5. Plan

In order of importance; each module comes with its runs and, where noted,
proofs.

1. `RelaySession` and the mailboxes: done, proved.
2. `RelayLifecycle`: done, proved.
3. `AgentSession`, the agent client and the context store: done, proved, except
   the listeners and the HTTP client's own process.
4. `SessionClient`: done, proved except liveness. Left: the listeners, a second
   `close()`.
5. `BoxLiteBridge`, `BridgeClient`: done, proved except liveness.
6. `Cloud`, `Provider`, the facade over all adapters with payments, volumes and
   brains: done, proved except liveness. Left: hooks, services, which volumes a
   machine is given.
7. Streams and framing (microsandbox, AIO, terminal), BoxLite's token cache and
   execution polling, the db9 observer's buffer: not begun.

Proofs still worth having: that each mailbox of `RelaySession` implements
`MailboxSpec` while its name is registered, which would join the two levels by a
refinement where now both use the operators of `Mailbox`.

Not modelled, and why:

- streams, terminals and their framing: what could go wrong is in bytes, not in
  the order of steps (item 7);
- hooks and observers: they are called beside the operations and change no box;
- service bindings: no sandbox adapter in the repository has `getService` (db9 is
  a service provider of its own, and modelled as such);
- archives, snapshots, exposed ports, `list`: one request each, and nothing kept
  that another operation relies on, BoxLite's port map apart;
- the OAuth token of BoxLite's REST client: shared by calls, but refreshed by
  each that finds it old, so that a race costs a request;
- listeners of messages, a second `close()` or `dispose()`: see 3 to 5.

Not planned: argument parsing and output of the CLIs, HTTP wording, type
declarations, the shell scripts sent to sandboxes.
