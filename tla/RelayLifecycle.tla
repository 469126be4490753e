--------------------------- MODULE RelayLifecycle ---------------------------
(***************************************************************************)
(* The sessions of one relay: how they are created, entered, kept alive    *)
(* and swept (packages/relay/src/session-store.ts, handleAuth of           *)
(* protocol.ts, server.ts).  What happens inside a session is RelaySession; *)
(* of its sandboxes only whether any is registered matters here.           *)
(***************************************************************************)
EXTENDS Naturals, FiniteSets

CONSTANTS
  Sessions,     \* session ids
  Tokens,       \* tokens that clients choose
  Conns,        \* WebSocket connections, each used once
  None,         \* no session under this id; no token given
  MaxSessions,  \* maxSessions
  Ttl,          \* sessionTtlMs, in ticks of the clock
  MaxBirths     \* bound: sessions created in a behaviour

\* randomUUID() for a session that is created without a token.
Uuid == [uuid : 1 .. MaxBirths]

Token == Tokens \cup Uuid

Session == [birth : 1 .. MaxBirths, token : Token, idle : 0 .. Ttl + 1,
            named : BOOLEAN, clients : SUBSET Conns]

ASSUME LifecycleConstants ==
  /\ None \notin Sessions
  /\ None \notin Token
  /\ None \notin Session
  /\ IsFiniteSet(Sessions)
  /\ MaxSessions \in Nat \ {0}
  /\ Ttl \in Nat \ {0}
  /\ MaxBirths \in Nat

VARIABLES
  sessions,     \* the map of sessions; named: a sandbox is registered;
                \* idle: ticks since lastActivityAt, up to Ttl + 1
  births,       \* sessions created so far (history)
  readyState,   \* ws.readyState of each connection
  member,       \* client.sessionId, None before authentication
  joined,       \* birth and token of the session as the client was told (history)
  up            \* the process runs

vars == <<sessions, births, readyState, member, joined, up>>

Live == {s \in Sessions : sessions[s] # None}

TypeOK ==
  /\ sessions   \in [Sessions -> Session \cup {None}]
  /\ births     \in 0 .. MaxBirths
  /\ readyState \in [Conns -> {"NEW", "OPEN", "CLOSING", "CLOSED"}]
  /\ member     \in [Conns -> Sessions \cup {None}]
  /\ joined     \in [Conns -> [birth : 1 .. MaxBirths, token : Token] \cup {None}]
  /\ up         \in BOOLEAN

Init ==
  /\ sessions   = [s \in Sessions |-> None]
  /\ births     = 0
  /\ readyState = [c \in Conns |-> "NEW"]
  /\ member     = [c \in Conns |-> None]
  /\ joined     = [c \in Conns |-> None]
  /\ up         = TRUE

-----------------------------------------------------------------------------
(* sweep, createSession *)

\* Mutants: only the time counts; only the absence of clients counts.
ExpiredByAge(s)   == sessions[s] # None /\ sessions[s].idle > Ttl
ExpiredIfEmpty(s) == sessions[s] # None /\ sessions[s].clients = {}

Expired(s) ==
  sessions[s] # None /\ sessions[s].idle > Ttl /\ sessions[s].clients = {}

\* deleteSession also closes the clients of the session; here it has none.
Swept == [s \in Sessions |-> IF Expired(s) THEN None ELSE sessions[s]]

\* Expired sessions are looked for only when there is no room.
MakeRoom == IF Cardinality(Live) >= MaxSessions THEN Swept ELSE sessions

\* Mutant: the relay takes one session too many.
HasRoomForOneMore(ss) == Cardinality({s \in Sessions : ss[s] # None}) <= MaxSessions

HasRoom(ss) == Cardinality({s \in Sessions : ss[s] # None}) < MaxSessions

\* Mutant: without a token from the client there is none.
BornOpen(given) ==
  [birth |-> births + 1, idle |-> 0, named |-> FALSE, clients |-> {}, token |-> given]

\* A new session with the client's token, or a random one.
Born(given) ==
  [birth |-> births + 1, idle |-> 0, named |-> FALSE, clients |-> {},
   token |-> IF given = None THEN [uuid |-> births + 1] ELSE given]

Create(s, session) ==
  /\ births < MaxBirths
  /\ births' = births + 1
  /\ sessions' = [MakeRoom EXCEPT ![s] = session]

\* createSession throws for want of room.  Neither the socket's 'message'
\* handler nor the request's 'end' handler catches it: the process ends.
Overflow(s) ==
  /\ up
  /\ sessions[s] = None
  /\ ~HasRoom(MakeRoom)
  /\ up' = FALSE
  /\ sessions' = [t \in Sessions |-> None]
  /\ readyState' = [c \in Conns |-> "CLOSED"]
  /\ UNCHANGED <<births, member, joined>>

-----------------------------------------------------------------------------
(* session.auth: the first message of a socket *)

Admits(s, given) == sessions[s] # None /\ sessions[s].token = given

Enter(c, s, birth, token) ==
  /\ readyState' = [readyState EXCEPT ![c] = "OPEN"]
  /\ member' = [member EXCEPT ![c] = s]
  /\ joined' = [joined EXCEPT ![c] = [birth |-> birth, token |-> token]]

\* Into a session that exists; an agent must name a registered sandbox.  The
\* visit does not count as activity.
Join(c, s, given, agent) ==
  /\ up
  /\ readyState[c] = "NEW"
  /\ Admits(s, given)
  /\ agent => sessions[s].named
  /\ sessions' = [sessions EXCEPT ![s].clients = @ \cup {c}]
  /\ Enter(c, s, sessions[s].birth, given)
  /\ UNCHANGED <<births, up>>

\* Into a new session: an agent is turned away, since nothing is registered
\* there, but the session has been created.
Found(c, s, given, agent) ==
  /\ up
  /\ readyState[c] = "NEW"
  /\ sessions[s] = None
  /\ HasRoom(MakeRoom)
  /\ LET new == Born(given) IN
     IF agent
     THEN Create(s, new) /\ UNCHANGED <<readyState, member, joined>>
     ELSE Create(s, [new EXCEPT !.clients = {c}]) /\ Enter(c, s, new.birth, new.token)
  /\ up' = up

-----------------------------------------------------------------------------
(* HTTP requests: token checked each time, every one is activity *)

\* touch, and what the request does to the registered names.
Touched(session, named) == [session EXCEPT !.idle = 0, !.named = named]

\* Any request, session.register and session.unregister also change named.
HttpCall(s, given, named) ==
  /\ up
  /\ Admits(s, given)
  /\ sessions' = [sessions EXCEPT ![s] = Touched(@, named)]
  /\ UNCHANGED <<births, readyState, member, joined, up>>

\* session.register creates the session it finds missing, even if it then fails.
HttpRegister(s, given, named) ==
  /\ up
  /\ sessions[s] = None
  /\ HasRoom(MakeRoom)
  /\ Create(s, [Born(given) EXCEPT !.named = named])
  /\ UNCHANGED <<readyState, member, joined, up>>

-----------------------------------------------------------------------------
(* Sockets *)

\* A request of an authenticated socket, also while it is closing: it acts on
\* whatever session has the id it authenticated for.  Reading an empty mailbox
\* or the context is no activity.
SocketCall(c, active, named) ==
  /\ up
  /\ readyState[c] \in {"OPEN", "CLOSING"}
  /\ member[c] # None
  /\ sessions[member[c]] # None
  /\ sessions' = [sessions EXCEPT ![member[c]] = IF active THEN Touched(@, named) ELSE @]
  /\ UNCHANGED <<births, readyState, member, joined, up>>

\* The peer, or an unregister, starts the closing handshake.
Closing(c) ==
  /\ readyState[c] = "OPEN"
  /\ readyState' = [readyState EXCEPT ![c] = "CLOSING"]
  /\ UNCHANGED <<sessions, births, member, joined, up>>

\* Mutant: the client stays in the session.
ClosedForgets(c) ==
  /\ readyState[c] \in {"OPEN", "CLOSING"}
  /\ readyState' = [readyState EXCEPT ![c] = "CLOSED"]
  /\ UNCHANGED <<sessions, births, member, joined, up>>

\* The 'close' event.
Closed(c) ==
  /\ readyState[c] \in {"OPEN", "CLOSING"}
  /\ readyState' = [readyState EXCEPT ![c] = "CLOSED"]
  /\ sessions' = IF sessions[member[c]] # None
                 THEN [sessions EXCEPT ![member[c]].clients = @ \ {c}]
                 ELSE sessions
  /\ UNCHANGED <<births, member, joined, up>>

-----------------------------------------------------------------------------
(* Time *)

Tick ==
  /\ up
  /\ sessions' = [s \in Sessions |->
                    IF sessions[s] # None /\ sessions[s].idle <= Ttl
                    THEN [sessions[s] EXCEPT !.idle = @ + 1] ELSE sessions[s]]
  /\ UNCHANGED <<births, readyState, member, joined, up>>

\* The sweep timer.
Sweep ==
  /\ up
  /\ sessions' = Swept
  /\ UNCHANGED <<births, readyState, member, joined, up>>

Next ==
  \/ \E c \in Conns, s \in Sessions, given \in Token \cup {None}, agent \in BOOLEAN :
       Join(c, s, given, agent) \/ Found(c, s, given, agent)
  \/ \E s \in Sessions, given \in Token, named \in BOOLEAN :
       HttpCall(s, given, named) \/ HttpRegister(s, given, named)
  \/ \E c \in Conns, active \in BOOLEAN, named \in BOOLEAN : SocketCall(c, active, named)
  \/ \E c \in Conns : Closing(c) \/ Closed(c)
  \/ \E s \in Sessions : Overflow(s)
  \/ Tick
  \/ Sweep

Spec == Init /\ [][Next]_vars

\* Time passes and setInterval fires.
FairSpec == Spec /\ WF_vars(Tick) /\ WF_vars(Sweep)

-----------------------------------------------------------------------------
(* Safety *)

Connected(c) == readyState[c] \in {"OPEN", "CLOSING"}

\* The number of sessions never exceeds maxSessions, whichever way they are
\* created and although expired ones are removed only for want of room.
CapacityRespected == Cardinality(Live) <= MaxSessions

\* A socket's requests are looked up by session id alone.  They still always
\* find the session, and it is the one whose token the socket presented, never
\* a later session with the same id.
SocketsInTheirSession ==
  \A c \in Conns : Connected(c) =>
    /\ member[c] # None
    /\ sessions[member[c]] # None
    /\ sessions[member[c]].birth = joined[c].birth
    /\ sessions[member[c]].token = joined[c].token

\* session.clients is exact: it holds the sockets that are connected to the
\* session and no other, so that a session is kept for its sockets and only as
\* long as it has some.
ClientsExact ==
  \A s \in Live, c \in Conns : c \in sessions[s].clients <=> Connected(c) /\ member[c] = s

-----------------------------------------------------------------------------
(* What a step may never do *)

\* As long as the relay runs, a session ends, or is replaced by another of the
\* same id, only after ttl ticks without activity and with no socket connected.
EndsOnlyWhenAbandoned ==
  [][up' => \A s \in Live :
       (sessions'[s] = None \/ sessions'[s].birth # sessions[s].birth) =>
         /\ sessions[s].idle > Ttl
         /\ \A c \in Conns : member[c] = s => ~Connected(c)]_vars

-----------------------------------------------------------------------------
(* Liveness *)

\* A session that no socket is connected to is swept, unless somebody comes
\* back or calls: also one that a refused authentication left behind.
AbandonedSwept ==
  \A s \in Sessions :
    (sessions[s] # None /\ \A c \in Conns : member[c] = s => ~Connected(c))
      ~> \/ sessions[s] = None
         \/ sessions[s].idle = 0
         \/ \E c \in Conns : member[c] = s /\ Connected(c)

=============================================================================
