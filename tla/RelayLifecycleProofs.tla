------------------------ MODULE RelayLifecycleProofs ------------------------
(***************************************************************************)
(* Proofs about the sessions of a relay, for any sets of ids, tokens and   *)
(* connections, any capacity and any ttl.                                  *)
(***************************************************************************)
EXTENDS RelayLifecycle, FiniteSetTheorems, TLAPS

\* The sessions of a map of sessions.
LiveIn(ss) == {s \in Sessions : ss[s] # None}

(* Making room and sweeping only take sessions away. *)
LEMMA SweptShrinks ==
  ASSUME TypeOK
  PROVE  /\ Swept \in [Sessions -> Session \cup {None}]
         /\ MakeRoom \in [Sessions -> Session \cup {None}]
         /\ \A s \in Sessions : Swept[s] \in {sessions[s], None}
         /\ \A s \in Sessions : MakeRoom[s] \in {sessions[s], None}
         /\ \A s \in Sessions : MakeRoom[s] # sessions[s] => Expired(s)
         /\ \A s \in Sessions : Swept[s] # sessions[s] => Expired(s)
BY DEF Swept, MakeRoom, TypeOK

LEMMA BornType ==
  ASSUME TypeOK, births < MaxBirths, NEW given \in Token \cup {None}
  PROVE  Born(given) \in Session /\ births + 1 \in 0 .. MaxBirths
<1>1. births + 1 \in 1 .. MaxBirths
  BY LifecycleConstants DEF TypeOK
<1>2. (IF given = None THEN [uuid |-> births + 1] ELSE given) \in Token
  BY <1>1 DEF Token, Uuid
<1>3. 0 \in 0 .. Ttl + 1
  BY LifecycleConstants
<1> QED BY <1>1, <1>2, <1>3 DEF Born, Session

LEMMA TouchedType ==
  ASSUME NEW session \in Session, NEW named \in BOOLEAN
  PROVE  /\ Touched(session, named) \in Session
         /\ Touched(session, named).clients = session.clients
         /\ Touched(session, named).birth = session.birth
         /\ Touched(session, named).token = session.token
<1>1. 0 \in 0 .. Ttl + 1
  BY LifecycleConstants
<1>2. PICK x \in Session : x = [session EXCEPT !.idle = 0]
  BY <1>1 DEF Session
<1>3. PICK y \in Session : y = [x EXCEPT !.named = named]
  BY DEF Session
<1>4. /\ x.clients = session.clients /\ x.birth = session.birth /\ x.token = session.token
  BY <1>2 DEF Session
<1>5. /\ y.clients = x.clients /\ y.birth = x.birth /\ y.token = x.token
  BY <1>3 DEF Session
<1>6. y = Touched(session, named)
  BY <1>2, <1>3 DEF Touched
<1> QED BY <1>4, <1>5, <1>6

LEMMA TypeOKStep == TypeOK /\ [Next]_vars => TypeOK'
<1> SUFFICES ASSUME TypeOK, [Next]_vars PROVE TypeOK'
  OBVIOUS
<1>1. ASSUME NEW c \in Conns, NEW s \in Sessions, NEW given \in Token \cup {None},
             NEW agent \in BOOLEAN, Join(c, s, given, agent)
      PROVE  TypeOK'
  <2>1. sessions[s] \in Session /\ given \in Token
    BY <1>1 DEF Join, Admits, TypeOK, Session
  <2>2. [sessions[s] EXCEPT !.clients = @ \cup {c}] \in Session
    BY <2>1 DEF Session
  <2>3. sessions' \in [Sessions -> Session \cup {None}]
    BY <1>1, <2>2 DEF Join, TypeOK
  <2>4. [birth |-> sessions[s].birth, token |-> given]
          \in [birth : 1 .. MaxBirths, token : Token]
    BY <2>1 DEF Session
  <2> QED BY <1>1, <2>3, <2>4 DEF Join, Enter, TypeOK
<1>2. ASSUME NEW c \in Conns, NEW s \in Sessions, NEW given \in Token \cup {None},
             NEW agent \in BOOLEAN, Found(c, s, given, agent)
      PROVE  TypeOK'
  <2> DEFINE new == Born(given)
  <2>1. births < MaxBirths /\ births' = births + 1
    BY <1>2 DEF Found, Create
  <2>2. new \in Session /\ births' \in 0 .. MaxBirths
    BY <2>1, BornType
  <2> HIDE DEF new
  <2>3. [new EXCEPT !.clients = {c}] \in Session
    BY <2>2 DEF Session
  <2>4. sessions' \in [Sessions -> Session \cup {None}]
    BY <1>2, <2>2, <2>3, SweptShrinks DEF Found, Create, new
  <2>5. [birth |-> new.birth, token |-> new.token] \in [birth : 1 .. MaxBirths, token : Token]
    BY <2>2 DEF Session
  <2> QED BY <1>2, <2>2, <2>4, <2>5 DEF Found, Enter, TypeOK, new
<1>3. ASSUME NEW s \in Sessions, NEW given \in Token, NEW named \in BOOLEAN,
             HttpCall(s, given, named)
      PROVE  TypeOK'
  <2>1. sessions[s] \in Session
    BY <1>3 DEF HttpCall, Admits, TypeOK
  <2>2. Touched(sessions[s], named) \in Session
    BY <2>1, TouchedType
  <2> QED BY <1>3, <2>2 DEF HttpCall, TypeOK
<1>4. ASSUME NEW s \in Sessions, NEW given \in Token, NEW named \in BOOLEAN,
             HttpRegister(s, given, named)
      PROVE  TypeOK'
  <2>1. births < MaxBirths /\ births' = births + 1
    BY <1>4 DEF HttpRegister, Create
  <2>2. Born(given) \in Session /\ births' \in 0 .. MaxBirths
    BY <2>1, BornType
  <2>3. [Born(given) EXCEPT !.named = named] \in Session
    BY <2>2 DEF Session
  <2> QED BY <1>4, <2>2, <2>3, SweptShrinks DEF HttpRegister, Create, TypeOK
<1>5. ASSUME NEW c \in Conns, NEW active \in BOOLEAN, NEW named \in BOOLEAN,
             SocketCall(c, active, named)
      PROVE  TypeOK'
  <2>1. member[c] \in Sessions /\ sessions[member[c]] \in Session
    BY <1>5 DEF SocketCall, TypeOK
  <2>2. Touched(sessions[member[c]], named) \in Session
    BY <2>1, TouchedType
  <2>3. sessions' \in [Sessions -> Session \cup {None}]
    BY <1>5, <2>1, <2>2 DEF SocketCall, TypeOK
  <2> QED BY <1>5, <2>3 DEF SocketCall, TypeOK
<1>6. ASSUME NEW c \in Conns, Closing(c) PROVE TypeOK'
  BY <1>6 DEF Closing, TypeOK
<1>7. ASSUME NEW c \in Conns, Closed(c) PROVE TypeOK'
  <2>1. sessions' \in [Sessions -> Session \cup {None}]
    <3>1. CASE sessions[member[c]] # None
      <4>1. sessions' = [sessions EXCEPT ![member[c]].clients = @ \ {c}]
        BY <1>7, <3>1 DEF Closed
      <4>2. ASSUME member[c] \in Sessions
            PROVE  [sessions[member[c]] EXCEPT !.clients = @ \ {c}] \in Session
        BY <3>1, <4>2 DEF TypeOK, Session
      <4> QED BY <4>1, <4>2 DEF TypeOK
    <3>2. CASE sessions[member[c]] = None
      BY <1>7, <3>2 DEF Closed, TypeOK
    <3> QED BY <3>1, <3>2
  <2> QED BY <1>7, <2>1 DEF Closed, TypeOK
<1>8. ASSUME NEW s \in Sessions, Overflow(s) PROVE TypeOK'
  BY <1>8 DEF Overflow, TypeOK
<1>9. CASE Tick
  <2>1. ASSUME NEW s \in Sessions, sessions[s] # None, sessions[s].idle <= Ttl
        PROVE  [sessions[s] EXCEPT !.idle = @ + 1] \in Session
    BY <2>1, LifecycleConstants DEF TypeOK, Session
  <2> QED BY <1>9, <2>1 DEF Tick, TypeOK
<1>10. CASE Sweep
  BY <1>10, SweptShrinks DEF Sweep, TypeOK
<1>11. CASE UNCHANGED vars
  BY <1>11 DEF vars, TypeOK
<1> QED
  BY <1>1, <1>2, <1>3, <1>4, <1>5, <1>6, <1>7, <1>8, <1>9, <1>10, <1>11 DEF Next

(* The state of the relay has the types that the code gives it. *)
THEOREM TypeCorrect == Spec => []TypeOK
<1>1. Init => TypeOK
  BY LifecycleConstants DEF Init, TypeOK
<1> QED BY <1>1, TypeOKStep, PTL DEF Spec

-----------------------------------------------------------------------------
(* Capacity *)

LEMMA FewerSessions ==
  ASSUME NEW A, NEW B, A \subseteq B, B \subseteq Sessions,
         Cardinality(B) <= MaxSessions
  PROVE  Cardinality(A) <= MaxSessions
<1>1. IsFiniteSet(B)
  BY FS_Subset, LifecycleConstants
<1>2. IsFiniteSet(A) /\ Cardinality(A) <= Cardinality(B)
  BY <1>1, FS_Subset
<1>3. Cardinality(A) \in Nat /\ Cardinality(B) \in Nat
  BY <1>1, <1>2, FS_CardinalityType
<1> QED BY <1>2, <1>3, LifecycleConstants

LEMMA OneMoreSession ==
  ASSUME NEW A, NEW B, NEW s \in Sessions, A \subseteq B \cup {s}, B \subseteq Sessions,
         Cardinality(B) < MaxSessions
  PROVE  Cardinality(A) <= MaxSessions
<1>1. IsFiniteSet(B)
  BY FS_Subset, LifecycleConstants
<1>2. Cardinality(B) \in Nat
  BY <1>1, FS_CardinalityType
<1>3. Cardinality(B \cup {s}) \in {Cardinality(B), Cardinality(B) + 1}
  BY <1>1, FS_AddElement
<1>4. B \cup {s} \subseteq Sessions /\ Cardinality(B \cup {s}) \in Nat
  BY <1>1, FS_AddElement, FS_CardinalityType
<1>5. Cardinality(B \cup {s}) <= MaxSessions
  BY <1>2, <1>3, <1>4, LifecycleConstants
<1> QED BY <1>4, <1>5, FewerSessions

LEMMA CreateKeepsCapacity ==
  ASSUME TypeOK, HasRoom(MakeRoom), NEW s \in Sessions, NEW session, Create(s, session)
  PROVE  CapacityRespected'
<1>1. Cardinality(LiveIn(MakeRoom)) < MaxSessions
  BY DEF HasRoom, LiveIn
<1>2. Live' \subseteq LiveIn(MakeRoom) \cup {s}
  BY SweptShrinks DEF Create, Live, LiveIn
<1>3. LiveIn(MakeRoom) \subseteq Sessions
  BY DEF LiveIn
<1> QED BY <1>1, <1>2, <1>3, OneMoreSession DEF CapacityRespected

LEMMA CapacityStep == TypeOK /\ CapacityRespected /\ [Next]_vars => CapacityRespected'
<1> SUFFICES ASSUME TypeOK, CapacityRespected, [Next]_vars PROVE CapacityRespected'
  OBVIOUS
<1>1. ASSUME Live' \subseteq Live PROVE CapacityRespected'
  <2>1. Live \subseteq Sessions
    BY DEF Live
  <2> QED BY <1>1, <2>1, FewerSessions DEF CapacityRespected
<1>2. ASSUME NEW c \in Conns, NEW s \in Sessions, NEW given \in Token \cup {None},
             NEW agent \in BOOLEAN, Join(c, s, given, agent)
      PROVE  CapacityRespected'
  BY <1>1, <1>2 DEF Join, Admits, Live, TypeOK
<1>3. ASSUME NEW c \in Conns, NEW s \in Sessions, NEW given \in Token \cup {None},
             NEW agent \in BOOLEAN, Found(c, s, given, agent)
      PROVE  CapacityRespected'
  <2>1. PICK session : Create(s, session)
    BY <1>3 DEF Found
  <2> QED BY <1>3, <2>1, CreateKeepsCapacity DEF Found
<1>4. ASSUME NEW s \in Sessions, NEW given \in Token, NEW named \in BOOLEAN,
             HttpCall(s, given, named)
      PROVE  CapacityRespected'
  BY <1>1, <1>4 DEF HttpCall, Admits, Live, TypeOK
<1>5. ASSUME NEW s \in Sessions, NEW given \in Token, NEW named \in BOOLEAN,
             HttpRegister(s, given, named)
      PROVE  CapacityRespected'
  <2>1. PICK session : Create(s, session)
    BY <1>5 DEF HttpRegister
  <2> QED BY <1>5, <2>1, CreateKeepsCapacity DEF HttpRegister
<1>6. ASSUME NEW c \in Conns, NEW active \in BOOLEAN, NEW named \in BOOLEAN,
             SocketCall(c, active, named)
      PROVE  CapacityRespected'
  BY <1>1, <1>6 DEF SocketCall, Live, TypeOK
<1>7. ASSUME NEW c \in Conns, Closing(c) \/ Closed(c) PROVE CapacityRespected'
  BY <1>1, <1>7 DEF Closing, Closed, Live, TypeOK
<1>8. ASSUME NEW s \in Sessions, Overflow(s) PROVE CapacityRespected'
  BY <1>1, <1>8 DEF Overflow, Live
<1>9. CASE Tick
  BY <1>1, <1>9 DEF Tick, Live
<1>10. CASE Sweep
  BY <1>1, <1>10, SweptShrinks DEF Sweep, Live
<1>11. CASE UNCHANGED vars
  BY <1>1, <1>11 DEF vars, Live
<1> QED
  BY <1>2, <1>3, <1>4, <1>5, <1>6, <1>7, <1>8, <1>9, <1>10, <1>11 DEF Next

(* The relay never holds more sessions than it has been given room for: room *)
(* is made, and looked for again, before every createSession.               *)
THEOREM CapacitySafe == Spec => []CapacityRespected
<1>1. Init => CapacityRespected
  <2> SUFFICES ASSUME Init PROVE Cardinality(Live) <= MaxSessions
    BY DEF CapacityRespected
  <2>1. Live = {}
    BY DEF Init, Live
  <2> QED BY <2>1, FS_EmptySet, LifecycleConstants
<1> QED BY <1>1, CapacityStep, TypeCorrect, PTL DEF Spec

-----------------------------------------------------------------------------
(* Sockets and clients *)

SocketInv == SocketsInTheirSession /\ ClientsExact

(* A session that expires has no socket, and a session with a socket is not *)
(* taken away.                                                              *)
LEMMA ExpiredAlone ==
  ASSUME TypeOK, SocketInv
  PROVE  /\ \A s \in Sessions, c \in Conns : Expired(s) /\ member[c] = s => ~Connected(c)
         /\ \A c \in Conns : Connected(c) =>
              /\ Swept[member[c]] = sessions[member[c]]
              /\ MakeRoom[member[c]] = sessions[member[c]]
<1>1. \A s \in Sessions, c \in Conns : Expired(s) /\ member[c] = s => ~Connected(c)
  BY DEF Expired, SocketInv, ClientsExact, Live
<1>2. \A c \in Conns : Connected(c) => member[c] \in Sessions /\ ~Expired(member[c])
  BY <1>1 DEF SocketInv, SocketsInTheirSession, TypeOK
<1> QED BY <1>1, <1>2, SweptShrinks

(* A new session starts with the sockets that enter it, none or the founder. *)
LEMMA CreateKeepsSockets ==
  ASSUME TypeOK, SocketInv, NEW s \in Sessions, sessions[s] = None,
         NEW session \in Session, session.clients = {}, Create(s, session),
         readyState' = readyState, member' = member, joined' = joined
  PROVE  SocketInv'
<1>1. sessions'[s] = session /\ \A t \in Sessions \ {s} : sessions'[t] = MakeRoom[t]
  BY SweptShrinks DEF Create
<1>2. \A c \in Conns : Connected(c)' <=> Connected(c)
  BY DEF Connected
<1>3. \A c \in Conns : Connected(c) =>
        member[c] \in Sessions \ {s} /\ MakeRoom[member[c]] = sessions[member[c]]
  BY ExpiredAlone DEF SocketInv, SocketsInTheirSession, TypeOK
<1>4. \A c \in Conns : Connected(c) => sessions'[member[c]] = sessions[member[c]]
  BY <1>1, <1>3
<1>5. SocketsInTheirSession'
  BY <1>2, <1>4 DEF SocketInv, SocketsInTheirSession
<1>6. ASSUME NEW t \in Sessions, sessions'[t] # None, NEW c \in Conns
      PROVE  c \in sessions'[t].clients <=> Connected(c)' /\ member'[c] = t
  <2>1. CASE t = s
    BY <1>1, <1>2, <1>3, <2>1
  <2>2. CASE t # s
    <3>1. sessions'[t] = sessions[t]
      BY <1>1, <1>6, <2>2, SweptShrinks
    <3> QED BY <1>2, <1>6, <3>1 DEF SocketInv, ClientsExact, Live
  <2> QED BY <2>1, <2>2
<1>7. ClientsExact'
  BY <1>6 DEF ClientsExact, Live
<1> QED BY <1>5, <1>7 DEF SocketInv

LEMMA FoundKeepsSockets ==
  ASSUME TypeOK, SocketInv, NEW s \in Sessions, sessions[s] = None,
         NEW new \in Session, NEW d \in Conns, readyState[d] = "NEW",
         Create(s, [new EXCEPT !.clients = {d}]), Enter(d, s, new.birth, new.token)
  PROVE  SocketInv'
<1>1. /\ sessions'[s] = [new EXCEPT !.clients = {d}]
      /\ \A t \in Sessions \ {s} : sessions'[t] = MakeRoom[t]
  BY SweptShrinks DEF Create
<1>2. /\ sessions'[s].clients = {d} /\ sessions'[s].birth = new.birth
      /\ sessions'[s].token = new.token
  BY <1>1 DEF Session
<1>3. [new EXCEPT !.clients = {d}] \in Session
  BY DEF Session
<1>4. sessions'[s] # None
  BY <1>1, <1>3, LifecycleConstants
<1>5. /\ ~Connected(d) /\ Connected(d)' /\ member'[d] = s
      /\ joined'[d] = [birth |-> new.birth, token |-> new.token]
      /\ \A c \in Conns \ {d} : (Connected(c)' <=> Connected(c))
                                /\ member'[c] = member[c] /\ joined'[c] = joined[c]
  BY DEF Enter, Connected, TypeOK
<1>6. \A c \in Conns : Connected(c) =>
        member[c] \in Sessions \ {s} /\ MakeRoom[member[c]] = sessions[member[c]]
  BY ExpiredAlone DEF SocketInv, SocketsInTheirSession, TypeOK
<1>7. \A c \in Conns : Connected(c) => sessions'[member[c]] = sessions[member[c]]
  BY <1>1, <1>6
<1>8. ASSUME NEW c \in Conns, Connected(c)'
      PROVE  /\ member'[c] # None /\ sessions'[member'[c]] # None
             /\ sessions'[member'[c]].birth = joined'[c].birth
             /\ sessions'[member'[c]].token = joined'[c].token
  <2>1. CASE c = d
    BY <1>2, <1>4, <1>5, <2>1, LifecycleConstants DEF TypeOK, Live, SocketInv, Token
  <2>2. CASE c # d
    BY <1>5, <1>7, <1>8, <2>2 DEF SocketInv, SocketsInTheirSession
  <2> QED BY <2>1, <2>2
<1>9. ASSUME NEW t \in Sessions, sessions'[t] # None, NEW c \in Conns
      PROVE  c \in sessions'[t].clients <=> Connected(c)' /\ member'[c] = t
  <2>1. CASE t = s
    BY <1>2, <1>5, <1>6, <2>1
  <2>2. CASE t # s
    <3>1. sessions'[t] = sessions[t]
      BY <1>1, <1>9, <2>2, SweptShrinks
    <3>2. c \in sessions[t].clients <=> Connected(c) /\ member[c] = t
      BY <1>9, <3>1 DEF SocketInv, ClientsExact, Live
    <3> QED BY <1>5, <2>2, <3>1, <3>2
  <2> QED BY <2>1, <2>2
<1> QED BY <1>8, <1>9 DEF SocketInv, SocketsInTheirSession, ClientsExact, Live

(* Steps that leave the sockets alone and sessions where they are. *)
LEMMA QuietKeepsSockets ==
  ASSUME TypeOK, SocketInv, UNCHANGED <<member, joined>>,
         \A c \in Conns : Connected(c)' <=> Connected(c),
         \A s \in Sessions : (sessions'[s] = None <=> sessions[s] = None) \/ Expired(s),
         \A s \in Live : sessions'[s] # None =>
            /\ sessions'[s].clients = sessions[s].clients
            /\ sessions'[s].birth = sessions[s].birth
            /\ sessions'[s].token = sessions[s].token
         , \A s \in Sessions : sessions[s] = None => sessions'[s] = None
  PROVE  SocketInv'
<1>1. \A c \in Conns : Connected(c) => member[c] \in Live /\ sessions'[member[c]] # None
  <2>1. \A c \in Conns : Connected(c) => member[c] \in Live
    BY DEF SocketInv, SocketsInTheirSession, TypeOK, Live
  <2>2. \A c \in Conns : Connected(c) => ~Expired(member[c])
    BY <2>1, ExpiredAlone DEF Live
  <2> QED BY <2>1, <2>2 DEF Live
<1>2. SocketsInTheirSession'
  BY <1>1 DEF SocketInv, SocketsInTheirSession
<1>3. ClientsExact'
  BY DEF SocketInv, ClientsExact, Live
<1> QED BY <1>2, <1>3 DEF SocketInv

LEMMA SocketStep == TypeOK /\ SocketInv /\ [Next]_vars => SocketInv'
<1> SUFFICES ASSUME TypeOK, SocketInv, [Next]_vars PROVE SocketInv'
  OBVIOUS
<1>1. ASSUME NEW d \in Conns, NEW s \in Sessions, NEW given \in Token \cup {None},
             NEW agent \in BOOLEAN, Join(d, s, given, agent)
      PROVE  SocketInv'
  <2>1. s \in Live /\ sessions[s] \in Session /\ sessions[s].token = given
    BY <1>1 DEF Join, Admits, Live, TypeOK
  <2>2. /\ sessions'[s] = [sessions[s] EXCEPT !.clients = @ \cup {d}]
        /\ \A t \in Sessions \ {s} : sessions'[t] = sessions[t]
    BY <1>1 DEF Join, TypeOK
  <2>3. /\ sessions'[s] # None
        /\ sessions'[s].clients = sessions[s].clients \cup {d}
        /\ sessions'[s].birth = sessions[s].birth
        /\ sessions'[s].token = given
    <3>1. [sessions[s] EXCEPT !.clients = @ \cup {d}] \in Session
      BY <2>1 DEF Session
    <3> QED BY <2>1, <2>2, <3>1, LifecycleConstants DEF Session
  <2>4. /\ ~Connected(d) /\ Connected(d)' /\ member'[d] = s
        /\ joined'[d] = [birth |-> sessions[s].birth, token |-> given]
        /\ \A c \in Conns \ {d} : (Connected(c)' <=> Connected(c))
                                  /\ member'[c] = member[c] /\ joined'[c] = joined[c]
    BY <1>1 DEF Join, Enter, Connected, TypeOK
  <2>5. ASSUME NEW c \in Conns, Connected(c)'
        PROVE  /\ member'[c] # None /\ sessions'[member'[c]] # None
               /\ sessions'[member'[c]].birth = joined'[c].birth
               /\ sessions'[member'[c]].token = joined'[c].token
    <3>1. CASE c = d
      BY <2>1, <2>3, <2>4, <3>1, LifecycleConstants
    <3>2. CASE c # d
      <4>1. /\ member[c] \in Sessions /\ sessions[member[c]] # None
            /\ sessions[member[c]].birth = joined[c].birth
            /\ sessions[member[c]].token = joined[c].token
        BY <2>4, <2>5, <3>2 DEF SocketInv, SocketsInTheirSession, TypeOK
      <4>2. member'[c] = member[c] /\ joined'[c] = joined[c]
        BY <2>4, <3>2
      <4>3. /\ sessions'[member[c]] # None
            /\ sessions'[member[c]].birth = sessions[member[c]].birth
            /\ sessions'[member[c]].token = sessions[member[c]].token
        BY <2>1, <2>2, <2>3, <4>1
      <4> QED BY <4>1, <4>2, <4>3, LifecycleConstants
    <3> QED BY <3>1, <3>2
  <2>6. ASSUME NEW t \in Sessions, sessions'[t] # None, NEW c \in Conns
        PROVE  c \in sessions'[t].clients <=> Connected(c)' /\ member'[c] = t
    <3>1. CASE t = s
      BY <2>1, <2>3, <2>4, <3>1 DEF SocketInv, ClientsExact
    <3>2. CASE t # s
      <4>1. c \in sessions[t].clients <=> Connected(c) /\ member[c] = t
        BY <2>2, <2>6, <3>2 DEF SocketInv, ClientsExact, Live
      <4> QED BY <2>1, <2>2, <2>4, <3>2, <4>1
    <3> QED BY <3>1, <3>2
  <2> QED BY <2>5, <2>6 DEF SocketInv, SocketsInTheirSession, ClientsExact, Live
<1>2. ASSUME NEW d \in Conns, NEW s \in Sessions, NEW given \in Token \cup {None},
             NEW agent \in BOOLEAN, Found(d, s, given, agent)
      PROVE  SocketInv'
  <2>1. PICK new : new = Born(given)
    OBVIOUS
  <2>2. new \in Session /\ new.clients = {}
    BY <1>2, <2>1, BornType DEF Found, Create, Born
  <2>3. CASE agent
    <3>1. Create(s, new) /\ UNCHANGED <<readyState, member, joined>>
      BY <1>2, <2>1, <2>3 DEF Found
    <3> QED BY <1>2, <2>2, <3>1, CreateKeepsSockets DEF Found
  <2>4. CASE ~agent
    <3>1. Create(s, [new EXCEPT !.clients = {d}]) /\ Enter(d, s, new.birth, new.token)
      BY <1>2, <2>1, <2>4 DEF Found
    <3> QED BY <1>2, <2>2, <3>1, FoundKeepsSockets DEF Found
  <2> QED BY <2>3, <2>4
<1>3. ASSUME NEW s \in Sessions, NEW given \in Token, NEW named \in BOOLEAN,
             HttpCall(s, given, named)
      PROVE  SocketInv'
  <2>1. s \in Live /\ sessions[s] \in Session
    BY <1>3 DEF HttpCall, Admits, Live, TypeOK
  <2>2. /\ sessions'[s] \in Session
        /\ sessions'[s].clients = sessions[s].clients
        /\ sessions'[s].birth = sessions[s].birth
        /\ sessions'[s].token = sessions[s].token
        /\ \A t \in Sessions \ {s} : sessions'[t] = sessions[t]
    <3>1. sessions'[s] = Touched(sessions[s], named)
      BY <1>3, <2>1 DEF HttpCall, Live, TypeOK
    <3> QED BY <1>3, <2>1, <3>1, TouchedType DEF HttpCall, TypeOK
  <2> QED BY <1>3, <2>1, <2>2, QuietKeepsSockets, LifecycleConstants
       DEF HttpCall, Live, Connected
<1>4. ASSUME NEW s \in Sessions, NEW given \in Token, NEW named \in BOOLEAN,
             HttpRegister(s, given, named)
      PROVE  SocketInv'
  <2>1. PICK new : new = [Born(given) EXCEPT !.named = named]
    OBVIOUS
  <2>2. Born(given) \in Session /\ Born(given).clients = {}
    BY <1>4, BornType DEF HttpRegister, Create, Born
  <2>3. new \in Session /\ new.clients = {}
    BY <2>1, <2>2 DEF Session
  <2> QED BY <1>4, <2>1, <2>3, CreateKeepsSockets DEF HttpRegister
<1>5. ASSUME NEW d \in Conns, NEW active \in BOOLEAN, NEW named \in BOOLEAN,
             SocketCall(d, active, named)
      PROVE  SocketInv'
  <2>1. PICK s \in Sessions : s = member[d] /\ s \in Live /\ sessions[s] \in Session
    BY <1>5 DEF SocketCall, Live, TypeOK
  <2>2. /\ sessions'[s] \in {sessions[s], Touched(sessions[s], named)}
        /\ \A t \in Sessions \ {s} : sessions'[t] = sessions[t]
    BY <1>5, <2>1 DEF SocketCall, TypeOK
  <2>3. /\ sessions'[s] \in Session
        /\ sessions'[s].clients = sessions[s].clients
        /\ sessions'[s].birth = sessions[s].birth
        /\ sessions'[s].token = sessions[s].token
    BY <2>1, <2>2, TouchedType
  <2>4. sessions'[s] # None
    BY <2>3, LifecycleConstants
  <2> QED BY <1>5, <2>1, <2>2, <2>3, <2>4, QuietKeepsSockets DEF SocketCall, Live, Connected
<1>6. ASSUME NEW d \in Conns, Closing(d) PROVE SocketInv'
  BY <1>6, QuietKeepsSockets DEF Closing, Connected, Live, TypeOK
<1>7. ASSUME NEW d \in Conns, Closed(d) PROVE SocketInv'
  <2>1. PICK s \in Sessions : s = member[d] /\ s \in Live /\ sessions[s] \in Session
    BY <1>7 DEF Closed, Connected, SocketInv, SocketsInTheirSession, Live, TypeOK
  <2>2. /\ sessions'[s] = [sessions[s] EXCEPT !.clients = @ \ {d}]
        /\ \A t \in Sessions \ {s} : sessions'[t] = sessions[t]
    BY <1>7, <2>1 DEF Closed, Live, TypeOK
  <2>3. /\ sessions'[s] # None
        /\ sessions'[s].clients = sessions[s].clients \ {d}
        /\ sessions'[s].birth = sessions[s].birth
        /\ sessions'[s].token = sessions[s].token
    <3>1. [sessions[s] EXCEPT !.clients = @ \ {d}] \in Session
      BY <2>1 DEF Session
    <3> QED BY <2>1, <2>2, <3>1, LifecycleConstants DEF Session
  <2>4. /\ ~Connected(d)' /\ UNCHANGED <<member, joined>>
        /\ \A c \in Conns \ {d} : Connected(c)' <=> Connected(c)
    BY <1>7 DEF Closed, Connected, TypeOK
  <2>5. ASSUME NEW c \in Conns, Connected(c)'
        PROVE  /\ member'[c] # None /\ sessions'[member'[c]] # None
               /\ sessions'[member'[c]].birth = joined'[c].birth
               /\ sessions'[member'[c]].token = joined'[c].token
    <3>1. Connected(c) /\ member'[c] = member[c] /\ joined'[c] = joined[c]
      BY <2>4, <2>5
    <3>2. /\ member[c] \in Sessions /\ sessions[member[c]] # None
          /\ sessions[member[c]].birth = joined[c].birth
          /\ sessions[member[c]].token = joined[c].token
      BY <3>1 DEF SocketInv, SocketsInTheirSession, TypeOK
    <3> QED BY <2>2, <2>3, <3>1, <3>2, LifecycleConstants
  <2>6. ASSUME NEW t \in Sessions, sessions'[t] # None, NEW c \in Conns
        PROVE  c \in sessions'[t].clients <=> Connected(c)' /\ member'[c] = t
    <3>1. CASE t = s
      BY <2>1, <2>3, <2>4, <3>1 DEF SocketInv, ClientsExact
    <3>2. CASE t # s
      <4>1. c \in sessions[t].clients <=> Connected(c) /\ member[c] = t
        BY <2>2, <2>6, <3>2 DEF SocketInv, ClientsExact, Live
      <4> QED BY <2>1, <2>2, <2>4, <3>2, <4>1
    <3> QED BY <3>1, <3>2
  <2> QED BY <2>5, <2>6 DEF SocketInv, SocketsInTheirSession, ClientsExact, Live
<1>8. ASSUME NEW s \in Sessions, Overflow(s) PROVE SocketInv'
  BY <1>8 DEF Overflow, SocketInv, SocketsInTheirSession, ClientsExact, Live, Connected
<1>9. CASE Tick
  <2>1. ASSUME NEW s \in Live
        PROVE  /\ sessions'[s] # None
               /\ sessions'[s].clients = sessions[s].clients
               /\ sessions'[s].birth = sessions[s].birth
               /\ sessions'[s].token = sessions[s].token
    <3>1. sessions[s] \in Session /\ s \in Sessions
      BY DEF Live, TypeOK
    <3>2. sessions'[s] = IF sessions[s].idle <= Ttl
                         THEN [sessions[s] EXCEPT !.idle = @ + 1] ELSE sessions[s]
      BY <1>9, <3>1 DEF Tick, Live
    <3>3. sessions'[s] # None
      BY <1>9, <3>1, <3>2, TypeOKStep, LifecycleConstants DEF Tick, TypeOK, Session
    <3> QED BY <3>1, <3>2, <3>3 DEF Session
  <2>2. \A s \in Sessions : sessions[s] = None => sessions'[s] = None
    BY <1>9 DEF Tick
  <2> QED BY <1>9, <2>1, <2>2, QuietKeepsSockets DEF Tick, Live, Connected
<1>10. CASE Sweep
  BY <1>10, SweptShrinks, QuietKeepsSockets DEF Sweep, Connected, Live
<1>11. CASE UNCHANGED vars
  BY <1>11, QuietKeepsSockets DEF vars, Connected, Live
<1> QED
  BY <1>1, <1>2, <1>3, <1>4, <1>5, <1>6, <1>7, <1>8, <1>9, <1>10, <1>11 DEF Next

LEMMA SocketInvAlways == Spec => [](TypeOK /\ SocketInv)
<1>1. Init => SocketInv
  BY DEF Init, SocketInv, SocketsInTheirSession, ClientsExact, Connected, Live
<1> QED BY <1>1, SocketStep, TypeCorrect, PTL DEF Spec

(* The socket of a client acts on the session its token was checked against, *)
(* although its requests carry no token and the lookup is by id.             *)
THEOREM SocketsSafe == Spec => []SocketsInTheirSession
BY SocketInvAlways, PTL DEF SocketInv

(* The clients of a session are its connected sockets: a socket that closed  *)
(* keeps no session alive, one that is open keeps its session from the sweep. *)
THEOREM ClientsSafe == Spec => []ClientsExact
BY SocketInvAlways, PTL DEF SocketInv

-----------------------------------------------------------------------------
(* The end of a session *)

(* The relay ends a session, while it runs, only after its ttl and without   *)
(* any socket.                                                               *)
THEOREM EndsRightly == Spec => EndsOnlyWhenAbandoned
<1> DEFINE Ends == up' => \A s \in Live :
       (sessions'[s] = None \/ sessions'[s].birth # sessions[s].birth) =>
         /\ sessions[s].idle > Ttl
         /\ \A c \in Conns : member[c] = s => ~Connected(c)
<1>1. TypeOK /\ SocketInv /\ [Next]_vars => [Ends]_vars
  <2> SUFFICES ASSUME TypeOK, SocketInv, Next, up', NEW s \in Live,
                      sessions'[s] = None \/ sessions'[s].birth # sessions[s].birth
               PROVE  Expired(s)
    BY ExpiredAlone DEF Expired, Live
  <2>1. s \in Sessions /\ sessions[s] \in Session /\ sessions[s] # None
    BY DEF Live, TypeOK
  <2>2. TypeOK'
    BY TypeOKStep
  <2>3. ASSUME NEW t \in Sessions, NEW session, sessions[t] = None, Create(t, session)
        PROVE  Expired(s)
    BY <2>1, <2>3, SweptShrinks DEF Create
  <2>4. ASSUME NEW d \in Conns, NEW t \in Sessions, NEW given \in Token \cup {None},
               NEW agent \in BOOLEAN, Join(d, t, given, agent)
        PROVE  FALSE
    BY <2>1, <2>2, <2>4, LifecycleConstants DEF Join, TypeOK, Session
  <2>5. ASSUME NEW d \in Conns, NEW t \in Sessions, NEW given \in Token \cup {None},
               NEW agent \in BOOLEAN, Found(d, t, given, agent)
        PROVE  Expired(s)
    BY <2>3, <2>5 DEF Found
  <2>6. ASSUME NEW t \in Sessions, NEW given \in Token, NEW named \in BOOLEAN,
               HttpCall(t, given, named)
        PROVE  FALSE
    <3>1. sessions'[s] \in {sessions[s], Touched(sessions[s], named)}
      BY <2>1, <2>6 DEF HttpCall, TypeOK
    <3>2. sessions'[s] \in Session /\ sessions'[s].birth = sessions[s].birth
      BY <2>1, <3>1, TouchedType
    <3> QED BY <3>2, LifecycleConstants
  <2>7. ASSUME NEW t \in Sessions, NEW given \in Token, NEW named \in BOOLEAN,
               HttpRegister(t, given, named)
        PROVE  Expired(s)
    BY <2>3, <2>7 DEF HttpRegister
  <2>8. ASSUME NEW d \in Conns, NEW active \in BOOLEAN, NEW named \in BOOLEAN,
               SocketCall(d, active, named)
        PROVE  FALSE
    <3>1. sessions'[s] \in {sessions[s], Touched(sessions[s], named)}
      BY <2>1, <2>8 DEF SocketCall, TypeOK
    <3>2. sessions'[s] \in Session /\ sessions'[s].birth = sessions[s].birth
      BY <2>1, <3>1, TouchedType
    <3> QED BY <3>2, LifecycleConstants
  <2>9. ASSUME NEW d \in Conns, Closing(d) PROVE FALSE
    BY <2>1, <2>9 DEF Closing
  <2>10. ASSUME NEW d \in Conns, Closed(d) PROVE FALSE
    BY <2>1, <2>2, <2>10, LifecycleConstants DEF Closed, TypeOK, Session
  <2>11. ASSUME NEW t \in Sessions, Overflow(t) PROVE FALSE
    BY <2>11 DEF Overflow
  <2>12. CASE Tick
    <3>1. sessions'[s] = IF sessions[s].idle <= Ttl
                         THEN [sessions[s] EXCEPT !.idle = @ + 1] ELSE sessions[s]
      BY <2>1, <2>12 DEF Tick
    <3>2. sessions'[s].birth = sessions[s].birth
      BY <2>1, <3>1 DEF Session
    <3>3. sessions'[s] # None
      BY <2>1, <2>2, <3>1, LifecycleConstants DEF Session
    <3> QED BY <3>2, <3>3
  <2>13. CASE Sweep
    BY <2>1, <2>13, SweptShrinks DEF Sweep
  <2> QED
    BY <2>4, <2>5, <2>6, <2>7, <2>8, <2>9, <2>10, <2>11, <2>12, <2>13 DEF Next
<1> QED BY <1>1, SocketInvAlways, PTL DEF Spec, EndsOnlyWhenAbandoned

=============================================================================
