------------------------- MODULE AgentSessionProofs -------------------------
(***************************************************************************)
(* Proofs about an agent's session and its context, for any keys, calls    *)
(* and number of changes.                                                  *)
(***************************************************************************)
EXTENDS AgentSession, TLAPS

-----------------------------------------------------------------------------
(* Sequences *)

LEMMA AppendIs ==
  ASSUME NEW S, NEW s \in Seq(S), NEW e \in S
  PROVE  /\ Append(s, e) \in Seq(S)
         /\ Len(Append(s, e)) = Len(s) + 1
         /\ \A i \in 1 .. Len(s) : Append(s, e)[i] = s[i]
         /\ Append(s, e)[Len(s) + 1] = e
OBVIOUS

LEMMA TailIs ==
  ASSUME NEW S, NEW s \in Seq(S), s # <<>>
  PROVE  /\ Len(s) \in Nat \ {0} /\ Head(s) = s[1] /\ s[1] \in S
         /\ Tail(s) \in Seq(S)
         /\ Len(Tail(s)) = Len(s) - 1
         /\ \A i \in 1 .. Len(s) - 1 : Tail(s)[i] = s[i + 1]
OBVIOUS

LEMMA EmptyIs == \A S : <<>> \in Seq(S) /\ Len(<<>>) = 0
OBVIOUS

-----------------------------------------------------------------------------
(* Types *)

(* Only a request of the context has a key: the relay never looks up, or     *)
(* stores, a key that nobody named.                                          *)
KeyedRequests ==
  \A i \in 1 .. Len(toRelay) :
    toRelay[i].op \in {"get", "change"} => toRelay[i].key \in Keys

(* A key that was changed has a last change. *)
LastExists ==
  \A k \in Keys :
    \/ \A i \in 1 .. Len(log) : log[i].key # k
    \/ \E i \in 1 .. Len(log) :
         log[i].key = k /\ \A j \in 1 .. Len(log) : log[j].key = k => j <= i

TypeInv == TypeOK /\ KeyedRequests /\ LastExists

LEMMA LastChangeIs ==
  ASSUME log \in Seq(Change), LastExists, NEW k \in Keys
  PROVE  /\ LastChange(k) \in 0 .. Len(log)
         /\ LastChange(k) # 0 => log[LastChange(k)].key = k
         /\ \A i \in 1 .. Len(log) : log[i].key = k => i <= LastChange(k)
<1> DEFINE of == {i \in DOMAIN log : log[i].key = k}
<1>1. Len(log) \in Nat /\ DOMAIN log = 1 .. Len(log)
  OBVIOUS
<1>2. CASE of = {}
  BY <1>1, <1>2 DEF LastChange
<1>3. CASE of # {}
  <2>1. \E i \in of : \A j \in of : j <= i
    BY <1>1, <1>3 DEF LastExists
  <2>2. LastChange(k) \in of /\ \A j \in of : j <= LastChange(k)
    BY <1>3, <2>1 DEF LastChange
  <2> QED BY <1>1, <2>2
<1> QED BY <1>2, <1>3

(* One change more, of key k. *)
LEMMA ChangedIs ==
  ASSUME TypeOK, LastExists, NEW k \in Keys, NEW own \in BOOLEAN, Changed(k, own)
  PROVE  /\ Len(log) \in Nat /\ Len(log) + 1 \in 1 .. MaxChanges
         /\ log' \in Seq(Change) /\ Len(log') = Len(log) + 1
         /\ \A i \in 1 .. Len(log) : log'[i] = log[i]
         /\ log'[Len(log) + 1] = [key |-> k, own |-> own]
         /\ LastExists'
<1>1. log \in Seq(Change) /\ [key |-> k, own |-> own] \in Change
  BY DEF TypeOK, Change
<1>2. /\ log' \in Seq(Change) /\ Len(log') = Len(log) + 1
      /\ \A i \in 1 .. Len(log) : log'[i] = log[i]
      /\ log'[Len(log) + 1] = [key |-> k, own |-> own]
  BY <1>1, AppendIs DEF Changed
<1>3. Len(log) \in Nat
  BY <1>1
<1>4. ASSUME NEW x \in Keys
      PROVE  \/ \A i \in 1 .. Len(log') : log'[i].key # x
             \/ \E i \in 1 .. Len(log') :
                  log'[i].key = x /\ \A j \in 1 .. Len(log') : log'[j].key = x => j <= i
  <2>1. \A i \in 1 .. Len(log') : i = Len(log) + 1 \/ (i \in 1 .. Len(log) /\ log'[i] = log[i])
    BY <1>2, <1>3
  <2>2. CASE x = k
    BY <1>2, <1>3, <2>2
  <2>3. CASE x # k
    <3>1. log'[Len(log) + 1].key # x
      BY <1>2, <2>3
    <3>2. CASE \A i \in 1 .. Len(log) : log[i].key # x
      BY <2>1, <3>1, <3>2
    <3>3. ASSUME NEW i \in 1 .. Len(log), log[i].key = x,
                 \A j \in 1 .. Len(log) : log[j].key = x => j <= i
          PROVE  /\ i \in 1 .. Len(log') /\ log'[i].key = x
                 /\ \A j \in 1 .. Len(log') : log'[j].key = x => j <= i
      BY <1>2, <1>3, <2>1, <3>1, <3>3
    <3> QED BY <3>2, <3>3 DEF LastExists
  <2> QED BY <2>2, <2>3
<1>5. MaxChanges \in Nat
  BY AgentConstants
<1> QED BY <1>2, <1>3, <1>4, <1>5 DEF LastExists, Changed

LEMMA WriteType ==
  ASSUME TypeOK, NEW m \in Answer \cup Notice
  PROVE  Write(m) \in Seq(Answer \cup Notice)
BY DEF Write, Written, TypeOK

LEMMA ReplyType ==
  ASSUME TypeOK, NEW c \in Calls, NEW ok \in BOOLEAN, NEW n \in 0 .. MaxChanges, Reply(c, ok, n)
  PROVE  fromRelay' \in Seq(Answer \cup Notice)
BY WriteType DEF Reply, Answer

LEMMA WithoutType ==
  ASSUME TypeOK, NEW C
  PROVE  Without(C) \in [Calls -> Call \cup {Idle}]
BY DEF Without, TypeOK

LEMMA CutType ==
  ASSUME Cut
  PROVE  /\ link' = "closed" /\ toRelay' \in Seq(Request) /\ Len(toRelay') = 0
         /\ parked' \in SUBSET Calls /\ fromRelay' \in Seq(Answer \cup Notice)
BY EmptyIs DEF Cut

LEMMA CloseTransportType ==
  ASSUME TypeOK, CloseTransport
  PROVE  link' \in {"none", "closing", "closed"} /\ fromRelay' \in Seq(Answer \cup Notice)
BY EmptyIs DEF CloseTransport, TypeOK

LEMMA TypeInit == Init => TypeInv
<1> SUFFICES ASSUME Init PROVE TypeInv
  OBVIOUS
<1>1. MaxChanges \in Nat /\ NeverWatched \in 0 .. NeverWatched
  BY AgentConstants DEF NeverWatched
<1>2. log = <<>> /\ toRelay = <<>> /\ fromRelay = <<>>
  BY DEF Init
<1>3. TypeOK
  <2>1. /\ log \in Seq(Change) /\ Len(log) <= MaxChanges
        /\ toRelay \in Seq(Request) /\ fromRelay \in Seq(Answer \cup Notice)
    BY <1>1, <1>2, EmptyIs
  <2>2. /\ calls \in [Calls -> Call \cup {Idle}]
        /\ picture \in [Keys -> 0 .. MaxChanges]
    BY <1>1 DEF Init
  <2> QED BY <1>1, <2>1, <2>2 DEF Init, TypeOK
<1> QED BY <1>2, <1>3, EmptyIs DEF TypeInv, KeyedRequests, LastExists

(* What the relay does with the first request: the state of the store, and   *)
(* what it writes.                                                           *)
LEMMA ServeType ==
  ASSUME TypeInv, Serve
  PROVE  TypeInv'
<1> DEFINE r == Head(toRelay)
<1>0. /\ toRelay \in Seq(Request) /\ toRelay # <<>> /\ parked \in SUBSET Calls
      /\ log \in Seq(Change) /\ Len(log) <= MaxChanges /\ admitted \in BOOLEAN
      /\ fromRelay \in Seq(Answer \cup Notice)
  BY DEF TypeInv, TypeOK, Serve
<1>1. /\ r = toRelay[1] /\ r \in Request /\ 1 \in 1 .. Len(toRelay)
      /\ toRelay' = Tail(toRelay) /\ toRelay' \in Seq(Request)
      /\ Len(toRelay') = Len(toRelay) - 1
      /\ \A i \in 1 .. Len(toRelay) - 1 : toRelay'[i] = toRelay[i + 1]
  BY <1>0, TailIs DEF Serve
<1>2. r.id \in Calls /\ r.op \in Ops /\ (r.op \in {"get", "change"} => r.key \in Keys)
  BY <1>1 DEF TypeInv, KeyedRequests, Request
<1>3. KeyedRequests'
  <2>1. Len(toRelay) \in Nat
    BY <1>0
  <2>2. \A i \in 1 .. Len(toRelay) - 1 : i + 1 \in 1 .. Len(toRelay)
    BY <2>1
  <2> QED BY <1>1, <2>2 DEF TypeInv, KeyedRequests
<1>4. /\ log' \in Seq(Change) /\ Len(log') <= MaxChanges /\ LastExists'
      /\ fromRelay' \in Seq(Answer \cup Notice)
      /\ admitted' \in BOOLEAN /\ parked' \in SUBSET Calls
  <2>0. MaxChanges \in Nat /\ 0 \in 0 .. MaxChanges /\ Len(log) \in Nat
    BY <1>0, AgentConstants
  <2>1. CASE ServeAuth(r)
    <3>1. PICK ok \in BOOLEAN : admitted' = ok /\ Reply(r.id, ok, 0)
      BY <2>1 DEF ServeAuth
    <3>2. fromRelay' \in Seq(Answer \cup Notice)
      BY <1>2, <2>0, <3>1, ReplyType DEF TypeInv
    <3> QED BY <1>0, <2>1, <3>1, <3>2 DEF ServeAuth, TypeInv, LastExists
  <2>2. CASE ServeGet(r)
    <3>1. LastChange(r.key) \in 0 .. Len(log)
      BY <1>0, <1>2, <2>2, LastChangeIs DEF ServeGet, TypeInv
    <3>2. LastChange(r.key) \in 0 .. MaxChanges
      BY <1>0, <2>0, <3>1
    <3>3. Reply(r.id, TRUE, LastChange(r.key))
      BY <2>2 DEF ServeGet
    <3>4. fromRelay' \in Seq(Answer \cup Notice)
      BY <1>2, <3>2, <3>3, ReplyType DEF TypeInv
    <3> QED BY <1>0, <2>2, <3>4 DEF ServeGet, TypeInv, LastExists
  <2>3. CASE ServeChange(r)
    <3>1. Changed(r.key, TRUE) /\ Reply(r.id, TRUE, Len(log) + 1) /\ r.key \in Keys
      BY <1>2, <2>3 DEF ServeChange
    <3>2. /\ Len(log) + 1 \in 1 .. MaxChanges /\ log' \in Seq(Change)
          /\ Len(log') = Len(log) + 1 /\ LastExists'
      BY <3>1, ChangedIs DEF TypeInv
    <3>3. Len(log) + 1 \in 0 .. MaxChanges
      BY <3>2
    <3>4. fromRelay' \in Seq(Answer \cup Notice)
      BY <1>2, <3>1, <3>3, ReplyType DEF TypeInv
    <3> QED BY <1>0, <2>3, <3>2, <3>4 DEF ServeChange
  <2>4. CASE ServeOther(r)
    <3>1. fromRelay' \in Seq(Answer \cup Notice)
      <4>1. ASSUME NEW ok \in BOOLEAN, Reply(r.id, ok, 0)
            PROVE  fromRelay' \in Seq(Answer \cup Notice)
        BY <1>2, <2>0, <4>1, ReplyType DEF TypeInv
      <4> QED BY <1>0, <2>4, <4>1 DEF ServeOther
    <3> QED BY <1>0, <1>2, <2>4, <3>1 DEF ServeOther, TypeInv, LastExists
  <2> QED BY <2>1, <2>2, <2>3, <2>4 DEF Serve
<1> QED BY <1>1, <1>3, <1>4 DEF Serve, TypeInv, TypeOK

LEMMA ReceiveType ==
  ASSUME TypeInv, Receive
  PROVE  TypeInv'
<1> DEFINE m == Head(fromRelay)
<1>0. fromRelay \in Seq(Answer \cup Notice) /\ fromRelay # <<>> /\ calls \in [Calls -> Call \cup {Idle}]
      /\ picture \in [Keys -> 0 .. MaxChanges] /\ link = "open"
      /\ stage \in {"new", "auth", "ready", "closed", "failed", "down"}
  BY DEF TypeInv, TypeOK, Receive
<1>a. UNCHANGED <<since, sock, admitted, log, toRelay, parked>>
  BY DEF Receive, relay
<1>b. KeyedRequests' /\ LastExists'
  BY <1>a DEF TypeInv, KeyedRequests, LastExists
<1>1. m \in Answer \cup Notice /\ Tail(fromRelay) \in Seq(Answer \cup Notice)
  BY <1>0, TailIs
<1>2. m.change \in 0 .. MaxChanges
  BY <1>1, AgentConstants DEF Answer, Notice
<1>3. CASE ReceiveAnswer(m)
  <2>1. calls' \in [Calls -> Call \cup {Idle}]
    BY <1>3, WithoutType DEF ReceiveAnswer, TypeInv
  <2>2. picture' \in [Keys -> 0 .. MaxChanges]
    BY <1>0, <1>2, <1>3 DEF ReceiveAnswer
  <2>3. /\ stage' \in {"new", "auth", "ready", "closed", "failed", "down"}
    BY <1>0, <1>3 DEF ReceiveAnswer
  <2>4. link' \in {"none", "open", "closing", "closed"} /\ fromRelay' \in Seq(Answer \cup Notice)
    BY <1>0, <1>1, <1>3, CloseTransportType DEF ReceiveAnswer, TypeInv
  <2> QED BY <1>a, <1>b, <2>1, <2>2, <2>3, <2>4 DEF TypeInv, TypeOK
<1>4. CASE ReceiveNotice(m)
  <2>1. picture' \in [Keys -> 0 .. MaxChanges]
    BY <1>0, <1>2, <1>4 DEF ReceiveNotice
  <2>2. fromRelay' \in Seq(Answer \cup Notice)
    BY <1>1, <1>4 DEF ReceiveNotice
  <2>3. UNCHANGED <<stage, link, calls>>
    BY <1>4 DEF ReceiveNotice
  <2> QED BY <1>a, <1>b, <2>1, <2>2, <2>3 DEF TypeInv, TypeOK
<1> QED BY <1>3, <1>4 DEF Receive

LEMMA TypeStep == TypeInv /\ [Next]_vars => TypeInv'
<1> SUFFICES ASSUME TypeInv, [Next]_vars PROVE TypeInv'
  OBVIOUS
<1>0. TypeOK /\ KeyedRequests /\ LastExists
  BY DEF TypeInv
<1>1. ASSUME NEW k \in Keys, NEW own \in BOOLEAN, ChangeByOther(k, own)
      PROVE  TypeInv'
  <2>1. /\ Len(log) + 1 \in 1 .. MaxChanges /\ log' \in Seq(Change)
        /\ Len(log') = Len(log) + 1 /\ LastExists'
    BY <1>0, <1>1, ChangedIs DEF ChangeByOther
  <2>2. fromRelay' \in Seq(Answer \cup Notice)
    <3>1. [at |-> "changed", key |-> k, change |-> Len(log) + 1] \in Answer \cup Notice
      BY <2>1 DEF Notice
    <3> QED BY <1>0, <1>1, <3>1, WriteType DEF ChangeByOther, TypeOK
  <2> QED BY <1>0, <1>1, <2>1, <2>2 DEF ChangeByOther, TypeInv, TypeOK, KeyedRequests
<1>2. ASSUME NEW c \in Calls, NEW op \in Ops \ {"auth"}, NEW k \in Keys \cup {NoKey},
             CallRelay(c, op, k)
      PROVE  TypeInv'
  <2> DEFINE request == [id |-> c, op |-> op, key |-> k]
  <2>1. request \in Request /\ (op \in {"get", "change"} => k \in Keys)
    BY <1>2, AgentConstants DEF Request, Ops, CallRelay
  <2>2. toRelay \in Seq(Request)
    BY <1>0 DEF TypeOK
  <2>3. toRelay' \in Seq(Request) /\ KeyedRequests'
    <3>1. CASE toRelay' = Append(toRelay, request)
      <4>1. /\ Append(toRelay, request) \in Seq(Request)
            /\ Len(Append(toRelay, request)) = Len(toRelay) + 1
            /\ \A i \in 1 .. Len(toRelay) : Append(toRelay, request)[i] = toRelay[i]
            /\ Append(toRelay, request)[Len(toRelay) + 1] = request
        BY <2>1, <2>2, AppendIs
      <4>2. \A i \in 1 .. Len(toRelay') : i \in 1 .. Len(toRelay) \/ i = Len(toRelay) + 1
        BY <2>2, <3>1, <4>1
      <4> QED BY <1>0, <2>1, <3>1, <4>1, <4>2 DEF KeyedRequests
    <3>2. CASE toRelay' = toRelay
      BY <1>0, <2>2, <3>2 DEF KeyedRequests
    <3> QED BY <1>2, <3>1, <3>2 DEF CallRelay, Sent
  <2>4. calls' \in [Calls -> Call \cup {Idle}]
    <3>1. Entry(op, k, link # "closed") \in Call
      BY DEF Entry, Call
    <3> QED BY <1>0, <1>2, <3>1 DEF CallRelay, TypeOK
  <2> QED BY <1>0, <1>2, <2>3, <2>4 DEF CallRelay, TypeInv, TypeOK, LastExists, relay
<1>3. ASSUME NEW c \in Calls, Connect(c)
      PROVE  TypeInv'
  <2> DEFINE request == [id |-> c, op |-> "auth", key |-> NoKey]
  <2>1. request \in Request /\ Entry("auth", NoKey, TRUE) \in Call
    BY DEF Request, Ops, Entry, Call
  <2>2. toRelay' \in Seq(Request) /\ KeyedRequests'
    <3>1. /\ Append(<<>>, request) \in Seq(Request)
          /\ Len(Append(<<>>, request)) = 1 /\ Append(<<>>, request)[1] = request
      BY <2>1, EmptyIs, AppendIs
    <3>2. toRelay' = Append(<<>>, request)
      BY <1>3 DEF Connect
    <3> QED BY <3>1, <3>2 DEF KeyedRequests
  <2>3. calls' \in [Calls -> Call \cup {Idle}]
    BY <1>0, <1>3, <2>1 DEF Connect, TypeOK
  <2> QED BY <1>0, <1>3, <2>2, <2>3 DEF Connect, TypeInv, TypeOK, LastExists
<1>4. ASSUME NEW c \in Calls, Timeout(c)
      PROVE  TypeInv'
  <2>1. CASE Down
    BY <1>0, <1>4, <2>1, CutType, WithoutType DEF Timeout, Down, TypeInv, TypeOK, KeyedRequests, LastExists, relay
  <2>2. CASE ~Down
    <3>1. calls' \in [Calls -> Call \cup {Idle}]
      BY <1>0, <1>4, <2>2, WithoutType DEF Timeout
    <3>2. /\ link' \in {"none", "open", "closing", "closed"}
          /\ fromRelay' \in Seq(Answer \cup Notice)
          /\ stage' \in {"new", "auth", "ready", "closed", "failed", "down"}
      BY <1>0, <1>4, <2>2, CloseTransportType DEF Timeout, TypeOK
    <3> QED BY <1>0, <1>4, <2>2, <3>1, <3>2 DEF Timeout, TypeInv, TypeOK, KeyedRequests, LastExists, relay
  <2> QED BY <2>1, <2>2
<1>5. ASSUME NEW c \in Calls, Wake(c)
      PROVE  TypeInv'
  <2>1. fromRelay' \in Seq(Answer \cup Notice)
    <3>1. 0 \in 0 .. MaxChanges
      BY AgentConstants
    <3> QED BY <1>0, <1>5, <3>1, ReplyType DEF Wake
  <2> QED BY <1>0, <1>5, <2>1 DEF Wake, TypeInv, TypeOK, KeyedRequests, LastExists, relay
<1>6. CASE ConnectFails
  BY <1>0, <1>6 DEF ConnectFails, TypeInv, TypeOK, KeyedRequests, LastExists, relay, wires
<1>7. CASE Watch
  <2>1. since' \in 0 .. NeverWatched
    BY <1>0, <1>7, AgentConstants DEF Watch, TypeOK, NeverWatched
  <2> QED BY <1>0, <1>7, <2>1 DEF Watch, TypeInv, TypeOK, KeyedRequests, LastExists, relay, wires
<1>8. CASE Close
  <2>1. CASE Down
    BY <1>0, <1>8, <2>1, CutType, WithoutType DEF Close, Down, TypeInv, TypeOK, KeyedRequests, LastExists, relay
  <2>2. CASE ~Down
    BY <1>0, <1>8, <2>2, CloseTransportType, WithoutType DEF Close, TypeInv, TypeOK, KeyedRequests, LastExists, relay
  <2> QED BY <2>1, <2>2
<1>9. CASE LinkCloses
  BY <1>0, <1>9, CutType DEF LinkCloses, TypeInv, TypeOK, KeyedRequests, LastExists, relay
<1>10. CASE SockCloses
  <2>1. toRelay' \in Seq(Request) /\ KeyedRequests'
    <3>1. toRelay' = <<>>
      BY <1>10 DEF SockCloses
    <3> QED BY <3>1, EmptyIs DEF KeyedRequests
  <2> QED BY <1>0, <1>10, <2>1 DEF SockCloses, TypeInv, TypeOK, LastExists
<1>11. CASE UNCHANGED vars
  BY <1>0, <1>11 DEF vars, relay, wires, TypeInv, TypeOK, KeyedRequests, LastExists
<1> QED BY <1>1, <1>2, <1>3, <1>4, <1>5, <1>6, <1>7, <1>8, <1>9, <1>10, <1>11, ServeType, ReceiveType DEF Next

LEMMA TypeInvAlways == Spec => []TypeInv
BY TypeInit, TypeStep, PTL DEF Spec

(* Every variable of the agent and the relay keeps its type: an answer always *)
(* holds a change that was made, a request of the context always has a key.  *)
THEOREM TypeCorrect == Spec => []TypeOK
<1>1. TypeInv => TypeOK
  BY DEF TypeInv
<1> QED BY <1>1, TypeInvAlways, PTL

-----------------------------------------------------------------------------
(* Steps on the wires *)

(* Sequence t is s with e after it. *)
Extends(s, t, e) ==
  Len(t) = Len(s) + 1 /\ (\A i \in 1 .. Len(s) : t[i] = s[i]) /\ t[Len(s) + 1] = e

LEMMA ExtendsIs ==
  ASSUME NEW S, NEW s \in Seq(S), NEW t, NEW e, Extends(s, t, e), NEW i \in 1 .. Len(t)
  PROVE  \/ i \in 1 .. Len(s) /\ t[i] = s[i]
         \/ i = Len(s) + 1 /\ t[i] = e
<1>1. Len(s) \in Nat
  OBVIOUS
<1> QED BY <1>1 DEF Extends

LEMMA WriteIs ==
  ASSUME TypeOK, NEW m \in Answer \cup Notice, fromRelay' = Write(m)
  PROVE  fromRelay' = fromRelay \/ (link = "open" /\ Extends(fromRelay, fromRelay', m))
<1>1. fromRelay \in Seq(Answer \cup Notice)
  BY DEF TypeOK
<1>2. /\ Len(Append(fromRelay, m)) = Len(fromRelay) + 1
      /\ \A i \in 1 .. Len(fromRelay) : Append(fromRelay, m)[i] = fromRelay[i]
      /\ Append(fromRelay, m)[Len(fromRelay) + 1] = m
  BY <1>1, AppendIs
<1> QED BY <1>2 DEF Write, Written, Extends

LEMMA ReplyIs ==
  ASSUME TypeOK, NEW c \in Calls, NEW ok \in BOOLEAN, NEW n \in 0 .. MaxChanges, Reply(c, ok, n)
  PROVE  \E m \in Answer :
           /\ m.at = "answer" /\ m.id = c /\ m.ok = ok /\ m.change = n
           /\ fromRelay' = fromRelay \/ (link = "open" /\ Extends(fromRelay, fromRelay', m))
<1> DEFINE m == [at |-> "answer", id |-> c, ok |-> ok, change |-> n]
<1>1. m \in Answer /\ m.at = "answer" /\ m.id = c /\ m.ok = ok /\ m.change = n
  BY DEF Answer
<1>2. fromRelay' = Write(m)
  BY DEF Reply
<1>3. fromRelay' = fromRelay \/ (link = "open" /\ Extends(fromRelay, fromRelay', m))
  BY <1>1, <1>2, WriteIs
<1> QED BY <1>1, <1>3

(* The first request is served and gone. *)
LEMMA ServeIs ==
  ASSUME TypeOK, Serve
  PROVE  /\ 1 \in 1 .. Len(toRelay) /\ Head(toRelay) = toRelay[1] /\ toRelay[1] \in Request
         /\ Len(toRelay) \in Nat /\ Len(toRelay') = Len(toRelay) - 1
         /\ \A i \in 1 .. Len(toRelay') :
              i + 1 \in 1 .. Len(toRelay) /\ toRelay'[i] = toRelay[i + 1]
<1>1. toRelay \in Seq(Request) /\ toRelay # <<>> /\ toRelay' = Tail(toRelay)
  BY DEF TypeOK, Serve
<1>2. /\ Len(toRelay) \in Nat \ {0} /\ Head(toRelay) = toRelay[1] /\ toRelay[1] \in Request
      /\ Len(toRelay') = Len(toRelay) - 1
      /\ \A i \in 1 .. Len(toRelay) - 1 : toRelay'[i] = toRelay[i + 1]
  BY <1>1, TailIs
<1> QED BY <1>2

(* The first message is read and gone, or all are. *)
LEMMA ReceiveIs ==
  ASSUME TypeOK, Receive
  PROVE  /\ 1 \in 1 .. Len(fromRelay) /\ Head(fromRelay) = fromRelay[1]
         /\ fromRelay[1] \in Answer \cup Notice /\ Len(fromRelay) \in Nat
         /\ \/ Len(fromRelay') = 0 /\ link' # "open"
            \/ /\ link' = link /\ Len(fromRelay') = Len(fromRelay) - 1
               /\ \A i \in 1 .. Len(fromRelay') :
                    i + 1 \in 1 .. Len(fromRelay) /\ fromRelay'[i] = fromRelay[i + 1]
<1>1. fromRelay \in Seq(Answer \cup Notice) /\ fromRelay # <<>>
  BY DEF TypeOK, Receive
<1>2. /\ Len(fromRelay) \in Nat \ {0} /\ Head(fromRelay) = fromRelay[1]
      /\ fromRelay[1] \in Answer \cup Notice
      /\ Len(Tail(fromRelay)) = Len(fromRelay) - 1
      /\ \A i \in 1 .. Len(fromRelay) - 1 : Tail(fromRelay)[i] = fromRelay[i + 1]
  BY <1>1, TailIs
<1>3. CASE fromRelay' = Tail(fromRelay) /\ link' = link
  BY <1>2, <1>3
<1>4. CASE CloseTransport
  BY <1>2, <1>4, EmptyIs DEF CloseTransport
<1> QED BY <1>3, <1>4 DEF Receive, ReceiveAnswer, ReceiveNotice

LEMMA DownIs ==
  ASSUME TypeOK, Down
  PROVE  /\ stage' = "down" /\ link' = "closed" /\ parked' = {}
         /\ Len(toRelay') = 0 /\ Len(fromRelay') = 0
         /\ \A c \in Calls : calls'[c] = Idle
BY EmptyIs DEF Down, Cut, Without

LEMMA WithoutIs ==
  ASSUME NEW C
  PROVE  \A c \in Calls : Without(C)[c] = IF c \in C THEN Idle ELSE calls[c]
BY DEF Without

-----------------------------------------------------------------------------
(* Who is who: the protocol between the agent and the relay *)

(* The entry of a request, where it is still there, is of the same call: a   *)
(* slot is not taken again before the relay has answered.                    *)
SameCall ==
  /\ \A i \in 1 .. Len(toRelay) :
       calls[toRelay[i].id] # Idle =>
         /\ calls[toRelay[i].id].op  = toRelay[i].op
         /\ calls[toRelay[i].id].key = toRelay[i].key
  /\ \A c \in parked : calls[c] # Idle => calls[c].op = "other"

(* Nothing happens on a connection before session.auth is answered. *)
AuthFirst ==
  /\ stage = "new" =>
       /\ since = NeverWatched /\ sock = "none" /\ ~admitted
       /\ Len(toRelay) = 0 /\ parked = {} /\ Len(fromRelay) = 0
  /\ \A i \in 1 .. Len(toRelay) :
       toRelay[i].op = "auth" =>
         /\ stage \in {"auth", "failed"} /\ since = NeverWatched /\ ~admitted
         /\ Len(toRelay) = 1 /\ parked = {} /\ Len(fromRelay) = 0

Authenticates(m) ==
  m.at = "answer" /\ m.ok /\ calls[m.id] # Idle /\ calls[m.id].op = "auth"

(* An agent that may watch is one of the clients, until its socket closes. *)
Admitted ==
  /\ admitted => sock = "open"
  /\ (since # NeverWatched \/ stage = "ready") => admitted \/ sock = "gone"
  /\ \A i \in 1 .. Len(fromRelay) :
       Authenticates(fromRelay[i]) => admitted \/ sock = "gone"

ProtocolInv == SameCall /\ AuthFirst /\ Admitted

-----------------------------------------------------------------------------
(* What an agent knows *)

(* Message m tells the agent something of key k. *)
About(m, k) ==
  \/ m.at = "changed" /\ m.key = k
  \/ /\ m.at = "answer" /\ calls[m.id] # Idle
     /\ calls[m.id].op \in {"get", "change"} /\ calls[m.id].key = k

(* What is told of a key is a change of that key, or that it has none. *)
Numbers ==
  /\ \A k \in Keys : picture[k] \in 0 .. Len(log) /\ (picture[k] # 0 => log[picture[k]].key = k)
  /\ \A i \in 1 .. Len(fromRelay) :
       /\ fromRelay[i].change \in 0 .. Len(log)
       /\ \A k \in Keys :
            About(fromRelay[i], k) /\ fromRelay[i].change # 0 => log[fromRelay[i].change].key = k

(* Of each key the agent learns in the order of the changes. *)
InOrder ==
  \A k \in Keys, i \in 1 .. Len(fromRelay) :
    About(fromRelay[i], k) =>
      /\ picture[k] <= fromRelay[i].change
      /\ \A j \in 1 .. Len(fromRelay) :
           i < j /\ About(fromRelay[j], k) => fromRelay[i].change <= fromRelay[j].change

(* Change i is known, or one of the first n messages tells of it. *)
Known(i, n) ==
  \/ i <= picture[log[i].key]
  \/ \E q \in 1 .. n : fromRelay[q].at = "changed" /\ fromRelay[q].change = i

(* All that others have changed is known or on its way. *)
Coming ==
  link = "open" /\ admitted =>
    \A i \in since + 1 .. Len(log) : ~log[i].own => Known(i, Len(fromRelay))

(* Whatever a message tells, the messages up to it tell of what was before. *)
Cuts ==
  \A p \in 1 .. Len(fromRelay) :
    \A i \in since + 1 .. fromRelay[p].change : ~log[i].own => Known(i, p)

PictureInv == Numbers /\ InOrder /\ Coming /\ Cuts /\ PictureConsistent

LEMMA ProtocolInit == Init => ProtocolInv
<1> SUFFICES ASSUME Init PROVE ProtocolInv
  OBVIOUS
<1>1. Len(toRelay) = 0 /\ Len(fromRelay) = 0
  BY EmptyIs DEF Init
<1> QED BY <1>1 DEF Init, ProtocolInv, SameCall, AuthFirst, Admitted

LEMMA ServeKeepsProtocol ==
  ASSUME TypeInv, ProtocolInv, Serve
  PROVE  ProtocolInv'
<1> DEFINE r == toRelay[1]
<1>0. /\ TypeOK /\ SameCall /\ AuthFirst /\ Admitted
      /\ calls' = calls /\ stage' = stage /\ since' = since /\ sock' = sock /\ sock = "open"
      /\ Head(toRelay) = r /\ r \in Request /\ Len(toRelay) \in Nat /\ Len(toRelay) >= 1
      /\ parked \in SUBSET Calls /\ admitted \in BOOLEAN
      /\ fromRelay \in Seq(Answer \cup Notice)
  BY ServeIs DEF TypeInv, ProtocolInv, Serve, TypeOK
<1>1. /\ Len(toRelay') = Len(toRelay) - 1
      /\ \A i \in 1 .. Len(toRelay') :
           i + 1 \in 1 .. Len(toRelay) /\ toRelay'[i] = toRelay[i + 1]
  BY <1>0, ServeIs
<1>2. r.id \in Calls /\ r.op \in Ops /\ 1 \in 1 .. Len(toRelay) /\ MaxChanges \in Nat
  BY <1>0, AgentConstants DEF Request
<1>3. stage # "new"
  BY <1>0 DEF AuthFirst
<1>4. calls[r.id] # Idle => calls[r.id].op = r.op
  BY <1>0, <1>2 DEF SameCall
<1>5. CASE ServeAuth(r)
  <2>1. PICK ok \in BOOLEAN : admitted' = ok /\ Reply(r.id, ok, 0)
    BY <1>5 DEF ServeAuth
  <2>2. PICK m \in Answer : /\ m.ok = ok
                            /\ fromRelay' = fromRelay \/ Extends(fromRelay, fromRelay', m)
    BY <1>0, <1>2, <2>1, ReplyIs
  <2>3. /\ stage \in {"auth", "failed"} /\ since = NeverWatched /\ ~admitted
        /\ Len(toRelay) = 1 /\ parked = {} /\ Len(fromRelay) = 0
    BY <1>0, <1>2, <1>5 DEF AuthFirst, ServeAuth
  <2>4. Len(toRelay') = 0 /\ parked' = {}
    BY <1>1, <1>5, <2>3 DEF ServeAuth
  <2>5. ASSUME NEW i \in 1 .. Len(fromRelay')
        PROVE  fromRelay'[i] = m
    <3>1. Extends(fromRelay, fromRelay', m)
      BY <2>2, <2>3
    <3>2. i \in 1 .. Len(fromRelay) \/ fromRelay'[i] = m
      BY <1>0, <3>1, ExtendsIs
    <3> QED BY <2>3, <3>2
  <2>6. Admitted'
    BY <1>0, <2>1, <2>2, <2>3, <2>5 DEF Admitted, Authenticates
  <2> QED BY <1>0, <1>3, <2>4, <2>6 DEF ProtocolInv, SameCall, AuthFirst
<1>6. CASE r.op # "auth"
  <2>1. ~ServeAuth(r) /\ admitted' = admitted
    BY <1>0, <1>6 DEF ServeAuth, ServeGet, ServeChange, ServeOther, Serve
  <2>2. \A i \in 1 .. Len(toRelay) : toRelay[i].op # "auth"
    BY <1>0, <1>2, <1>6 DEF AuthFirst
  <2>3. parked' = parked \/ (parked' = parked \cup {r.id} /\ r.op = "other")
    BY <1>0, <2>1 DEF ServeGet, ServeChange, ServeOther, Serve
  <2>4. SameCall'
    BY <1>0, <1>1, <1>4, <2>3 DEF SameCall
  <2>5. AuthFirst'
    BY <1>0, <1>1, <1>3, <2>2 DEF AuthFirst
  <2>6. \/ fromRelay' = fromRelay
        \/ \E m \in Answer : m.id = r.id /\ Extends(fromRelay, fromRelay', m)
    <3>1. \/ fromRelay' = fromRelay
          \/ \E ok \in BOOLEAN, n \in 0 .. MaxChanges : Reply(r.id, ok, n)
      <4>1. CASE ServeGet(r)
        <5>1. r.key \in Keys /\ log \in Seq(Change) /\ Len(log) <= MaxChanges /\ LastExists
          BY <1>0, <1>2, <4>1 DEF TypeInv, TypeOK, KeyedRequests, ServeGet
        <5>2. LastChange(r.key) \in 0 .. Len(log)
          BY <5>1, LastChangeIs
        <5>3. LastChange(r.key) \in 0 .. MaxChanges
          BY <1>2, <5>1, <5>2
        <5> QED BY <4>1, <5>3 DEF ServeGet
      <4>2. CASE ServeChange(r)
        <5>1. Len(log) + 1 \in 0 .. MaxChanges
          BY <1>0, <1>2, <4>2 DEF ServeChange, Changed, TypeOK
        <5> QED BY <4>2, <5>1 DEF ServeChange
      <4>3. CASE ServeOther(r)
        BY <1>2, <4>3 DEF ServeOther
      <4> QED BY <1>0, <2>1, <4>1, <4>2, <4>3 DEF Serve
    <3>2. ASSUME NEW ok \in BOOLEAN, NEW n \in 0 .. MaxChanges, Reply(r.id, ok, n)
          PROVE  \/ fromRelay' = fromRelay
                 \/ \E m \in Answer : m.id = r.id /\ Extends(fromRelay, fromRelay', m)
      BY <1>0, <1>2, <3>2, ReplyIs
    <3> QED BY <3>1, <3>2
  <2>7. Admitted'
    <3>1. ASSUME NEW i \in 1 .. Len(fromRelay'), Authenticates(fromRelay[i])'
          PROVE  admitted
      <4>1. CASE fromRelay' = fromRelay
        BY <1>0, <3>1, <4>1 DEF Admitted, Authenticates
      <4>2. ASSUME NEW m \in Answer, m.id = r.id, Extends(fromRelay, fromRelay', m)
            PROVE  admitted
        <5>1. CASE fromRelay'[i] = m
          BY <1>0, <1>4, <1>6, <3>1, <4>2, <5>1 DEF Authenticates
        <5>2. CASE i \in 1 .. Len(fromRelay) /\ fromRelay'[i] = fromRelay[i]
          BY <1>0, <3>1, <5>2 DEF Admitted, Authenticates
        <5> QED BY <1>0, <4>2, <5>1, <5>2, ExtendsIs
      <4> QED BY <2>6, <4>1, <4>2
    <3> QED BY <1>0, <2>1, <3>1 DEF Admitted
  <2> QED BY <2>4, <2>5, <2>7 DEF ProtocolInv
<1> QED BY <1>0, <1>5, <1>6 DEF Serve, ServeGet, ServeChange, ServeOther

LEMMA ReceiveKeepsProtocol ==
  ASSUME TypeInv, ProtocolInv, Receive
  PROVE  ProtocolInv'
<1> DEFINE m == fromRelay[1]
<1>0. /\ TypeOK /\ SameCall /\ AuthFirst /\ Admitted
      /\ toRelay' = toRelay /\ parked' = parked /\ since' = since
      /\ sock' = sock /\ admitted' = admitted
      /\ calls \in [Calls -> Call \cup {Idle}]
  BY DEF TypeInv, ProtocolInv, Receive, relay, TypeOK
<1>1. /\ 1 \in 1 .. Len(fromRelay) /\ Head(fromRelay) = m
      /\ m \in Answer \cup Notice /\ Len(fromRelay) \in Nat
      /\ \/ Len(fromRelay') = 0 /\ link' # "open"
         \/ /\ link' = link /\ Len(fromRelay') = Len(fromRelay) - 1
            /\ \A i \in 1 .. Len(fromRelay') :
                 i + 1 \in 1 .. Len(fromRelay) /\ fromRelay'[i] = fromRelay[i + 1]
  BY <1>0, ReceiveIs
<1>2. \A i \in 1 .. Len(fromRelay') : \E j \in 1 .. Len(fromRelay) : fromRelay'[i] = fromRelay[j]
  BY <1>1
<1>3. stage # "new" /\ \A i \in 1 .. Len(toRelay) : toRelay[i].op # "auth"
  BY <1>0, <1>1 DEF AuthFirst
<1>4. /\ \A c \in Calls : calls'[c] \in {calls[c], Idle}
      /\ stage' \in {stage, "failed"} \/ (stage' = "ready" /\ Authenticates(m))
  <2>1. CASE ReceiveAnswer(m)
    <3>1. \A c \in Calls : calls'[c] \in {calls[c], Idle}
      BY <2>1, WithoutIs DEF ReceiveAnswer
    <3>2. stage' \in {stage, "failed"} \/ (stage' = "ready" /\ Authenticates(m))
      BY <2>1 DEF ReceiveAnswer, Authenticates
    <3> QED BY <3>1, <3>2
  <2>2. CASE ReceiveNotice(m)
    BY <2>2 DEF ReceiveNotice
  <2> QED BY <1>1, <2>1, <2>2 DEF Receive
<1>5. \A i \in 1 .. Len(toRelay) : toRelay[i].id \in Calls
  <2>1. toRelay \in Seq(Request)
    BY <1>0 DEF TypeOK
  <2>2. \A i \in 1 .. Len(toRelay) : toRelay[i] \in Request
    BY <2>1
  <2> QED BY <2>2 DEF Request
<1>6. SameCall'
  BY <1>0, <1>4, <1>5 DEF SameCall, TypeOK
<1>7. AuthFirst'
  BY <1>0, <1>3, <1>4 DEF AuthFirst
<1>8. Admitted'
  <2>1. ASSUME NEW i \in 1 .. Len(fromRelay'), Authenticates(fromRelay[i])'
        PROVE  admitted \/ sock = "gone"
    <3>1. PICK j \in 1 .. Len(fromRelay) : fromRelay'[i] = fromRelay[j]
      BY <1>2
    <3>2. fromRelay[j] \in Answer \cup Notice /\ fromRelay[j].at = "answer"
      <4>1. fromRelay \in Seq(Answer \cup Notice)
        BY <1>0 DEF TypeOK
      <4>2. fromRelay[j] \in Answer \cup Notice
        BY <4>1
      <4> QED BY <2>1, <3>1, <4>2 DEF Authenticates
    <3>3. fromRelay[j].id \in Calls
      BY <3>2 DEF Answer, Notice
    <3>4. Authenticates(fromRelay[j])
      BY <1>4, <2>1, <3>1, <3>3 DEF Authenticates
    <3> QED BY <1>0, <3>4 DEF Admitted
  <2> QED BY <1>0, <1>1, <1>4, <2>1 DEF Admitted
<1> QED BY <1>6, <1>7, <1>8 DEF ProtocolInv

LEMMA ProtocolStep == TypeInv /\ ProtocolInv /\ [Next]_vars => ProtocolInv'
<1> SUFFICES ASSUME TypeInv, ProtocolInv, [Next]_vars PROVE ProtocolInv'
  OBVIOUS
<1>0. /\ TypeOK /\ SameCall /\ AuthFirst /\ Admitted
      /\ calls \in [Calls -> Call \cup {Idle}] /\ parked \in SUBSET Calls
      /\ toRelay \in Seq(Request) /\ Len(toRelay) \in Nat
      /\ fromRelay \in Seq(Answer \cup Notice) /\ Len(fromRelay) \in Nat
  <2>1. toRelay \in Seq(Request) /\ fromRelay \in Seq(Answer \cup Notice)
    BY DEF TypeInv, TypeOK
  <2> QED BY <2>1 DEF TypeInv, TypeOK, ProtocolInv
<1>a. /\ \A i \in 1 .. Len(toRelay) : toRelay[i].id \in Calls
      /\ \A i \in 1 .. Len(fromRelay) : fromRelay[i].at = "answer" => fromRelay[i].id \in Calls
  <2>1. \A i \in 1 .. Len(toRelay) : toRelay[i] \in Request
    BY <1>0
  <2>2. \A i \in 1 .. Len(fromRelay) : fromRelay[i] \in Answer \cup Notice
    BY <1>0
  <2> QED BY <2>1, <2>2 DEF Request, Answer, Notice
(* Entries may go at any time. *)
<1>b. ASSUME \A c \in Calls : calls'[c] \in {calls[c], Idle},
             toRelay' = toRelay \/ Len(toRelay') = 0, parked' \subseteq parked
      PROVE  SameCall'
  BY <1>0, <1>a, <1>b DEF SameCall
<1>c. ASSUME \A c \in Calls : calls'[c] \in {calls[c], Idle},
             fromRelay' = fromRelay \/ Len(fromRelay') = 0,
             NEW i \in 1 .. Len(fromRelay'), Authenticates(fromRelay[i])'
      PROVE  admitted \/ sock = "gone"
  <2>1. i \in 1 .. Len(fromRelay) /\ fromRelay' = fromRelay
    BY <1>c
  <2>2. Authenticates(fromRelay[i])
    BY <1>a, <1>c, <2>1 DEF Authenticates
  <2> QED BY <1>0, <2>1, <2>2 DEF Admitted
<1>1. ASSUME NEW k \in Keys, NEW own \in BOOLEAN, ChangeByOther(k, own)
      PROVE  ProtocolInv'
  <2> DEFINE m == [at |-> "changed", key |-> k, change |-> Len(log) + 1]
  <2>0. /\ UNCHANGED <<stage, link, calls, since, picture, sock, admitted, toRelay, parked>>
        /\ ~admitted => fromRelay' = fromRelay
    BY <1>1 DEF ChangeByOther, Told
  <2>1. fromRelay' = fromRelay \/ Extends(fromRelay, fromRelay', m)
    <3>1. Len(log) + 1 \in 1 .. MaxChanges
      BY <1>0, <1>1, ChangedIs DEF TypeInv, ChangeByOther
    <3>2. m \in Answer \cup Notice
      BY <3>1 DEF Notice
    <3> QED BY <1>0, <1>1, <3>2, WriteIs DEF ChangeByOther
  <2>2. SameCall' /\ AuthFirst'
    BY <1>0, <2>0 DEF SameCall, AuthFirst
  <2>3. ASSUME NEW i \in 1 .. Len(fromRelay'), Authenticates(fromRelay[i])'
        PROVE  admitted \/ sock = "gone"
    <3>1. CASE i \in 1 .. Len(fromRelay) /\ fromRelay'[i] = fromRelay[i]
      BY <1>0, <2>0, <2>3, <3>1 DEF Admitted, Authenticates
    <3>2. CASE fromRelay'[i] = m
      BY <2>3, <3>2 DEF Authenticates
    <3> QED BY <1>0, <2>1, <3>1, <3>2, ExtendsIs
  <2> QED BY <1>0, <2>0, <2>2, <2>3 DEF ProtocolInv, Admitted
<1>2. ASSUME NEW c \in Calls, NEW op \in Ops \ {"auth"}, NEW k \in Keys \cup {NoKey},
             CallRelay(c, op, k)
      PROVE  ProtocolInv'
  <2> DEFINE request == [id |-> c, op |-> op, key |-> k]
  <2>0. /\ stage \in {"ready", "closed"} /\ Free(c)
        /\ UNCHANGED <<stage, since, sock, admitted, parked, fromRelay>>
        /\ calls' = [calls EXCEPT ![c] = Entry(op, k, link # "closed")]
        /\ c \notin parked /\ calls[c] = Idle
    BY <1>2 DEF CallRelay, relay, Free
  <2>1. /\ \A i \in 1 .. Len(toRelay) : toRelay[i].id # c
        /\ \A i \in 1 .. Len(fromRelay) : fromRelay[i].at = "answer" => fromRelay[i].id # c
    <3>1. DOMAIN toRelay = 1 .. Len(toRelay) /\ DOMAIN fromRelay = 1 .. Len(fromRelay)
      BY <1>0
    <3> QED BY <2>0, <3>1 DEF Free
  <2>2. /\ calls'[c].op = op /\ calls'[c].key = k
        /\ \A d \in Calls : d # c => calls'[d] = calls[d]
    BY <1>0, <2>0 DEF Entry
  <2>3. toRelay' = toRelay \/ Extends(toRelay, toRelay', request)
    <3>1. request \in Request
      BY DEF Request
    <3>2. /\ Len(Append(toRelay, request)) = Len(toRelay) + 1
          /\ \A i \in 1 .. Len(toRelay) : Append(toRelay, request)[i] = toRelay[i]
          /\ Append(toRelay, request)[Len(toRelay) + 1] = request
      BY <1>0, <3>1, AppendIs
    <3> QED BY <1>2, <3>2 DEF CallRelay, Sent, Extends
  <2>4. ASSUME NEW i \in 1 .. Len(toRelay')
        PROVE  \/ i \in 1 .. Len(toRelay) /\ toRelay'[i] = toRelay[i]
               \/ toRelay'[i] = request
    BY <1>0, <2>3, ExtendsIs
  <2>5. SameCall'
    <3>1. ASSUME NEW i \in 1 .. Len(toRelay'), calls'[toRelay'[i].id] # Idle
          PROVE  /\ calls'[toRelay'[i].id].op  = toRelay'[i].op
                 /\ calls'[toRelay'[i].id].key = toRelay'[i].key
      <4>1. CASE i \in 1 .. Len(toRelay) /\ toRelay'[i] = toRelay[i]
        BY <1>0, <1>a, <2>1, <2>2, <3>1, <4>1 DEF SameCall
      <4>2. CASE toRelay'[i] = request
        BY <2>2, <4>2
      <4> QED BY <2>4, <4>1, <4>2
    <3> QED BY <1>0, <2>0, <2>2, <3>1 DEF SameCall
  <2>6. AuthFirst'
    <3>1. \A i \in 1 .. Len(toRelay) : toRelay[i].op # "auth"
      BY <1>0, <2>0 DEF AuthFirst
    <3> QED BY <2>0, <2>4, <3>1 DEF AuthFirst
  <2>7. Admitted'
    BY <1>0, <1>a, <2>0, <2>1, <2>2 DEF Admitted, Authenticates
  <2> QED BY <2>5, <2>6, <2>7 DEF ProtocolInv
<1>3. ASSUME NEW c \in Calls, Connect(c)
      PROVE  ProtocolInv'
  <2> DEFINE request == [id |-> c, op |-> "auth", key |-> NoKey]
  <2>1. /\ since = NeverWatched /\ ~admitted /\ parked = {} /\ Len(fromRelay) = 0
        /\ UNCHANGED <<since, admitted, parked, fromRelay>>
        /\ stage' = "auth" /\ sock' = "open"
    BY <1>0, <1>3 DEF Connect, AuthFirst
  <2>2. Len(toRelay') = 1 /\ toRelay'[1] = request
    BY <1>3 DEF Connect
  <2>3. calls'[c].op = "auth" /\ calls'[c].key = NoKey
    BY <1>0, <1>3 DEF Connect, Entry
  <2> QED BY <2>1, <2>2, <2>3 DEF ProtocolInv, SameCall, AuthFirst, Admitted
(* The agent's process ends. *)
<1>d. ASSUME Down, UNCHANGED <<since, picture, relay>>
      PROVE  ProtocolInv'
  <2>1. /\ stage' = "down" /\ parked' = {} /\ Len(toRelay') = 0 /\ Len(fromRelay') = 0
        /\ UNCHANGED <<since, sock, admitted>>
    BY <1>0, <1>d, DownIs DEF relay
  <2> QED BY <1>0, <2>1 DEF ProtocolInv, SameCall, AuthFirst, Admitted
<1>4. ASSUME NEW c \in Calls, Timeout(c)
      PROVE  ProtocolInv'
  <2>1. CASE Down
    BY <1>4, <1>d, <2>1 DEF Timeout
  <2>2. CASE ~Down
    <3>1. /\ \A d \in Calls : calls'[d] \in {calls[d], Idle}
          /\ stage' \in {stage, "failed"} /\ toRelay' = toRelay /\ parked' = parked
          /\ UNCHANGED <<since, sock, admitted>>
      BY <1>4, <2>2, WithoutIs DEF Timeout, relay
    <3>2. fromRelay' = fromRelay \/ Len(fromRelay') = 0
      BY <1>4, <2>2, EmptyIs DEF Timeout, CloseTransport
    <3>3. AuthFirst'
      BY <1>0, <3>1, <3>2 DEF AuthFirst
    <3> QED BY <1>0, <1>b, <1>c, <3>1, <3>2, <3>3 DEF ProtocolInv, Admitted
  <2> QED BY <2>1, <2>2
<1>5. ASSUME NEW c \in Calls, Wake(c)
      PROVE  ProtocolInv'
  <2>0. /\ c \in parked /\ parked' = parked \ {c} /\ Reply(c, TRUE, 0)
        /\ UNCHANGED <<stage, calls, since, sock, admitted, toRelay>>
    BY <1>5 DEF Wake, relay
  <2>1. PICK m \in Answer : m.id = c /\ (fromRelay' = fromRelay \/ Extends(fromRelay, fromRelay', m))
    <3>1. 0 \in 0 .. MaxChanges
      BY AgentConstants
    <3>2. ASSUME NEW ok \in BOOLEAN, Reply(c, ok, 0)
          PROVE  \E m \in Answer :
                   m.id = c /\ (fromRelay' = fromRelay \/ Extends(fromRelay, fromRelay', m))
      BY <1>0, <3>1, <3>2, ReplyIs
    <3> QED BY <2>0, <3>2
  <2>2. SameCall' /\ AuthFirst'
    BY <1>0, <2>0 DEF SameCall, AuthFirst
  <2>3. ASSUME NEW i \in 1 .. Len(fromRelay'), Authenticates(fromRelay[i])'
        PROVE  admitted \/ sock = "gone"
    <3>1. CASE i \in 1 .. Len(fromRelay) /\ fromRelay'[i] = fromRelay[i]
      BY <1>0, <2>0, <2>3, <3>1 DEF Admitted, Authenticates
    <3>2. CASE fromRelay'[i] = m
      BY <1>0, <2>0, <2>1, <2>3, <3>2 DEF Authenticates, SameCall
    <3> QED BY <1>0, <2>1, <3>1, <3>2, ExtendsIs
  <2> QED BY <1>0, <2>0, <2>2, <2>3 DEF ProtocolInv, Admitted
<1>6. CASE ConnectFails
  BY <1>0, <1>6 DEF ConnectFails, relay, wires, ProtocolInv, SameCall, AuthFirst, Admitted, Authenticates
<1>7. CASE Watch
  BY <1>0, <1>7 DEF Watch, relay, wires, ProtocolInv, SameCall, AuthFirst, Admitted, Authenticates
<1>8. CASE Close
  <2>1. CASE Down
    BY <1>8, <1>d, <2>1 DEF Close
  <2>2. CASE ~Down
    <3>1. /\ \A d \in Calls : calls'[d] \in {calls[d], Idle}
          /\ stage' = "closed" /\ stage \in {"ready", "closed"}
          /\ toRelay' = toRelay /\ parked' = parked
          /\ UNCHANGED <<since, sock, admitted>>
      BY <1>8, <2>2, WithoutIs DEF Close, relay
    <3>2. Len(fromRelay') = 0
      BY <1>8, <2>2, EmptyIs DEF Close, CloseTransport
    <3>3. AuthFirst'
      BY <1>0, <3>1, <3>2 DEF AuthFirst
    <3> QED BY <1>0, <1>b, <1>c, <3>1, <3>2, <3>3 DEF ProtocolInv, Admitted
  <2> QED BY <2>1, <2>2
<1>9. CASE LinkCloses
  <2>1. /\ Len(toRelay') = 0 /\ Len(fromRelay') = 0 /\ parked' = {}
        /\ UNCHANGED <<stage, calls, since, sock, admitted>>
    BY <1>9, EmptyIs DEF LinkCloses, Cut, relay
  <2> QED BY <1>0, <2>1 DEF ProtocolInv, SameCall, AuthFirst, Admitted
<1>10. CASE SockCloses
  <2>1. /\ Len(toRelay') = 0 /\ parked' = {} /\ sock' = "gone" /\ admitted' = FALSE
        /\ sock = "open" /\ UNCHANGED <<stage, calls, since, fromRelay>>
    BY <1>10, EmptyIs DEF SockCloses
  <2> QED BY <1>0, <2>1 DEF ProtocolInv, SameCall, AuthFirst, Admitted
<1>11. CASE UNCHANGED vars
  BY <1>0, <1>11 DEF vars, relay, wires, ProtocolInv, SameCall, AuthFirst, Admitted, Authenticates
<1> QED
  BY <1>1, <1>2, <1>3, <1>4, <1>5, <1>6, <1>7, <1>8, <1>9, <1>10, <1>11,
     ServeKeepsProtocol, ReceiveKeepsProtocol DEF Next

-----------------------------------------------------------------------------
(* The picture *)

LEMMA RangesAre ==
  ASSUME TypeOK
  PROVE  /\ MaxChanges \in Nat /\ Len(log) \in Nat /\ Len(log) <= MaxChanges
         /\ since \in Nat /\ (since = NeverWatched <=> since = MaxChanges + 1)
         /\ Len(fromRelay) \in Nat
         /\ \A k \in Keys : picture[k] \in Nat /\ picture[k] <= MaxChanges
         /\ \A i \in 1 .. Len(fromRelay) :
              /\ fromRelay[i] \in Answer \cup Notice
              /\ fromRelay[i].change \in Nat /\ fromRelay[i].change <= MaxChanges
         /\ \A i \in 1 .. Len(log) : log[i].key \in Keys /\ log[i].own \in BOOLEAN
<1>1. MaxChanges \in Nat
  BY AgentConstants
<1>2. log \in Seq(Change) /\ Len(log) <= MaxChanges /\ fromRelay \in Seq(Answer \cup Notice)
  BY DEF TypeOK
<1>3. Len(log) \in Nat /\ Len(fromRelay) \in Nat
  BY <1>2
<1>4. \A i \in 1 .. Len(fromRelay) : fromRelay[i] \in Answer \cup Notice
  BY <1>2
<1>5. \A i \in 1 .. Len(log) : log[i] \in Change
  BY <1>2
<1>6. \A i \in 1 .. Len(fromRelay) : fromRelay[i].change \in Nat /\ fromRelay[i].change <= MaxChanges
  BY <1>1, <1>4 DEF Answer, Notice
<1>7. since \in Nat /\ (since = NeverWatched <=> since = MaxChanges + 1)
  BY <1>1 DEF TypeOK, NeverWatched
<1>8. \A k \in Keys : picture[k] \in Nat /\ picture[k] <= MaxChanges
  BY <1>1 DEF TypeOK
<1> QED BY <1>1, <1>2, <1>3, <1>4, <1>5, <1>6, <1>7, <1>8 DEF Change

LEMMA PictureInit == Init => PictureInv
<1> SUFFICES ASSUME Init PROVE PictureInv
  OBVIOUS
<1>1. /\ log = <<>> /\ Len(log) = 0 /\ Len(fromRelay) = 0 /\ MaxChanges \in Nat
      /\ since = MaxChanges + 1 /\ \A k \in Keys : picture[k] = 0
  BY EmptyIs, AgentConstants DEF Init, NeverWatched
<1> QED BY <1>1 DEF PictureInv, Numbers, InOrder, Coming, Cuts, PictureConsistent

(* A step that changes neither the context nor the picture, and loses what   *)
(* was under way only with the connection.                                   *)
LEMMA QuietKeepsPicture ==
  ASSUME TypeOK, PictureInv, UNCHANGED <<log, picture, since>>,
         fromRelay' = fromRelay \/ (Len(fromRelay') = 0 /\ link' # "open"),
         \A i \in 1 .. Len(fromRelay'), k \in Keys :
           About(fromRelay[i], k)' => About(fromRelay[i], k),
         link' = "open" /\ admitted' => (link = "open" /\ admitted) \/ since = NeverWatched
  PROVE  PictureInv'
<1>0. Numbers /\ InOrder /\ Coming /\ Cuts /\ PictureConsistent
  BY DEF PictureInv
<1>1. CASE fromRelay' = fromRelay
  <2>1. Numbers'
    BY <1>0, <1>1 DEF Numbers
  <2>2. InOrder'
    BY <1>0, <1>1 DEF InOrder
  <2>3. Coming'
    BY <1>0, <1>1, RangesAre DEF Coming, Known
  <2>4. Cuts'
    BY <1>0, <1>1 DEF Cuts, Known
  <2> QED BY <1>0, <2>1, <2>2, <2>3, <2>4 DEF PictureInv, PictureConsistent
<1>2. CASE Len(fromRelay') = 0 /\ link' # "open"
  BY <1>0, <1>2 DEF PictureInv, Numbers, InOrder, Coming, Cuts, PictureConsistent
<1> QED BY <1>1, <1>2

(* A change of key k, or none, and a message m of the relay, or none: m is   *)
(* the last that there is to tell of what it is about, and a change by       *)
(* others is told to an agent that is there.                                 *)
LEMMA WriteKeepsPicture ==
  ASSUME TypeOK, PictureInv, NEW m \in Answer \cup Notice, NEW e,
         UNCHANGED <<picture, since, calls, link>>,
         log' = log \/ (Extends(log, log', e) /\ Len(log) + 1 <= MaxChanges),
         fromRelay' = fromRelay \/ (link = "open" /\ Extends(fromRelay, fromRelay', m)),
         m.change \in 0 .. Len(log'),
         m.change = Len(log) + 1 => e.own \/ m.at = "changed",
         \A k \in Keys : About(m, k) =>
           /\ m.change # 0 => log'[m.change].key = k
           /\ \A i \in 1 .. Len(log') : log'[i].key = k => i <= m.change,
         fromRelay' # fromRelay /\ since # NeverWatched /\ m.change # 0 => admitted,
         admitted' => admitted \/ since = NeverWatched,
         \/ log' = log
         \/ e.own
         \/ link = "open" /\ admitted =>
              fromRelay' # fromRelay /\ m.at = "changed" /\ m.change = Len(log) + 1
  PROVE  PictureInv'
<1> DEFINE L == Len(log)
           N == Len(fromRelay)
<1>0. /\ Numbers /\ InOrder /\ Coming /\ Cuts /\ PictureConsistent
      /\ L \in Nat /\ L <= MaxChanges /\ N \in Nat /\ since \in Nat /\ MaxChanges \in Nat
      /\ log \in Seq(Change) /\ fromRelay \in Seq(Answer \cup Notice)
      /\ since = NeverWatched <=> since = MaxChanges + 1
  BY RangesAre DEF PictureInv, TypeOK
<1>1. /\ Len(log') \in Nat /\ L <= Len(log') /\ Len(log') <= MaxChanges
      /\ \A i \in 1 .. L : log'[i] = log[i]
      /\ \A i \in 1 .. Len(log') : i \in 1 .. L \/ (i = L + 1 /\ log'[i] = e /\ log' # log)
  <2>1. CASE log' = log
    BY <1>0, <2>1
  <2>2. CASE Extends(log, log', e) /\ Len(log) + 1 <= MaxChanges
    <3>1. log' # log
      BY <1>0, <2>2 DEF Extends
    <3> QED BY <1>0, <2>2, <3>1, ExtendsIs DEF Extends
  <2> QED BY <2>1, <2>2
<1>2. /\ Len(fromRelay') \in Nat /\ N <= Len(fromRelay')
      /\ \A i \in 1 .. N : fromRelay'[i] = fromRelay[i]
      /\ \A i \in 1 .. Len(fromRelay') :
           \/ i \in 1 .. N /\ fromRelay'[i] = fromRelay[i]
           \/ i = N + 1 /\ i = Len(fromRelay') /\ fromRelay'[i] = m /\ link = "open"
  <2>1. CASE fromRelay' = fromRelay
    BY <1>0, <2>1
  <2>2. CASE link = "open" /\ Extends(fromRelay, fromRelay', m)
    BY <1>0, <2>2, ExtendsIs DEF Extends
  <2> QED BY <2>1, <2>2
(* The same message, before and after. *)
<1>3. \A i \in 1 .. N, k \in Keys : About(fromRelay[i], k)' <=> About(fromRelay[i], k)
  BY <1>2 DEF About
<1>4. ASSUME NEW i \in 1 .. Len(fromRelay'), fromRelay'[i] = m, NEW k \in Keys, About(fromRelay[i], k)'
      PROVE  About(m, k)
  BY <1>4 DEF About
<1>5. ASSUME NEW i \in 1 .. N, NEW k \in Keys, About(fromRelay[i], k), About(m, k)
      PROVE  fromRelay[i].change <= m.change
  <2>1. /\ fromRelay[i].change \in 0 .. L
        /\ fromRelay[i].change # 0 => log[fromRelay[i].change].key = k
    BY <1>0, <1>5 DEF Numbers
  <2>2. \A j \in 1 .. Len(log') : log'[j].key = k => j <= m.change
    BY <1>5
  <2> QED BY <1>0, <1>1, <2>1, <2>2
<1>6. ASSUME NEW k \in Keys, About(m, k)
      PROVE  picture[k] <= m.change
  <2>1. picture[k] \in 0 .. L /\ (picture[k] # 0 => log[picture[k]].key = k)
    BY <1>0 DEF Numbers
  <2>2. \A j \in 1 .. Len(log') : log'[j].key = k => j <= m.change
    BY <1>6
  <2> QED BY <1>0, <1>1, <2>1, <2>2
<1>7. Numbers'
  <2>1. ASSUME NEW k \in Keys
        PROVE  picture'[k] \in 0 .. Len(log') /\ (picture'[k] # 0 => log'[picture'[k]].key = k)
    <3>1. picture[k] \in 0 .. L /\ (picture[k] # 0 => log[picture[k]].key = k)
      BY <1>0 DEF Numbers
    <3> QED BY <1>0, <1>1, <3>1
  <2>2. ASSUME NEW i \in 1 .. Len(fromRelay')
        PROVE  /\ fromRelay'[i].change \in 0 .. Len(log')
               /\ \A k \in Keys : About(fromRelay[i], k)' /\ fromRelay'[i].change # 0
                    => log'[fromRelay'[i].change].key = k
    <3>1. CASE i \in 1 .. N /\ fromRelay'[i] = fromRelay[i]
      <4>1. /\ fromRelay[i].change \in 0 .. L
            /\ \A k \in Keys : About(fromRelay[i], k) /\ fromRelay[i].change # 0
                 => log[fromRelay[i].change].key = k
        BY <1>0, <3>1 DEF Numbers
      <4>2. fromRelay'[i].change \in 0 .. Len(log')
        BY <1>0, <1>1, <3>1, <4>1
      <4>3. ASSUME NEW k \in Keys, About(fromRelay[i], k)', fromRelay'[i].change # 0
            PROVE  log'[fromRelay'[i].change].key = k
        <5>1. About(fromRelay[i], k)
          BY <1>3, <3>1, <4>3
        <5>2. log[fromRelay[i].change].key = k /\ fromRelay[i].change \in 1 .. L
          BY <1>0, <3>1, <4>1, <4>3, <5>1
        <5> QED BY <1>1, <3>1, <5>2
      <4> QED BY <4>2, <4>3
    <3>2. CASE fromRelay'[i] = m
      BY <1>4, <3>2
    <3> QED BY <1>2, <3>1, <3>2
  <2> QED BY <2>1, <2>2 DEF Numbers
<1>8. InOrder'
  <2> SUFFICES ASSUME NEW k \in Keys, NEW i \in 1 .. Len(fromRelay'), About(fromRelay[i], k)'
               PROVE  /\ picture[k] <= fromRelay'[i].change
                      /\ \A j \in 1 .. Len(fromRelay') : i < j /\ About(fromRelay[j], k)'
                           => fromRelay'[i].change <= fromRelay'[j].change
    BY DEF InOrder
  <2>1. CASE i \in 1 .. N /\ fromRelay'[i] = fromRelay[i]
    <3>1. About(fromRelay[i], k)
      BY <1>3, <2>1
    <3>2. /\ picture[k] <= fromRelay[i].change
          /\ \A j \in 1 .. N : i < j /\ About(fromRelay[j], k)
               => fromRelay[i].change <= fromRelay[j].change
      BY <1>0, <2>1, <3>1 DEF InOrder
    <3>3. ASSUME NEW j \in 1 .. Len(fromRelay'), i < j, About(fromRelay[j], k)'
          PROVE  fromRelay'[i].change <= fromRelay'[j].change
      <4>1. CASE j \in 1 .. N /\ fromRelay'[j] = fromRelay[j]
        BY <1>3, <2>1, <3>2, <3>3, <4>1
      <4>2. CASE fromRelay'[j] = m
        BY <1>4, <1>5, <2>1, <3>1, <3>3, <4>2
      <4> QED BY <1>2, <4>1, <4>2
    <3> QED BY <2>1, <3>2, <3>3
  <2>2. CASE i = N + 1 /\ i = Len(fromRelay') /\ fromRelay'[i] = m
    BY <1>0, <1>4, <1>6, <2>2
  <2> QED BY <1>2, <2>1, <2>2
(* What was known, or on its way, still is. *)
<1>9. ASSUME NEW i \in 1 .. L, NEW n \in 0 .. N, NEW n1 \in n .. Len(fromRelay'), Known(i, n)
      PROVE  Known(i, n1)'
  <2>1. log'[i] = log[i] /\ picture' = picture
    BY <1>1
  <2>2. CASE i <= picture[log[i].key]
    BY <2>1, <2>2 DEF Known
  <2>3. ASSUME NEW q \in 1 .. n, fromRelay[q].at = "changed", fromRelay[q].change = i
        PROVE  Known(i, n1)'
    <3>1. q \in 1 .. N /\ q \in 1 .. n1
      BY <1>0, <1>2
    <3> QED BY <1>2, <2>3, <3>1 DEF Known
  <2> QED BY <1>9, <2>2, <2>3 DEF Known
<1>10. Coming'
  <2> SUFFICES ASSUME link = "open", admitted', NEW i \in since + 1 .. Len(log'), ~log'[i].own
               PROVE  Known(i, Len(fromRelay))'
    BY DEF Coming
  <2>1. since # NeverWatched /\ admitted
    BY <1>0, <1>1
  <2>2. CASE i \in 1 .. L
    <3>1. Known(i, N)
      BY <1>0, <1>1, <2>1, <2>2 DEF Coming
    <3>2. N \in 0 .. N /\ Len(fromRelay') \in N .. Len(fromRelay')
      BY <1>0, <1>2
    <3> QED BY <1>9, <2>2, <3>1, <3>2
  <2>3. CASE i = L + 1 /\ log'[i] = e /\ log' # log
    <3>1. fromRelay' # fromRelay /\ m.at = "changed" /\ m.change = i
      BY <2>1, <2>3
    <3>2. Extends(fromRelay, fromRelay', m)
      BY <3>1
    <3>3. N + 1 \in 1 .. Len(fromRelay') /\ fromRelay'[N + 1] = m
      BY <1>0, <3>2 DEF Extends
    <3> QED BY <3>1, <3>3 DEF Known
  <2>4. i \in 1 .. Len(log')
    BY <1>0, <1>1
  <2> QED BY <1>1, <2>2, <2>3, <2>4
<1>11. Cuts'
  <2> SUFFICES ASSUME NEW p \in 1 .. Len(fromRelay'),
                      NEW i \in since + 1 .. fromRelay'[p].change, ~log'[i].own
               PROVE  Known(i, p)'
    BY DEF Cuts
  <2>1. CASE p \in 1 .. N /\ fromRelay'[p] = fromRelay[p]
    <3>1. fromRelay[p].change \in 0 .. L
      BY <1>0, <2>1 DEF Numbers
    <3>2. i \in 1 .. L /\ i \in since + 1 .. fromRelay[p].change
      BY <1>0, <2>1, <3>1
    <3>3. Known(i, p)
      BY <1>0, <1>1, <2>1, <3>2 DEF Cuts
    <3>4. p \in 0 .. N /\ p \in p .. Len(fromRelay')
      BY <1>0, <1>2, <2>1
    <3> QED BY <1>9, <3>2, <3>3, <3>4
  <2>2. CASE p = N + 1 /\ p = Len(fromRelay') /\ fromRelay'[p] = m /\ link = "open"
    <3>1. i \in 1 .. Len(log') /\ i <= m.change /\ m.change # 0 /\ since # NeverWatched
      BY <1>0, <1>1, <2>2
    <3>2. fromRelay' # fromRelay /\ admitted
      BY <1>0, <2>2, <3>1
    <3>3. CASE i \in 1 .. L
      <4>1. i \in since + 1 .. L /\ ~log[i].own
        BY <1>0, <1>1, <3>3
      <4>2. Known(i, N)
        BY <1>0, <2>2, <3>2, <4>1 DEF Coming
      <4>3. N \in 0 .. N /\ p \in N .. Len(fromRelay')
        BY <1>0, <1>2, <2>2
      <4> QED BY <1>9, <3>3, <4>2, <4>3
    <3>4. CASE i = L + 1 /\ log'[i] = e
      <4>1. m.change = L + 1 /\ m.at = "changed"
        BY <1>0, <1>1, <3>1, <3>4
      <4> QED BY <1>0, <2>2, <3>4, <4>1 DEF Known
    <3> QED BY <1>1, <3>1, <3>3, <3>4
  <2> QED BY <1>2, <2>1, <2>2
<1>12. PictureConsistent'
  <2> SUFFICES ASSUME NEW k \in Keys, NEW i \in since + 1 .. picture[k], ~log'[i].own
               PROVE  i <= picture[log'[i].key]
    BY RangesAre DEF PictureConsistent
  <2>1. picture[k] \in 0 .. L
    BY <1>0 DEF Numbers
  <2>2. i \in 1 .. L
    BY <1>0, <2>1
  <2>3. picture[log[i].key] >= i
    BY <1>0, <1>1, <2>2 DEF PictureConsistent
  <2>4. picture[log[i].key] \in Nat
    BY <2>2, RangesAre
  <2> QED BY <1>0, <1>1, <2>2, <2>3, <2>4
<1> QED BY <1>7, <1>8, <1>10, <1>11, <1>12 DEF PictureInv

(* A message is read: what it tells is no older than what was known, and all *)
(* that was before is known.                                                 *)
LEMMA ReceiveKeepsPicture ==
  ASSUME TypeOK, PictureInv, Receive
  PROVE  PictureInv'
<1> DEFINE m == fromRelay[1]
           L == Len(log)
           N == Len(fromRelay)
<1>0. /\ Numbers /\ InOrder /\ Coming /\ Cuts /\ PictureConsistent
      /\ L \in Nat /\ L <= MaxChanges /\ N \in Nat /\ since \in Nat /\ MaxChanges \in Nat
      /\ since = NeverWatched <=> since = MaxChanges + 1
      /\ log' = log /\ since' = since /\ admitted' = admitted
      /\ \A k \in Keys : picture[k] \in Nat
      /\ picture \in [Keys -> 0 .. MaxChanges] /\ calls \in [Calls -> Call \cup {Idle}]
  BY RangesAre DEF PictureInv, Receive, relay, TypeOK
<1>1. /\ 1 \in 1 .. N /\ Head(fromRelay) = m /\ m \in Answer \cup Notice
      /\ \/ Len(fromRelay') = 0 /\ link' # "open"
         \/ /\ link' = link /\ Len(fromRelay') = N - 1
            /\ \A i \in 1 .. Len(fromRelay') : i + 1 \in 1 .. N /\ fromRelay'[i] = fromRelay[i + 1]
  BY ReceiveIs
<1>2. \A i \in 1 .. Len(fromRelay') :
        i + 1 \in 1 .. N /\ fromRelay'[i] = fromRelay[i + 1] /\ fromRelay[i + 1] \in Answer \cup Notice
  BY <1>1, RangesAre
<1>3. \A c \in Calls : calls'[c] \in {calls[c], Idle}
  BY <1>1, WithoutIs DEF Receive, ReceiveAnswer, ReceiveNotice
<1>4. ASSUME NEW i \in 1 .. Len(fromRelay'), NEW k \in Keys, About(fromRelay[i], k)'
      PROVE  About(fromRelay[i + 1], k)
  <2>1. fromRelay'[i] = fromRelay[i + 1] /\ fromRelay[i + 1] \in Answer \cup Notice
    BY <1>2
  <2>2. fromRelay[i + 1].at = "answer" => fromRelay[i + 1].id \in Calls
    BY <2>1 DEF Answer, Notice
  <2> QED BY <1>3, <1>4, <2>1, <2>2 DEF About
(* What the picture becomes. *)
<1>5. ASSUME NEW k \in Keys
      PROVE  \/ picture'[k] = picture[k]
             \/ About(m, k) /\ picture'[k] = m.change
  <2>1. CASE ReceiveAnswer(m)
    <3>1. m.id \in Calls
      BY <1>1, <2>1 DEF ReceiveAnswer, Answer, Notice
    <3> QED BY <1>0, <2>1, <3>1 DEF ReceiveAnswer, About
  <2>2. CASE ReceiveNotice(m)
    BY <1>0, <2>2 DEF ReceiveNotice, About
  <2> QED BY <1>1, <2>1, <2>2 DEF Receive
<1>6. ASSUME NEW k \in Keys
      PROVE  /\ picture'[k] \in 0 .. L /\ picture[k] <= picture'[k]
             /\ picture'[k] # 0 => log[picture'[k]].key = k
  <2>1. picture[k] \in 0 .. L /\ (picture[k] # 0 => log[picture[k]].key = k)
    BY <1>0 DEF Numbers
  <2>2. About(m, k) => /\ m.change \in 0 .. L /\ picture[k] <= m.change
                       /\ m.change # 0 => log[m.change].key = k
    BY <1>0, <1>1 DEF Numbers, InOrder
  <2> QED BY <1>0, <1>5, <2>1, <2>2
(* A notice that is read is known, by an agent that watches. *)
<1>7. ASSUME m.at = "changed", since # NeverWatched, m.change \in 1 .. L
      PROVE  picture'[log[m.change].key] = m.change
  <2>1. m \in Notice /\ m.key \in Keys
    BY <1>1, <1>7 DEF Answer, Notice
  <2>2. About(m, m.key)
    BY <1>7 DEF About
  <2>3. log[m.change].key = m.key
    BY <1>0, <1>1, <1>7, <2>1, <2>2 DEF Numbers
  <2>4. picture' = [picture EXCEPT ![m.key] = m.change]
    BY <1>1, <1>7 DEF Receive, ReceiveAnswer, ReceiveNotice
  <2> QED BY <1>0, <2>1, <2>3, <2>4
(* What is known, or told by the first messages, is known, or told by those  *)
(* of them that are left.                                                    *)
<1>8. ASSUME NEW i \in 1 .. L, since # NeverWatched, NEW n \in 1 .. N,
             n = 1 \/ n - 1 \in 1 .. Len(fromRelay'), Known(i, n)
      PROVE  IF n = 1 THEN i <= picture'[log[i].key] ELSE Known(i, n - 1)'
  <2>0. log[i].key \in Keys
    BY RangesAre
  <2>1. CASE i <= picture[log[i].key]
    <3>1. i <= picture'[log[i].key]
      BY <1>0, <1>6, <2>0, <2>1
    <3> QED BY <1>0, <3>1 DEF Known
  <2>2. ASSUME NEW q \in 1 .. n, fromRelay[q].at = "changed", fromRelay[q].change = i
        PROVE  IF n = 1 THEN i <= picture'[log[i].key] ELSE Known(i, n - 1)'
    <3>1. CASE q = 1
      <4>1. picture'[log[i].key] = i
        BY <1>7, <1>8, <2>2, <3>1
      <4> QED BY <1>0, <4>1 DEF Known
    <3>2. CASE q # 1
      <4>1. n # 1 /\ q - 1 \in 1 .. n - 1 /\ q - 1 \in 1 .. Len(fromRelay') /\ q - 1 + 1 = q
        BY <1>0, <1>1, <1>8, <3>2
      <4>2. fromRelay'[q - 1] = fromRelay[q]
        BY <1>2, <4>1
      <4> QED BY <2>2, <4>1, <4>2 DEF Known
    <3> QED BY <3>1, <3>2
  <2> QED BY <1>8, <2>1, <2>2 DEF Known
<1>9. Numbers'
  <2>1. ASSUME NEW i \in 1 .. Len(fromRelay')
        PROVE  /\ fromRelay'[i].change \in 0 .. L
               /\ \A k \in Keys : About(fromRelay[i], k)' /\ fromRelay'[i].change # 0
                    => log[fromRelay'[i].change].key = k
    <3>1. i + 1 \in 1 .. N /\ fromRelay'[i] = fromRelay[i + 1]
      BY <1>2
    <3>2. /\ fromRelay[i + 1].change \in 0 .. L
          /\ \A k \in Keys : About(fromRelay[i + 1], k) /\ fromRelay[i + 1].change # 0
               => log[fromRelay[i + 1].change].key = k
      BY <1>0, <3>1 DEF Numbers
    <3> QED BY <1>4, <3>1, <3>2
  <2> QED BY <1>0, <1>6, <2>1 DEF Numbers
<1>10. InOrder'
  <2> SUFFICES ASSUME NEW k \in Keys, NEW i \in 1 .. Len(fromRelay'), About(fromRelay[i], k)'
               PROVE  /\ picture'[k] <= fromRelay'[i].change
                      /\ \A j \in 1 .. Len(fromRelay') : i < j /\ About(fromRelay[j], k)'
                           => fromRelay'[i].change <= fromRelay'[j].change
    BY DEF InOrder
  <2>1. i + 1 \in 1 .. N /\ fromRelay'[i] = fromRelay[i + 1] /\ About(fromRelay[i + 1], k) /\ 1 < i + 1
    BY <1>2, <1>4
  <2>2. picture'[k] <= fromRelay[i + 1].change
    <3>1. picture[k] <= fromRelay[i + 1].change
      BY <1>0, <2>1 DEF InOrder
    <3>2. About(m, k) => m.change <= fromRelay[i + 1].change
      BY <1>0, <1>1, <2>1 DEF InOrder
    <3> QED BY <1>5, <3>1, <3>2
  <2>3. ASSUME NEW j \in 1 .. Len(fromRelay'), i < j, About(fromRelay[j], k)'
        PROVE  fromRelay'[i].change <= fromRelay'[j].change
    <3>1. j + 1 \in 1 .. N /\ fromRelay'[j] = fromRelay[j + 1] /\ About(fromRelay[j + 1], k) /\ i + 1 < j + 1
      BY <1>2, <1>4, <2>3
    <3> QED BY <1>0, <2>1, <3>1 DEF InOrder
  <2> QED BY <2>1, <2>2, <2>3
<1>11. Coming'
  <2> SUFFICES ASSUME link' = "open", admitted, NEW i \in since + 1 .. L, ~log[i].own
               PROVE  Known(i, Len(fromRelay))'
    BY <1>0 DEF Coming
  <2>0. PICK n \in Nat : n = N
    BY <1>0
  <2>1. /\ link = "open" /\ Len(fromRelay') = n - 1 /\ i \in 1 .. L /\ since # NeverWatched
        /\ n \in 1 .. N /\ (n = 1 \/ n - 1 \in 1 .. Len(fromRelay'))
    BY <1>0, <1>1, <2>0
  <2>2. Known(i, n)
    BY <1>0, <2>0, <2>1 DEF Coming
  <2>3. IF n = 1 THEN i <= picture'[log[i].key] ELSE Known(i, n - 1)'
    BY <1>8, <2>1, <2>2
  <2>4. CASE n = 1
    BY <1>0, <2>3, <2>4 DEF Known
  <2>5. CASE n # 1
    BY <1>0, <2>1, <2>3, <2>5 DEF Known
  <2> QED BY <2>4, <2>5
<1>12. Cuts'
  <2> SUFFICES ASSUME NEW p \in 1 .. Len(fromRelay'),
                      NEW i \in since + 1 .. fromRelay'[p].change, ~log[i].own
               PROVE  Known(i, p)'
    BY <1>0 DEF Cuts
  <2>1. p + 1 \in 1 .. N /\ fromRelay'[p] = fromRelay[p + 1] /\ p + 1 # 1 /\ p + 1 - 1 = p
    BY <1>2
  <2>2. fromRelay[p + 1].change \in 0 .. L
    BY <1>0, <2>1 DEF Numbers
  <2>3. i \in 1 .. L /\ since # NeverWatched /\ i \in since + 1 .. fromRelay[p + 1].change
    BY <1>0, <2>1, <2>2
  <2>4. Known(i, p + 1)
    BY <1>0, <2>1, <2>3 DEF Cuts
  <2>5. IF p + 1 = 1 THEN i <= picture'[log[i].key] ELSE Known(i, p + 1 - 1)'
    BY <1>8, <2>1, <2>3, <2>4
  <2> QED BY <2>1, <2>5
<1>13. PictureConsistent'
  <2> SUFFICES ASSUME NEW k \in Keys, NEW i \in since + 1 .. picture'[k], ~log[i].own
               PROVE  picture'[log[i].key] >= i
    BY <1>0 DEF PictureConsistent
  <2>1. picture'[k] \in 0 .. L /\ i \in 1 .. L /\ since # NeverWatched
    BY <1>0, <1>6
  <2>2. log[i].key \in Keys
    BY <2>1, RangesAre
  <2>3. picture[log[i].key] <= picture'[log[i].key] /\ picture'[log[i].key] \in Nat
    BY <1>6, <2>2
  <2>4. CASE picture'[k] = picture[k]
    <3>1. picture[log[i].key] >= i
      BY <1>0, <2>1, <2>4 DEF PictureConsistent
    <3> QED BY <1>0, <2>1, <2>2, <2>3, <3>1
  <2>5. CASE About(m, k) /\ picture'[k] = m.change
    <3>1. Known(i, 1)
      BY <1>0, <1>1, <2>5 DEF Cuts
    <3>2. i <= picture'[log[i].key]
      BY <1>1, <1>8, <2>1, <3>1
    <3> QED BY <3>2
  <2> QED BY <1>5, <2>4, <2>5
<1> QED BY <1>9, <1>10, <1>11, <1>12, <1>13 DEF PictureInv

(* The relay answers the first request. *)
LEMMA ServeKeepsPicture ==
  ASSUME TypeInv, ProtocolInv, PictureInv, Serve
  PROVE  PictureInv'
<1> DEFINE r == toRelay[1]
           L == Len(log)
<1>0. /\ TypeOK /\ LastExists /\ SameCall /\ AuthFirst /\ Admitted /\ KeyedRequests
      /\ UNCHANGED <<picture, since, calls, link>> /\ sock = "open"
      /\ r = Head(toRelay) /\ r \in Request /\ r.id \in Calls /\ 1 \in 1 .. Len(toRelay)
      /\ L \in Nat /\ L <= MaxChanges /\ MaxChanges \in Nat
      /\ log \in Seq(Change)
  BY ServeIs, RangesAre DEF TypeInv, TypeOK, ProtocolInv, Serve, Request
<1>1. calls[r.id] # Idle => calls[r.id].op = r.op /\ calls[r.id].key = r.key
  BY <1>0 DEF SameCall
<1>2. since # NeverWatched => admitted
  BY <1>0 DEF Admitted
<1>3. CASE log' = log /\ r.op \notin {"get", "change"}
  <2>1. \E ok \in BOOLEAN : Reply(r.id, ok, 0) \/ fromRelay' = fromRelay
    BY <1>0, <1>3 DEF Serve, ServeAuth, ServeGet, ServeChange, ServeOther
  <2>2. admitted' => admitted \/ since = NeverWatched
    <3>1. CASE ServeAuth(r)
      BY <1>0, <3>1 DEF ServeAuth, AuthFirst
    <3>2. CASE ~ServeAuth(r)
      BY <1>0, <3>2 DEF Serve, ServeGet, ServeChange, ServeOther
    <3> QED BY <3>1, <3>2
  <2>3. PICK m \in Answer : /\ m.at = "answer" /\ m.id = r.id /\ m.change = 0
                            /\ fromRelay' = fromRelay \/ (link = "open" /\ Extends(fromRelay, fromRelay', m))
    <3>1. ASSUME NEW ok \in BOOLEAN, Reply(r.id, ok, 0)
          PROVE  \E m \in Answer :
                   /\ m.at = "answer" /\ m.id = r.id /\ m.change = 0
                   /\ fromRelay' = fromRelay \/ (link = "open" /\ Extends(fromRelay, fromRelay', m))
      BY <1>0, <3>1, ReplyIs
    <3>2. CASE fromRelay' = fromRelay
      <4>1. [at |-> "answer", id |-> r.id, ok |-> TRUE, change |-> 0] \in Answer
        BY <1>0 DEF Answer
      <4> QED BY <3>2, <4>1
    <3> QED BY <2>1, <3>1, <3>2
  <2>4. \A k \in Keys : ~About(m, k)
    BY <1>1, <1>3, <2>3 DEF About
  <2>5. m \in Answer \cup Notice /\ m.change \in 0 .. Len(log') /\ m.change # L + 1
    BY <1>0, <1>3, <2>3
  <2> QED BY <1>0, <1>3, <2>2, <2>3, <2>4, <2>5, WriteKeepsPicture
<1>4. CASE r.op = "get"
  <2>1. ServeGet(r) /\ r.key \in Keys
    BY <1>0, <1>4 DEF Serve, ServeAuth, ServeGet, ServeChange, ServeOther, KeyedRequests
  <2>2. PICK n \in 0 .. MaxChanges : n = LastChange(r.key)
    BY <1>0, <2>1, LastChangeIs
  <2>3. /\ n \in 0 .. L /\ (n # 0 => log[n].key = r.key)
        /\ \A i \in 1 .. L : log[i].key = r.key => i <= n
    BY <1>0, <2>1, <2>2, LastChangeIs
  <2>4. PICK m \in Answer : /\ m.at = "answer" /\ m.id = r.id /\ m.change = n
                            /\ fromRelay' = fromRelay \/ (link = "open" /\ Extends(fromRelay, fromRelay', m))
    <3>1. ASSUME NEW ok \in BOOLEAN, Reply(r.id, ok, n)
          PROVE  \E m \in Answer :
                   /\ m.at = "answer" /\ m.id = r.id /\ m.change = n
                   /\ fromRelay' = fromRelay \/ (link = "open" /\ Extends(fromRelay, fromRelay', m))
      BY <1>0, <3>1, ReplyIs
    <3>2. Reply(r.id, TRUE, n)
      BY <2>1, <2>2 DEF ServeGet
    <3> QED BY <3>1, <3>2
  <2>5. \A k \in Keys : About(m, k) => k = r.key
    BY <1>1, <2>4 DEF About
  <2>6. log' = log /\ admitted' = admitted
    BY <2>1 DEF ServeGet
  <2>7. m \in Answer \cup Notice /\ m.change \in 0 .. Len(log') /\ m.change # L + 1
    BY <1>0, <2>3, <2>4, <2>6
  <2>8. \A k \in Keys : About(m, k) =>
          /\ m.change # 0 => log'[m.change].key = k
          /\ \A i \in 1 .. Len(log') : log'[i].key = k => i <= m.change
    BY <2>3, <2>4, <2>5, <2>6
  <2> QED BY <1>0, <1>2, <2>4, <2>6, <2>7, <2>8, WriteKeepsPicture
<1>5. CASE r.op = "change"
  <2> DEFINE e == [key |-> r.key, own |-> TRUE]
  <2>1. ServeChange(r) /\ r.key \in Keys
    BY <1>0, <1>5 DEF Serve, ServeAuth, ServeGet, ServeChange, ServeOther, KeyedRequests
  <2>2. /\ L + 1 \in 1 .. MaxChanges /\ Len(log') = L + 1
        /\ \A i \in 1 .. L : log'[i] = log[i]
        /\ log'[L + 1] = e
    BY <1>0, <2>1, ChangedIs DEF ServeChange
  <2>3. PICK n \in 0 .. MaxChanges : n = L + 1
    BY <2>2
  <2>4. PICK m \in Answer : /\ m.at = "answer" /\ m.id = r.id /\ m.change = n
                            /\ fromRelay' = fromRelay \/ (link = "open" /\ Extends(fromRelay, fromRelay', m))
    <3>1. ASSUME NEW ok \in BOOLEAN, Reply(r.id, ok, n)
          PROVE  \E m \in Answer :
                   /\ m.at = "answer" /\ m.id = r.id /\ m.change = n
                   /\ fromRelay' = fromRelay \/ (link = "open" /\ Extends(fromRelay, fromRelay', m))
      BY <1>0, <3>1, ReplyIs
    <3>2. Reply(r.id, TRUE, n)
      BY <2>1, <2>3 DEF ServeChange
    <3> QED BY <3>1, <3>2
  <2>5. \A k \in Keys : About(m, k) => k = r.key
    BY <1>1, <2>4 DEF About
  <2>6. admitted' = admitted /\ Extends(log, log', e) /\ e.own
    BY <2>1, <2>2 DEF ServeChange, Extends
  <2>7. m \in Answer \cup Notice /\ m.change \in 0 .. Len(log')
    BY <1>0, <2>2, <2>3, <2>4
  <2>8. \A k \in Keys : About(m, k) =>
          /\ m.change # 0 => log'[m.change].key = k
          /\ \A i \in 1 .. Len(log') : log'[i].key = k => i <= m.change
    BY <1>0, <2>2, <2>3, <2>4, <2>5
  <2>9. L + 1 <= MaxChanges
    BY <1>0, <2>2
  <2> QED BY <1>0, <1>2, <2>4, <2>6, <2>7, <2>8, <2>9, WriteKeepsPicture
<1>6. r.op \in Ops /\ (r.op \notin {"get", "change"} => log' = log)
  BY <1>0 DEF Request, Serve, ServeAuth, ServeGet, ServeChange, ServeOther
<1> QED BY <1>3, <1>4, <1>5, <1>6

LEMMA PictureStep == TypeInv /\ ProtocolInv /\ PictureInv /\ [Next]_vars => PictureInv'
<1> SUFFICES ASSUME TypeInv, ProtocolInv, PictureInv, [Next]_vars PROVE PictureInv'
  OBVIOUS
<1>0. /\ TypeOK /\ LastExists /\ SameCall /\ AuthFirst /\ Admitted
      /\ MaxChanges \in Nat /\ Len(log) \in Nat /\ Len(log) <= MaxChanges
      /\ calls \in [Calls -> Call \cup {Idle}] /\ parked \in SUBSET Calls
      /\ since = NeverWatched <=> since = MaxChanges + 1
  BY RangesAre DEF TypeInv, TypeOK, ProtocolInv
<1>a. /\ DOMAIN fromRelay = 1 .. Len(fromRelay)
      /\ \A i \in 1 .. Len(fromRelay) : fromRelay[i].at = "answer" => fromRelay[i].id \in Calls
  <2>1. fromRelay \in Seq(Answer \cup Notice)
    BY <1>0 DEF TypeOK
  <2>2. \A i \in 1 .. Len(fromRelay) : fromRelay[i] \in Answer \cup Notice
    BY <1>0, RangesAre
  <2> QED BY <2>1, <2>2 DEF Answer, Notice
(* Entries may go, and the connection with what is under way on it. *)
<1>b. ASSUME UNCHANGED <<log, picture, since>>,
             \A c \in Calls : calls'[c] \in {calls[c], Idle},
             fromRelay' = fromRelay \/ (Len(fromRelay') = 0 /\ link' # "open"),
             link' # "open" \/ link' = link,
             admitted' \in {admitted, FALSE}
      PROVE  PictureInv'
  <2>1. \A i \in 1 .. Len(fromRelay'), k \in Keys : About(fromRelay[i], k)' => About(fromRelay[i], k)
    BY <1>a, <1>b DEF About
  <2>2. link' = "open" /\ admitted' => (link = "open" /\ admitted) \/ since = NeverWatched
    BY <1>b
  <2> QED BY <1>0, <1>b, <2>1, <2>2, QuietKeepsPicture
<1>c. ASSUME NEW k \in Keys, NEW own \in BOOLEAN, ChangeByOther(k, own)
      PROVE  PictureInv'
  <2> DEFINE e == [key |-> k, own |-> own]
  <2>0. UNCHANGED <<link, calls, since, picture, admitted>> /\ Changed(k, own)
    BY <1>c DEF ChangeByOther
  <2>1. /\ Len(log) + 1 \in 1 .. MaxChanges /\ Len(log') = Len(log) + 1
        /\ \A i \in 1 .. Len(log) : log'[i] = log[i]
        /\ log'[Len(log) + 1] = e
    BY <1>0, <2>0, ChangedIs
  <2>2. PICK m \in Notice : m = [at |-> "changed", key |-> k, change |-> Len(log) + 1]
    BY <2>1 DEF Notice
  <2>3. fromRelay' = fromRelay \/ (link = "open" /\ Extends(fromRelay, fromRelay', m))
    BY <1>0, <1>c, <2>2, WriteIs DEF ChangeByOther
  <2>4. ~own /\ link = "open" /\ admitted => fromRelay' # fromRelay
    <3>1. SUFFICES ASSUME ~own, link = "open", admitted PROVE fromRelay' # fromRelay
      OBVIOUS
    <3>2. fromRelay' = Append(fromRelay, m)
      BY <1>0, <1>c, <2>2, <3>1 DEF ChangeByOther, Told, Admitted, Write, Written
    <3>3. fromRelay \in Seq(Answer \cup Notice) /\ m \in Answer \cup Notice
      BY <1>0 DEF TypeOK
    <3> QED BY <3>2, <3>3, AppendIs
  <2>5. fromRelay' # fromRelay => admitted
    BY <1>c DEF ChangeByOther, Told
  <2>6. \A x \in Keys : About(m, x) => x = k
    BY <2>2 DEF About
  <2>7. \A x \in Keys : About(m, x) =>
          /\ m.change # 0 => log'[m.change].key = x
          /\ \A i \in 1 .. Len(log') : log'[i].key = x => i <= m.change
    BY <1>0, <2>1, <2>2, <2>6
  <2>8. /\ m \in Answer \cup Notice /\ m.at = "changed" /\ m.change = Len(log) + 1
        /\ m.change \in 0 .. Len(log') /\ Len(log) + 1 <= MaxChanges
        /\ Extends(log, log', e) /\ e.own = own
    BY <1>0, <2>1, <2>2 DEF Extends
  <2>9. \/ log' = log
        \/ e.own
        \/ link = "open" /\ admitted =>
             fromRelay' # fromRelay /\ m.at = "changed" /\ m.change = Len(log) + 1
    BY <2>4, <2>8
  <2> QED BY <1>0, <2>0, <2>3, <2>5, <2>7, <2>8, <2>9, WriteKeepsPicture
(* Of a slot that is taken, nothing is under way. *)
<1>d. ASSUME NEW c \in Calls, NEW op \in Ops \ {"auth"}, NEW k \in Keys \cup {NoKey},
             CallRelay(c, op, k)
      PROVE  PictureInv'
  <2>1. /\ UNCHANGED <<link, since, picture, log, admitted, fromRelay>>
        /\ \A d \in Calls : d # c => calls'[d] = calls[d]
        /\ \A i \in 1 .. Len(fromRelay) : fromRelay[i].at = "answer" => fromRelay[i].id # c
    BY <1>0, <1>a, <1>d DEF CallRelay, Free, relay
  <2>2. \A i \in 1 .. Len(fromRelay'), x \in Keys : About(fromRelay[i], x)' => About(fromRelay[i], x)
    BY <1>a, <2>1 DEF About
  <2>3. link' = "open" /\ admitted' => (link = "open" /\ admitted) \/ since = NeverWatched
    BY <2>1
  <2> QED BY <1>0, <2>1, <2>2, <2>3, QuietKeepsPicture
<1>e. ASSUME NEW c \in Calls, Connect(c)
      PROVE  PictureInv'
  <2>1. /\ UNCHANGED <<since, picture, log, admitted, fromRelay>> /\ Len(fromRelay') = 0
        /\ since = NeverWatched
    BY <1>0, <1>e DEF Connect, AuthFirst
  <2>2. \A i \in 1 .. Len(fromRelay'), x \in Keys : About(fromRelay[i], x)' => About(fromRelay[i], x)
    BY <2>1
  <2>3. link' = "open" /\ admitted' => (link = "open" /\ admitted) \/ since = NeverWatched
    BY <2>1
  <2> QED BY <1>0, <2>1, <2>2, <2>3, QuietKeepsPicture
<1>f. ASSUME NEW c \in Calls, Timeout(c)
      PROVE  PictureInv'
  <2>1. UNCHANGED <<log, picture, since, admitted>>
    BY <1>f DEF Timeout, relay
  <2>2. CASE Down
    BY <1>0, <1>b, <2>1, <2>2, DownIs
  <2>3. CASE calls' = Without({c}) /\ (CloseTransport \/ UNCHANGED <<link, fromRelay>>)
    <3>1. \A d \in Calls : calls'[d] \in {calls[d], Idle}
      BY <2>3 DEF Without
    <3>2. /\ fromRelay' = fromRelay \/ (Len(fromRelay') = 0 /\ link' # "open")
          /\ link' # "open" \/ link' = link
      BY <2>3, EmptyIs DEF CloseTransport
    <3> QED BY <1>0, <1>b, <2>1, <3>1, <3>2
  <2> QED BY <1>f, <2>2, <2>3 DEF Timeout
<1>g. CASE Close
  <2>1. UNCHANGED <<log, picture, since, admitted>>
    BY <1>g DEF Close, relay
  <2>2. CASE Down
    BY <1>0, <1>b, <2>1, <2>2, DownIs
  <2>3. CASE calls' = Without(Calls) /\ CloseTransport
    <3>1. \A d \in Calls : calls'[d] \in {calls[d], Idle}
      BY <2>3 DEF Without
    <3>2. Len(fromRelay') = 0 /\ link' # "open"
      BY <2>3, EmptyIs DEF CloseTransport
    <3> QED BY <1>0, <1>b, <2>1, <3>1, <3>2
  <2> QED BY <1>g, <2>2, <2>3 DEF Close
(* A parked recv is about no key. *)
<1>h. ASSUME NEW c \in Calls, Wake(c)
      PROVE  PictureInv'
  <2>0. /\ UNCHANGED <<link, calls, since, picture, log, admitted>>
        /\ c \in parked /\ Reply(c, TRUE, 0)
    BY <1>h DEF Wake, relay
  <2>a. calls[c] # Idle => calls[c].op = "other"
    BY <1>0, <2>0 DEF SameCall
  <2>b. 0 \in 0 .. MaxChanges
    BY <1>0
  <2>1. PICK m \in Answer : /\ m.at = "answer" /\ m.id = c /\ m.change = 0
                            /\ fromRelay' = fromRelay \/ (link = "open" /\ Extends(fromRelay, fromRelay', m))
    <3>1. ASSUME NEW ok \in BOOLEAN, Reply(c, ok, 0)
          PROVE  \E m \in Answer :
                   /\ m.at = "answer" /\ m.id = c /\ m.change = 0
                   /\ fromRelay' = fromRelay \/ (link = "open" /\ Extends(fromRelay, fromRelay', m))
      BY <1>0, <2>b, <3>1, ReplyIs
    <3> QED BY <2>0, <3>1
  <2>2. \A k \in Keys : ~About(m, k)
    BY <2>a, <2>0, <2>1 DEF About
  <2>3. m \in Answer \cup Notice /\ m.change \in 0 .. Len(log') /\ m.change # Len(log) + 1
    BY <1>0, <2>0, <2>b, <2>1
  <2> QED BY <1>0, <2>0, <2>1, <2>2, <2>3, WriteKeepsPicture
<1>i. CASE ConnectFails
  BY <1>0, <1>b, <1>i DEF ConnectFails, relay, wires
(* Nothing has changed since now. *)
<1>j. CASE Watch
  <2>1. UNCHANGED <<link, calls, picture, log, admitted, fromRelay>> /\ since' = Len(log)
    BY <1>j DEF Watch, relay, wires
  <2>2. Numbers /\ InOrder
    BY DEF PictureInv
  <2>3. Numbers' /\ InOrder'
    BY <2>1, <2>2 DEF Numbers, InOrder, About
  <2>4. /\ \A k \in Keys : picture[k] <= Len(log)
        /\ \A i \in 1 .. Len(fromRelay) : fromRelay[i].change <= Len(log)
    BY <1>0, <2>2 DEF Numbers
  <2>5. Coming' /\ Cuts' /\ PictureConsistent'
    BY <1>0, <2>1, <2>4, RangesAre DEF Coming, Cuts, PictureConsistent
  <2> QED BY <2>3, <2>5 DEF PictureInv
<1>k. CASE LinkCloses
  BY <1>0, <1>b, <1>k, EmptyIs DEF LinkCloses, Cut, relay
<1>l. CASE SockCloses
  BY <1>0, <1>b, <1>l DEF SockCloses
<1>m. CASE UNCHANGED vars
  BY <1>0, <1>b, <1>m DEF vars, relay, wires
<1>n. CASE Serve
  BY <1>n, ServeKeepsPicture
<1>o. CASE Receive
  BY <1>o, ReceiveKeepsPicture DEF TypeInv
<1>p. CASE Next
  BY <1>c, <1>d, <1>e, <1>f, <1>g, <1>h, <1>i, <1>j, <1>k, <1>l, <1>n, <1>o, <1>p DEF Next
<1> QED BY <1>m, <1>p

-----------------------------------------------------------------------------
(* The theorems *)

LEMMA PictureAlways == Spec => [](TypeInv /\ ProtocolInv /\ PictureInv)
<1>1. Init => TypeInv /\ ProtocolInv /\ PictureInv
  BY TypeInit, ProtocolInit, PictureInit
<1>2. TypeInv /\ ProtocolInv /\ PictureInv /\ [Next]_vars
        => (TypeInv /\ ProtocolInv /\ PictureInv)'
  BY TypeStep, ProtocolStep, PictureStep
<1> QED BY <1>1, <1>2, PTL DEF Spec

(* What an agent has learned of the shared context is a consistent cut of    *)
(* what others did: whoever sees a change, in a notice, an answer or what a  *)
(* write returned, has seen what was changed before it.                      *)
THEOREM PictureIsConsistent == Spec => []PictureConsistent
<1>1. PictureInv => PictureConsistent
  BY DEF PictureInv
<1> QED BY <1>1, PictureAlways, PTL

(* While the relay has the agent among its clients and the connection is     *)
(* open, the last change that another made to a key is known to the agent,   *)
(* or a notice of it is under way.                                           *)
THEOREM PictureIsTrue == Spec => []PictureTrue
<1>1. TypeInv /\ ProtocolInv /\ PictureInv => PictureTrue
  <2> SUFFICES ASSUME TypeInv, PictureInv, NEW k \in Keys, link = "open", admitted,
                      since < LastChange(k), ~log[LastChange(k)].own
               PROVE  \/ picture[k] = LastChange(k)
                      \/ \E i \in DOMAIN fromRelay :
                           fromRelay[i].at = "changed" /\ fromRelay[i].change = LastChange(k)
    BY DEF PictureTrue
  <2>1. /\ TypeOK /\ Numbers /\ Coming /\ log \in Seq(Change) /\ fromRelay \in Seq(Answer \cup Notice)
        /\ Len(log) \in Nat /\ since \in Nat
    BY RangesAre DEF PictureInv, TypeInv, TypeOK
  <2>a. MaxChanges \in Nat /\ Len(log) <= MaxChanges
    BY <2>1, RangesAre
  <2>2. PICK n \in 0 .. MaxChanges : n = LastChange(k)
    BY <2>1, <2>a, LastChangeIs DEF TypeInv
  <2>3. /\ n \in 0 .. Len(log) /\ (n # 0 => log[n].key = k)
        /\ \A i \in 1 .. Len(log) : log[i].key = k => i <= n
    BY <2>1, <2>2, LastChangeIs DEF TypeInv
  <2>4. n \in since + 1 .. Len(log) /\ n # 0 /\ ~log[n].own
    BY <2>1, <2>2, <2>3
  <2>5. Known(n, Len(fromRelay))
    BY <2>1, <2>4 DEF Coming
  <2>6. CASE n <= picture[k]
    <3>1. picture[k] \in 0 .. Len(log) /\ (picture[k] # 0 => log[picture[k]].key = k)
      BY <2>1 DEF Numbers
    <3>2. picture[k] = n
      BY <2>1, <2>3, <2>4, <2>6, <3>1
    <3> QED BY <2>2, <3>2
  <2>7. CASE \E q \in 1 .. Len(fromRelay) : fromRelay[q].at = "changed" /\ fromRelay[q].change = n
    BY <2>1, <2>2, <2>7
  <2> QED BY <2>3, <2>4, <2>5, <2>6, <2>7 DEF Known
<1> QED BY <1>1, PictureAlways, PTL

=============================================================================
