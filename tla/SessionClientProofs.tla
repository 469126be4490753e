------------------------ MODULE SessionClientProofs ------------------------
(***************************************************************************)
(* Proofs about the orchestrator's session, for any sets of names, spawns, *)
(* waiters and sends, and any maxSandboxes.                                *)
(***************************************************************************)
EXTENDS SessionClient, FiniteSetTheorems, TLAPS

-----------------------------------------------------------------------------
(* Types *)

LEMMA RegisterIsCall == \A p \in Spawns : Register(p) \in Calls
BY DEF Calls

LEMMA UnregisterIsCall == \A n \in Names : Unregister(n) \in Calls
BY DEF Calls

LEMMA TransmitType ==
  ASSUME TypeOK, NEW calls \in Seq(Calls)
  PROVE  Transmit(calls) \in Seq(Calls)
<1>1. toRelay \o calls \in Seq(Calls)
  BY DEF TypeOK
<1> QED BY <1>1 DEF Transmit, TypeOK

LEMMA RejectedType ==
  ASSUME TypeOK
  PROVE  Rejected \in [Calls -> {"none", "waiting", "ok", "error"}]
BY DEF Rejected, TypeOK

LEMMA SettleWaitersType ==
  ASSUME TypeOK, NEW names, NEW result \in {"completed", "rejected"},
         SettleWaiters(names, result)
  PROVE  /\ waiters' \in [Names -> SUBSET Waits]
         /\ wait' \in [Waits -> {"none", "waiting", "completed", "timeout", "rejected"}]
         /\ waitTimers' \subseteq Waits
BY DEF SettleWaiters, TypeOK

(* A spawn that has begun has its name, and only such a one asks to be      *)
(* registered: the relay never sees a name that nobody chose.               *)
Begun(call) == call.method = "session.register" => spawn[call.of] # "none"

NamesGiven ==
  /\ \A p \in Spawns : spawn[p] # "none" => nameOf[p] \in Names
  /\ \A p \in doomed : spawn[p] # "none"
  /\ \A n \in Names, p \in Spawns : sandboxes[n] = p => spawn[p] # "none"

Named == NamesGiven /\ \A i \in 1 .. Len(toRelay) : Begun(toRelay[i])

LEMMA TransmitElements ==
  ASSUME TypeOK, NEW calls \in Seq(Calls), NEW i \in 1 .. Len(Transmit(calls))
  PROVE  \/ i \in 1 .. Len(toRelay) /\ Transmit(calls)[i] = toRelay[i]
         \/ \E j \in 1 .. Len(calls) : Transmit(calls)[i] = calls[j]
<1>1. toRelay \in Seq(Calls)
  BY DEF TypeOK
<1>2. CASE ws = "OPEN"
  <2>1. Transmit(calls) = toRelay \o calls
    BY <1>2 DEF Transmit
  <2>2. CASE i <= Len(toRelay)
    BY <1>1, <2>1, <2>2
  <2>3. CASE i > Len(toRelay)
    <3>1. /\ i - Len(toRelay) \in 1 .. Len(calls)
          /\ Transmit(calls)[i] = calls[i - Len(toRelay)]
      BY <1>1, <2>1, <2>3
    <3> QED BY <3>1
  <2> QED BY <1>1, <2>2, <2>3
<1>3. CASE ws # "OPEN"
  BY <1>3 DEF Transmit
<1> QED BY <1>2, <1>3

LEMMA CloseRequests ==
  ASSUME TypeOK, Close
  PROVE  \E calls \in Seq(Calls) :
           /\ toRelay' = Transmit(calls)
           /\ \A j \in 1 .. Len(calls) : calls[j].method = "session.unregister"
<1>1. PICK live \in SUBSET Names : live = {n \in Names : sandboxes[n] \in Spawns}
  OBVIOUS
<1>2. PICK calls \in [1 .. Cardinality(live) -> {Unregister(n) : n \in live}] :
        toRelay' = Transmit(calls)
  BY <1>1 DEF Close
<1>3. Cardinality(live) \in Nat
  BY <1>1, SessionConstants, FS_Subset, FS_CardinalityType
<1>4. calls \in Seq(Calls) /\ Len(calls) = Cardinality(live)
  BY <1>2, <1>3, UnregisterIsCall
<1>5. \A j \in 1 .. Len(calls) : calls[j].method = "session.unregister"
  BY <1>2, <1>4 DEF Unregister
<1> QED BY <1>2, <1>4, <1>5

LEMMA TypeOKStep == TypeOK /\ Named /\ [Next]_vars => TypeOK'
<1> SUFFICES ASSUME TypeOK, Named, [Next]_vars PROVE TypeOK'
  OBVIOUS
<1> USE DEF connection, spawning, waiting, closing
<1>1. ASSUME NEW p \in Spawns, Registered(p) PROVE TypeOK'
  BY <1>1 DEF Registered, TypeOK, InFlight
<1>2. CASE DestroyAll
  BY <1>2 DEF DestroyAll, Live, TypeOK
<1>3. CASE Disconnect
  BY <1>3 DEF Disconnect, TypeOK
<1>4. ASSUME NEW p \in Spawns, NEW n \in Names, Spawn(p, n) PROVE TypeOK'
  BY <1>4 DEF Spawn, TypeOK, InFlight
<1>5. ASSUME NEW p \in Spawns, Created(p) PROVE TypeOK'
  <2>1. <<Register(p)>> \in Seq(Calls)
    BY RegisterIsCall
  <2>2. toRelay' \in Seq(Calls)
    BY <1>5, <2>1, TransmitType DEF Created
  <2> QED BY <1>5, <2>2 DEF Created, Settle, TypeOK, InFlight
<1>6. ASSUME NEW p \in Spawns, CreateFails(p) PROVE TypeOK'
  BY <1>6 DEF CreateFails, TypeOK
<1>7. ASSUME NEW p \in Spawns, NEW ok \in BOOLEAN, Undone(p, ok) PROVE TypeOK'
  BY <1>7 DEF Undone, TypeOK
<1>8. ASSUME NEW p \in Spawns, NEW ok \in BOOLEAN, Torn(p, ok) PROVE TypeOK'
  BY <1>8 DEF Torn, TypeOK
<1>9. ASSUME NEW m \in Sends, Send(m) PROVE TypeOK'
  <2> DEFINE c == [method |-> "message.send", of |-> m]
  <2>1. c \in Calls
    BY DEF Calls
  <2>2. <<c>> \in Seq(Calls)
    BY <2>1
  <2>3. toRelay' \in Seq(Calls)
    BY <1>9, <2>2, TransmitType DEF Send
  <2> QED BY <1>9, <2>3 DEF Send, Settle, TypeOK
<1>10. CASE Answer
  <2>1. PICK c \in Calls : c = Head(toRelay)
    BY <1>10 DEF Answer, TypeOK
  <2>2. toRelay' \in Seq(Calls)
    BY <1>10 DEF Answer, TypeOK
  <2>3. registered' \subseteq Names
    <3>1. CASE c.method = "session.register"
      <4>1. c.of \in Spawns
        BY <2>1, <3>1 DEF Calls, Register, Unregister
      <4>2. 1 \in 1 .. Len(toRelay) /\ c = toRelay[1]
        BY <1>10, <2>1 DEF Answer, TypeOK
      <4>3. Begun(c)
        BY <4>2 DEF Named
      <4>4. nameOf[c.of] \in Names
        BY <3>1, <4>1, <4>3 DEF Named, NamesGiven, Begun
      <4> QED BY <1>10, <2>1, <3>1, <4>4 DEF Answer, NameIn, TypeOK
    <3>2. CASE c.method # "session.register"
      BY <1>10, <2>1, <3>2 DEF Answer, NameIn, TypeOK
    <3> QED BY <3>1, <3>2
  <2>4. fromRelay' \in Seq(FromRelay)
    <3>1. \A ok \in BOOLEAN : [response |-> c, ok |-> ok] \in FromRelay
      BY DEF FromRelay
    <3>2. PICK ok \in BOOLEAN :
            fromRelay' = IF ws = "OPEN" THEN Append(fromRelay, [response |-> c, ok |-> ok])
                         ELSE fromRelay
      BY <1>10, <2>1 DEF Answer
    <3> QED BY <3>1, <3>2 DEF TypeOK
  <2> QED BY <1>10, <2>2, <2>3, <2>4 DEF Answer, TypeOK
<1>11. ASSUME NEW n \in Names, Complete(n) PROVE TypeOK'
  <2>1. fromRelay' \in Seq(FromRelay)
    BY <1>11 DEF Complete, FromRelay, TypeOK
  <2> QED BY <1>11, <2>1 DEF Complete, TypeOK
<1>12. CASE ReceiveResponse
  <2>1. fromRelay' \in Seq(FromRelay)
    BY <1>12 DEF ReceiveResponse, TypeOK
  <2>2. outcome' \in [Calls -> {"none", "waiting", "ok", "error"}]
    BY <1>12 DEF ReceiveResponse, Settle, TypeOK
  <2> QED BY <1>12, <2>1, <2>2 DEF ReceiveResponse, TypeOK
<1>13. CASE ReceiveState
  <2>1. fromRelay' \in Seq(FromRelay) /\ Head(fromRelay) \in FromRelay
    BY <1>13 DEF ReceiveState, TypeOK
  <2>2. Head(fromRelay).completed \in Names
    BY <1>13, <2>1 DEF ReceiveState, FromRelay
  <2> QED BY <1>13, <2>1, <2>2, SettleWaitersType DEF ReceiveState, TypeOK
<1>14. ASSUME NEW c \in Calls, RpcTimeout(c) PROVE TypeOK'
  BY <1>14 DEF RpcTimeout, Settle, TypeOK
<1>15. ASSUME NEW survive \in 0 .. Len(toRelay), SocketClosed(survive) PROVE TypeOK'
  <2>1. toRelay' \in Seq(Calls)
    BY <1>15 DEF SocketClosed, TypeOK
  <2>2. SettleWaiters(Names, "rejected") /\ outcome' = Rejected
    BY <1>15 DEF SocketClosed
  <2>3. /\ waiters' \in [Names -> SUBSET Waits]
        /\ wait' \in [Waits -> {"none", "waiting", "completed", "timeout", "rejected"}]
        /\ waitTimers' \subseteq Waits
    BY <2>2, SettleWaitersType
  <2>4. outcome' \in [Calls -> {"none", "waiting", "ok", "error"}]
    BY <2>2, RejectedType
  <2>5. /\ ws' \in {"OPEN", "CLOSING", "CLOSED"} /\ fromRelay' \in Seq(FromRelay)
        /\ phase' \in {"open", "unregistering", "destroying", "disconnecting", "closed"}
    BY <1>15 DEF SocketClosed, AfterClose, TypeOK
  <2>6. UNCHANGED <<registered, sandboxes, spawn, nameOf, cloud, completions, doomed, ready>>
    BY <1>15 DEF SocketClosed
  <2> QED BY <2>1, <2>3, <2>4, <2>5, <2>6 DEF TypeOK
<1>16. ASSUME NEW w \in Waits, NEW n \in Names, NEW timed \in BOOLEAN, WaitFor(w, n, timed)
       PROVE  TypeOK'
  <2>1. /\ waiters' \in [Names -> SUBSET Waits]
        /\ wait' \in [Waits -> {"none", "waiting", "completed", "timeout", "rejected"}]
        /\ waitTimers' \subseteq Waits
    <3>1. CASE AlreadyCompleted(n)
      BY <1>16, <3>1 DEF WaitFor, TypeOK
    <3>2. CASE ~AlreadyCompleted(n)
      <4>1. waiters' = [waiters EXCEPT ![n] = @ \cup {w}]
        BY <1>16, <3>2 DEF WaitFor
      <4>2. waiters' \in [Names -> SUBSET Waits]
        BY <4>1 DEF TypeOK
      <4> QED BY <1>16, <3>2, <4>2 DEF WaitFor, TypeOK
    <3> QED BY <3>1, <3>2
  <2>2. UNCHANGED <<connection, outcome, spawning, completions, closing>>
    BY <1>16 DEF WaitFor
  <2> QED BY <2>1, <2>2 DEF TypeOK
<1>17. ASSUME NEW w \in Waits, WaitTimeout(w) PROVE TypeOK'
  BY <1>17 DEF WaitTimeout, TypeOK
<1>18. CASE Close
  <2>1. SettleWaiters(Names, "rejected")
    BY <1>18 DEF Close
  <2>2. PICK calls \in Seq(Calls) : toRelay' = Transmit(calls)
    BY <1>18, CloseRequests
  <2>3. toRelay' \in Seq(Calls)
    BY <2>2, TransmitType
  <2>4. outcome' \in [Calls -> {"none", "waiting", "ok", "error"}]
    BY <1>18, RejectedType DEF Close
  <2> QED BY <1>18, <2>1, <2>3, <2>4, SettleWaitersType DEF Close, TypeOK
<1>19. CASE UNCHANGED vars
  BY <1>19 DEF vars, TypeOK
<1> QED
  BY <1>1, <1>2, <1>3, <1>4, <1>5, <1>6, <1>7, <1>8, <1>9, <1>10, <1>11, <1>12, <1>13,
     <1>14, <1>15, <1>16, <1>17, <1>18, <1>19 DEF Next

LEMMA NamesGivenStep ==
  ASSUME TypeOK, NamesGiven, [Next]_vars
  PROVE  NamesGiven' /\ \A p \in Spawns : spawn[p] # "none" => spawn'[p] # "none"
<1> USE DEF connection, spawning, waiting, closing, NamesGiven
<1> DEFINE Goal == NamesGiven' /\ \A p \in Spawns : spawn[p] # "none" => spawn'[p] # "none"
<1>1. ASSUME NEW p \in Spawns, Registered(p) PROVE Goal
  <2>1. CASE outcome[Register(p)] = "ok"
    BY <1>1, <2>1 DEF Registered, RegisterSettled, TypeOK
  <2>2. CASE outcome[Register(p)] # "ok"
    BY <1>1, <2>2 DEF Registered, RegisterSettled, TypeOK
  <2> QED BY <2>1, <2>2
<1>2. CASE DestroyAll
  BY <1>2 DEF DestroyAll, Live
<1>3. CASE Disconnect
  BY <1>3, SessionConstants DEF Disconnect
<1>4. ASSUME NEW p \in Spawns, NEW n \in Names, Spawn(p, n) PROVE Goal
  BY <1>4, SessionConstants DEF Spawn, TypeOK
<1>5. ASSUME NEW p \in Spawns, Created(p) PROVE Goal
  BY <1>5 DEF Created, TypeOK
<1>6. ASSUME NEW p \in Spawns, CreateFails(p) PROVE Goal
  BY <1>6, SessionConstants DEF CreateFails, TypeOK
<1>7. ASSUME NEW p \in Spawns, NEW ok \in BOOLEAN, Undone(p, ok) PROVE Goal
  BY <1>7, SessionConstants DEF Undone, TypeOK
<1>8. ASSUME NEW p \in Spawns, NEW ok \in BOOLEAN, Torn(p, ok) PROVE Goal
  BY <1>8 DEF Torn, TypeOK
<1>9. ASSUME UNCHANGED <<spawn, nameOf, sandboxes, doomed>> PROVE Goal
  BY <1>9
<1>10. ASSUME NEW m \in Sends, Send(m) PROVE Goal
  BY <1>9, <1>10 DEF Send
<1>11. CASE Answer
  BY <1>9, <1>11 DEF Answer
<1>12. ASSUME NEW n \in Names, Complete(n) PROVE Goal
  BY <1>9, <1>12 DEF Complete
<1>13. CASE ReceiveResponse
  BY <1>9, <1>13 DEF ReceiveResponse
<1>14. CASE ReceiveState
  BY <1>9, <1>14 DEF ReceiveState
<1>15. ASSUME NEW c \in Calls, RpcTimeout(c) PROVE Goal
  BY <1>9, <1>15 DEF RpcTimeout
<1>16. ASSUME NEW survive \in 0 .. Len(toRelay), SocketClosed(survive) PROVE Goal
  BY <1>9, <1>16 DEF SocketClosed
<1>17. ASSUME NEW w \in Waits, NEW n \in Names, NEW timed \in BOOLEAN, WaitFor(w, n, timed)
       PROVE  Goal
  BY <1>9, <1>17 DEF WaitFor
<1>18. ASSUME NEW w \in Waits, WaitTimeout(w) PROVE Goal
  BY <1>9, <1>18 DEF WaitTimeout
<1>19. CASE Close
  BY <1>9, <1>19 DEF Close
<1>20. CASE UNCHANGED vars
  BY <1>9, <1>20 DEF vars
<1> QED
  BY <1>1, <1>2, <1>3, <1>4, <1>5, <1>6, <1>7, <1>8, <1>10, <1>11, <1>12, <1>13,
     <1>14, <1>15, <1>16, <1>17, <1>18, <1>19, <1>20 DEF Next

(* Every request on its way was there before, or comes from the step. *)
LEMMA RequestsStep ==
  ASSUME TypeOK, [Next]_vars, NEW i \in 1 .. Len(toRelay')
  PROVE  \/ \E j \in 1 .. Len(toRelay) : toRelay'[i] = toRelay[j]
         \/ toRelay'[i].method # "session.register"
         \/ \E p \in Spawns : Created(p) /\ toRelay'[i] = Register(p)
<1> USE DEF connection
<1> DEFINE Goal == \/ \E j \in 1 .. Len(toRelay) : toRelay'[i] = toRelay[j]
                   \/ toRelay'[i].method # "session.register"
                   \/ \E p \in Spawns : Created(p) /\ toRelay'[i] = Register(p)
<1>1. toRelay \in Seq(Calls)
  BY DEF TypeOK
<1>2. CASE UNCHANGED toRelay
  BY <1>2
<1>3. ASSUME NEW p \in Spawns, Created(p) PROVE Goal
  <2>1. <<Register(p)>> \in Seq(Calls) /\ toRelay' = Transmit(<<Register(p)>>)
    BY <1>3, RegisterIsCall DEF Created
  <2> QED BY <1>3, <2>1, TransmitElements
<1>4. ASSUME NEW m \in Sends, Send(m) PROVE Goal
  <2>1. PICK c \in Calls : c = [method |-> "message.send", of |-> m]
    BY DEF Calls
  <2>2. <<c>> \in Seq(Calls) /\ toRelay' = Transmit(<<c>>) /\ c.method # "session.register"
    BY <1>4, <2>1 DEF Send
  <2>3. (\E j \in 1 .. Len(toRelay) : toRelay'[i] = toRelay[j]) \/ toRelay'[i] = c
    <3>1. PICK calls \in Seq(Calls) : calls = <<c>> /\ Len(calls) = 1 /\ calls[1] = c
      BY <2>2
    <3>2. i \in 1 .. Len(Transmit(calls)) /\ toRelay'[i] = Transmit(calls)[i]
      BY <2>2, <3>1
    <3>3. \/ i \in 1 .. Len(toRelay) /\ Transmit(calls)[i] = toRelay[i]
          \/ \E j \in 1 .. Len(calls) : Transmit(calls)[i] = calls[j]
      BY <3>2, TransmitElements
    <3>4. \A j \in 1 .. Len(calls) : calls[j] = c
      BY <3>1
    <3> QED BY <3>2, <3>3, <3>4
  <2> QED BY <2>2, <2>3
<1>5. CASE Answer
  <2>1. toRelay # <<>> /\ toRelay' = Tail(toRelay)
    BY <1>5 DEF Answer
  <2>2. i + 1 \in 1 .. Len(toRelay) /\ toRelay'[i] = toRelay[i + 1]
    BY <1>1, <2>1
  <2> QED BY <2>2
<1>6. ASSUME NEW survive \in 0 .. Len(toRelay), SocketClosed(survive) PROVE Goal
  <2>1. toRelay' = SubSeq(toRelay, 1, survive)
    BY <1>6 DEF SocketClosed
  <2>2. i \in 1 .. Len(toRelay) /\ toRelay'[i] = toRelay[i]
    BY <1>1, <2>1
  <2> QED BY <2>2
<1>7. CASE Close
  <2>1. PICK calls \in Seq(Calls) :
          /\ toRelay' = Transmit(calls)
          /\ \A j \in 1 .. Len(calls) : calls[j].method = "session.unregister"
    BY <1>7, CloseRequests
  <2> QED BY <2>1, TransmitElements
<1> QED
  BY <1>2, <1>3, <1>4, <1>5, <1>6, <1>7
  DEF Next, vars, Registered, DestroyAll, Disconnect, Spawn, CreateFails, Undone, Torn,
      Complete, ReceiveResponse, ReceiveState, RpcTimeout, WaitFor, WaitTimeout

LEMMA NamedStep == TypeOK /\ Named /\ [Next]_vars => Named'
<1> SUFFICES ASSUME TypeOK, Named, [Next]_vars PROVE Named'
  OBVIOUS
<1>1. NamesGiven' /\ \A p \in Spawns : spawn[p] # "none" => spawn'[p] # "none"
  BY NamesGivenStep DEF Named
<1>2. /\ toRelay \in Seq(Calls)
      /\ \A c \in Calls : c.method = "session.register" => c.of \in Spawns
  BY DEF TypeOK, Calls, Register, Unregister
<1>3. ASSUME NEW i \in 1 .. Len(toRelay') PROVE Begun(toRelay[i])'
  <2>1. ASSUME NEW j \in 1 .. Len(toRelay), toRelay'[i] = toRelay[j]
        PROVE  Begun(toRelay[i])'
    <3>1. toRelay[j] \in Calls /\ Begun(toRelay[j])
      BY <1>2 DEF Named
    <3> QED BY <1>1, <1>2, <2>1, <3>1 DEF Begun
  <2>2. ASSUME NEW p \in Spawns, Created(p), toRelay'[i] = Register(p)
        PROVE  Begun(toRelay[i])'
    BY <2>2 DEF Begun, Register, Created, TypeOK
  <2>3. ASSUME toRelay'[i].method # "session.register"
        PROVE  Begun(toRelay[i])'
    BY <2>3 DEF Begun
  <2> QED BY <2>1, <2>2, <2>3, RequestsStep
<1> QED BY <1>1, <1>3 DEF Named

LEMMA TypesAndNames == Spec => [](TypeOK /\ Named)
<1>1. Init => TypeOK /\ Named
  BY SessionConstants DEF Init, TypeOK, InFlight, Named, NamesGiven
<1> QED BY <1>1, TypeOKStep, NamedStep, PTL DEF Spec

(* The session's state has the types that the code gives it. *)
THEOREM TypeCorrect == Spec => []TypeOK
BY TypesAndNames, PTL
-----------------------------------------------------------------------------
(* Waiters *)

\* A call of waitFor is on the list of one name.
OneList == \A w \in Waits, m, n \in Names : w \in waiters[m] /\ w \in waiters[n] => m = n

WaitersInv == NoSleeper /\ OneList

LEMMA SettleKeepsWaiters ==
  ASSUME TypeOK, WaitersInv, NEW names \in SUBSET Names,
         NEW result \in {"completed", "rejected"}, SettleWaiters(names, result),
         completions' \subseteq completions \cup names
  PROVE  WaitersInv'
<1>1. PICK told : told = UNION {waiters[n] : n \in names}
  OBVIOUS
<1>2. \A w \in Waits : wait'[w] = IF w \in told /\ wait[w] = "waiting" THEN result ELSE wait[w]
  BY <1>1 DEF SettleWaiters
<1>3. \A n \in Names : waiters'[n] = IF n \in names THEN {} ELSE waiters[n]
  BY DEF SettleWaiters
<1>4. \A n \in completions' : waiters'[n] = {}
  BY <1>3 DEF WaitersInv, NoSleeper, TypeOK
<1>5. ASSUME NEW w \in Waits PROVE wait'[w] = "waiting" <=> \E n \in Names : w \in waiters'[n]
  <2>1. ASSUME wait'[w] = "waiting" PROVE \E n \in Names : w \in waiters'[n]
    <3>1. w \notin told /\ wait[w] = "waiting"
      BY <1>2, <2>1
    <3>2. PICK n \in Names : w \in waiters[n]
      BY <3>1 DEF WaitersInv, NoSleeper
    <3> QED BY <1>1, <1>3, <3>1, <3>2
  <2>2. ASSUME NEW n \in Names, w \in waiters'[n] PROVE wait'[w] = "waiting"
    <3>1. n \notin names /\ w \in waiters[n]
      BY <1>3, <2>2
    <3>2. wait[w] = "waiting"
      BY <3>1 DEF WaitersInv, NoSleeper
    <3>3. w \notin told
      BY <1>1, <3>1 DEF WaitersInv, OneList
    <3> QED BY <1>2, <3>2, <3>3
  <2> QED BY <2>1, <2>2
<1>6. OneList'
  BY <1>3 DEF WaitersInv, OneList
<1> QED BY <1>4, <1>5, <1>6 DEF WaitersInv, NoSleeper

LEMMA WaitersStep == TypeOK /\ WaitersInv /\ [Next]_vars => WaitersInv'
<1> SUFFICES ASSUME TypeOK, WaitersInv, [Next]_vars PROVE WaitersInv'
  OBVIOUS
<1> USE DEF waiting
<1>1. ASSUME UNCHANGED waiting PROVE WaitersInv'
  BY <1>1 DEF WaitersInv, NoSleeper, OneList
<1>2. CASE ReceiveState
  <2>1. Head(fromRelay) \in FromRelay
    BY <1>2 DEF ReceiveState, TypeOK
  <2>2. PICK n \in Names : n = Head(fromRelay).completed
    BY <1>2, <2>1 DEF ReceiveState, FromRelay
  <2>3. SettleWaiters({n}, "completed") /\ completions' = completions \cup {n}
    BY <1>2, <2>2 DEF ReceiveState
  <2> QED BY <2>3, SettleKeepsWaiters
<1>3. ASSUME NEW survive \in 0 .. Len(toRelay), SocketClosed(survive) PROVE WaitersInv'
  <2>1. SettleWaiters(Names, "rejected") /\ completions' = completions
    BY <1>3 DEF SocketClosed
  <2> QED BY <2>1, SettleKeepsWaiters
<1>4. CASE Close
  <2>1. SettleWaiters(Names, "rejected") /\ completions' = completions
    BY <1>4 DEF Close
  <2> QED BY <2>1, SettleKeepsWaiters
<1>5. ASSUME NEW w \in Waits, NEW n \in Names, NEW timed \in BOOLEAN, WaitFor(w, n, timed)
      PROVE  WaitersInv'
  <2>1. CASE AlreadyCompleted(n)
    BY <1>5, <2>1 DEF WaitFor, WaitersInv, NoSleeper, OneList, TypeOK
  <2>2. CASE ~AlreadyCompleted(n)
    <3>1. n \notin completions /\ completions' = completions /\ wait[w] = "none"
      BY <1>5, <2>2 DEF WaitFor, AlreadyCompleted
    <3>2. \A m \in Names : waiters'[m] = IF m = n THEN waiters[n] \cup {w} ELSE waiters[m]
      BY <1>5, <2>2 DEF WaitFor, TypeOK
    <3>3. \A v \in Waits : wait'[v] = IF v = w THEN "waiting" ELSE wait[v]
      BY <1>5, <2>2 DEF WaitFor, TypeOK
    <3>4. \A m \in Names : w \notin waiters[m]
      BY <3>1 DEF WaitersInv, NoSleeper
    <3>5. completions \subseteq Names
      BY DEF TypeOK
    <3> QED BY <3>1, <3>2, <3>3, <3>4, <3>5 DEF WaitersInv, NoSleeper, OneList
  <2> QED BY <2>1, <2>2
<1>6. ASSUME NEW w \in Waits, WaitTimeout(w) PROVE WaitersInv'
  <2>1. completions' = completions /\ completions \subseteq Names
    BY <1>6 DEF WaitTimeout, TypeOK
  <2>2. \A n \in Names : waiters'[n] = waiters[n] \ {w}
    BY <1>6 DEF WaitTimeout
  <2>3. \A v \in Waits : wait'[v] = IF v = w THEN "timeout" ELSE wait[v]
    BY <1>6 DEF WaitTimeout, TypeOK
  <2> QED BY <2>1, <2>2, <2>3 DEF WaitersInv, NoSleeper, OneList
<1> QED
  BY <1>1, <1>2, <1>3, <1>4, <1>5, <1>6
  DEF Next, vars, Registered, DestroyAll, Disconnect, Spawn, Created, CreateFails, Undone,
      Torn, Send, Answer, Complete, ReceiveResponse, RpcTimeout

(* Nobody sleeps through a completion that was reported (waitFor). *)
THEOREM WaitersSafe == Spec => []NoSleeper
<1>1. Init => WaitersInv
  BY DEF Init, WaitersInv, NoSleeper, OneList
<1> QED BY <1>1, TypesAndNames, WaitersStep, PTL DEF Spec, WaitersInv

-----------------------------------------------------------------------------
(* Names and sandboxes *)

Early     == phase \in {"open", "unregistering", "destroying"}
Flying(p) == spawn[p] \in InFlight

\* The inductive invariant.  The map and the spawns determine each other until
\* close() clears the map; the provider runs what a spawn or the map holds.
FlyingReserve == \A p \in Spawns : Flying(p) => sandboxes[nameOf[p]] = "reserved"
ReservedFly   == \A n \in Names : sandboxes[n] = "reserved" =>
                   \E p \in Spawns : Flying(p) /\ nameOf[p] = n
OneFlying     == \A p, q \in Spawns : Flying(p) /\ Flying(q) /\ nameOf[p] = nameOf[q] => p = q
LiveMapped    == \A p \in Spawns : spawn[p] = "live" => sandboxes[nameOf[p]] = p
MapLive       == \A n \in Names, p \in Spawns : sandboxes[n] = p =>
                   /\ nameOf[p] = n
                   /\ spawn[p] \in {"live", "destroyed", "leaked"}
                   /\ phase # "destroying" => spawn[p] = "live"
RoomKept      == Cardinality(Taken) <= MaxSandboxes

Held == FlyingReserve /\ ReservedFly /\ OneFlying /\ LiveMapped /\ MapLive /\ RoomKept

DoomedLive  == /\ \A p \in doomed : spawn[p] = "live"
               /\ phase # "destroying" => doomed = {}
CloudHeld   == \A p \in cloud : spawn[p] \in {"registering", "destroying", "live", "leaked"}
ReadyDoomed == \A p \in ready :
                 /\ phase # "open"
                 /\ phase = "unregistering" => \E n \in Names : sandboxes[n] = p
                 /\ p \in doomed \/ spawn[p] \in {"destroyed", "leaked"} \/ phase = "unregistering"

SandboxInv == (Early => Held) /\ DoomedLive /\ CloudHeld /\ ReadyDoomed

LEMMA HeldStep ==
  ASSUME TypeOK, NamesGiven, SandboxInv, Early', [Next]_vars
  PROVE  Held'
<1> USE DEF spawning, closing
<1>0. ASSUME UNCHANGED <<sandboxes, spawn, nameOf, phase>> PROVE Held'
  BY <1>0 DEF SandboxInv, Held, Early, Flying, FlyingReserve, ReservedFly, OneFlying, LiveMapped,
              MapLive, RoomKept, Taken
<1>1. ASSUME NEW p \in Spawns, Registered(p) PROVE Held'
  <2>1. Held /\ UNCHANGED <<nameOf, phase>>
    BY <1>1 DEF Registered, SandboxInv, Early
  <2>2. /\ spawn[p] = "registering" /\ Flying(p)
        /\ nameOf[p] \in Names /\ sandboxes[nameOf[p]] = "reserved"
    BY <1>1, <2>1 DEF Registered, RegisterSettled, Held, FlyingReserve, Flying, InFlight, NamesGiven
  <2>3. CASE outcome[Register(p)] = "ok"
    <3>1. /\ \A n \in Names : sandboxes'[n] = IF n = nameOf[p] THEN p ELSE sandboxes[n]
          /\ \A q \in Spawns : spawn'[q] = IF q = p THEN "live" ELSE spawn[q]
      BY <1>1, <2>3 DEF Registered, TypeOK
    <3>2. Taken' = Taken
      BY <2>2, <3>1, SessionConstants DEF Taken
    <3>3. \A q \in Spawns \ {p} : Flying(q) => nameOf[q] # nameOf[p]
      BY <2>1, <2>2 DEF Held, OneFlying
    <3>4. FlyingReserve' /\ OneFlying'
      BY <2>1, <2>2, <3>1, <3>3 DEF Held, FlyingReserve, OneFlying, Flying, InFlight, NamesGiven
    <3>5. ReservedFly'
      BY <2>1, <2>2, <3>1, SessionConstants DEF Held, ReservedFly, Flying, InFlight
    <3>6. LiveMapped'
      BY <2>1, <2>2, <3>1, SessionConstants DEF Held, LiveMapped, NamesGiven
    <3>7. MapLive'
      BY <2>1, <2>2, <3>1 DEF Held, MapLive
    <3> QED BY <2>1, <3>2, <3>4, <3>5, <3>6, <3>7 DEF Held, RoomKept
  <2>4. CASE outcome[Register(p)] # "ok"
    <3>1. /\ UNCHANGED sandboxes
          /\ \A q \in Spawns : spawn'[q] = IF q = p THEN "destroying" ELSE spawn[q]
      BY <1>1, <2>4 DEF Registered, TypeOK
    <3>2. \A q \in Spawns : Flying(q)' <=> Flying(q)
      BY <2>2, <3>1 DEF Flying, InFlight
    <3> QED BY <2>1, <2>2, <3>1, <3>2
            DEF Held, FlyingReserve, ReservedFly, OneFlying, LiveMapped, MapLive, RoomKept, Taken
  <2> QED BY <2>3, <2>4
<1>2. CASE DestroyAll
  BY <1>2 DEF DestroyAll, AllUnregistered, SandboxInv, Early, Held, Flying, FlyingReserve,
              ReservedFly, OneFlying, LiveMapped, MapLive, RoomKept, Taken
<1>3. CASE Disconnect
  BY <1>3 DEF Disconnect, Early
<1>4. ASSUME NEW p \in Spawns, NEW n \in Names, Spawn(p, n) PROVE Held'
  <2>1. Held /\ UNCHANGED phase /\ HasRoom /\ spawn[p] = "none" /\ sandboxes[n] = None
    BY <1>4 DEF Spawn, SandboxInv, Early
  <2>2. /\ \A m \in Names : sandboxes'[m] = IF m = n THEN "reserved" ELSE sandboxes[m]
        /\ \A q \in Spawns : spawn'[q] = IF q = p THEN "creating" ELSE spawn[q]
        /\ \A q \in Spawns : nameOf'[q] = IF q = p THEN n ELSE nameOf[q]
    BY <1>4 DEF Spawn, TypeOK
  <2>3. \A q \in Spawns : Flying(q) => nameOf[q] \in Names /\ nameOf[q] # n
    BY <2>1, SessionConstants DEF Held, FlyingReserve, Flying, InFlight, NamesGiven
  <2>4. FlyingReserve' /\ OneFlying'
    BY <2>1, <2>2, <2>3 DEF Held, FlyingReserve, OneFlying, Flying, InFlight
  <2>5. ReservedFly'
    BY <2>1, <2>2 DEF Held, ReservedFly, Flying, InFlight
  <2>6. LiveMapped'
    BY <2>1, <2>2, SessionConstants DEF Held, LiveMapped, NamesGiven
  <2>7. MapLive'
    BY <2>1, <2>2, SessionConstants DEF Held, MapLive
  <2>8. RoomKept'
    <3>1. Taken' \subseteq Taken \cup {n} /\ IsFiniteSet(Taken) /\ Taken \subseteq Names
      BY <2>2, SessionConstants, FS_Subset DEF Taken
    <3>2. IsFiniteSet(Taken \cup {n}) /\ Cardinality(Taken \cup {n}) \in
            {Cardinality(Taken), Cardinality(Taken) + 1}
      BY <3>1, FS_AddElement
    <3>3. Cardinality(Taken') <= Cardinality(Taken \cup {n})
      BY <3>1, <3>2, FS_Subset
    <3>4. Cardinality(Taken) \in Nat /\ Cardinality(Taken') \in Nat
      BY <3>1, <3>2, FS_CardinalityType, FS_Subset
    <3>5. Cardinality(Taken') <= MaxSandboxes
      BY <2>1, <3>2, <3>3, <3>4, SessionConstants DEF HasRoom
    <3> QED BY <3>5 DEF RoomKept
  <2> QED BY <2>4, <2>5, <2>6, <2>7, <2>8 DEF Held
<1>5. ASSUME NEW p \in Spawns, Created(p) PROVE Held'
  <2>1. Held /\ UNCHANGED <<nameOf, sandboxes, phase>> /\ spawn[p] = "creating"
    BY <1>5 DEF Created, SandboxInv, Early
  <2>2. \A q \in Spawns : spawn'[q] = IF q = p THEN "registering" ELSE spawn[q]
    BY <1>5 DEF Created, TypeOK
  <2>3. \A q \in Spawns : Flying(q)' <=> Flying(q)
    BY <2>1, <2>2 DEF Flying, InFlight
  <2> QED BY <2>1, <2>2, <2>3
          DEF Held, FlyingReserve, ReservedFly, OneFlying, LiveMapped, MapLive, RoomKept, Taken
<1>6. ASSUME NEW p \in Spawns, spawn[p] \in {"creating", "destroying"}, NEW last \in {"failed", "leaked"},
             spawn' = [spawn EXCEPT ![p] = last],
             sandboxes' = [sandboxes EXCEPT ![nameOf[p]] = None],
             UNCHANGED <<nameOf, phase>>
      PROVE  Held'
  <2>1. /\ Held /\ Flying(p) /\ nameOf[p] \in Names
        /\ sandboxes[nameOf[p]] = "reserved"
    BY <1>6 DEF SandboxInv, Early, Held, FlyingReserve, Flying, InFlight, NamesGiven
  <2>2. /\ \A n \in Names : sandboxes'[n] = IF n = nameOf[p] THEN None ELSE sandboxes[n]
        /\ \A q \in Spawns : spawn'[q] = IF q = p THEN last ELSE spawn[q]
    BY <1>6 DEF TypeOK
  <2>3. \A q \in Spawns \ {p} : Flying(q) => nameOf[q] # nameOf[p]
    BY <2>1 DEF Held, OneFlying
  <2>4. FlyingReserve' /\ OneFlying'
    BY <1>6, <2>1, <2>2, <2>3 DEF Held, FlyingReserve, OneFlying, Flying, InFlight, NamesGiven
  <2>5. ReservedFly'
    <3> SUFFICES ASSUME NEW n \in Names, sandboxes'[n] = "reserved"
                 PROVE  \E q \in Spawns : Flying(q)' /\ nameOf[q] = n
      BY <1>6 DEF ReservedFly
    <3>1. n # nameOf[p] /\ sandboxes[n] = "reserved"
      BY <2>2, SessionConstants
    <3>2. PICK q \in Spawns : Flying(q) /\ nameOf[q] = n
      BY <2>1, <3>1 DEF Held, ReservedFly
    <3>3. q # p /\ Flying(q)'
      BY <2>2, <3>1, <3>2 DEF Flying
    <3> QED BY <3>2, <3>3
  <2>6. LiveMapped'
    BY <1>6, <2>1, <2>2, SessionConstants DEF Held, LiveMapped, NamesGiven
  <2>7. MapLive'
    BY <1>6, <2>1, <2>2, SessionConstants DEF Held, MapLive, InFlight
  <2>8. Taken' \subseteq Taken /\ IsFiniteSet(Taken)
    BY <2>2, SessionConstants, FS_Subset DEF Taken
  <2>9. RoomKept'
    <3>1. /\ Cardinality(Taken') <= Cardinality(Taken) /\ Cardinality(Taken) \in Nat
          /\ Cardinality(Taken') \in Nat
      BY <2>8, FS_Subset, FS_CardinalityType
    <3> QED BY <2>1, <3>1, SessionConstants DEF Held, RoomKept
  <2> QED BY <2>4, <2>5, <2>6, <2>7, <2>9 DEF Held
<1>7. ASSUME NEW p \in Spawns, CreateFails(p) PROVE Held'
  BY <1>6, <1>7 DEF CreateFails
<1>8. ASSUME NEW p \in Spawns, NEW ok \in BOOLEAN, Undone(p, ok) PROVE Held'
  BY <1>6, <1>8 DEF Undone
<1>9. ASSUME NEW p \in Spawns, NEW ok \in BOOLEAN, Torn(p, ok) PROVE Held'
  <2>1. /\ Held /\ UNCHANGED <<sandboxes, nameOf, phase>>
        /\ spawn[p] = "live" /\ phase = "destroying"
    BY <1>9 DEF Torn, SandboxInv, Early, DoomedLive
  <2>2. PICK last \in {"destroyed", "leaked"} :
          \A q \in Spawns : spawn'[q] = IF q = p THEN last ELSE spawn[q]
    BY <1>9 DEF Torn, TypeOK
  <2>3. \A q \in Spawns : Flying(q)' <=> Flying(q)
    BY <2>1, <2>2 DEF Flying, InFlight
  <2> QED BY <2>1, <2>2, <2>3
          DEF Held, FlyingReserve, ReservedFly, OneFlying, LiveMapped, MapLive, RoomKept, Taken
<1>10. ASSUME NEW survive \in 0 .. Len(toRelay), SocketClosed(survive) PROVE Held'
  BY <1>0, <1>10 DEF SocketClosed, AfterClose, Early
<1>11. CASE Close
  BY <1>11 DEF Close, SandboxInv, Early, Held, Flying, FlyingReserve,
              ReservedFly, OneFlying, LiveMapped, MapLive, RoomKept, Taken
<1> QED
  BY <1>0, <1>1, <1>2, <1>3, <1>4, <1>5, <1>7, <1>8, <1>9, <1>10, <1>11
  DEF Next, vars, Send, Answer, Complete, ReceiveResponse, ReceiveState, RpcTimeout, WaitFor,
      WaitTimeout

LEMMA DoomedStep ==
  ASSUME TypeOK, NamesGiven, SandboxInv, [Next]_vars
  PROVE  DoomedLive' /\ CloudHeld' /\ ReadyDoomed'
<1> USE DEF spawning, closing
<1> DEFINE Goal == DoomedLive' /\ CloudHeld' /\ ReadyDoomed'
<1>0. ASSUME UNCHANGED <<sandboxes, spawn, cloud, phase, doomed, ready>> PROVE Goal
  BY <1>0 DEF SandboxInv, DoomedLive, CloudHeld, ReadyDoomed
<1>1. ASSUME NEW p \in Spawns, Registered(p) PROVE Goal
  <2>1. spawn[p] = "registering" /\ UNCHANGED <<nameOf, cloud, closing>>
    BY <1>1 DEF Registered, RegisterSettled
  <2>2. PICK next \in {"live", "destroying"} :
          \A q \in Spawns : spawn'[q] = IF q = p THEN next ELSE spawn[q]
    BY <1>1 DEF Registered, TypeOK
  <2>3. DoomedLive' /\ CloudHeld'
    BY <2>1, <2>2 DEF SandboxInv, DoomedLive, CloudHeld, TypeOK
  <2>4. ASSUME phase = "unregistering"
        PROVE  \A q \in ready : \E n \in Names : sandboxes'[n] = q
    <3>1. sandboxes[nameOf[p]] = "reserved" /\ nameOf[p] \in Names
      BY <2>1, <2>4 DEF SandboxInv, Early, Held, FlyingReserve, Flying, InFlight, NamesGiven
    <3>2. \A n \in Names \ {nameOf[p]} : sandboxes'[n] = sandboxes[n]
      BY <1>1 DEF Registered, TypeOK
    <3>3. \A q \in ready : \E n \in Names : sandboxes[n] = q
      BY <2>4 DEF SandboxInv, ReadyDoomed
    <3>4. \A q \in ready : q # "reserved"
      BY SessionConstants DEF TypeOK
    <3> QED BY <3>1, <3>2, <3>3, <3>4
  <2>5. ReadyDoomed'
    BY <2>1, <2>2, <2>4 DEF SandboxInv, ReadyDoomed, TypeOK
  <2> QED BY <2>3, <2>5
<1>2. CASE DestroyAll
  <2>1. Held /\ phase = "unregistering"
    BY <1>2 DEF DestroyAll, AllUnregistered, SandboxInv, Early
  <2>2. \A p \in Live : spawn[p] = "live"
    BY <2>1 DEF Held, MapLive, Live
  <2>3. ready \subseteq Live
    BY <2>1 DEF SandboxInv, ReadyDoomed, Live, TypeOK
  <2> QED BY <1>2, <2>1, <2>2, <2>3
          DEF DestroyAll, SandboxInv, DoomedLive, CloudHeld, ReadyDoomed
<1>3. CASE Disconnect
  BY <1>3 DEF Disconnect, AllDestroyed, SandboxInv, DoomedLive, CloudHeld, ReadyDoomed
<1>4. ASSUME NEW p \in Spawns, spawn[p] \in {"none", "creating", "destroying"},
             NEW next \in InFlight \cup {"failed", "leaked"},
             spawn' = [spawn EXCEPT ![p] = next],
             p \in cloud' => next \in {"registering", "leaked"},
             cloud' \subseteq cloud \cup {p},
             NEW n \in Names, NEW held,
             phase = "unregistering" => sandboxes[n] \notin Spawns,
             sandboxes' = [sandboxes EXCEPT ![n] = held],
             UNCHANGED closing
      PROVE  Goal
  <2>1. \A q \in Spawns : spawn'[q] = IF q = p THEN next ELSE spawn[q]
    BY <1>4 DEF TypeOK
  <2>2. DoomedLive'
    BY <1>4, <2>1 DEF SandboxInv, DoomedLive, TypeOK
  <2>3. CloudHeld'
    BY <1>4, <2>1 DEF SandboxInv, CloudHeld, TypeOK
  <2>4. phase = "unregistering" =>
          \A m \in Names : sandboxes[m] \in Spawns => sandboxes'[m] = sandboxes[m]
    BY <1>4 DEF TypeOK
  <2>5. ReadyDoomed'
    BY <1>4, <2>1, <2>4 DEF SandboxInv, ReadyDoomed, TypeOK
  <2> QED BY <2>2, <2>3, <2>5
<1>5. ASSUME NEW p \in Spawns, NEW n \in Names, Spawn(p, n) PROVE Goal
  <2>1. p \notin cloud
    BY <1>5 DEF Spawn, SandboxInv, CloudHeld
  <2> QED BY <1>4, <1>5, <2>1, SessionConstants DEF Spawn, InFlight
<1>6. ASSUME NEW p \in Spawns, spawn[p] \in InFlight
      PROVE  nameOf[p] \in Names /\ (phase = "unregistering" => sandboxes[nameOf[p]] \notin Spawns)
  BY <1>6, SessionConstants
  DEF SandboxInv, Early, Held, FlyingReserve, Flying, InFlight, NamesGiven
<1>7. ASSUME NEW p \in Spawns, CreateFails(p) PROVE Goal
  <2>1. spawn[p] = "creating" /\ p \notin cloud /\ cloud' = cloud
    BY <1>7 DEF CreateFails, SandboxInv, CloudHeld
  <2>2. /\ nameOf[p] \in Names /\ (phase = "unregistering" => sandboxes[nameOf[p]] \notin Spawns)
        /\ "failed" \in InFlight \cup {"failed", "leaked"}
    BY <1>6, <2>1 DEF InFlight
  <2> QED BY <1>4, <1>7, <2>1, <2>2 DEF CreateFails
<1>8. ASSUME NEW p \in Spawns, NEW ok \in BOOLEAN, Undone(p, ok) PROVE Goal
  <2>1. spawn[p] = "destroying" /\ UNCHANGED closing
    BY <1>8 DEF Undone
  <2>2. nameOf[p] \in Names /\ (phase = "unregistering" => sandboxes[nameOf[p]] \notin Spawns)
    BY <1>6, <2>1 DEF InFlight
  <2>3. PICK last \in {"failed", "leaked"} :
          /\ spawn' = [spawn EXCEPT ![p] = last]
          /\ p \in cloud' => last = "leaked"
          /\ cloud' \subseteq cloud
    BY <1>8 DEF Undone
  <2>4. sandboxes' = [sandboxes EXCEPT ![nameOf[p]] = None]
    BY <1>8 DEF Undone
  <2>5. last \in InFlight \cup {"failed", "leaked"}
    OBVIOUS
  <2> QED BY <1>4, <2>1, <2>2, <2>3, <2>4, <2>5
<1>9. ASSUME NEW p \in Spawns, Created(p) PROVE Goal
  <2>1. /\ spawn[p] = "creating" /\ UNCHANGED <<sandboxes, closing>>
        /\ cloud' = cloud \cup {p} /\ spawn' = [spawn EXCEPT ![p] = "registering"]
    BY <1>9 DEF Created
  <2>2. nameOf[p] \in Names /\ (phase = "unregistering" => sandboxes[nameOf[p]] \notin Spawns)
    BY <1>6, <2>1 DEF InFlight
  <2>3. sandboxes' = [sandboxes EXCEPT ![nameOf[p]] = sandboxes[nameOf[p]]]
    BY <2>1 DEF TypeOK
  <2>4. "registering" \in InFlight \cup {"failed", "leaked"}
    BY DEF InFlight
  <2> QED BY <1>4, <2>1, <2>2, <2>3, <2>4
<1>10. ASSUME NEW p \in Spawns, NEW ok \in BOOLEAN, Torn(p, ok) PROVE Goal
  <2>1. /\ p \in doomed /\ doomed' = doomed \ {p} /\ phase = "destroying"
        /\ UNCHANGED <<sandboxes, phase, ready>>
    BY <1>10 DEF Torn, SandboxInv, DoomedLive
  <2>2. PICK last \in {"destroyed", "leaked"} :
          /\ \A q \in Spawns : spawn'[q] = IF q = p THEN last ELSE spawn[q]
          /\ p \in cloud' => last = "leaked"
          /\ cloud' \subseteq cloud
    BY <1>10 DEF Torn, TypeOK
  <2> QED BY <2>1, <2>2 DEF SandboxInv, DoomedLive, CloudHeld, ReadyDoomed, TypeOK
<1>11. ASSUME NEW survive \in 0 .. Len(toRelay), SocketClosed(survive) PROVE Goal
  BY <1>11 DEF SocketClosed, AfterClose, SandboxInv, DoomedLive, CloudHeld, ReadyDoomed
<1>12. CASE Close
  BY <1>12 DEF Close, SandboxInv, DoomedLive, CloudHeld, ReadyDoomed
<1> QED
  BY <1>0, <1>1, <1>2, <1>3, <1>5, <1>7, <1>8, <1>9, <1>10, <1>11, <1>12
  DEF Next, vars, Send, Answer, Complete, ReceiveResponse, ReceiveState, RpcTimeout, WaitFor,
      WaitTimeout

LEMMA SandboxesAlways == Spec => [](TypeOK /\ NamesGiven /\ SandboxInv)
<1>1. Init => SandboxInv
  <2> SUFFICES ASSUME Init PROVE SandboxInv
    OBVIOUS
  <2>1. Taken = {}
    BY DEF Init, Taken
  <2>2. RoomKept
    BY <2>1, FS_EmptySet, SessionConstants DEF RoomKept
  <2> QED BY <2>2, SessionConstants
          DEF Init, SandboxInv, Held, FlyingReserve, ReservedFly, OneFlying, LiveMapped, MapLive,
              DoomedLive, CloudHeld, ReadyDoomed, Flying, InFlight
<1>2. TypeOK /\ Named /\ SandboxInv /\ [Next]_vars => SandboxInv'
  BY HeldStep, DoomedStep DEF Named, SandboxInv
<1> QED BY <1>1, <1>2, TypesAndNames, PTL DEF Spec, Named

(* spawn reserves its name: two sandboxes never get one name, and a name is *)
(* free again only when its sandbox is gone.                                *)
THEOREM NamesSafe == Spec => []NamesHeld
<1>1. TypeOK /\ NamesGiven /\ SandboxInv => NamesHeld
  <2> SUFFICES ASSUME TypeOK, NamesGiven, SandboxInv, Early, NEW n \in Names,
                      NEW flying, flying = {p \in Spawns : spawn[p] \in InFlight /\ nameOf[p] = n}
               PROVE  /\ sandboxes[n] = "reserved" <=> flying # {}
                      /\ Cardinality(flying) <= 1
                      /\ \A p \in Spawns : sandboxes[n] = p =>
                           nameOf[p] = n /\ spawn[p] \in {"live", "destroyed", "leaked"}
    BY DEF NamesHeld, Early
  <2>1. Held
    BY DEF SandboxInv
  <2>2. sandboxes[n] = "reserved" <=> flying # {}
    BY <2>1 DEF Held, FlyingReserve, ReservedFly, Flying
  <2>3. Cardinality(flying) <= 1
    <3>1. CASE flying = {}
      BY <3>1, FS_EmptySet
    <3>2. ASSUME NEW p \in flying PROVE Cardinality(flying) <= 1
      <4>1. flying = {p}
        BY <2>1 DEF Held, OneFlying, Flying
      <4> QED BY <4>1, FS_Singleton
    <3> QED BY <3>1, <3>2
  <2> QED BY <2>1, <2>2, <2>3 DEF Held, MapLive
<1> QED BY <1>1, SandboxesAlways, PTL

(* maxSandboxes bounds what the provider runs, not only the map. *)
THEOREM InstancesSafe == Spec => []InstancesBounded
<1>1. TypeOK /\ NamesGiven /\ SandboxInv => InstancesBounded
  <2> SUFFICES ASSUME TypeOK, NamesGiven, SandboxInv, Early
               PROVE  Cardinality({p \in cloud : spawn[p] # "leaked"}) <= MaxSandboxes
    BY DEF InstancesBounded, Early
  <2> DEFINE S == {p \in cloud : spawn[p] # "leaked"}
             f == [p \in S |-> nameOf[p]]
  <2>1. Held
    BY DEF SandboxInv
  <2>2. \A p \in S : /\ p \in Spawns /\ nameOf[p] \in Taken
                     /\ (Flying(p) /\ sandboxes[nameOf[p]] = "reserved")
                          \/ sandboxes[nameOf[p]] = p
    <3> SUFFICES ASSUME NEW p \in S
                 PROVE  /\ p \in Spawns /\ nameOf[p] \in Taken
                        /\ (Flying(p) /\ sandboxes[nameOf[p]] = "reserved")
                             \/ sandboxes[nameOf[p]] = p
      OBVIOUS
    <3>1. p \in Spawns /\ (spawn[p] = "live" \/ Flying(p))
      BY DEF SandboxInv, CloudHeld, TypeOK, Flying, InFlight
    <3>2. nameOf[p] \in Names
      BY <3>1 DEF NamesGiven, Flying, InFlight
    <3> QED BY <2>1, <3>1, <3>2, SessionConstants DEF Held, FlyingReserve, LiveMapped, Taken
  <2>3. \A p, q \in S : nameOf[p] = nameOf[q] => p = q
    BY <2>1, <2>2, SessionConstants DEF Held, OneFlying
  <2>4. f \in [S -> Taken]
    BY <2>2
  <2>5. f \in Injection(S, Taken)
    BY <2>3, <2>4 DEF Injection, IsInjective
  <2>6. IsFiniteSet(Taken)
    BY SessionConstants, FS_Subset DEF Taken
  <2>7. IsFiniteSet(S) /\ Cardinality(S) <= Cardinality(Taken)
    BY <2>5, <2>6, FS_Injection
  <2>8. Cardinality(S) \in Nat /\ Cardinality(Taken) \in Nat /\ MaxSandboxes \in Nat
    BY <2>6, <2>7, FS_CardinalityType, SessionConstants
  <2>9. Cardinality(Taken) <= MaxSandboxes
    BY <2>1 DEF Held, RoomKept
  <2> HIDE DEF S
  <2>10. Cardinality(S) <= MaxSandboxes
    BY <2>7, <2>8, <2>9
  <2> QED BY <2>10 DEF S
<1> QED BY <1>1, SandboxesAlways, PTL

(* close() destroys every sandbox that was ready when it was called. *)
THEOREM CloseSafe == Spec => []ReadyDestroyed
<1>1. TypeOK /\ SandboxInv => ReadyDestroyed
  BY DEF SandboxInv, ReadyDoomed, DoomedLive, CloudHeld, ReadyDestroyed, TypeOK
<1> QED BY <1>1, SandboxesAlways, PTL
=============================================================================
